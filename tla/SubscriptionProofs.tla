------------------------- MODULE SubscriptionProofs -------------------------
(***************************************************************************)
(* Proofs about the subscription manager, for any Switches, agents, tables *)
(* and faults.                                                             *)
(*                                                                         *)
(* A write to Switch.status is compared with the version it was made from, *)
(* and that is all that orders the writes of a live runner, of cancelled   *)
(* ones and of the sync goroutine.  The argument: only one runner of a     *)
(* Switch is live (OneLive); the snapshot it is about to write, or will    *)
(* receive next, is no older than any that is stored or on its way         *)
(* (Ahead); so an update that carries the current version is no older than *)
(* what it replaces (Locked).                                              *)
(*                                                                         *)
(* Two more results rest on that invariant: to every agent the runners are *)
(* the streams of a feed (FeedInv), and what a live subscription has       *)
(* stored stays (KeepInv: the updates of cancelled runners are outdated by *)
(* then, and a Switch is cleared only after its subscription stopped).     *)
(***************************************************************************)
EXTENDS SubscriptionManager, TLAPS

IsStatus(s) ==
  /\ "origin" \in DOMAIN s
  /\ s.origin = Nil \/ s.origin \in Origin

IsObject(o) ==
  /\ "exists" \in DOMAIN o /\ "mgmt" \in DOMAIN o /\ "status" \in DOMAIN o /\ "rv" \in DOMAIN o
  /\ o.mgmt \in Target \cup {Nil} /\ o.rv \in Nat /\ IsStatus(o.status)

\* The kind of closure a writer hands to mutateSwitchStatus at this moment.
KindOf(w) ==
  IF w = Syncer THEN "clear" ELSE IF runner[w].pc = "handling" THEN "accept" ELSE "mark"

IsOp(w) ==
  \/ op[w] = NoOp
  \/ /\ op[w].phase \in {"get", "put"} /\ op[w].sw \in Switch /\ (w # Syncer => op[w].sw = w[1])
     /\ op[w].change.kind = KindOf(w)
     /\ KindOf(w) = "accept" => op[w].change.origin \in Origin
     /\ op[w].phase = "put" => IsStatus(op[w].body) /\ op[w].rv \in Nat

IsRunner(r) ==
  /\ "pc" \in DOMAIN runner[r] /\ "live" \in DOMAIN runner[r] /\ "target" \in DOMAIN runner[r]
  /\ runner[r].pc # "off" => runner[r].target \in Target
  /\ runner[r].pc = "off" => ~runner[r].live
  /\ (op[r] # NoOp) = (runner[r].pc \in {"handling", "marking"})
  /\ r \in streams => runner[r].pc \in {"receiving", "handling"}

ApiTypes ==
  /\ DOMAIN obj = Switch /\ DOMAIN cache = Switch
  /\ \A sw \in Switch : IsObject(obj[sw]) /\ IsObject(cache[sw])

SyncTypes ==
  /\ "todo" \in DOMAIN sync /\ "want" \in DOMAIN sync
  /\ sync.todo \subseteq Switch /\ sync.want \in [Switch -> Target \cup {Nil}]
  /\ subscriptions \in [Switch -> Target \cup {Nil}]

RunTypes ==
  /\ DOMAIN runner = Runner /\ (\A r \in Runner : IsRunner(r))
  /\ op = [w \in Writer |-> op[w]] /\ (\A w \in Writer : IsOp(w))
  /\ view \in [Runner -> Nat]

FeedTypes ==
  /\ DOMAIN log = Target /\ (\A t \in Target : \E S : log[t] \in Seq(S))
  /\ epoch \in [Target -> Nat]

Types == ApiTypes /\ SyncTypes /\ RunTypes /\ FeedTypes

OneLive ==
  /\ \A r \in Runner : runner[r].live => subscriptions[r[1]] # Nil /\ runner[r].target = subscriptions[r[1]]
  /\ \A r, q \in Runner : runner[r].live /\ runner[q].live /\ r[1] = q[1] => r = q
  /\ \A sw \in Switch : subscriptions[sw] # Nil => \E r \in Runner : r[1] = sw /\ runner[r].live

\* Snapshot a is not newer than b, if they are from one life of one agent.
NotNewer(a, b) ==
  a # Nil /\ b # Nil /\ a.target = b.target /\ a.epoch = b.epoch => a.gen <= b.gen

\* The agent has published the snapshot, in this life or an earlier one.
Published(a) ==
  a # Nil => /\ a.epoch <= epoch[a.target]
             /\ a.epoch = epoch[a.target] => a.gen <= Len(log[a.target])

\* The snapshots of a Switch that are stored or about to be.
Around(sw) ==
  {obj[sw].status.origin}
    \cup {op[r].change.origin : r \in {q \in Runner : q[1] = sw /\ runner[q].pc = "handling"}}

\* r has a snapshot in hand, or gets the next one, that is no older than a.
Follows(r, a) ==
  /\ runner[r].pc = "handling" => NotNewer(a, op[r].change.origin)
  /\ r \in streams /\ a # Nil /\ a.target = runner[r].target /\ a.epoch = epoch[a.target] => a.gen <= view[r] + 1

Ahead ==
  /\ \A sw \in Switch : \A a \in Around(sw) : Published(a)
  /\ \A r \in Runner : runner[r].live => \A a \in Around(r[1]) : Follows(r, a)

Versions ==
  \A sw \in Switch : /\ cache[sw].rv <= obj[sw].rv
                     /\ cache[sw].rv = obj[sw].rv => cache[sw].status = obj[sw].status

Locked ==
  \A w \in Writer : op[w].phase = "put" =>
    LET o == obj[op[w].sw]
    IN /\ op[w].rv <= o.rv
       /\ op[w].rv = o.rv => NotNewer(o.status.origin, op[w].body.origin)
       /\ KindOf(w) = "accept" => op[w].body.origin = op[w].change.origin
       /\ KindOf(w) # "accept" /\ op[w].rv = o.rv => op[w].body.origin \in {Nil, o.status.origin}

IInv == Types /\ OneLive /\ Ahead /\ Versions /\ Locked

USE ManagerAssumptions, ZenonT(40)

-----------------------------------------------------------------------------
LEMMA RunnerPair == ASSUME NEW r \in Runner PROVE r[1] \in Switch /\ r # Syncer /\ r \in Writer
  BY DEF Runner, Writer

LEMMA NoStream == \E S : << >> \in Seq(S)
<1> DEFINE E == {}
<1>1. << >> \in Seq(E)
  BY SMT
<1> HIDE DEF E
<1> QED
  BY <1>1

LEMMA EmptyIsStatus == IsStatus(EmptyStatus) /\ EmptyStatus.origin = Nil
  BY DEF IsStatus, EmptyStatus

LEMMA FreshObject ==
  ASSUME NEW t \in Target \cup {Nil}, NEW rv \in Nat
  PROVE  /\ IsObject(NewSwitch(t, rv)) /\ NewSwitch(t, rv).status.origin = Nil /\ NewSwitch(t, rv).rv = rv
         /\ IsObject(Absent(rv)) /\ Absent(rv).status.origin = Nil /\ Absent(rv).rv = rv
<1>1. \A u \in Target \cup {Nil} : /\ IsObject(NewSwitch(u, rv)) /\ NewSwitch(u, rv).status = EmptyStatus
                                   /\ NewSwitch(u, rv).rv = rv
  BY EmptyIsStatus DEF IsObject, NewSwitch
<1> DEFINE n == NewSwitch(Nil, rv)
<1>2. IsObject(n) /\ n.status = EmptyStatus /\ n.rv = rv
  BY <1>1
<1> HIDE DEF n
<1>3. IsObject([n EXCEPT !.exists = FALSE]) /\ [n EXCEPT !.exists = FALSE].status = EmptyStatus
      /\ [n EXCEPT !.exists = FALSE].rv = rv
  BY <1>2 DEF IsObject
<1> QED
  BY <1>1, <1>3, EmptyIsStatus DEF Absent, n

LEMMA StatusShape ==
  ASSUME NEW A, NEW B, NEW C, NEW D, NEW E, NEW F,
         NEW s \in [healthy : A, connected : B, ready : C, observed : D, neighbors : E, origin : F]
  PROVE  "origin" \in DOMAIN s /\ s.origin \in F /\ "neighbors" \in DOMAIN s
  OBVIOUS

LEMMA ObjectTyped == ASSUME NEW o \in Object PROVE IsObject(o)
<1>1. o.status \in Status /\ o.mgmt \in Target \cup {Nil} /\ o.rv \in Nat
  BY DEF Object
<1>2. "exists" \in DOMAIN o /\ "mgmt" \in DOMAIN o /\ "status" \in DOMAIN o /\ "rv" \in DOMAIN o
  BY DEF Object
<1>3. IsStatus(o.status)
  BY <1>1, StatusShape DEF Status, IsStatus
<1> QED
  BY <1>1, <1>2, <1>3 DEF IsObject

LEMMA InitInv == Init => IInv
<1> SUFFICES ASSUME Init PROVE IInv
  OBVIOUS
<1>1. PICK s \in Scenarios : obj \in s.objects
  BY DEF Init
<1>2. obj \in [Switch -> Object] /\ (\A sw \in Switch : obj[sw].status.origin = Nil) /\ cache = obj
  BY <1>1, ScenarioAssumption DEF Init
<1>3. \A sw \in Switch : IsObject(obj[sw]) /\ IsObject(cache[sw])
  BY <1>2, ObjectTyped
<1>4. \A r \in Runner : runner[r] = NoRunner /\ op[r] = NoOp /\ r \notin streams
  BY DEF Init, Writer
<1>5. \A r \in Runner : IsRunner(r)
  BY <1>4, SMT DEF IsRunner, NoRunner
<1>6. \A w \in Writer : op[w] = NoOp /\ op[w].phase = "none"
  BY DEF Init, NoOp
<1>7. \A t \in Target : \E S : log[t] \in Seq(S)
  BY NoStream DEF Init
<1>8. Types
  BY <1>2, <1>3, <1>5, <1>6, <1>7 DEF Types, ApiTypes, SyncTypes, RunTypes, FeedTypes, IsOp, Init, NoSync
<1>9. OneLive
  BY <1>4 DEF OneLive, NoRunner, Init
<1>10. Ahead
  BY <1>2, <1>4, SMT DEF Ahead, Around, Published, NoRunner
<1>11. Versions
  BY <1>2, <1>3, SMT DEF Versions, IsObject
<1>12. Locked
  BY <1>6 DEF Locked
<1> QED
  BY <1>8, <1>9, <1>10, <1>11, <1>12 DEF IInv

(***************************************************************************)
(* Ahead and Locked, when no new snapshot is received: what is around does *)
(* not grow, and a live runner has what it had or less.                    *)
(***************************************************************************)
LEMMA AheadKept ==
  ASSUME Ahead,
         \A sw \in Switch : Around(sw)' \subseteq Around(sw) \cup {Nil},
         \A sw \in Switch : \A a \in Around(sw) : Published(a) => Published(a)',
         \A r \in Runner : runner'[r].live =>
           /\ runner'[r].pc = "handling" =>
                runner[r].live /\ runner[r].pc = "handling" /\ op'[r].change = op[r].change
           /\ r \in streams' =>
                /\ runner[r].live /\ r \in streams /\ view'[r] = view[r] /\ runner'[r].target = runner[r].target
                /\ epoch'[runner[r].target] = epoch[runner[r].target]
  PROVE  Ahead'
<1>1. ASSUME NEW sw \in Switch, NEW a \in Around(sw)' PROVE Published(a)'
  <2>1. CASE a = Nil
    BY <2>1 DEF Published
  <2>2. CASE a \in Around(sw)
    BY <2>2 DEF Ahead
  <2> QED
    BY <1>1, <2>1, <2>2
<1>2. ASSUME NEW r \in Runner, runner'[r].live, NEW a \in Around(r[1])' PROVE Follows(r, a)'
  <2>1. CASE a = Nil
    BY <2>1 DEF Follows, NotNewer
  <2>2. CASE a \in Around(r[1]) /\ a # Nil
    BY <1>2, <2>2, SMT DEF Ahead, Follows, NotNewer
  <2>3. a \in Around(r[1]) \cup {Nil}
    BY <1>2, RunnerPair
  <2> QED
    BY <2>1, <2>2, <2>3
<1> QED
  BY <1>1, <1>2 DEF Ahead

LEMMA OneLiveKept ==
  ASSUME OneLive, UNCHANGED subscriptions,
         \A r \in Runner : /\ runner'[r].live <=> runner[r].live
                           /\ runner[r].live => runner'[r].target = runner[r].target
  PROVE  OneLive'
<1>1. \A r \in Runner : runner'[r].live => subscriptions'[r[1]] # Nil /\ runner'[r].target = subscriptions'[r[1]]
  BY DEF OneLive
<1>2. \A r, q \in Runner : runner'[r].live /\ runner'[q].live /\ r[1] = q[1] => r = q
  BY DEF OneLive
<1>3. \A sw \in Switch : subscriptions'[sw] # Nil => \E r \in Runner : r[1] = sw /\ runner'[r].live
  BY DEF OneLive
<1> QED
  BY <1>1, <1>2, <1>3 DEF OneLive

(* No runner takes in a snapshot, and writer w leaves its update.          *)
Calm(w) ==
  /\ \A q \in Runner :
       /\ runner'[q].live <=> runner[q].live
       /\ runner[q].live => runner'[q].target = runner[q].target
       /\ runner'[q].pc = "handling" => runner[q].pc = "handling" /\ op'[q].change = op[q].change
       /\ q \in streams' => q \in streams /\ view'[q] = view[q]
  /\ \A v \in Writer : op'[v].phase = "put" => v # w /\ op'[v] = op[v] /\ KindOf(v)' = KindOf(v)

LEMMA CalmStep ==
  ASSUME IInv, NEW w, Calm(w), UNCHANGED <<obj, cache, subscriptions, log, epoch>>, RunTypes', SyncTypes'
  PROVE  IInv'
<1>1. Types'
  BY DEF IInv, Types, ApiTypes, FeedTypes
<1>2. OneLive'
  BY OneLiveKept DEF Calm, IInv
<1>3. \A sw \in Switch : Around(sw)' \subseteq Around(sw) \cup {Nil}
  BY SMT DEF Around, Calm
<1>4. \A a : Published(a) => Published(a)'
  BY DEF Published
<1>5. Ahead'
  BY <1>3, <1>4, AheadKept DEF IInv, Calm
<1>6. Versions' /\ Locked'
  BY SMT DEF IInv, Versions, Locked, Calm
<1> QED
  BY <1>1, <1>2, <1>5, <1>6 DEF IInv

LEMMA StoredStep ==
  ASSUME IInv, NEW w \in Writer, op[w].phase = "put", Current(w), Store(w), Calm(w),
         UNCHANGED <<cache, subscriptions, log, epoch>>, RunTypes', SyncTypes'
  PROVE  IInv'
<1> DEFINE sw == op[w].sw
<1>1. /\ sw \in Switch /\ IsStatus(op[w].body) /\ op[w].rv = obj[sw].rv /\ obj[sw].rv \in Nat
      /\ w # Syncer => w \in Runner /\ sw = w[1]
  <2>1. IsOp(w) /\ op[w] # NoOp
    BY SMT DEF IInv, Types, RunTypes, NoOp
  <2> QED
    BY <2>1 DEF IInv, Types, ApiTypes, IsOp, IsObject, Current, Writer
<1>2. /\ obj' = [obj EXCEPT ![sw].status = op[w].body, ![sw].rv = @ + 1]
  BY DEF Store
<1>3. /\ DOMAIN obj' = Switch /\ \A x \in Switch \ {sw} : obj'[x] = obj[x]
      /\ obj'[sw] = [obj[sw] EXCEPT !.status = op[w].body, !.rv = @ + 1]
  BY <1>1, <1>2 DEF IInv, Types, ApiTypes
<1>4. IsObject(obj'[sw]) /\ obj'[sw].status = op[w].body /\ obj'[sw].rv = obj[sw].rv + 1
  BY <1>1, <1>3, SMT DEF IInv, Types, ApiTypes, IsObject
<1>5. Types'
  BY <1>3, <1>4 DEF IInv, Types, ApiTypes, FeedTypes
<1>6. OneLive'
  BY OneLiveKept DEF Calm, IInv
<1>7. op[w].body.origin \in Around(sw) \cup {Nil}
  <2>1. CASE KindOf(w) = "accept"
    <3>1. w # Syncer /\ runner[w].pc = "handling" /\ op[w].body.origin = op[w].change.origin
      BY <2>1 DEF KindOf, IInv, Locked
    <3> QED
      BY <1>1, <3>1 DEF Around
  <2>2. CASE KindOf(w) # "accept"
    BY <1>1, <2>2 DEF IInv, Locked, Around
  <2> QED
    BY <2>1, <2>2
<1>8. ASSUME NEW x \in Switch PROVE Around(x)' \subseteq Around(x) \cup {Nil}
  <2>1. obj'[x].status.origin \in Around(x) \cup {Nil}
    <3>1. CASE x = sw
      BY <1>4, <1>7, <3>1
    <3>2. CASE x # sw
      BY <1>3, <3>2 DEF Around
    <3> QED
      BY <3>1, <3>2
  <2> QED
    BY <2>1, SMT DEF Around, Calm
<1>9. \A a : Published(a) => Published(a)'
  BY DEF Published
<1>10. Ahead'
  BY <1>8, <1>9, AheadKept DEF IInv, Calm
<1>11. Versions'
  <2> SUFFICES ASSUME NEW x \in Switch
               PROVE  cache[x].rv <= obj'[x].rv /\ (cache[x].rv = obj'[x].rv => cache[x].status = obj'[x].status)
    BY DEF Versions
  <2>1. /\ cache[x].rv \in Nat /\ obj[x].rv \in Nat /\ cache[x].rv <= obj[x].rv
        /\ cache[x].rv = obj[x].rv => cache[x].status = obj[x].status
    BY DEF IInv, Versions, Types, ApiTypes, IsObject
  <2>2. CASE x = sw
    BY <1>4, <2>1, <2>2, SMT
  <2>3. CASE x # sw
    BY <1>3, <2>1, <2>3
  <2> QED
    BY <2>2, <2>3
<1>12. Locked'
  <2> SUFFICES ASSUME NEW v \in Writer, op'[v].phase = "put"
               PROVE  LET o == obj'[op'[v].sw]
                      IN /\ op'[v].rv <= o.rv
                         /\ op'[v].rv = o.rv => NotNewer(o.status.origin, op'[v].body.origin)
                         /\ KindOf(v)' = "accept" => op'[v].body.origin = op'[v].change.origin
                         /\ KindOf(v)' # "accept" /\ op'[v].rv = o.rv => op'[v].body.origin \in {Nil, o.status.origin}
    BY DEF Locked
  <2>1. op'[v] = op[v] /\ KindOf(v)' = KindOf(v) /\ op[v].phase = "put"
    BY DEF Calm
  <2>2. op[v].rv \in Nat /\ op[v].sw \in Switch /\ obj[op[v].sw].rv \in Nat
    BY <2>1, SMTT(30) DEF IInv, Types, ApiTypes, RunTypes, IsOp, IsObject, NoOp
  <2>3. CASE op[v].sw = sw
    BY <1>4, <2>1, <2>2, <2>3, SMTT(30) DEF IInv, Locked
  <2>4. CASE op[v].sw # sw
    BY <1>3, <2>1, <2>2, <2>4, SMTT(30) DEF IInv, Locked
  <2> QED
    BY <2>3, <2>4
<1> QED
  BY <1>5, <1>6, <1>10, <1>11, <1>12 DEF IInv

(* One runner and its call change.                                         *)
LEMMA OneRunner ==
  ASSUME RunTypes, NEW r \in Runner, NEW x, NEW y,
         runner' = [runner EXCEPT ![r] = x], op' = [op EXCEPT ![r] = y], streams' \subseteq streams \cup {r},
         view' \in [Runner -> Nat], IsRunner(r)', IsOp(r)'
  PROVE  /\ RunTypes' /\ runner'[r] = x /\ op'[r] = y
         /\ \A q \in Runner \ {r} : runner'[q] = runner[q]
         /\ \A v \in Writer \ {r} : op'[v] = op[v] /\ KindOf(v)' = KindOf(v)
<1>1. /\ DOMAIN runner' = Runner /\ op' = [v \in Writer |-> op'[v]] /\ runner'[r] = x /\ op'[r] = y
      /\ \A q \in Runner \ {r} : runner'[q] = runner[q]
      /\ \A v \in Writer \ {r} : op'[v] = op[v]
  BY RunnerPair DEF RunTypes
<1>2. \A v \in Writer \ {r} : KindOf(v)' = KindOf(v)
  BY <1>1 DEF KindOf, Writer
<1>3. \A v \in Writer : IsOp(v)'
  BY <1>1, <1>2, SMT DEF RunTypes, IsOp
<1>4. \A q \in Runner : IsRunner(q)'
  BY <1>1, RunnerPair DEF RunTypes, IsRunner
<1> QED
  BY <1>1, <1>2, <1>3, <1>4 DEF RunTypes

LEMMA BeginIsOp ==
  ASSUME NEW w, NEW sw \in Switch, w # Syncer => sw = w[1], NEW change,
         op'[w] = Begin(sw, change), change.kind = KindOf(w)',
         KindOf(w)' = "accept" => change.origin \in Origin
  PROVE  IsOp(w)' /\ op'[w] # NoOp /\ op'[w].phase = "get" /\ op'[w].change = change
<1>1. op'[w].phase = "get" /\ op'[w].sw = sw /\ op'[w].change = change /\ NoOp.phase = "none"
  BY SMT DEF Begin, NoOp
<1> QED
  BY <1>1 DEF IsOp

(* The runner stays as live as it was, and has no update on its way.       *)
LEMMA QuietRunner ==
  ASSUME IInv, NEW r \in Runner, NEW x, NEW y,
         runner' = [runner EXCEPT ![r] = x], op' = [op EXCEPT ![r] = y],
         streams' = streams \/ streams' = streams \ {r},
         view' = view \/ view' = [view EXCEPT ![r] = 0],
         r \in streams' => view' = view,
         IsRunner(r)', IsOp(r)',
         x.live <=> runner[r].live, x.target = runner[r].target \/ ~x.live, x.pc # "handling", y.phase # "put"
  PROVE  RunTypes' /\ Calm(r)
<1>1. view' \in [Runner -> Nat] /\ \A q \in Runner \ {r} : view'[q] = view[q]
  BY SMT DEF IInv, Types, RunTypes
<1>2. RunTypes
  BY DEF IInv, Types
<1>3. streams' \subseteq streams \cup {r}
  OBVIOUS
<1>4. /\ RunTypes' /\ runner'[r] = x /\ op'[r] = y
      /\ \A q \in Runner \ {r} : runner'[q] = runner[q]
      /\ \A v \in Writer \ {r} : op'[v] = op[v] /\ KindOf(v)' = KindOf(v)
  BY <1>1, <1>2, <1>3, OneRunner
<1>5. \A q \in Runner :
       /\ runner'[q].live <=> runner[q].live
       /\ runner[q].live => runner'[q].target = runner[q].target
  BY <1>4
<1>6. \A q \in Runner : runner'[q].pc = "handling" => runner[q].pc = "handling" /\ op'[q].change = op[q].change
  BY <1>4, RunnerPair
<1>7. \A q \in Runner : q \in streams' => q \in streams /\ view'[q] = view[q]
  BY <1>1
<1>8. \A v \in Writer : op'[v].phase = "put" => v # r /\ op'[v] = op[v] /\ KindOf(v)' = KindOf(v)
  BY <1>4
<1> QED
  BY <1>4, <1>5, <1>6, <1>7, <1>8 DEF Calm

LEMMA DisconnectStep ==
  ASSUME IInv, NEW r \in Runner, NEW reason, Disconnect(r, reason), runner[r].pc # "off"
  PROVE  RunTypes' /\ Calm(r) /\ UNCHANGED sync
<1> DEFINE x == [runner[r] EXCEPT !.pc = "marking"]
           y == Begin(r[1], Mark(reason))
<1>1. /\ runner' = [runner EXCEPT ![r] = x] /\ op' = [op EXCEPT ![r] = y]
      /\ streams' = streams \ {r} /\ view' = [view EXCEPT ![r] = 0] /\ UNCHANGED sync
  BY DEF Disconnect
<1>2. /\ "pc" \in DOMAIN x /\ "live" \in DOMAIN x /\ "target" \in DOMAIN x
      /\ x.pc = "marking" /\ (x.live <=> runner[r].live) /\ x.target = runner[r].target /\ runner[r].target \in Target
  BY DEF IInv, Types, RunTypes, IsRunner
<1>3. y.phase = "get" /\ Mark(reason).kind = "mark"
  BY DEF Begin, Mark
<1> HIDE DEF x
<1>4. runner'[r] = x /\ op'[r] = y
  BY <1>1, RunnerPair DEF IInv, Types, RunTypes
<1>5. KindOf(r)' = "mark"
  BY <1>2, <1>4, RunnerPair DEF KindOf
<1>6. IsOp(r)' /\ op'[r] # NoOp
  BY <1>3, <1>4, <1>5, BeginIsOp, RunnerPair
<1>7. IsRunner(r)'
  BY <1>1, <1>2, <1>4, <1>6 DEF IsRunner
<1> HIDE DEF y
<1> QED
  BY <1>1, <1>2, <1>3, <1>6, <1>7, QuietRunner

LEMMA NoSyncTyped == "todo" \in DOMAIN NoSync /\ "want" \in DOMAIN NoSync /\ NoSync.todo = {}
                     /\ NoSync.want \in [Switch -> Target \cup {Nil}]
  BY DEF NoSync

(* A call that ends, as its caller sees it.                                *)
LEMMA ReturnStep ==
  ASSUME IInv, NEW w \in Writer, op[w] # NoOp, NEW ok \in BOOLEAN, Return(w, ok), UNCHANGED subscriptions
  PROVE  RunTypes' /\ SyncTypes' /\ Calm(w)
<1>1. CASE w = Syncer
  <2>1. /\ sync' = IF ok THEN [sync EXCEPT !.todo = @ \ {op[w].sw}] ELSE NoSync
        /\ op' = [op EXCEPT ![w] = NoOp] /\ UNCHANGED <<runner, streams, view>>
    BY <1>1 DEF Return, streamVars
  <2>2. SyncTypes'
    BY <2>1, NoSyncTyped DEF IInv, Types, SyncTypes
  <2>3. op' = [v \in Writer |-> op'[v]] /\ op'[w] = NoOp /\ \A v \in Writer \ {w} : op'[v] = op[v]
    BY <2>1 DEF IInv, Types, RunTypes
  <2>4. \A v \in Writer : KindOf(v)' = KindOf(v)
    BY <2>1 DEF KindOf
  <2>5. \A v \in Writer : IsOp(v)'
    BY <2>3, <2>4 DEF IInv, Types, RunTypes, IsOp
  <2>6. \A q \in Runner : op'[q] = op[q] /\ runner'[q] = runner[q]
    BY <1>1, <2>1, <2>3, RunnerPair
  <2>7. RunTypes'
    BY <2>1, <2>3, <2>5, <2>6 DEF IInv, Types, RunTypes, IsRunner
  <2>8. Calm(w)
    BY <2>1, <2>3, <2>4, <2>6 DEF Calm, NoOp
  <2> QED
    BY <2>2, <2>7, <2>8
<1>2. CASE w # Syncer
  <2>1. w \in Runner /\ w[1] \in Switch
    BY <1>2, RunnerPair DEF Writer
  <2>2. runner[w].pc \in {"handling", "marking"} /\ runner[w].target \in Target /\ IsRunner(w)
    BY <2>1 DEF IInv, Types, RunTypes, IsRunner
  <2>3. CASE runner[w].pc = "handling" /\ ~ok
    BY <1>2, <2>1, <2>2, <2>3, DisconnectStep DEF Return, IInv, Types, SyncTypes
  <2>4. ASSUME NEW x, runner' = [runner EXCEPT ![w] = x], op' = [op EXCEPT ![w] = NoOp],
               UNCHANGED <<sync, streams, view>>,
               "pc" \in DOMAIN x, "live" \in DOMAIN x, "target" \in DOMAIN x,
               x.live <=> runner[w].live, x.target = runner[w].target,
               x.pc = "receiving" \/ (x.pc = "backoff" /\ runner[w].pc = "marking")
        PROVE  RunTypes' /\ SyncTypes' /\ Calm(w)
    <3>1. runner'[w] = x /\ op'[w] = NoOp /\ NoOp.phase # "put"
      BY <2>1, <2>4 DEF IInv, Types, RunTypes, NoOp
    <3>2. IsOp(w)'
      BY <3>1 DEF IsOp
    <3>3. IsRunner(w)'
      BY <2>2, <2>4, <3>1, SMT DEF IsRunner
    <3>4. RunTypes' /\ Calm(w)
      BY <2>1, <2>4, <3>1, <3>2, <3>3, QuietRunner
    <3> QED
      BY <2>4, <3>4 DEF IInv, Types, SyncTypes
  <2>5. CASE runner[w].pc = "marking"
    <3> DEFINE x == [runner[w] EXCEPT !.pc = "backoff"]
    <3>1. runner' = [runner EXCEPT ![w] = x] /\ op' = [op EXCEPT ![w] = NoOp] /\ UNCHANGED <<sync, streams, view>>
      BY <1>2, <2>5 DEF Return, streamVars
    <3>2. /\ "pc" \in DOMAIN x /\ "live" \in DOMAIN x /\ "target" \in DOMAIN x
          /\ (x.live <=> runner[w].live) /\ x.target = runner[w].target /\ x.pc = "backoff"
      BY <2>2 DEF IsRunner
    <3> HIDE DEF x
    <3> QED
      BY <2>4, <2>5, <3>1, <3>2
  <2>6. CASE runner[w].pc = "handling" /\ ok
    <3> DEFINE g == op[w].change.origin.gen
               n == IF op[w].phase = "put" THEN op[w].change.neighbors ELSE Nil
               x == [runner[w] EXCEPT !.pc = "receiving", !.lastGeneration = g, !.stored = n]
    <3>1. runner' = [runner EXCEPT ![w] = x] /\ op' = [op EXCEPT ![w] = NoOp] /\ UNCHANGED <<sync, streams, view>>
      BY <1>2, <2>6 DEF Return, streamVars
    <3> HIDE DEF g, n
    <3>2. /\ "pc" \in DOMAIN x /\ "live" \in DOMAIN x /\ "target" \in DOMAIN x
          /\ (x.live <=> runner[w].live) /\ x.target = runner[w].target /\ x.pc = "receiving"
      BY <2>2 DEF IsRunner
    <3>3. x.pc = "receiving" \/ (x.pc = "backoff" /\ runner[w].pc = "marking")
      BY <3>2
    <3> HIDE DEF x
    <3> QED
      BY <2>4, <3>1, <3>2, <3>3
  <2> QED
    BY <2>2, <2>3, <2>5, <2>6
<1> QED
  BY <1>1, <1>2

LEMMA NoOpPhase == NoOp.phase = "none"
  BY DEF NoOp

LEMMA PutStep == ASSUME IInv, NEW w \in Writer, Put(w) PROVE IInv'
<1>1. op[w].phase = "put" /\ op[w] # NoOp /\ Current(w) /\ Store(w) /\ Return(w, TRUE)
      /\ UNCHANGED <<cache, subscriptions, log, epoch>>
  BY NoOpPhase DEF Put, feedVars
<1>2. RunTypes' /\ SyncTypes' /\ Calm(w)
  BY <1>1, ReturnStep
<1> QED
  BY <1>1, <1>2, StoredStep

LEMMA PutLostStep == ASSUME IInv, NEW w \in Writer, PutLost(w) PROVE IInv'
<1>1. op[w].phase = "put" /\ op[w] # NoOp /\ Return(w, FALSE) /\ UNCHANGED <<cache, subscriptions, log, epoch>>
      /\ ((Current(w) /\ Store(w)) \/ UNCHANGED obj)
  BY NoOpPhase DEF PutLost, feedVars
<1>2. RunTypes' /\ SyncTypes' /\ Calm(w)
  BY <1>1, ReturnStep
<1> QED
  BY <1>1, <1>2, StoredStep, CalmStep

(* One call changes, its caller does not.                                  *)
LEMMA OneOp ==
  ASSUME IInv, NEW w \in Writer, NEW y, op' = [op EXCEPT ![w] = y], UNCHANGED <<runner, streams, view>>,
         op[w] # NoOp, y # NoOp, IsOp(w)'
  PROVE  RunTypes' /\ op'[w] = y /\ (\A v \in Writer \ {w} : op'[v] = op[v]) /\ (\A v \in Writer : KindOf(v)' = KindOf(v))
<1>1. op' = [v \in Writer |-> op'[v]] /\ op'[w] = y /\ (\A v \in Writer \ {w} : op'[v] = op[v])
  BY DEF IInv, Types, RunTypes
<1>2. \A v \in Writer : KindOf(v)' = KindOf(v)
  BY DEF KindOf
<1>3. \A v \in Writer : IsOp(v)'
  BY <1>1, <1>2 DEF IInv, Types, RunTypes, IsOp
<1>4. \A q \in Runner : IsRunner(q)'
  <2> SUFFICES ASSUME NEW q \in Runner PROVE IsRunner(q)'
    OBVIOUS
  <2>1. (op'[q] # NoOp) = (op[q] # NoOp)
    BY <1>1, RunnerPair
  <2> QED
    BY <2>1 DEF IInv, Types, RunTypes, IsRunner
<1> QED
  BY <1>1, <1>2, <1>3, <1>4 DEF IInv, Types, RunTypes

LEMMA PutRefusedStep == ASSUME IInv, NEW w \in Writer, PutRefused(w) PROVE IInv'
<1>1. op[w].phase = "put" /\ op[w] # NoOp /\ UNCHANGED <<obj, cache, subscriptions, log, epoch>>
  BY NoOpPhase DEF PutRefused, apiVars, feedVars
<1>2. CASE Return(w, FALSE)
  BY <1>1, <1>2, ReturnStep, CalmStep
<1>3. CASE ~Return(w, FALSE)
  <2> DEFINE y == [phase |-> "get", sw |-> op[w].sw, change |-> op[w].change, tries |-> op[w].tries + 1]
  <2>1. op' = [op EXCEPT ![w] = y] /\ UNCHANGED <<sync, runner, streams, view>>
    BY <1>3 DEF PutRefused, streamVars
  <2>2. y.phase = "get" /\ y.sw = op[w].sw /\ y.change = op[w].change
    OBVIOUS
  <2> HIDE DEF y
  <2>3. op'[w] = y /\ KindOf(w)' = KindOf(w) /\ y # NoOp
    BY <2>1, <2>2, NoOpPhase DEF IInv, Types, RunTypes, KindOf
  <2>4. IsOp(w)'
    BY <1>1, <2>2, <2>3 DEF IInv, Types, RunTypes, IsOp
  <2>5. RunTypes' /\ (\A v \in Writer \ {w} : op'[v] = op[v]) /\ (\A v \in Writer : KindOf(v)' = KindOf(v))
    BY <1>1, <2>1, <2>3, <2>4, OneOp
  <2>6. Calm(w)
    BY <2>1, <2>2, <2>3, <2>5, RunnerPair DEF Calm
  <2>7. SyncTypes'
    BY <1>1, <2>1 DEF IInv, Types, SyncTypes
  <2> QED
    BY <1>1, <2>5, <2>6, <2>7, CalmStep
<1> QED
  BY <1>2, <1>3

(* What the closures do to a status.                                       *)
LEMMA MutateOrigin ==
  ASSUME NEW change, NEW o, IsObject(o), change.kind \in {"accept", "mark", "clear"},
         change.kind = "accept" => change.origin \in Origin
  PROVE  /\ IsStatus(Mutate(change, o))
         /\ change.kind = "accept" => Mutate(change, o).origin = change.origin
         /\ change.kind # "accept" => Mutate(change, o).origin \in {Nil, o.status.origin}
<1>1. CASE change.kind = "accept"
  BY <1>1 DEF Mutate, IsStatus
<1>2. CASE change.kind = "mark"
  <2> DEFINE s == o.status
             b == [s EXCEPT !.healthy = FALSE, !.connected = change.reason, !.ready = 0, !.observed = o.generation]
  <2>1. Mutate(change, o) = b
    BY <1>2 DEF Mutate
  <2>2. IsStatus(s)
    BY DEF IsObject
  <2> HIDE DEF s
  <2>3. IsStatus(b) /\ b.origin = s.origin
    BY <2>2 DEF IsStatus
  <2> QED
    BY <1>2, <2>1, <2>3 DEF s
<1>3. CASE change.kind = "clear"
  BY <1>3, EmptyIsStatus DEF Mutate
<1> QED
  BY <1>1, <1>2, <1>3

LEMMA GetStep == ASSUME IInv, NEW w \in Writer, Get(w) PROVE IInv'
<1> DEFINE o == cache[op[w].sw]
           body == Mutate(op[w].change, o)
<1>1. op[w].phase = "get" /\ op[w] # NoOp /\ UNCHANGED <<obj, cache, subscriptions, log, epoch>>
  BY NoOpPhase DEF Get, apiVars, feedVars
<1>2. CASE Return(w, TRUE)
  BY <1>1, <1>2, ReturnStep, CalmStep
<1>3. CASE ~Return(w, TRUE)
  <2> DEFINE y == [phase |-> "put", sw |-> op[w].sw, change |-> op[w].change, tries |-> op[w].tries,
                   rv |-> o.rv, body |-> body]
  <2>1. op' = [op EXCEPT ![w] = y] /\ UNCHANGED <<sync, runner, streams, view>>
    BY <1>3 DEF Get, streamVars
  <2>2. /\ op[w].sw \in Switch /\ (w # Syncer => op[w].sw = w[1]) /\ op[w].change.kind = KindOf(w)
        /\ KindOf(w) = "accept" => op[w].change.origin \in Origin
    BY <1>1 DEF IInv, Types, RunTypes, IsOp
  <2>3. KindOf(w) \in {"accept", "mark", "clear"} /\ IsObject(o) /\ o.rv \in Nat
    BY <2>2 DEF KindOf, IInv, Types, ApiTypes, IsObject
  <2>4. /\ IsStatus(body)
        /\ KindOf(w) = "accept" => body.origin = op[w].change.origin
        /\ KindOf(w) # "accept" => body.origin \in {Nil, o.status.origin}
    BY <2>2, <2>3, MutateOrigin
  <2>5. y.phase = "put" /\ y.sw = op[w].sw /\ y.change = op[w].change /\ y.rv = o.rv /\ y.body = body
    OBVIOUS
  <2> HIDE DEF y, body
  <2>6. op'[w] = y /\ KindOf(w)' = KindOf(w) /\ y # NoOp
    BY <2>1, <2>5, NoOpPhase DEF IInv, Types, RunTypes, KindOf
  <2>7. IsOp(w)'
    BY <2>2, <2>3, <2>4, <2>5, <2>6 DEF IsOp
  <2>8. RunTypes' /\ (\A v \in Writer \ {w} : op'[v] = op[v]) /\ (\A v \in Writer : KindOf(v)' = KindOf(v))
    BY <1>1, <2>1, <2>6, <2>7, OneOp
  <2>9. Types'
    BY <1>1, <2>1, <2>8 DEF IInv, Types, SyncTypes, ApiTypes, FeedTypes
  <2>10. OneLive' /\ Versions'
    BY <1>1, <2>1 DEF IInv, OneLive, Versions
  <2>11. \A q \in Runner : op'[q].change = op[q].change
    BY <2>5, <2>6, <2>8, RunnerPair
  <2>12. Ahead'
    <3>1. \A sw \in Switch : Around(sw)' = Around(sw)
      BY <1>1, <2>1, <2>11 DEF Around
    <3>2. \A a : Published(a)' = Published(a)
      BY <1>1 DEF Published
    <3>3. \A r \in Runner : \A a : Follows(r, a) => Follows(r, a)'
      BY <1>1, <2>1, <2>11 DEF Follows, NotNewer
    <3> QED
      BY <2>1, <3>1, <3>2, <3>3, RunnerPair DEF IInv, Ahead
  <2>13. o.rv <= obj[op[w].sw].rv /\ (o.rv = obj[op[w].sw].rv => o.status = obj[op[w].sw].status)
    BY <2>2 DEF IInv, Versions
  <2>14. o.rv = obj[op[w].sw].rv => NotNewer(obj[op[w].sw].status.origin, body.origin)
    <3>1. CASE KindOf(w) = "accept"
      <4>1. w \in Runner /\ runner[w].pc = "handling" /\ runner[w].live /\ w[1] = op[w].sw
        BY <2>2, <3>1 DEF KindOf, Get, Writer
      <4>2. NotNewer(obj[op[w].sw].status.origin, op[w].change.origin)
        BY <4>1 DEF IInv, Ahead, Around, Follows
      <4> QED
        BY <2>4, <3>1, <4>2
    <3>2. CASE KindOf(w) # "accept"
      <4>1. IsStatus(obj[op[w].sw].status)
        BY <2>2 DEF IInv, Types, ApiTypes, IsObject
      <4> QED
        BY <2>4, <2>13, <3>2, <4>1, SMT DEF NotNewer, IsStatus, Origin
    <3> QED
      BY <3>1, <3>2
  <2>15. Locked'
    BY <1>1, <2>4, <2>5, <2>6, <2>8, <2>13, <2>14, SMTT(30) DEF IInv, Locked
  <2> QED
    BY <2>9, <2>10, <2>12, <2>15 DEF IInv
<1> QED
  BY <1>2, <1>3

-----------------------------------------------------------------------------
LEMMA EndsStream ==
  ASSUME IInv, NEW r \in Runner, DialUnavailable(r) \/ DialFails(r) \/ StreamClosed(r) \/ StreamBreaks(r)
  PROVE  IInv'
<1>1. PICK reason : Disconnect(r, reason)
  BY DEF DialUnavailable, DialFails, StreamClosed, StreamBreaks
<1>2. runner[r].pc # "off" /\ UNCHANGED <<obj, cache, subscriptions, log, epoch>>
  BY DEF DialUnavailable, DialFails, StreamClosed, StreamBreaks, apiVars, feedVars
<1>3. RunTypes' /\ Calm(r) /\ UNCHANGED sync
  BY <1>1, <1>2, DisconnectStep
<1>4. SyncTypes'
  BY <1>2, <1>3 DEF IInv, Types, SyncTypes
<1> QED
  BY <1>2, <1>3, <1>4, CalmStep

LEMMA RedialStep == ASSUME IInv, NEW r \in Runner, Redial(r) PROVE IInv'
<1> DEFINE x == [runner[r] EXCEPT !.pc = "dialing"]
<1>1. /\ runner' = [runner EXCEPT ![r] = x] /\ runner[r].pc = "backoff"
      /\ UNCHANGED <<obj, cache, subscriptions, sync, op, log, epoch, streams, view>>
  BY DEF Redial, apiVars, feedVars, streamVars
<1>2. op[r] = NoOp /\ IsRunner(r)
  BY <1>1 DEF IInv, Types, RunTypes, IsRunner
<1>3. op' = [op EXCEPT ![r] = NoOp]
  BY <1>1, <1>2, RunnerPair DEF IInv, Types, RunTypes
<1>4. /\ "pc" \in DOMAIN x /\ "live" \in DOMAIN x /\ "target" \in DOMAIN x
      /\ (x.live <=> runner[r].live) /\ x.target = runner[r].target /\ x.pc = "dialing"
  BY <1>2 DEF IsRunner
<1> HIDE DEF x
<1>5. runner'[r] = x /\ op'[r] = NoOp
  BY <1>1, <1>2 DEF IInv, Types, RunTypes
<1>6. IsRunner(r)' /\ IsOp(r)'
  BY <1>1, <1>2, <1>4, <1>5, SMT DEF IsRunner, IsOp
<1>7. RunTypes' /\ Calm(r)
  BY <1>1, <1>3, <1>4, <1>6, NoOpPhase, QuietRunner
<1>8. SyncTypes'
  BY <1>1 DEF IInv, Types, SyncTypes
<1> QED
  BY <1>1, <1>7, <1>8, CalmStep

LEMMA ExitStep == ASSUME IInv, NEW r \in Runner, Exit(r) PROVE IInv'
<1>1. /\ runner' = [runner EXCEPT ![r] = NoRunner] /\ op' = [op EXCEPT ![r] = NoOp] /\ ~runner[r].live
      /\ streams' = streams \ {r} /\ view' = [view EXCEPT ![r] = 0]
      /\ UNCHANGED <<obj, cache, subscriptions, sync, log, epoch>>
  BY DEF Exit, apiVars, feedVars
<1>2. /\ "pc" \in DOMAIN NoRunner /\ "live" \in DOMAIN NoRunner /\ "target" \in DOMAIN NoRunner
      /\ ~NoRunner.live /\ NoRunner.pc = "off"
  BY DEF NoRunner
<1>3. runner'[r] = NoRunner /\ op'[r] = NoOp
  BY <1>1, RunnerPair DEF IInv, Types, RunTypes
<1>4. IsRunner(r)' /\ IsOp(r)'
  BY <1>1, <1>2, <1>3, SMT DEF IsRunner, IsOp
<1>5. NoRunner.live <=> runner[r].live
  BY <1>1, <1>2
<1>6. RunTypes' /\ Calm(r)
  BY <1>1, <1>2, <1>4, <1>5, NoOpPhase, QuietRunner
<1>7. SyncTypes'
  BY <1>1 DEF IInv, Types, SyncTypes
<1> QED
  BY <1>1, <1>6, <1>7, CalmStep

(* A new stream starts with the newest snapshot: all others are older.     *)
LEMMA DialStep == ASSUME IInv, NEW r \in Runner, Dial(r) PROVE IInv'
<1> DEFINE x == [runner[r] EXCEPT !.pc = "receiving"]
           t == runner[r].target
<1>1. /\ runner' = [runner EXCEPT ![r] = x] /\ runner[r].pc = "dialing" /\ runner[r].live
      /\ streams' = streams \cup {r} /\ view' = [view EXCEPT ![r] = Len(log[t]) - 1] /\ log[t] # <<>>
      /\ UNCHANGED <<obj, cache, subscriptions, sync, op, log, epoch>>
  BY DEF Dial, apiVars, feedVars
<1>2. op[r] = NoOp /\ IsRunner(r) /\ t \in Target
  BY <1>1 DEF IInv, Types, RunTypes, IsRunner
<1>3. op' = [op EXCEPT ![r] = NoOp]
  BY <1>1, <1>2, RunnerPair DEF IInv, Types, RunTypes
<1>4. /\ "pc" \in DOMAIN x /\ "live" \in DOMAIN x /\ "target" \in DOMAIN x
      /\ (x.live <=> runner[r].live) /\ x.target = runner[r].target /\ x.pc = "receiving"
  BY <1>2 DEF IsRunner
<1> HIDE DEF x
<1>5. runner'[r] = x /\ op'[r] = NoOp
  BY <1>1, <1>2 DEF IInv, Types, RunTypes
<1>6. IsRunner(r)' /\ IsOp(r)'
  BY <1>1, <1>2, <1>4, <1>5, SMT DEF IsRunner, IsOp
<1>7. Len(log[t]) \in Nat \ {0}
  <2>1. PICK S : log[t] \in Seq(S)
    BY <1>2 DEF IInv, Types, FeedTypes
  <2> QED
    BY <1>1, <2>1, SMT
<1>8. view' \in [Runner -> Nat] /\ view'[r] = Len(log[t]) - 1 /\ \A q \in Runner \ {r} : view'[q] = view[q]
  BY <1>1, <1>7, SMT DEF IInv, Types, RunTypes
<1>9. RunTypes
  BY DEF IInv, Types
<1>10. /\ RunTypes' /\ \A q \in Runner \ {r} : runner'[q] = runner[q]
       /\ \A v \in Writer \ {r} : op'[v] = op[v] /\ KindOf(v)' = KindOf(v)
  BY <1>1, <1>3, <1>6, <1>8, <1>9, OneRunner
<1>11. Types'
  BY <1>1, <1>10 DEF IInv, Types, SyncTypes, ApiTypes, FeedTypes
<1>12. OneLive'
  BY <1>1, <1>4, <1>5, <1>10, OneLiveKept DEF IInv
<1>13. \A q \in Runner : runner'[q].pc = "handling" <=> runner[q].pc = "handling"
  BY <1>1, <1>4, <1>5, <1>10
<1>14. Ahead'
  <2>1. \A sw \in Switch : Around(sw)' = Around(sw)
    BY <1>1, <1>13 DEF Around
  <2>2. \A a : Published(a)' = Published(a)
    BY <1>1 DEF Published
  <2>3. ASSUME NEW a \in Around(r[1]), a # Nil, a.target = t, a.epoch = epoch[t] PROVE a.gen <= view'[r] + 1
    <3>1. a.gen <= Len(log[t])
      BY <2>3, RunnerPair DEF IInv, Ahead, Published
    <3> QED
      BY <1>7, <1>8, <3>1, SMT
  <2>4. \A a \in Around(r[1]) : Follows(r, a)'
    BY <1>1, <1>4, <1>5, <2>3 DEF Follows
  <2>5. \A q \in Runner \ {r} : \A a : Follows(q, a) => Follows(q, a)'
    BY <1>1, <1>8, <1>10 DEF Follows, NotNewer
  <2>6. \A q \in Runner : runner'[q].live => runner[q].live
    BY <1>1, <1>10
  <2> QED
    BY <2>1, <2>2, <2>4, <2>5, <2>6, RunnerPair DEF IInv, Ahead
<1>15. Versions' /\ Locked'
  BY <1>1, <1>5, <1>10, NoOpPhase, SMT DEF IInv, Versions, Locked
<1> QED
  BY <1>11, <1>12, <1>14, <1>15 DEF IInv

(* A snapshot that is received follows all that are stored or on their way. *)
LEMMA ReceiveStep == ASSUME IInv, NEW r \in Runner, Receive(r) PROVE IInv'
<1> DEFINE t == runner[r].target
<1>1. /\ runner[r].live /\ runner[r].pc = "receiving" /\ r \in streams
      /\ UNCHANGED <<obj, cache, subscriptions, log, epoch>>
  BY DEF Receive, apiVars, feedVars
<1>2. op[r] = NoOp /\ IsRunner(r) /\ t \in Target /\ view[r] \in Nat /\ Len(log[t]) \in Nat
  <2>1. t \in Target
    BY <1>1 DEF IInv, Types, RunTypes, IsRunner
  <2>2. PICK S : log[t] \in Seq(S)
    BY <2>1 DEF IInv, Types, FeedTypes
  <2>3. Len(log[t]) \in Nat
    BY <2>2, SMT
  <2>4. IsRunner(r) /\ op[r] = NoOp /\ view[r] \in Nat
    BY <1>1 DEF IInv, Types, RunTypes, IsRunner
  <2> QED
    BY <2>1, <2>3, <2>4
<1>3. PICK g \in (view[r] + 1) .. Len(log[t]) :
        \/ view' = [view EXCEPT ![r] = g] /\ UNCHANGED <<runner, op, sync, streams>>
        \/ Disconnect(r, "SnapshotRejected")
        \/ /\ view' = [view EXCEPT ![r] = g] /\ runner' = [runner EXCEPT ![r].pc = "handling"]
           /\ \E nb : op' = [op EXCEPT ![r] =
                       Begin(r[1], Accept([target |-> t, epoch |-> epoch[t], gen |-> g], nb))]
           /\ UNCHANGED <<sync, streams>>
  BY DEF Receive
<1>4. g \in Nat \ {0} /\ view[r] + 1 <= g /\ g <= Len(log[t])
  BY <1>2, <1>3, SMT
<1>5. ASSUME NEW a \in Around(r[1]), a # Nil, a.target = t, a.epoch = epoch[t] PROVE a.gen \in Nat /\ a.gen <= g
  <2>1. a.gen <= view[r] + 1
    BY <1>1, <1>5 DEF IInv, Ahead, Follows
  <2>2. a \in Origin
    <3>1. CASE a = obj[r[1]].status.origin
      BY <1>5, <3>1, RunnerPair DEF IInv, Types, ApiTypes, IsObject, IsStatus
    <3>2. ASSUME NEW q \in Runner, runner[q].pc = "handling", a = op[q].change.origin PROVE a \in Origin
      BY <3>2, RunnerPair DEF IInv, Types, RunTypes, IsRunner, IsOp, KindOf
    <3> QED
      BY <1>5, <3>1, <3>2 DEF Around
  <2> QED
    BY <1>2, <1>4, <2>1, <2>2, SMT DEF Origin
<1>6. CASE Disconnect(r, "SnapshotRejected")
  <2>1. RunTypes' /\ Calm(r) /\ UNCHANGED sync
    BY <1>1, <1>6, DisconnectStep
  <2>2. SyncTypes'
    BY <1>1, <2>1 DEF IInv, Types, SyncTypes
  <2> QED
    BY <1>1, <2>1, <2>2, CalmStep
<1>7. CASE view' = [view EXCEPT ![r] = g] /\ UNCHANGED <<runner, op, sync, streams>>
  <2>1. view' \in [Runner -> Nat] /\ view'[r] = g /\ \A q \in Runner \ {r} : view'[q] = view[q]
    BY <1>4, <1>7 DEF IInv, Types, RunTypes
  <2>2. RunTypes'
    BY <1>7, <2>1 DEF IInv, Types, RunTypes, IsRunner, IsOp, KindOf
  <2>3. Types'
    BY <1>1, <1>7, <2>2 DEF IInv, Types, SyncTypes, ApiTypes, FeedTypes
  <2>4. OneLive' /\ Versions' /\ Locked'
    BY <1>1, <1>7 DEF IInv, OneLive, Versions, Locked, KindOf
  <2>5. \A sw \in Switch : Around(sw)' = Around(sw)
    BY <1>1, <1>7 DEF Around
  <2>6. \A a : Published(a)' = Published(a)
    BY <1>1 DEF Published
  <2>7. \A a \in Around(r[1]) : Follows(r, a)'
    BY <1>1, <1>4, <1>5, <1>7, <2>1, SMT DEF Follows
  <2>8. \A q \in Runner \ {r} : \A a : Follows(q, a) => Follows(q, a)'
    BY <1>1, <1>7, <2>1 DEF Follows, NotNewer
  <2>9. Ahead'
    BY <1>7, <2>5, <2>6, <2>7, <2>8, RunnerPair DEF IInv, Ahead
  <2> QED
    BY <2>3, <2>4, <2>9 DEF IInv
<1>8. ASSUME NEW nb, view' = [view EXCEPT ![r] = g], runner' = [runner EXCEPT ![r].pc = "handling"],
             op' = [op EXCEPT ![r] = Begin(r[1], Accept([target |-> t, epoch |-> epoch[t], gen |-> g], nb))],
             UNCHANGED <<sync, streams>>
      PROVE  IInv'
  <2> DEFINE x == [runner[r] EXCEPT !.pc = "handling"]
             c == [target |-> t, epoch |-> epoch[t], gen |-> g]
             y == Begin(r[1], Accept(c, nb))
  <2>1. c \in Origin /\ c.target = t /\ c.epoch = epoch[t] /\ c.gen = g
    BY <1>2, <1>4 DEF Origin, IInv, Types, FeedTypes
  <2>2. Accept(c, nb).kind = "accept" /\ Accept(c, nb).origin = c
    BY DEF Accept
  <2>3. /\ "pc" \in DOMAIN x /\ "live" \in DOMAIN x /\ "target" \in DOMAIN x
        /\ (x.live <=> runner[r].live) /\ x.target = runner[r].target /\ x.pc = "handling"
    BY <1>2 DEF IsRunner
  <2>4. runner' = [runner EXCEPT ![r] = x] /\ op' = [op EXCEPT ![r] = y]
    BY <1>8
  <2> HIDE DEF x, c
  <2>5. runner'[r] = x /\ op'[r] = y
    BY <2>4, RunnerPair DEF IInv, Types, RunTypes
  <2>6. KindOf(r)' = "accept"
    BY <2>3, <2>5, RunnerPair DEF KindOf
  <2>7. IsOp(r)' /\ op'[r] # NoOp /\ op'[r].phase = "get" /\ op'[r].change = Accept(c, nb)
    BY <2>1, <2>2, <2>5, <2>6, BeginIsOp, RunnerPair, SMT
  <2>8. IsRunner(r)'
    BY <1>2, <1>8, <2>3, <2>5, <2>7 DEF IsRunner
  <2>9. view' \in [Runner -> Nat] /\ view'[r] = g /\ \A q \in Runner \ {r} : view'[q] = view[q]
    BY <1>4, <1>8 DEF IInv, Types, RunTypes
  <2>10. RunTypes
    BY DEF IInv, Types
  <2> HIDE DEF y
  <2>11. /\ RunTypes' /\ \A q \in Runner \ {r} : runner'[q] = runner[q]
         /\ \A v \in Writer \ {r} : op'[v] = op[v] /\ KindOf(v)' = KindOf(v)
    BY <1>8, <2>4, <2>7, <2>8, <2>9, <2>10, OneRunner
  <2>12. Types'
    BY <1>1, <1>8, <2>11 DEF IInv, Types, SyncTypes, ApiTypes, FeedTypes
  <2>13. OneLive'
    BY <1>1, <2>3, <2>5, <2>11, OneLiveKept DEF IInv
  <2>14. Versions' /\ Locked'
    BY <1>1, <2>7, <2>11, SMT DEF IInv, Versions, Locked
  <2>15. \A sw \in Switch \ {r[1]} : Around(sw)' = Around(sw)
    BY <1>1, <2>11, RunnerPair, SMT DEF Around
  <2>16. Around(r[1])' \subseteq Around(r[1]) \cup {c}
    BY <1>1, <2>2, <2>7, <2>11, RunnerPair, SMT DEF Around
  <2>17. \A a : Published(a)' = Published(a)
    BY <1>1 DEF Published
  <2>18. Published(c)
    BY <1>2, <1>4, <2>1, SMT DEF Published, IInv, Types, FeedTypes
  <2>19. ASSUME NEW a \in Around(r[1]) \cup {c} PROVE Follows(r, a)'
    <3>1. a # Nil /\ a.target = t /\ a.epoch = epoch[t] => a.gen \in Nat /\ a.gen <= g
      BY <1>4, <1>5, <2>1, <2>19, SMT
    <3>2. NotNewer(a, c)
      BY <2>1, <3>1 DEF NotNewer
    <3>3. a # Nil /\ a.target = t /\ a.epoch = epoch[t] => a.gen <= view'[r] + 1
      BY <1>4, <2>9, <3>1, SMT
    <3> QED
      BY <1>1, <2>2, <2>3, <2>5, <2>7, <3>2, <3>3 DEF Follows, NotNewer
  <2>20. \A q \in Runner \ {r} : runner'[q].live => q[1] # r[1]
    BY <1>1, <2>11 DEF IInv, OneLive
  <2>21. \A q \in Runner \ {r} : \A a : Follows(q, a) => Follows(q, a)'
    BY <1>1, <1>8, <2>9, <2>11, RunnerPair DEF Follows, NotNewer
  <2>22. \A sw \in Switch : \A a \in Around(sw)' : Published(a)'
    BY <2>15, <2>16, <2>17, <2>18, RunnerPair, SMT DEF IInv, Ahead
  <2>23. ASSUME NEW q \in Runner, runner'[q].live, NEW a \in Around(q[1])' PROVE Follows(q, a)'
    <3>1. CASE q = r
      BY <2>16, <2>19, <2>23, <3>1
    <3>2. CASE q # r
      BY <2>11, <2>15, <2>20, <2>21, <2>23, <3>2, RunnerPair, SMT DEF IInv, Ahead
    <3> QED
      BY <3>1, <3>2
  <2> QED
    BY <2>12, <2>13, <2>14, <2>22, <2>23 DEF IInv, Ahead
<1> QED
  BY <1>3, <1>6, <1>7, <1>8

-----------------------------------------------------------------------------
(* Cancelled runners keep what they have, and only lose their context.     *)
LEMMA CancelledRunner ==
  ASSUME RunTypes, NEW C, NEW r \in Runner
  PROVE  LET c == Cancelled(C)[r]
         IN /\ "pc" \in DOMAIN c /\ "live" \in DOMAIN c /\ "target" \in DOMAIN c
            /\ c.pc = runner[r].pc /\ c.target = runner[r].target
            /\ c.live <=> runner[r].live /\ r[1] \notin C
<1> DEFINE d == [runner[r] EXCEPT !.live = FALSE]
<1>1. IsRunner(r)
  BY DEF RunTypes
<1>2. /\ "pc" \in DOMAIN d /\ "live" \in DOMAIN d /\ "target" \in DOMAIN d
      /\ d.pc = runner[r].pc /\ d.target = runner[r].target /\ ~d.live
  BY <1>1 DEF IsRunner
<1> HIDE DEF d
<1>3. Cancelled(C)[r] = IF r[1] \in C THEN d ELSE runner[r]
  BY DEF Cancelled, d
<1> QED
  BY <1>1, <1>2, <1>3 DEF IsRunner

LEMMA CancelStep ==
  ASSUME IInv, NEW C, NEW y, runner' = Cancelled(C), op' = [op EXCEPT ![Syncer] = y], UNCHANGED <<streams, view>>,
         IsOp(Syncer)'
  PROVE  /\ RunTypes'
         /\ \A r \in Runner : /\ runner'[r].pc = runner[r].pc /\ runner'[r].target = runner[r].target
                              /\ runner'[r].live <=> runner[r].live /\ r[1] \notin C
                              /\ op'[r] = op[r]
         /\ \A v \in Writer : KindOf(v)' = KindOf(v)
         /\ op'[Syncer] = y /\ \A v \in Writer \ {Syncer} : op'[v] = op[v]
<1>1. RunTypes /\ Syncer \in Writer
  BY DEF IInv, Types, Writer
<1>2. DOMAIN runner' = Runner
  BY DEF Cancelled
<1>3. \A r \in Runner : /\ "pc" \in DOMAIN runner'[r] /\ "live" \in DOMAIN runner'[r] /\ "target" \in DOMAIN runner'[r]
                        /\ runner'[r].pc = runner[r].pc /\ runner'[r].target = runner[r].target
                        /\ runner'[r].live <=> runner[r].live /\ r[1] \notin C
  BY <1>1, CancelledRunner
<1>4. /\ op' = [v \in Writer |-> op'[v]] /\ op'[Syncer] = y /\ \A v \in Writer \ {Syncer} : op'[v] = op[v]
  BY <1>1 DEF RunTypes
<1>5. \A v \in Writer : KindOf(v)' = KindOf(v)
  BY <1>3 DEF KindOf, Writer
<1>6. \A r \in Runner : op'[r] = op[r]
  BY <1>4, RunnerPair
<1>7. \A v \in Writer : IsOp(v)'
  BY <1>1, <1>4, <1>5 DEF RunTypes, IsOp
<1>8. ASSUME NEW r \in Runner PROVE IsRunner(r)'
  <2>1. IsRunner(r) /\ op'[r] = op[r]
    BY <1>1, <1>6 DEF RunTypes
  <2>2. runner'[r].pc = "off" => ~runner'[r].live
    BY <1>3, <2>1 DEF IsRunner
  <2> QED
    BY <1>3, <2>1, <2>2 DEF IsRunner
<1>9. RunTypes'
  BY <1>1, <1>2, <1>4, <1>7, <1>8 DEF RunTypes
<1> QED
  BY <1>3, <1>4, <1>5, <1>6, <1>9

LEMMA SyncListStep == ASSUME IInv, SyncList PROVE IInv'
<1>1. UNCHANGED <<obj, cache, subscriptions, runner, op, log, epoch, streams, view>>
  BY DEF SyncList, apiVars, feedVars, streamVars
<1>2. SyncTypes'
  <2>1. sync' = [phase |-> "clearing", todo |-> {sw \in Switch : cache[sw].exists /\ cache[sw].mgmt = Nil},
                 want |-> [sw \in Switch |-> IF cache[sw].exists THEN cache[sw].mgmt ELSE Nil]]
    BY DEF SyncList
  <2>2. \A sw \in Switch : cache[sw].mgmt \in Target \cup {Nil}
    BY DEF IInv, Types, ApiTypes, IsObject
  <2> QED
    BY <1>1, <2>1, <2>2 DEF IInv, Types, SyncTypes
<1>3. RunTypes'
  BY <1>1 DEF IInv, Types, RunTypes, IsRunner, IsOp, KindOf
<1>4. Types'
  BY <1>1, <1>2, <1>3 DEF IInv, Types, ApiTypes, FeedTypes
<1>5. OneLive' /\ Versions' /\ Locked'
  BY <1>1 DEF IInv, OneLive, Versions, Locked, KindOf
<1>6. Ahead'
  BY <1>1 DEF IInv, Ahead, Around, Published, Follows, NotNewer
<1> QED
  BY <1>4, <1>5, <1>6 DEF IInv

LEMMA SyncClearStep == ASSUME IInv, NEW sw \in Switch, SyncClear(sw) PROVE IInv'
<1> DEFINE y == Begin(sw, Clear)
<1>1. /\ subscriptions' = [subscriptions EXCEPT ![sw] = Nil] /\ runner' = Cancelled({sw})
      /\ op' = [op EXCEPT ![Syncer] = y] /\ UNCHANGED <<obj, cache, sync, log, epoch, streams, view>>
  BY DEF SyncClear, apiVars, feedVars, streamVars
<1>2. op'[Syncer] = y
  BY <1>1 DEF IInv, Types, RunTypes, Writer
<1>3. KindOf(Syncer)' = "clear" /\ Clear.kind = "clear"
  BY DEF KindOf, Clear
<1>4. IsOp(Syncer)' /\ op'[Syncer].phase = "get"
  BY <1>2, <1>3, BeginIsOp, SMT
<1> HIDE DEF y
<1>5. /\ RunTypes'
      /\ \A r \in Runner : /\ runner'[r].pc = runner[r].pc /\ runner'[r].target = runner[r].target
                           /\ runner'[r].live <=> runner[r].live /\ r[1] # sw
                           /\ op'[r] = op[r]
      /\ \A v \in Writer : KindOf(v)' = KindOf(v)
      /\ \A v \in Writer \ {Syncer} : op'[v] = op[v]
  BY <1>1, <1>4, CancelStep
<1>6. SyncTypes' /\ subscriptions'[sw] = Nil /\ \A u \in Switch \ {sw} : subscriptions'[u] = subscriptions[u]
  BY <1>1 DEF IInv, Types, SyncTypes
<1>7. Types'
  BY <1>1, <1>5, <1>6 DEF IInv, Types, ApiTypes, FeedTypes
<1>8. OneLive'
  <2>1. \A r \in Runner : runner'[r].live => subscriptions'[r[1]] # Nil /\ runner'[r].target = subscriptions'[r[1]]
    BY <1>5, <1>6, RunnerPair, SMT DEF IInv, OneLive
  <2>2. \A r, q \in Runner : runner'[r].live /\ runner'[q].live /\ r[1] = q[1] => r = q
    BY <1>5 DEF IInv, OneLive
  <2>3. \A u \in Switch : subscriptions'[u] # Nil => \E r \in Runner : r[1] = u /\ runner'[r].live
    BY <1>5, <1>6, SMTT(30) DEF IInv, OneLive
  <2> QED
    BY <2>1, <2>2, <2>3 DEF OneLive
<1>9. Versions' /\ Locked'
  BY <1>1, <1>4, <1>5, SMT DEF IInv, Versions, Locked
<1>10. \A u \in Switch : Around(u)' = Around(u)
  <2>1. obj' = obj /\ \A r \in Runner : runner'[r].pc = runner[r].pc /\ op'[r] = op[r]
    BY <1>1, <1>5
  <2> QED
    BY <2>1 DEF Around
<1>11. \A a : Published(a) => Published(a)'
  BY <1>1 DEF Published
<1>12. Ahead'
  BY <1>1, <1>5, <1>10, <1>11, AheadKept DEF IInv
<1> QED
  BY <1>7, <1>8, <1>9, <1>12 DEF IInv

LEMMA ControllerCrashStep == ASSUME IInv, ControllerCrash PROVE IInv'
<1>1. /\ subscriptions' = [sw \in Switch |-> Nil] /\ runner' = Cancelled(Switch) /\ sync' = NoSync
      /\ op' = [op EXCEPT ![Syncer] = NoOp] /\ cache' = obj /\ UNCHANGED <<obj, log, epoch, streams, view>>
  BY DEF ControllerCrash, feedVars, streamVars
<1>2. op'[Syncer] = NoOp /\ IsOp(Syncer)'
  BY <1>1 DEF IInv, Types, RunTypes, Writer, IsOp
<1>3. /\ RunTypes'
      /\ \A r \in Runner : /\ runner'[r].pc = runner[r].pc /\ runner'[r].target = runner[r].target
                           /\ runner'[r].live <=> runner[r].live /\ r[1] \notin Switch
                           /\ op'[r] = op[r]
      /\ \A v \in Writer : KindOf(v)' = KindOf(v)
      /\ \A v \in Writer \ {Syncer} : op'[v] = op[v]
  BY <1>1, <1>2, CancelStep
<1>4. \A r \in Runner : ~runner'[r].live
  BY <1>3, RunnerPair
<1>5. SyncTypes'
  BY <1>1, NoSyncTyped DEF SyncTypes
<1>6. Types'
  BY <1>1, <1>3, <1>5 DEF IInv, Types, ApiTypes, FeedTypes
<1>7. OneLive'
  BY <1>1, <1>4 DEF OneLive
<1>8. Versions' /\ Locked'
  BY <1>1, <1>2, <1>3, NoOpPhase, SMT DEF IInv, Types, ApiTypes, IsObject, Versions, Locked
<1>9. \A u \in Switch : Around(u)' = Around(u)
  BY <1>1, <1>3, SMT DEF Around
<1>10. \A a : Published(a) => Published(a)'
  BY <1>1 DEF Published
<1>11. Ahead'
  BY <1>4, <1>9, <1>10 DEF IInv, Ahead
<1> QED
  BY <1>6, <1>7, <1>8, <1>11 DEF IInv

(* Old runners are cancelled in the step that starts their successors.     *)
LEMMA SyncApplyStep == ASSUME IInv, SyncApply PROVE IInv'
<1> DEFINE start == {sw \in Switch : sync.want[sw] \notin {Nil, subscriptions[sw]}}
           stop == {sw \in Switch : sync.want[sw] # subscriptions[sw]}
           started(r) == r[1] \in start /\ r[2] = FreeSlot(r[1])
           new(r) == [NoRunner EXCEPT !.pc = "dialing", !.live = TRUE, !.target = sync.want[r[1]]]
<1>1. /\ subscriptions' = sync.want /\ sync' = NoSync
      /\ runner' = [r \in Runner |-> IF started(r) THEN new(r) ELSE Cancelled(stop)[r]]
      /\ \A sw \in start : \E i \in Slot : runner[<<sw, i>>].pc = "off"
      /\ UNCHANGED <<obj, cache, op, log, epoch, streams, view>>
  BY DEF SyncApply, apiVars, feedVars, streamVars
<1>2. sync.want \in [Switch -> Target \cup {Nil}] /\ RunTypes
  BY DEF IInv, Types, SyncTypes
<1>3. \A sw \in start : FreeSlot(sw) \in Slot /\ runner[<<sw, FreeSlot(sw)>>].pc = "off"
  BY <1>1 DEF FreeSlot
<1>4. \A r \in Runner : r = <<r[1], r[2]>> /\ r[1] \in Switch
  BY SMT DEF Runner
<1>5. \A r \in Runner : started(r) => runner[r].pc = "off"
  BY <1>3, <1>4
<1>6. \A r \in Runner : started(r) => op[r] = NoOp /\ r \notin streams /\ ~runner[r].live
  BY <1>2, <1>5 DEF RunTypes, IsRunner
<1>7. \A r \in Runner : /\ new(r).pc = "dialing" /\ new(r).live /\ new(r).target = sync.want[r[1]]
                        /\ "pc" \in DOMAIN new(r) /\ "live" \in DOMAIN new(r) /\ "target" \in DOMAIN new(r)
  BY DEF NoRunner
<1>8. start \subseteq stop /\ \A sw \in start : sync.want[sw] \in Target
  BY <1>2
<1> HIDE DEF new
<1>9. ASSUME NEW r \in Runner, started(r)
      PROVE  /\ runner'[r] = new(r) /\ r[1] \in start /\ r[2] = FreeSlot(r[1])
  BY <1>1, <1>9
<1>10. ASSUME NEW r \in Runner, ~started(r)
       PROVE  /\ "pc" \in DOMAIN runner'[r] /\ "live" \in DOMAIN runner'[r] /\ "target" \in DOMAIN runner'[r]
              /\ runner'[r].pc = runner[r].pc /\ runner'[r].target = runner[r].target
              /\ runner'[r].live <=> runner[r].live /\ r[1] \notin stop
  <2>1. runner'[r] = Cancelled(stop)[r]
    BY <1>1, <1>10
  <2> QED
    BY <1>2, <2>1, CancelledRunner, SMT
<1>11. ASSUME NEW r \in Runner PROVE IsRunner(r)'
  <2>1. IsRunner(r)
    BY <1>2 DEF RunTypes
  <2>2. CASE started(r)
    <3>1. runner'[r].pc = "dialing" /\ runner'[r].target \in Target /\ runner'[r] = new(r)
      BY <1>7, <1>8, <1>9, <2>2
    <3>2. op'[r] = NoOp /\ r \notin streams'
      BY <1>1, <1>6, <2>2
    <3> QED
      BY <1>7, <3>1, <3>2, SMT DEF IsRunner
  <2>3. CASE ~started(r)
    BY <1>1, <1>10, <2>1, <2>3 DEF IsRunner
  <2> QED
    BY <2>2, <2>3
<1>12. \A r \in Runner : runner'[r].pc = "handling" <=> runner[r].pc = "handling"
  BY <1>5, <1>7, <1>9, <1>10
<1>13. \A v \in Writer : KindOf(v)' = KindOf(v)
  BY <1>12 DEF KindOf, Writer
<1> HIDE DEF started, start, stop
<1>14. \A v \in Writer : IsOp(v)'
  BY <1>1, <1>2, <1>13 DEF RunTypes, IsOp
<1>15. RunTypes'
  BY <1>1, <1>2, <1>11, <1>14 DEF RunTypes
<1>16. SyncTypes'
  BY <1>1, <1>2, NoSyncTyped DEF SyncTypes
<1>17. Types'
  BY <1>1, <1>15, <1>16 DEF IInv, Types, ApiTypes, FeedTypes
<1>18. OneLive'
  <2>1. ASSUME NEW r \in Runner, runner'[r].live
        PROVE  subscriptions'[r[1]] # Nil /\ runner'[r].target = subscriptions'[r[1]]
    <3>1. CASE started(r)
      BY <1>1, <1>7, <1>8, <1>9, <3>1
    <3>2. CASE ~started(r)
      BY <1>1, <1>4, <1>10, <2>1, <3>2, SMT DEF IInv, OneLive, stop
    <3> QED
      BY <3>1, <3>2
  <2>2. ASSUME NEW r \in Runner, NEW q \in Runner, runner'[r].live, runner'[q].live, r[1] = q[1] PROVE r = q
    <3>1. CASE started(r) /\ started(q)
      BY <1>4, <1>9, <2>2, <3>1, SMT
    <3>2. CASE ~started(r) /\ ~started(q)
      BY <1>10, <2>2, <3>2 DEF IInv, OneLive
    <3>3. CASE (started(r) /\ ~started(q)) \/ (~started(r) /\ started(q))
      BY <1>8, <1>9, <1>10, <2>2, <3>3
    <3> QED
      BY <3>1, <3>2, <3>3
  <2>3. ASSUME NEW sw \in Switch, subscriptions'[sw] # Nil PROVE \E r \in Runner : r[1] = sw /\ runner'[r].live
    <3>1. CASE sync.want[sw] = subscriptions[sw]
      <4>1. PICK r \in Runner : r[1] = sw /\ runner[r].live
        BY <1>1, <2>3, <3>1 DEF IInv, OneLive
      <4>2. sw \notin stop
        BY <3>1 DEF stop
      <4>3. ~started(r)
        BY <1>6, <4>1
      <4> QED
        BY <1>10, <4>1, <4>2, <4>3
    <3>2. CASE sync.want[sw] # subscriptions[sw]
      <4> DEFINE r == <<sw, FreeSlot(sw)>>
      <4>1. sw \in start
        BY <1>1, <2>3, <3>2 DEF start
      <4>2. r \in Runner /\ r[1] = sw /\ r[2] = FreeSlot(sw)
        BY <1>3, <4>1 DEF Runner
      <4> HIDE DEF r
      <4>3. started(r)
        BY <4>1, <4>2 DEF started
      <4> QED
        BY <1>7, <1>9, <4>2, <4>3
    <3> QED
      BY <3>1, <3>2
  <2> QED
    BY <2>1, <2>2, <2>3 DEF OneLive
<1>19. Versions' /\ Locked'
  BY <1>1, <1>13 DEF IInv, Versions, Locked
<1>20. \A sw \in Switch : Around(sw)' = Around(sw)
  BY <1>1, <1>12 DEF Around
<1>21. \A a : Published(a) => Published(a)'
  BY <1>1 DEF Published
<1>22. ASSUME NEW r \in Runner, runner'[r].live
       PROVE  /\ runner'[r].pc = "handling" => runner[r].live /\ runner[r].pc = "handling" /\ op'[r].change = op[r].change
              /\ r \in streams' =>
                   /\ runner[r].live /\ r \in streams /\ view'[r] = view[r] /\ runner'[r].target = runner[r].target
                   /\ epoch'[runner[r].target] = epoch[runner[r].target]
  <2>1. CASE started(r)
    BY <1>1, <1>6, <1>7, <1>9, <2>1
  <2>2. CASE ~started(r)
    BY <1>1, <1>10, <1>22, <2>2
  <2> QED
    BY <2>1, <2>2
<1>23. Ahead'
  BY <1>20, <1>21, <1>22, AheadKept DEF IInv
<1> QED
  BY <1>17, <1>18, <1>19, <1>23 DEF IInv

-----------------------------------------------------------------------------
(* A user's change of a Switch makes a new version and brings no snapshot. *)
LEMMA UserStep ==
  ASSUME IInv, NEW sw \in Switch,
         DOMAIN obj' = Switch, \A x \in Switch \ {sw} : obj'[x] = obj[x],
         IsObject(obj'[sw]), obj'[sw].rv = obj[sw].rv + 1,
         obj'[sw].status.origin \in {Nil, obj[sw].status.origin},
         UNCHANGED <<cache, subscriptions, sync, runner, op, log, epoch, streams, view>>
  PROVE  IInv'
<1>1. Types'
  BY DEF IInv, Types, ApiTypes, SyncTypes, RunTypes, FeedTypes, IsOp, IsRunner, KindOf
<1>2. OneLive'
  BY DEF IInv, OneLive
<1>3. ASSUME NEW x \in Switch PROVE Around(x)' \subseteq Around(x) \cup {Nil}
  <2>1. obj'[x].status.origin \in {Nil, obj[x].status.origin}
    OBVIOUS
  <2> QED
    BY <2>1 DEF Around
<1>4. \A a : Published(a) => Published(a)'
  BY DEF Published
<1>5. Ahead'
  <2>1. \A r \in Runner : runner'[r].live =>
           /\ runner'[r].pc = "handling" =>
                runner[r].live /\ runner[r].pc = "handling" /\ op'[r].change = op[r].change
           /\ r \in streams' =>
                /\ runner[r].live /\ r \in streams /\ view'[r] = view[r] /\ runner'[r].target = runner[r].target
                /\ epoch'[runner[r].target] = epoch[runner[r].target]
    OBVIOUS
  <2> QED
    BY <1>3, <1>4, <2>1, AheadKept DEF IInv
<1>6. Versions'
  <2> SUFFICES ASSUME NEW x \in Switch
               PROVE  cache[x].rv <= obj'[x].rv /\ (cache[x].rv = obj'[x].rv => cache[x].status = obj'[x].status)
    BY DEF Versions
  <2>1. /\ cache[x].rv \in Nat /\ obj[x].rv \in Nat /\ cache[x].rv <= obj[x].rv
        /\ cache[x].rv = obj[x].rv => cache[x].status = obj[x].status
    BY DEF IInv, Versions, Types, ApiTypes, IsObject
  <2> QED
    BY <2>1, SMT
<1>7. Locked'
  <2> SUFFICES ASSUME NEW v \in Writer, op[v].phase = "put"
               PROVE  LET o == obj'[op[v].sw]
                      IN /\ op[v].rv <= o.rv
                         /\ op[v].rv = o.rv => NotNewer(o.status.origin, op[v].body.origin)
                         /\ KindOf(v) = "accept" => op[v].body.origin = op[v].change.origin
                         /\ KindOf(v) # "accept" /\ op[v].rv = o.rv => op[v].body.origin \in {Nil, o.status.origin}
    BY DEF Locked, KindOf
  <2>1. op[v].rv \in Nat /\ op[v].sw \in Switch /\ obj[op[v].sw].rv \in Nat
    BY SMTT(30) DEF IInv, Types, ApiTypes, RunTypes, IsOp, IsObject, NoOp
  <2>2. CASE op[v].sw = sw
    BY <2>1, <2>2, SMT DEF IInv, Locked
  <2>3. CASE op[v].sw # sw
    BY <2>1, <2>3 DEF IInv, Locked
  <2> QED
    BY <2>2, <2>3
<1> QED
  BY <1>1, <1>2, <1>5, <1>6, <1>7 DEF IInv

LEMMA EditSpecStep ==
  ASSUME IInv, NEW sw \in Switch, NEW t \in Target \cup {Nil}, EditSpec(sw, t) PROVE IInv'
<1>1. IsObject(obj[sw]) /\ DOMAIN obj = Switch
  BY DEF IInv, Types, ApiTypes
<1>2. /\ UNCHANGED <<cache, subscriptions, sync, runner, op, log, epoch, streams, view>>
      /\ obj' = [obj EXCEPT ![sw].mgmt = t, ![sw].generation = @ + 1, ![sw].rv = @ + 1]
  BY DEF EditSpec, feedVars, streamVars
<1>3. /\ DOMAIN obj' = Switch /\ \A x \in Switch \ {sw} : obj'[x] = obj[x]
      /\ obj'[sw] = [obj[sw] EXCEPT !.mgmt = t, !.generation = @ + 1, !.rv = @ + 1]
  BY <1>1, <1>2
<1>4. IsObject(obj'[sw]) /\ obj'[sw].status = obj[sw].status /\ obj'[sw].rv = obj[sw].rv + 1
  BY <1>1, <1>3, SMT DEF IsObject
<1> QED
  BY <1>2, <1>3, <1>4, UserStep

LEMMA DeleteStep == ASSUME IInv, NEW sw \in Switch, Delete(sw) PROVE IInv'
<1>1. obj[sw].rv + 1 \in Nat /\ DOMAIN obj = Switch
  BY SMT DEF IInv, Types, ApiTypes, IsObject
<1>2. /\ UNCHANGED <<cache, subscriptions, sync, runner, op, log, epoch, streams, view>>
      /\ obj' = [obj EXCEPT ![sw] = Absent(obj[sw].rv + 1)]
  BY DEF Delete, feedVars, streamVars
<1>3. /\ DOMAIN obj' = Switch /\ (\A x \in Switch \ {sw} : obj'[x] = obj[x])
      /\ obj'[sw] = Absent(obj[sw].rv + 1)
  BY <1>1, <1>2
<1>4. IsObject(obj'[sw]) /\ obj'[sw].status.origin = Nil /\ obj'[sw].rv = obj[sw].rv + 1
  BY <1>1, <1>3, FreshObject
<1> QED
  BY <1>2, <1>3, <1>4, UserStep

LEMMA CreateStep ==
  ASSUME IInv, NEW sw \in Switch, NEW t \in Target \cup {Nil}, Create(sw, t) PROVE IInv'
<1>1. obj[sw].rv + 1 \in Nat /\ DOMAIN obj = Switch
  BY SMT DEF IInv, Types, ApiTypes, IsObject
<1>2. /\ UNCHANGED <<cache, subscriptions, sync, runner, op, log, epoch, streams, view>>
      /\ obj' = [obj EXCEPT ![sw] = NewSwitch(t, obj[sw].rv + 1)]
  BY DEF Create, feedVars, streamVars
<1>3. /\ DOMAIN obj' = Switch /\ (\A x \in Switch \ {sw} : obj'[x] = obj[x])
      /\ obj'[sw] = NewSwitch(t, obj[sw].rv + 1)
  BY <1>1, <1>2
<1>4. IsObject(obj'[sw]) /\ obj'[sw].status.origin = Nil /\ obj'[sw].rv = obj[sw].rv + 1
  BY <1>1, <1>3, FreshObject, SMT
<1> QED
  BY <1>2, <1>3, <1>4, UserStep

LEMMA InformStep == ASSUME IInv, NEW sw \in Switch, Inform(sw) PROVE IInv'
<1>1. UNCHANGED <<obj, subscriptions, sync, runner, op, log, epoch, streams, view>>
  BY DEF Inform, feedVars, streamVars
<1>2. DOMAIN cache' = Switch /\ (\A x \in Switch : cache'[x] = IF x = sw THEN obj[sw] ELSE cache[x])
  BY DEF Inform, IInv, Types, ApiTypes
<1>3. Types'
  BY <1>1, <1>2 DEF IInv, Types, ApiTypes, SyncTypes, RunTypes, FeedTypes, IsOp, IsRunner, KindOf
<1>4. OneLive' /\ Locked'
  BY <1>1 DEF IInv, OneLive, Locked, KindOf
<1>5. Ahead'
  BY <1>1 DEF IInv, Ahead, Around, Published, Follows
<1>6. Versions'
  <2>1. \A x \in Switch : obj[x].rv \in Nat
    BY DEF IInv, Types, ApiTypes, IsObject
  <2> QED
    BY <1>1, <1>2, <2>1, SMT DEF IInv, Versions
<1> QED
  BY <1>3, <1>4, <1>5, <1>6 DEF IInv

LEMMA AroundTyped ==
  ASSUME IInv, NEW sw \in Switch, NEW a \in Around(sw)
  PROVE  a = Nil \/ a \in Origin
<1>1. CASE a = obj[sw].status.origin
  BY <1>1 DEF IInv, Types, ApiTypes, IsObject, IsStatus
<1>2. ASSUME NEW r \in Runner, runner[r].pc = "handling", a = op[r].change.origin PROVE a \in Origin
  <2>1. KindOf(r) = "accept" /\ r \in Writer
    BY <1>2, RunnerPair DEF KindOf
  <2>2. op[r] # NoOp /\ IsOp(r)
    BY <1>2, <2>1 DEF IInv, Types, RunTypes, IsRunner
  <2> QED
    BY <1>2, <2>1, <2>2 DEF IsOp
<1> QED
  BY <1>1, <1>2 DEF Around

(* What an agent has published stays published, and what a runner has in   *)
(* hand stays as it is, whether the agent publishes more or starts anew.   *)
LEMMA AgentStep ==
  ASSUME IInv, NEW t \in Target, DOMAIN log' = Target, epoch' \in [Target -> Nat],
         \A u \in Target \ {t} : log'[u] = log[u] /\ epoch'[u] = epoch[u],
         \E S : log'[t] \in Seq(S),
         \/ epoch'[t] = epoch[t] /\ Len(log'[t]) >= Len(log[t])
         \/ epoch'[t] > epoch[t],
         streams' \subseteq streams, view' \in [Runner -> Nat],
         \A r \in Runner : r \in streams' => view'[r] = view[r] /\ (epoch'[t] # epoch[t] => runner[r].target # t),
         UNCHANGED <<obj, cache, subscriptions, sync, runner, op>>
  PROVE  IInv'
<1>1. FeedTypes'
  BY DEF IInv, Types, FeedTypes
<1>2. ApiTypes' /\ SyncTypes'
  BY DEF IInv, Types, ApiTypes, SyncTypes
<1>3. RunTypes'
  BY DEF IInv, Types, RunTypes, IsOp, IsRunner, KindOf
<1>4. OneLive' /\ Locked' /\ Versions'
  BY DEF IInv, OneLive, Locked, KindOf, Versions
<1>5. \A sw \in Switch : Around(sw)' = Around(sw)
  BY DEF Around
<1>6. ASSUME NEW sw \in Switch, NEW a \in Around(sw), Published(a) PROVE Published(a)'
  <2>1. CASE a = Nil
    BY <2>1 DEF Published
  <2>2. CASE a # Nil
    <3>1. a.target \in Target /\ a.epoch \in Nat /\ a.gen \in Nat /\ epoch[a.target] \in Nat /\ epoch'[a.target] \in Nat
      BY <2>2, AroundTyped DEF Origin, IInv, Types, FeedTypes
    <3>2. a.epoch <= epoch[a.target] /\ (a.epoch = epoch[a.target] => a.gen <= Len(log[a.target]))
      BY <1>6, <2>2 DEF Published
    <3>3. CASE a.target # t
      BY <3>1, <3>2, <3>3 DEF Published
    <3>4. CASE a.target = t
      <4>1. Len(log[t]) \in Nat /\ Len(log'[t]) \in Nat
        <5>1. (\E S : log[t] \in Seq(S)) /\ \E S : log'[t] \in Seq(S)
          BY DEF IInv, Types, FeedTypes
        <5> QED
          BY <5>1, SMT
      <4> QED
        BY <3>1, <3>2, <3>4, <4>1, SMT DEF Published
    <3> QED
      BY <3>3, <3>4
  <2> QED
    BY <2>1, <2>2
<1>7. ASSUME NEW r \in Runner, runner'[r].live
      PROVE  /\ runner'[r].pc = "handling" => runner[r].live /\ runner[r].pc = "handling" /\ op'[r].change = op[r].change
             /\ r \in streams' =>
                  /\ runner[r].live /\ r \in streams /\ view'[r] = view[r] /\ runner'[r].target = runner[r].target
                  /\ epoch'[runner[r].target] = epoch[runner[r].target]
  <2>1. r \in streams' => runner[r].target \in Target
    BY DEF IInv, Types, RunTypes, IsRunner
  <2> QED
    BY <1>7, <2>1
<1>8. Ahead'
  BY <1>5, <1>6, <1>7, AheadKept DEF IInv
<1> QED
  BY <1>1, <1>2, <1>3, <1>4, <1>8 DEF IInv, Types

LEMMA AppendTyped ==
  ASSUME NEW x, NEW S, NEW q \in Seq(S)
  PROVE  Len(Append(q, x)) = Len(q) + 1 /\ Len(q) \in Nat /\ \E T : Append(q, x) \in Seq(T)
<1> DEFINE T == S \cup {x}
<1>1. q \in Seq(T)
  BY SMT
<1>2. x \in T
  OBVIOUS
<1> HIDE DEF T
<1>3. Append(q, x) \in Seq(T) /\ Len(Append(q, x)) = Len(q) + 1 /\ Len(q) \in Nat
  BY <1>1, <1>2, SMT
<1> QED
  BY <1>3

LEMMA PublishStep == ASSUME IInv, NEW t \in Target, NEW table, Publish(t, table) PROVE IInv'
<1>1. /\ UNCHANGED <<obj, cache, subscriptions, sync, runner, op, epoch, streams, view>>
      /\ log' = [log EXCEPT ![t] = Append(@, table)]
  BY DEF Publish, apiVars, streamVars
<1>2. DOMAIN log = Target /\ epoch \in [Target -> Nat] /\ view \in [Runner -> Nat]
  BY DEF IInv, Types, FeedTypes, RunTypes
<1>3. PICK S : log[t] \in Seq(S)
  BY DEF IInv, Types, FeedTypes
<1>4. log'[t] = Append(log[t], table) /\ DOMAIN log' = Target /\ \A u \in Target \ {t} : log'[u] = log[u]
  BY <1>1, <1>2
<1>5. \E T : log'[t] \in Seq(T)
  <2>1. \E T : Append(log[t], table) \in Seq(T)
    BY <1>3, AppendTyped
  <2> QED
    BY <1>4, <2>1
<1>6. Len(log'[t]) >= Len(log[t])
  BY <1>3, <1>4, AppendTyped, SMT
<1> QED
  BY <1>1, <1>2, <1>4, <1>5, <1>6, AgentStep

LEMMA AgentCrashStep == ASSUME IInv, NEW t \in Target, AgentCrash(t) PROVE IInv'
<1>1. /\ UNCHANGED <<obj, cache, subscriptions, sync, runner, op>>
      /\ log' = [log EXCEPT ![t] = << >>] /\ epoch' = [epoch EXCEPT ![t] = @ + 1]
      /\ streams' = {r \in streams : runner[r].target # t}
      /\ view' = [r \in Runner |-> IF r \in streams' THEN view[r] ELSE 0]
  BY DEF AgentCrash, apiVars
<1>2. DOMAIN log = Target /\ epoch \in [Target -> Nat] /\ view \in [Runner -> Nat]
  BY DEF IInv, Types, FeedTypes, RunTypes
<1>3. /\ epoch' \in [Target -> Nat] /\ epoch'[t] > epoch[t] /\ DOMAIN log' = Target /\ log'[t] = << >>
      /\ \A u \in Target \ {t} : log'[u] = log[u] /\ epoch'[u] = epoch[u]
  BY <1>1, <1>2, SMT
<1>4. \E S : log'[t] \in Seq(S)
  BY <1>3, NoStream
<1>5. view' \in [Runner -> Nat] /\ streams' \subseteq streams
  BY <1>1, <1>2
<1>6. \A r \in Runner : r \in streams' => view'[r] = view[r] /\ runner[r].target # t
  BY <1>1
<1> QED
  BY <1>1, <1>3, <1>4, <1>5, <1>6, AgentStep

-----------------------------------------------------------------------------
LEMMA IInvStep == IInv /\ [Next]_vars => IInv'
<1> SUFFICES ASSUME IInv, [Next]_vars PROVE IInv'
  OBVIOUS
<1>1. ASSUME NEW w \in Writer, MutateStep(w) \/ PutLost(w) PROVE IInv'
  BY <1>1, GetStep, PutStep, PutRefusedStep, PutLostStep DEF MutateStep
<1>2. ASSUME NEW r \in Runner, RunnerStep(r) \/ DialFails(r) \/ StreamBreaks(r) PROVE IInv'
  BY <1>2, DialStep, EndsStream, ReceiveStep, RedialStep, ExitStep DEF RunnerStep
<1>3. CASE SyncStep
  BY <1>3, SyncListStep, SyncClearStep, SyncApplyStep DEF SyncStep
<1>4. ASSUME NEW sw \in Switch, Delete(sw) \/ Inform(sw) PROVE IInv'
  BY <1>4, DeleteStep, InformStep
<1>5. ASSUME NEW sw \in Switch, NEW t \in Target \cup {Nil}, EditSpec(sw, t) \/ Create(sw, t) PROVE IInv'
  BY <1>5, EditSpecStep, CreateStep
<1>6. ASSUME NEW t \in Target, AgentCrash(t) PROVE IInv'
  BY <1>6, AgentCrashStep
<1>7. ASSUME NEW t \in Target, NEW table \in left.tables[t], Publish(t, table) PROVE IInv'
  BY <1>7, PublishStep
<1>8. CASE ControllerCrash
  BY <1>8, ControllerCrashStep
<1>9. CASE UNCHANGED vars
  <2>1. UNCHANGED <<obj, cache, subscriptions, sync, runner, op, log, epoch, streams, view>>
    BY <1>9 DEF vars
  <2>2. Types'
    BY <2>1 DEF IInv, Types, ApiTypes, SyncTypes, RunTypes, FeedTypes, IsOp, IsRunner, KindOf
  <2>3. OneLive' /\ Versions' /\ Locked'
    BY <2>1 DEF IInv, OneLive, Versions, Locked, KindOf
  <2>4. Ahead'
    BY <2>1 DEF IInv, Ahead, Around, Follows, Published
  <2> QED
    BY <2>2, <2>3, <2>4 DEF IInv
<1> QED
  BY <1>1, <1>2, <1>3, <1>4, <1>5, <1>6, <1>7, <1>8, <1>9 DEF Next

LEMMA Invariant == Spec => []IInv
  BY InitInv, IInvStep, PTL DEF Spec

LEMMA OneLiveImplies == IInv => OneLiveRunner
<1> SUFFICES ASSUME IInv, NEW sw \in Switch
             PROVE  LET live == {r \in RunnersOf(sw) : runner[r].live}
                    IN IF subscriptions[sw] = Nil THEN live = {}
                       ELSE \E r \in live : live = {r} /\ runner[r].target = subscriptions[sw]
  BY DEF OneLiveRunner
<1>1. \A r : r \in RunnersOf(sw) <=> r \in Runner /\ r[1] = sw
  BY DEF RunnersOf, Runner
<1> QED
  BY <1>1, SMT DEF IInv, OneLive

\* The Switch is written only from what is no newer: one step of StatusNeverRegresses.
Forward == \A sw \in Switch : NotNewer(obj[sw].status.origin, obj'[sw].status.origin)

LEMMA SameForward == ASSUME IInv, NEW sw \in Switch PROVE NotNewer(obj[sw].status.origin, obj[sw].status.origin)
  BY SMT DEF IInv, Types, ApiTypes, IsObject, IsStatus, Origin, NotNewer

LEMMA StoreForward == ASSUME IInv, NEW w \in Writer, op[w].phase = "put", Current(w), Store(w) PROVE Forward
<1> DEFINE sw == op[w].sw
<1>1. sw \in Switch /\ DOMAIN obj = Switch /\ IsObject(obj[sw]) /\ op[w].rv = obj[sw].rv
  BY NoOpPhase DEF IInv, Types, ApiTypes, RunTypes, IsOp, Current
<1>2. NotNewer(obj[sw].status.origin, op[w].body.origin)
  BY <1>1 DEF IInv, Locked
<1>3. /\ \A x \in Switch \ {sw} : obj'[x] = obj[x]
      /\ obj'[sw] = [obj[sw] EXCEPT !.status = op[w].body, !.rv = @ + 1]
  BY <1>1 DEF Store
<1>4. obj'[sw].status = op[w].body
  BY <1>1, <1>3 DEF IsObject
<1> HIDE DEF sw
<1> QED
  BY <1>2, <1>3, <1>4, SameForward DEF Forward

LEMMA UserForward ==
  ASSUME IInv, NEW sw \in Switch, NEW t \in Target \cup {Nil}, Delete(sw) \/ EditSpec(sw, t) \/ Create(sw, t)
  PROVE  Forward
<1>1. DOMAIN obj = Switch /\ IsObject(obj[sw]) /\ obj[sw].rv + 1 \in Nat
  BY SMT DEF IInv, Types, ApiTypes, IsObject
<1>2. \A x \in Switch \ {sw} : obj'[x] = obj[x]
  BY <1>1 DEF Delete, EditSpec, Create
<1>3. obj'[sw].status.origin \in {Nil, obj[sw].status.origin}
  <2>1. CASE Delete(sw)
    BY <1>1, <2>1, FreshObject DEF Delete
  <2>2. CASE EditSpec(sw, t)
    BY <1>1, <2>2 DEF EditSpec, IsObject
  <2>3. CASE Create(sw, t)
    BY <1>1, <2>3, FreshObject DEF Create
  <2> QED
    BY <2>1, <2>2, <2>3
<1>4. NotNewer(obj[sw].status.origin, obj'[sw].status.origin)
  BY <1>3, SameForward DEF NotNewer
<1> QED
  BY <1>2, <1>4, SameForward DEF Forward

LEMMA ForwardStep == IInv /\ [Next]_vars => Forward
<1> SUFFICES ASSUME IInv, [Next]_vars PROVE Forward
  OBVIOUS
<1>0. UNCHANGED obj => Forward
  BY SameForward DEF Forward
<1>1. ASSUME NEW w \in Writer, MutateStep(w) \/ PutLost(w) PROVE Forward
  BY <1>0, <1>1, StoreForward DEF MutateStep, Put, PutLost, PutRefused, Get, apiVars
<1>2. ASSUME NEW r \in Runner, RunnerStep(r) \/ DialFails(r) \/ StreamBreaks(r) PROVE UNCHANGED obj
  BY <1>2 DEF RunnerStep, Dial, DialUnavailable, Receive, StreamClosed, Redial, Exit, DialFails, StreamBreaks, apiVars
<1>3. CASE SyncStep
  BY <1>0, <1>3 DEF SyncStep, SyncList, SyncClear, SyncApply, apiVars
<1>4. ASSUME NEW sw \in Switch, Delete(sw) PROVE Forward
  BY <1>4, UserForward
<1>5. ASSUME NEW sw \in Switch, NEW t \in Target \cup {Nil}, EditSpec(sw, t) \/ Create(sw, t) PROVE Forward
  BY <1>5, UserForward
<1>6. ASSUME NEW sw \in Switch, Inform(sw) PROVE UNCHANGED obj
  BY <1>6 DEF Inform
<1>7. ASSUME NEW t \in Target, AgentCrash(t) \/ \E table \in left.tables[t] : Publish(t, table) PROVE UNCHANGED obj
  BY <1>7 DEF AgentCrash, Publish, apiVars
<1>8. ControllerCrash \/ UNCHANGED vars => UNCHANGED obj
  BY DEF ControllerCrash, vars
<1> QED
  BY <1>0, <1>1, <1>2, <1>3, <1>4, <1>5, <1>6, <1>7, <1>8 DEF Next

(***************************************************************************)
(* subscriptionManager.sync, however its start and stop decisions fall     *)
(* between edits, deletions and restarts of Controller and agents, leaves  *)
(* one live runner per Switch with a target, on that target.               *)
(***************************************************************************)
THEOREM OneSubscriptionPerSwitch == Spec => []OneLiveRunner
  BY Invariant, OneLiveImplies, PTL

(***************************************************************************)
(* mutateSwitchStatus never replaces a snapshot in Switch.status by an     *)
(* older one of the same agent process: a delayed update of a cancelled    *)
(* runner is refused for its version or is no older than what it replaces. *)
(***************************************************************************)
THEOREM StatusMovesForward == Spec => StatusNeverRegresses
<1>1. IInv /\ [Next]_vars =>
        [\A sw \in Switch :
           LET old == obj[sw].status.origin
               new == obj'[sw].status.origin
           IN old # Nil /\ new # Nil /\ old.target = new.target /\ old.epoch = new.epoch
                => new.gen >= old.gen]_vars
  BY ForwardStep DEF Forward, NotNewer
<1> QED
  BY <1>1, Invariant, PTL DEF Spec, StatusNeverRegresses

-----------------------------------------------------------------------------
(* The runners' side of the agents' streams.                               *)

Joined(t) == {r \in streams : runner[r].target = t}
Seen(t) == [r \in Runner |-> IF runner[r].target = t THEN view[r] ELSE 0]

\* A runner without stream has seen nothing, and the tables are those of a scenario.
FeedInv ==
  /\ streams \subseteq Runner
  /\ \A r \in Runner : r \notin streams => view[r] = 0
  /\ "tables" \in DOMAIN left
  /\ \E s \in Scenarios : left.tables = s.left.tables

\* What a step does to the feeds: to all but t nothing.
FeedStep(t) == Feed(t)!FeedNext \/ UNCHANGED Feed(t)!feedVars

\* Runner q is where it was.
Still(q) ==
  /\ q \in streams' <=> q \in streams
  /\ view'[q] = view[q]
  /\ q \in streams => runner'[q].target = runner[q].target

LEMMA StillPoint ==
  ASSUME FeedInv, NEW q \in Runner, Still(q), NEW t
  PROVE  (q \in Joined(t)' <=> q \in Joined(t)) /\ Seen(t)'[q] = Seen(t)[q]
<1>1. q \notin streams => view[q] = 0 /\ view'[q] = 0
  BY DEF FeedInv, Still
<1> QED
  BY <1>1 DEF Still, Joined, Seen

LEMMA QuietFeed ==
  ASSUME FeedInv, FeedInv', \A q \in Runner : Still(q), NEW t \in Target, log'[t] = log[t]
  PROVE  FeedStep(t)
<1>1. \A q \in Runner : (q \in Joined(t)' <=> q \in Joined(t)) /\ Seen(t)'[q] = Seen(t)[q]
  BY StillPoint
<1>2. Joined(t) \subseteq Runner /\ Joined(t)' \subseteq Runner
  BY DEF FeedInv, Joined
<1>3. Joined(t)' = Joined(t)
  BY <1>1, <1>2
<1>4. Seen(t)' = Seen(t)
  BY <1>1 DEF Seen
<1> QED
  BY <1>3, <1>4 DEF FeedStep, Feed!feedVars, Joined, Seen

(* One runner's stream changes.                                            *)
LEMMA OtherFeeds ==
  ASSUME FeedInv, FeedInv', NEW r \in Runner, \A q \in Runner \ {r} : Still(q), NEW t \in Target,
         r \in Joined(t)' <=> r \in Joined(t), Seen(t)'[r] = Seen(t)[r], log'[t] = log[t]
  PROVE  FeedStep(t)
<1>1. \A q \in Runner : (q \in Joined(t)' <=> q \in Joined(t)) /\ Seen(t)'[q] = Seen(t)[q]
  BY StillPoint
<1>2. Joined(t) \subseteq Runner /\ Joined(t)' \subseteq Runner
  BY DEF FeedInv, Joined
<1>3. Joined(t)' = Joined(t)
  BY <1>1, <1>2
<1>4. Seen(t)' = Seen(t)
  BY <1>1 DEF Seen
<1> QED
  BY <1>3, <1>4 DEF FeedStep, Feed!feedVars, Joined, Seen

LEMMA LeaveFeed ==
  ASSUME FeedInv, FeedInv', NEW r \in Runner, \A q \in Runner \ {r} : Still(q), r \notin streams',
         NEW t \in Target, log'[t] = log[t]
  PROVE  FeedStep(t)
<1>0. r \notin Joined(t)' /\ Seen(t)'[r] = 0
  BY DEF Joined, Seen, FeedInv
<1>1. CASE r \notin Joined(t)
  <2>1. Seen(t)[r] = 0
    BY <1>1 DEF Joined, Seen, FeedInv
  <2> QED
    BY <1>0, <1>1, <2>1, OtherFeeds
<1>2. CASE r \in Joined(t)
  <2>1. \A q \in Runner \ {r} : (q \in Joined(t)' <=> q \in Joined(t)) /\ Seen(t)'[q] = Seen(t)[q]
    BY StillPoint
  <2>2. Joined(t) \subseteq Runner /\ Joined(t)' \subseteq Runner
    BY DEF FeedInv, Joined
  <2>3. Joined(t)' = Joined(t) \ {r}
    BY <1>0, <2>1, <2>2
  <2>4. Seen(t)' = [Seen(t) EXCEPT ![r] = 0]
    BY <1>0, <2>1 DEF Seen
  <2>5. Feed(t)!Leave(r)
    BY <1>2, <2>3, <2>4 DEF Feed!Leave, Joined, Seen
  <2> QED
    BY <2>5 DEF FeedStep, Feed!FeedNext
<1> QED
  BY <1>1, <1>2

LEMMA DialFeed == ASSUME IInv, FeedInv, FeedInv', NEW r \in Runner, Dial(r), NEW t \in Target PROVE FeedStep(t)
<1>1. /\ runner' = [runner EXCEPT ![r].pc = "receiving"] /\ streams' = streams \cup {r}
      /\ view' = [view EXCEPT ![r] = Len(log[runner[r].target]) - 1] /\ UNCHANGED log
      /\ log[runner[r].target] # << >> /\ runner[r].pc = "dialing"
  BY DEF Dial, feedVars
<1>2. DOMAIN runner = Runner /\ IsRunner(r) /\ DOMAIN view = Runner
  BY DEF IInv, Types, RunTypes
<1>3. runner'[r].target = runner[r].target /\ \A q \in Runner \ {r} : runner'[q] = runner[q]
  BY <1>1, <1>2 DEF IsRunner
<1>4. \A q \in Runner \ {r} : Still(q)
  BY <1>1, <1>2, <1>3 DEF Still
<1>5. r \notin streams
  BY <1>1, <1>2 DEF IsRunner
<1>6. CASE runner[r].target # t
  BY <1>1, <1>3, <1>4, <1>6, OtherFeeds DEF Joined, Seen
<1>7. CASE runner[r].target = t
  <2>1. \A q \in Runner \ {r} : (q \in Joined(t)' <=> q \in Joined(t)) /\ Seen(t)'[q] = Seen(t)[q]
    BY <1>4, StillPoint
  <2>2. Joined(t) \subseteq Runner /\ Joined(t)' \subseteq Runner
    BY DEF FeedInv, Joined
  <2>3. r \in Joined(t)' /\ r \notin Joined(t)
    BY <1>1, <1>3, <1>5, <1>7 DEF Joined
  <2>4. Joined(t)' = Joined(t) \cup {r}
    BY <2>1, <2>2, <2>3
  <2>5. Seen(t)'[r] = Len(log[t]) - 1
    BY <1>1, <1>2, <1>3, <1>7 DEF Seen
  <2>6. Seen(t)' = [Seen(t) EXCEPT ![r] = Len(log[t]) - 1]
    BY <2>1, <2>5 DEF Seen
  <2>7. Feed(t)!Join(r)
    BY <1>1, <1>7, <2>3, <2>4, <2>6 DEF Feed!Join, Joined, Seen
  <2> QED
    BY <2>7 DEF FeedStep, Feed!FeedNext
<1> QED
  BY <1>6, <1>7

LEMMA DeliverFeed ==
  ASSUME IInv, FeedInv, FeedInv', NEW r \in Runner, r \in streams, NEW g \in (view[r] + 1) .. Len(log[runner[r].target]),
         view' = [view EXCEPT ![r] = g], UNCHANGED <<log, streams>>,
         \A q \in Runner : runner'[q].target = runner[q].target, NEW t \in Target
  PROVE  FeedStep(t)
<1>1. DOMAIN view = Runner
  BY DEF IInv, Types, RunTypes
<1>2. \A q \in Runner \ {r} : Still(q)
  BY <1>1 DEF Still
<1>3. r \in Joined(t)' <=> r \in Joined(t)
  BY DEF Joined
<1>4. CASE runner[r].target # t
  BY <1>2, <1>3, <1>4, OtherFeeds DEF Seen
<1>5. CASE runner[r].target = t
  <2>1. \A q \in Runner : (q \in Joined(t)' <=> q \in Joined(t))
    BY DEF Joined
  <2>2. Joined(t)' = Joined(t) /\ r \in Joined(t)
    <3>1. Joined(t) \subseteq Runner /\ Joined(t)' \subseteq Runner
      BY DEF FeedInv, Joined
    <3>2. Joined(t)' = Joined(t)
      BY <2>1, <3>1
    <3>3. r \in Joined(t)
      BY <1>5 DEF Joined
    <3> QED
      BY <3>2, <3>3
  <2>3. \A q \in Runner \ {r} : Seen(t)'[q] = Seen(t)[q]
    BY <1>2, StillPoint
  <2>4. Seen(t)'[r] = g /\ Seen(t)[r] = view[r]
    BY <1>1, <1>5 DEF Seen
  <2>5. Seen(t)' = [Seen(t) EXCEPT ![r] = g]
    <3>1. Seen(t) = [q \in Runner |-> Seen(t)[q]]
      BY SMT DEF Seen
    <3>2. Seen(t)' = [q \in Runner |-> Seen(t)'[q]]
      BY SMT DEF Seen
    <3> QED
      BY <2>3, <2>4, <3>1, <3>2, SMT
  <2>6. g \in (Seen(t)[r] + 1) .. Len(log[t])
    BY <1>5, <2>4
  <2>7. Feed(t)!Deliver(r)
    BY <2>2, <2>5, <2>6 DEF Feed!Deliver, Joined, Seen
  <2> QED
    BY <2>7 DEF FeedStep, Feed!FeedNext
<1> QED
  BY <1>4, <1>5

LEMMA PublishFeed ==
  ASSUME IInv, FeedInv, FeedInv', NEW u \in Target, NEW table \in left.tables[u], Publish(u, table), NEW t \in Target
  PROVE  FeedStep(t)
<1>1. /\ log' = [log EXCEPT ![u] = Append(@, table)] /\ UNCHANGED <<streams, view, runner>>
      /\ Newest(u) # table /\ DOMAIN log = Target
  BY DEF Publish, streamVars, IInv, Types, FeedTypes
<1>2. CASE t # u
  <2>1. log'[t] = log[t] /\ \A q \in Runner : Still(q)
    BY <1>1, <1>2 DEF Still
  <2> QED
    BY <2>1, QuietFeed
<1>3. CASE t = u
  <2>1. table \in Table
    BY SMT DEF FeedInv, Table
  <2>2. log'[t] = Append(log[t], table) /\ Joined(t)' = Joined(t) /\ Seen(t)' = Seen(t)
    BY <1>1, <1>3 DEF Joined, Seen
  <2>3. log[t] = << >> \/ log[t][Len(log[t])] # table
    BY <1>1, <1>3 DEF Newest
  <2>4. Feed(t)!Publish(table)
    BY <2>2, <2>3 DEF Feed!Publish, Joined, Seen
  <2> QED
    BY <2>1, <2>4 DEF FeedStep, Feed!FeedNext
<1> QED
  BY <1>2, <1>3

LEMMA CrashFeed ==
  ASSUME IInv, FeedInv, FeedInv', NEW u \in Target, AgentCrash(u), NEW t \in Target
  PROVE  FeedStep(t)
<1>1. /\ UNCHANGED runner /\ log' = [log EXCEPT ![u] = << >>] /\ DOMAIN log = Target
      /\ streams' = {r \in streams : runner[r].target # u}
      /\ view' = [r \in Runner |-> IF r \in streams' THEN view[r] ELSE 0]
  BY DEF AgentCrash, IInv, Types, FeedTypes
<1>2. CASE t # u
  <2>1. log'[t] = log[t]
    BY <1>1, <1>2
  <2>2. \A q \in Runner : (q \in Joined(t)' <=> q \in Joined(t)) /\ Seen(t)'[q] = Seen(t)[q]
    <3> SUFFICES ASSUME NEW q \in Runner PROVE (q \in Joined(t)' <=> q \in Joined(t)) /\ Seen(t)'[q] = Seen(t)[q]
      OBVIOUS
    <3>1. q \in Joined(t)' <=> q \in Joined(t)
      BY <1>1, <1>2 DEF Joined
    <3>2. runner[q].target = t => view'[q] = view[q]
      BY <1>1, <1>2 DEF FeedInv
    <3> QED
      BY <1>1, <3>1, <3>2 DEF Seen
  <2>3. Joined(t) \subseteq Runner /\ Joined(t)' \subseteq Runner
    BY DEF FeedInv, Joined
  <2>4. Joined(t)' = Joined(t)
    BY <2>2, <2>3
  <2>5. Seen(t)' = Seen(t)
    BY <2>2 DEF Seen
  <2> QED
    BY <2>1, <2>4, <2>5 DEF FeedStep, Feed!feedVars, Joined, Seen
<1>3. CASE t = u
  <2>1. log'[t] = << >> /\ Joined(t)' = {}
    BY <1>1, <1>3 DEF Joined
  <2>2. \A q \in Runner : Seen(t)'[q] = 0
    BY <1>1, <1>3 DEF Seen
  <2>3. Seen(t)' = [r \in Runner |-> 0]
    BY <2>2 DEF Seen
  <2>4. Feed(t)!Crash
    BY <2>1, <2>3 DEF Feed!Crash, Joined, Seen
  <2> QED
    BY <2>4 DEF FeedStep, Feed!FeedNext
<1> QED
  BY <1>2, <1>3

-----------------------------------------------------------------------------
(* What the steps of the runners and of the sync goroutine do to streams.  *)
Leaves(r) ==
  /\ UNCHANGED log
  /\ streams' = streams \ {r} /\ view' = [view EXCEPT ![r] = 0]
  /\ \A q \in Runner \ {r} : runner'[q] = runner[q]

Stays ==
  /\ UNCHANGED <<log, streams, view>>
  /\ \A q \in Runner : q \in streams => runner'[q].target = runner[q].target

LEMMA LeavesStep ==
  ASSUME IInv, FeedInv, FeedInv', NEW r \in Runner, Leaves(r), NEW t \in Target
  PROVE  FeedStep(t)
<1>1. DOMAIN view = Runner
  BY DEF IInv, Types, RunTypes
<1>2. (\A q \in Runner \ {r} : Still(q)) /\ r \notin streams' /\ log'[t] = log[t]
  BY <1>1 DEF Leaves, Still
<1> QED
  BY <1>2, LeaveFeed

LEMMA StaysStep ==
  ASSUME FeedInv, FeedInv', Stays, NEW t \in Target PROVE FeedStep(t)
<1>1. (\A q \in Runner : Still(q)) /\ log'[t] = log[t]
  BY DEF Stays, Still
<1> QED
  BY <1>1, QuietFeed

LEMMA DisconnectLeaves ==
  ASSUME IInv, NEW r \in Runner, NEW reason, Disconnect(r, reason), UNCHANGED log PROVE Leaves(r)
<1>1. DOMAIN runner = Runner
  BY DEF IInv, Types, RunTypes
<1> QED
  BY <1>1 DEF Disconnect, Leaves

LEMMA OneRunnerStays ==
  ASSUME IInv, NEW r \in Runner, UNCHANGED <<log, streams, view>>,
         \/ runner' = [runner EXCEPT ![r].pc = "receiving"] \/ runner' = [runner EXCEPT ![r].pc = "backoff"]
         \/ runner' = [runner EXCEPT ![r].pc = "dialing"] \/ runner' = [runner EXCEPT ![r].pc = "handling"]
         \/ \E g, s : runner' = [runner EXCEPT ![r].pc = "receiving", ![r].lastGeneration = g, ![r].stored = s]
  PROVE  Stays /\ \A q \in Runner : runner'[q].target = runner[q].target
<1>1. DOMAIN runner = Runner /\ IsRunner(r)
  BY DEF IInv, Types, RunTypes
<1>2. (\A q \in Runner \ {r} : runner'[q] = runner[q]) /\ runner'[r].target = runner[r].target
  BY <1>1 DEF IsRunner
<1> QED
  BY <1>2 DEF Stays

LEMMA ReturnFeeds ==
  ASSUME IInv, NEW w \in Writer, op[w].phase \in {"get", "put"}, NEW ok \in BOOLEAN, Return(w, ok), UNCHANGED log
  PROVE  Stays \/ (w \in Runner /\ Leaves(w))
<1>1. CASE w = Syncer
  BY <1>1 DEF Return, Stays, streamVars
<1>2. CASE w # Syncer
  <2>1. w \in Runner
    BY <1>2 DEF Writer
  <2>2. IsRunner(w) /\ op[w] # NoOp
    BY <2>1, NoOpPhase DEF IInv, Types, RunTypes
  <2>3. runner[w].pc \in {"handling", "marking"}
    BY <2>2 DEF IsRunner
  <2>4. CASE runner[w].pc = "handling" /\ ok
    <3>1. UNCHANGED <<streams, view>> /\ \E g, s : runner' = [runner EXCEPT ![w].pc = "receiving", ![w].lastGeneration = g, ![w].stored = s]
      <4>1. /\ UNCHANGED <<streams, view>>
            /\ runner' = [runner EXCEPT ![w].pc = "receiving", ![w].lastGeneration = op[w].change.origin.gen,
                            ![w].stored = IF op[w].phase = "put" THEN op[w].change.neighbors ELSE Nil]
        BY <1>2, <2>4 DEF Return, streamVars
      <4> QED
        BY <4>1
    <3> QED
      BY <2>1, <3>1, OneRunnerStays
  <2>5. CASE runner[w].pc = "handling" /\ ~ok
    BY <1>2, <2>1, <2>5, DisconnectLeaves DEF Return
  <2>6. CASE runner[w].pc = "marking"
    <3>1. UNCHANGED <<streams, view>> /\ runner' = [runner EXCEPT ![w].pc = "backoff"]
      BY <1>2, <2>6 DEF Return, streamVars
    <3> QED
      BY <2>1, <3>1, OneRunnerStays
  <2> QED
    BY <2>3, <2>4, <2>5, <2>6
<1> QED
  BY <1>1, <1>2

(* SyncApply starts runners in slots that have no stream.                  *)
LEMMA SyncApplyStays == ASSUME IInv, SyncApply PROVE Stays
<1> DEFINE start == {sw \in Switch : sync.want[sw] \notin {Nil, subscriptions[sw]}}
           stop == {sw \in Switch : sync.want[sw] # subscriptions[sw]}
           started(r) == [NoRunner EXCEPT !.pc = "dialing", !.live = TRUE, !.target = sync.want[r[1]]]
<1>1. /\ \A sw \in start : \E i \in Slot : runner[<<sw, i>>].pc = "off"
      /\ UNCHANGED <<log, streams, view>>
      /\ runner' = [r \in Runner |-> IF r[1] \in start /\ r[2] = FreeSlot(r[1]) THEN started(r) ELSE Cancelled(stop)[r]]
  BY DEF SyncApply, feedVars, streamVars
<1> HIDE DEF start, stop, started
<1>2. ASSUME NEW q \in Runner, q \in streams PROVE runner'[q].target = runner[q].target
  <2>1. runner[q].pc # "off" /\ "target" \in DOMAIN runner[q]
    BY <1>2 DEF IInv, Types, RunTypes, IsRunner
  <2>2. q = <<q[1], q[2]>>
    BY SMT DEF Runner
  <2>3. q[1] \in start => runner[<<q[1], FreeSlot(q[1])>>].pc = "off"
    BY <1>1 DEF FreeSlot
  <2>4. ~(q[1] \in start /\ q[2] = FreeSlot(q[1]))
    BY <2>1, <2>2, <2>3
  <2>5. runner'[q] = Cancelled(stop)[q]
    BY <1>1, <2>4
  <2> QED
    BY <2>1, <2>5 DEF Cancelled
<1> QED
  BY <1>1, <1>2 DEF Stays

LEMMA CancelStays ==
  ASSUME IInv, NEW cancel, runner' = Cancelled(cancel), UNCHANGED <<log, streams, view>> PROVE Stays
<1>1. ASSUME NEW q \in Runner PROVE runner'[q].target = runner[q].target
  <2>1. "target" \in DOMAIN runner[q]
    BY DEF IInv, Types, RunTypes, IsRunner
  <2> QED
    BY <2>1 DEF Cancelled
<1> QED
  BY <1>1 DEF Stays

(* All steps.                                                              *)
LEMMA ReceiveFeeds ==
  ASSUME IInv, NEW r \in Runner, Receive(r)
  PROVE  /\ r \in streams /\ UNCHANGED log
         /\ \/ Leaves(r)
            \/ /\ UNCHANGED streams /\ \A q \in Runner : runner'[q].target = runner[q].target
               /\ \E g \in (view[r] + 1) .. Len(log[runner[r].target]) : view' = [view EXCEPT ![r] = g]
<1>1. r \in streams /\ UNCHANGED log
  BY DEF Receive, feedVars
<1>2. PICK g \in (view[r] + 1) .. Len(log[runner[r].target]) :
        \/ view' = [view EXCEPT ![r] = g] /\ UNCHANGED <<runner, streams>>
        \/ Disconnect(r, "SnapshotRejected")
        \/ view' = [view EXCEPT ![r] = g] /\ runner' = [runner EXCEPT ![r].pc = "handling"] /\ UNCHANGED streams
  BY DEF Receive
<1>3. CASE Disconnect(r, "SnapshotRejected")
  BY <1>1, <1>3, DisconnectLeaves
<1>4. CASE runner' = [runner EXCEPT ![r].pc = "handling"]
  <2>1. DOMAIN runner = Runner /\ IsRunner(r)
    BY DEF IInv, Types, RunTypes
  <2>2. \A q \in Runner : runner'[q].target = runner[q].target
    BY <1>4, <2>1 DEF IsRunner
  <2> QED
    BY <1>1, <1>2, <1>3, <2>2
<1>5. CASE UNCHANGED runner
  BY <1>1, <1>2, <1>3, <1>5
<1> QED
  BY <1>1, <1>2, <1>3, <1>4, <1>5

LEMMA FeedCases ==
  ASSUME IInv, Next
  PROVE  \/ Stays
         \/ \E r \in Runner : Leaves(r) \/ Dial(r) \/ Receive(r)
         \/ \E t \in Target : AgentCrash(t) \/ \E table \in left.tables[t] : Publish(t, table)
<1>1. ASSUME NEW w \in Writer, MutateStep(w) \/ PutLost(w) PROVE Stays \/ \E r \in Runner : Leaves(r)
  <2>1. UNCHANGED log
    BY <1>1 DEF MutateStep, PutLost, Get, Put, PutRefused, feedVars
  <2>2. op[w].phase \in {"get", "put"}
    BY <1>1 DEF MutateStep, PutLost, Get, Put, PutRefused
  <2>3. (\E ok \in BOOLEAN : Return(w, ok)) \/ UNCHANGED <<runner, streams, view>>
    BY <1>1 DEF MutateStep, PutLost, Get, Put, PutRefused, streamVars
  <2> QED
    BY <2>1, <2>2, <2>3, ReturnFeeds DEF Stays
<1>2. ASSUME NEW r \in Runner, RunnerStep(r) \/ DialFails(r) \/ StreamBreaks(r)
      PROVE  Stays \/ Leaves(r) \/ Dial(r) \/ Receive(r)
  <2>1. UNCHANGED log
    BY <1>2 DEF RunnerStep, Dial, DialUnavailable, Receive, StreamClosed, Redial, Exit, DialFails, StreamBreaks, feedVars
  <2>2. CASE \E reason : Disconnect(r, reason)
    BY <2>1, <2>2, DisconnectLeaves
  <2>3. CASE Redial(r)
    BY <2>1, <2>3, OneRunnerStays DEF Redial, streamVars
  <2>4. CASE Exit(r)
    <3>1. DOMAIN runner = Runner
      BY DEF IInv, Types, RunTypes
    <3> QED
      BY <2>1, <2>4, <3>1 DEF Exit, Leaves
  <2> QED
    BY <1>2, <2>2, <2>3, <2>4 DEF RunnerStep, DialUnavailable, StreamClosed, DialFails, StreamBreaks
<1>3. CASE SyncStep
  <2>1. CASE SyncList
    BY <2>1 DEF SyncList, Stays, feedVars, streamVars
  <2>2. ASSUME NEW sw \in Switch, SyncClear(sw) PROVE Stays
    BY <2>2, CancelStays DEF SyncClear, feedVars, streamVars
  <2> QED
    BY <1>3, <2>1, <2>2, SyncApplyStays DEF SyncStep
<1>4. ASSUME NEW sw \in Switch, Delete(sw) \/ Inform(sw) \/ \E t \in Target \cup {Nil} : EditSpec(sw, t) \/ Create(sw, t)
      PROVE  Stays
  BY <1>4 DEF Delete, Inform, EditSpec, Create, Stays, feedVars, streamVars
<1>5. CASE ControllerCrash
  BY <1>5, CancelStays DEF ControllerCrash, feedVars, streamVars
<1> QED
  BY <1>1, <1>2, <1>3, <1>4, <1>5 DEF Next

LEMMA FeedInvStep == IInv /\ FeedInv /\ [Next]_vars => FeedInv'
<1> SUFFICES ASSUME IInv, FeedInv, [Next]_vars PROVE FeedInv'
  OBVIOUS
<1>0. DOMAIN view = Runner
  BY DEF IInv, Types, RunTypes
<1>1. "tables" \in DOMAIN left' /\ left'.tables = left.tables
  <2>1. \/ UNCHANGED left
        \/ \E what \in {"faults", "edits", "deletes", "creates", "agentCrashes", "crashes"} : Spend(what)
    BY DEF Next, MutateStep, RunnerStep, SyncStep, Get, Put, PutRefused, PutLost, Dial, DialUnavailable, DialFails,
           Receive, StreamClosed, StreamBreaks, Redial, Exit, SyncList, SyncClear, SyncApply, EditSpec, Delete,
           Create, Inform, Publish, AgentCrash, ControllerCrash, vars
  <2> QED
    BY <2>1 DEF Spend, FeedInv
<1>2. streams' \subseteq Runner /\ \A q \in Runner : q \notin streams' => view'[q] = 0
  <2>1. CASE UNCHANGED <<streams, view>>
    BY <2>1 DEF FeedInv
  <2>2. ASSUME NEW r \in Runner, Leaves(r) PROVE streams' \subseteq Runner /\ \A q \in Runner : q \notin streams' => view'[q] = 0
    BY <1>0, <2>2 DEF Leaves, FeedInv
  <2>3. ASSUME NEW r \in Runner, Dial(r) PROVE streams' \subseteq Runner /\ \A q \in Runner : q \notin streams' => view'[q] = 0
    BY <1>0, <2>3 DEF Dial, FeedInv
  <2>4. ASSUME NEW r \in Runner, Receive(r) PROVE streams' \subseteq Runner /\ \A q \in Runner : q \notin streams' => view'[q] = 0
    BY <1>0, <2>2, <2>4, ReceiveFeeds DEF FeedInv
  <2>5. ASSUME NEW t \in Target, AgentCrash(t) PROVE streams' \subseteq Runner /\ \A q \in Runner : q \notin streams' => view'[q] = 0
    BY <2>5 DEF AgentCrash, FeedInv
  <2>6. ASSUME NEW t \in Target, NEW table, Publish(t, table) PROVE UNCHANGED <<streams, view>>
    BY <2>6 DEF Publish, streamVars
  <2>7. CASE UNCHANGED vars
    BY <2>1, <2>7 DEF vars
  <2> QED
    BY <2>1, <2>2, <2>3, <2>4, <2>5, <2>6, <2>7, FeedCases DEF Stays
<1> QED
  BY <1>1, <1>2 DEF FeedInv

LEMMA FeedInvInit == Init => FeedInv
<1> SUFFICES ASSUME Init PROVE FeedInv
  OBVIOUS
<1>1. PICK s \in Scenarios : left = s.left
  BY DEF Init
<1> QED
  BY <1>1, ScenarioAssumption DEF Init, FeedInv

(***************************************************************************)
(* The runners use each agent as the feed that SwitchAgent implements:     *)
(* whatever a runner, the sync goroutine, a crash of the Controller or of  *)
(* the agent does, is for every agent a step of its feed or no step of it. *)
(***************************************************************************)
THEOREM AgentsAreFeeds == Spec => UsesFeeds
<1>1. IInv /\ FeedInv /\ [Next]_vars => \A t \in Target : FeedStep(t)
  <2> SUFFICES ASSUME IInv, FeedInv, [Next]_vars, NEW t \in Target PROVE FeedStep(t)
    OBVIOUS
  <2>0. FeedInv'
    BY FeedInvStep
  <2>1. CASE Stays
    BY <2>0, <2>1, StaysStep
  <2>2. ASSUME NEW r \in Runner, Leaves(r) PROVE FeedStep(t)
    BY <2>0, <2>2, LeavesStep
  <2>3. ASSUME NEW r \in Runner, Dial(r) PROVE FeedStep(t)
    BY <2>0, <2>3, DialFeed
  <2>4. ASSUME NEW r \in Runner, Receive(r) PROVE FeedStep(t)
    BY <2>0, <2>2, <2>4, ReceiveFeeds, DeliverFeed
  <2>5. ASSUME NEW u \in Target, AgentCrash(u) PROVE FeedStep(t)
    BY <2>0, <2>5, CrashFeed
  <2>6. ASSUME NEW u \in Target, NEW table \in left.tables[u], Publish(u, table) PROVE FeedStep(t)
    BY <2>0, <2>6, PublishFeed
  <2>7. CASE UNCHANGED vars
    <3>1. Stays
      BY <2>7 DEF vars, Stays
    <3> QED
      BY <2>0, <3>1, StaysStep
  <2> QED
    BY <2>1, <2>2, <2>3, <2>4, <2>5, <2>6, <2>7, FeedCases
<1>2. IInv /\ FeedInv /\ [Next]_vars =>
        [\A t \in Target : Feed(t)!FeedNext \/ UNCHANGED Feed(t)!feedVars]_vars
  BY <1>1 DEF FeedStep
<1> QED
  BY <1>2, Invariant, FeedInvInit, FeedInvStep, PTL DEF Spec, UsesFeeds

-----------------------------------------------------------------------------
(* What a live subscription has stored stays.                              *)

\* A snapshot in hand is newer than those accepted before, and from the runner's agent.
KeepRunner(r) ==
  /\ "stored" \in DOMAIN runner[r] /\ "lastGeneration" \in DOMAIN runner[r]
  /\ runner[r].lastGeneration \in Nat
  /\ runner[r].pc = "handling" =>
       /\ op[r].change.origin.target = runner[r].target
       /\ op[r].change.origin.gen > runner[r].lastGeneration

KeepStatus(sw) == "neighbors" \in DOMAIN obj[sw].status /\ "neighbors" \in DOMAIN cache[sw].status

\* The neighbors an update carries: those of the snapshot, or those it replaces.
KeepOp(w) ==
  op[w].phase = "put" =>
    /\ "neighbors" \in DOMAIN op[w].body
    /\ KindOf(w) = "accept" => op[w].body.neighbors = op[w].change.neighbors
    /\ KindOf(w) = "mark" /\ op[w].rv = obj[op[w].sw].rv =>
         /\ op[w].body.neighbors = obj[op[w].sw].status.neighbors
         /\ op[w].body.origin = obj[op[w].sw].status.origin

\* Once a live runner has stored something, the updates of cancelled ones are outdated.
Outdated ==
  \A r, q \in Runner :
    r[1] = q[1] /\ runner[r].live /\ runner[r].stored # Nil /\ ~runner[q].live /\ op[q].phase = "put"
      => op[q].rv < obj[r[1]].rv

\* The sync goroutine clears a Switch after it stopped its subscription.
StopsFirst == op[Syncer] # NoOp => \A r \in Runner : r[1] = op[Syncer].sw => ~runner[r].live

KeepInv ==
  /\ \A r \in Runner : KeepRunner(r)
  /\ \A sw \in Switch : KeepStatus(sw)
  /\ \A w \in Writer : KeepOp(w)
  /\ Outdated
  /\ StopsFirst

\* Runner q remembers what it remembered; or it has nothing to keep.
Keeps(q) ==
  /\ "stored" \in DOMAIN runner'[q] /\ "lastGeneration" \in DOMAIN runner'[q]
  /\ runner'[q].live <=> runner[q].live
  /\ runner'[q].target = runner[q].target
  /\ runner'[q].stored = runner[q].stored /\ runner'[q].lastGeneration = runner[q].lastGeneration

Forgets(q) == ~runner'[q].live \/ runner'[q].stored = Nil

\* An update on its way is one that was, or is new and from a live runner or the sync goroutine.
SameOp(w) ==
  op'[w].phase = "put" =>
    \/ op'[w] = op[w] /\ KindOf(w)' = KindOf(w)
    \/ KeepOp(w)' /\ (w # Syncer => runner'[w].live)

\* One step of StoredStays.
Holds == \A sw \in Switch : obj[sw].exists /\ obj'[sw].exists /\ HoldsStored(sw) => HoldsStored(sw)'

LEMMA KeepFrame ==
  ASSUME IInv, IInv', KeepInv,
         \A r \in Runner : KeepRunner(r)',
         \A sw \in Switch : KeepStatus(sw)',
         \A w \in Writer : SameOp(w),
         \A sw \in Switch : \/ obj'[sw].rv > obj[sw].rv
                            \/ obj'[sw].rv = obj[sw].rv /\ obj'[sw].status = obj[sw].status,
         \A r \in Runner :
           \/ Forgets(r)
           \/ obj'[r[1]].rv > obj[r[1]].rv
           \/ Keeps(r) /\ \A q \in Runner : q[1] = r[1] /\ runner[q].live => runner'[q].live,
         StopsFirst'
  PROVE  KeepInv'
<1>0. \A sw \in Switch : obj[sw].rv \in Nat /\ obj'[sw].rv \in Nat
  BY DEF IInv, Types, ApiTypes, IsObject
<1>1. ASSUME NEW w \in Writer, op[w].phase = "put"
      PROVE  /\ op[w].sw \in Switch /\ (w # Syncer => op[w].sw = w[1])
             /\ op[w].rv \in Nat /\ op[w].rv <= obj[op[w].sw].rv
  BY <1>1, NoOpPhase DEF IInv, Types, RunTypes, IsOp, Locked
<1>2. ASSUME NEW w \in Writer PROVE KeepOp(w)'
  <2> SUFFICES ASSUME op'[w].phase = "put", op'[w] = op[w], KindOf(w)' = KindOf(w) PROVE KeepOp(w)'
    BY DEF SameOp, KeepOp
  <2>1. op[w].rv = obj'[op[w].sw].rv => op[w].rv = obj[op[w].sw].rv /\ obj'[op[w].sw].status = obj[op[w].sw].status
    BY <1>0, <1>1, SMT
  <2>2. KeepOp(w)
    BY DEF KeepInv
  <2> QED
    BY <2>1, <2>2 DEF KeepOp
<1>3. Outdated'
  <2> SUFFICES ASSUME NEW r \in Runner, NEW q \in Runner, r[1] = q[1], runner'[r].live, runner'[r].stored # Nil,
                      ~runner'[q].live, op'[q].phase = "put"
               PROVE  op'[q].rv < obj'[r[1]].rv
    BY DEF Outdated
  <2>1. op'[q] = op[q]
    BY RunnerPair DEF SameOp
  <2>2. op[q].rv \in Nat /\ op[q].rv <= obj[r[1]].rv /\ r[1] \in Switch
    BY <1>1, <2>1, RunnerPair
  <2>3. CASE obj'[r[1]].rv > obj[r[1]].rv
    BY <1>0, <2>1, <2>2, <2>3, SMT
  <2>4. CASE Keeps(r) /\ ~runner[q].live
    <3>1. op[q].rv < obj[r[1]].rv
      BY <2>1, <2>4 DEF KeepInv, Outdated, Keeps
    <3> QED
      BY <1>0, <2>1, <2>2, <3>1, SMT
  <2> QED
    BY <2>3, <2>4 DEF Forgets
<1> QED
  BY <1>2, <1>3 DEF KeepInv

LEMMA HoldsFrame ==
  ASSUME NEW sw \in Switch, HoldsStored(sw), obj'[sw].status = obj[sw].status,
         \A r \in Runner : r[1] = sw => Keeps(r) \/ Forgets(r)
  PROVE  HoldsStored(sw)'
<1> SUFFICES ASSUME NEW r \in Runner, r[1] = sw, runner'[r].live, runner'[r].stored # Nil
             PROVE  \/ obj'[sw].status.neighbors = runner'[r].stored
                    \/ /\ obj'[sw].status.origin # Nil /\ obj'[sw].status.origin.target = runner'[r].target
                       /\ obj'[sw].status.origin.gen > runner'[r].lastGeneration
  BY DEF HoldsStored, RunnersOf
<1>1. Keeps(r)
  BY DEF Forgets
<1> QED
  BY <1>1 DEF Keeps, HoldsStored, RunnersOf

(* Nothing is stored.                                                      *)
LEMMA QuietKeep ==
  ASSUME IInv, IInv', KeepInv,
         \A r \in Runner : KeepRunner(r)',
         \A w \in Writer : SameOp(w),
         \A r \in Runner : Keeps(r) \/ Forgets(r),
         \A r, q \in Runner : q[1] = r[1] /\ runner[q].live /\ ~runner'[q].live => Forgets(r),
         StopsFirst',
         UNCHANGED obj, \A sw \in Switch : cache'[sw] \in {cache[sw], obj[sw]}
  PROVE  KeepInv' /\ Holds
<1>1. \A sw \in Switch : obj'[sw].rv = obj[sw].rv /\ obj'[sw].status = obj[sw].status
  OBVIOUS
<1>2. \A sw \in Switch : KeepStatus(sw)'
  BY DEF KeepInv, KeepStatus
<1>3. KeepInv'
  BY <1>1, <1>2, KeepFrame
<1> QED
  BY <1>1, <1>3, HoldsFrame DEF Holds

LEMMA KeepRunnerKept ==
  ASSUME NEW q \in Runner, KeepRunner(q), Keeps(q),
         runner'[q].pc = "handling" => runner[q].pc = "handling" /\ op'[q].change = op[q].change
  PROVE  KeepRunner(q)'
  BY DEF KeepRunner, Keeps

(* Runner r takes over x, which remembers what r did.                      *)
LEMMA OneKeeps ==
  ASSUME IInv, KeepInv, NEW r \in Runner, NEW x, runner' = [runner EXCEPT ![r] = x],
         "stored" \in DOMAIN x, "lastGeneration" \in DOMAIN x, x.live <=> runner[r].live,
         x.target = runner[r].target, x.stored = runner[r].stored, x.lastGeneration = runner[r].lastGeneration
  PROVE  \A q \in Runner : Keeps(q)
<1>1. DOMAIN runner = Runner /\ \A q \in Runner : KeepRunner(q)
  BY DEF IInv, Types, RunTypes, KeepInv
<1>2. runner'[r] = x /\ \A q \in Runner \ {r} : runner'[q] = runner[q]
  BY <1>1
<1> QED
  BY <1>1, <1>2 DEF Keeps, KeepRunner

LEMMA PcKeeps ==
  ASSUME IInv, KeepInv, NEW r \in Runner, NEW pc, runner' = [runner EXCEPT ![r].pc = pc]
  PROVE  \A q \in Runner : Keeps(q)
<1> DEFINE x == [runner[r] EXCEPT !.pc = pc]
<1>1. runner' = [runner EXCEPT ![r] = x]
  OBVIOUS
<1>2. "live" \in DOMAIN runner[r] /\ "target" \in DOMAIN runner[r] /\ KeepRunner(r)
  BY DEF IInv, Types, RunTypes, IsRunner, KeepInv
<1>3. /\ "stored" \in DOMAIN x /\ "lastGeneration" \in DOMAIN x /\ (x.live <=> runner[r].live)
      /\ x.target = runner[r].target /\ x.stored = runner[r].stored /\ x.lastGeneration = runner[r].lastGeneration
  BY <1>2 DEF KeepRunner
<1> HIDE DEF x
<1> QED
  BY <1>1, <1>3, OneKeeps

\* w's call has succeeded: its snapshot counts as accepted.
Accepts(w) ==
  /\ w \in Runner /\ runner[w].pc = "handling"
  /\ runner'[w].live <=> runner[w].live
  /\ runner'[w].target = runner[w].target /\ runner'[w].lastGeneration = op[w].change.origin.gen
  /\ runner'[w].stored = (IF op[w].phase = "put" THEN op[w].change.neighbors ELSE Nil)

LEMMA ReturnKeeps ==
  ASSUME IInv, KeepInv, NEW w \in Writer, op[w] # NoOp, NEW ok \in BOOLEAN, Return(w, ok), UNCHANGED subscriptions
  PROVE  /\ \A q \in Runner : KeepRunner(q)' /\ (Keeps(q) \/ (q = w /\ ok /\ Accepts(w)))
         /\ StopsFirst'
         /\ \A v \in Writer : SameOp(v)
         /\ \A q \in Runner : runner'[q].live <=> runner[q].live
<1>1. Calm(w)
  BY ReturnStep
<1>2. (\A q \in Runner : runner'[q].live <=> runner[q].live) /\ \A v \in Writer : SameOp(v)
  BY <1>1 DEF Calm, SameOp
<1>3. op'[Syncer] \in {NoOp, op[Syncer]}
  <2>1. DOMAIN op = Writer /\ Syncer \in Writer
    BY DEF IInv, Types, RunTypes, Writer
  <2>2. CASE w = Syncer
    BY <2>1, <2>2 DEF Return
  <2>3. CASE w # Syncer
    <3>1. w \in Runner
      BY <2>3 DEF Writer
    <3>2. runner[w].pc \in {"handling", "marking"}
      BY <3>1 DEF IInv, Types, RunTypes, IsRunner
    <3>3. \E y : op' = [op EXCEPT ![w] = y]
      BY <2>3, <3>2 DEF Return, Disconnect
    <3> QED
      BY <2>1, <2>3, <3>3
  <2> QED
    BY <2>2, <2>3
<1>4. StopsFirst'
  BY <1>2, <1>3 DEF StopsFirst, KeepInv
<1>5. CASE \A q \in Runner : Keeps(q)
  <2>1. \A q \in Runner : KeepRunner(q)'
    BY <1>1, <1>5, KeepRunnerKept DEF KeepInv, Calm
  <2> QED
    BY <1>2, <1>4, <1>5, <2>1
<1>6. CASE w = Syncer
  <2>1. UNCHANGED runner
    BY <1>6 DEF Return
  <2>2. \A q \in Runner : Keeps(q)
    BY <2>1 DEF Keeps, KeepInv, KeepRunner
  <2> QED
    BY <1>5, <2>2
<1>7. CASE w # Syncer
  <2>1. w \in Runner
    BY <1>7 DEF Writer
  <2>2. runner[w].pc \in {"handling", "marking"} /\ IsRunner(w)
    BY <2>1 DEF IInv, Types, RunTypes, IsRunner
  <2>3. CASE ~(runner[w].pc = "handling" /\ ok)
    <3>1. \E pc : runner' = [runner EXCEPT ![w].pc = pc]
      BY <1>7, <2>2, <2>3 DEF Return, Disconnect
    <3> QED
      BY <1>5, <2>1, <3>1, PcKeeps
  <2>4. CASE runner[w].pc = "handling" /\ ok
    <3> DEFINE g == op[w].change.origin.gen
               n == IF op[w].phase = "put" THEN op[w].change.neighbors ELSE Nil
               x == [runner[w] EXCEPT !.pc = "receiving", !.lastGeneration = g, !.stored = n]
    <3>1. runner' = [runner EXCEPT ![w] = x]
      BY <1>7, <2>4 DEF Return
    <3>2. g \in Nat
      <4>1. op[w].change.origin \in Origin
        BY <1>7, <2>4, RunnerPair DEF IInv, Types, RunTypes, IsOp, KindOf
      <4> QED
        BY <4>1, SMT DEF Origin
    <3> HIDE DEF g, n
    <3>3. KeepRunner(w)
      BY <2>1 DEF KeepInv
    <3>4. /\ "stored" \in DOMAIN x /\ "lastGeneration" \in DOMAIN x /\ (x.live <=> runner[w].live)
          /\ x.target = runner[w].target /\ x.stored = n /\ x.lastGeneration = g /\ x.pc = "receiving"
      BY <2>2, <3>3 DEF IsRunner, KeepRunner
    <3> HIDE DEF x
    <3>5. runner'[w] = x /\ \A q \in Runner \ {w} : runner'[q] = runner[q]
      BY <2>1, <3>1 DEF IInv, Types, RunTypes
    <3>6. Accepts(w)
      BY <2>1, <2>4, <3>4, <3>5 DEF Accepts, g, n
    <3>7. \A q \in Runner \ {w} : Keeps(q)
      BY <3>5 DEF Keeps, KeepInv, KeepRunner
    <3>8. KeepRunner(w)'
      BY <3>2, <3>4, <3>5 DEF KeepRunner
    <3>9. \A q \in Runner \ {w} : KeepRunner(q)'
      BY <1>1, <3>7, KeepRunnerKept DEF KeepInv, Calm
    <3> QED
      BY <1>2, <1>4, <2>4, <3>6, <3>7, <3>8, <3>9
  <2> QED
    BY <2>3, <2>4
<1> QED
  BY <1>6, <1>7

\* What Store leaves.
LEMMA StoreWrites ==
  ASSUME IInv, NEW w \in Writer, op[w].phase = "put", Current(w), Store(w)
  PROVE  /\ op[w].sw \in Switch /\ op[w].rv = obj[op[w].sw].rv
         /\ \A x \in Switch \ {op[w].sw} : obj'[x] = obj[x]
         /\ obj'[op[w].sw].status = op[w].body /\ obj'[op[w].sw].rv > obj[op[w].sw].rv
<1> DEFINE sw == op[w].sw
<1>1. sw \in Switch /\ DOMAIN obj = Switch /\ IsObject(obj[sw]) /\ op[w].rv = obj[sw].rv
  BY NoOpPhase DEF IInv, Types, ApiTypes, RunTypes, IsOp, Current
<1>3. /\ \A x \in Switch \ {sw} : obj'[x] = obj[x]
      /\ obj'[sw] = [obj[sw] EXCEPT !.status = op[w].body, !.rv = @ + 1]
  BY <1>1 DEF Store
<1>4. obj'[sw].status = op[w].body /\ obj'[sw].rv > obj[sw].rv
  BY <1>1, <1>3, SMT DEF IsObject
<1> QED
  BY <1>1, <1>3, <1>4

LEMMA StoreKeep ==
  ASSUME IInv, IInv', KeepInv, NEW w \in Writer, op[w].phase = "put", Current(w), Store(w),
         NEW ok \in BOOLEAN, Return(w, ok), UNCHANGED <<cache, subscriptions>>
  PROVE  KeepInv' /\ Holds
<1>1. op[w] # NoOp
  BY NoOpPhase
<1>2. /\ op[w].sw \in Switch /\ op[w].rv = obj[op[w].sw].rv
      /\ \A x \in Switch \ {op[w].sw} : obj'[x] = obj[x]
      /\ obj'[op[w].sw].status = op[w].body /\ obj'[op[w].sw].rv > obj[op[w].sw].rv
  BY StoreWrites
<1>3. /\ \A q \in Runner : KeepRunner(q)' /\ (Keeps(q) \/ (q = w /\ ok /\ Accepts(w)))
      /\ StopsFirst' /\ (\A v \in Writer : SameOp(v))
      /\ \A q \in Runner : runner'[q].live <=> runner[q].live
  BY <1>1, ReturnKeeps
<1>4. IsOp(w) /\ KeepOp(w) /\ (w # Syncer => w \in Runner /\ op[w].sw = w[1])
  BY <1>1 DEF IInv, Types, RunTypes, IsOp, KeepInv, Writer
<1>5. \A sw \in Switch : KeepStatus(sw)'
  BY <1>2, <1>4 DEF KeepInv, KeepStatus, KeepOp
<1>6. \A sw \in Switch : \/ obj'[sw].rv > obj[sw].rv
                         \/ obj'[sw].rv = obj[sw].rv /\ obj'[sw].status = obj[sw].status
  BY <1>2
<1>7. \A r \in Runner : \/ obj'[r[1]].rv > obj[r[1]].rv
                        \/ Keeps(r) /\ \A q \in Runner : q[1] = r[1] /\ runner[q].live => runner'[q].live
  BY <1>2, <1>3, <1>4, RunnerPair
<1>8. KeepInv'
  BY <1>3, <1>5, <1>6, <1>7, KeepFrame
<1>9. ASSUME NEW sw \in Switch \ {op[w].sw}, HoldsStored(sw) PROVE HoldsStored(sw)'
  <2>1. \A r \in Runner : r[1] = sw => Keeps(r)
    BY <1>3, <1>4, RunnerPair
  <2> QED
    BY <1>2, <1>9, <2>1, HoldsFrame
<1>10. ASSUME NEW sw \in Switch, sw = op[w].sw, HoldsStored(sw) PROVE HoldsStored(sw)'
  <2> SUFFICES ASSUME NEW r \in Runner, r[1] = sw, runner'[r].live, runner'[r].stored # Nil
               PROVE  \/ op[w].body.neighbors = runner'[r].stored
                      \/ /\ op[w].body.origin # Nil /\ op[w].body.origin.target = runner'[r].target
                         /\ op[w].body.origin.gen > runner'[r].lastGeneration
    BY <1>2, <1>10 DEF HoldsStored, RunnersOf
  <2>1. runner[r].live
    BY <1>3
  <2>2. w # Syncer
    BY <1>10, <1>1, <2>1 DEF KeepInv, StopsFirst
  <2>3. w = r
    <3> SUFFICES ASSUME w # r PROVE FALSE
      OBVIOUS
    <3>1. w \in Runner /\ w[1] = r[1] /\ Keeps(r)
      BY <1>10, <1>3, <1>4, <2>2
    <3>2. ~runner[w].live
      BY <2>1, <3>1 DEF IInv, OneLive
    <3>3. op[w].rv < obj[r[1]].rv
      BY <2>1, <3>1, <3>2 DEF KeepInv, Outdated, Keeps
    <3>4. obj[sw].rv \in Nat
      BY <1>2 DEF IInv, Types, ApiTypes, IsObject
    <3> QED
      BY <1>10, <1>2, <3>3, <3>4, SMT
  <2>4. CASE runner[r].pc = "handling"
    <3>1. KindOf(w) = "accept" /\ op[w].body.neighbors = op[w].change.neighbors
      BY <1>4, <2>2, <2>3, <2>4 DEF KindOf, KeepOp
    <3>2. op[w].body.origin = op[w].change.origin /\ op[w].change.origin \in Origin
      BY <1>1, <1>4, <3>1 DEF IInv, Locked, IsOp
    <3>3. CASE Keeps(r)
      BY <2>3, <2>4, <3>2, <3>3, OriginAssumption DEF Keeps, KeepInv, KeepRunner
    <3>4. CASE Accepts(w)
      BY <2>3, <3>1, <3>4 DEF Accepts
    <3> QED
      BY <1>3, <3>3, <3>4
  <2>5. CASE runner[r].pc # "handling"
    <3>1. Keeps(r)
      BY <1>3, <2>3, <2>5 DEF Accepts
    <3>2. KindOf(w) = "mark"
      BY <2>2, <2>3, <2>5 DEF KindOf
    <3>3. op[w].body.neighbors = obj[sw].status.neighbors /\ op[w].body.origin = obj[sw].status.origin
      BY <1>10, <1>2, <1>4, <3>2 DEF KeepOp
    <3> QED
      BY <1>10, <2>1, <3>1, <3>3 DEF Keeps, HoldsStored, RunnersOf
  <2> QED
    BY <2>4, <2>5
<1> QED
  BY <1>8, <1>9, <1>10 DEF Holds

LEMMA MutateNeighbors ==
  ASSUME NEW change, NEW o, "neighbors" \in DOMAIN o.status, change.kind \in {"accept", "mark", "clear"},
         IsStatus(o.status)
  PROVE  /\ "neighbors" \in DOMAIN Mutate(change, o)
         /\ change.kind = "accept" => Mutate(change, o).neighbors = change.neighbors
         /\ change.kind = "mark" =>
              Mutate(change, o).neighbors = o.status.neighbors /\ Mutate(change, o).origin = o.status.origin
<1>1. CASE change.kind = "accept"
  BY <1>1 DEF Mutate
<1>2. CASE change.kind = "mark"
  <2> DEFINE s == o.status
             b == [s EXCEPT !.healthy = FALSE, !.connected = change.reason, !.ready = 0, !.observed = o.generation]
  <2>1. Mutate(change, o) = b
    BY <1>2 DEF Mutate
  <2>2. IsStatus(s) /\ "neighbors" \in DOMAIN s
    OBVIOUS
  <2> HIDE DEF s
  <2>3. "neighbors" \in DOMAIN b /\ b.neighbors = s.neighbors /\ b.origin = s.origin
    BY <2>2 DEF IsStatus
  <2> QED
    BY <1>2, <2>1, <2>3 DEF s
<1>3. CASE change.kind = "clear"
  BY <1>3 DEF Mutate, EmptyStatus
<1> QED
  BY <1>1, <1>2, <1>3

LEMMA GetKeep == ASSUME IInv, IInv', KeepInv, NEW w \in Writer, Get(w) PROVE KeepInv' /\ Holds
<1> DEFINE o == cache[op[w].sw]
           body == Mutate(op[w].change, o)
<1>1. op[w].phase = "get" /\ op[w] # NoOp /\ UNCHANGED <<obj, cache, subscriptions>> /\ (w # Syncer => runner[w].live)
  BY NoOpPhase DEF Get, apiVars
<1>2. CASE Return(w, TRUE)
  <2>0. TRUE \in BOOLEAN
    OBVIOUS
  <2>1. /\ \A q \in Runner : KeepRunner(q)' /\ (Keeps(q) \/ (q = w /\ TRUE /\ Accepts(w)))
        /\ StopsFirst' /\ (\A v \in Writer : SameOp(v))
        /\ \A q \in Runner : runner'[q].live <=> runner[q].live
    BY <1>1, <1>2, <2>0, ReturnKeeps
  <2>2. \A q \in Runner : Keeps(q) \/ Forgets(q)
    BY <1>1, <2>1 DEF Accepts, Forgets
  <2> QED
    BY <1>1, <2>1, <2>2, QuietKeep
<1>3. CASE ~Return(w, TRUE)
  <2> DEFINE y == [phase |-> "put", sw |-> op[w].sw, change |-> op[w].change, tries |-> op[w].tries,
                   rv |-> o.rv, body |-> body]
  <2>1. op' = [op EXCEPT ![w] = y] /\ UNCHANGED runner
    BY <1>3 DEF Get
  <2>2. op[w].sw \in Switch /\ op[w].change.kind = KindOf(w) /\ KindOf(w) \in {"accept", "mark", "clear"}
    BY <1>1 DEF IInv, Types, RunTypes, IsOp, KindOf
  <2>3. IsStatus(o.status) /\ "neighbors" \in DOMAIN o.status
    BY <2>2 DEF IInv, Types, ApiTypes, IsObject, KeepInv, KeepStatus
  <2>4. /\ "neighbors" \in DOMAIN body
        /\ KindOf(w) = "accept" => body.neighbors = op[w].change.neighbors
        /\ KindOf(w) = "mark" => body.neighbors = o.status.neighbors /\ body.origin = o.status.origin
    BY <2>2, <2>3, MutateNeighbors, SMT
  <2>5. o.rv = obj[op[w].sw].rv => o.status = obj[op[w].sw].status
    BY <2>2 DEF IInv, Versions
  <2>6. y.phase = "put" /\ y.sw = op[w].sw /\ y.change = op[w].change /\ y.rv = o.rv /\ y.body = body
    OBVIOUS
  <2> HIDE DEF y, body, o
  <2>7. op'[w] = y /\ \A v \in Writer \ {w} : op'[v] = op[v]
    BY <2>1 DEF IInv, Types, RunTypes
  <2>8. \A v \in Writer : KindOf(v)' = KindOf(v)
    BY <2>1 DEF KindOf
  <2>9. KeepOp(w)'
    BY <1>1, <2>4, <2>5, <2>6, <2>7, <2>8 DEF KeepOp, o
  <2>10. \A v \in Writer : SameOp(v)
    BY <1>1, <2>1, <2>7, <2>8, <2>9 DEF SameOp
  <2>11. \A q \in Runner : Keeps(q)
    BY <2>1 DEF Keeps, KeepInv, KeepRunner
  <2>12. \A q \in Runner : KeepRunner(q)'
    BY <2>1, <2>6, <2>7, <2>11, RunnerPair, KeepRunnerKept DEF KeepInv
  <2>13. StopsFirst'
    BY <1>1, <2>1, <2>6, <2>7 DEF KeepInv, StopsFirst, Writer
  <2> QED
    BY <1>1, <2>1, <2>10, <2>11, <2>12, <2>13, QuietKeep
<1> QED
  BY <1>2, <1>3

LEMMA FailKeep ==
  ASSUME IInv, IInv', KeepInv, NEW w \in Writer, op[w] # NoOp, Return(w, FALSE), UNCHANGED <<obj, cache, subscriptions>>
  PROVE  KeepInv' /\ Holds
<1>1. FALSE \in BOOLEAN
  OBVIOUS
<1>2. /\ \A q \in Runner : KeepRunner(q)' /\ (Keeps(q) \/ (q = w /\ FALSE /\ Accepts(w)))
      /\ StopsFirst' /\ (\A v \in Writer : SameOp(v))
      /\ \A q \in Runner : runner'[q].live <=> runner[q].live
  BY <1>1, ReturnKeeps
<1> QED
  BY <1>2, QuietKeep

LEMMA PutRefusedKeep == ASSUME IInv, IInv', KeepInv, NEW w \in Writer, PutRefused(w) PROVE KeepInv' /\ Holds
<1>1. op[w].phase = "put" /\ op[w] # NoOp /\ UNCHANGED <<obj, cache, subscriptions>>
  BY NoOpPhase DEF PutRefused, apiVars
<1>2. CASE Return(w, FALSE)
  BY <1>1, <1>2, FailKeep
<1>3. CASE ~Return(w, FALSE)
  <2> DEFINE y == [phase |-> "get", sw |-> op[w].sw, change |-> op[w].change, tries |-> op[w].tries + 1]
  <2>1. op' = [op EXCEPT ![w] = y] /\ UNCHANGED runner
    BY <1>3 DEF PutRefused
  <2>2. y.phase = "get" /\ y.sw = op[w].sw /\ y.change = op[w].change
    OBVIOUS
  <2> HIDE DEF y
  <2>3. op'[w] = y /\ \A v \in Writer \ {w} : op'[v] = op[v]
    BY <2>1 DEF IInv, Types, RunTypes
  <2>4. \A v \in Writer : KindOf(v)' = KindOf(v)
    BY <2>1 DEF KindOf
  <2>5. \A v \in Writer : SameOp(v)
    BY <2>2, <2>3, <2>4 DEF SameOp
  <2>6. \A q \in Runner : Keeps(q)
    BY <2>1 DEF Keeps, KeepInv, KeepRunner
  <2>7. \A q \in Runner : KeepRunner(q)'
    BY <2>1, <2>2, <2>3, <2>6, RunnerPair, KeepRunnerKept DEF KeepInv
  <2>8. StopsFirst'
    BY <1>1, <2>1, <2>2, <2>3 DEF KeepInv, StopsFirst, Writer
  <2> QED
    BY <1>1, <2>1, <2>5, <2>6, <2>7, <2>8, QuietKeep
<1> QED
  BY <1>2, <1>3

LEMMA WriterKeep ==
  ASSUME IInv, IInv', KeepInv, NEW w \in Writer, MutateStep(w) \/ PutLost(w) PROVE KeepInv' /\ Holds
<1>0. TRUE \in BOOLEAN /\ FALSE \in BOOLEAN
  OBVIOUS
<1>1. CASE Put(w)
  <2>1. op[w].phase = "put" /\ Current(w) /\ Store(w) /\ Return(w, TRUE) /\ UNCHANGED <<cache, subscriptions>>
    BY <1>1 DEF Put
  <2> QED
    BY <1>0, <2>1, StoreKeep
<1>2. CASE PutLost(w)
  <2>1. /\ op[w].phase = "put" /\ op[w] # NoOp /\ ((Current(w) /\ Store(w)) \/ UNCHANGED obj)
        /\ Return(w, FALSE) /\ UNCHANGED <<cache, subscriptions>>
    BY <1>2, NoOpPhase DEF PutLost
  <2> QED
    BY <1>0, <2>1, StoreKeep, FailKeep
<1> QED
  BY <1>1, <1>2, GetKeep, PutRefusedKeep DEF MutateStep

(* A runner moves on.                                                      *)
LEMMA MovesKeep ==
  ASSUME IInv, IInv', KeepInv, NEW r \in Runner, NEW pc, runner' = [runner EXCEPT ![r].pc = pc],
         \A v \in Writer \ {r} : op'[v] = op[v], op'[r].phase # "put",
         pc = "handling" => KeepRunner(r)',
         UNCHANGED <<obj, cache>>
  PROVE  KeepInv' /\ Holds
<1>1. \A q \in Runner : Keeps(q)
  BY PcKeeps
<1>2. DOMAIN runner = Runner /\ IsRunner(r)
  BY DEF IInv, Types, RunTypes
<1>3. runner'[r].pc = pc /\ \A q \in Runner \ {r} : runner'[q] = runner[q]
  BY <1>2 DEF IsRunner
<1>4. \A q \in Runner : KeepRunner(q)'
  BY <1>1, <1>3, RunnerPair, KeepRunnerKept DEF KeepInv
<1>5. \A v \in Writer : SameOp(v)
  BY <1>3 DEF SameOp, KindOf, Writer
<1>6. op'[Syncer] = op[Syncer]
  BY RunnerPair DEF Writer
<1>7. StopsFirst'
  BY <1>1, <1>6 DEF KeepInv, StopsFirst, Keeps
<1>8. \A q \in Runner : runner'[q].live <=> runner[q].live
  BY <1>1 DEF Keeps
<1> QED
  BY <1>1, <1>4, <1>5, <1>7, <1>8, QuietKeep

LEMMA DisconnectKeep ==
  ASSUME IInv, IInv', KeepInv, NEW r \in Runner, NEW reason, Disconnect(r, reason), UNCHANGED <<obj, cache>>
  PROVE  KeepInv' /\ Holds
<1>1. runner' = [runner EXCEPT ![r].pc = "marking"] /\ op' = [op EXCEPT ![r] = Begin(r[1], Mark(reason))]
  BY DEF Disconnect
<1>2. Begin(r[1], Mark(reason)).phase = "get"
  BY DEF Begin
<1>3. (\A v \in Writer \ {r} : op'[v] = op[v]) /\ op'[r].phase = "get"
  BY <1>1, <1>2, RunnerPair DEF IInv, Types, RunTypes
<1>4. op'[r].phase # "put"
  BY <1>3
<1>5. "marking" = "handling" => KeepRunner(r)'
  OBVIOUS
<1> QED
  BY <1>1, <1>3, <1>4, <1>5, MovesKeep

LEMMA ReceiveKeep == ASSUME IInv, IInv', KeepInv, NEW r \in Runner, Receive(r) PROVE KeepInv' /\ Holds
<1> DEFINE t == runner[r].target
<1>1. UNCHANGED <<obj, cache>>
  BY DEF Receive, apiVars
<1>2. PICK g \in (view[r] + 1) .. Len(log[t]) :
        \/ UNCHANGED <<runner, op>>
        \/ Disconnect(r, "SnapshotRejected")
        \/ /\ ~(g <= runner[r].lastGeneration)
           /\ runner' = [runner EXCEPT ![r].pc = "handling"]
           /\ \E nodes \in {NodeName, {}} :
                op' = [op EXCEPT ![r] = Begin(r[1], Accept([target |-> t, epoch |-> epoch[t], gen |-> g],
                                                           NormalizeSnapshotNeighbors(log[t][g], nodes)))]
  BY DEF Receive
<1>3. CASE UNCHANGED <<runner, op>>
  <2>1. \A q \in Runner : Keeps(q)
    BY <1>3 DEF Keeps, KeepInv, KeepRunner
  <2>2. \A v \in Writer : SameOp(v)
    BY <1>3 DEF SameOp, KindOf
  <2>3. (\A q \in Runner : KeepRunner(q)') /\ StopsFirst'
    BY <1>3 DEF KeepInv, KeepRunner, StopsFirst
  <2> QED
    BY <1>1, <1>3, <2>1, <2>2, <2>3, QuietKeep
<1>4. CASE Disconnect(r, "SnapshotRejected")
  BY <1>1, <1>4, DisconnectKeep
<1>5. CASE /\ ~(g <= runner[r].lastGeneration)
           /\ runner' = [runner EXCEPT ![r].pc = "handling"]
           /\ \E nodes \in {NodeName, {}} :
                op' = [op EXCEPT ![r] = Begin(r[1], Accept([target |-> t, epoch |-> epoch[t], gen |-> g],
                                                           NormalizeSnapshotNeighbors(log[t][g], nodes)))]
  <2>1. PICK nb : op' = [op EXCEPT ![r] = Begin(r[1], Accept([target |-> t, epoch |-> epoch[t], gen |-> g], nb))]
    BY <1>5
  <2> DEFINE y == Begin(r[1], Accept([target |-> t, epoch |-> epoch[t], gen |-> g], nb))
  <2>2. y.phase = "get" /\ y.change.origin.target = t /\ y.change.origin.gen = g
    BY DEF Begin, Accept
  <2> HIDE DEF y
  <2>3. op'[r] = y /\ \A v \in Writer \ {r} : op'[v] = op[v]
    BY <2>1, RunnerPair DEF IInv, Types, RunTypes, y
  <2>4. Keeps(r)
    BY <1>5, PcKeeps
  <2>5. g > runner[r].lastGeneration
    <3>1. view[r] \in Nat /\ runner[r].lastGeneration \in Nat
      BY DEF IInv, Types, RunTypes, KeepInv, KeepRunner
    <3> QED
      BY <1>5, <3>1, SMT
  <2>6. runner[r].lastGeneration \in Nat
    BY DEF KeepInv, KeepRunner
  <2>7. KeepRunner(r)'
    BY <2>2, <2>3, <2>4, <2>5, <2>6 DEF KeepRunner, Keeps
  <2> QED
    BY <1>1, <1>5, <2>2, <2>3, <2>7, MovesKeep
<1> QED
  BY <1>2, <1>3, <1>4, <1>5

LEMMA NoRunnerKeeps == ASSUME NEW r \in Runner, runner'[r] = NoRunner PROVE KeepRunner(r)' /\ Forgets(r)
  BY SMT DEF KeepRunner, Forgets, NoRunner

LEMMA ExitKeep == ASSUME IInv, IInv', KeepInv, NEW r \in Runner, Exit(r) PROVE KeepInv' /\ Holds
<1>1. /\ ~runner[r].live /\ runner' = [runner EXCEPT ![r] = NoRunner] /\ op' = [op EXCEPT ![r] = NoOp]
      /\ UNCHANGED <<obj, cache>>
  BY DEF Exit, apiVars
<1>2. /\ runner'[r] = NoRunner /\ op'[r] = NoOp
      /\ (\A q \in Runner \ {r} : runner'[q] = runner[q]) /\ (\A v \in Writer \ {r} : op'[v] = op[v])
  BY <1>1, RunnerPair DEF IInv, Types, RunTypes
<1>3. \A q \in Runner \ {r} : Keeps(q)
  BY <1>2 DEF Keeps, KeepInv, KeepRunner
<1>4. \A q \in Runner : KeepRunner(q)'
  BY <1>2, <1>3, NoRunnerKeeps, RunnerPair, KeepRunnerKept DEF KeepInv
<1>5. \A q \in Runner : Keeps(q) \/ Forgets(q)
  BY <1>2, <1>3, NoRunnerKeeps
<1>6. \A v \in Writer : SameOp(v)
  BY <1>2, NoOpPhase DEF SameOp, KindOf, Writer
<1>7. op'[Syncer] = op[Syncer] /\ \A q \in Runner : runner'[q].live => runner[q].live
  <2>1. ~NoRunner.live
    BY DEF NoRunner
  <2> QED
    BY <1>2, <2>1, RunnerPair DEF Writer
<1>8. StopsFirst'
  BY <1>7 DEF KeepInv, StopsFirst
<1>9. \A q \in Runner : runner[q].live => runner'[q].live
  BY <1>1, <1>2
<1> QED
  BY <1>1, <1>4, <1>5, <1>6, <1>8, <1>9, QuietKeep

LEMMA RunnerKeep ==
  ASSUME IInv, IInv', KeepInv, NEW r \in Runner, RunnerStep(r) \/ DialFails(r) \/ StreamBreaks(r)
  PROVE  KeepInv' /\ Holds
<1>1. CASE Dial(r) \/ Redial(r)
  <2>1. /\ \E pc \in {"receiving", "dialing"} : runner' = [runner EXCEPT ![r].pc = pc]
        /\ UNCHANGED <<obj, cache, op>> /\ runner[r].pc \in {"dialing", "backoff"}
    BY <1>1 DEF Dial, Redial, apiVars
  <2>2. op[r] = NoOp
    BY <2>1 DEF IInv, Types, RunTypes, IsRunner
  <2> QED
    BY <2>1, <2>2, NoOpPhase, MovesKeep
<1>2. CASE \E reason : Disconnect(r, reason) /\ UNCHANGED <<obj, cache>>
  BY <1>2, DisconnectKeep
<1> QED
  BY <1>1, <1>2, ReceiveKeep, ExitKeep DEF RunnerStep, DialUnavailable, StreamClosed, DialFails, StreamBreaks, apiVars

(* Subscriptions are stopped.                                              *)
LEMMA CancelledKeeps ==
  ASSUME IInv, KeepInv, NEW cancel, NEW q \in Runner
  PROVE  LET x == Cancelled(cancel)[q]
         IN /\ q[1] \in cancel => ~x.live
            /\ q[1] \notin cancel => x = runner[q]
            /\ "stored" \in DOMAIN x /\ "lastGeneration" \in DOMAIN x /\ "pc" \in DOMAIN x
            /\ x.pc = runner[q].pc /\ x.target = runner[q].target
            /\ x.stored = runner[q].stored /\ x.lastGeneration = runner[q].lastGeneration
<1>1. "live" \in DOMAIN runner[q] /\ "target" \in DOMAIN runner[q] /\ "pc" \in DOMAIN runner[q] /\ KeepRunner(q)
  BY DEF IInv, Types, RunTypes, IsRunner, KeepInv
<1> DEFINE z == runner[q]
           c == [z EXCEPT !.live = FALSE]
<1> HIDE DEF z
<1>2. /\ "live" \in DOMAIN z /\ "target" \in DOMAIN z /\ "pc" \in DOMAIN z
      /\ "stored" \in DOMAIN z /\ "lastGeneration" \in DOMAIN z
  BY <1>1 DEF z, KeepRunner
<1>3. /\ c.live = FALSE /\ "stored" \in DOMAIN c /\ "lastGeneration" \in DOMAIN c /\ "pc" \in DOMAIN c
      /\ c.pc = z.pc /\ c.target = z.target /\ c.stored = z.stored /\ c.lastGeneration = z.lastGeneration
  BY <1>2
<1>4. Cancelled(cancel)[q] = IF q[1] \in cancel THEN c ELSE z
  BY DEF Cancelled, z
<1> HIDE DEF c
<1> QED
  BY <1>2, <1>3, <1>4 DEF z

LEMMA CancelKeep ==
  ASSUME IInv, IInv', KeepInv, NEW cancel, runner' = Cancelled(cancel),
         \A v \in Runner : op'[v] = op[v], op'[Syncer].phase # "put",
         op'[Syncer] \in {NoOp, op[Syncer]} \/ op'[Syncer].sw \in cancel,
         UNCHANGED obj, cache' \in {cache, obj}
  PROVE  KeepInv' /\ Holds
<1>1. ASSUME NEW q \in Runner
      PROVE  /\ q[1] \in cancel => ~runner'[q].live
             /\ q[1] \notin cancel => runner'[q] = runner[q]
             /\ "stored" \in DOMAIN runner'[q] /\ "lastGeneration" \in DOMAIN runner'[q]
             /\ runner'[q].pc = runner[q].pc /\ runner'[q].target = runner[q].target
             /\ runner'[q].stored = runner[q].stored /\ runner'[q].lastGeneration = runner[q].lastGeneration
  BY CancelledKeeps
<1>2. \A q \in Runner : KeepRunner(q)'
  BY <1>1 DEF KeepInv, KeepRunner
<1>3. \A q \in Runner : Keeps(q) \/ Forgets(q)
  BY <1>1 DEF Keeps, Forgets
<1>4. \A r, q \in Runner : q[1] = r[1] /\ runner[q].live /\ ~runner'[q].live => Forgets(r)
  BY <1>1 DEF Forgets
<1>5. \A v \in Writer : SameOp(v)
  BY <1>1 DEF SameOp, KindOf, Writer
<1>6. StopsFirst'
  BY <1>1 DEF KeepInv, StopsFirst
<1> QED
  BY <1>2, <1>3, <1>4, <1>5, <1>6, QuietKeep

LEMMA SyncApplyKeep == ASSUME IInv, IInv', KeepInv, SyncApply PROVE KeepInv' /\ Holds
<1> DEFINE start == {sw \in Switch : sync.want[sw] \notin {Nil, subscriptions[sw]}}
           stop == {sw \in Switch : sync.want[sw] # subscriptions[sw]}
           started(r) == [NoRunner EXCEPT !.pc = "dialing", !.live = TRUE, !.target = sync.want[r[1]]]
<1>1. /\ op[Syncer] = NoOp /\ UNCHANGED <<obj, cache, op>>
      /\ runner' = [r \in Runner |-> IF r[1] \in start /\ r[2] = FreeSlot(r[1]) THEN started(r) ELSE Cancelled(stop)[r]]
  BY DEF SyncApply, apiVars
<1>2. start \subseteq stop
  OBVIOUS
<1>3. \A r : /\ started(r).stored = Nil /\ started(r).lastGeneration = 0 /\ started(r).pc = "dialing"
             /\ "stored" \in DOMAIN started(r) /\ "lastGeneration" \in DOMAIN started(r)
  BY DEF NoRunner
<1> HIDE DEF start, stop, started
<1>4. \A q \in Runner : runner'[q] = (IF q[1] \in start /\ q[2] = FreeSlot(q[1]) THEN started(q) ELSE Cancelled(stop)[q])
  BY <1>1
<1>5. ASSUME NEW q \in Runner
      PROVE  LET x == Cancelled(stop)[q]
             IN /\ q[1] \in stop => ~x.live
                /\ q[1] \notin stop => x = runner[q]
                /\ "stored" \in DOMAIN x /\ "lastGeneration" \in DOMAIN x /\ "pc" \in DOMAIN x
                /\ x.pc = runner[q].pc /\ x.target = runner[q].target
                /\ x.stored = runner[q].stored /\ x.lastGeneration = runner[q].lastGeneration
  BY CancelledKeeps
<1>6. \A q \in Runner : KeepRunner(q)'
  <2> SUFFICES ASSUME NEW q \in Runner PROVE KeepRunner(q)'
    OBVIOUS
  <2>1. KeepRunner(q) /\ 0 \in Nat
    BY SMT DEF KeepInv
  <2>2. CASE runner'[q] = started(q)
    BY <1>3, <2>1, <2>2 DEF KeepRunner
  <2>3. CASE runner'[q] = Cancelled(stop)[q]
    BY <1>1, <1>5, <2>1, <2>3 DEF KeepRunner
  <2> QED
    BY <1>4, <2>2, <2>3
<1>7. ASSUME NEW q \in Runner, q[1] \in stop PROVE Forgets(q)
  <2>1. CASE runner'[q] = started(q)
    BY <1>3, <2>1 DEF Forgets
  <2>2. CASE runner'[q] = Cancelled(stop)[q]
    BY <1>5, <1>7, <2>2 DEF Forgets
  <2> QED
    BY <1>4, <2>1, <2>2
<1>8. \A q \in Runner : q[1] \notin stop => runner'[q] = runner[q] /\ Keeps(q)
  BY <1>2, <1>4, <1>5 DEF Keeps
<1>9. \A v \in Writer : SameOp(v)
  <2> SUFFICES ASSUME NEW v \in Writer, op'[v].phase = "put" PROVE op'[v] = op[v] /\ KindOf(v)' = KindOf(v)
    BY DEF SameOp
  <2>1. v \in Runner /\ op[v] # NoOp
    BY <1>1, NoOpPhase DEF Writer
  <2>2. runner[v].pc # "off" /\ v = <<v[1], v[2]>>
    <3>1. runner[v].pc # "off"
      BY <2>1 DEF IInv, Types, RunTypes, IsRunner
    <3> QED
      BY <2>1, <3>1, SMT DEF Runner
  <2>3. v[1] \in start => runner[<<v[1], FreeSlot(v[1])>>].pc = "off"
    <3>1. \A sw \in start : \E i \in Slot : runner[<<sw, i>>].pc = "off"
      BY DEF SyncApply, start
    <3> QED
      BY <3>1 DEF FreeSlot
  <2>4. runner'[v] = Cancelled(stop)[v]
    BY <1>4, <2>1, <2>2, <2>3
  <2>5. runner'[v].pc = runner[v].pc
    BY <1>5, <2>1, <2>4
  <2> QED
    BY <1>1, <2>5 DEF KindOf
<1>10. StopsFirst'
  BY <1>1 DEF StopsFirst
<1>11. \A r, q \in Runner : q[1] = r[1] /\ runner[q].live /\ ~runner'[q].live => Forgets(r)
  BY <1>7, <1>8
<1> QED
  BY <1>1, <1>6, <1>7, <1>8, <1>9, <1>10, <1>11, QuietKeep

LEMMA SyncKeep == ASSUME IInv, IInv', KeepInv, SyncStep PROVE KeepInv' /\ Holds
<1>1. CASE SyncList
  <2>1. UNCHANGED <<obj, cache, runner, op>>
    BY <1>1 DEF SyncList, apiVars
  <2>2. (\A q \in Runner : Keeps(q)) /\ (\A v \in Writer : SameOp(v))
    BY <2>1 DEF Keeps, KeepInv, KeepRunner, SameOp, KindOf
  <2>3. (\A q \in Runner : KeepRunner(q)') /\ StopsFirst'
    BY <2>1 DEF KeepInv, KeepRunner, StopsFirst
  <2> QED
    BY <2>1, <2>2, <2>3, QuietKeep
<1>2. ASSUME NEW sw \in Switch, SyncClear(sw) PROVE KeepInv' /\ Holds
  <2>1. /\ runner' = Cancelled({sw}) /\ op' = [op EXCEPT ![Syncer] = Begin(sw, Clear)] /\ UNCHANGED <<obj, cache>>
    BY <1>2 DEF SyncClear, apiVars
  <2>2. Begin(sw, Clear).phase = "get" /\ Begin(sw, Clear).sw = sw
    BY DEF Begin
  <2>3. (\A v \in Runner : op'[v] = op[v]) /\ op'[Syncer] = Begin(sw, Clear)
    BY <2>1, RunnerPair DEF IInv, Types, RunTypes, Writer
  <2>4. op'[Syncer].phase # "put" /\ op'[Syncer].sw \in {sw}
    BY <2>2, <2>3
  <2> QED
    BY <2>1, <2>3, <2>4, CancelKeep
<1> QED
  BY <1>1, <1>2, SyncApplyKeep DEF SyncStep

LEMMA CrashKeep == ASSUME IInv, IInv', KeepInv, ControllerCrash PROVE KeepInv' /\ Holds
<1>1. runner' = Cancelled(Switch) /\ op' = [op EXCEPT ![Syncer] = NoOp] /\ cache' = obj /\ UNCHANGED obj
  BY DEF ControllerCrash
<1>2. (\A v \in Runner : op'[v] = op[v]) /\ op'[Syncer] = NoOp
  BY <1>1, RunnerPair DEF IInv, Types, RunTypes, Writer
<1>3. op'[Syncer].phase # "put"
  BY <1>2, NoOpPhase
<1> QED
  BY <1>1, <1>2, <1>3, CancelKeep

(* The users and the watch: no runner and no call changes.                 *)
LEMMA OthersKeep ==
  ASSUME IInv, IInv', KeepInv, UNCHANGED <<runner, op>>,
         \A sw \in Switch : /\ KeepStatus(sw)'
                            /\ \/ obj'[sw].rv > obj[sw].rv
                               \/ obj'[sw].rv = obj[sw].rv /\ obj'[sw].status = obj[sw].status
                            /\ obj[sw].exists /\ obj'[sw].exists => obj'[sw].status = obj[sw].status
  PROVE  KeepInv' /\ Holds
<1>1. (\A q \in Runner : Keeps(q)) /\ (\A v \in Writer : SameOp(v))
  BY DEF Keeps, KeepInv, KeepRunner, SameOp, KindOf
<1>2. (\A q \in Runner : KeepRunner(q)') /\ StopsFirst'
  BY DEF KeepInv, KeepRunner, StopsFirst
<1>3. KeepInv'
  BY <1>1, <1>2, KeepFrame
<1> QED
  BY <1>1, <1>3, HoldsFrame DEF Holds

LEMMA UserKeep ==
  ASSUME IInv, IInv', KeepInv, NEW sw \in Switch, NEW t \in Target \cup {Nil},
         Delete(sw) \/ EditSpec(sw, t) \/ Create(sw, t)
  PROVE  KeepInv' /\ Holds
<1>1. DOMAIN obj = Switch /\ IsObject(obj[sw]) /\ obj[sw].rv \in Nat
  BY DEF IInv, Types, ApiTypes, IsObject
<1>2. (\A x \in Switch \ {sw} : obj'[x] = obj[x]) /\ UNCHANGED <<cache, runner, op>>
  BY <1>1 DEF Delete, EditSpec, Create
<1>3. KeepStatus(sw)
  BY DEF KeepInv
<1>0. "neighbors" \in DOMAIN EmptyStatus
  BY DEF EmptyStatus
<1>4. /\ "neighbors" \in DOMAIN obj'[sw].status /\ obj'[sw].rv > obj[sw].rv
      /\ obj[sw].exists /\ obj'[sw].exists => obj'[sw].status = obj[sw].status
  <2>1. CASE Delete(sw)
    <3>1. obj'[sw] = Absent(obj[sw].rv + 1)
      BY <1>1, <2>1 DEF Delete
    <3>2. Absent(obj[sw].rv + 1).status = EmptyStatus /\ Absent(obj[sw].rv + 1).rv = obj[sw].rv + 1 /\ ~Absent(obj[sw].rv + 1).exists
      BY DEF Absent, NewSwitch
    <3> QED
      BY <1>0, <1>1, <3>1, <3>2, SMT
  <2>2. CASE EditSpec(sw, t)
    <3>1. obj'[sw] = [obj[sw] EXCEPT !.mgmt = t, !.generation = @ + 1, !.rv = @ + 1]
      BY <1>1, <2>2 DEF EditSpec
    <3>2. obj'[sw].status = obj[sw].status /\ obj'[sw].rv = obj[sw].rv + 1
      BY <1>1, <3>1 DEF IsObject
    <3> QED
      BY <1>1, <1>3, <3>2, SMT DEF KeepStatus
  <2>3. CASE Create(sw, t)
    <3>1. obj'[sw] = NewSwitch(t, obj[sw].rv + 1) /\ ~obj[sw].exists
      BY <1>1, <2>3 DEF Create
    <3>2. NewSwitch(t, obj[sw].rv + 1).status = EmptyStatus /\ NewSwitch(t, obj[sw].rv + 1).rv = obj[sw].rv + 1
      BY DEF NewSwitch
    <3> QED
      BY <1>0, <1>1, <3>1, <3>2, SMT
  <2> QED
    BY <2>1, <2>2, <2>3
<1>5. \A x \in Switch : KeepStatus(x)'
  BY <1>2, <1>4 DEF KeepInv, KeepStatus
<1> QED
  BY <1>2, <1>4, <1>5, OthersKeep

LEMMA KeepStep == IInv /\ IInv' /\ KeepInv /\ [Next]_vars => KeepInv' /\ Holds
<1> SUFFICES ASSUME IInv, IInv', KeepInv, [Next]_vars PROVE KeepInv' /\ Holds
  OBVIOUS
<1>1. ASSUME UNCHANGED <<obj, runner, op>>, \A sw \in Switch : cache'[sw] \in {cache[sw], obj[sw]}
      PROVE  KeepInv' /\ Holds
  <2>1. \A sw \in Switch : KeepStatus(sw)'
    BY <1>1 DEF KeepInv, KeepStatus
  <2> QED
    BY <1>1, <2>1, OthersKeep
<1>2. ASSUME NEW sw \in Switch, Inform(sw) PROVE KeepInv' /\ Holds
  <2>1. DOMAIN cache = Switch
    BY DEF IInv, Types, ApiTypes
  <2> QED
    BY <1>1, <1>2, <2>1 DEF Inform
<1>3. ASSUME NEW t \in Target, AgentCrash(t) \/ \E table \in left.tables[t] : Publish(t, table)
      PROVE  KeepInv' /\ Holds
  BY <1>1, <1>3 DEF AgentCrash, Publish, apiVars
<1>4. CASE UNCHANGED vars
  BY <1>1, <1>4 DEF vars
<1>5. ASSUME NEW sw \in Switch, NEW t \in Target \cup {Nil}, EditSpec(sw, t) \/ Create(sw, t) PROVE KeepInv' /\ Holds
  BY <1>5, UserKeep
<1>6. ASSUME NEW sw \in Switch, Delete(sw) PROVE KeepInv' /\ Holds
  BY <1>6, UserKeep
<1> QED
  BY <1>2, <1>3, <1>4, <1>5, <1>6, WriterKeep, RunnerKeep, SyncKeep, CrashKeep DEF Next

LEMMA KeepInit == Init => KeepInv
<1> SUFFICES ASSUME Init PROVE KeepInv
  OBVIOUS
<1>1. (\A r \in Runner : runner[r] = NoRunner) /\ (\A w \in Writer : op[w] = NoOp) /\ cache = obj
  BY DEF Init
<1>2. \A r \in Runner : KeepRunner(r)
  BY <1>1, SMT DEF KeepRunner, NoRunner
<1>3. \A sw \in Switch : KeepStatus(sw)
  <2>1. obj \in [Switch -> Object]
    BY ScenarioAssumption DEF Init
  <2>2. ASSUME NEW s \in Status PROVE "neighbors" \in DOMAIN s
    BY StatusShape DEF Status
  <2>3. \A o \in Object : o.status \in Status
    BY SMT DEF Object
  <2> QED
    BY <1>1, <2>1, <2>2, <2>3 DEF KeepStatus
<1>4. Outdated /\ (\A w \in Writer : KeepOp(w))
  BY <1>1, NoOpPhase, RunnerPair DEF Outdated, KeepOp
<1>5. StopsFirst
  BY <1>1 DEF StopsFirst, Writer
<1> QED
  BY <1>2, <1>3, <1>4, <1>5 DEF KeepInv

(***************************************************************************)
(* What a live subscription has stored in Switch.status stays there until  *)
(* it stores something newer: updates that cancelled runners have in       *)
(* flight, marks after a disconnection and the clearing of Switches        *)
(* without mgmtIP never take it away, whatever is lost or crashes.         *)
(***************************************************************************)
THEOREM StoredSnapshotsStay == Spec => StoredStays
<1>1. IInv /\ IInv' /\ KeepInv /\ [Next]_vars =>
        [\A sw \in Switch : obj[sw].exists /\ obj'[sw].exists /\ HoldsStored(sw) => HoldsStored(sw)']_vars
  BY KeepStep DEF Holds
<1>2. IInv /\ IInv' /\ KeepInv /\ [Next]_vars => KeepInv'
  BY KeepStep
<1> QED
  BY <1>1, <1>2, Invariant, KeepInit, PTL DEF Spec, StoredStays
=============================================================================
