------------------------ MODULE TopologyStatusProofs ------------------------
(***************************************************************************)
(* Proofs about the topology status controller, for any Nodes, Switches,   *)
(* labels and faults.                                                      *)
(*                                                                         *)
(* That a group keeps its name is a matter of which status the names are   *)
(* taken from.  The copy a reconcile works on is the stored object as long *)
(* as it is fresh (Based); it is fresh when the informer had nothing left  *)
(* to see, because the last version still to be seen is the stored one     *)
(* (Tracked); and a path has one name in every stored status.              *)
(*                                                                         *)
(* That two groups never share a name rests on three facts: the k-th free  *)
(* number exists, is free and determines k; the order of the paths is a    *)
(* strict total order, so that two new groups have different ranks; and    *)
(* the groups names are taken over from have different names themselves,   *)
(* in every copy of the Topology a reconcile can come to work from.        *)
(***************************************************************************)
EXTENDS TopologyStatus, FiniteSetTheorems, TLAPS

USE ZenonT(40)

\* A path that is in both sets of groups has one name.
Agree(old, new) == \A g \in old, h \in new : g.path = h.path => g.name = h.name

Full(o) == "deleting" \in DOMAIN o /\ "status" \in DOMAIN o

Types ==
  /\ topology = None \/ Full(topology)
  /\ rec = [at |-> rec.at, object |-> rec.object, fresh |-> rec.fresh, nodes |-> rec.nodes, status |-> rec.status]

Tracked ==
  /\ \E S : watch \in Seq(S)
  /\ IF watch = <<>> THEN cache = topology ELSE watch[Len(watch)] = topology

OnePerPath == topology # None => Agree(topology.status.groups, topology.status.groups)

Based == rec.at # "Idle" /\ rec.fresh => rec.object = topology

Kept ==
  /\ rec.at \in {"Create", "Patch"} => Agree(rec.status.groups, rec.status.groups)
  /\ rec.at = "Patch" /\ rec.fresh => Full(rec.object) /\ Agree(rec.object.status.groups, rec.status.groups)

IInv == Types /\ Tracked /\ OnePerPath /\ Based /\ Kept

-----------------------------------------------------------------------------
(* What BuildTopologyStatus does with names.                               *)
LEMMA BuildAgrees ==
  ASSUME NEW ns, NEW ss, NEW previous
  PROVE  LET built == BuildTopologyStatus(ns, ss, previous).groups
         IN Agree(built, built) /\ (Agree(previous, previous) => Agree(previous, built))
<1> DEFINE paths == {Path(ns[n]) : n \in Labelled(ns)}
           name == AssignNodeGroupNames(paths, previous)
           built == BuildTopologyStatus(ns, ss, previous).groups
<1>1. built = {[name |-> name[p], path |-> p, nodes |-> {n \in Labelled(ns) : Path(ns[n]) = p}] : p \in paths}
  BY DEF BuildTopologyStatus
<1>2. ASSUME NEW p \in paths, NEW g \in previous, g.path = p, Agree(previous, previous)
      PROVE  name[p] = g.name
  <2>1. g \in Previous(previous, p)
    BY <1>2 DEF Previous
  <2> DEFINE c == CHOOSE x \in Previous(previous, p) : TRUE
  <2>2. c \in Previous(previous, p)
    BY <2>1
  <2> HIDE DEF c
  <2>3. c.name = g.name
    BY <1>2, <2>2 DEF Agree, Previous
  <2>4. name[p] = c.name
    BY <2>1 DEF AssignNodeGroupNames, c
  <2> QED
    BY <2>3, <2>4
<1> HIDE DEF name, built, paths
<1>3. \A h \in built : h.path \in paths /\ h.name = name[h.path]
  BY <1>1, SMT
<1>4. Agree(built, built)
  BY <1>3 DEF Agree
<1>5. Agree(previous, previous) => Agree(previous, built)
  BY <1>2, <1>3 DEF Agree
<1> QED
  BY <1>4, <1>5 DEF built

LEMMA NoGroups == Agree({}, {}) /\ \A s : Agree({}, s)
  BY DEF Agree

LEMMA EmptySequence == \E S : << >> \in Seq(S)
<1> DEFINE E == {}
<1>1. << >> \in Seq(E)
  BY SMT
<1> HIDE DEF E
<1> QED
  BY <1>1

LEMMA AppendTracks ==
  ASSUME Tracked, NEW o, Store(o) PROVE Tracked'
<1>1. PICK S : watch \in Seq(S)
  BY DEF Tracked
<1>2. watch' = Append(watch, o) /\ topology' = o
  BY DEF Store
<1>3. Append(watch, o) \in Seq(S \cup {o})
  BY <1>1, SMT
<1>4. Len(Append(watch, o)) = Len(watch) + 1 /\ Len(watch) \in Nat /\ Append(watch, o)[Len(watch) + 1] = o
  BY <1>1, SMT
<1>5. Append(watch, o) # <<>>
  <2> SUFFICES ASSUME Append(watch, o) = <<>> PROVE FALSE
    OBVIOUS
  <2>1. Len(<< >>) = 0
    OBVIOUS
  <2>2. Len(Append(watch, o)) = 0
    BY <2>1
  <2> QED
    BY <1>4, <2>2, SMT
<1> QED
  BY <1>2, <1>3, <1>4, <1>5 DEF Tracked

LEMMA TailTracks ==
  ASSUME Tracked, Inform PROVE Tracked'
<1>1. PICK S : watch \in Seq(S)
  BY DEF Tracked
<1>2. /\ watch # <<>> /\ cache' = Head(watch) /\ watch' = Tail(watch) /\ UNCHANGED topology
      /\ watch[Len(watch)] = topology
  BY DEF Inform, Tracked
<1>3. Tail(watch) \in Seq(S) /\ Len(Tail(watch)) = Len(watch) - 1 /\ Len(watch) \in Nat \ {0}
  BY <1>1, <1>2, SMT
<1>4. Tail(watch) = <<>> => Head(watch) = topology
  <2> SUFFICES ASSUME Tail(watch) = <<>> PROVE Head(watch) = topology
    OBVIOUS
  <2>1. Len(<< >>) = 0
    OBVIOUS
  <2>2. Len(Tail(watch)) = 0
    BY <2>1
  <2>3. Len(watch) = 1
    BY <1>3, <2>2, SMT
  <2> QED
    BY <1>1, <1>2, <2>3, SMT
<1>5. Tail(watch) # <<>> => Tail(watch)[Len(Tail(watch))] = topology
  BY <1>1, <1>2, <1>3, SMT
<1> QED
  BY <1>2, <1>3, <1>4, <1>5 DEF Tracked

-----------------------------------------------------------------------------
LEMMA InitInv == Init => IInv
<1> SUFFICES ASSUME Init PROVE IInv
  OBVIOUS
<1>1. rec.at = "Idle" /\ Types
  BY DEF Init, Idle, Types
<1>2. Tracked
  BY EmptySequence DEF Init, Tracked
<1> QED
  BY <1>1, <1>2 DEF IInv, OnePerPath, Based, Kept, Init

(* Steps that leave the API server's side as it is.                        *)
LEMMA SameApi == ASSUME IInv, UNCHANGED api PROVE Tracked' /\ OnePerPath' /\ (topology = None \/ Full(topology))'
  BY DEF api, IInv, Types, Tracked, OnePerPath

(* The end of a reconcile.                                                 *)
LEMMA Ended ==
  ASSUME rec' = Idle, Tracked', OnePerPath', (topology = None \/ Full(topology))'
  PROVE  IInv'
<1>1. rec'.at = "Idle" /\ Types'
  BY DEF Idle, Types
<1> QED
  BY <1>1 DEF IInv, Based, Kept

LEMMA ReadStep == ASSUME IInv, Begin \/ ListNodes PROVE IInv'
<1>1. UNCHANGED api
  BY DEF Begin, ListNodes
<1>2. CASE rec' = Idle
  BY <1>1, <1>2, SameApi, Ended
<1>3. CASE Begin /\ rec' # Idle
  <2>1. rec' = [Idle EXCEPT !.at = "List", !.object = cache, !.fresh = (watch = <<>>)]
    BY <1>3 DEF Begin
  <2>2. rec'.at = "List" /\ rec'.object = cache /\ rec'.fresh = (watch = <<>>) /\ Types'
    BY <1>1, <2>1, SameApi DEF Idle, Types
  <2>3. Based' /\ Kept'
    BY <1>1, <2>2 DEF Based, Kept, IInv, Tracked, api
  <2> QED
    BY <1>1, <2>2, <2>3, SameApi DEF IInv
<1>4. CASE ListNodes
  <2>1. rec' = [rec EXCEPT !.at = "Build", !.nodes = nodes] /\ rec.at = "List"
    BY <1>4 DEF ListNodes
  <2>2. rec'.at = "Build" /\ rec'.object = rec.object /\ rec'.fresh = rec.fresh /\ Types'
    BY <1>1, <2>1, SameApi DEF IInv, Types
  <2>3. Based' /\ Kept'
    BY <1>1, <2>1, <2>2 DEF Based, Kept, IInv, api
  <2> QED
    BY <1>1, <2>2, <2>3, SameApi DEF IInv
<1> QED
  BY <1>2, <1>3, <1>4

LEMMA BuildStep == ASSUME IInv, ListSwitchesAndBuild PROVE IInv'
<1>1. UNCHANGED api /\ rec.at = "Build"
  BY DEF ListSwitchesAndBuild
<1>2. CASE rec' = Idle
  BY <1>1, <1>2, SameApi, Ended
<1>3. CASE rec' # Idle
  <2> DEFINE previous == PreviousGroups(rec.object)
             new == BuildTopologyStatus(rec.nodes, Belonging(switches), previous)
             at == IF rec.object = None THEN "Create" ELSE "Patch"
  <2>1. rec' = [rec EXCEPT !.at = at, !.status = new, !.nodes = None]
    BY <1>3 DEF ListSwitchesAndBuild
  <2>2. Agree(new.groups, new.groups) /\ (Agree(previous, previous) => Agree(previous, new.groups))
    BY BuildAgrees
  <2> HIDE DEF new
  <2>3. rec'.at = at /\ rec'.object = rec.object /\ rec'.fresh = rec.fresh /\ rec'.status = new /\ Types'
    BY <1>1, <2>1, SameApi DEF IInv, Types
  <2>4. Based'
    BY <1>1, <2>3 DEF Based, IInv, api
  <2>5. rec.fresh /\ rec.object # None => Agree(previous, previous) /\ Full(rec.object)
    BY <1>1 DEF IInv, Types, Based, OnePerPath, PreviousGroups
  <2>6. Kept'
    BY <2>2, <2>3, <2>5 DEF Kept, PreviousGroups
  <2> QED
    BY <1>1, <2>3, <2>4, <2>6, SameApi DEF IInv
<1> QED
  BY <1>2, <1>3

(* Writes of users: the reconcile's copy is no longer fresh.               *)
LEMMA UserStep == ASSUME IInv, RequestDeletion \/ Delete \/ UserCreate PROVE IInv'
<1>1. rec' = [rec EXCEPT !.fresh = FALSE]
  BY DEF RequestDeletion, Delete, UserCreate
<1>2. /\ rec'.at = rec.at /\ rec'.object = rec.object /\ ~rec'.fresh /\ rec'.status = rec.status
      /\ (rec = [at |-> rec.at, object |-> rec.object, fresh |-> rec.fresh, nodes |-> rec.nodes, status |-> rec.status])'
  BY <1>1 DEF IInv, Types
<1>3. PICK o : Store(o) /\ (o = None \/ Full(o)) /\ (o # None => Agree(o.status.groups, o.status.groups))
  <2>1. CASE RequestDeletion
    BY <2>1, SMT DEF RequestDeletion, IInv, Types, Full, OnePerPath
  <2>2. CASE Delete
    BY <2>2 DEF Delete
  <2>3. CASE UserCreate
    BY <2>3, NoGroups, SMT DEF UserCreate, EmptyStatus, Full
  <2> QED
    BY <2>1, <2>2, <2>3
<1>4. topology' = o /\ Tracked'
  BY <1>3, AppendTracks DEF Store, IInv
<1>5. Types' /\ OnePerPath' /\ Based' /\ Kept'
  BY <1>2, <1>3, <1>4 DEF Types, OnePerPath, Based, Kept, IInv
<1> QED
  BY <1>4, <1>5 DEF IInv

LEMMA WriteStep == ASSUME IInv, Create \/ Patch \/ CallFails PROVE IInv'
<1> DEFINE made == [deleting |-> FALSE, status |-> EmptyStatus]
           patched == [topology EXCEPT !.status = rec.status]
<1>1. Full(made) /\ Agree(made.status.groups, made.status.groups) /\ \A s : Agree(made.status.groups, s)
  BY NoGroups DEF EmptyStatus, Full
<1> HIDE DEF made
<1>2. CASE Create
  <2>1. rec' = [rec EXCEPT !.at = "Patch", !.object = made, !.fresh = TRUE] /\ Store(made) /\ rec.at = "Create"
    BY <1>2 DEF Create, made
  <2>2. /\ rec'.at = "Patch" /\ rec'.object = made /\ rec'.status = rec.status
        /\ (rec = [at |-> rec.at, object |-> rec.object, fresh |-> rec.fresh, nodes |-> rec.nodes,
                   status |-> rec.status])'
    BY <2>1 DEF IInv, Types
  <2>3. topology' = made /\ Tracked'
    BY <2>1, AppendTracks DEF Store, IInv
  <2>4. Types' /\ OnePerPath' /\ Based'
    BY <1>1, <2>2, <2>3 DEF Types, OnePerPath, Based
  <2>5. Agree(rec.status.groups, rec.status.groups) /\ Agree(made.status.groups, rec.status.groups)
    BY <1>1, <2>1 DEF IInv, Kept
  <2>6. Kept'
    BY <1>1, <2>2, <2>5 DEF Kept
  <2> QED
    BY <2>3, <2>4, <2>6 DEF IInv
<1>3. ASSUME rec.at = "Patch", rec.fresh, Store(patched), rec' = Idle PROVE IInv'
  <2>1. Full(topology) /\ Agree(rec.status.groups, rec.status.groups)
    BY <1>3 DEF IInv, Based, Kept
  <2>2. Full(patched) /\ patched.status = rec.status
    BY <2>1 DEF Full
  <2> HIDE DEF patched
  <2>3. topology' = patched /\ Tracked'
    BY <1>3, AppendTracks DEF Store, IInv
  <2> QED
    BY <1>3, <2>1, <2>2, <2>3, Ended DEF OnePerPath
<1>4. CASE Patch
  BY <1>3, <1>4 DEF Patch
<1>5. CASE CallFails
  <2>1. rec' = Idle
    BY <1>5 DEF CallFails
  <2>2. CASE UNCHANGED api
    BY <2>1, <2>2, SameApi, Ended
  <2>3. CASE Store(made)
    <3>1. topology' = made /\ Tracked'
      BY <2>3, AppendTracks DEF Store, IInv
    <3> QED
      BY <1>1, <2>1, <3>1, Ended DEF OnePerPath
  <2>4. CASE rec.at = "Patch" /\ rec.fresh /\ Store(patched)
    BY <1>3, <2>1, <2>4
  <2> QED
    BY <1>5, <2>2, <2>3, <2>4 DEF CallFails, made
<1> QED
  BY <1>2, <1>4, <1>5

LEMMA IInvStep == IInv /\ [Next]_vars => IInv'
<1> SUFFICES ASSUME IInv, [Next]_vars PROVE IInv'
  OBVIOUS
<1>1. CASE Inform
  <2>1. UNCHANGED <<topology, rec>> /\ Tracked'
    BY <1>1, TailTracks DEF Inform, IInv
  <2> QED
    BY <2>1 DEF IInv, Types, OnePerPath, Based, Kept
<1>2. CASE UNCHANGED api /\ UNCHANGED rec
  BY <1>2, SameApi DEF IInv, Types, Based, Kept, api
<1>3. CASE Begin \/ ListNodes
  BY <1>3, ReadStep
<1>4. CASE ListSwitchesAndBuild
  BY <1>4, BuildStep
<1>5. CASE RequestDeletion \/ Delete \/ UserCreate
  BY <1>5, UserStep
<1>6. CASE Create \/ Patch \/ CallFails
  BY <1>6, WriteStep
<1>7. CASE CreateRefused \/ PatchRefused
  BY <1>7, SameApi, Ended DEF CreateRefused, PatchRefused
<1>8. CASE Restart
  <2>1. cache' = topology /\ watch' = <<>> /\ rec' = Idle /\ UNCHANGED topology
    BY <1>8 DEF Restart
  <2>2. Tracked'
    BY <2>1, EmptySequence DEF Tracked
  <2> QED
    BY <2>1, <2>2, Ended DEF IInv, Types, OnePerPath
<1> QED
  BY <1>1, <1>2, <1>3, <1>4, <1>5, <1>6, <1>7, <1>8
  DEF Next, Reconcile, StartDelay, StillDelayed, DelayOver, ChangeNode, RemoveNode, ChangeSwitch, vars, api

(* assignNodeGroupNames ("an existing group keeps its name across             *)
(* reconciles"): no write of the controller, however old the copy it worked   *)
(* from, and whether or not its answer was lost, renames the group of a path. *)
THEOREM GroupsKeepNames == Spec => NamesKept
<1> DEFINE Renamed == ~(topology # None /\ topology' # None => Agree(topology.status.groups, topology'.status.groups))
<1>1. IInv /\ [Next]_vars => ~Renamed
  <2> SUFFICES ASSUME IInv, [Next]_vars, topology # None, topology' # None
               PROVE  Agree(topology.status.groups, topology'.status.groups)
    OBVIOUS
  <2>1. CASE UNCHANGED topology
    BY <2>1 DEF IInv, OnePerPath
  <2>2. CASE RequestDeletion
    <3>1. topology' = [topology EXCEPT !.deleting = TRUE]
      BY <2>2 DEF RequestDeletion, Store
    <3>2. topology'.status = topology.status
      BY <3>1 DEF IInv, Types, Full
    <3> QED
      BY <3>2 DEF IInv, OnePerPath
  <2>3. CASE rec.at = "Patch" /\ rec.fresh /\ Store([topology EXCEPT !.status = rec.status])
    <3>1. topology' = [topology EXCEPT !.status = rec.status] /\ rec.object = topology
      BY <2>3 DEF Store, IInv, Based
    <3>2. topology'.status = rec.status
      BY <3>1 DEF IInv, Types, Full
    <3> QED
      BY <2>3, <3>1, <3>2 DEF IInv, Kept
  <2>4. \/ UNCHANGED topology \/ RequestDeletion
        \/ rec.at = "Patch" /\ rec.fresh /\ Store([topology EXCEPT !.status = rec.status])
    BY DEF Next, Reconcile, Inform, DelayOver, CallFails, Restart, Delete, UserCreate, ChangeNode, RemoveNode,
           ChangeSwitch, StartDelay, StillDelayed, Begin, ListNodes, ListSwitchesAndBuild, Create, CreateRefused,
           Patch, PatchRefused, Store, api, vars
  <2> QED
    BY <2>1, <2>2, <2>3, <2>4
<1>2. IInv /\ [Next]_vars => [topology # None /\ topology' # None =>
       \A g \in topology.status.groups, h \in topology'.status.groups : g.path = h.path => g.name = h.name]_vars
  BY <1>1 DEF Agree
<1> QED
  BY InitInv, IInvStep, <1>2, PTL DEF Spec, NamesKept

-----------------------------------------------------------------------------
(* The numbers of new groups.                                             *)

(* A set of natural numbers has a least element.                           *)
LEMMA Least == \A T \in SUBSET Nat : T # {} => \E x \in T : \A y \in T : x <= y
<1> SUFFICES ASSUME NEW T \in SUBSET Nat, T # {} PROVE \E x \in T : \A y \in T : x <= y
  OBVIOUS
<1> DEFINE R == OpToRel(<, Nat)
<1>1. IsWellFoundedOn(R, Nat)
  BY NatLessThanWellFounded
<1>2. \A p : p \in R <=> p \in Nat \X Nat /\ p[1] < p[2]
  BY DEF OpToRel
<1> HIDE DEF R
<1>3. PICK x \in T : \A y \in T : <<y, x>> \notin R
  BY <1>1, WFMin
<1>4. \A y \in T : ~(y < x)
  BY <1>2, <1>3
<1> QED
  BY <1>4, SMT

LEMMA FreshExists ==
  ASSUME NEW taken, IsFiniteSet(taken), NEW k \in Nat \ {0}
  PROVE  \E x \in 1 .. Cardinality(taken) + k : x \notin taken /\ Cardinality((1 .. x) \ taken) = k
<1> DEFINE Free(x) == (1 .. x) \ taken
           T == {x \in Nat : Cardinality(Free(x)) >= k}
           n == Cardinality(taken) + k
<1>1. Cardinality(taken) \in Nat
  BY FS_CardinalityType
<1>2. \A x \in Nat : IsFiniteSet(Free(x)) /\ Cardinality(Free(x)) \in Nat
  <2> TAKE x \in Nat
  <2>1. IsFiniteSet(1 .. x)
    BY FS_Interval, SMT
  <2>2. IsFiniteSet(Free(x))
    BY <2>1, FS_Difference
  <2> HIDE DEF Free
  <2> QED
    BY <2>2, FS_CardinalityType
<1>3. n \in T
  <2>0. n \in Nat /\ n >= 1 /\ n - Cardinality(taken) = k
    BY <1>1, SMT
  <2> HIDE DEF n
  <2>1. IsFiniteSet(1 .. n) /\ Cardinality(1 .. n) = n
    BY <2>0, FS_Interval, SMT
  <2>2. Cardinality(Free(n)) = n - Cardinality((1 .. n) \cap taken)
    BY <2>1, FS_Difference
  <2>3. Cardinality((1 .. n) \cap taken) <= Cardinality(taken) /\ IsFiniteSet((1 .. n) \cap taken)
    BY FS_Intersection
  <2>4. Cardinality((1 .. n) \cap taken) \in Nat
    BY <2>3, FS_CardinalityType
  <2> HIDE DEF Free
  <2> QED
    BY <1>1, <2>0, <2>2, <2>3, <2>4, SMT
<1>4. PICK x \in T : \A y \in T : x <= y
  <2> HIDE DEF Free
  <2> QED
    BY <1>3, Least
<1>5. x # 0
  <2>1. Free(0) = {}
    BY SMT
  <2>2. Cardinality(Free(0)) = 0
    BY <2>1, FS_EmptySet
  <2> HIDE DEF Free
  <2> QED
    BY <1>4, <2>2, SMT
<1>6. x - 1 \in Nat /\ Cardinality(Free(x - 1)) < k
  <2> HIDE DEF Free
  <2>1. x - 1 \in Nat /\ x - 1 \notin T
    BY <1>4, <1>5, SMT
  <2> QED
    BY <1>2, <2>1, SMT
<1>7. x \notin taken
  <2> SUFFICES ASSUME x \in taken PROVE FALSE
    OBVIOUS
  <2>1. Free(x) = Free(x - 1)
    BY <1>4, <1>6, SMT
  <2> HIDE DEF Free
  <2> QED
    BY <1>2, <1>4, <1>6, <2>1, SMT
<1>8. Free(x) = Free(x - 1) \cup {x} /\ x \notin Free(x - 1)
  BY <1>4, <1>6, <1>7, SMT
<1>9. Cardinality(Free(x)) = Cardinality(Free(x - 1)) + 1
  <2> HIDE DEF Free
  <2> QED
    BY <1>2, <1>6, <1>8, FS_AddElement
<1> HIDE DEF Free
<1>10. Cardinality(Free(x)) = k
  BY <1>2, <1>4, <1>6, <1>9, SMT
<1>11. x \in 1 .. n
  BY <1>1, <1>3, <1>4, <1>5, SMT
<1> QED
  BY <1>7, <1>10, <1>11 DEF Free

LEMMA FreshNumberFree ==
  ASSUME NEW taken, IsFiniteSet(taken), NEW k \in Nat \ {0}
  PROVE  /\ FreshNumber(taken, k) \in Nat /\ FreshNumber(taken, k) \notin taken
         /\ Cardinality((1 .. FreshNumber(taken, k)) \ taken) = k
<1> DEFINE x == FreshNumber(taken, k)
           m == Cardinality(taken) + k
<1>1. x \in 1 .. m /\ x \notin taken /\ Cardinality((1 .. x) \ taken) = k
  BY FreshExists DEF FreshNumber
<1>2. m \in Nat
  BY FS_CardinalityType, SMT
<1> HIDE DEF x, m
<1>3. x \in Nat
  BY <1>1, <1>2, SMT
<1> QED
  BY <1>1, <1>3 DEF x

(* The order of the paths.                                                 *)
Shorter(p, q) == Len(p) < Len(q) /\ \A i \in 1 .. Len(p) : p[i] = q[i]
Smaller(p, q, i) == /\ i \in 1 .. Len(p) /\ i \in 1 .. Len(q) /\ p[i] < q[i]
                    /\ \A j \in 1 .. i - 1 : p[j] = q[j]

LEMMA PathOrder ==
  ASSUME NEW p \in Seq(Int), NEW q \in Seq(Int)
  PROVE  PathLess(p, q) <=> Shorter(p, q) \/ \E i \in Nat : Smaller(p, q, i)
<1>1. Len(p) \in Nat /\ Len(q) \in Nat
  BY SMT
<1>2. ASSUME Len(p) <= Len(q)
      PROVE  SubSeq(p, 1, Len(p)) = SubSeq(q, 1, Len(p)) <=> \A i \in 1 .. Len(p) : p[i] = q[i]
  BY <1>1, <1>2, SMT
<1>3. p = q <=> Len(p) = Len(q) /\ \A i \in 1 .. Len(p) : p[i] = q[i]
  <2>1. p = [i \in 1 .. Len(p) |-> p[i]] /\ q = [i \in 1 .. Len(q) |-> q[i]]
    BY SMT
  <2> DEFINE P == [i \in 1 .. Len(p) |-> p[i]]
             Q == [i \in 1 .. Len(q) |-> q[i]]
  <2>2. Len(p) = Len(q) /\ (\A i \in 1 .. Len(p) : p[i] = q[i]) => P = Q
    OBVIOUS
  <2> QED
    BY <2>1, <2>2
<1>4. IsStrictPrefix(p, q) <=> Shorter(p, q)
  BY <1>1, <1>2, <1>3, SMT DEF IsStrictPrefix, IsPrefix, Shorter
<1>5. \A i : i \in 1 .. Len(p) /\ i <= Len(q) <=> i \in 1 .. Len(p) /\ i \in 1 .. Len(q)
  BY <1>1, SMT
<1>6. \A i \in 1 .. Len(p) : i \in Nat
  BY <1>1, SMT
<1> QED
  BY <1>4, <1>5, <1>6 DEF PathLess, Smaller

LEMMA PathTotal ==
  ASSUME NEW p \in Seq(Int), NEW q \in Seq(Int), p # q
  PROVE  PathLess(p, q) \/ PathLess(q, p)
<1> DEFINE D == {i \in Nat : i \in 1 .. Len(p) /\ i \in 1 .. Len(q) /\ p[i] # q[i]}
<1>1. Len(p) \in Nat /\ Len(q) \in Nat
  BY SMT
<1>2. CASE D = {}
  <2>1. \A i \in Nat : i \in 1 .. Len(p) /\ i \in 1 .. Len(q) => p[i] = q[i]
    BY <1>2
  <2>2. Len(p) # Len(q)
    BY <1>1, <2>1, SMT
  <2>3. Shorter(p, q) \/ Shorter(q, p)
    BY <1>1, <2>1, <2>2, SMT DEF Shorter
  <2> QED
    BY <2>3, PathOrder
<1>3. CASE D # {}
  <2>1. PICK i \in D : \A j \in D : i <= j
    BY <1>3, Least
  <2>0. i \in Nat /\ i \in 1 .. Len(p) /\ i \in 1 .. Len(q)
    BY <2>1
  <2>2. ASSUME NEW j \in 1 .. i - 1 PROVE p[j] = q[j]
    <3>1. j \in Nat /\ j \in 1 .. Len(p) /\ j \in 1 .. Len(q) /\ ~(i <= j)
      BY <1>1, <2>0, SMT
    <3>2. j \notin D
      BY <2>1, <3>1
    <3> QED
      BY <3>1, <3>2
  <2>3. p[i] \in Int /\ q[i] \in Int
    BY <2>1, SMT
  <2>4. Smaller(p, q, i) \/ Smaller(q, p, i)
    BY <2>1, <2>2, <2>3, SMT DEF Smaller
  <2> QED
    BY <2>1, <2>4, PathOrder
<1> QED
  BY <1>2, <1>3

LEMMA PathTransitive ==
  ASSUME NEW p \in Seq(Int), NEW q \in Seq(Int), NEW r \in Seq(Int), PathLess(p, q), PathLess(q, r)
  PROVE  PathLess(p, r)
<1>1. Len(p) \in Nat /\ Len(q) \in Nat /\ Len(r) \in Nat
  BY SMT
<1>6. /\ \A i \in 1 .. Len(p) : p[i] \in Int
      /\ \A i \in 1 .. Len(q) : q[i] \in Int
      /\ \A i \in 1 .. Len(r) : r[i] \in Int
  BY SMT
<1>2. CASE Shorter(p, q) /\ Shorter(q, r)
  <2>1. Shorter(p, r)
    BY <1>1, <1>2, SMT DEF Shorter
  <2> QED
    BY <2>1, PathOrder
<1>3. ASSUME NEW i \in Nat, Shorter(p, q), Smaller(q, r, i) PROVE PathLess(p, r)
  <2>1. CASE i <= Len(p)
    <3>1. Smaller(p, r, i)
      BY <1>1, <1>3, <2>1, SMT DEF Shorter, Smaller
    <3> QED
      BY <3>1, PathOrder
  <2>2. CASE ~(i <= Len(p))
    <3>1. Shorter(p, r)
      BY <1>1, <1>3, <2>2, SMT DEF Shorter, Smaller
    <3> QED
      BY <3>1, PathOrder
  <2> QED
    BY <2>1, <2>2
<1>4. ASSUME NEW i \in Nat, Smaller(p, q, i), Shorter(q, r) PROVE PathLess(p, r)
  <2>1. Smaller(p, r, i)
    BY <1>1, <1>4, SMT DEF Shorter, Smaller
  <2> QED
    BY <2>1, PathOrder
<1>5. ASSUME NEW i \in Nat, NEW j \in Nat, Smaller(p, q, i), Smaller(q, r, j) PROVE PathLess(p, r)
  <2>1. p[i] \in Int /\ q[i] \in Int /\ q[j] \in Int /\ r[j] \in Int
    BY <1>5, <1>6 DEF Smaller
  <2>2. CASE i <= j
    <3>2. i \in 1 .. Len(p) /\ i \in 1 .. Len(r)
      BY <1>1, <1>5, <2>2, SMT DEF Smaller
    <3>3. \A k \in 1 .. i - 1 : p[k] = r[k]
      BY <1>5, <2>2, SMT DEF Smaller
    <3>4. p[i] \in Int /\ q[i] \in Int /\ r[i] \in Int /\ p[i] < q[i]
      BY <1>5, <1>6, <3>2 DEF Smaller
    <3>5. ASSUME i = j PROVE p[i] < r[i]
      <4>1. q[i] < r[i]
        BY <1>5, <3>5 DEF Smaller
      <4> QED
        BY <3>4, <4>1, SMT
    <3>6. ASSUME i # j PROVE p[i] < r[i]
      <4>1. i \in 1 .. j - 1
        BY <1>5, <2>2, <3>2, <3>6, SMT
      <4>2. q[i] = r[i]
        BY <1>5, <4>1 DEF Smaller
      <4> QED
        BY <3>4, <4>2
    <3>7. p[i] < r[i]
      BY <3>5, <3>6
    <3>1. Smaller(p, r, i)
      BY <3>2, <3>3, <3>7 DEF Smaller
    <3> QED
      BY <3>1, PathOrder
  <2>3. CASE ~(i <= j)
    <3>2. j \in 1 .. Len(p) /\ j \in 1 .. Len(r) /\ j \in 1 .. i - 1
      BY <1>1, <1>5, <2>3, SMT DEF Smaller
    <3>3. \A k \in 1 .. j - 1 : p[k] = r[k]
      BY <1>5, <2>3, SMT DEF Smaller
    <3>5. p[j] = q[j]
      BY <1>5, <3>2 DEF Smaller
    <3>1. Smaller(p, r, j)
      BY <1>5, <3>2, <3>3, <3>5 DEF Smaller
    <3> QED
      BY <3>1, PathOrder
  <2> QED
    BY <2>2, <2>3
<1> QED
  BY <1>2, <1>3, <1>4, <1>5, PathOrder

LEMMA PathIrreflexive == ASSUME NEW p \in Seq(Int) PROVE ~PathLess(p, p)
<1>1. Len(p) \in Nat /\ \A i \in 1 .. Len(p) : p[i] \in Int
  BY SMT
<1>2. ~Shorter(p, p) /\ \A i \in Nat : ~Smaller(p, p, i)
  BY <1>1, SMT DEF Shorter, Smaller
<1> QED
  BY <1>2, PathOrder

(* So the new groups are numbered apart.                                   *)
Upto(R, x) == {y \in R : y = x \/ PathLess(y, x)}

LEMMA RanksDiffer ==
  ASSUME NEW R \in SUBSET Seq(Int), IsFiniteSet(R), NEW p \in R
  PROVE  /\ Cardinality(Upto(R, p)) \in Nat \ {0}
         /\ \A q \in R : Cardinality(Upto(R, p)) = Cardinality(Upto(R, q)) => p = q
<1> DEFINE Down(x) == Upto(R, x)
<1> USE DEF Upto
<1>1. \A x : IsFiniteSet(Down(x)) /\ Cardinality(Down(x)) \in Nat
  <2> SUFFICES ASSUME NEW x PROVE IsFiniteSet(Down(x)) /\ Cardinality(Down(x)) \in Nat
    OBVIOUS
  <2>1. Down(x) \in SUBSET R
    OBVIOUS
  <2> HIDE DEF Down
  <2>2. IsFiniteSet(Down(x))
    BY <2>1, FS_Subset
  <2> QED
    BY <2>2, FS_CardinalityType
<1>2. p \in Down(p)
  OBVIOUS
<1>3. Cardinality(Down(p)) # 0
  <2> HIDE DEF Down
  <2> QED
    BY <1>1, <1>2, FS_EmptySet
<1>4. ASSUME NEW x \in R, NEW y \in R, PathLess(x, y) PROVE Cardinality(Down(x)) # Cardinality(Down(y))
  <2>1. Down(x) \in SUBSET Down(y)
    BY <1>4, PathTransitive
  <2>2. y \in Down(y) /\ y \notin Down(x)
    BY <1>4, PathTransitive, PathIrreflexive
  <2> HIDE DEF Down
  <2> QED
    BY <1>1, <2>1, <2>2, FS_Subset
<1>5. \A q \in R : Cardinality(Down(p)) = Cardinality(Down(q)) => p = q
  BY <1>4, PathTotal
<1> HIDE DEF Down
<1>6. Cardinality(Down(p)) \in Nat \ {0}
  BY <1>1, <1>3
<1> QED
  BY <1>5, <1>6 DEF Down

GoodNodes(ns) == IsFiniteSet(DOMAIN ns) /\ \A n \in DOMAIN ns : IsLabels(ns[n])
Unique(gs) == \A g, h \in gs : g.name = h.name \/ g.path = h.path => g = h
GoodGroups(gs) == IsFiniteSet(gs) /\ Unique(gs)

LEMMA PathType ==
  ASSUME NEW l, IsLabels(l), DOMAIN l = 1 .. Cardinality(DOMAIN l)
  PROVE  Path(l) \in Seq(Int)
<1> DEFINE k == Cardinality(DOMAIN l)
           f == [t \in 1 .. k |-> l[t]]
<1>1. k \in Nat
  BY FS_CardinalityType DEF IsLabels
<1>2. \A t \in 1 .. k : l[t] \in Int
  BY DEF IsLabels
<1> HIDE DEF k
<1>3. f \in Seq(Int) /\ Len(f) = k
  BY <1>1, <1>2, SMT
<1>4. Reverse(f) \in Seq(Int)
  <2> HIDE DEF f
  <2>1. \A i \in 1 .. k : k - i + 1 \in 1 .. k
    BY <1>1, SMT
  <2>2. \A i \in 1 .. k : f[k - i + 1] \in Int
    BY <1>3, <2>1, SMT
  <2>3. Reverse(f) = [i \in 1 .. k |-> f[(k - i) + 1]]
    BY <1>3 DEF Reverse
  <2> QED
    BY <1>1, <2>2, <2>3, SMT
<1> QED
  BY <1>4 DEF Path, k

LEMMA ImageFinite ==
  ASSUME NEW S, IsFiniteSet(S), NEW f, DOMAIN f = S
  PROVE  IsFiniteSet({f[x] : x \in S})
<1> DEFINE T == {f[x] : x \in S}
           g == [x \in S |-> f[x]]
<1>1. g \in Surjection(S, T)
  BY DEF Surjection
<1> HIDE DEF g, T
<1>2. IsFiniteSet(T)
  BY <1>1, FS_Surjection
<1> QED
  BY <1>2 DEF T

LEMMA PathsGood ==
  ASSUME NEW ns, GoodNodes(ns), ~Conflict(ns)
  PROVE  LET paths == {Path(ns[n]) : n \in Labelled(ns)}
         IN IsFiniteSet(paths) /\ paths \in SUBSET Seq(Int)
<1> DEFINE L == Labelled(ns)
           f == [n \in L |-> Path(ns[n])]
           paths == {Path(ns[n]) : n \in L}
<1>1. L \subseteq DOMAIN ns
  BY DEF Labelled
<1>2. IsFiniteSet(L)
  BY <1>1, FS_Subset DEF GoodNodes
<1>3. \A n \in L : Path(ns[n]) \in Seq(Int)
  BY <1>1, PathType DEF GoodNodes, Conflict, TiersOf
<1> HIDE DEF L
<1>4. IsFiniteSet({f[n] : n \in L})
  <2>1. DOMAIN f = L
    OBVIOUS
  <2> HIDE DEF f
  <2> QED
    BY <1>2, <2>1, ImageFinite
<1>5. {f[n] : n \in L} = paths
  OBVIOUS
<1> QED
  BY <1>3, <1>4, <1>5 DEF L

LEMMA BuildUnique ==
  ASSUME NEW ns, NEW ss, NEW previous, GoodNodes(ns), ~Conflict(ns), GoodGroups(previous)
  PROVE  GoodGroups(BuildTopologyStatus(ns, ss, previous).groups)
<1> DEFINE paths == {Path(ns[n]) : n \in Labelled(ns)}
           known == {p \in paths : Previous(previous, p) # {}}
           taken == {g.name : g \in previous}
           R == paths \ known
           rank(p) == Cardinality(Upto(R, p))
           name == AssignNodeGroupNames(paths, previous)
           group(p) == [name |-> name[p], path |-> p, nodes |-> {n \in Labelled(ns) : Path(ns[n]) = p}]
           built == BuildTopologyStatus(ns, ss, previous).groups
<1>1. IsFiniteSet(paths) /\ paths \in SUBSET Seq(Int)
  BY PathsGood
<1>2. IsFiniteSet(taken)
  <2> DEFINE f == [g \in previous |-> g.name]
  <2>1. DOMAIN f = previous /\ {f[g] : g \in previous} = taken
    OBVIOUS
  <2> HIDE DEF f, taken
  <2> QED
    BY <2>1, ImageFinite DEF GoodGroups
<1>3. built = {group(p) : p \in paths}
  BY DEF BuildTopologyStatus
<1>4. \A p \in known : name[p] \in taken /\ \E g \in previous : g.path = p /\ g.name = name[p]
  <2> SUFFICES ASSUME NEW p \in known
               PROVE  name[p] \in taken /\ \E g \in previous : g.path = p /\ g.name = name[p]
    OBVIOUS
  <2> DEFINE c == CHOOSE x \in Previous(previous, p) : TRUE
  <2>1. c \in Previous(previous, p)
    OBVIOUS
  <2>2. name[p] = c.name
    BY DEF AssignNodeGroupNames
  <2> HIDE DEF c
  <2> QED
    BY <2>1, <2>2 DEF Previous
<1>5. \A p \in R : name[p] = FreshNumber(taken, rank(p))
  BY DEF AssignNodeGroupNames, Upto
<1>6. R \in SUBSET Seq(Int) /\ R \subseteq paths
  BY <1>1
<1>7. \A p \in paths : p \in known \/ p \in R
  OBVIOUS
<1> HIDE DEF paths, known, taken, R, name
<1>8. IsFiniteSet(R)
  BY <1>1, <1>6, FS_Subset
<1>9. ASSUME NEW p \in R
      PROVE  /\ rank(p) \in Nat \ {0}
             /\ \A q \in R : rank(p) = rank(q) => p = q
  BY <1>6, <1>8, RanksDiffer
<1> HIDE DEF rank
<1>10. ASSUME NEW p \in R PROVE name[p] \notin taken /\ Cardinality((1 .. name[p]) \ taken) = rank(p)
  <2>1. rank(p) \in Nat \ {0}
    BY <1>9
  <2> DEFINE k == rank(p)
  <2> HIDE DEF k
  <2>2. FreshNumber(taken, k) \notin taken /\ Cardinality((1 .. FreshNumber(taken, k)) \ taken) = k
    BY <1>2, <2>1, FreshNumberFree DEF k
  <2>3. name[p] = FreshNumber(taken, k)
    BY <1>5 DEF k
  <2> QED
    BY <2>2, <2>3 DEF k
<1>11. ASSUME NEW p \in paths, NEW q \in paths, name[p] = name[q] PROVE p = q
  <2>1. CASE p \in known /\ q \in known
    <3>1. PICK g \in previous : g.path = p /\ g.name = name[p]
      BY <1>4, <2>1
    <3>2. PICK h \in previous : h.path = q /\ h.name = name[q]
      BY <1>4, <2>1
    <3> QED
      BY <1>11, <3>1, <3>2 DEF GoodGroups, Unique
  <2>2. CASE p \in R /\ q \in R
    BY <1>9, <1>10, <1>11, <2>2
  <2> QED
    BY <1>4, <1>7, <1>10, <1>11, <2>1, <2>2
<1>12. IsFiniteSet(built)
  <2> DEFINE f == [p \in paths |-> group(p)]
  <2>1. DOMAIN f = paths /\ {f[p] : p \in paths} = built
    BY <1>3
  <2> HIDE DEF f, built
  <2> QED
    BY <1>1, <2>1, ImageFinite
<1>13. Unique(built)
  <2> SUFFICES ASSUME NEW g \in built, NEW h \in built, g.name = h.name \/ g.path = h.path
               PROVE  g = h
    BY DEF Unique
  <2>1. PICK p \in paths : g = group(p)
    BY <1>3
  <2>2. PICK q \in paths : h = group(q)
    BY <1>3
  <2>3. g.name = name[p] /\ g.path = p /\ h.name = name[q] /\ h.path = q
    BY <2>1, <2>2
  <2>4. p = q
    BY <1>11, <2>3
  <2> QED
    BY <2>1, <2>2, <2>4
<1> QED
  BY <1>12, <1>13 DEF GoodGroups, built

(* Every copy of the Topology, those on their way to the informer and the  *)
(* one a reconcile works from included, has finitely many groups, apart in *)
(* name and in path; the Nodes a status is built from have finitely many   *)
(* labels.                                                                 *)
Sound(o) == o = None \/ (Full(o) /\ GoodGroups(o.status.groups))

CopiesSound ==
  /\ Sound(topology) /\ Sound(cache)
  /\ \A i \in 1 .. Len(watch) : Sound(watch[i])

RecordSound ==
  /\ rec.at # "Idle" => Sound(rec.object)
  /\ rec.at = "Build" => GoodNodes(rec.nodes)
  /\ rec.at \in {"Create", "Patch"} => GoodGroups(rec.status.groups)

NodesSound == DOMAIN nodes \subseteq DOMAIN NodeLabels /\ GoodNodes(nodes)

NamesInv == CopiesSound /\ RecordSound /\ NodesSound

LEMMA NoneGood == GoodGroups({})
  BY FS_EmptySet DEF GoodGroups, Unique

LEMMA MadeSound == LET made == [deleting |-> FALSE, status |-> EmptyStatus] IN Full(made) /\ Sound(made)
  BY NoneGood DEF Sound, Full, EmptyStatus

LEMMA AppendSound ==
  ASSUME Tracked, CopiesSound, NEW o, Sound(o), Store(o) PROVE CopiesSound'
<1>1. PICK S : watch \in Seq(S)
  BY DEF Tracked
<1>2. watch' = Append(watch, o) /\ topology' = o /\ cache' = cache
  BY DEF Store
<1> DEFINE w == Append(watch, o)
<1>3. Len(w) = Len(watch) + 1 /\ Len(watch) \in Nat /\ w[Len(watch) + 1] = o
  BY <1>1, SMT
<1>4. \A i \in 1 .. Len(watch) : w[i] = watch[i]
  BY <1>1, SMT
<1> HIDE DEF w
<1>5. \A i \in 1 .. Len(w) : i \in 1 .. Len(watch) \/ i = Len(watch) + 1
  BY <1>3, SMT
<1>6. \A i \in 1 .. Len(w) : Sound(w[i])
  BY <1>3, <1>4, <1>5 DEF CopiesSound
<1> QED
  BY <1>2, <1>6 DEF CopiesSound, Sound, w

LEMMA TailSound ==
  ASSUME Tracked, CopiesSound, Inform PROVE CopiesSound'
<1>1. PICK S : watch \in Seq(S)
  BY DEF Tracked
<1>2. watch # <<>> /\ cache' = Head(watch) /\ watch' = Tail(watch) /\ topology' = topology
  BY DEF Inform
<1> DEFINE w == Tail(watch)
<1>3. Len(w) = Len(watch) - 1 /\ Len(watch) \in Nat \ {0}
  BY <1>1, <1>2, SMT
<1>4. \A i \in 1 .. Len(w) : w[i] = watch[i + 1]
  BY <1>1, <1>2, SMT
<1> HIDE DEF w
<1>5. 1 \in 1 .. Len(watch) /\ \A i \in 1 .. Len(w) : i + 1 \in 1 .. Len(watch)
  BY <1>3, SMT
<1>6. Head(watch) = watch[1]
  BY <1>1, <1>2, SMT
<1>7. Sound(Head(watch)) /\ \A i \in 1 .. Len(w) : Sound(w[i])
  BY <1>4, <1>5, <1>6 DEF CopiesSound
<1> QED
  BY <1>2, <1>7 DEF CopiesSound, Sound, w

LEMMA NodesStep ==
  ASSUME NodesSound, NEW n \in DOMAIN NodeLabels, ChangeNode(n) \/ RemoveNode(n)
  PROVE  NodesSound'
<1>1. DOMAIN nodes' \subseteq DOMAIN NodeLabels /\ \A m \in DOMAIN nodes' : IsLabels(nodes'[m])
  <2>1. CASE ChangeNode(n)
    <3>1. PICK l \in NodeLabels[n] : nodes' = [m \in DOMAIN nodes \cup {n} |-> IF m = n THEN l ELSE nodes[m]]
      BY <2>1 DEF ChangeNode
    <3>2. IsLabels(l)
      BY LabelAssumptions
    <3> QED
      BY <3>1, <3>2 DEF NodesSound, GoodNodes
  <2>2. CASE RemoveNode(n)
    BY <2>2 DEF RemoveNode, NodesSound, GoodNodes
  <2> QED
    BY <2>1, <2>2
<1>2. IsFiniteSet(DOMAIN nodes')
  BY <1>1, LabelAssumptions, FS_Subset
<1> QED
  BY <1>1, <1>2 DEF NodesSound, GoodNodes, IsLabels

LEMMA InitNames == Init => NamesInv
<1> SUFFICES ASSUME Init PROVE NamesInv
  OBVIOUS
<1>1. PICK s \in Starts : nodes = s.nodes
  BY DEF Init
<1>2. NodesSound
  <2>1. DOMAIN nodes \subseteq DOMAIN NodeLabels /\ \A m \in DOMAIN nodes : IsLabels(nodes[m])
    BY <1>1, LabelAssumptions
  <2>2. IsFiniteSet(DOMAIN nodes)
    BY <2>1, LabelAssumptions, FS_Subset
  <2> QED
    BY <2>1, <2>2 DEF NodesSound, GoodNodes
<1>3. RecordSound
  BY DEF Init, Idle, RecordSound
<1>4. CopiesSound
  BY SMT DEF Init, CopiesSound, Sound
<1> QED
  BY <1>2, <1>3, <1>4 DEF NamesInv

LEMMA RecordStep == ASSUME IInv, NamesInv, Next PROVE RecordSound'
<1>1. CASE rec' = Idle
  BY <1>1 DEF RecordSound, Idle
<1>2. CASE rec' = rec \/ rec' = [rec EXCEPT !.fresh = FALSE]
  <2>1. rec'.at = rec.at /\ rec'.object = rec.object /\ rec'.nodes = rec.nodes /\ rec'.status = rec.status
    BY <1>2 DEF IInv, Types
  <2> QED
    BY <2>1 DEF NamesInv, RecordSound, Sound
<1>3. CASE Begin /\ rec' # Idle
  <2>1. rec'.at = "List" /\ rec'.object = cache
    BY <1>3 DEF Begin, Idle
  <2> QED
    BY <2>1 DEF NamesInv, CopiesSound, RecordSound, Sound
<1>4. CASE ListNodes
  <2>1. rec'.at = "Build" /\ rec'.object = rec.object /\ rec'.nodes = nodes /\ rec.at = "List"
    BY <1>4 DEF ListNodes, IInv, Types
  <2> QED
    BY <2>1 DEF NamesInv, NodesSound, RecordSound, Sound
<1>5. CASE ListSwitchesAndBuild /\ rec' # Idle
  <2> DEFINE previous == PreviousGroups(rec.object)
             new == BuildTopologyStatus(rec.nodes, Belonging(switches), previous)
             at == IF rec.object = None THEN "Create" ELSE "Patch"
  <2>1. rec.at = "Build" /\ ~Conflict(rec.nodes) /\ rec' = [rec EXCEPT !.at = at, !.status = new, !.nodes = None]
    BY <1>5 DEF ListSwitchesAndBuild
  <2>2. GoodNodes(rec.nodes) /\ Sound(rec.object)
    BY <2>1 DEF NamesInv, RecordSound
  <2>3. GoodGroups(previous)
    BY <2>2, NoneGood DEF PreviousGroups, Sound
  <2>4. GoodGroups(new.groups)
    BY <2>1, <2>2, <2>3, BuildUnique
  <2> HIDE DEF new
  <2>5. rec'.at = at /\ rec'.object = rec.object /\ rec'.status = new
    BY <2>1 DEF IInv, Types
  <2> QED
    BY <2>2, <2>4, <2>5 DEF RecordSound, Sound
<1>6. CASE Create
  <2> DEFINE made == [deleting |-> FALSE, status |-> EmptyStatus]
  <2>1. rec' = [rec EXCEPT !.at = "Patch", !.object = made, !.fresh = TRUE] /\ rec.at = "Create"
    BY <1>6 DEF Create
  <2>2. Sound(made)
    BY MadeSound
  <2> HIDE DEF made
  <2>3. rec'.at = "Patch" /\ rec'.object = made /\ rec'.status = rec.status
    BY <2>1 DEF IInv, Types
  <2> QED
    BY <2>1, <2>2, <2>3 DEF NamesInv, RecordSound, Sound
<1> QED
  BY <1>1, <1>2, <1>3, <1>4, <1>5, <1>6
  DEF Next, Reconcile, Inform, DelayOver, CallFails, Restart, RequestDeletion, Delete, UserCreate, ChangeNode,
      RemoveNode, ChangeSwitch, StartDelay, StillDelayed, CreateRefused, Patch, PatchRefused

LEMMA CopiesStep == ASSUME IInv, NamesInv, Next PROVE CopiesSound'
<1>1. CASE UNCHANGED api
  BY <1>1 DEF NamesInv, CopiesSound, Sound, api
<1>2. CASE Inform
  BY <1>2, TailSound DEF NamesInv, IInv
<1>3. CASE Restart
  BY <1>3, SMT DEF Restart, NamesInv, CopiesSound, Sound
<1>4. ASSUME NEW o, Store(o), Sound(o) PROVE CopiesSound'
  BY <1>4, AppendSound DEF NamesInv, IInv
<1>5. CASE Create \/ UserCreate \/ Store([deleting |-> FALSE, status |-> EmptyStatus])
  BY <1>4, <1>5, MadeSound DEF Create, UserCreate
<1>6. CASE Delete
  BY <1>4, <1>6 DEF Delete, Sound
<1>7. CASE RequestDeletion
  <2> DEFINE o == [topology EXCEPT !.deleting = TRUE]
  <2>1. Store(o) /\ topology # None
    BY <1>7 DEF RequestDeletion
  <2>2. Full(o) /\ o.status = topology.status
    BY <2>1 DEF IInv, Types, Full
  <2>3. Sound(o)
    BY <2>1, <2>2 DEF NamesInv, CopiesSound, Sound
  <2> QED
    BY <1>4, <2>1, <2>3
<1>8. CASE rec.at = "Patch" /\ rec.fresh /\ Store([topology EXCEPT !.status = rec.status])
  <2> DEFINE o == [topology EXCEPT !.status = rec.status]
  <2>1. Full(topology) /\ GoodGroups(rec.status.groups)
    BY <1>8 DEF IInv, Based, Kept, NamesInv, RecordSound
  <2>2. Full(o) /\ o.status = rec.status
    BY <2>1 DEF Full
  <2>3. Sound(o)
    BY <2>1, <2>2 DEF Sound
  <2> QED
    BY <1>4, <1>8, <2>3
<1> QED
  BY <1>1, <1>2, <1>3, <1>5, <1>6, <1>7, <1>8
  DEF Next, Reconcile, DelayOver, CallFails, ChangeNode, RemoveNode, ChangeSwitch, StartDelay, StillDelayed, Begin,
      ListNodes, ListSwitchesAndBuild, CreateRefused, Patch, PatchRefused, api

LEMMA NamesStep == IInv /\ NamesInv /\ [Next]_vars => NamesInv'
<1>1. ASSUME IInv, NamesInv, Next PROVE NodesSound'
  <2>1. CASE \E n \in DOMAIN NodeLabels : ChangeNode(n) \/ RemoveNode(n)
    BY <1>1, <2>1, NodesStep DEF NamesInv
  <2>2. CASE UNCHANGED nodes
    BY <1>1, <2>2 DEF NamesInv, NodesSound, GoodNodes, IsLabels
  <2> QED
    BY <1>1, <2>1, <2>2
    DEF Next, Reconcile, Inform, DelayOver, CallFails, Restart, RequestDeletion, Delete, UserCreate, ChangeSwitch,
        StartDelay, StillDelayed, Begin, ListNodes, ListSwitchesAndBuild, Create, CreateRefused, Patch, PatchRefused,
        world
<1>2. ASSUME NamesInv, UNCHANGED vars PROVE NamesInv'
  <2>1. CopiesSound'
    BY <1>2 DEF NamesInv, CopiesSound, Sound, vars
  <2>2. RecordSound'
    BY <1>2 DEF NamesInv, RecordSound, Sound, vars
  <2>3. NodesSound'
    BY <1>2 DEF NamesInv, NodesSound, GoodNodes, IsLabels, vars
  <2> QED
    BY <2>1, <2>2, <2>3 DEF NamesInv
<1> QED
  BY <1>1, <1>2, RecordStep, CopiesStep DEF NamesInv

(* assignNodeGroupNames numbers groups apart: no two node groups of the        *)
(* stored status have one name or one path, whatever labels come and go and    *)
(* however old the copy is that the names were taken over from.                *)
THEOREM GroupNamesUnique == Spec => []NamesUnique
<1>1. NamesInv => NamesUnique
  BY DEF NamesInv, CopiesSound, Sound, GoodGroups, Unique, NamesUnique
<1> QED
  BY <1>1, InitInv, IInvStep, InitNames, NamesStep, PTL DEF Spec
=============================================================================
