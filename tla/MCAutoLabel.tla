---------------------------- MODULE MCAutoLabel ----------------------------
(***************************************************************************)
(* Nodes 1 to 3, leaves 11 and 12, spine 13.  Leaf 11 announces itself by  *)
(* the host name 21, which is no resource name; 22 is a device without a   *)
(* Switch object.                                                          *)
(***************************************************************************)
EXTENDS AutoLabel

Names == {0, 1, 2, 3, 11, 12, 13, 21, 22, 121}
CanonicalNames == [name \in Names |-> IF name = 21 THEN 121 ELSE name]

Fabric(scaleOut, storage) ==
  [role |-> "GPU", nics |-> [ScaleOut |-> scaleOut, Storage |-> storage]]

Auto(role, hostname, neighbors) ==
  [role |-> role, hostname |-> hostname, annotated |-> FALSE, manual |-> {},
   neighbors |-> neighbors]

Manual(role, manual) ==
  [role |-> role, hostname |-> NoName, annotated |-> TRUE, manual |-> manual, neighbors |-> {}]

\* Two leaves under one spine; node 2 shares leaf 11 with node 1.
StableFabricNodes == (1 :> {Fabric({21}, {})}) @@ (2 :> {Fabric({21}, {})}) @@ (3 :> {Fabric({12}, {})})
StableSwitches ==
  (11 :> {Auto("ScaleOut", 21, {1, 13})}) @@ (12 :> {Auto("ScaleOut", NoName, {3, 22})})
    @@ (13 :> {Auto("ScaleOut", NoName, {21, 12})})

TheOne(f) == [x \in DOMAIN f |-> CHOOSE y \in f[x] : TRUE]
Fresh(sw) == [s \in DOMAIN sw |-> Labelled(TheOne(sw)[s], {})]

FullStart ==
  [nodes |-> [n \in 1 .. 3 |-> {}], fabricNodes |-> TheOne(StableFabricNodes),
   switches |-> Fresh(StableSwitches)]
Gone(s) == [FullStart EXCEPT !.switches = Without(@, s)]

NoEvents(world) ==
  [world |-> world, abort |-> 0, restart |-> 0, touch |-> 0, node |-> 0, fabricNode |-> 0,
   switch |-> 0, label |-> 0, delete |-> 0, create |-> 0]

\* Both roles, nodes moved to other leaves, a role without Switches (storage
\* leaf 22 is known from the nodes only), annotated Switches with good and bad
\* lists, users who label by hand, and a changed configuration.
MixedRoles == {<<"ScaleOut", "Storage">>, <<"Storage">>}
MixedFabricNodes ==
  (1 :> {Fabric({21}, {22}), Fabric({12}, {})}) @@ (3 :> {Fabric({12}, {22})})
MixedSwitches ==
  (11 :> {Auto("ScaleOut", 21, {13}), Manual("ScaleOut", {12})})
    @@ (12 :> {Manual("ScaleOut", {21}), Manual("ScaleOut", {NoName}), Manual("ScaleOut", {}),
               Auto("Storage", 22, {})})
MixedStart ==
  {[nodes |-> [n \in {1, 3} |-> {}],
    fabricNodes |-> (1 :> Fabric({21}, {22})) @@ (3 :> Fabric({12}, {22})),
    switches |-> (11 :> Labelled(eleven, {})) @@ (12 :> Labelled(twelve, {}))] :
     eleven \in MixedSwitches[11], twelve \in {Manual("ScaleOut", {21}), Auto("Storage", 22, {})}}
MixedLabels == {[role |-> "ScaleOut", tier |-> 1, name |-> <<1, 2>>],
                [role |-> "Storage", tier |-> 1, name |-> Foreign]}

MCWorlds ==
  [stable |-> [fabricNodes |-> StableFabricNodes, switches |-> StableSwitches, departing |-> {2, 13},
               labels |-> {}, configurations |-> {<<"ScaleOut">>}, steady |-> TRUE],
   mixed |-> [fabricNodes |-> MixedFabricNodes, switches |-> MixedSwitches, departing |-> {},
              labels |-> MixedLabels, configurations |-> MixedRoles, steady |-> FALSE]]

\* A leaf whose nodes are there already, or the spine, may be added later; what a
\* reconcile has to get over in the end; and the mixed fabric.
Scenario(start, budget0) == [start |-> start, budget |-> budget0]
MCScenarios ==
  {Scenario(FullStart, [NoEvents("stable") EXCEPT !.abort = 1, !.node = 2, !.delete = 1]),
   Scenario(FullStart, [NoEvents("stable") EXCEPT !.abort = 1, !.switch = 1, !.delete = 1]),
   Scenario(Gone(11), [NoEvents("stable") EXCEPT !.abort = 1, !.switch = 1]),
   Scenario(Gone(13), [NoEvents("stable") EXCEPT !.abort = 1, !.switch = 1]),
   Scenario(FullStart, [NoEvents("stable") EXCEPT !.touch = 1, !.fabricNode = 1, !.delete = 1, !.create = 1])}
  \cup {Scenario(start, [NoEvents("mixed") EXCEPT !.restart = 1, !.switch = 1, !.label = 1]) : start \in MixedStart}
  \cup {Scenario(start, [NoEvents("mixed") EXCEPT !.fabricNode = 1, !.label = 1, !.delete = 1]) : start \in MixedStart}
=============================================================================
