------------------------------ MODULE Orchestrator ------------------------------
(***************************************************************************)
(* The launch orchestrator (robot_bringup/launch/orchestrator.launch.py):  *)
(* build_launch_actions merges the overlays of a scenario into the         *)
(* baseline files, then the assignment of this host into the one of every  *)
(* host, and turns the list of nodes that results into launch actions.     *)
(*                                                                         *)
(* Of a node's settings one ROS parameter is kept; its value is the name   *)
(* of the file and section that set it, so that the value of a launched    *)
(* node tells where it came from.                                          *)
(***************************************************************************)
EXTENDS Naturals, Sequences, FiniteSets

CONSTANTS
  Names,   \* the names of nodes
  Impls,   \* launch files and executables
  Unset,   \* a field that a mapping does not have
  Absent,  \* a file, a host or a list that is not there
  Inputs   \* the configurations a run may find, records as IsInput says

\* The layers a parameter can be set in, from the weakest to the strongest, in
\* the order in which the code merges them (ADR 001 lists them otherwise).
Strength == <<"launch file", "registry", "registry overlay", "everywhere",
              "everywhere overlay", "host", "host overlay">>
Values   == {Strength[i] : i \in DOMAIN Strength} \cup {Unset}

\* An element of a list of nodes, and a definition in the registry.
Item     == [name : Names, remove : BOOLEAN, param : Values]
Entry    == [launch : Impls \cup {Unset}, executable : Impls \cup {Unset}, param : Values]
List     == {Absent} \cup Seq(Item)
IsRegistry(r) == DOMAIN r \subseteq Names /\ r \in [DOMAIN r -> Entry]

\* The parameters of a list, and of a registry, are of its own layer.
OfLayer(list, layer) ==
  list # Absent => \A i \in DOMAIN list : list[i].param \in {layer, Unset}
DefinedIn(r, layer) ==
  r # Absent => \A n \in DOMAIN r : r[n].param \in {layer, Unset}

\* The files of one call: of each list the baseline and the scenario's overlay.
Fields == {"scenario", "files", "registry", "registryOverlay",
           "everywhere", "everywhereOverlay", "host", "hostOverlay"}
IsInput(f) ==
  /\ DOMAIN f = Fields
  /\ f.scenario \in {"none", "rejected", "selected"}
  /\ f.files \in BOOLEAN
  /\ f.registry # Absent /\ IsRegistry(f.registry)
  /\ f.registryOverlay = Absent \/ IsRegistry(f.registryOverlay)
  /\ {f.everywhere, f.everywhereOverlay, f.host, f.hostOverlay} \subseteq List
  /\ DefinedIn(f.registry, "registry") /\ DefinedIn(f.registryOverlay, "registry overlay")
  /\ OfLayer(f.everywhere, "everywhere") /\ OfLayer(f.everywhereOverlay, "everywhere overlay")
  /\ OfLayer(f.host, "host") /\ OfLayer(f.hostOverlay, "host overlay")

ASSUME InputsAssumption == \A f \in Inputs : IsInput(f)
\* What is not there is no implementation, no layer and no list.
ASSUME UnsetAssumption == Unset \notin Impls \cup {Strength[i] : i \in DOMAIN Strength}
ASSUME AbsentAssumption == Absent \notin Seq(Item)

VARIABLES
  input,       \* the files
  phase,       \* where build_launch_actions is
  registry,    \* node_registry
  assignment,  \* the lists of nodes: of every host, of this host, of both merged
  merged,      \* merged_values of merge_named_lists, Absent when it does not run
  indexes,     \* indexes of merge_named_lists
  at,          \* the position of the loop over a list
  aliases,     \* the files that define the alias which parameters use
  launched     \* launch_actions

mergeVars == <<merged, indexes, at>>
vars == <<input, phase, registry, assignment, mergeVars, aliases, launched>>

Merges  == {"everywhere", "host", "both"}
Working == {"select", "registry", "maps", "launch"} \cup Merges
\* How a call ends: with the actions, with an empty list, with an exception.
Ends    == {"returned", "empty", "raised"}
Action  == [name : Names, via : {"launch_file", "executable"}, impl : Impls,
            param : Values, resolved : {"nothing", "literal", "baseline", "overlay"}]

TypeOK ==
  /\ IsInput(input)
  /\ phase \in Working \cup Ends
  /\ IsRegistry(registry)
  /\ assignment \in [Merges -> List]
  /\ merged \in List
  /\ \A n \in DOMAIN indexes : n \in Names /\ indexes[n] \in Nat \ {0}
  /\ at \in Nat \ {0}
  /\ aliases \subseteq {"baseline", "overlay"}
  /\ launched \in Seq(Action)

Init ==
  /\ input \in Inputs
  /\ phase = "select"
  /\ registry = input.registry
  /\ assignment = [m \in Merges |->
       IF m = "everywhere" THEN input.everywhere
       ELSE IF m = "host" THEN input.host ELSE Absent]
  /\ merged = Absent
  /\ indexes = <<>>
  /\ at = 1
  /\ aliases = {}
  /\ launched = <<>>

-----------------------------------------------------------------------------
(* Reading the files. *)

\* A scenario that has a path in its name or no directory, or a missing
\* baseline file: nothing is launched.
Select ==
  /\ phase = "select"
  /\ phase' = IF input.scenario = "rejected" \/ ~input.files THEN "empty" ELSE "registry"
  /\ UNCHANGED <<input, registry, assignment, mergeVars, aliases, launched>>

\* A baseline file or an overlay that cannot be read or parsed.
Unreadable ==
  /\ phase \in {"registry", "everywhere"} /\ merged = Absent
  /\ phase' = "raised"
  /\ UNCHANGED <<input, registry, assignment, mergeVars, aliases, launched>>

\* The value that the overlay gives, or else the baseline's.
Over(value, base) == IF value = Unset THEN base ELSE value

\* A wrong form: a field that the baseline does not have may be added.
ChangesWhatThereIs(overlay, base) ==
  \E n \in DOMAIN overlay \cap DOMAIN base :
    \/ base[n].launch # Unset /\ overlay[n].launch \notin {Unset, base[n].launch}
    \/ base[n].executable # Unset /\ overlay[n].executable \notin {Unset, base[n].executable}

\* validate_registry_overlay
Changes(overlay, base) ==
  \E n \in DOMAIN overlay \cap DOMAIN base :
    \/ overlay[n].launch \notin {Unset, base[n].launch}
    \/ overlay[n].executable \notin {Unset, base[n].executable}

\* The definition of a node that the merge of two mappings gives.
MergedEntry(base, overlay) ==
  [launch     |-> Over(overlay.launch, base.launch),
   executable |-> Over(overlay.executable, base.executable),
   param      |-> Over(overlay.param, base.param)]

MergedRegistry(base, overlay) ==
  [n \in DOMAIN base \cup DOMAIN overlay |->
     IF n \notin DOMAIN overlay THEN base[n]
     ELSE IF n \notin DOMAIN base THEN overlay[n]
     ELSE MergedEntry(base[n], overlay[n])]

MergeRegistry ==
  /\ phase = "registry"
  /\ \/ /\ input.registryOverlay = Absent
        /\ phase' = "everywhere"
        /\ UNCHANGED registry
     \/ /\ input.registryOverlay # Absent
        /\ Changes(input.registryOverlay, registry)
        /\ phase' = "raised"
        /\ UNCHANGED registry
     \/ /\ input.registryOverlay # Absent
        /\ ~Changes(input.registryOverlay, registry)
        /\ phase' = "everywhere"
        /\ registry' = MergedRegistry(registry, input.registryOverlay)
  /\ UNCHANGED <<input, assignment, mergeVars, aliases, launched>>

-----------------------------------------------------------------------------
(* merge_config on the lists of nodes: the overlay of the scenario into the *)
(* list of every host and of this host, then this host's into every host's. *)

MergeBase ==
  IF phase = "both" THEN assignment["everywhere"] ELSE assignment[phase]

MergeOverlay ==
  IF phase = "everywhere" THEN input.everywhereOverlay
  ELSE IF phase = "host" THEN input.hostOverlay
  ELSE assignment["host"]

AfterMerge ==
  IF phase = "everywhere" THEN "host" ELSE IF phase = "host" THEN "both" ELSE "maps"

\* A wrong form: positions that count from zero.
IndexesFromZero(list) ==
  [n \in {list[i].name : i \in DOMAIN list} |->
     (CHOOSE i \in DOMAIN list :
        list[i].name = n /\ \A j \in DOMAIN list : list[j].name = n => j <= i) - 1]

\* The position of each name, of its last one when a name occurs twice.
IndexesOf(list) ==
  [n \in {list[i].name : i \in DOMAIN list} |->
     CHOOSE i \in DOMAIN list :
       list[i].name = n /\ \A j \in DOMAIN list : list[j].name = n => j <= i]

\* A wrong form: pop without a position.
PopLast(list, i) == SubSeq(list, 1, Len(list) - 1)

Pop(list, i) == SubSeq(list, 1, i - 1) \o SubSeq(list, i + 1, Len(list))

\* One of the two has no such list: the overlay is copied as it is, or the
\* baseline stays.
MergeWhole ==
  /\ phase \in Merges /\ merged = Absent
  /\ MergeBase = Absent \/ MergeOverlay = Absent
  /\ assignment' = [assignment EXCEPT ![phase] =
       IF MergeOverlay = Absent THEN MergeBase ELSE MergeOverlay]
  /\ phase' = AfterMerge
  /\ UNCHANGED <<input, registry, mergeVars, aliases, launched>>

BeginMerge ==
  /\ phase \in Merges /\ merged = Absent
  /\ MergeBase # Absent /\ MergeOverlay # Absent
  /\ merged' = MergeBase
  /\ indexes' = IndexesOf(MergeBase)
  /\ at' = 1
  /\ UNCHANGED <<input, phase, registry, assignment, aliases, launched>>

Merging    == phase \in Merges /\ merged # Absent
InLoop     == Merging /\ at <= Len(MergeOverlay)
Overlaying == MergeOverlay[at]

\* A wrong form: the positions are not computed anew.
RemoveItemOnly ==
  /\ InLoop /\ Overlaying.remove
  /\ IF Overlaying.name \in DOMAIN indexes
     THEN /\ merged' = Pop(merged, indexes[Overlaying.name])
          /\ indexes' = [n \in DOMAIN indexes \ {Overlaying.name} |-> indexes[n]]
     ELSE UNCHANGED <<merged, indexes>>
  /\ at' = at + 1
  /\ UNCHANGED <<input, phase, registry, assignment, aliases, launched>>

\* An element with remove: true takes the element of its name out.
RemoveItem ==
  /\ InLoop /\ Overlaying.remove
  /\ IF Overlaying.name \in DOMAIN indexes
     THEN /\ merged' = Pop(merged, indexes[Overlaying.name])
          /\ indexes' = IndexesOf(merged')
     ELSE UNCHANGED <<merged, indexes>>
  /\ at' = at + 1
  /\ UNCHANGED <<input, phase, registry, assignment, aliases, launched>>

\* A wrong form: the overlay's element replaces the baseline's.
ReplacedItem(base, overlay) ==
  [name |-> base.name, remove |-> base.remove, param |-> overlay.param]

\* merge_config of two elements: a key the overlay does not have is kept,
\* remove: true too.
MergedItem(base, overlay) ==
  [name |-> base.name, remove |-> base.remove, param |-> Over(overlay.param, base.param)]

OverlayItem ==
  /\ InLoop /\ ~Overlaying.remove
  /\ Overlaying.name \in DOMAIN indexes
  /\ LET i == indexes[Overlaying.name]
     IN  merged' = [merged EXCEPT ![i] = MergedItem(merged[i], Overlaying)]
  /\ at' = at + 1
  /\ UNCHANGED <<input, phase, registry, assignment, indexes, aliases, launched>>

AppendItem ==
  /\ InLoop /\ ~Overlaying.remove
  /\ Overlaying.name \notin DOMAIN indexes
  /\ indexes' = [n \in DOMAIN indexes \cup {Overlaying.name} |->
       IF n = Overlaying.name THEN Len(merged) + 1 ELSE indexes[n]]
  /\ merged' = Append(merged, Overlaying)
  /\ at' = at + 1
  /\ UNCHANGED <<input, phase, registry, assignment, aliases, launched>>

EndMerge ==
  /\ Merging /\ at > Len(MergeOverlay)
  /\ assignment' = [assignment EXCEPT ![phase] = merged]
  /\ phase' = AfterMerge
  /\ merged' = Absent
  /\ indexes' = <<>>
  /\ at' = 1
  /\ UNCHANGED <<input, registry, aliases, launched>>

-----------------------------------------------------------------------------
(* The infrastructure maps and the launch actions. *)

\* load_named_map of every map: a map that cannot be loaded ends the call.
LoadNamedMaps ==
  /\ phase = "maps"
  /\ \/ /\ aliases' \in SUBSET {"baseline", "overlay"}
        /\ "overlay" \in aliases' => input.scenario = "selected"
        /\ phase' = "launch"
     \/ phase' = "empty" /\ UNCHANGED aliases
  /\ UNCHANGED <<input, registry, assignment, mergeVars, launched>>

ActiveNodes == IF assignment["both"] = Absent THEN <<>> ELSE assignment["both"]
NodeItem    == ActiveNodes[at]
NodeDef     == registry[NodeItem.name]
Visiting    == phase = "launch" /\ at <= Len(ActiveNodes)

\* The parameters of the deployment over those of the registry.
NodeParam == Over(NodeItem.param, NodeDef.param)

\* resolve_named_parameters: the value of the alias, or the name as it is.
Resolved(param) ==
  IF param = Unset THEN "nothing"
  ELSE IF "overlay" \in aliases THEN "overlay"
  ELSE IF "baseline" \in aliases THEN "baseline" ELSE "literal"

Launch(via, impl, param) ==
  launched' = Append(launched,
    [name |-> NodeItem.name, via |-> via, impl |-> impl, param |-> param,
     resolved |-> Resolved(NodeParam)])

\* A node that is not registered costs a warning, one without launch file and
\* executable nothing; a launch file comes before an executable and has a
\* default for the parameter.
LaunchNode ==
  /\ Visiting
  /\ \/ NodeItem.name \notin DOMAIN registry /\ UNCHANGED launched
     \/ /\ NodeItem.name \in DOMAIN registry
        /\ NodeDef.launch # Unset
        /\ Launch("launch_file", NodeDef.launch, Over(NodeParam, "launch file"))
     \/ /\ NodeItem.name \in DOMAIN registry
        /\ NodeDef.launch = Unset /\ NodeDef.executable # Unset
        /\ Launch("executable", NodeDef.executable, NodeParam)
     \/ /\ NodeItem.name \in DOMAIN registry
        /\ NodeDef.launch = Unset /\ NodeDef.executable = Unset
        /\ UNCHANGED launched
  /\ at' = at + 1
  /\ UNCHANGED <<input, phase, registry, assignment, merged, indexes, aliases>>

\* The package or the launch file of a definition is missing: no action that
\* was made before is returned.
LaunchRaises ==
  /\ Visiting
  /\ NodeItem.name \in DOMAIN registry
  /\ NodeDef.launch # Unset \/ NodeDef.executable # Unset
  /\ phase' = "raised"
  /\ UNCHANGED <<input, registry, assignment, mergeVars, aliases, launched>>

Return ==
  /\ phase = "launch" /\ at > Len(ActiveNodes)
  /\ phase' = "returned"
  /\ UNCHANGED <<input, registry, assignment, mergeVars, aliases, launched>>

\* The call is over.
Ended ==
  /\ phase \in Ends
  /\ UNCHANGED vars

Next ==
  \/ Select \/ Unreadable \/ MergeRegistry
  \/ MergeWhole \/ BeginMerge \/ RemoveItem \/ OverlayItem \/ AppendItem \/ EndMerge
  \/ LoadNamedMaps \/ LaunchNode \/ LaunchRaises \/ Return
  \/ Ended

Spec == Init /\ [][Next]_vars

-----------------------------------------------------------------------------
(* Properties *)

(* The positions that merge_named_lists keeps while it pops and appends    *)
(* elements stay true: each name's position holds an element of that name, *)
(* and every element's name has one.                                       *)
IndexesFresh ==
  Merging =>
    /\ \A n \in DOMAIN indexes :
         indexes[n] \in DOMAIN merged /\ merged[indexes[n]].name = n
    /\ \A i \in DOMAIN merged : merged[i].name \in DOMAIN indexes

\* The launch file or the executable that a definition leads to.
Implementation(entry) == IF entry.launch # Unset THEN entry.launch ELSE entry.executable

(* No scenario changes what runs for a node of the baseline registry:      *)
(* through validation, merge and launch loop, a node that the baseline     *)
(* registers is launched with the baseline's launch file or executable.    *)
ProtectedKept ==
  \A i \in DOMAIN launched :
    launched[i].name \in DOMAIN input.registry =>
      launched[i].impl = Implementation(input.registry[launched[i].name])

Lists == {input.everywhere, input.everywhereOverlay, input.host, input.hostOverlay}
Deploys(list, n)  == list # Absent /\ \E i \in DOMAIN list : list[i].name = n
NeverRemoved(n)   ==
  \A list \in Lists \ {Absent} : \A i \in DOMAIN list : list[i].name = n => ~list[i].remove
Sets(list, n)     ==
  list # Absent /\ \E i \in DOMAIN list : list[i].name = n /\ list[i].param # Unset
NamedOnce(list, n) ==
  list # Absent =>
    \A i, j \in DOMAIN list : list[i].name = n /\ list[j].name = n => i = j
Defines(entries, n) == entries # Absent /\ n \in DOMAIN entries
Gives(entries, n) == Defines(entries, n) /\ entries[n].param # Unset
Launchable(entries, n) == Defines(entries, n) /\ Implementation(entries[n]) # Unset
StartsOf(n)       == {i \in DOMAIN launched : launched[i].name = n}

\* The layers that set the parameter of n when it is launched.
SettersOf(n) ==
  {l \in DOMAIN Strength :
     \/ Strength[l] = "launch file"
     \/ Strength[l] = "registry" /\ Gives(input.registry, n)
     \/ Strength[l] = "registry overlay" /\ Gives(input.registryOverlay, n)
     \/ Strength[l] = "everywhere" /\ Sets(input.everywhere, n)
     \/ Strength[l] = "everywhere overlay" /\ Sets(input.everywhereOverlay, n)
     \/ Strength[l] = "host" /\ Sets(input.host, n)
     \/ Strength[l] = "host overlay" /\ Sets(input.hostOverlay, n)}
StrongestFor(n) ==
  Strength[CHOOSE l \in SettersOf(n) : \A k \in SettersOf(n) : k <= l]

(* What the merges come to: a node that no list removes or names twice is  *)
(* launched once if some list deploys it and a registry gives it an        *)
(* implementation, and not at all otherwise, and its parameter is the one  *)
(* of the strongest layer that sets it, a launch file having a default.    *)
(* This is the order of the code, in which a scenario's overlay of a       *)
(* section is stronger than the section, and its way with a node that is   *)
(* not registered; where ADR 001 decides otherwise is SomeDecisionKept.    *)
LaunchedAsLayered ==
  phase = "returned" => \A n \in Names :
    NeverRemoved(n) /\ (\A list \in Lists : NamedOnce(list, n)) =>
    /\ Cardinality(StartsOf(n)) =
         IF /\ \E list \in Lists : Deploys(list, n)
            /\ Launchable(input.registry, n) \/ Launchable(input.registryOverlay, n)
         THEN 1 ELSE 0
    /\ \A i \in StartsOf(n) :
         launched[i].param =
           IF launched[i].via = "executable" /\ StrongestFor(n) = "launch file"
           THEN Unset ELSE StrongestFor(n)

\* The scenario's last word on n on this host is remove: true.
ScenarioRemoves(n) ==
  /\ input.hostOverlay # Absent
  /\ \E i \in DOMAIN input.hostOverlay :
       /\ input.hostOverlay[i].name = n /\ input.hostOverlay[i].remove
       /\ \A j \in DOMAIN input.hostOverlay : input.hostOverlay[j].name = n => j <= i

(* Where a scenario's removal of a node from this host does work: the      *)
(* baseline has a list for this host and no list of every host deploys the *)
(* node, or it has none and there is one of every host to take it out of.  *)
(* A baseline list that names the node twice would keep one of the two.    *)
RemovalWorks ==
  phase = "returned" => \A n \in Names :
    /\ ScenarioRemoves(n)
    /\ NamedOnce(input.everywhere, n) /\ NamedOnce(input.host, n)
    /\ \/ /\ input.host # Absent
          /\ ~Deploys(input.everywhere, n) /\ ~Deploys(input.everywhereOverlay, n)
       \/ input.host = Absent /\ input.everywhere # Absent
    => StartsOf(n) = {}

\* ADR 001, line 404: "An overlay item with `remove: true` removes the matching
\* named item."
RemovalKept == \A n \in Names : ScenarioRemoves(n) => StartsOf(n) = {}

\* ADR 001, lines 393-400: later layers override earlier ones, and the selected
\* scenario overlay (3) comes before the host deployment map (4).
HostOverScenario ==
  \A n \in Names : NeverRemoved(n) /\ Sets(input.host, n) /\ Sets(input.hostOverlay, n) =>
    \A i \in StartsOf(n) : launched[i].param = "host"

\* ADR 001, lines 407-411: before launching nodes, check that a node is not
\* assigned to a host without a registry entry.
UnregisteredRefused ==
  (\E i \in DOMAIN ActiveNodes : ActiveNodes[i].name \notin DOMAIN registry)
    => launched = <<>>

(* ADR 001 decides all three; what it says is violated by any call that    *)
(* breaks one.  One call breaks all of them at once, so even that every    *)
(* call keeps one of the three is refuted, and its trace shows each: the   *)
(* merge forgets the removal of a node that only the list of every host    *)
(* deploys, the scenario's parameter wins over this host's, and a node     *)
(* that is not registered costs a warning while the others are launched.   *)
SomeDecisionKept ==
  phase = "returned" => RemovalKept \/ HostOverScenario \/ UnregisteredRefused

=============================================================================
