----------------------------- MODULE MCOrchestrator -----------------------------
(***************************************************************************)
(* The files of the orchestrator that are model-checked: two nodes and     *)
(* lists of up to two elements.  Most lists name a node once, or remove it *)
(* and then add it; those of this host also name it twice in every way.    *)
(* MCDecisionInputs has a third node, which no registry knows.             *)
(***************************************************************************)
EXTENDS Orchestrator, TLC

CONSTANTS n1, n2, n3,  \* names of nodes
          x, y         \* two implementations

MCNames == {n1, n2}
MCImpls == {x, y}

Entries(launch, executable, param) ==
  [launch |-> launch, executable |-> executable, param |-> param]

Plain(layer) == [name : MCNames, remove : {FALSE}, param : {layer, Unset}]
Removals     == [name : MCNames, remove : {TRUE}, param : {Unset}]
Changing(layer) == Plain(layer) \cup Removals

Ones(items) == {<<item>> : item \in items}
Twos(items) == {<<pair[1], pair[2]>> : pair \in {p \in items \X items :
                  p[1].name = p[2].name => p[1].remove /\ ~p[2].remove}}

Pairs(items) == {<<pair[1], pair[2]>> : pair \in items \X items}

\* n1 is registered with an executable, n2 with nothing or a launch file.
Executable == n1 :> Entries(Unset, x, "registry")
Both       == n1 :> Entries(Unset, x, Unset) @@ n2 :> Entries(y, Unset, Unset)

\* Overlays that keep to the rules: a parameter, a node that the baseline does
\* not have, one that has no implementation.
AllowedOverlays ==
  {<<Executable, Absent>>,
   <<Executable, n2 :> Entries(Unset, y, "registry overlay")>>,
   <<Executable, n2 :> Entries(Unset, Unset, "registry overlay")>>,
   <<Both, n1 :> Entries(Unset, x, "registry overlay")>>,
   <<Both, n2 :> Entries(Unset, Unset, "registry overlay")>>}
\* Overlays that change or add a protected field.
ProtectedOverlays ==
  {<<Executable, n1 :> Entries(Unset, y, Unset)>>, <<Both, n1 :> Entries(y, Unset, Unset)>>}

Everywheres == {Absent, <<>>} \cup Ones(Plain("everywhere"))
Hosts       == {Absent} \cup Ones(Changing("host"))
EverywhereOverlays == {Absent} \cup Ones(Changing("everywhere overlay"))
HostOverlays ==
  {Absent} \cup Ones(Changing("host overlay")) \cup Twos(Changing("host overlay"))

Files(scenario, files, registries, e, eo, h, ho) ==
  UNION {[scenario : {scenario}, files : {files}, registry : {r[1]}, registryOverlay : {r[2]},
          everywhere : e, everywhereOverlay : eo, host : h, hostOverlay : ho] : r \in registries}

None == {Absent}

MCInputs ==
  Files("selected", TRUE, AllowedOverlays, Everywheres, EverywhereOverlays, Hosts, HostOverlays)
  \cup Files("selected", TRUE, {<<Both, Absent>>}, Everywheres, None,
             {Absent} \cup Pairs(Changing("host")), {Absent} \cup Pairs(Changing("host overlay")))
  \cup Files("selected", TRUE, ProtectedOverlays, Everywheres, None, Hosts, None)
  \cup Files("none", TRUE, {<<Executable, Absent>>, <<Both, Absent>>},
             Everywheres, None, Hosts, None)
  \cup Files("rejected", TRUE, {<<Executable, Absent>>}, None, None, None, None)
  \cup Files("none", FALSE, {<<Executable, Absent>>}, None, None, None, None)

MCDecisionNames == {n1, n2, n3}

\* n1 and n2 are registered, n3 is not; a scenario that removes n2 and may set
\* the parameter of n1, over any placement of the three.
Placed(names, layer) == [name : names, remove : {FALSE}, param : {layer, Unset}]
Registered == <<n1 :> Entries(Unset, x, Unset) @@ n2 :> Entries(Unset, y, Unset), Absent>>
Removing   == [name |-> n2, remove |-> TRUE, param |-> Unset]

MCDecisionInputs ==
  Files("selected", TRUE, {Registered},
        Ones(Placed(MCDecisionNames, "everywhere")), None,
        {<<a, b>> : a \in Placed({n1, n2}, "host"), b \in Placed({n3}, "host")}
          \cup Ones(Placed(MCDecisionNames, "host")),
        {<<a, Removing>> : a \in Placed({n1}, "host overlay")} \cup {<<Removing>>})

=============================================================================
