--------------------------------- MODULE Exits --------------------------------
(* Exit resources (the IP pool), the nodes bound to them and the import    *)
(* sources that own some of them.  A node keeps a resolved copy of its     *)
(* exit.  Changes are made under the control lock, but a resource is       *)
(* probed, a source is fetched and public proxies are screened outside it, *)
(* so the state can change under them; a core that refuses a change has    *)
(* the previous rows restored, and a restart forgets what was under way.   *)
(* Credentials, ports, capacities and the clock are left out.              *)
EXTENDS FiniteSets

CONSTANTS Slots,       \* identities of resources that are not public
          Addresses,   \* plain proxies; a public one's identity is its address
          Feeds,       \* upstream configurations a source can list
          ImportSources, ManualNodes

Direct == "direct"  \* a node without a resource

ASSUME ExitsAssumption ==
  /\ IsFiniteSet(Slots \union Addresses \union Feeds \union ImportSources)
  /\ IsFiniteSet(ManualNodes)
  /\ Addresses \intersect (Slots \union Feeds \union ManualNodes) = {}
  /\ Direct \notin Slots

VARIABLES resource,  \* ip_pool
          node,      \* nodes: manual ones, and one for each public resource
          source,    \* import_sources
          publicOn,  \* public_settings.enabled
          probing,   \* the probe under way (probeMu), and for whom
          heavy      \* the fetch or screening under way (heavyMu)

ExitsVars == <<resource, node, source, publicOn, probing, heavy>>
-----------------------------------------------------------------------------
Nobody == "nobody"
ResourceIds == Slots \union Addresses
NodeIds == ManualNodes \union Addresses
Targets == Addresses \union Feeds

(* IPResource.  probed: the exit its probe result was measured through.    *)
Resources == [group : {"own", "feed", "public"}, exit : Targets, enabled : BOOLEAN,
              owner : ImportSources \union {Nobody},
              probed : Targets \union {Nobody}]
Absent == <<>>
Nodes == [id : ResourceIds \union {Direct}, exit : Targets \union {Direct},
          enabled : BOOLEAN]
(* ImportSource: the resources its list named when it was fetched last.    *)
(* Its interval and the owner's wish decide when it is fetched next.       *)
SourceRows == [members : SUBSET ResourceIds]

(* What a probe was asked with.  Of one that is out of date, because the   *)
(* revision that was read is not the one in the table any more, nothing    *)
(* matters: it is refused.                                                 *)
Probes == [for : {"new", "edit", "check"}, id : ResourceIds, exit : Targets,
           enabled : BOOLEAN]
Fetches == [source : ImportSources]
Screenings == [taken : SUBSET Addresses, avoided : SUBSET Addresses]
Outdated == [for |-> "nothing"]

(* The type invariant of Exits.                                            *)
ExitsTypeOK ==
  /\ resource \in [ResourceIds -> Resources \union {Absent}]
  /\ node \in [NodeIds -> Nodes \union {Absent}]
  /\ source \in [ImportSources -> SourceRows \union {Absent}]
  /\ publicOn \in BOOLEAN
  /\ probing \in Probes \union {Absent, Outdated}
  /\ heavy \in Fetches \union Screenings \union {Absent, Outdated}

ExitsInit ==
  /\ resource = [i \in ResourceIds |-> Absent]
  /\ node = [n \in NodeIds |-> Absent]
  /\ source = [s \in ImportSources |-> Absent]
  /\ publicOn = TRUE
  /\ probing = Absent /\ heavy = Absent
-----------------------------------------------------------------------------
Present == {i \in DOMAIN resource : resource[i] # Absent}
InGroup(g) == {i \in Present : resource[i].group = g}
SameExit(x) == {i \in Present : resource[i].exit = x}
Vacant == {i \in Slots : resource[i] = Absent}
LiveNodes == {n \in DOMAIN node : node[n] # Absent}
KnownSources == {s \in DOMAIN source : source[s] # Absent}

(* poolBindings.                                                           *)
BoundTo(i) == {n \in LiveNodes : node[n].id = i}

(* bindPool.                                                               *)
Bind(n, i, r) == [n EXCEPT !.id = i, !.exit = r.exit]
Rebound(i, r) ==
  [n \in NodeIds |-> IF n \in BoundTo(i) THEN Bind(node[n], i, r) ELSE node[n]]
Without(gone) == [n \in NodeIds |-> IF n \in gone THEN Absent ELSE node[n]]

New(group, x, owner, probed) ==
  [group |-> group, exit |-> x, enabled |-> TRUE, owner |-> owner, probed |-> probed]

(* A new revision for the resources of S: what was read of them is old.    *)
Asked(kinds) == "id" \in DOMAIN probing /\ probing.for \in kinds
Revised(S) ==
  probing' = IF Asked({"edit", "check"}) /\ probing.id \in S THEN Outdated ELSE probing

HeavyIdle == heavy = Absent
Running(s) == heavy = [source |-> s]
Screening == "taken" \in DOMAIN heavy
-----------------------------------------------------------------------------
(* Resources edited by the owner.                                          *)

(* importSubscription: exits of a pasted list.  Public ones are not        *)
(* compared for plain proxies.                                             *)
ImportExit(i, x) ==
  LET group == IF x \in Addresses THEN "own" ELSE "feed" IN
  /\ i \in Vacant
  /\ SameExit(x) \subseteq InGroup("public")
  /\ resource' = [resource EXCEPT ![i] = New(group, x, Nobody, Nobody)]
  /\ UNCHANGED <<node, source, publicOn, probing, heavy>>

(* cleanPool: a changed exit starts without a probe result.                *)
Edited(r, x, enabled) ==
  [r EXCEPT !.exit = x, !.enabled = enabled,
            !.probed = IF x = r.exit THEN @ ELSE Nobody]

(* saveIP, up to the probe.                                                *)
BeginEditExit(i, x, enabled) ==
  /\ probing = Absent
  /\ IF resource[i] = Absent THEN i \in Slots /\ x \in Addresses /\ enabled
     ELSE \/ resource[i].group = "own" /\ x \in Addresses
          \/ resource[i].group = "feed" /\ x = resource[i].exit
  /\ enabled \/ BoundTo(i) = {}
  /\ probing' = [for |-> IF resource[i] = Absent THEN "new" ELSE "edit", id |-> i,
                 exit |-> x, enabled |-> enabled]
  /\ UNCHANGED <<resource, node, source, publicOn, heavy>>

ProbeEnds == probing' = Absent

(* 409, for what was changed meanwhile.                                    *)
ProbeRefused ==
  /\ probing = Outdated /\ ProbeEnds
  /\ UNCHANGED <<resource, node, source, publicOn, heavy>>

(* saveIP after it, on the state as it is now.                             *)
EditAccepted(p, alive) ==
  /\ p.for = "new" => p.id \in Vacant
  /\ SameExit(p.exit) \subseteq {p.id}
  /\ BoundTo(p.id) # {} => p.enabled /\ alive

FinishEditExit ==
  /\ Asked({"new", "edit"})
  /\ LET i == probing.id
         x == probing.exit
     IN \/ \E alive \in BOOLEAN :
             /\ EditAccepted(probing, alive)
             /\ LET r == IF probing.for = "new" THEN New("own", x, Nobody, Nobody)
                         ELSE Edited(resource[i], x, probing.enabled)
                    saved == IF alive /\ r.enabled THEN [r EXCEPT !.probed = x] ELSE r
                IN /\ resource' = [resource EXCEPT ![i] = saved]
                   /\ node' = Rebound(i, saved)
        \* refused, or the core refused it and the rows were restored
        \/ UNCHANGED <<resource, node>>
  /\ ProbeEnds
  /\ UNCHANGED <<source, publicOn, heavy>>

(* detectIP and refreshPools.                                              *)
BeginCheck(i) ==
  /\ probing = Absent /\ i \in Present
  /\ probing' = [for |-> "check", id |-> i, exit |-> resource[i].exit,
                 enabled |-> TRUE]
  /\ UNCHANGED <<resource, node, source, publicOn, heavy>>

(* storePoolEgressLocked.                                                  *)
StillChecked(p) == resource[p.id] # Absent /\ resource[p.id].exit = p.exit

FinishCheck ==
  /\ Asked({"check"})
  /\ \/ /\ StillChecked(probing)
        /\ resource' = [resource EXCEPT ![probing.id].probed = probing.exit]
        /\ node' = Rebound(probing.id, resource[probing.id])
     \/ UNCHANGED <<resource, node>>
  /\ ProbeEnds
  /\ UNCHANGED <<source, publicOn, heavy>>
-----------------------------------------------------------------------------
(* Nodes.                                                                  *)

(* saveNode with a resource chosen, or with the address of one there is,   *)
(* or with a new address, which becomes a resource.  When the core refuses *)
(* the node is restored, the resource is not.                              *)
Choosable(i) == /\ resource[i] # Absent /\ resource[i].enabled
                /\ resource[i].group # "public"
Adoptable(i, x) == \/ i \in SameExit(x) /\ resource[i].enabled
                   \/ SameExit(x) = {} /\ i \in Vacant

SaveNode(n, i, enabled) ==
  \E x \in Targets :
    LET r == IF resource[i] = Absent THEN New("own", x, Nobody, x)
             ELSE [resource[i] EXCEPT !.probed = x]
        saved == [id |-> i, exit |-> x, enabled |-> enabled]
    IN /\ \/ Choosable(i) /\ x = resource[i].exit
          \/ x \in Addresses /\ Adoptable(i, x)
       /\ resource' = [resource EXCEPT ![i] = r]
       /\ \E m \in {saved, node[n]} : node' = [Rebound(i, r) EXCEPT ![n] = m]
       /\ UNCHANGED <<source, publicOn, probing, heavy>>

SaveDirectNode(n, enabled) ==
  /\ node' = [node EXCEPT ![n] = [id |-> Direct, exit |-> Direct, enabled |-> enabled]]
  /\ UNCHANGED <<resource, source, publicOn, probing, heavy>>

DeleteNode(n) ==
  /\ n \in LiveNodes
  /\ node' = Without({n})
  /\ UNCHANGED <<resource, source, publicOn, probing, heavy>>

(* planResourceChange: a batch, here of one.                               *)
Managed(i) == \/ resource[i].owner # Nobody
              \/ \E s \in KnownSources : i \in source[s].members

DeleteExit(i) ==
  /\ HeavyIdle /\ i \in Present
  /\ resource[i].group # "public" /\ ~Managed(i)
  /\ BoundTo(i) \subseteq ManualNodes
  /\ resource' = [resource EXCEPT ![i] = Absent]
  /\ node' = Without(BoundTo(i))
  /\ Revised({i})
  /\ UNCHANGED <<source, publicOn, heavy>>

SwitchExit(i, enabled) ==
  /\ HeavyIdle /\ i \in Present /\ resource[i].group # "public"
  /\ resource' = [resource EXCEPT ![i].enabled = enabled]
  /\ node' = [n \in NodeIds |->
       IF n \in BoundTo(i) /\ ~enabled THEN [node[n] EXCEPT !.enabled = FALSE]
       ELSE node[n]]
  /\ Revised({i})
  /\ UNCHANGED <<source, publicOn, heavy>>

SwitchNode(n, enabled) ==
  /\ HeavyIdle /\ n \in LiveNodes \intersect ManualNodes
  /\ LET i == node[n].id IN
       enabled /\ i # Direct => resource[i] # Absent /\ resource[i].enabled
  /\ node' = [node EXCEPT ![n].enabled = enabled]
  /\ UNCHANGED <<resource, source, publicOn, probing, heavy>>
-----------------------------------------------------------------------------
(* Import sources.                                                         *)

CreateSource(s) ==
  /\ source[s] = Absent
  /\ source' = [source EXCEPT ![s] = [members |-> {}]]
  /\ UNCHANGED <<resource, node, publicOn, probing, heavy>>

(* PUT: renamed, given another link, switched on or off.                   *)
EditSource(s) ==
  /\ source[s] # Absent
  /\ heavy' = IF Running(s) THEN Outdated ELSE heavy
  /\ UNCHANGED <<resource, node, source, publicOn, probing>>

(* runImportSourceID, until it releases the lock to fetch.                 *)
StartFetch(s) ==
  /\ HeavyIdle /\ source[s] # Absent
  /\ heavy' = [source |-> s]
  /\ UNCHANGED <<resource, node, source, publicOn, probing>>

(* The resources source s brought that are not in its list got any more.   *)
Dropped(s, got) ==
  {i \in InGroup("feed") : resource[i].owner = s /\ resource[i].exit \notin got}

(* Mutant: a resource a node uses is pruned as well.                       *)
PrunableUnbound(s, got) ==
  {i \in Dropped(s, got) : \A t \in KnownSources \ {s} : i \notin source[t].members}

(* Nothing uses it, neither a node nor another source.                     *)
Prunable(s, got) ==
  {i \in Dropped(s, got) : /\ BoundTo(i) = {}
                           /\ \A t \in KnownSources \ {s} : i \notin source[t].members}

(* syncSourceLocked for a whole list, or one of which parts were not       *)
(* understood, which prunes nothing.  New revisions for what turns stale.  *)
SyncSource(s, got, partial) ==
  LET removed == IF partial THEN {} ELSE Prunable(s, got)
      kept == InGroup("feed") \ removed
      missing == {x \in got : SameExit(x) \intersect kept = {}}
  IN \E slot \in [missing -> Vacant] :
       /\ \A x, y \in missing : x # y => slot[x] # slot[y]
       /\ resource' = [i \in ResourceIds |->
            IF \E x \in missing : slot[x] = i
            THEN New("feed", CHOOSE x \in missing : slot[x] = i, s, Nobody)
            ELSE IF i \in removed THEN Absent ELSE resource[i]]
       /\ source' = [source EXCEPT ![s].members =
            {i \in kept : resource[i].exit \in got} \union {slot[x] : x \in missing}]
       /\ Revised(removed \union Dropped(s, got))

FinishFetch(s, got, partial) ==
  /\ Running(s) /\ source[s] # Absent
  /\ SyncSource(s, got, partial)
  /\ heavy' = Absent
  /\ UNCHANGED <<node, publicOn>>

(* planSourceDeletion: a resource another source has too goes to it, the   *)
(* others go with the nodes that use them.                                 *)
Owners(i, s) == {t \in KnownSources \ {s} : resource[i].owner = t \/ i \in source[t].members}
Brought(s) == {i \in Present : /\ resource[i].group # "public"
                               /\ resource[i].owner = s \/ i \in source[s].members}

DeleteSource(s) ==
  LET shared == {i \in Brought(s) : Owners(i, s) # {}}
      removed == Brought(s) \ shared
  IN /\ HeavyIdle /\ source[s] # Absent
     /\ \E heir \in [shared -> ImportSources] :
          /\ \A i \in shared : heir[i] \in Owners(i, s)
          /\ resource' = [i \in ResourceIds |->
               IF i \in removed THEN Absent
               ELSE IF i \in shared
               THEN [resource[i] EXCEPT !.owner = heir[i]]
               ELSE resource[i]]
     /\ node' = Without({n \in LiveNodes : node[n].id \in removed})
     /\ source' = [source EXCEPT ![s] = Absent]
     /\ Revised(Brought(s))
     /\ UNCHANGED <<publicOn, heavy>>
-----------------------------------------------------------------------------
(* The public pool.                                                        *)

(* applyPublicSetLocked, for a set of addresses that none of the owner's   *)
(* resources has; each gets a node of its own, which keeps its identity.   *)
PublicSet(D) ==
  /\ \A x \in D : SameExit(x) \subseteq InGroup("public")
  /\ resource' = [i \in ResourceIds |->
       IF i \in D THEN New("public", i, Nobody, i)
       ELSE IF i \in InGroup("public") THEN Absent ELSE resource[i]]
  /\ node' = [n \in NodeIds |->
       IF n \in D THEN [id |-> n, exit |-> n, enabled |-> TRUE]
       ELSE IF n \in Addresses THEN Absent ELSE node[n]]

(* startPublicCycle, and what collectPublicWith reads first.               *)
StartScreening ==
  /\ HeavyIdle /\ publicOn
  /\ heavy' = [taken |-> InGroup("public"),
               avoided |-> {x \in Addresses : \E i \in Slots :
                              i \in Present /\ resource[i].exit = x}]
  /\ UNCHANGED <<resource, node, source, publicOn, probing>>

(* What was in the pool and passed again, and new addresses that passed.   *)
FinishScreening(D) ==
  /\ Screening /\ publicOn
  /\ D \intersect heavy.avoided \subseteq heavy.taken
  /\ PublicSet(D)
  /\ heavy' = Absent
  /\ UNCHANGED <<source, publicOn, probing>>

(* A fetch that failed, or whose list the bridge refuses; a screening that *)
(* was cancelled or that the core refuses; what is out of date.            *)
AbandonHeavy ==
  /\ ~HeavyIdle
  /\ heavy' = Absent
  /\ UNCHANGED <<resource, node, source, publicOn, probing>>

(* savePublicSettings: a cycle under way is cancelled and out of date, and *)
(* switching off withdraws all public exits.                               *)
SavePublicSettings(on) ==
  /\ publicOn' = on
  /\ IF on THEN UNCHANGED <<resource, node>> ELSE PublicSet({})
  /\ heavy' = IF Screening THEN Outdated ELSE heavy
  /\ UNCHANGED <<source, probing>>

(* The panel stops and starts again.                                       *)
RestartPanel ==
  /\ probing # Absent \/ ~HeavyIdle
  /\ probing' = Absent /\ heavy' = Absent
  /\ UNCHANGED <<resource, node, source, publicOn>>
-----------------------------------------------------------------------------
ExitsNext ==
  \/ \E i \in Slots, x \in Targets : ImportExit(i, x)
  \/ \E i \in ResourceIds, x \in Targets, on \in BOOLEAN : BeginEditExit(i, x, on)
  \/ \E i \in ResourceIds : BeginCheck(i) \/ DeleteExit(i)
  \/ \E i \in ResourceIds, on \in BOOLEAN : SwitchExit(i, on)
  \/ FinishEditExit \/ FinishCheck \/ ProbeRefused
  \/ \E n \in ManualNodes, on \in BOOLEAN :
       \/ \E i \in ResourceIds : SaveNode(n, i, on)
       \/ SaveDirectNode(n, on) \/ SwitchNode(n, on)
  \/ \E n \in ManualNodes : DeleteNode(n)
  \/ \E s \in ImportSources :
       \/ CreateSource(s) \/ EditSource(s) \/ DeleteSource(s)
       \/ StartFetch(s)
       \/ \E got \in SUBSET Feeds, partial \in BOOLEAN : FinishFetch(s, got, partial)
  \/ StartScreening \/ AbandonHeavy
  \/ \E D \in SUBSET Addresses : FinishScreening(D)
  \/ \E on \in BOOLEAN : SavePublicSettings(on)
  \/ RestartPanel

ExitsSpec == ExitsInit /\ [][ExitsNext]_ExitsVars
-----------------------------------------------------------------------------
(* A node's exit exists, is the one the node was resolved from, and is     *)
(* enabled if the node is (migratePools refuses to start otherwise); a     *)
(* probe result is of the exit it stands with; and what a source lists     *)
(* exists, and what it owns has an owner.  A node that was saved with the  *)
(* address of a public proxy is the exception: see README.                 *)
ExitsInUse ==
  /\ \A n \in LiveNodes : node[n].id \in Slots =>
       LET r == resource[node[n].id]
       IN r # Absent /\ r.exit = node[n].exit /\ (node[n].enabled => r.enabled)
  /\ \A i \in Present : /\ resource[i].probed \in {Nobody, resource[i].exit}
                        /\ resource[i].owner \in KnownSources \union {Nobody}
  /\ \A s \in KnownSources : source[s].members \subseteq Present
=============================================================================
