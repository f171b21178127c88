----------------------------- MODULE RouteConfig -----------------------------
(***************************************************************************)
(* How a MemcachedProxy's rules become an mcrouter configuration           *)
(* (internal/controller/proxyconfigmap/config.go), how defaults are filled *)
(* in beforehand (types.go), which services the rules refer to             *)
(* (endpoints.go), and what mcrouter does with the result.                 *)
(*                                                                         *)
(* Rules are a tree, written as an outline: the list of all rules in the   *)
(* order in which a walk meets them, each with the positions of the rules  *)
(* it is under.  A route is a function from positions in that list.  Texts *)
(* that are run together to make the name of a pool (names, namespaces,    *)
(* port numbers) are sequences of tokens; <<>> is the empty text.          *)
(***************************************************************************)
EXTENDS Naturals, Sequences, FiniteSetsExt, Functions

CONSTANTS Tokens, None, Error

Replicated == "replicated"
Sharded == "sharded"

\* What a user may have written as a rule's type; "other" is anything else.
RuleTypes == {Replicated, Sharded, "", "other"}

Text == Seq(Tokens)
IntOrString == [kind : {"int", "string"}, text : Text]
ServiceSpec == [name : Text, namespace : Text, port : IntOrString]
ServicePort == [name : Text, port : Text, targetPort : IntOrString]
RuleSpec == [type : RuleTypes, service : ServiceSpec \cup {None}, under : SUBSET Nat]

\* The outlines: the first rule is under no other, and each of the others is under
\* the one before it, or next to that one or to something it is under.
IsRules(r) ==
  /\ r \in Seq(RuleSpec) /\ r # <<>>
  /\ r[1].under = {}
  /\ \A i \in 2..Len(r) : \E h \in r[i - 1].under \cup {i - 1} :
        r[i].under = r[h].under \cup {h}

ASSUME RouteConfigAssumption == None \notin Text /\ None # Error
-----------------------------------------------------------------------------
(* Outlines, of rules and of routes *)

Under(t) == [i \in DOMAIN t |-> t[i].under]

Children(under, h) == {i \in DOMAIN under : under[i] = under[h] \cup {h}}

\* A service hides what is under it.
Visited(r) == {i \in DOMAIN r : \A h \in r[i].under : r[h].service = None}
-----------------------------------------------------------------------------
(* Defaults *)

ServiceApplyDefaults(s, namespace) ==
  IF s = None THEN s
  ELSE [s EXCEPT !.namespace = IF @ = <<>> THEN namespace ELSE @]

\* Mutant: the children are left out.
ApplyDefaultsToRoot(r, namespace) ==
  [r EXCEPT ![1].type = IF @ = "" THEN Sharded ELSE @,
            ![1].service = ServiceApplyDefaults(@, namespace)]

\* Children are reached through the loop variable, a copy: of their defaults only
\* what the copy points to is left.
ApplyDefaults(r, namespace) ==
  [i \in DOMAIN r |->
     [r[i] EXCEPT !.type = IF i = 1 /\ @ = "" THEN Sharded ELSE @,
                  !.service = ServiceApplyDefaults(@, namespace)]]
-----------------------------------------------------------------------------
(* Services and their pools *)

\* Mutant: services of nested rules are not looked for.
ServicesOfRoot(r) == {r[1].service} \ {None}

\* Of services with the same key the code keeps one; only keys are looked at.
serviceSpecsForRule(r) == {r[i].service : i \in Visited(r)} \ {None}

\* The hash in the name is taken to be injective on what goes into it, which is
\* the concatenation.
poolNameForServiceSpec(s) == s.name \o s.namespace \o s.port.text

Key(s) == <<s.namespace, s.name>>

Lookup(cache, key) == IF key \in DOMAIN cache THEN cache[key] ELSE None

\* Mutant: any TCP port will do.
portIsTCP(eport, targetPort) == eport.protocol = "TCP"

portMatches(eport, targetPort) ==
  /\ eport.protocol = "TCP"
  /\ IF targetPort.kind = "int" THEN eport.port = targetPort.text
     ELSE eport.name = targetPort.text

\* Positions of the ports of a Service that a rule's port stands for.
ServicePorts(s, ports) ==
  {i \in DOMAIN ports : IF s.port.kind = "int" THEN ports[i].port = s.port.text
                        ELSE ports[i].name = s.port.text}

\* The addresses to append, subset by subset and port by port.
ServerLists(subsets, targetPort) ==
  [i \in DOMAIN subsets |->
     [j \in {j \in DOMAIN subsets[i].ports :
               portMatches(subsets[i].ports[j], targetPort)} |->
        [addresses |-> subsets[i].addresses, port |-> subsets[i].ports[j].port]]]

\* An error if the Service, its port or the Endpoints cannot be found.  Of
\* several ports the last one counts.
poolForService(s, services, endpoints) ==
  LET ports == Lookup(services, Key(s))
      subsets == Lookup(endpoints, Key(s))
  IN IF ports = None \/ subsets = None THEN Error
     ELSE IF ServicePorts(s, ports) = {} THEN Error
     ELSE ServerLists(subsets, ports[Max(ServicePorts(s, ports))].targetPort)
-----------------------------------------------------------------------------
(* Routes *)

KnownRuleTypes(r) == \A i \in Visited(r) : r[i].type \in {Replicated, Sharded}

\* A rule's route handles: for deletes, and for everything else.
routeForRule(r) ==
  [i \in Visited(r) |->
     [default_policy |-> IF r[i].type = Replicated THEN "AllSyncRoute"
                         ELSE IF r[i].service # None THEN "PoolRoute" ELSE "HashRoute",
      delete |-> IF r[i].type = Replicated THEN "LatestRoute"
                 ELSE IF r[i].service # None THEN "PoolRoute" ELSE "HashRoute",
      pool |-> IF r[i].service = None THEN None
               ELSE poolNameForServiceSpec(r[i].service),
      under |-> r[i].under]]

\* Of services with the same pool name the one visited last fills the pool.
LastVisited(r) ==
  {i \in Visited(r) :
     /\ r[i].service # None
     /\ \A j \in Visited(r) : i < j /\ r[j].service # None =>
          poolNameForServiceSpec(r[j].service) # poolNameForServiceSpec(r[i].service)}

Pool(s, services, endpoints) ==
  [name |-> poolNameForServiceSpec(s), servers |-> poolForService(s, services, endpoints)]

Pools(rules, services, endpoints) ==
  {Pool(s, services, endpoints) : s \in {rules[i].service : i \in LastVisited(rules)}}

configForProxy(rules, services, endpoints) ==
  LET pools == Pools(rules, services, endpoints)
  IN IF ~KnownRuleTypes(rules) \/ \E pool \in pools : pool.servers = Error
     THEN Error
     ELSE [route |-> routeForRule(rules), pools |-> pools]
-----------------------------------------------------------------------------
(* Where requests go.  A way is the set of servers one request is sent to, *)
(* a request has a set of possible ways, depending on its key.             *)

\* One member of each set.
Selections(members) ==
  {f \in [DOMAIN members -> UNION Range(members)] :
     \A i \in DOMAIN members : f[i] \in members[i]}

\* The ways through an outline whose positions in each send to all of their
\* children or servers, and the others to one.  Nobody is reached through nothing.
WaysThrough(under, each, servers) ==
  LET branches == [h \in {h \in DOMAIN under \ each : Children(under, h) # {}} |->
                     Children(under, h)]
      leaves == [i \in {i \in DOMAIN servers \ each : servers[i] # {}} |-> servers[i]]
      Reached(child) ==
        {i \in DOMAIN servers : \A h \in DOMAIN child \cap under[i] :
           child[h] \in under[i] \cup {i}}
  IN {UNION {IF i \in DOMAIN server THEN {server[i]} ELSE servers[i] :
               i \in Reached(child)} :
        child \in Selections(branches), server \in Selections(leaves)}

\* Servers in the lists of a pool.
ServersIn(lists) ==
  UNION {UNION {{<<a, lists[i][j].port>> : a \in Range(lists[i][j].addresses)} :
                  j \in DOMAIN lists[i]} : i \in DOMAIN lists}

\* mcrouter: AllSyncRoute sends to all of its children, or to all servers of a
\* pool, the other routes to one of them.
Ways(config, policy) ==
  LET route == config.route
  IN WaysThrough(Under(route),
                 {i \in DOMAIN route : route[i][policy] = "AllSyncRoute"},
                 [i \in {i \in DOMAIN route : route[i].pool # None} |->
                    ServersIn((CHOOSE p \in config.pools : p.name = route[i].pool).servers)])

\* Kubernetes: the servers of a Service's port are the endpoint ports that have
\* its name.
ServersOfService(s, ports, subsets) ==
  LET names == {ports[i].name : i \in ServicePorts(s, ports)}
  IN UNION {UNION {{<<a, subsets[i].ports[j].port>> : a \in Range(subsets[i].addresses)} :
                     j \in {j \in DOMAIN subsets[i].ports :
                              subsets[i].ports[j].name \in names}} :
              i \in DOMAIN subsets}

\* The ports of a Service have different names and numbers.
ValidPorts(ports) ==
  \A i, j \in DOMAIN ports :
    ports[i].name = ports[j].name \/ ports[i].port = ports[j].port => i = j

\* Every port that leads to a container port by name has that name itself.  Nothing
\* asks for it, but portMatches compares the name of an endpoint port, which is that
\* of the Service's port, with the name of the container port.
NamedLikeTargets(ports) ==
  \A p \in Range(ports) : p.targetPort.kind = "string" => p.targetPort.text = p.name

\* Different services of the rules have different pool names.  Nothing asks for this
\* either: the parts of the name are run together.
PoolNamesTellApart(r) ==
  \A s1, s2 \in serviceSpecsForRule(r) :
    poolNameForServiceSpec(s1) = poolNameForServiceSpec(s2) => s1 = s2

\* An endpoint port made for a port of a Service.
Serves(eport, port) ==
  /\ eport.protocol = "TCP"
  /\ eport.name = port.name
  /\ port.targetPort.kind = "int" => eport.port = port.targetPort.text

\* The Endpoints have been made from the Service as it is: all of their ports are
\* ports of the Service, and none is missing that needs no name to be found.
EndpointsMatch(ports, subsets) ==
  \A i \in DOMAIN subsets :
    /\ \A e \in Range(subsets[i].ports) : \E p \in Range(ports) : Serves(e, p)
    /\ \A p \in Range(ports) : p.targetPort.kind = "int" =>
         \E e \in Range(subsets[i].ports) : Serves(e, p)

\* What the documentation says of rules: a sharded rule sends a request to one
\* of its members, a replicated rule sends a write to each.
WaysOfRule(r, services, endpoints) ==
  WaysThrough(Restrict(Under(r), Visited(r)),
              {i \in Visited(r) : r[i].type = Replicated},
              [i \in {i \in Visited(r) : r[i].service # None} |->
                 LET s == r[i].service
                 IN ServersOfService(s, services[Key(s)], endpoints[Key(s)])])
=============================================================================
