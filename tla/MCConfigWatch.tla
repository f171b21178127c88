---------------------------- MODULE MCConfigWatch ----------------------------
EXTENDS ConfigWatch

MCTokens == {"a", "b", "n", "1", "2", "7", "8", "9", "mc", "alt", "stats"}

\* Two services, a and b, in namespace n.
Ref(name, namespace, kind, port) ==
  [name |-> <<name>>, namespace |-> namespace,
   port |-> [kind |-> kind, text |-> <<port>>]]

Rule(under, type, s) == [under |-> under, type |-> type, service |-> s]

A == Ref("a", <<>>, "int", "1")
B == Ref("b", <<"n">>, "string", "mc")

MCNamespace == <<"n">>
MCServiceKeys == {<<<<"n">>, <<"a">>>>, <<<<"n">>, <<"b">>>>}

\* A default type, and a service next to children; replication over a service;
\* a sharded rule over replicated ones, of a service and of sharded services; a
\* nested rule without a type.
MCRules ==
  {<<Rule({}, "", A), Rule({1}, "sharded", B)>>,
   <<Rule({}, "replicated", B)>>,
   <<Rule({}, "", None), Rule({1}, "replicated", A),
     Rule({1}, "replicated", None), Rule({1, 3}, "sharded", B), Rule({1, 3}, "sharded", A)>>,
   <<Rule({}, "sharded", None), Rule({1}, "", A)>>}

Port(port, name, kind, target) ==
  [name |-> <<name>>, port |-> <<port>>,
   targetPort |-> [kind |-> kind, text |-> <<target>>]]

\* One port; two, of which one is found by name; two that lead to the same number.
MCPorts ==
  {<<Port("1", "mc", "int", "7")>>,
   <<Port("1", "mc", "int", "7"), Port("2", "alt", "int", "7")>>,
   <<Port("2", "stats", "int", "8"), Port("1", "mc", "string", "mc")>>}

EPort(protocol, port, name) ==
  [name |-> <<name>>, port |-> <<port>>, protocol |-> protocol]

MCSubsets ==
  [key \in MCServiceKeys |->
     IF key[2] = <<"a">>
     THEN {<<[addresses |-> <<"x">>, ports |-> <<EPort("TCP", "7", "mc")>>]>>,
           <<[addresses |-> <<"x", "y">>,
              ports |-> <<EPort("TCP", "7", "mc"), EPort("TCP", "8", "stats")>>]>>}
     ELSE {<<>>,
           <<[addresses |-> <<"v">>,
              ports |-> <<EPort("TCP", "7", "alt"), EPort("TCP", "7", "mc")>>]>>,
           <<[addresses |-> <<"v">>,
              ports |-> <<EPort("TCP", "7", "mc"), EPort("TCP", "8", "stats")>>],
             [addresses |-> <<"w">>,
              ports |-> <<EPort("TCP", "9", "mc"), EPort("TCP", "8", "stats")>>]>>}]

\* What sets depend on, as in the theorem on them: with other rules and ports
\* SetsGoWhereRulesSay does not hold.
ASSUME MCUnambiguous ==
  /\ \A r \in Defaulted : PoolNamesTellApart(r)
  /\ \A ports \in Ports : NamedLikeTargets(ports)
=============================================================================
