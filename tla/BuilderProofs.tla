--------------------------- MODULE BuilderProofs ---------------------------
(***************************************************************************)
(* What a history of edits leads to, for all specs, flags and histories.   *)
(***************************************************************************)
EXTENDS Builders, PortProofs

\* The ports of a spec have names, each its own.
PortsNamed ==
  \A s \in Specs : /\ "" \notin NamesOf(s.ports)
                   /\ \A i, j \in DOMAIN s.ports : s.ports[i].name = s.ports[j].name => i = j

\* What a merge of service ports and of container ports overwrites.
Over == {"target", "protocol"}

ContainerOver == {"containerPort", "protocol"}

\* The ports that Service and LBService merge into their objects.
ServiceDesired(s) == [i \in DOMAIN s.ports |-> ServicePort(s.ports[i])]

BalancedDesired(s) ==
  [i \in DOMAIN s.loadBalancer.portNames |->
     ServicePort(ByName(s.ports, s.loadBalancer.portNames[i]))]

UniqueNames(ports) == \A i, j \in DOMAIN ports : ports[i].name = ports[j].name => i = j

OwnNodePorts(ports) == \A i, j \in DOMAIN ports : ports[i].nodePort = ports[j].nodePort => i = j

-----------------------------------------------------------------------------
(***************************************************************************)
(* Ports of specs and of objects                                           *)
(***************************************************************************)

\* Overwriting fields of a service port from another one gives a service port.
LEMMA ServicePortUpdated ==
  ASSUME NEW np
  PROVE  /\ \A p, q \in ServicePorts(np) : /\ Updated(p, q, Over) \in ServicePorts(np)
                                           /\ Over \cup {"name"} \subseteq DOMAIN p
         /\ \A p \in ServicePorts(np) : p = [f \in DOMAIN p |-> p[f]]
         /\ "name" \notin Over
<1>1. ASSUME NEW p \in ServicePorts(np), NEW q \in ServicePorts(np)
      PROVE  Updated(p, q, Over) \in ServicePorts(np)
  <2> DEFINE u == Updated(p, q, Over)
  <2>1. u = [name |-> p.name, port |-> p.port, protocol |-> q.protocol, target |-> q.target,
             nodePort |-> p.nodePort]
    BY DEF Updated, Over, ServicePorts
  <2> HIDE DEF u
  <2> QED BY <2>1 DEF ServicePorts, u
<1> QED BY <1>1 DEF ServicePorts, Over

\* Overwriting fields of a container port from another one gives a container port.
LEMMA ContainerPortUpdated ==
  /\ \A p, q \in ContainerPorts : /\ Updated(p, q, ContainerOver) \in ContainerPorts
                                  /\ ContainerOver \cup {"name"} \subseteq DOMAIN p
  /\ \A p \in ContainerPorts : p = [f \in DOMAIN p |-> p[f]]
  /\ "name" \notin ContainerOver
<1>1. ASSUME NEW p \in ContainerPorts, NEW q \in ContainerPorts
      PROVE  Updated(p, q, ContainerOver) \in ContainerPorts
  <2> DEFINE u == Updated(p, q, ContainerOver)
  <2>1. u = [name |-> p.name, containerPort |-> q.containerPort, protocol |-> q.protocol,
             hostPort |-> p.hostPort]
    BY DEF Updated, ContainerOver, ContainerPorts
  <2> HIDE DEF u
  <2> QED BY <2>1 DEF ContainerPorts, u
<1> QED BY <1>1 DEF ContainerPorts, ContainerOver

\* The ports of a spec are container ports; with names of their own they are consistent.
LEMMA SpecPorts ==
  ASSUME NEW s \in Specs
  PROVE  /\ s.ports \in Seq(ContainerPorts)
         /\ PortsNamed => Consistent(s.ports) /\ "" \notin NamesOf(s.ports)
         /\ NamesOf(s.ports) \subseteq Names /\ Names \subseteq STRING
<1> DEFINE Given == [name : STRING, containerPort : Nat, protocol : {"TCP", "UDP"}, hostPort : Nat]
<1>1. \A t \in Specs : t.ports \in Seq(Given)
  BY SpecAssumption
<1> HIDE DEF Given
<1>2. ASSUME NEW t \in Specs, NEW p \in Range(t.ports)
      PROVE  p \in Given /\ p.name \in STRING
  <2>1. PICK i \in DOMAIN t.ports : p = t.ports[i]
    BY DEF Range
  <2>2. t.ports \in Seq(Given)
    BY <1>1
  <2>3. p \in Given
    BY <2>1, <2>2
  <2> QED BY <2>3 DEF Given
<1>3. NamesOf(s.ports) \subseteq Names /\ Names \subseteq STRING
  BY <1>2 DEF Names, NamesOf
<1>4. \A p \in Range(s.ports) : p \in ContainerPorts
  BY <1>2, <1>3 DEF NamesOf, ContainerPorts, Given
<1>5. s.ports \in Seq(ContainerPorts)
  <2>1. s.ports \in Seq(Given)
    BY <1>1
  <2>2. \A i \in 1..Len(s.ports) : s.ports[i] \in ContainerPorts
    BY <1>4, <2>1 DEF Range
  <2> QED BY <2>1, <2>2
<1> QED BY <1>3, <1>5 DEF PortsNamed, Consistent

\* The service port of a container port has its name, and that name as its target.
LEMMA ServicePortOf ==
  ASSUME NEW p \in ContainerPorts
  PROVE  /\ ServicePort(p) \in ServicePorts({0})
         /\ ServicePort(p).name = p.name
         /\ ServicePort(p).protocol = p.protocol
         /\ ServicePort(p).target = Named(p.name)
<1>1. Named(p.name) \in Targets
  BY DEF Named, Targets, ContainerPorts
<1> QED BY <1>1 DEF ServicePort, ServicePorts, ContainerPorts

\* The ports that a Service is to have are those of the spec, each with its name as its
\* target; under its name stands the service port of that port.
LEMMA ServiceDesiredIs ==
  ASSUME NEW s \in Specs
  PROVE  /\ ServiceDesired(s) \in Seq(ServicePorts({0}))
         /\ NamesOf(ServiceDesired(s)) = NamesOf(s.ports)
         /\ \A p \in Range(ServiceDesired(s)) : p.target = Named(p.name)
         /\ PortsNamed => /\ Consistent(ServiceDesired(s))
                          /\ \A p \in Range(s.ports) :
                               ByName(ServiceDesired(s), p.name) = ServicePort(p)
<1> DEFINE d == ServiceDesired(s)
<1>1. s.ports \in Seq(ContainerPorts)
  BY SpecPorts
<1>2. ASSUME NEW i \in DOMAIN s.ports
      PROVE  /\ s.ports[i] \in ContainerPorts
             /\ d[i] = ServicePort(s.ports[i])
             /\ d[i] \in ServicePorts({0})
             /\ d[i].name = s.ports[i].name /\ d[i].target = Named(d[i].name)
  <2>1. s.ports[i] \in ContainerPorts
    BY <1>1
  <2>2. d[i] = ServicePort(s.ports[i])
    BY DEF ServiceDesired
  <2> HIDE DEF d
  <2> QED BY <2>1, <2>2, ServicePortOf
<1>3. DOMAIN d = DOMAIN s.ports /\ DOMAIN s.ports = 1..Len(s.ports) /\ Len(s.ports) \in Nat
  BY <1>1 DEF ServiceDesired
<1>4. d \in Seq(ServicePorts({0}))
  <2>1. d \in [1..Len(s.ports) -> ServicePorts({0})]
    <3>1. d = [i \in DOMAIN s.ports |-> d[i]]
      BY DEF ServiceDesired
    <3> HIDE DEF d
    <3> QED BY <1>2, <1>3, <3>1
  <2> HIDE DEF d
  <2> QED BY <1>3, <2>1
<1>5. NamesOf(d) = NamesOf(s.ports)
  BY <1>2, <1>3 DEF NamesOf, Range
<1>6. \A p \in Range(d) : p.target = Named(p.name)
  BY <1>2, <1>3 DEF Range
<1>7. ASSUME PortsNamed
      PROVE  Consistent(d)
  BY <1>2, <1>3, <1>7 DEF PortsNamed, Consistent
<1>8. ASSUME PortsNamed, NEW p \in Range(s.ports)
      PROVE  ByName(d, p.name) = ServicePort(p)
  <2>1. PICK i \in DOMAIN s.ports : p = s.ports[i]
    BY DEF Range
  <2>2. d[i] \in Range(d) /\ d[i].name = p.name /\ d[i] = ServicePort(p)
    BY <1>2, <1>3, <2>1 DEF Range
  <2> HIDE DEF d
  <2> QED BY <1>4, <1>7, <1>8, <2>2, ByNameOfConsistent
<1> HIDE DEF d
<1> QED BY <1>4, <1>5, <1>6, <1>7, <1>8 DEF d

\* The ports that a load balancer's Service is to have are those it names.
LEMMA BalancedDesiredIs ==
  ASSUME NEW s \in Specs, s.loadBalancer # Off,
         Range(s.loadBalancer.portNames) \subseteq NamesOf(s.ports)
  PROVE  /\ BalancedDesired(s) \in Seq(ServicePorts({0}))
         /\ Len(BalancedDesired(s)) <= Cardinality(NodePorts)
         /\ NamesOf(BalancedDesired(s)) = Range(s.loadBalancer.portNames)
         /\ \A p \in Range(BalancedDesired(s)) : p.target = Named(p.name)
         /\ Consistent(BalancedDesired(s))
         /\ \A n \in Range(s.loadBalancer.portNames) :
              ByName(BalancedDesired(s), n) = ServicePort(ByName(s.ports, n))
<1> DEFINE d == BalancedDesired(s)
           w == s.loadBalancer.portNames
<1>1. s.ports \in Seq(ContainerPorts) /\ Range(s.ports) \subseteq ContainerPorts
  <2>1. s.ports \in Seq(ContainerPorts)
    BY SpecPorts
  <2> QED BY <2>1 DEF Range
<1>2. w \in Seq(STRING) /\ Len(w) <= Cardinality(NodePorts)
  BY SpecAssumption DEF IsLoadBalancer
<1> HIDE DEF w
<1>3. ASSUME NEW i \in DOMAIN w
      PROVE  /\ d[i] = ServicePort(ByName(s.ports, w[i]))
             /\ d[i] \in ServicePorts({0})
             /\ d[i].name = w[i] /\ d[i].target = Named(d[i].name)
  <2>1. w[i] \in NamesOf(s.ports)
    BY DEF Range, w
  <2>2. ByName(s.ports, w[i]) \in ContainerPorts /\ ByName(s.ports, w[i]).name = w[i]
    BY <1>1, <2>1, ByNameIs
  <2>3. d[i] = ServicePort(ByName(s.ports, w[i]))
    BY DEF BalancedDesired, w
  <2> HIDE DEF d
  <2> QED BY <2>2, <2>3, ServicePortOf
<1>4. DOMAIN d = DOMAIN w /\ DOMAIN w = 1..Len(w) /\ Len(w) \in Nat
  BY <1>2 DEF BalancedDesired, w
<1>5. d \in Seq(ServicePorts({0})) /\ Len(d) = Len(w)
  <2>1. d = [i \in DOMAIN w |-> d[i]]
    BY DEF BalancedDesired, w
  <2> HIDE DEF d
  <2>2. d \in [1..Len(w) -> ServicePorts({0})]
    BY <1>3, <1>4, <2>1
  <2> QED BY <1>4, <2>2
<1> HIDE DEF d
<1>6. NamesOf(d) = Range(w)
  BY <1>3, <1>4 DEF NamesOf, Range
<1>7. \A p \in Range(d) : p.target = Named(p.name)
  BY <1>3, <1>4 DEF Range
<1>8. Consistent(d)
  BY <1>3, <1>4 DEF Consistent
<1>9. ASSUME NEW n \in Range(w)
      PROVE  ByName(d, n) = ServicePort(ByName(s.ports, n))
  <2>1. PICK i \in DOMAIN w : n = w[i]
    BY DEF Range
  <2>2. d[i] \in Range(d) /\ d[i].name = n /\ d[i] = ServicePort(ByName(s.ports, n))
    BY <1>3, <1>4, <2>1 DEF Range
  <2> QED BY <1>5, <1>8, <2>2, ByNameOfConsistent
<1> QED BY <1>2, <1>5, <1>6, <1>7, <1>8, <1>9 DEF d, w

\* A list whose names are unique is no longer than any with the same names.
LEMMA UniqueNamesFew ==
  ASSUME NEW S, NEW ports \in Seq(S), NEW desired \in Seq(S),
         UniqueNames(ports), NamesOf(ports) = NamesOf(desired)
  PROVE  Len(ports) <= Len(desired)
<1> DEFINE P == 1..Len(ports)
           D == 1..Len(desired)
           N == NamesOf(ports)
           f == [i \in P |-> ports[i].name]
           g == [i \in D |-> desired[i].name]
<1>1. /\ P = DOMAIN ports /\ D = DOMAIN desired /\ Len(ports) \in Nat /\ Len(desired) \in Nat
  OBVIOUS
<1>2. f \in [P -> N] /\ \A x, y \in P : f[x] = f[y] => x = y
  BY <1>1 DEF UniqueNames, NamesOf, Range
<1>3. g \in [D -> N] /\ \A n \in N : \E i \in D : g[i] = n
  BY <1>1 DEF NamesOf, Range
<1>4. /\ IsFiniteSet(P) /\ Cardinality(P) = Len(ports)
      /\ IsFiniteSet(D) /\ Cardinality(D) = Len(desired)
  <2>1. \A n \in Nat : IsFiniteSet(1..n) /\ Cardinality(1..n) = n
    BY FS_Interval
  <2> QED BY <1>1, <2>1
<1> HIDE DEF P, D, N, f, g
<1>5. f \in Injection(P, N) /\ g \in Surjection(D, N)
  BY <1>2, <1>3, Fun_IsInj, Fun_IsSurj
<1>6. IsFiniteSet(N) /\ Cardinality(N) <= Len(desired)
  BY <1>4, <1>5, FS_Surjection
<1>7. Len(ports) <= Cardinality(N) /\ Cardinality(N) \in Nat
  BY <1>4, <1>5, <1>6, FS_Injection, FS_CardinalityType
<1> QED BY <1>1, <1>6, <1>7

\* Defaults are given to targets only, and only to those that are missing.
LEMMA DefaultTargetsAre ==
  ASSUME NEW np, NEW ports \in Seq(ServicePorts(np))
  PROVE  /\ DefaultTargets(ports) \in Seq(ServicePorts(np))
         /\ DOMAIN DefaultTargets(ports) = DOMAIN ports
         /\ \A i \in DOMAIN ports :
              /\ DefaultTargets(ports)[i].name = ports[i].name
              /\ DefaultTargets(ports)[i].port = ports[i].port
              /\ DefaultTargets(ports)[i].protocol = ports[i].protocol
              /\ DefaultTargets(ports)[i].nodePort = ports[i].nodePort
              /\ ports[i].port # 0 => DefaultTargets(ports)[i].target # Named("")
         /\ Targeted(ports) => DefaultTargets(ports) = ports
<1> DEFINE d == DefaultTargets(ports)
<1>1. /\ DOMAIN d = DOMAIN ports
      /\ \A i \in DOMAIN ports :
           d[i] = IF ports[i].target = Named("")
                  THEN [ports[i] EXCEPT !.target = Numbered(ports[i].port)] ELSE ports[i]
      /\ d = [i \in DOMAIN ports |-> d[i]]
  BY DEF DefaultTargets
<1> HIDE DEF d
<1>2. ASSUME NEW i \in DOMAIN ports
      PROVE  /\ d[i] \in ServicePorts(np) /\ d[i].name = ports[i].name
             /\ d[i].port = ports[i].port /\ d[i].protocol = ports[i].protocol
             /\ d[i].nodePort = ports[i].nodePort
             /\ ports[i].port # 0 => d[i].target # Named("")
  <2> DEFINE p == ports[i]
  <2>1. p \in ServicePorts(np)
    OBVIOUS
  <2> HIDE DEF p
  <2>2. Numbered(p.port) \in Targets
    BY <2>1 DEF Numbered, Targets, ServicePorts
  <2>3. p.port # 0 => Numbered(p.port) # Named("")
    <3>1. Numbered(p.port).number = p.port /\ Named("").number = 0
      BY DEF Numbered, Named
    <3> QED BY <3>1
  <2>4. CASE p.target = Named("")
    <3>1. d[i] = [p EXCEPT !.target = Numbered(p.port)]
      BY <1>1, <2>4 DEF p
    <3>2. /\ d[i] \in ServicePorts(np) /\ d[i].name = p.name /\ d[i].port = p.port
          /\ d[i].protocol = p.protocol /\ d[i].nodePort = p.nodePort
          /\ d[i].target = Numbered(p.port)
      BY <2>1, <2>2, <3>1 DEF ServicePorts
    <3> QED BY <2>3, <3>2 DEF p
  <2>5. CASE p.target # Named("")
    BY <1>1, <2>1, <2>5 DEF p
  <2> QED BY <2>4, <2>5
<1>3. d \in Seq(ServicePorts(np))
  <2>1. DOMAIN ports = 1..Len(ports) /\ Len(ports) \in Nat
    OBVIOUS
  <2>2. d \in [1..Len(ports) -> ServicePorts(np)]
    BY <1>1, <1>2, <2>1
  <2> QED BY <2>1, <2>2
<1>4. ASSUME \A p \in Range(ports) : p.target # Named("")
      PROVE  d = ports
  <2>1. \A i \in DOMAIN ports : d[i] = ports[i]
    BY <1>1, <1>4 DEF Range
  <2>2. ports = [i \in DOMAIN ports |-> ports[i]]
    OBVIOUS
  <2> QED BY <1>1, <2>1, <2>2
<1> QED BY <1>1, <1>2, <1>3, <1>4 DEF d, Targeted

\* Node ports change nothing else about a port.
LEMMA NodePortsOnly ==
  ASSUME NEW np, NEW ports \in Seq(ServicePorts(np))
  PROVE  /\ DOMAIN GiveNodePorts(ports) = DOMAIN ports
         /\ \A i \in DOMAIN ports :
              /\ GiveNodePorts(ports)[i].name = ports[i].name
              /\ GiveNodePorts(ports)[i].protocol = ports[i].protocol
              /\ GiveNodePorts(ports)[i].target = ports[i].target
<1> DEFINE given == CHOOSE f \in [DOMAIN ports -> NodePorts] :
                      \A i, j \in DOMAIN ports :
                         /\ f[i] = f[j] => i = j
                         /\ ports[i].nodePort \in {0, f[i]}
<1>1. GiveNodePorts(ports) = [i \in DOMAIN ports |-> [ports[i] EXCEPT !.nodePort = given[i]]]
  BY DEF GiveNodePorts
<1> HIDE DEF given
<1>2. \A i \in DOMAIN ports : ports[i] \in ServicePorts(np)
  OBVIOUS
<1>3. ASSUME NEW i \in DOMAIN ports
      PROVE  /\ GiveNodePorts(ports)[i].name = ports[i].name
             /\ GiveNodePorts(ports)[i].protocol = ports[i].protocol
             /\ GiveNodePorts(ports)[i].target = ports[i].target
  <2>1. GiveNodePorts(ports)[i] = [ports[i] EXCEPT !.nodePort = given[i]]
    BY <1>1
  <2> QED BY <1>2, <2>1 DEF ServicePorts
<1>4. DOMAIN GiveNodePorts(ports) = DOMAIN ports
  BY <1>1
<1> QED BY <1>3, <1>4

\* With enough node ports, each port of a Service for a load balancer has its own, and
\* keeps one it had.
LEMMA NodePortsGiven ==
  ASSUME NEW ports \in Seq(ServicePorts(NodePorts \cup {0})),
         Len(ports) <= Cardinality(NodePorts),
         \A i, j \in DOMAIN ports :
           ports[i].nodePort = ports[j].nodePort /\ ports[i].nodePort # 0 => i = j
  PROVE  /\ GiveNodePorts(ports) \in Seq(ServicePorts(NodePorts))
         /\ OwnNodePorts(GiveNodePorts(ports))
         /\ \A i \in DOMAIN ports :
              /\ ports[i].nodePort \in {0, GiveNodePorts(ports)[i].nodePort}
              /\ GiveNodePorts(ports)[i].port = ports[i].port
<1> DEFINE D == DOMAIN ports
           Fits(f) == \A i, j \in D : /\ f[i] = f[j] => i = j
                                      /\ ports[i].nodePort \in {0, f[i]}
           g == [i \in D |-> ports[i].nodePort]
<1>1. D = 1..Len(ports) /\ Len(ports) \in Nat
  OBVIOUS
<1>2. \A i \in D : ports[i] \in ServicePorts(NodePorts \cup {0})
  OBVIOUS
<1>3. IsFiniteSet(D) /\ Cardinality(D) = Len(ports)
  BY <1>1, FS_Interval
<1>4. g \in [D -> NodePorts \cup {0}]
  BY <1>2 DEF ServicePorts
<1>5. PICK f \in [D -> NodePorts] : \A i, j \in D : /\ f[i] = f[j] => i = j
                                                    /\ g[i] \in {0, f[i]}
  <2>1. \A i, j \in D : g[i] = g[j] /\ g[i] # 0 => i = j
    OBVIOUS
  <2> HIDE DEF g, D
  <2> QED BY <1>3, <1>4, <2>1, NodePortAssumption, Extension
<1>6. Fits(f)
  BY <1>5
<1>7. PICK given \in [D -> NodePorts] : Fits(given) /\ given = CHOOSE h \in [D -> NodePorts] : Fits(h)
  BY <1>6
<1>8. GiveNodePorts(ports) = [i \in D |-> [ports[i] EXCEPT !.nodePort = given[i]]]
  BY <1>7 DEF GiveNodePorts
<1> DEFINE r == GiveNodePorts(ports)
<1>9. ASSUME NEW i \in D
      PROVE  /\ r[i] \in ServicePorts(NodePorts) /\ r[i].nodePort = given[i]
             /\ r[i].port = ports[i].port
  <2>1. r[i] = [ports[i] EXCEPT !.nodePort = given[i]] /\ given[i] \in NodePorts
    BY <1>8
  <2> HIDE DEF r
  <2> QED BY <1>2, <2>1 DEF ServicePorts
<1>10. DOMAIN r = D /\ r = [i \in D |-> r[i]]
  BY <1>8
<1> HIDE DEF r
<1>11. r \in Seq(ServicePorts(NodePorts))
  <2>1. r \in [1..Len(ports) -> ServicePorts(NodePorts)]
    BY <1>1, <1>9, <1>10
  <2> QED BY <1>1, <2>1
<1>12. OwnNodePorts(r)
  <2>1. \A i, j \in D : given[i] = given[j] => i = j
    BY <1>7
  <2> HIDE DEF D
  <2>2. \A i, j \in DOMAIN r : r[i].nodePort = r[j].nodePort => i = j
    BY <1>9, <1>10, <2>1
  <2> QED BY <2>2 DEF OwnNodePorts
<1> QED BY <1>7, <1>9, <1>11, <1>12 DEF r

-----------------------------------------------------------------------------
(***************************************************************************)
(* Merged service ports                                                    *)
(***************************************************************************)

\* A port of the merged list is one the object had, with its number and node port, or a
\* desired one whose name the object had not; the list carries what is desired.
LEMMA ServiceMerged ==
  ASSUME NEW np, 0 \in np,
         NEW actual \in Seq(ServicePorts(np)), NEW desired \in Seq(ServicePorts({0}))
  PROVE  /\ MergeServicePorts(actual, desired) \in Seq(ServicePorts(np))
         /\ Consistent(desired) => Carries(MergeServicePorts(actual, desired), desired, Over)
         /\ \A q \in Range(MergeServicePorts(actual, desired)) :
              \/ \E p \in Range(actual) : /\ p.name = q.name /\ p.port = q.port
                                          /\ p.nodePort = q.nodePort
              \/ q \in Range(desired) /\ q.name \notin NamesOf(actual)
<1> DEFINE m == MergeServicePorts(actual, desired)
           S == ServicePorts(np)
<1>1. m = Merge(actual, desired, Over)
  BY DEF MergeServicePorts, Over
<1>2. ServicePorts({0}) \subseteq S
  BY DEF ServicePorts
<1>3. desired \in Seq(S)
  BY <1>2
<1>4. /\ \A p, q \in S : Updated(p, q, Over) \in S /\ Over \cup {"name"} \subseteq DOMAIN p
      /\ "name" \notin Over
  BY ServicePortUpdated
<1> HIDE DEF m, S
<1>5. m \in Seq(S)
  BY <1>1, <1>3, <1>4, MergeIs DEF S
<1>6. Range(m) =
        { Updated(p, ByName(desired, p.name), Over) :
            p \in { q \in Range(actual) : q.name \in NamesOf(desired) } }
        \cup { d \in Range(desired) : d.name \notin NamesOf(actual) }
  BY <1>1, <1>3, <1>4, MergeIs DEF S
<1>7. Consistent(desired) => Carries(m, desired, Over)
  BY <1>1, <1>3, <1>4, MergeCarries DEF S
<1>8. ASSUME NEW p \in Range(actual), NEW w
      PROVE  /\ Updated(p, w, Over).name = p.name
             /\ Updated(p, w, Over).port = p.port
             /\ Updated(p, w, Over).nodePort = p.nodePort
  <2>1. p \in S
    BY DEF Range, S
  <2> QED BY <2>1 DEF S, ServicePorts, Updated, Over
<1>9. ASSUME NEW q \in Range(m)
      PROVE  \/ \E p \in Range(actual) : /\ p.name = q.name /\ p.port = q.port
                                         /\ p.nodePort = q.nodePort
             \/ q \in Range(desired) /\ q.name \notin NamesOf(actual)
  <2>1. CASE \E p \in Range(actual) : q = Updated(p, ByName(desired, p.name), Over)
    BY <1>8, <2>1
  <2>2. CASE q \in Range(desired) /\ q.name \notin NamesOf(actual)
    BY <2>2
  <2> QED BY <1>6, <2>1, <2>2
<1> QED BY <1>5, <1>7, <1>9 DEF m, S

\* Where names are unique a port keeps number and node port, and node ports stay unique.
LEMMA AddressesKept ==
  ASSUME NEW np, 0 \in np,
         NEW actual \in Seq(ServicePorts(np)), NEW desired \in Seq(ServicePorts({0})),
         UniqueNames(actual)
  PROVE  LET m == MergeServicePorts(actual, desired)
         IN  /\ \A p \in Range(actual), q \in Range(m) :
                  p.name = q.name => p.port = q.port /\ p.nodePort = q.nodePort
             /\ (UniqueNames(m) /\ OwnNodePorts(actual)) =>
                  \A i, j \in DOMAIN m :
                    m[i].nodePort = m[j].nodePort /\ m[i].nodePort # 0 => i = j
<1> DEFINE m == MergeServicePorts(actual, desired)
<1>1. \A q \in Range(m) :
        \/ \E p \in Range(actual) : /\ p.name = q.name /\ p.port = q.port
                                    /\ p.nodePort = q.nodePort
        \/ q \in Range(desired) /\ q.name \notin NamesOf(actual)
  BY ServiceMerged
<1> HIDE DEF m
<1>2. \A p, q \in Range(actual) : p.name = q.name => p = q
  BY DEF UniqueNames, Range
<1>3. ASSUME NEW p \in Range(actual), NEW q \in Range(m), p.name = q.name
      PROVE  p.port = q.port /\ p.nodePort = q.nodePort
  <2>1. q.name \in NamesOf(actual)
    BY <1>3 DEF NamesOf
  <2>2. PICK r \in Range(actual) : /\ r.name = q.name /\ r.port = q.port
                                   /\ r.nodePort = q.nodePort
    BY <1>1, <2>1
  <2>3. r = p
    BY <1>2, <1>3, <2>2
  <2> QED BY <2>2, <2>3
<1>4. ASSUME UniqueNames(m), OwnNodePorts(actual), NEW i \in DOMAIN m, NEW j \in DOMAIN m,
             m[i].nodePort = m[j].nodePort, m[i].nodePort # 0
      PROVE  i = j
  <2>1. \A d \in Range(desired) : d.nodePort = 0
    <3>1. \A d \in Range(desired) : d \in ServicePorts({0})
      BY DEF Range
    <3> QED BY <3>1 DEF ServicePorts
  <2>2. m[i] \in Range(m) /\ m[j] \in Range(m)
    BY DEF Range
  <2>3. PICK p \in Range(actual) : p.name = m[i].name /\ p.nodePort = m[i].nodePort
    BY <1>1, <1>4, <2>1, <2>2
  <2>4. PICK q \in Range(actual) : q.name = m[j].name /\ q.nodePort = m[j].nodePort
    BY <1>1, <1>4, <2>1, <2>2
  <2>5. p = q
    BY <1>4, <2>3, <2>4 DEF OwnNodePorts, Range
  <2> QED BY <1>4, <2>3, <2>4, <2>5 DEF UniqueNames
<1> QED BY <1>3, <1>4 DEF m

\* What carries desired ports that all have names has nothing that lacks a target.
LEMMA NothingToDefault ==
  ASSUME NEW np, NEW ports \in Seq(ServicePorts(np)), NEW desired \in Seq(ServicePorts({0})),
         Carries(ports, desired, Over), "" \notin NamesOf(desired),
         \A p \in Range(desired) : p.target = Named(p.name)
  PROVE  DefaultTargets(ports) = ports
<1>1. ASSUME NEW p \in Range(ports)
      PROVE  p.target # Named("")
  <2>1. p.name \in NamesOf(desired) /\ p.target = ByName(desired, p.name).target
    BY DEF Carries, Over, NamesOf
  <2>2. ByName(desired, p.name) \in Range(desired) /\ ByName(desired, p.name).name = p.name
    BY <2>1, ByNameIs
  <2>3. p.target = Named(p.name) /\ p.name # ""
    BY <2>1, <2>2
  <2>4. Named(p.name).name = p.name /\ Named("").name = ""
    BY DEF Named
  <2> QED BY <2>3, <2>4
<1> QED BY <1>1, DefaultTargetsAre DEF Targeted

\* What carries the desired ports still does once it has node ports.
LEMMA NodePortsCarry ==
  ASSUME NEW np, NEW ports \in Seq(ServicePorts(np)), NEW desired,
         Carries(ports, desired, Over)
  PROVE  Carries(GiveNodePorts(ports), desired, Over)
<1> DEFINE g == GiveNodePorts(ports)
<1>1. /\ DOMAIN g = DOMAIN ports
      /\ \A i \in DOMAIN ports : /\ g[i].name = ports[i].name
                                 /\ g[i].protocol = ports[i].protocol
                                 /\ g[i].target = ports[i].target
  BY NodePortsOnly
<1> HIDE DEF g
<1>2. NamesOf(g) = NamesOf(ports)
  BY <1>1 DEF NamesOf, Range
<1>3. ASSUME NEW q \in Range(g), NEW f \in Over
      PROVE  q[f] = ByName(desired, q.name)[f]
  <2>1. PICK i \in DOMAIN ports : q = g[i]
    BY <1>1 DEF Range
  <2>2. ports[i] \in Range(ports)
    BY DEF Range
  <2>3. ports[i][f] = ByName(desired, ports[i].name)[f]
    BY <2>2 DEF Carries
  <2>4. q[f] = ports[i][f] /\ q.name = ports[i].name
    BY <1>1, <2>1 DEF Over
  <2> QED BY <2>3, <2>4
<1> QED BY <1>2, <1>3 DEF Carries, g

-----------------------------------------------------------------------------
(***************************************************************************)
(* What each stage stores                                                  *)
(***************************************************************************)

\* What a stage may find: no object, or one with unique names and node ports.
Found(k) ==
  { o \in ObjectsOf(k) \cup {NoObj} :
      /\ k \in {"Service", "LBService"} => UniqueNames(PortsOf(o))
      /\ k = "LBService" => OwnNodePorts(PortsOf(o)) }

\* The objects of each kind.
LEMMA ObjectKinds ==
  /\ ObjectsOf("Service") = [ports : Seq(ServicePorts({0}))]
  /\ ObjectsOf("LBService") =
       [host  : { s.loadBalancer.host : s \in { t \in Specs : t.loadBalancer # Off } },
        ports : Seq(ServicePorts(NodePorts))]
  /\ ObjectsOf("PodMonitor") = [port : STRING \ {""}, path : MetricsPaths \ {""}]
  /\ ObjectsOf("IngressRoute") = [routes : Seq(RoutesTo)]
  /\ ObjectsOf("CronJob") = [schedule : { s.cronJob : s \in Specs }, container : Containers,
                             security : Nat]
  /\ ObjectsOf("Deployment") = [ports : Seq(ContainerPorts), container : Containers,
                                hostNetwork : BOOLEAN, security : Nat]
BY DEF ObjectsOf

\* The ports of what a stage may find.
LEMMA FoundPorts ==
  /\ \A o \in Found("Service") : PortsOf(o) \in Seq(ServicePorts({0})) /\ UniqueNames(PortsOf(o))
  /\ \A o \in Found("LBService") : /\ PortsOf(o) \in Seq(ServicePorts(NodePorts))
                                   /\ UniqueNames(PortsOf(o)) /\ OwnNodePorts(PortsOf(o))
  /\ \A o \in Found("Deployment") : PortsOf(o) \in Seq(ContainerPorts)
<1>1. ASSUME NEW o \in Found("Service")
      PROVE  PortsOf(o) \in Seq(ServicePorts({0})) /\ UniqueNames(PortsOf(o))
  <2>1. o = NoObj \/ o \in [ports : Seq(ServicePorts({0}))]
    BY DEF Found, ObjectsOf
  <2> QED BY <2>1 DEF Found, PortsOf
<1>2. ASSUME NEW o \in Found("LBService")
      PROVE  /\ PortsOf(o) \in Seq(ServicePorts(NodePorts))
             /\ UniqueNames(PortsOf(o)) /\ OwnNodePorts(PortsOf(o))
  <2> DEFINE H == { s.loadBalancer.host : s \in { t \in Specs : t.loadBalancer # Off } }
  <2>1. o = NoObj \/ o \in [host : H, ports : Seq(ServicePorts(NodePorts))]
    BY DEF Found, ObjectsOf
  <2> HIDE DEF H
  <2>2. PortsOf(o) \in Seq(ServicePorts(NodePorts))
    BY <2>1 DEF PortsOf
  <2> QED BY <2>2 DEF Found
<1>3. ASSUME NEW o \in Found("Deployment")
      PROVE  PortsOf(o) \in Seq(ContainerPorts)
  <2>1. o = NoObj \/ o \in [ports : Seq(ContainerPorts), container : Containers,
                            hostNetwork : BOOLEAN, security : Nat]
    BY DEF Found, ObjectsOf
  <2> QED BY <2>1 DEF PortsOf
<1> QED BY <1>1, <1>2, <1>3

\* The Service that is stored has a target for each port and keeps the addresses of the
\* one that was; if ports have names, it carries those of the spec.
LEMMA ServiceStored ==
  ASSUME NEW s \in Specs, NEW o \in Found("Service")
  PROVE  LET new == Service(s, o)
             st  == Stored("Service", new)
         IN  /\ PortsNamed => /\ st = new
                              /\ new = [ports |-> new.ports]
                              /\ new.ports \in Seq(ServicePorts({0}))
                              /\ Carries(new.ports, ServiceDesired(s), Over)
             /\ ValidServicePorts(new.ports) =>
                  /\ st \in Found("Service") /\ st # NoObj
                  /\ Targeted(st.ports)
                  /\ \A p \in Range(PortsOf(o)), q \in Range(PortsOf(st)) :
                       p.name = q.name => p.port = q.port /\ p.nodePort = q.nodePort
<1> DEFINE a == PortsOf(o)
           d == ServiceDesired(s)
           m == MergeServicePorts(a, d)
           e == DefaultTargets(m)
           new == Service(s, o)
           st == Stored("Service", new)
<1>1. a \in Seq(ServicePorts({0})) /\ UniqueNames(a)
  BY FoundPorts
<1>2. d \in Seq(ServicePorts({0}))
  BY ServiceDesiredIs
<1>3. new = [ports |-> m]
  BY DEF Service, ServiceDesired
<1>4. st = [ports |-> e]
  BY <1>3 DEF Stored
<1> HIDE DEF a, d, m, e
<1>5. m \in Seq(ServicePorts({0}))
  BY <1>1, <1>2, ServiceMerged DEF m
<1>6. ASSUME PortsNamed
      PROVE  e = m /\ Carries(m, d, Over)
  <2>1. Carries(m, d, Over)
    BY <1>1, <1>2, <1>6, ServiceMerged, ServiceDesiredIs DEF m, d
  <2>2. "" \notin NamesOf(d) /\ \A p \in Range(d) : p.target = Named(p.name)
    BY <1>6, ServiceDesiredIs, SpecPorts DEF d
  <2> QED BY <1>2, <1>5, <2>1, <2>2, NothingToDefault DEF e
<1>7. ASSUME ValidServicePorts(m)
      PROVE  /\ st \in Found("Service") /\ st # NoObj
             /\ Targeted(e)
             /\ \A p \in Range(a), q \in Range(e) :
                  p.name = q.name => p.port = q.port /\ p.nodePort = q.nodePort
  <2>1. /\ e \in Seq(ServicePorts({0})) /\ DOMAIN e = DOMAIN m
        /\ \A i \in DOMAIN m : /\ e[i].name = m[i].name /\ e[i].port = m[i].port
                               /\ e[i].nodePort = m[i].nodePort
                               /\ m[i].port # 0 => e[i].target # Named("")
    BY <1>5, DefaultTargetsAre DEF e
  <2>2. \A i \in DOMAIN m : m[i].port # 0 /\ m[i] \in Range(m)
    BY <1>7 DEF ValidServicePorts, Range
  <2>3. ASSUME NEW p \in Range(e)
        PROVE  p.target # Named("")
    <3>1. PICK i \in DOMAIN m : p = e[i]
      BY <2>1 DEF Range
    <3> QED BY <2>1, <2>2, <3>1
  <2>4. \A p \in Range(a), q \in Range(m) :
          p.name = q.name => p.port = q.port /\ p.nodePort = q.nodePort
    BY <1>1, <1>2, AddressesKept DEF m
  <2>5. ASSUME NEW p \in Range(a), NEW q \in Range(e), p.name = q.name
        PROVE  p.port = q.port /\ p.nodePort = q.nodePort
    <3>1. PICK i \in DOMAIN m : q = e[i]
      BY <2>1 DEF Range
    <3>2. m[i] \in Range(m) /\ p.name = m[i].name
      BY <2>1, <2>2, <2>5, <3>1
    <3> QED BY <2>1, <2>4, <3>1, <3>2
  <2>6. UniqueNames(e)
    BY <1>7, <2>1 DEF UniqueNames, ValidServicePorts
  <2>7. st \in ObjectsOf("Service")
    BY <1>4, <2>1, ObjectKinds
  <2>8. st # NoObj /\ PortsOf(st) = e
    BY <1>4, <2>7, NoObjAssumption DEF Kinds, Order, PortsOf
  <2>9. st \in Found("Service")
    BY <2>6, <2>7, <2>8 DEF Found
  <2> QED BY <2>3, <2>5, <2>8, <2>9 DEF Targeted
<1>8. new.ports = m /\ (st = NoObj \/ PortsOf(st) = e)
  BY <1>3, <1>4 DEF PortsOf
<1> HIDE DEF new, st
<1>9. PortsNamed => /\ st = new /\ new = [ports |-> new.ports]
                    /\ new.ports \in Seq(ServicePorts({0}))
                    /\ Carries(new.ports, d, Over)
  BY <1>3, <1>4, <1>5, <1>6, <1>8
<1>10. ValidServicePorts(new.ports) =>
         /\ st \in Found("Service") /\ st # NoObj
         /\ Targeted(st.ports)
         /\ \A p \in Range(a), q \in Range(PortsOf(st)) :
              p.name = q.name => p.port = q.port /\ p.nodePort = q.nodePort
  BY <1>4, <1>7, <1>8
<1> QED BY <1>9, <1>10 DEF new, st, a, d

\* The Service for a load balancer that is stored has a target and a node port of its own
\* for each port and keeps the addresses of the one that was; if ports have names, it
\* carries those that the spec names.
LEMMA LBServiceStored ==
  ASSUME NEW s \in Specs, s.loadBalancer # Off, NEW o \in Found("LBService"),
         Range(s.loadBalancer.portNames) \subseteq NamesOf(s.ports)
  PROVE  LET new == LBService(s, o)
             st  == Stored("LBService", new)
         IN  /\ PortsNamed => /\ st = [host |-> s.loadBalancer.host, ports |-> st.ports]
                              /\ Carries(st.ports, BalancedDesired(s), Over)
             /\ ValidServicePorts(new.ports) =>
                  /\ st \in Found("LBService") /\ st # NoObj
                  /\ Targeted(st.ports)
                  /\ \A p \in Range(PortsOf(o)), q \in Range(PortsOf(st)) :
                       p.name = q.name => p.port = q.port /\ p.nodePort = q.nodePort
<1> DEFINE np == NodePorts \cup {0}
           host == s.loadBalancer.host
           a == PortsOf(o)
           d == BalancedDesired(s)
           m == MergeServicePorts(a, d)
           e == DefaultTargets(m)
           g == GiveNodePorts(e)
           new == LBService(s, o)
           st == Stored("LBService", new)
<1>1. a \in Seq(ServicePorts(NodePorts)) /\ UniqueNames(a) /\ OwnNodePorts(a)
  BY FoundPorts
<1>2. a \in Seq(ServicePorts(np))
  <2>1. ServicePorts(NodePorts) \subseteq ServicePorts(np)
    BY DEF ServicePorts
  <2> HIDE DEF a, np
  <2> QED BY <1>1, <2>1
<1>3. /\ d \in Seq(ServicePorts({0})) /\ Len(d) <= Cardinality(NodePorts)
      /\ NamesOf(d) \subseteq NamesOf(s.ports)
      /\ \A p \in Range(d) : p.target = Named(p.name)
      /\ Consistent(d)
  BY BalancedDesiredIs
<1>4. new = [host |-> host, ports |-> m]
  BY DEF LBService, BalancedDesired
<1>5. st = [host |-> host, ports |-> g]
  BY <1>4 DEF Stored
<1>6. 0 \in np
  OBVIOUS
<1> HIDE DEF np, a, d, m, e, g
<1>7. m \in Seq(ServicePorts(np)) /\ Carries(m, d, Over)
  BY <1>2, <1>3, <1>6, ServiceMerged DEF m
<1>8. /\ e \in Seq(ServicePorts(np)) /\ DOMAIN e = DOMAIN m
      /\ \A i \in DOMAIN m : /\ e[i].name = m[i].name /\ e[i].port = m[i].port
                             /\ e[i].nodePort = m[i].nodePort
                             /\ m[i].port # 0 => e[i].target # Named("")
  BY <1>7, DefaultTargetsAre DEF e
<1>9. ASSUME PortsNamed
      PROVE  Carries(g, d, Over)
  <2>1. "" \notin NamesOf(d)
    BY <1>3, <1>9, SpecPorts
  <2>2. e = m
    BY <1>3, <1>7, <2>1, NothingToDefault DEF e
  <2> QED BY <1>7, <2>2, NodePortsCarry DEF g
<1>10. ASSUME ValidServicePorts(m)
       PROVE  /\ st \in Found("LBService") /\ st # NoObj
              /\ Targeted(g)
              /\ \A p \in Range(a), q \in Range(g) :
                   p.name = q.name => p.port = q.port /\ p.nodePort = q.nodePort
  <2>1. \A i \in DOMAIN m : m[i].port # 0 /\ m[i] \in Range(m)
    BY <1>10 DEF ValidServicePorts, Range
  <2>2. UniqueNames(m)
    BY <1>10 DEF UniqueNames, ValidServicePorts
  <2>3. /\ \A p \in Range(a), q \in Range(m) :
             p.name = q.name => p.port = q.port /\ p.nodePort = q.nodePort
        /\ \A i, j \in DOMAIN m : m[i].nodePort = m[j].nodePort /\ m[i].nodePort # 0 => i = j
    BY <1>1, <1>2, <1>3, <1>6, <2>2, AddressesKept DEF m
  <2>4. \A i, j \in DOMAIN e : e[i].nodePort = e[j].nodePort /\ e[i].nodePort # 0 => i = j
    BY <1>8, <2>3
  <2>5. Len(e) <= Cardinality(NodePorts)
    <3>1. NamesOf(m) = NamesOf(d)
      BY <1>7 DEF Carries
    <3>2. d \in Seq(ServicePorts(np))
      <4>1. ServicePorts({0}) \subseteq ServicePorts(np)
        BY DEF ServicePorts, np
      <4> QED BY <1>3, <4>1
    <3>3. Len(m) <= Len(d)
      BY <1>7, <2>2, <3>1, <3>2, UniqueNamesFew
    <3>4. Len(e) = Len(m) /\ Len(m) \in Nat /\ Len(d) \in Nat
      <4>1. Len(e) \in Nat /\ Len(m) \in Nat /\ 1..Len(e) = 1..Len(m)
        <5>1. DOMAIN e = 1..Len(e) /\ Len(e) \in Nat
          <6>1. e \in Seq(ServicePorts(np))
            BY <1>8
          <6> QED BY <6>1
        <5>2. DOMAIN m = 1..Len(m) /\ Len(m) \in Nat
          BY <1>7
        <5> QED BY <1>8, <5>1, <5>2
      <4>2. \A n \in Nat : Cardinality(1..n) = n
        BY FS_Interval
      <4> QED BY <1>3, <4>1, <4>2
    <3>5. Cardinality(NodePorts) \in Nat
      BY NodePortAssumption, FS_CardinalityType
    <3> QED BY <1>3, <3>3, <3>4, <3>5
  <2>6. /\ g \in Seq(ServicePorts(NodePorts)) /\ OwnNodePorts(g)
        /\ \A i \in DOMAIN e : /\ e[i].nodePort \in {0, g[i].nodePort}
                               /\ g[i].port = e[i].port
    BY <1>8, <2>4, <2>5, NodePortsGiven DEF g, np
  <2>7. /\ DOMAIN g = DOMAIN e
        /\ \A i \in DOMAIN e : g[i].name = e[i].name /\ g[i].target = e[i].target
    BY <1>8, NodePortsOnly DEF g
  <2>8. ASSUME NEW q \in Range(g)
        PROVE  q.target # Named("")
    <3>1. PICK i \in DOMAIN m : q = g[i]
      BY <1>8, <2>7 DEF Range
    <3> QED BY <1>8, <2>1, <2>7, <3>1
  <2>9. ASSUME NEW p \in Range(a), NEW q \in Range(g), p.name = q.name
        PROVE  p.port = q.port /\ p.nodePort = q.nodePort
    <3>1. PICK i \in DOMAIN m : q = g[i]
      BY <1>8, <2>7 DEF Range
    <3>2. m[i] \in Range(m) /\ p.name = m[i].name
      BY <1>8, <2>1, <2>7, <2>9, <3>1
    <3>3. p.port = m[i].port /\ p.nodePort = m[i].nodePort
      BY <2>3, <3>2
    <3>4. p.nodePort # 0
      <4>1. p \in ServicePorts(NodePorts)
        BY <1>1 DEF Range
      <4> QED BY <4>1, NodePortAssumption DEF ServicePorts
    <3> QED BY <1>8, <2>6, <3>1, <3>3, <3>4
  <2>10. UniqueNames(g)
    <3>1. \A i \in DOMAIN g : i \in DOMAIN m /\ g[i].name = m[i].name
      BY <1>8, <2>7
    <3>2. \A i, j \in DOMAIN g : g[i].name = g[j].name => i = j
      BY <2>2, <3>1 DEF UniqueNames
    <3> QED BY <3>2 DEF UniqueNames
  <2>11. st \in ObjectsOf("LBService")
    <3> DEFINE H == { t.loadBalancer.host : t \in { u \in Specs : u.loadBalancer # Off } }
    <3>1. host \in H
      OBVIOUS
    <3>2. ObjectsOf("LBService") = [host : H, ports : Seq(ServicePorts(NodePorts))]
      BY ObjectKinds
    <3> HIDE DEF H
    <3> QED BY <1>5, <2>6, <3>1, <3>2
  <2>12. st # NoObj /\ PortsOf(st) = g
    BY <1>5, <2>11, NoObjAssumption DEF Kinds, Order, PortsOf
  <2>13. st \in Found("LBService")
    BY <2>6, <2>10, <2>11, <2>12 DEF Found
  <2> QED BY <2>8, <2>9, <2>12, <2>13 DEF Targeted
<1>11. new.ports = m /\ st.ports = g /\ (st = NoObj \/ PortsOf(st) = g)
  BY <1>4, <1>5 DEF PortsOf
<1> HIDE DEF new, st, host
<1>12. PortsNamed => /\ st = [host |-> host, ports |-> st.ports]
                     /\ Carries(st.ports, d, Over)
  BY <1>5, <1>9, <1>11
<1>13. ValidServicePorts(new.ports) =>
         /\ st \in Found("LBService") /\ st # NoObj
         /\ Targeted(st.ports)
         /\ \A p \in Range(a), q \in Range(PortsOf(st)) :
              p.name = q.name => p.port = q.port /\ p.nodePort = q.nodePort
  BY <1>10, <1>11
<1> QED BY <1>12, <1>13 DEF new, st, a, d, host

\* The security context of a spec or an object is a number.
LEMMA SecurityIs ==
  ASSUME NEW s \in Specs, NEW o, o # NoObj => o.security \in Nat
  PROVE  Security(s, o) \in Nat /\ s.pod \in Nat /\ s.hostNetwork \in BOOLEAN
BY SpecAssumption DEF Security

\* The CronJob that is stored is complete.
LEMMA CronJobStored ==
  ASSUME NEW s \in Specs, NEW o \in Found("CronJob")
  PROVE  LET st == Stored("CronJob", CronJob(s, o))
         IN  /\ st \in Found("CronJob") /\ st # NoObj
             /\ st.schedule = s.cronJob /\ st.container = Completed(Bare(s.pod))
             /\ DOMAIN st = {"schedule", "container", "security"}
<1> DEFINE st == Stored("CronJob", CronJob(s, o))
           sec == Security(s, o)
           H == { t.cronJob : t \in Specs }
<1>1. o = NoObj \/ o \in [schedule : H, container : Containers, security : Nat]
  BY ObjectKinds DEF Found
<1>2. sec \in Nat /\ s.pod \in Nat
  BY <1>1, SecurityIs
<1>3. st = [schedule |-> s.cronJob, container |-> Completed(Bare(s.pod)), security |-> sec]
  BY DEF Stored, CronJob
<1>4. Completed(Bare(s.pod)) \in Containers
  BY <1>2 DEF Completed, Bare, Containers
<1> HIDE DEF st, sec
<1>5. st \in ObjectsOf("CronJob")
  BY <1>2, <1>3, <1>4, ObjectKinds
<1>6. st # NoObj
  BY <1>5, NoObjAssumption DEF Kinds, Order
<1> QED BY <1>3, <1>5, <1>6 DEF Found, st

\* The Deployment that is stored is complete, as its mutator makes it; if ports have
\* names, it carries those of the spec.
LEMMA DeploymentStored ==
  ASSUME NEW s \in Specs, NEW o \in Found("Deployment")
  PROVE  LET st == Stored("Deployment", Deployment(s, o))
         IN  /\ st \in Found("Deployment") /\ st # NoObj
             /\ st.container = Completed(Bare(s.pod))
             /\ s.hostNetwork => st.hostNetwork
             /\ s.security # 0 => st.security = s.security
             /\ PortsNamed => Carries(st.ports, s.ports, ContainerOver)
             /\ DOMAIN st = {"ports", "container", "hostNetwork", "security"}
<1> DEFINE st == Stored("Deployment", Deployment(s, o))
           sec == Security(s, o)
           net == s.hostNetwork \/ (o # NoObj /\ o.hostNetwork)
           a == PortsOf(o)
           m == MergeContainerPorts(a, s.ports)
<1>1. o = NoObj \/ o \in [ports : Seq(ContainerPorts), container : Containers,
                          hostNetwork : BOOLEAN, security : Nat]
  BY ObjectKinds DEF Found
<1>2. sec \in Nat /\ s.pod \in Nat /\ s.hostNetwork \in BOOLEAN
  BY <1>1, SecurityIs
<1>3. net \in BOOLEAN /\ (s.hostNetwork => net)
  BY <1>2
<1>4. st = [ports |-> m, container |-> Completed(Bare(s.pod)), hostNetwork |-> net,
            security |-> sec]
  BY DEF Stored, Deployment, Completed, Bare
<1>5. Completed(Bare(s.pod)) \in Containers
  BY <1>2 DEF Completed, Bare, Containers
<1>6. a \in Seq(ContainerPorts) /\ s.ports \in Seq(ContainerPorts)
  BY FoundPorts, SpecPorts
<1>7. m = Merge(a, s.ports, ContainerOver)
  BY DEF MergeContainerPorts, ContainerOver
<1>8. s.security # 0 => sec = s.security
  BY DEF Security
<1> HIDE DEF st, sec, net, a, m
<1>9. m \in Seq(ContainerPorts)
  BY <1>6, <1>7, ContainerPortUpdated, MergeIs
<1>10. PortsNamed => Carries(m, s.ports, ContainerOver)
  BY <1>6, <1>7, SpecPorts, ContainerPortUpdated, MergeCarries
<1>11. st \in ObjectsOf("Deployment")
  BY <1>2, <1>3, <1>4, <1>5, <1>9, ObjectKinds
<1>12. st # NoObj
  BY <1>11, NoObjAssumption DEF Kinds, Order
<1> QED BY <1>3, <1>4, <1>8, <1>10, <1>11, <1>12 DEF Found, st

\* A port that is guessed is one of the spec.
LEMMA GuessIs ==
  ASSUME NEW s \in Specs, NEW names
  PROVE  Guess(s.ports, names) = "" \/ Guess(s.ports, names) \in NamesOf(s.ports)
<1> DEFINE found == Selected(s.ports, names)
<1>1. found \in Seq(ContainerPorts) /\ Range(found) \subseteq Range(s.ports)
  BY SpecPorts, SelectedIs
<1>2. Guess(s.ports, names) = IF found = << >> THEN "" ELSE found[1].name
  BY DEF Guess
<1> HIDE DEF found
<1>3. CASE found # << >>
  <2>1. found[1] \in Range(found)
    BY <1>1, <1>3 DEF Range
  <2> QED BY <1>1, <1>2, <1>3, <2>1 DEF NamesOf
<1> QED BY <1>2, <1>3

\* The port of a route or monitor is the one named or, where none is, one of the spec.
LEMMA PortNameIs ==
  ASSUME NEW s \in Specs, NEW explicit \in STRING, NEW names
  PROVE  LET port == PortName(explicit, s.ports, names)
         IN  /\ port \in STRING
             /\ explicit = "" => port = "" \/ port \in NamesOf(s.ports)
<1>1. NamesOf(s.ports) \subseteq STRING
  BY SpecPorts
<1> QED BY <1>1, GuessIs DEF PortName

\* A PodMonitor has a port and a path.
LEMMA PodMonitorStored ==
  ASSUME NEW s \in Specs, s.metrics # Off, PodMonitor(s) # Refused
  PROVE  PodMonitor(s) \in Found("PodMonitor") /\ PodMonitor(s) # NoObj
<1> DEFINE port == PortName(s.metrics.portName, s.ports, {"metrics", "prometheus"})
           path == IF s.metrics.path = "" THEN "/metrics" ELSE s.metrics.path
<1>1. s.metrics.portName \in STRING
  BY SpecAssumption DEF IsMetrics
<1>2. port \in STRING /\ path \in MetricsPaths /\ path # ""
  <2>1. port \in STRING
    BY <1>1, PortNameIs
  <2>2. path \in MetricsPaths
    BY DEF MetricsPaths
  <2> QED BY <2>1, <2>2
<1>3. port # "" /\ PodMonitor(s) = [port |-> port, path |-> path]
  BY DEF PodMonitor
<1> HIDE DEF port, path
<1>4. PodMonitor(s) \in ObjectsOf("PodMonitor")
  BY <1>2, <1>3, ObjectKinds
<1>5. PodMonitor(s) # NoObj
  BY <1>4, NoObjAssumption DEF Kinds, Order
<1> QED BY <1>4, <1>5 DEF Found

\* An IngressRoute has routes to ports with names or numbers that are not empty; this is
\* what they are.
LEMMA IngressRouteStored ==
  ASSUME NEW s \in Specs, s.ingress # Off, NEW c \in Configs, IngressRoute(s, c) # Refused
  PROVE  /\ IngressRoute(s, c) \in Found("IngressRoute")
         /\ IngressRoute(s, c) # NoObj
         /\ LET port == PortName(s.ingress.portName, s.ports, {"http", "web"})
            IN  port # "" /\ IngressRoute(s, c) = [routes |-> Routes(s, c, port)]
<1> DEFINE port == PortName(s.ingress.portName, s.ports, {"http", "web"})
           ing == s.ingress
           ms == IF ing.middlewares # << >> THEN ing.middlewares ELSE c.middlewares
           Route(rule, mw, svc, p) ==
             [rule |-> rule, middlewares |-> mw, service |-> svc, port |-> p]
           Rules == [on : {"any", "prefix", "exact"}, path : Seq(STRING)]
<1>1. /\ ing.portName \in STRING /\ ing.middlewares \in Seq(STRING)
      /\ ing.auth # Off => ing.auth \in Seq(Seq(STRING) \ {<< >>})
  BY SpecAssumption DEF IsIngress
<1>2. /\ c.authPrefix \in Seq(STRING) /\ c.middlewares \in Seq(STRING)
      /\ c.authService \in STRING /\ c.authPort \in STRING /\ c.authMiddleware \in STRING
  BY SpecAssumption DEF IsConfig
<1>3. port \in STRING
  BY <1>1, PortNameIs
<1>4. /\ port # "" /\ IngressRoute(s, c) = [routes |-> Routes(s, c, port)]
      /\ ing.auth # Off => c.authPort # ""
  BY DEF IngressRoute, AuthValid
<1>5. ms \in Seq(STRING)
  BY <1>1, <1>2
<1> HIDE DEF port, ms
<1>6. /\ AnyPath \in Rules
      /\ \A p \in Seq(STRING) : PathPrefix(p) \in Rules /\ RuleFor(p) \in Rules
  BY DEF AnyPath, PathPrefix, RuleFor, Path
<1>7. Routes(s, c, port) =
        IF ing.auth = Off
        THEN << Route(AnyPath, ms, "app", port) >>
        ELSE << Route(PathPrefix(c.authPrefix), ms, c.authService, c.authPort) >>
               \o [i \in DOMAIN ing.auth |-> Route(RuleFor(ing.auth[i]), ms, "app", port)]
               \o << Route(AnyPath, Append(ms, c.authMiddleware), "app", port) >>
  BY DEF Routes, ms
<1>8. \A rule \in Rules, mw \in Seq(STRING), svc \in {"app", c.authService},
         p \in STRING \ {""} : Route(rule, mw, svc, p) \in RoutesTo
  BY DEF RoutesTo
<1> HIDE DEF Route, Rules
<1>9. Routes(s, c, port) \in Seq(RoutesTo)
  <2>1. CASE ing.auth = Off
    <3>1. Route(AnyPath, ms, "app", port) \in RoutesTo
      BY <1>3, <1>4, <1>5, <1>6, <1>8
    <3> QED BY <1>7, <2>1, <3>1
  <2>2. CASE ing.auth # Off
    <3> DEFINE r == Route(PathPrefix(c.authPrefix), ms, c.authService, c.authPort)
               x == [i \in DOMAIN ing.auth |-> Route(RuleFor(ing.auth[i]), ms, "app", port)]
               z == Route(AnyPath, Append(ms, c.authMiddleware), "app", port)
    <3>1. r \in RoutesTo
      BY <1>2, <1>4, <1>5, <1>6, <1>8, <2>2
    <3>2. z \in RoutesTo
      <4>1. Append(ms, c.authMiddleware) \in Seq(STRING)
        BY <1>2, <1>5
      <4> QED BY <1>3, <1>4, <1>6, <1>8, <4>1
    <3>3. x \in Seq(RoutesTo)
      <4>1. ing.auth \in Seq(Seq(STRING) \ {<< >>})
        BY <1>1, <2>2
      <4>2. DOMAIN ing.auth = 1..Len(ing.auth) /\ Len(ing.auth) \in Nat
        BY <4>1
      <4>3. ASSUME NEW i \in DOMAIN ing.auth
            PROVE  Route(RuleFor(ing.auth[i]), ms, "app", port) \in RoutesTo
        <5>1. ing.auth[i] \in Seq(STRING)
          BY <4>1
        <5> QED BY <1>3, <1>4, <1>5, <1>6, <1>8, <5>1
      <4>4. x \in [1..Len(ing.auth) -> RoutesTo]
        BY <4>2, <4>3
      <4> HIDE DEF x
      <4> QED BY <4>2, <4>4
    <3>4. Routes(s, c, port) = << r >> \o x \o << z >>
      BY <1>7, <2>2
    <3> HIDE DEF r, x, z
    <3>5. << r >> \in Seq(RoutesTo) /\ << z >> \in Seq(RoutesTo)
      BY <3>1, <3>2
    <3> QED BY <3>3, <3>4, <3>5
  <2> QED BY <2>1, <2>2
<1>10. IngressRoute(s, c) \in ObjectsOf("IngressRoute")
  BY <1>4, <1>9, ObjectKinds
<1>11. IngressRoute(s, c) # NoObj
  BY <1>10, NoObjAssumption DEF Kinds, Order
<1> QED BY <1>4, <1>10, <1>11 DEF Found, port

-----------------------------------------------------------------------------
(***************************************************************************)
(* The invariant                                                           *)
(***************************************************************************)

\* The order of the stages.
LEMMA OrderIs ==
  /\ Len(Order) = 6 /\ DOMAIN Order = 1..6
  /\ \A i \in 1..6 : Order[i] \in Kinds
  /\ \A k \in Kinds : \E i \in 1..6 : Order[i] = k
  /\ Kinds = {"Service", "LBService", "PodMonitor", "IngressRoute", "CronJob", "Deployment"}
<1>1. /\ Len(Order) = 6 /\ DOMAIN Order = 1..6
      /\ Order[1] = "Service" /\ Order[2] = "LBService" /\ Order[3] = "PodMonitor"
      /\ Order[4] = "IngressRoute" /\ Order[5] = "CronJob" /\ Order[6] = "Deployment"
  BY DEF Order
<1>2. \A i \in 1..6 : i = 1 \/ i = 2 \/ i = 3 \/ i = 4 \/ i = 5 \/ i = 6
  OBVIOUS
<1>3. {1, 2, 3, 4, 5, 6} = DOMAIN Order
  BY <1>1, <1>2
<1>4. Kinds = {Order[1], Order[2], Order[3], Order[4], Order[5], Order[6]}
  BY <1>3 DEF Kinds
<1>5. \A k \in Kinds : \E i \in 1..6 : Order[i] = k
  BY <1>1 DEF Kinds
<1>6. \A i \in 1..6 : Order[i] \in Kinds
  BY <1>1 DEF Kinds
<1> QED BY <1>1, <1>4, <1>5, <1>6

\* The kinds whose objects have merged ports.
Ported == {"Service", "LBService", "Deployment"}

\* o is what the spec s and the flags c make of an object of kind k, but for what the
\* merges and builders keep and the API server gives.
Made(k, s, c, o) ==
  CASE k = "Service"      -> Carries(o.ports, ServiceDesired(s), Over)
    [] k = "LBService"    -> /\ Range(s.loadBalancer.portNames) \subseteq NamesOf(s.ports)
                             /\ o.host = s.loadBalancer.host
                             /\ Carries(o.ports, BalancedDesired(s), Over)
    [] k = "PodMonitor"   -> o = PodMonitor(s) /\ o # Refused
    [] k = "IngressRoute" -> o = IngressRoute(s, c) /\ o # Refused
    [] k = "CronJob"      -> o.schedule = s.cronJob /\ o.container = Completed(Bare(s.pod))
    [] k = "Deployment"   -> /\ Carries(o.ports, s.ports, ContainerOver)
                             /\ o.container = Completed(Bare(s.pod))
                             /\ s.hostNetwork => o.hostNetwork
                             /\ s.security # 0 => o.security = s.security

\* What a stage stores for a wanted object: an object as a stage may find it, with a target
\* for each service port and the addresses that the ports had, made of the spec.
LEMMA StageStores ==
  ASSUME NEW k \in Kinds, NEW s \in Specs, NEW c \in Configs, NEW o \in Found(k),
         Wanted(k, s), Mutated(k, s, c, o) # Refused, Valid(k, Mutated(k, s, c, o))
  PROVE  LET st == Stored(k, Mutated(k, s, c, o))
         IN  /\ st \in Found(k) /\ st # NoObj
             /\ k \in {"Service", "LBService"} =>
                  /\ Targeted(PortsOf(st))
                  /\ \A p \in Range(PortsOf(o)), q \in Range(PortsOf(st)) :
                       p.name = q.name => p.port = q.port /\ p.nodePort = q.nodePort
             /\ (PortsNamed \/ k \notin Ported) => Made(k, s, c, st)
<1>1. CASE k = "Service"
  <2>1. Mutated(k, s, c, o) = Service(s, o) /\ ValidServicePorts(Service(s, o).ports)
    BY <1>1 DEF Mutated, Valid
  <2> DEFINE st == Stored("Service", Service(s, o))
  <2>2. ASSUME PortsNamed
        PROVE  Carries(st.ports, ServiceDesired(s), Over)
    BY <1>1, <2>2, ServiceStored
  <2>3. /\ st \in Found("Service") /\ st # NoObj
        /\ Targeted(st.ports)
        /\ \A p \in Range(PortsOf(o)), q \in Range(PortsOf(st)) :
             p.name = q.name => p.port = q.port /\ p.nodePort = q.nodePort
    BY <1>1, <2>1, ServiceStored
  <2> HIDE DEF st
  <2>4. PortsNamed => Made(k, s, c, st)
    BY <1>1, <2>2 DEF Made
  <2>5. Stored(k, Mutated(k, s, c, o)) = st
    BY <1>1, <2>1 DEF st
  <2> QED BY <1>1, <2>3, <2>4, <2>5 DEF Ported, PortsOf
<1>2. CASE k = "LBService"
  <2>1. /\ Mutated(k, s, c, o) = LBService(s, o) /\ ValidServicePorts(LBService(s, o).ports)
        /\ s.loadBalancer # Off
    BY <1>2 DEF Mutated, Valid, Wanted
  <2>2. Range(s.loadBalancer.portNames) \subseteq NamesOf(s.ports)
    BY <2>1 DEF LBService
  <2> DEFINE st == Stored("LBService", LBService(s, o))
  <2>3. /\ PortsNamed => /\ st = [host |-> s.loadBalancer.host, ports |-> st.ports]
                         /\ Carries(st.ports, BalancedDesired(s), Over)
        /\ st \in Found("LBService") /\ st # NoObj
        /\ Targeted(st.ports)
        /\ \A p \in Range(PortsOf(o)), q \in Range(PortsOf(st)) :
             p.name = q.name => p.port = q.port /\ p.nodePort = q.nodePort
    BY <1>2, <2>1, <2>2, LBServiceStored
  <2> HIDE DEF st
  <2>4. ASSUME PortsNamed
        PROVE  st.host = s.loadBalancer.host
    <3>1. st = [host |-> s.loadBalancer.host, ports |-> st.ports]
      BY <2>3, <2>4
    <3>2. [host |-> s.loadBalancer.host, ports |-> st.ports].host = s.loadBalancer.host
      OBVIOUS
    <3> QED BY <3>1, <3>2
  <2>5. PortsNamed => Made(k, s, c, st)
    BY <1>2, <2>2, <2>3, <2>4 DEF Made
  <2>6. Stored(k, Mutated(k, s, c, o)) = st
    BY <1>2, <2>1 DEF st
  <2> QED BY <1>2, <2>3, <2>5, <2>6 DEF Ported, PortsOf
<1>3. CASE k = "PodMonitor"
  <2>1. /\ Mutated(k, s, c, o) = PodMonitor(s) /\ s.metrics # Off
        /\ Stored(k, PodMonitor(s)) = PodMonitor(s)
    BY <1>3 DEF Mutated, Wanted, Stored
  <2>2. PodMonitor(s) \in Found("PodMonitor") /\ PodMonitor(s) # NoObj
    BY <2>1, PodMonitorStored
  <2> QED BY <1>3, <2>1, <2>2 DEF Made
<1>4. CASE k = "IngressRoute"
  <2>1. /\ Mutated(k, s, c, o) = IngressRoute(s, c) /\ s.ingress # Off
        /\ Stored(k, IngressRoute(s, c)) = IngressRoute(s, c)
    BY <1>4 DEF Mutated, Wanted, Stored
  <2>2. IngressRoute(s, c) \in Found("IngressRoute") /\ IngressRoute(s, c) # NoObj
    BY <2>1, IngressRouteStored
  <2> QED BY <1>4, <2>1, <2>2 DEF Made
<1>5. CASE k = "CronJob"
  <2>1. Mutated(k, s, c, o) = CronJob(s, o)
    BY <1>5 DEF Mutated
  <2>2. LET st == Stored("CronJob", CronJob(s, o))
        IN  /\ st \in Found("CronJob") /\ st # NoObj
            /\ st.schedule = s.cronJob /\ st.container = Completed(Bare(s.pod))
    BY <1>5, CronJobStored
  <2> QED BY <1>5, <2>1, <2>2 DEF Made
<1>6. CASE k = "Deployment"
  <2>1. Mutated(k, s, c, o) = Deployment(s, o)
    BY <1>6 DEF Mutated
  <2>2. LET st == Stored("Deployment", Deployment(s, o))
        IN  /\ st \in Found("Deployment") /\ st # NoObj
            /\ st.container = Completed(Bare(s.pod))
            /\ s.hostNetwork => st.hostNetwork
            /\ s.security # 0 => st.security = s.security
            /\ PortsNamed => Carries(st.ports, s.ports, ContainerOver)
    BY <1>6, DeploymentStored
  <2> QED BY <1>6, <2>1, <2>2 DEF Made, Ported
<1> QED BY <1>1, <1>2, <1>3, <1>4, <1>5, <1>6, OrderIs

\* The objects are as a stage may find them.
ShapeInv ==
  /\ TypeOK
  /\ \A k \in Kinds : obj[k] \in Found(k)

\* The stages that are behind, in the Reconcile under way or in one that succeeded.
Done(k) == outcome = "applied" \/ \E i \in 1..(stage - 1) : Order[i] = k

InOrder == stage > 0 => outcome = "none"

\* What a stage that is behind has brought about.
Brought(k) ==
  Done(k) => IF Wanted(k, copy) THEN obj[k] # NoObj /\ Made(k, copy, config, obj[k])
             ELSE obj[k] = NoObj

\* The inductive invariant: of the kinds K, those whose stage is behind have been brought
\* to what the spec asks for.
BInv(K) == ShapeInv /\ InOrder /\ \A k \in K : Brought(k)

\* A stage that succeeds with an object as it should be keeps the invariant.
LEMMA Succeeds ==
  ASSUME NEW K \in SUBSET Kinds, BInv(K), stage > 0, NEW k, k = Order[stage], NEW o \in Found(k),
         k \in {"Service", "LBService"} => Targeted(PortsOf(o)),
         k \in K => IF Wanted(k, copy) THEN o # NoObj /\ Made(k, copy, config, o) ELSE o = NoObj,
         Succeed(k, o), UNCHANGED << spec, config, copy, left >>
  PROVE  BInv(K)'
<1>1. stage \in 1..6 /\ k \in Kinds /\ Len(Order) = 6
  BY OrderIs DEF BInv, ShapeInv, TypeOK
<1>2. /\ obj' = [obj EXCEPT ![k] = o] /\ DOMAIN obj = Kinds
      /\ stage' = IF stage = 6 THEN 0 ELSE stage + 1
      /\ outcome' = IF stage = 6 THEN "applied" ELSE "none"
  BY <1>1 DEF Succeed, BInv, ShapeInv, TypeOK
<1>3. \A j \in Kinds : obj'[j] = IF j = k THEN o ELSE obj[j]
  BY <1>2
<1>4. TypeOK'
  <2>1. \A j \in Kinds : obj'[j] \in ObjectsOf(j) \cup {NoObj}
    BY <1>3 DEF BInv, ShapeInv, TypeOK, Found
  <2>2. \A j \in {"Service", "LBService"} : Targeted(PortsOf(obj'[j]))
    <3>1. {"Service", "LBService"} \subseteq Kinds
      BY OrderIs
    <3> QED BY <1>3, <3>1 DEF BInv, ShapeInv, TypeOK
  <2>3. DOMAIN obj' = Kinds
    BY <1>2
  <2>4. /\ stage' \in 0..Len(Order)
        /\ outcome' \in {"none", "applied", "refused", "rejected"}
    BY <1>1, <1>2
  <2> QED BY <2>1, <2>2, <2>3, <2>4 DEF BInv, ShapeInv, TypeOK
<1>5. \A j \in Kinds : obj'[j] \in Found(j)
  BY <1>3 DEF BInv, ShapeInv
<1>6. InOrder'
  BY <1>1, <1>2 DEF InOrder
<1>7. ASSUME NEW j \in K
      PROVE  Brought(j)'
  <2>1. j \in Kinds
    OBVIOUS
  <2>2. CASE j = k
    BY <1>3, <2>1, <2>2 DEF Brought
  <2>3. CASE j # k
    <3>1. Done(j)' => Done(j)
      <4>1. CASE stage = 6
        <5>1. PICK i \in 1..6 : Order[i] = j
          BY OrderIs
        <5>2. i # 6
          BY <2>3, <4>1, <5>1
        <5>3. i \in 1..(stage - 1)
          BY <4>1, <5>1, <5>2
        <5> QED BY <5>1, <5>3 DEF Done
      <4>2. CASE stage # 6
        <5>1. SUFFICES ASSUME Done(j)' PROVE Done(j)
          OBVIOUS
        <5>2. outcome' = "none" /\ stage' - 1 = stage
          BY <1>1, <1>2, <4>2
        <5>3. PICK i \in 1..stage : Order[i] = j
          BY <5>1, <5>2 DEF Done
        <5>4. i \in 1..(stage - 1)
          BY <1>1, <2>3, <5>3
        <5> QED BY <5>3, <5>4 DEF Done
      <4> QED BY <4>1, <4>2
    <3> QED BY <1>3, <2>1, <2>3, <3>1 DEF Brought, BInv
  <2> QED BY <2>2, <2>3
<1> QED BY <1>4, <1>5, <1>6, <1>7 DEF BInv, ShapeInv

\* No stage is behind: nothing is to have been brought about.
LEMMA NoneDone ==
  ASSUME stage \in {0, 1}, outcome # "applied"
  PROVE  \A k : Brought(k)
<1>1. ~ \E i \in 1..(stage - 1) : TRUE
  OBVIOUS
<1> QED BY <1>1 DEF Brought, Done

\* The invariant holds at first and every step keeps it, for all kinds if ports have
\* names, and in any case for those without ports to merge.
LEMMA BInvInductive ==
  ASSUME NEW K \in SUBSET Kinds, PortsNamed \/ K \cap Ported = {}
  PROVE  /\ Init => BInv(K)
         /\ BInv(K) /\ [Next]_vars => BInv(K)'
<1>1. Init => BInv(K)
  <2> SUFFICES ASSUME Init PROVE BInv(K)
    OBVIOUS
  <2>1. \A k \in Kinds : obj[k] = NoObj
    BY DEF Init
  <2>2. PortsOf(NoObj) = << >>
    BY DEF PortsOf
  <2>3. Range(<< >>) = {}
    BY DEF Range
  <2>4. \A k \in Kinds : obj[k] \in Found(k)
    BY <2>1, <2>2 DEF Found, UniqueNames, OwnNodePorts
  <2>5. \A k \in {"Service", "LBService"} : Targeted(PortsOf(obj[k]))
    <3>1. Targeted(PortsOf(NoObj))
      BY <2>2, <2>3 DEF Targeted
    <3> QED BY <2>1, <3>1, OrderIs
  <2>6. TypeOK
    BY <2>1, <2>5, OrderIs, SpecAssumption DEF Init, TypeOK
  <2>7. \A k \in K : Brought(k)
    BY NoneDone DEF Init
  <2> QED BY <2>4, <2>6, <2>7 DEF BInv, ShapeInv, InOrder, Init
<1>2. ASSUME BInv(K), [Next]_vars
      PROVE  BInv(K)'
  <2> USE DEF BInv
  <2>1. TypeOK /\ (\A k \in Kinds : obj[k] \in Found(k)) /\ Len(Order) = 6
    BY <1>2, OrderIs DEF ShapeInv
  <2>2. ASSUME UNCHANGED obj, TypeOK'
        PROVE  ShapeInv'
    BY <2>1, <2>2 DEF ShapeInv
  <2>3. CASE Begin
    <3>1. TypeOK' /\ UNCHANGED obj
      BY <2>1, <2>3 DEF Begin, TypeOK
    <3>2. stage' = 1 /\ outcome' = "none"
      BY <2>3 DEF Begin
    <3>3. \A k \in K : Brought(k)'
      BY <3>2 DEF Brought, Done
    <3> QED BY <2>2, <3>1, <3>2, <3>3 DEF InOrder
  <2>4. CASE Stage
    <3> DEFINE k == Order[stage]
               new == Mutated(k, copy, config, obj[k])
    <3>1. stage > 0 /\ stage \in 1..6 /\ UNCHANGED << spec, config, copy, left >>
      BY <2>1, <2>4 DEF Stage, TypeOK
    <3>2. k \in Kinds /\ copy \in Specs /\ config \in Configs /\ obj[k] \in Found(k)
      BY <2>1, <3>1, OrderIs DEF TypeOK
    <3>3. \/ ~Wanted(k, copy) /\ Succeed(k, NoObj)
          \/ Fail("refused") \/ Fail("rejected")
          \/ /\ Wanted(k, copy) /\ new # Refused /\ Valid(k, new)
             /\ Succeed(k, Stored(k, new))
      BY <2>4 DEF Stage
    <3>4. CASE ~Wanted(k, copy) /\ Succeed(k, NoObj)
      <4>1. Targeted(PortsOf(NoObj)) /\ PortsOf(NoObj) = << >>
        BY DEF PortsOf, Range, Targeted
      <4>2. NoObj \in Found(k)
        BY <4>1 DEF Found, UniqueNames, OwnNodePorts
      <4> HIDE DEF k
      <4>3. PICK j \in Kinds : j = k
        BY <3>2
      <4>4. j = Order[stage]
        BY <4>3 DEF k
      <4> HIDE DEF BInv
      <4> QED BY <1>2, <3>1, <3>4, <4>1, <4>2, <4>3, <4>4, Succeeds
    <3>5. CASE Fail("refused") \/ Fail("rejected")
      <4>1. TypeOK' /\ UNCHANGED obj
        BY <2>1, <3>1, <3>5 DEF Fail, TypeOK
      <4>2. stage' = 0 /\ outcome' # "applied"
        BY <3>5 DEF Fail
      <4>3. \A j \in K : Brought(j)'
        BY <4>2 DEF Brought, Done
      <4> QED BY <2>2, <4>1, <4>2, <4>3 DEF InOrder
    <3>6. CASE Wanted(k, copy) /\ new # Refused /\ Valid(k, new) /\ Succeed(k, Stored(k, new))
      <4> DEFINE st == Stored(k, new)
      <4>1. /\ st \in Found(k) /\ st # NoObj
            /\ k \in {"Service", "LBService"} => Targeted(PortsOf(st))
            /\ (PortsNamed \/ k \notin Ported) => Made(k, copy, config, st)
        BY <3>2, <3>6, StageStores
      <4>2. k \in K => Made(k, copy, config, st)
        BY <4>1
      <4> HIDE DEF k, st, BInv
      <4>3. PICK j \in Kinds : j = k
        BY <3>2
      <4>4. PICK o \in Found(k) : o = st
        BY <4>1
      <4>5. j = Order[stage] /\ Succeed(j, o)
        BY <3>6, <4>3, <4>4 DEF k, st
      <4> QED BY <1>2, <3>1, <3>6, <4>1, <4>2, <4>3, <4>4, <4>5, Succeeds
    <3> QED BY <3>3, <3>4, <3>5, <3>6
  <2>5. CASE \E s \in Specs \ {spec} : Edit(s)
    <3>1. TypeOK' /\ UNCHANGED << config, obj, copy, stage, outcome >>
      BY <2>1, <2>5, SpecAssumption DEF Edit, TypeOK
    <3> QED BY <1>2, <2>2, <3>1 DEF InOrder, Brought, Done
  <2>6. CASE \E c \in Configs \ {config} : Restart(c)
    <3>1. TypeOK' /\ UNCHANGED obj
      BY <2>1, <2>6, SpecAssumption DEF Restart, TypeOK
    <3>2. stage' = 0 /\ outcome' = "none"
      BY <2>6 DEF Restart
    <3>3. \A k \in K : Brought(k)'
      BY <3>2 DEF Brought, Done
    <3> QED BY <2>2, <3>1, <3>2, <3>3 DEF InOrder
  <2>7. CASE UNCHANGED vars
    <3>1. TypeOK'
      BY <2>1, <2>7 DEF vars, TypeOK
    <3> QED BY <1>2, <2>2, <2>7, <3>1 DEF vars, InOrder, Brought, Done
  <2> QED BY <1>2, <2>3, <2>4, <2>5, <2>6, <2>7 DEF Next
<1> QED BY <1>1, <1>2

\* Whatever the history, objects have the types of TypeOK: no service port is without a
\* target, no port of a load balancer without a node port, no monitor without a path.
THEOREM TypeCorrect == Spec => []TypeOK
<1>0. /\ Init => BInv({})
      /\ BInv({}) /\ [Next]_vars => BInv({})'
  BY BInvInductive
<1>1. Spec => []BInv({})
  BY <1>0, PTL DEF Spec
<1>2. BInv({}) => TypeOK
  BY DEF BInv, ShapeInv
<1> QED BY <1>1, <1>2, PTL

\* No step changes the number or the node port of a service port that stays.
THEOREM AddressesStable == Spec => StableAddresses
<1> DEFINE Kept == \A k \in {"Service", "LBService"} :
                     \A p \in Range(PortsOf(obj[k])), q \in Range(PortsOf(obj'[k])) :
                        p.name = q.name => p.port = q.port /\ p.nodePort = q.nodePort
<1>0. /\ Init => BInv({})
      /\ BInv({}) /\ [Next]_vars => BInv({})'
  BY BInvInductive
<1>1. Spec => []BInv({})
  BY <1>0, PTL DEF Spec
<1>2. ASSUME BInv({}), UNCHANGED obj
      PROVE  Kept
  <2>1. \A k \in {"Service", "LBService"} : UniqueNames(PortsOf(obj[k]))
    BY <1>2, OrderIs DEF BInv, ShapeInv, Found
  <2> QED BY <1>2, <2>1 DEF UniqueNames, Range
<1>3. ASSUME BInv({}), Stage
      PROVE  Kept
  <2> DEFINE k == Order[stage]
             new == Mutated(k, copy, config, obj[k])
  <2>1. /\ TypeOK /\ stage \in 1..6 /\ k \in Kinds
    BY <1>3, OrderIs DEF BInv, ShapeInv, TypeOK, Stage
  <2>2. /\ copy \in Specs /\ config \in Configs /\ obj[k] \in Found(k) /\ DOMAIN obj = Kinds
    BY <1>3, <2>1 DEF BInv, ShapeInv, TypeOK
  <2>3. \/ Succeed(k, NoObj)
        \/ Fail("refused") \/ Fail("rejected")
        \/ /\ Wanted(k, copy) /\ new # Refused /\ Valid(k, new)
           /\ Succeed(k, Stored(k, new))
    BY <1>3 DEF Stage
  <2>4. CASE Fail("refused") \/ Fail("rejected")
    BY <1>2, <1>3, <2>4 DEF Fail
  <2>5. ASSUME NEW j \in {"Service", "LBService"}, NEW o, obj' = [obj EXCEPT ![k] = o],
               j = k =>
                 \A p \in Range(PortsOf(obj[j])), q \in Range(PortsOf(o)) :
                    p.name = q.name => p.port = q.port /\ p.nodePort = q.nodePort
        PROVE  \A p \in Range(PortsOf(obj[j])), q \in Range(PortsOf(obj'[j])) :
                 p.name = q.name => p.port = q.port /\ p.nodePort = q.nodePort
    <3> HIDE DEF k
    <3>1. j \in Kinds
      BY OrderIs
    <3>2. CASE j = k
      BY <2>2, <2>5, <3>1, <3>2
    <3>3. CASE j # k
      <4>1. obj'[j] = obj[j]
        BY <2>2, <2>5, <3>1, <3>3
      <4>2. UniqueNames(PortsOf(obj[j]))
        BY <1>3, <3>1 DEF BInv, ShapeInv, Found
      <4> QED BY <4>1, <4>2 DEF UniqueNames, Range
    <3> QED BY <3>2, <3>3
  <2>6. CASE Succeed(k, NoObj)
    <3>1. PortsOf(NoObj) = << >> /\ Range(<< >>) = {}
      BY DEF PortsOf, Range
    <3>2. obj' = [obj EXCEPT ![k] = NoObj]
      BY <2>6 DEF Succeed
    <3> HIDE DEF k
    <3> QED BY <2>5, <3>1, <3>2
  <2>7. CASE Wanted(k, copy) /\ new # Refused /\ Valid(k, new) /\ Succeed(k, Stored(k, new))
    <3> DEFINE st == Stored(k, new)
    <3>1. k \in {"Service", "LBService"} =>
            \A p \in Range(PortsOf(obj[k])), q \in Range(PortsOf(st)) :
               p.name = q.name => p.port = q.port /\ p.nodePort = q.nodePort
      BY <2>1, <2>2, <2>7, StageStores
    <3>2. obj' = [obj EXCEPT ![k] = st]
      BY <2>7 DEF Succeed
    <3> HIDE DEF st, k
    <3>3. PICK o : o = st
      OBVIOUS
    <3>4. obj' = [obj EXCEPT ![k] = o]
      BY <3>2, <3>3
    <3>5. ASSUME NEW j \in {"Service", "LBService"}, j = k
          PROVE  \A p \in Range(PortsOf(obj[j])), q \in Range(PortsOf(o)) :
                   p.name = q.name => p.port = q.port /\ p.nodePort = q.nodePort
      BY <3>1, <3>3, <3>5
    <3> QED BY <2>5, <3>4, <3>5
  <2> QED BY <2>3, <2>4, <2>6, <2>7
<1>4. BInv({}) /\ [Next]_vars => [Kept]_vars
  <2> SUFFICES ASSUME BInv({}), Next PROVE Kept
    OBVIOUS
  <2>1. Stage \/ UNCHANGED obj
    BY DEF Next, Begin, Edit, Restart
  <2> QED BY <1>2, <1>3, <2>1
<1> QED BY <1>1, <1>4, PTL DEF Spec, StableAddresses

-----------------------------------------------------------------------------
(***************************************************************************)
(* After a Reconcile that succeeded                                        *)
(***************************************************************************)

\* Once a Reconcile has succeeded, each object is there exactly if the spec wants it, and
\* is made of the spec.
LEMMA AllMade ==
  ASSUME BInv(Kinds), Applied, NEW k \in Kinds
  PROVE  /\ Wanted(k, copy) <=> obj[k] # NoObj
         /\ obj[k] # NoObj => Made(k, copy, config, obj[k])
         /\ copy \in Specs /\ config \in Configs /\ obj[k] \in Found(k)
         /\ obj[k] # NoObj => obj[k] \in ObjectsOf(k)
BY DEF BInv, ShapeInv, TypeOK, Brought, Done, Applied, Found

\* A mutator leaves an object alone that is made of the spec.
LEMMA MadeKept ==
  ASSUME NEW k \in Kinds \ {"CronJob"}, NEW s \in Specs, NEW c \in Configs,
         NEW o \in ObjectsOf(k), o # NoObj, Wanted(k, s), Made(k, s, c, o)
  PROVE  Mutated(k, s, c, o) = o
<1>1. CASE k = "Service"
  <2>1. o \in [ports : Seq(ServicePorts({0}))]
    BY <1>1, ObjectKinds
  <2>2. Carries(o.ports, ServiceDesired(s), Over)
    BY <1>1 DEF Made
  <2>3. Merge(o.ports, ServiceDesired(s), Over) = o.ports
    BY <2>1, <2>2, ServiceDesiredIs, ServicePortUpdated, CarriesKept
  <2>4. Mutated(k, s, c, o) = [ports |-> Merge(o.ports, ServiceDesired(s), Over)]
    BY <1>1 DEF Mutated, Service, ServiceDesired, PortsOf, MergeServicePorts, Over
  <2> QED BY <2>1, <2>3, <2>4
<1>2. CASE k = "LBService"
  <2> DEFINE H == { t.loadBalancer.host : t \in { u \in Specs : u.loadBalancer # Off } }
  <2>1. o \in [host : H, ports : Seq(ServicePorts(NodePorts))]
    BY <1>2, ObjectKinds
  <2> HIDE DEF H
  <2>2. /\ Carries(o.ports, BalancedDesired(s), Over) /\ o.host = s.loadBalancer.host
        /\ Range(s.loadBalancer.portNames) \subseteq NamesOf(s.ports)
        /\ s.loadBalancer # Off
    BY <1>2 DEF Made, Wanted
  <2> DEFINE np == NodePorts \cup {0}
  <2>3. o.ports \in Seq(ServicePorts(np)) /\ BalancedDesired(s) \in Seq(ServicePorts(np))
    <3>1. ServicePorts(NodePorts) \subseteq ServicePorts(np)
          /\ ServicePorts({0}) \subseteq ServicePorts(np)
      BY DEF ServicePorts
    <3>2. BalancedDesired(s) \in Seq(ServicePorts({0}))
      BY <2>2, BalancedDesiredIs
    <3> HIDE DEF np
    <3> QED BY <2>1, <3>1, <3>2
  <2> HIDE DEF np
  <2>4. Merge(o.ports, BalancedDesired(s), Over) = o.ports
    BY <2>2, <2>3, ServicePortUpdated, CarriesKept
  <2>5. Mutated(k, s, c, o)
          = [host |-> s.loadBalancer.host, ports |-> Merge(o.ports, BalancedDesired(s), Over)]
    BY <1>2, <2>2 DEF Mutated, LBService, BalancedDesired, PortsOf, MergeServicePorts, Over
  <2> QED BY <2>1, <2>2, <2>4, <2>5
<1>3. CASE k = "PodMonitor" \/ k = "IngressRoute"
  BY <1>3 DEF Made, Mutated
<1>4. CASE k = "Deployment"
  <2>1. o \in [ports : Seq(ContainerPorts), container : Containers, hostNetwork : BOOLEAN,
               security : Nat]
    BY <1>4, ObjectKinds
  <2>2. /\ Carries(o.ports, s.ports, ContainerOver)
        /\ o.container = Completed(Bare(s.pod))
        /\ s.hostNetwork => o.hostNetwork
        /\ s.security # 0 => o.security = s.security
    BY <1>4 DEF Made
  <2>3. Merge(o.ports, s.ports, ContainerOver) = o.ports
    <3>1. o.ports \in Seq(ContainerPorts) /\ s.ports \in Seq(ContainerPorts)
      BY <2>1, SpecPorts
    <3>2. \A p \in ContainerPorts : p = [f \in DOMAIN p |-> p[f]]
      BY ContainerPortUpdated
    <3> QED BY <2>2, <3>1, <3>2, CarriesKept
  <2>4. Security(s, o) = o.security
    BY <2>2 DEF Security
  <2>5. (s.hostNetwork \/ (o # NoObj /\ o.hostNetwork)) = o.hostNetwork
    <3>1. s.hostNetwork \in BOOLEAN /\ o.hostNetwork \in BOOLEAN
      BY <2>1, SpecAssumption
    <3> QED BY <2>2, <3>1
  <2>6. Mutated(k, s, c, o)
          = [ports |-> Merge(o.ports, s.ports, ContainerOver), container |-> Completed(Bare(s.pod)),
             hostNetwork |-> s.hostNetwork \/ (o # NoObj /\ o.hostNetwork),
             security |-> Security(s, o)]
    BY <1>4 DEF Mutated, Deployment, PortsOf, MergeContainerPorts, ContainerOver
  <2> QED BY <2>1, <2>2, <2>3, <2>4, <2>5, <2>6
<1> QED BY <1>1, <1>2, <1>3, <1>4, OrderIs

\* If ports have names, a Reconcile after one that succeeded has nothing to patch.
THEOREM NothingLeftToPatch ==
  ASSUME PortsNamed
  PROVE  Spec => []NothingToPatch
<1>0. /\ Init => BInv(Kinds)
      /\ BInv(Kinds) /\ [Next]_vars => BInv(Kinds)'
  BY BInvInductive
<1>1. Spec => []BInv(Kinds)
  BY <1>0, PTL DEF Spec
<1>2. BInv(Kinds) => NothingToPatch
  <2> SUFFICES ASSUME BInv(Kinds), Applied, NEW k \in Kinds \ {"CronJob"}, obj[k] # NoObj
               PROVE  Mutated(k, copy, config, obj[k]) = obj[k]
    BY DEF NothingToPatch
  <2>1. /\ Wanted(k, copy) /\ Made(k, copy, config, obj[k])
        /\ copy \in Specs /\ config \in Configs /\ obj[k] \in ObjectsOf(k)
    BY AllMade
  <2> QED BY <2>1, MadeKept
<1> QED BY <1>1, <1>2, PTL

\* What carries the desired ports has, of each name, their target and protocol.
LEMMA CarriesSame ==
  ASSUME NEW ports, NEW desired, Carries(ports, desired, Over)
  PROVE  { << p.name, p.target, p.protocol >> : p \in Range(ports) }
           = { << n, ByName(desired, n).target, ByName(desired, n).protocol >> :
                 n \in NamesOf(desired) }
<1>1. \A p \in Range(ports) : /\ p.target = ByName(desired, p.name).target
                              /\ p.protocol = ByName(desired, p.name).protocol
  BY DEF Carries, Over
<1>2. NamesOf(desired) = { p.name : p \in Range(ports) }
  BY DEF Carries, NamesOf
<1> QED BY <1>1, <1>2

\* The same for container ports and their numbers.
LEMMA ContainerCarriesSame ==
  ASSUME NEW ports, NEW desired, Carries(ports, desired, ContainerOver)
  PROVE  { << p.name, p.containerPort, p.protocol >> : p \in Range(ports) }
           = { << n, ByName(desired, n).containerPort, ByName(desired, n).protocol >> :
                 n \in NamesOf(desired) }
<1>1. \A p \in Range(ports) : /\ p.containerPort = ByName(desired, p.name).containerPort
                              /\ p.protocol = ByName(desired, p.name).protocol
  BY DEF Carries, ContainerOver
<1>2. NamesOf(desired) = { p.name : p \in Range(ports) }
  BY DEF Carries, NamesOf
<1> QED BY <1>1, <1>2

\* An object made of a spec has the essence of a new one.
LEMMA MadeAsNew ==
  ASSUME PortsNamed, NEW k \in Kinds, NEW s \in Specs, NEW c \in Configs,
         NEW o \in ObjectsOf(k), Wanted(k, s), Made(k, s, c, o)
  PROVE  Essence(k, o) = Essence(k, Stored(k, Mutated(k, s, c, NoObj)))
<1> DEFINE new == Stored(k, Mutated(k, s, c, NoObj))
<1>1. NoObj \in Found(k)
  <2>1. PortsOf(NoObj) = << >>
    BY DEF PortsOf
  <2> QED BY <2>1 DEF Found, UniqueNames, OwnNodePorts
<1>2. CASE k = "Service"
  <2>1. o \in [ports : Seq(ServicePorts({0}))] /\ Carries(o.ports, ServiceDesired(s), Over)
    BY <1>2, ObjectKinds DEF Made
  <2>2. new = Stored("Service", Service(s, NoObj))
    BY <1>2 DEF Mutated
  <2>3. new = [ports |-> new.ports] /\ Carries(new.ports, ServiceDesired(s), Over)
    BY <1>1, <1>2, <2>2, ServiceStored
  <2> HIDE DEF new
  <2> DEFINE E(x) == { << p.name, p.target, p.protocol >> : p \in Range(x.ports) }
  <2>4. E(o) = E(new)
    BY <2>1, <2>3, CarriesSame
  <2>5. ASSUME NEW x, DOMAIN x = {"ports"}
        PROVE  Essence(k, x) = [f \in {"ports"} |-> E(x)]
    BY <1>2, <2>5 DEF Essence
  <2>6. DOMAIN o = {"ports"} /\ DOMAIN new = {"ports"}
    BY <2>1, <2>3
  <2> QED BY <2>4, <2>5, <2>6 DEF new
<1>3. CASE k = "LBService"
  <2> DEFINE H == { t.loadBalancer.host : t \in { u \in Specs : u.loadBalancer # Off } }
  <2>1. o \in [host : H, ports : Seq(ServicePorts(NodePorts))]
    BY <1>3, ObjectKinds
  <2> HIDE DEF H
  <2>2. /\ Carries(o.ports, BalancedDesired(s), Over) /\ o.host = s.loadBalancer.host
        /\ Range(s.loadBalancer.portNames) \subseteq NamesOf(s.ports)
        /\ s.loadBalancer # Off
    BY <1>3 DEF Made, Wanted
  <2>3. new = Stored("LBService", LBService(s, NoObj))
    BY <1>3 DEF Mutated
  <2>4. /\ new = [host |-> s.loadBalancer.host, ports |-> new.ports]
        /\ Carries(new.ports, BalancedDesired(s), Over)
    BY <1>1, <1>3, <2>2, <2>3, LBServiceStored
  <2> HIDE DEF new
  <2> DEFINE E(x) == { << p.name, p.target, p.protocol >> : p \in Range(x.ports) }
  <2>5. E(o) = E(new)
    BY <2>2, <2>4, CarriesSame
  <2>6. ASSUME NEW x, DOMAIN x = {"host", "ports"}
        PROVE  Essence(k, x) = [f \in {"host", "ports"} |-> IF f = "ports" THEN E(x) ELSE x.host]
    BY <1>3, <2>6 DEF Essence
  <2>7. /\ DOMAIN o = {"host", "ports"} /\ DOMAIN new = {"host", "ports"}
        /\ o.host = new.host
    BY <2>1, <2>2, <2>4
  <2> HIDE DEF E
  <2> QED BY <2>5, <2>6, <2>7 DEF new
<1>4. CASE k = "PodMonitor" \/ k = "IngressRoute"
  <2>1. new = o
    BY <1>4 DEF Made, Mutated, Stored
  <2> QED BY <2>1
<1>5. CASE k = "CronJob"
  <2>1. /\ DOMAIN o = {"schedule", "container", "security"}
        /\ o.schedule = s.cronJob /\ o.container = Completed(Bare(s.pod))
    <3> DEFINE H == { t.cronJob : t \in Specs }
    <3>1. o \in [schedule : H, container : Containers, security : Nat]
      BY <1>5, ObjectKinds
    <3> HIDE DEF H
    <3>2. o.schedule = s.cronJob /\ o.container = Completed(Bare(s.pod))
      BY <1>5 DEF Made
    <3> QED BY <3>1, <3>2
  <2>2. new = Stored("CronJob", CronJob(s, NoObj))
    BY <1>5 DEF Mutated
  <2>3. /\ DOMAIN new = {"schedule", "container", "security"}
        /\ new.schedule = s.cronJob /\ new.container = Completed(Bare(s.pod))
    BY <1>1, <1>5, <2>2, CronJobStored
  <2> HIDE DEF new
  <2>4. ASSUME NEW x, DOMAIN x = {"schedule", "container", "security"}
        PROVE  Essence(k, x) = [f \in {"schedule", "container"} |->
                                  IF f = "schedule" THEN x.schedule ELSE x.container]
    BY <1>5, <2>4 DEF Essence
  <2> QED BY <2>1, <2>3, <2>4 DEF new
<1>6. CASE k = "Deployment"
  <2>1. /\ DOMAIN o = {"ports", "container", "hostNetwork", "security"}
        /\ Carries(o.ports, s.ports, ContainerOver) /\ o.container = Completed(Bare(s.pod))
    <3>1. o \in [ports : Seq(ContainerPorts), container : Containers, hostNetwork : BOOLEAN,
                 security : Nat]
      BY <1>6, ObjectKinds
    <3>2. Carries(o.ports, s.ports, ContainerOver) /\ o.container = Completed(Bare(s.pod))
      BY <1>6 DEF Made
    <3> QED BY <3>1, <3>2
  <2>2. new = Stored("Deployment", Deployment(s, NoObj))
    BY <1>6 DEF Mutated
  <2>3. /\ DOMAIN new = {"ports", "container", "hostNetwork", "security"}
        /\ Carries(new.ports, s.ports, ContainerOver)
        /\ new.container = Completed(Bare(s.pod))
    BY <1>1, <1>6, <2>2, DeploymentStored
  <2> HIDE DEF new
  <2> DEFINE E(x) == { << p.name, p.containerPort, p.protocol >> : p \in Range(x.ports) }
  <2>4. E(o) = E(new)
    BY <2>1, <2>3, ContainerCarriesSame
  <2>5. ASSUME NEW x, DOMAIN x = {"ports", "container", "hostNetwork", "security"}
        PROVE  Essence(k, x) = [f \in {"ports", "container"} |->
                                  IF f = "ports" THEN E(x) ELSE x.container]
    BY <1>6, <2>5 DEF Essence
  <2> HIDE DEF E
  <2> QED BY <2>1, <2>3, <2>4, <2>5 DEF new
<1> QED BY <1>2, <1>3, <1>4, <1>5, <1>6, OrderIs

\* If ports have names, an Application that was edited ends up with the objects of one
\* that was created as it is now.
THEOREM EditedAsNew ==
  ASSUME PortsNamed
  PROVE  Spec => []AsIfNew
<1>0. /\ Init => BInv(Kinds)
      /\ BInv(Kinds) /\ [Next]_vars => BInv(Kinds)'
  BY BInvInductive
<1>1. Spec => []BInv(Kinds)
  BY <1>0, PTL DEF Spec
<1>2. BInv(Kinds) => AsIfNew
  <2> SUFFICES ASSUME BInv(Kinds), Applied, NEW k \in Kinds
               PROVE  IF Wanted(k, copy)
                      THEN /\ obj[k] # NoObj
                           /\ Essence(k, obj[k])
                                = Essence(k, Stored(k, Mutated(k, copy, config, NoObj)))
                      ELSE obj[k] = NoObj
    BY DEF AsIfNew
  <2>1. /\ Wanted(k, copy) <=> obj[k] # NoObj
        /\ obj[k] # NoObj => Made(k, copy, config, obj[k]) /\ obj[k] \in ObjectsOf(k)
        /\ copy \in Specs /\ config \in Configs
    BY AllMade
  <2>2. ASSUME Wanted(k, copy)
        PROVE  Essence(k, obj[k]) = Essence(k, Stored(k, Mutated(k, copy, config, NoObj)))
    BY <2>1, <2>2, MadeAsNew
  <2> QED BY <2>1, <2>2
<1> QED BY <1>1, <1>2, PTL

-----------------------------------------------------------------------------
(***************************************************************************)
(* Where ports and routes lead                                             *)
(***************************************************************************)

\* The service port that carries a port of the spec leads to the container port that does.
LEMMA CarriedLeads ==
  ASSUME NEW s \in Specs, PortsNamed, NEW p \in Range(s.ports),
         NEW ports, NEW desired, NEW containers,
         Carries(ports, desired, Over), p.name \in NamesOf(desired),
         ByName(desired, p.name) = ServicePort(p),
         Carries(containers, s.ports, ContainerOver)
  PROVE  \E sp \in Range(ports) :
           /\ sp.name = p.name
           /\ { << c.containerPort, c.protocol >> : c \in Reached(sp, containers) }
                = { << p.containerPort, p.protocol >> }
<1>1. s.ports \in Seq(ContainerPorts) /\ Consistent(s.ports) /\ "" \notin NamesOf(s.ports)
  BY SpecPorts
<1>2. /\ p \in ContainerPorts /\ p.name \in NamesOf(s.ports) /\ p.name # ""
      /\ ByName(s.ports, p.name) = p
  <2>1. p \in ContainerPorts
    <3>1. PICK i \in DOMAIN s.ports : p = s.ports[i]
      BY DEF Range
    <3>2. s.ports \in Seq(ContainerPorts)
      BY SpecPorts
    <3> QED BY <3>1, <3>2
  <2>2. p.name \in NamesOf(s.ports) /\ ByName(s.ports, p.name) = p
    BY <1>1, ByNameOfConsistent
  <2> QED BY <1>1, <2>1, <2>2
<1>3. PICK sp \in Range(ports) : sp.name = p.name
  BY DEF Carries, NamesOf
<1>4. sp.target = Named(p.name) /\ sp.protocol = p.protocol
  <2>1. /\ sp.target = ByName(desired, sp.name).target
        /\ sp.protocol = ByName(desired, sp.name).protocol
    BY DEF Carries, Over
  <2>2. ServicePort(p).target = Named(p.name) /\ ServicePort(p).protocol = p.protocol
    BY <1>2, ServicePortOf
  <2> QED BY <1>3, <2>1, <2>2
<1>5. Reached(sp, containers)
        = { c \in Range(containers) : c.protocol = p.protocol /\ c.name = p.name }
  <2>1. sp.target.name = p.name
    BY <1>4 DEF Named
  <2> QED BY <1>2, <1>4, <2>1 DEF Reached
<1>6. \A c \in Range(containers) : c.name = p.name =>
        c.containerPort = p.containerPort /\ c.protocol = p.protocol
  BY <1>2 DEF Carries, ContainerOver
<1>7. \E c \in Range(containers) : c.name = p.name
  BY <1>2 DEF Carries, NamesOf
<1>8. { << c.containerPort, c.protocol >> : c \in Reached(sp, containers) }
        = { << p.containerPort, p.protocol >> }
  BY <1>5, <1>6, <1>7
<1> QED BY <1>3, <1>8

\* The routes of an Application: one for everything where there is no authentication;
\* otherwise one to the authentication service, one for each excluded path, and one for
\* everything else, behind the authentication middleware.
LEMMA RoutesAre ==
  ASSUME NEW s \in Specs, s.ingress # Off, NEW c, NEW port
  PROVE  LET ing == s.ingress
             ms  == IF ing.middlewares # << >> THEN ing.middlewares ELSE c.middlewares
             Route(rule, mw, svc, p) ==
               [rule |-> rule, middlewares |-> mw, service |-> svc, port |-> p]
         IN  Range(Routes(s, c, port)) =
               IF ing.auth = Off THEN {Route(AnyPath, ms, "app", port)}
               ELSE {Route(PathPrefix(c.authPrefix), ms, c.authService, c.authPort)}
                      \cup { Route(RuleFor(e), ms, "app", port) : e \in Range(ing.auth) }
                      \cup {Route(AnyPath, Append(ms, c.authMiddleware), "app", port)}
<1> DEFINE ing == s.ingress
           ms == IF ing.middlewares # << >> THEN ing.middlewares ELSE c.middlewares
           Route(rule, mw, svc, p) ==
             [rule |-> rule, middlewares |-> mw, service |-> svc, port |-> p]
           r == Route(PathPrefix(c.authPrefix), ms, c.authService, c.authPort)
           x == [i \in DOMAIN ing.auth |-> Route(RuleFor(ing.auth[i]), ms, "app", port)]
           z == Route(AnyPath, Append(ms, c.authMiddleware), "app", port)
           one == Route(AnyPath, ms, "app", port)
           X == { Route(RuleFor(e), ms, "app", port) : e \in Range(ing.auth) }
           S == {r, z} \cup X
<1>1. Routes(s, c, port) = IF ing.auth = Off THEN << one >> ELSE << r >> \o x \o << z >>
  BY DEF Routes
<1>2. ing.auth # Off => ing.auth \in Seq(Seq(STRING) \ {<< >>})
  BY SpecAssumption DEF IsIngress
<1>3. Range(x) = X
  BY DEF Range
<1>4. \A i \in DOMAIN ing.auth : x[i] \in X
  BY DEF Range
<1>5. DOMAIN x = DOMAIN ing.auth /\ x = [i \in DOMAIN ing.auth |-> x[i]]
  OBVIOUS
<1> HIDE DEF x, r, z, one, X
<1>6. \A t : Range(<< t >>) = {t}
  BY DEF Range
<1>7. ASSUME ing.auth # Off
      PROVE  Range(<< r >> \o x \o << z >>) = {r} \cup X \cup {z}
  <2>1. DOMAIN ing.auth = 1..Len(ing.auth) /\ Len(ing.auth) \in Nat
    BY <1>2, <1>7
  <2>2. x \in Seq(S)
    <3>1. x \in [1..Len(ing.auth) -> S]
      BY <1>4, <1>5, <2>1
    <3> QED BY <2>1, <3>1
  <2>3. << r >> \in Seq(S) /\ << z >> \in Seq(S)
    OBVIOUS
  <2> HIDE DEF S
  <2>4. << r >> \o x \in Seq(S)
    BY <2>2, <2>3
  <2>5. Range(<< r >> \o x) = {r} \cup X
    <3>1. Range(<< r >> \o x) = Range(<< r >>) \cup Range(x)
      BY <2>2, <2>3, ConcatRange
    <3>2. Range(<< r >>) = {r}
      BY <1>6
    <3> QED BY <1>3, <3>1, <3>2
  <2>6. Range((<< r >> \o x) \o << z >>) = Range(<< r >> \o x) \cup Range(<< z >>)
    BY <2>3, <2>4, ConcatRange
  <2>7. Range(<< z >>) = {z}
    BY <1>6
  <2> QED BY <2>5, <2>6, <2>7
<1> QED BY <1>1, <1>6, <1>7 DEF r, x, z, one, X

\* If ports have names and the authentication service is not called as the Application's
\* own, every port of the spec is reached through the Service, the ports that a load
\* balancer names through its Service, and routes and monitors name ports there are.
THEOREM PortsReached ==
  ASSUME PortsNamed, \A c \in Configs : c.authService # "app"
  PROVE  Spec => []PortsLeadHome
<1>0. /\ Init => BInv(Kinds)
      /\ BInv(Kinds) /\ [Next]_vars => BInv(Kinds)'
  BY BInvInductive
<1>1. Spec => []BInv(Kinds)
  BY <1>0, PTL DEF Spec
<1>2. ASSUME BInv(Kinds), Applied
      PROVE  /\ \A p \in Range(copy.ports) : Leads("Service", p)
             /\ copy.loadBalancer # Off =>
                  \A n \in Range(copy.loadBalancer.portNames) :
                    Leads("LBService", ByName(copy.ports, n))
             /\ (copy.ingress # Off /\ copy.ingress.portName = "") =>
                  \A r \in Range(obj["IngressRoute"].routes) :
                     r.service = "app" => r.port \in NamesOf(PortsOf(obj["Service"]))
             /\ (copy.metrics # Off /\ copy.metrics.portName = "") =>
                  obj["PodMonitor"].port \in NamesOf(obj["Deployment"].ports)
  <2>1. copy \in Specs /\ config \in Configs
    BY <1>2 DEF BInv, ShapeInv, TypeOK
  <2>2. PICK s \in Specs : s = copy
    BY <2>1
  <2>3. PICK c \in Configs : c = config
    BY <2>1
  <2>4. \A k \in Kinds : /\ Wanted(k, s) <=> obj[k] # NoObj
                         /\ obj[k] # NoObj => Made(k, s, c, obj[k])
    BY <1>2, <2>2, <2>3, AllMade
  <2>5. s.ports \in Seq(ContainerPorts) /\ Consistent(s.ports)
    BY SpecPorts
  <2>6. Carries(obj["Deployment"].ports, s.ports, ContainerOver)
    <3>1. Wanted("Deployment", s)
      BY DEF Wanted
    <3>2. Made("Deployment", s, c, obj["Deployment"])
      BY <2>4, <3>1, OrderIs
    <3> QED BY <3>2 DEF Made
  <2>7. ASSUME s.ports # << >>
        PROVE  obj["Service"] # NoObj /\ Carries(obj["Service"].ports, ServiceDesired(s), Over)
    <3>1. Wanted("Service", s)
      BY <2>7 DEF Wanted
    <3>2. obj["Service"] # NoObj /\ Made("Service", s, c, obj["Service"])
      BY <2>4, <3>1, OrderIs
    <3> QED BY <3>2 DEF Made
  <2>8. ASSUME NEW p \in Range(s.ports)
        PROVE  Leads("Service", p)
    <3>1. s.ports # << >>
      BY DEF Range
    <3>2. p.name \in NamesOf(ServiceDesired(s)) /\ ByName(ServiceDesired(s), p.name) = ServicePort(p)
      BY ServiceDesiredIs DEF NamesOf
    <3>3. PICK ports, containers : ports = obj["Service"].ports /\ containers = obj["Deployment"].ports
      OBVIOUS
    <3>4. Carries(ports, ServiceDesired(s), Over) /\ Carries(containers, s.ports, ContainerOver)
      BY <2>6, <2>7, <3>1, <3>3
    <3> QED BY <3>2, <3>3, <3>4, CarriedLeads DEF Leads
  <2>9. ASSUME s.loadBalancer # Off, NEW n \in Range(s.loadBalancer.portNames)
        PROVE  Leads("LBService", ByName(s.ports, n))
    <3> DEFINE d == BalancedDesired(s)
               p == ByName(s.ports, n)
    <3>1. Wanted("LBService", s)
      BY <2>9 DEF Wanted
    <3>2. Made("LBService", s, c, obj["LBService"])
      BY <2>4, <3>1, OrderIs
    <3>3. /\ Range(s.loadBalancer.portNames) \subseteq NamesOf(s.ports)
          /\ Carries(obj["LBService"].ports, d, Over)
      BY <3>2 DEF Made
    <3>4. /\ NamesOf(d) = Range(s.loadBalancer.portNames)
          /\ ByName(d, n) = ServicePort(p)
      BY <2>9, <3>3, BalancedDesiredIs
    <3>5. p \in Range(s.ports) /\ p.name = n
      BY <2>5, <3>3, ByNameIs
    <3> HIDE DEF d, p
    <3>6. PICK ports, containers : ports = obj["LBService"].ports /\ containers = obj["Deployment"].ports
      OBVIOUS
    <3>7. Carries(ports, d, Over) /\ Carries(containers, s.ports, ContainerOver)
      BY <2>6, <3>3, <3>6
    <3>8. p.name \in NamesOf(d) /\ ByName(d, p.name) = ServicePort(p)
      BY <3>4, <3>5
    <3>9. Leads("LBService", p)
      BY <3>5, <3>6, <3>7, <3>8, CarriedLeads DEF Leads
    <3> QED BY <3>9 DEF p
  <2>10. ASSUME s.ingress # Off, s.ingress.portName = "",
                NEW r \in Range(obj["IngressRoute"].routes), r.service = "app"
         PROVE  r.port \in NamesOf(PortsOf(obj["Service"]))
    <3> DEFINE port == PortName(s.ingress.portName, s.ports, {"http", "web"})
    <3>1. Wanted("IngressRoute", s)
      BY <2>10 DEF Wanted
    <3>2. Made("IngressRoute", s, c, obj["IngressRoute"])
      BY <2>4, <3>1, OrderIs
    <3>3. obj["IngressRoute"] = IngressRoute(s, c) /\ IngressRoute(s, c) # Refused
      BY <3>2 DEF Made
    <3>4. port # "" /\ IngressRoute(s, c) = [routes |-> Routes(s, c, port)]
      BY <2>10, <3>3, IngressRouteStored
    <3>5. port \in NamesOf(s.ports)
      <4>1. s.ingress.portName \in STRING
        BY <2>10, SpecAssumption DEF IsIngress
      <4> QED BY <2>10, <3>4, <4>1, PortNameIs
    <3> HIDE DEF port
    <3>6. r \in Range(Routes(s, c, port))
      <4>1. [routes |-> Routes(s, c, port)].routes = Routes(s, c, port)
        OBVIOUS
      <4>2. obj["IngressRoute"].routes = Routes(s, c, port)
        BY <3>3, <3>4, <4>1
      <4> QED BY <2>10, <4>2
    <3>7. r.port = port \/ r.service = c.authService
      <4> DEFINE ms == IF s.ingress.middlewares # << >> THEN s.ingress.middlewares
                       ELSE c.middlewares
                 Route(rule, mw, svc, p) ==
                   [rule |-> rule, middlewares |-> mw, service |-> svc, port |-> p]
      <4>1. Range(Routes(s, c, port)) =
              IF s.ingress.auth = Off THEN {Route(AnyPath, ms, "app", port)}
              ELSE {Route(PathPrefix(c.authPrefix), ms, c.authService, c.authPort)}
                     \cup { Route(RuleFor(e), ms, "app", port) : e \in Range(s.ingress.auth) }
                     \cup {Route(AnyPath, Append(ms, c.authMiddleware), "app", port)}
        BY <2>10, RoutesAre
      <4> QED BY <3>6, <4>1
    <3>8. r.port = port
      BY <2>10, <3>7
    <3>9. s.ports # << >>
      BY <3>5 DEF NamesOf, Range
    <3>10. NamesOf(obj["Service"].ports) = NamesOf(s.ports) /\ obj["Service"] # NoObj
      BY <2>7, <3>9, ServiceDesiredIs DEF Carries
    <3> QED BY <3>5, <3>8, <3>10 DEF PortsOf
  <2>11. ASSUME s.metrics # Off, s.metrics.portName = ""
         PROVE  obj["PodMonitor"].port \in NamesOf(obj["Deployment"].ports)
    <3> DEFINE port == PortName(s.metrics.portName, s.ports, {"metrics", "prometheus"})
    <3>1. Wanted("PodMonitor", s)
      BY <2>11 DEF Wanted
    <3>2. Made("PodMonitor", s, c, obj["PodMonitor"])
      BY <2>4, <3>1, OrderIs
    <3>3. obj["PodMonitor"] = PodMonitor(s) /\ PodMonitor(s) # Refused
      BY <3>2 DEF Made
    <3>4. port # "" /\ PodMonitor(s).port = port
      BY <3>3 DEF PodMonitor
    <3>5. port \in NamesOf(s.ports)
      <4>1. s.metrics.portName \in STRING
        BY <2>11, SpecAssumption DEF IsMetrics
      <4> QED BY <2>11, <3>4, <4>1, PortNameIs
    <3> HIDE DEF port
    <3> QED BY <2>6, <3>3, <3>4, <3>5 DEF Carries
  <2> QED BY <2>2, <2>8, <2>9, <2>10, <2>11
<1>3. BInv(Kinds) => PortsLeadHome
  BY <1>2 DEF PortsLeadHome
<1> QED BY <1>1, <1>3, PTL

\* Which paths the rules match.
LEMMA MatchesIs ==
  ASSUME NEW path
  PROVE  /\ AnyPath.on = "any"
         /\ \A p : /\ PathPrefix(p).on # "any" /\ Path(p).on # "any"
                   /\ Matches(PathPrefix(p), path) <=> IsPrefix(p, path)
                   /\ Matches(Path(p), path) <=> p = path
<1>1. ASSUME NEW p
      PROVE  Matches(PathPrefix(p), path) <=> IsPrefix(p, path)
  <2>1. PathPrefix(p).on = "prefix" /\ PathPrefix(p).path = p
    BY DEF PathPrefix
  <2> QED BY <2>1 DEF Matches
<1>2. ASSUME NEW p
      PROVE  Matches(Path(p), path) <=> p = path
  <2>1. Path(p).on = "exact" /\ Path(p).path = p
    BY DEF Path
  <2> QED BY <2>1 DEF Matches
<1>3. AnyPath.on = "any" /\ \A p : PathPrefix(p).on # "any" /\ Path(p).on # "any"
  BY DEF AnyPath, PathPrefix, Path
<1> QED BY <1>1, <1>2, <1>3

\* The route that is chosen matches, and is not one for everything if another one matches.
LEMMA ChosenIs ==
  ASSUME NEW routes, NEW path, NEW r \in Chosen(routes, path)
  PROVE  /\ r \in Range(routes) /\ Matches(r.rule, path)
         /\ \A t \in Range(routes) :
              Matches(t.rule, path) /\ t.rule.on # "any" => r.rule.on # "any"
BY DEF Chosen

\* If no Application and no flag asks for the authentication middleware on its own, requests
\* are routed as the Application asks: none past the authentication that is not excluded.
THEOREM Routed ==
  ASSUME \A c \in Configs :
           /\ c.authMiddleware \notin Range(c.middlewares)
           /\ \A s \in Specs : s.ingress # Off =>
                c.authMiddleware \notin Range(s.ingress.middlewares)
  PROVE  Spec => []RoutedAsAsked
<1> DEFINE K == {"IngressRoute"}
<1>0. /\ Init => BInv(K)
      /\ BInv(K) /\ [Next]_vars => BInv(K)'
  <2>1. K \in SUBSET Kinds /\ K \cap Ported = {}
    BY OrderIs DEF Ported
  <2> QED BY <2>1, BInvInductive
<1>1. Spec => []BInv(K)
  BY <1>0, PTL DEF Spec
<1>2. ASSUME BInv(K), Applied, copy.ingress # Off,
             NEW path \in RequestPaths, NEW r \in Chosen(obj["IngressRoute"].routes, path)
      PROVE  LET auth     == copy.ingress.auth
                 excluded == auth # Off /\ \E e \in Range(auth) :
                               e = path \/ (Last(e) = "/" /\ IsPrefix(e, path))
                 signIn   == auth # Off /\ IsPrefix(config.authPrefix, path)
                 guarded  == config.authMiddleware \in Range(r.middlewares)
             IN  /\ (signIn /\ ~excluded) => r.service = config.authService /\ ~guarded
                 /\ ~signIn => r.service = "app" /\ (guarded <=> auth # Off /\ ~excluded)
  <2>1. copy \in Specs /\ config \in Configs
    BY <1>2 DEF BInv, ShapeInv, TypeOK
  <2>2. PICK s \in Specs : s = copy
    BY <2>1
  <2>3. PICK c \in Configs : c = config
    BY <2>1
  <2> DEFINE ing == s.ingress
             auth == ing.auth
             port == PortName(ing.portName, s.ports, {"http", "web"})
             ms == IF ing.middlewares # << >> THEN ing.middlewares ELSE c.middlewares
             Route(rule, mw, svc, p) ==
               [rule |-> rule, middlewares |-> mw, service |-> svc, port |-> p]
             routes == Routes(s, c, port)
             Open(e) == e = path \/ (Last(e) = "/" /\ IsPrefix(e, path))
             excluded == auth # Off /\ \E e \in Range(auth) : Open(e)
             signIn == auth # Off /\ IsPrefix(c.authPrefix, path)
             guarded == c.authMiddleware \in Range(r.middlewares)
             first == Route(PathPrefix(c.authPrefix), ms, c.authService, c.authPort)
             X(e) == Route(RuleFor(e), ms, "app", port)
             last == Route(AnyPath, Append(ms, c.authMiddleware), "app", port)
             one == Route(AnyPath, ms, "app", port)
  <2>4. ing # Off /\ obj["IngressRoute"].routes = routes
    <3>1. Wanted("IngressRoute", copy) /\ Done("IngressRoute")
      BY <1>2 DEF Wanted, Done, Applied
    <3>2. Made("IngressRoute", copy, config, obj["IngressRoute"])
      BY <1>2, <3>1 DEF BInv, Brought
    <3>3. obj["IngressRoute"] = IngressRoute(s, c) /\ IngressRoute(s, c) # Refused
      BY <2>2, <2>3, <3>2 DEF Made
    <3>4. IngressRoute(s, c) = [routes |-> routes]
      BY <1>2, <2>2, <3>3, IngressRouteStored
    <3>5. [routes |-> routes].routes = routes
      OBVIOUS
    <3> HIDE DEF routes
    <3> QED BY <1>2, <2>2, <3>3, <3>4, <3>5
  <2>5. ms \in Seq(STRING) /\ c.authMiddleware \in STRING /\ c.authMiddleware \notin Range(ms)
    <3>1. ing.middlewares \in Seq(STRING)
      BY <2>4, SpecAssumption DEF IsIngress
    <3>2. c.middlewares \in Seq(STRING) /\ c.authMiddleware \in STRING
      BY SpecAssumption DEF IsConfig
    <3> QED BY <2>4, <3>1, <3>2
  <2>6. c.authMiddleware \in Range(Append(ms, c.authMiddleware))
    BY <2>5, AppendRange
  <2>7. Range(routes) = IF auth = Off THEN {one}
                        ELSE {first} \cup { X(e) : e \in Range(auth) } \cup {last}
    BY <2>4, RoutesAre
  <2>8. /\ first.rule = PathPrefix(c.authPrefix) /\ first.middlewares = ms
        /\ first.service = c.authService
        /\ last.rule = AnyPath /\ last.middlewares = Append(ms, c.authMiddleware)
        /\ last.service = "app"
        /\ one.middlewares = ms /\ one.service = "app"
        /\ \A e : X(e).rule = RuleFor(e) /\ X(e).middlewares = ms /\ X(e).service = "app"
    OBVIOUS
  <2> HIDE DEF routes, first, X, last, one, ms
  <2>9. /\ r \in Range(routes) /\ Matches(r.rule, path)
        /\ \A t \in Range(routes) :
             Matches(t.rule, path) /\ t.rule.on # "any" => r.rule.on # "any"
    BY <1>2, <2>4, ChosenIs
  <2>10. /\ \A e : (Matches(RuleFor(e), path) <=> Open(e)) /\ RuleFor(e).on # "any"
         /\ Matches(PathPrefix(c.authPrefix), path) <=> IsPrefix(c.authPrefix, path)
    <3>1. IsPrefix(path, path)
      <4>1. path \in Seq(STRING)
        BY SpecAssumption
      <4> QED BY <4>1 DEF IsPrefix
    <3> QED BY <3>1, MatchesIs DEF RuleFor
  <2>11. CASE auth = Off
    <3>1. r = one
      BY <2>7, <2>9, <2>11
    <3> QED BY <2>2, <2>3, <2>5, <2>8, <2>11, <3>1
  <2>12. CASE auth # Off /\ r = first
    <3>1. signIn /\ ~guarded /\ r.service = c.authService
      BY <2>5, <2>8, <2>9, <2>10, <2>12
    <3> QED BY <2>2, <2>3, <3>1
  <2>13. CASE auth # Off /\ \E e \in Range(auth) : r = X(e)
    <3>1. excluded /\ ~guarded /\ r.service = "app"
      BY <2>5, <2>8, <2>9, <2>10, <2>13
    <3> QED BY <2>2, <2>3, <3>1
  <2>14. CASE auth # Off /\ r = last
    <3>1. r.rule.on = "any"
      BY <2>8, <2>14, MatchesIs
    <3>2. ~signIn
      <4>1. first \in Range(routes) /\ first.rule.on # "any"
        BY <2>7, <2>8, <2>14, MatchesIs
      <4> QED BY <2>8, <2>9, <2>10, <3>1, <4>1
    <3>3. ~excluded
      <4>1. ASSUME NEW e \in Range(auth), Open(e)
            PROVE  FALSE
        <5>1. X(e) \in Range(routes) /\ X(e).rule.on # "any" /\ Matches(X(e).rule, path)
          BY <2>7, <2>8, <2>10, <2>14, <4>1
        <5> QED BY <2>9, <3>1, <5>1
      <4> QED BY <4>1
    <3>4. guarded /\ r.service = "app"
      BY <2>6, <2>8, <2>14
    <3> QED BY <2>2, <2>3, <2>14, <3>2, <3>3, <3>4
  <2> QED BY <2>7, <2>9, <2>11, <2>12, <2>13, <2>14
<1>3. BInv(K) => RoutedAsAsked
  BY <1>2 DEF RoutedAsAsked
<1> QED BY <1>1, <1>3, PTL

=============================================================================
