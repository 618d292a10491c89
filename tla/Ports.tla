------------------------------- MODULE Ports -------------------------------
(***************************************************************************)
(* The port lists of Deployments and Services (internal/controller/        *)
(* deployment.go, service.go, lbservice.go): how the list an object has is *)
(* brought to what the Application asks for, and what the API server then  *)
(* makes of it.                                                            *)
(*                                                                         *)
(* A container port is a record [name, containerPort, protocol, hostPort], *)
(* a service port a record [name, port, protocol, target, nodePort].  The  *)
(* target is the name or the number of a container port.  An absent name   *)
(* is "" and an absent number 0, as in Go.                                 *)
(***************************************************************************)
EXTENDS Integers, Sequences, FiniteSets, SequencesExt

CONSTANT NodePorts   \* the node ports there are; 0 stands for none

ASSUME NodePortAssumption == IsFiniteSet(NodePorts) /\ 0 \notin NodePorts

NamesOf(ports) == { p.name : p \in Range(ports) }

\* desiredPortsByName: of ports with the same name, the last.
ByName(ports, n) == ports[CHOOSE i \in DOMAIN ports :
                            /\ ports[i].name = n
                            /\ \A j \in DOMAIN ports : ports[j].name = n => j <= i]

\* The ports with one of these names, in their order.
Selected(ports, names) ==
  LET Upto[n \in 0..Len(ports)] ==
        IF n = 0 THEN << >>
        ELSE IF ports[n].name \in names THEN Append(Upto[n - 1], ports[n])
        ELSE Upto[n - 1]
  IN  Upto[Len(ports)]

\* A port whose fields "overwritten" are taken from the desired port of its name.
Updated(got, wanted, overwritten) ==
  [f \in DOMAIN got |-> IF f \in overwritten THEN wanted[f] ELSE got[f]]

\* The ports of an object keep their order and all but the fields that the merge
\* overwrites; those without a namesake among the desired go; new ones come last.  A list
\* that is still empty is replaced as it is.
Merge(actual, desired, overwritten) ==
  LET stay == Selected(actual, NamesOf(desired))
      new  == Selected(desired, NamesOf(desired) \ NamesOf(actual))
  IN  IF actual = << >> THEN desired
      ELSE [i \in DOMAIN stay |->
              Updated(stay[i], ByName(desired, stay[i].name), overwritten)] \o new

\* reconcileContainerPorts does not overwrite the host port; and a variant that leaves the
\* number alone, too.
MergeContainerPortsByName(actual, desired) == Merge(actual, desired, {"protocol"})

MergeContainerPorts(actual, desired) == Merge(actual, desired, {"containerPort", "protocol"})

\* reconcileServicePorts overwrites neither the port's own number nor the node port the API
\* server has given it; and variants that only add what is new or take the desired ports
\* as they are.
AddServicePorts(actual, desired) ==
  actual \o Selected(desired, NamesOf(desired) \ NamesOf(actual))

ReplaceServicePorts(actual, desired) == desired

MergeServicePorts(actual, desired) == Merge(actual, desired, {"target", "protocol"})

\* intstr.FromString, intstr.FromInt
Named(n)   == [name |-> n, number |-> 0]
Numbered(n) == [name |-> "", number |-> n]

\* The service port the builders make of a container port.
ServicePort(p) ==
  [name |-> p.name, port |-> p.containerPort, protocol |-> p.protocol,
   target |-> Named(p.name), nodePort |-> 0]

-----------------------------------------------------------------------------
(***************************************************************************)
(* The API server                                                          *)
(***************************************************************************)

\* A Service has ports; their numbers are positive; several need names; name and (number,
\* protocol) are unique.
ValidServicePorts(ports) ==
  /\ ports # << >>
  /\ \A p \in Range(ports) : p.port # 0
  /\ Len(ports) > 1 => "" \notin NamesOf(ports)
  /\ \A i, j \in DOMAIN ports : ports[i].name = ports[j].name => i = j
  /\ \A i, j \in DOMAIN ports :
       ports[i].port = ports[j].port /\ ports[i].protocol = ports[j].protocol => i = j

\* The numbers of a container's ports are positive, the names unique where there are any;
\* on the host's network a host port is the container's.
ValidContainerPorts(ports, hostNetwork) ==
  /\ \A p \in Range(ports) : p.containerPort # 0
  /\ \A i, j \in DOMAIN ports : ports[i].name = ports[j].name => i = j \/ ports[i].name = ""
  /\ hostNetwork => \A p \in Range(ports) : p.hostPort \in {0, p.containerPort}

\* A port without a target gets its own number for one.
DefaultTargets(ports) ==
  [i \in DOMAIN ports |-> IF ports[i].target = Named("")
                          THEN [ports[i] EXCEPT !.target = Numbered(ports[i].port)]
                          ELSE ports[i]]

\* The ports of a Service for a load balancer that have no node port get one each.
GiveNodePorts(ports) ==
  LET given == CHOOSE f \in [DOMAIN ports -> NodePorts] :
                 \A i, j \in DOMAIN ports :
                    /\ f[i] = f[j] => i = j
                    /\ ports[i].nodePort \in {0, f[i]}
  IN  [i \in DOMAIN ports |-> [ports[i] EXCEPT !.nodePort = given[i]]]

-----------------------------------------------------------------------------
(***************************************************************************)
(* Where a service port leads                                              *)
(***************************************************************************)

\* The container ports that traffic to a service port arrives at.
Reached(servicePort, containerPorts) ==
  { c \in Range(containerPorts) :
      /\ c.protocol = servicePort.protocol
      /\ IF servicePort.target.name # "" THEN c.name = servicePort.target.name
         ELSE c.containerPort = servicePort.target.number }

=============================================================================
