------------------------------ MODULE Builders ------------------------------
(***************************************************************************)
(* The objects that one Application's spec is turned into (internal/       *)
(* controller: service.go, lbservice.go, podmonitor.go, ingress_route.go,  *)
(* cronjob.go, deployment.go), over a history of edits.                    *)
(*                                                                         *)
(* A mutator does not make an object from the spec alone: it starts from   *)
(* the object there is, overwrites some fields, merges others and leaves   *)
(* the rest, and the API server rejects or completes the result.  What a   *)
(* spec leads to may therefore depend on the specs before it.              *)
(*                                                                         *)
(* Interference and failing calls are the subject of Reconciler; here a    *)
(* stage reads, mutates and writes in one step.  Names and labels, which   *)
(* are the same in every spec, and the image are left out.                 *)
(***************************************************************************)
EXTENDS Ports

CONSTANTS
  Specs,        \* the specs a user may write, see Spec below
  Configs,      \* the flags of the process, see IsConfig below
  RequestPaths, \* paths that clients request: sequences of words and slashes
  MaxEdits,     \* bound on edits and restarts
  NoObj,        \* there is no such object
  Refused,      \* what a mutator returns instead of an object
  Off           \* a section that the spec leaves out or does not enable

Order == << "Service", "LBService", "PodMonitor", "IngressRoute", "CronJob", "Deployment" >>

Kinds == { Order[i] : i \in DOMAIN Order }

\* A spec: the ports; the host's network; the security context (0 when unset); everything
\* that Deployment and CronJob overwrite as a whole (command, env, probe, resources,
\* volumes, node selector, runtime class); the optional sections.
SpecFields == {"ports", "hostNetwork", "security", "pod",
               "loadBalancer", "metrics", "ingress", "cronJob"}

\* The sections.  A host is good or not; paths are sequences of words and slashes.
IsIngress(i) ==
  /\ DOMAIN i = {"goodHost", "portName", "middlewares", "auth"}
  /\ i.goodHost \in BOOLEAN /\ i.portName \in STRING /\ i.middlewares \in Seq(STRING)
  /\ i.auth # Off => i.auth \in Seq(Seq(STRING) \ {<< >>})

IsLoadBalancer(l) ==
  /\ DOMAIN l = {"host", "portNames"}
  /\ l.portNames \in Seq(STRING) \ {<< >>}
  /\ Len(l.portNames) <= Cardinality(NodePorts)   \* the node ports never run out

IsMetrics(m) == m \in [portName : STRING, path : STRING]

IsConfig(c) ==
  /\ DOMAIN c = {"authPrefix", "authService", "authPort", "authMiddleware", "middlewares"}
  /\ c.authPrefix \in Seq(STRING) /\ c.middlewares \in Seq(STRING)
  /\ {c.authService, c.authPort, c.authMiddleware} \subseteq STRING

ASSUME SpecAssumption ==
  /\ RequestPaths \subseteq Seq(STRING)
  /\ MaxEdits \in Nat
  /\ \A c \in Configs : IsConfig(c)
  /\ \A s \in Specs :
     /\ DOMAIN s = SpecFields
     /\ s.ports \in Seq([name : STRING, containerPort : Nat, protocol : {"TCP", "UDP"},
                         hostPort : Nat])
     /\ \A i, j \in DOMAIN s.ports :    \* the list map of the CRD
           (s.ports[i].containerPort = s.ports[j].containerPort
              /\ s.ports[i].protocol = s.ports[j].protocol) => i = j
     /\ s.hostNetwork \in BOOLEAN
     /\ {s.security, s.pod} \subseteq Nat
     /\ s.ingress # Off => IsIngress(s.ingress)
     /\ s.loadBalancer # Off => IsLoadBalancer(s.loadBalancer)
     /\ s.metrics # Off => IsMetrics(s.metrics)

\* The objects there may be of each kind.
Names == UNION { NamesOf(s.ports) : s \in Specs }

Targets == [name : Names \cup {""}, number : Nat]

ServicePorts(nodePorts) ==
  [name : Names, port : Nat, protocol : {"TCP", "UDP"}, target : Targets, nodePort : nodePorts]

ContainerPorts ==
  [name : Names, containerPort : Nat, protocol : {"TCP", "UDP"}, hostPort : Nat]

Containers == [pod : Nat, complete : {TRUE}]

RoutesTo ==
  [rule : [on : {"any", "prefix", "exact"}, path : Seq(STRING)],
   middlewares : Seq(STRING), service : {"app"} \cup { c.authService : c \in Configs },
   port : STRING \ {""}]

MetricsPaths == {"/metrics"} \cup { s.metrics.path : s \in { t \in Specs : t.metrics # Off } }

ObjectsOf(k) ==
  CASE k = "Service"      -> [ports : Seq(ServicePorts({0}))]
    [] k = "LBService"    -> [host  : { s.loadBalancer.host : s \in { t \in Specs : t.loadBalancer # Off } },
                              ports : Seq(ServicePorts(NodePorts))]
    [] k = "PodMonitor"   -> [port : STRING \ {""}, path : MetricsPaths \ {""}]
    [] k = "IngressRoute" -> [routes : Seq(RoutesTo)]
    [] k = "CronJob"      -> [schedule : { s.cronJob : s \in Specs }, container : Containers,
                              security : Nat]
    [] k = "Deployment"   -> [ports : Seq(ContainerPorts), container : Containers,
                              hostNetwork : BOOLEAN, security : Nat]

ASSUME NoObjAssumption == \A k \in Kinds : NoObj \notin ObjectsOf(k)

VARIABLES
  spec,     \* the Application's spec
  config,   \* the flags the process was started with
  obj,      \* the object of each kind, or NoObj
  copy,     \* the spec Reconcile works on
  stage,    \* index into Order; 0 between calls
  outcome,  \* how the last Reconcile ended: "applied", "refused" by a mutator,
            \* "rejected" by the API server, or "none"
  left      \* edits and restarts that may still happen

vars == << spec, config, obj, copy, stage, outcome, left >>

-----------------------------------------------------------------------------
(***************************************************************************)
(* The mutators                                                            *)
(***************************************************************************)

PortsOf(o) == IF o = NoObj THEN << >> ELSE o.ports

\* The first port with one of these names, which podmonitor.go and ingress_route.go look
\* for when the spec names none; "" when there is none.
Guess(ports, names) ==
  LET found == Selected(ports, names)
  IN  IF found = << >> THEN "" ELSE found[1].name

PortName(explicit, ports, names) == IF explicit # "" THEN explicit ELSE Guess(ports, names)

Service(s, o) ==
  [ports |-> MergeServicePorts(PortsOf(o), [i \in DOMAIN s.ports |-> ServicePort(s.ports[i])])]

LBService(s, o) ==
  LET wanted == s.loadBalancer.portNames
  IN  IF Range(wanted) \subseteq NamesOf(s.ports)
      THEN [host  |-> s.loadBalancer.host,
            ports |-> MergeServicePorts(PortsOf(o),
                        [i \in DOMAIN wanted |-> ServicePort(ByName(s.ports, wanted[i]))])]
      ELSE Refused

PodMonitorWithoutPath(s) ==
  LET port == PortName(s.metrics.portName, s.ports, {"metrics", "prometheus"})
  IN  IF port = "" THEN Refused ELSE [port |-> port, path |-> s.metrics.path]

\* The first port that looks like metrics unless the spec names one, and the usual path;
\* before it a variant without a default path.
PodMonitor(s) ==
  LET port == PortName(s.metrics.portName, s.ports, {"metrics", "prometheus"})
  IN  IF port = "" THEN Refused
      ELSE [port |-> port, path |-> IF s.metrics.path = "" THEN "/metrics" ELSE s.metrics.path]

\* The rules a route of an IngressRoute may have, next to the host.
AnyPath       == [on |-> "any", path |-> << >>]
PathPrefix(p) == [on |-> "prefix", path |-> p]
Path(p)       == [on |-> "exact", path |-> p]

\* An excluded prefix that ends with a slash excludes all below it; and a variant that
\* always excludes just the path.
ExactRuleFor(p) == Path(p)
RuleFor(p) == IF Last(p) = "/" THEN PathPrefix(p) ELSE Path(p)

\* AuthConfig.Validate
AuthValid(c) ==
  /\ c.authPrefix # << >> /\ Head(c.authPrefix) = "/" /\ Last(c.authPrefix) = "/"
  /\ "" \notin {c.authService, c.authPort, c.authMiddleware}

\* The authentication service first, then the excluded paths, then everything else behind
\* the authentication middleware.
Routes(s, c, port) ==
  LET ing == s.ingress
      middlewares == IF ing.middlewares # << >> THEN ing.middlewares ELSE c.middlewares
      Route(rule, ms, svc, p) == [rule |-> rule, middlewares |-> ms, service |-> svc, port |-> p]
  IN  IF ing.auth = Off
      THEN << Route(AnyPath, middlewares, "app", port) >>
      ELSE << Route(PathPrefix(c.authPrefix), middlewares, c.authService, c.authPort) >>
             \o [i \in DOMAIN ing.auth |-> Route(RuleFor(ing.auth[i]), middlewares, "app", port)]
             \o << Route(AnyPath, Append(middlewares, c.authMiddleware), "app", port) >>

IngressRoute(s, c) ==
  LET port == PortName(s.ingress.portName, s.ports, {"http", "web"})
  IN  IF ~s.ingress.goodHost \/ port = "" \/ (s.ingress.auth # Off /\ ~AuthValid(c))
      THEN Refused
      ELSE [routes |-> Routes(s, c, port)]

\* Container settings that the API server completes with defaults: as the spec gives
\* them, or completed.
Bare(pod)    == [pod |-> pod, complete |-> FALSE]
Completed(c) == [c EXCEPT !.complete = TRUE]

\* The security context is written when there is one.
Security(s, o) == IF s.security # 0 THEN s.security ELSE IF o = NoObj THEN 0 ELSE o.security

CronJob(s, o) ==
  [schedule |-> s.cronJob, container |-> Bare(s.pod), security |-> Security(s, o)]

\* SetObjectDefaults_Deployment completes the container; and a variant without it.
BareDeployment(s, o) ==
  [ports       |-> MergeContainerPorts(PortsOf(o), s.ports),
   container   |-> Bare(s.pod),
   hostNetwork |-> s.hostNetwork \/ (o # NoObj /\ o.hostNetwork),
   security    |-> Security(s, o)]

Deployment(s, o) ==
  [ports       |-> MergeContainerPorts(PortsOf(o), s.ports),
   container   |-> Completed(Bare(s.pod)),
   hostNetwork |-> s.hostNetwork \/ (o # NoObj /\ o.hostNetwork),
   security    |-> Security(s, o)]

Wanted(k, s) ==
  CASE k = "Service"      -> s.ports # << >>
    [] k = "LBService"    -> s.loadBalancer # Off
    [] k = "PodMonitor"   -> s.metrics # Off
    [] k = "IngressRoute" -> s.ingress # Off
    [] k = "CronJob"      -> s.cronJob # Off
    [] k = "Deployment"   -> TRUE

\* What the mutator of kind k makes of o.
Mutated(k, s, c, o) ==
  CASE k = "Service"      -> Service(s, o)
    [] k = "LBService"    -> LBService(s, o)
    [] k = "PodMonitor"   -> PodMonitor(s)
    [] k = "IngressRoute" -> IngressRoute(s, c)
    [] k = "CronJob"      -> CronJob(s, o)
    [] k = "Deployment"   -> Deployment(s, o)

-----------------------------------------------------------------------------
(***************************************************************************)
(* The API server                                                          *)
(***************************************************************************)

Valid(k, o) ==
  CASE k \in {"Service", "LBService"} -> ValidServicePorts(o.ports)
    [] k = "Deployment"               -> ValidContainerPorts(o.ports, o.hostNetwork)
    [] OTHER                          -> TRUE

Stored(k, o) ==
  CASE k = "Service"   -> [o EXCEPT !.ports = DefaultTargets(@)]
    [] k = "LBService" -> [o EXCEPT !.ports = GiveNodePorts(DefaultTargets(@))]
    [] k \in {"CronJob", "Deployment"} -> [o EXCEPT !.container = Completed(@)]
    [] OTHER           -> o

-----------------------------------------------------------------------------
(***************************************************************************)
(* Reconcile, users, the process                                           *)
(***************************************************************************)

Init ==
  /\ spec \in Specs
  /\ config \in Configs
  /\ obj = [k \in Kinds |-> NoObj]
  /\ copy = spec
  /\ stage = 0
  /\ outcome = "none"
  /\ left = MaxEdits

Begin ==
  /\ stage = 0
  /\ copy' = spec
  /\ stage' = 1
  /\ outcome' = "none"
  /\ UNCHANGED << spec, config, obj, left >>

Fail(how) ==
  /\ stage' = 0
  /\ outcome' = how
  /\ UNCHANGED obj

Succeed(k, o) ==
  /\ obj' = [obj EXCEPT ![k] = o]
  /\ stage' = IF stage = Len(Order) THEN 0 ELSE stage + 1
  /\ outcome' = IF stage = Len(Order) THEN "applied" ELSE "none"

\* A stage: the object is brought to what the spec asks for, or removed; the first stage
\* that cannot do it ends Reconcile.
Stage ==
  /\ stage > 0
  /\ LET k   == Order[stage]
         new == Mutated(k, copy, config, obj[k])
     IN  IF ~Wanted(k, copy) THEN Succeed(k, NoObj)
         ELSE IF new = Refused THEN Fail("refused")
         ELSE IF ~Valid(k, new) THEN Fail("rejected")
         ELSE Succeed(k, Stored(k, new))
  /\ UNCHANGED << spec, config, copy, left >>

Edit(s) ==
  /\ left > 0
  /\ left' = left - 1
  /\ spec' = s
  /\ UNCHANGED << config, obj, copy, stage, outcome >>

\* The process starts again, with other flags, and reconciles anew.
Restart(c) ==
  /\ left > 0
  /\ left' = left - 1
  /\ config' = c
  /\ stage' = 0
  /\ outcome' = "none"
  /\ UNCHANGED << spec, obj, copy >>

Next ==
  \/ Begin \/ Stage
  \/ \E s \in Specs \ {spec} : Edit(s)
  \/ \E c \in Configs \ {config} : Restart(c)

Spec == Init /\ [][Next]_vars

-----------------------------------------------------------------------------
(***************************************************************************)
(* Properties                                                              *)
(***************************************************************************)

Targeted(ports) == \A p \in Range(ports) : p.target # Named("")

\* Each object has the fields and values its builder and the API server give it: no
\* service port without a target, no monitor without a path, nothing incomplete.
TypeOK ==
  /\ spec \in Specs /\ copy \in Specs
  /\ config \in Configs
  /\ DOMAIN obj = Kinds
  /\ \A k \in Kinds : obj[k] \in ObjectsOf(k) \cup {NoObj}
  /\ \A k \in {"Service", "LBService"} : Targeted(PortsOf(obj[k]))
  /\ stage \in 0..Len(Order)
  /\ outcome \in {"none", "applied", "refused", "rejected"}
  /\ left \in 0..MaxEdits

Applied == outcome = "applied"

\* The object as the spec alone determines it: without the order of ports, and without
\* what the API server gives or the merges and builders keep: a Service port's own number
\* and node port, host ports, the host's network and the security context once set.
Essence(k, o) ==
  LET PortEssence(p) == IF k = "Deployment" THEN << p.name, p.containerPort, p.protocol >>
                        ELSE << p.name, p.target, p.protocol >>
  IN  [f \in DOMAIN o \ {"hostNetwork", "security"} |->
         IF f = "ports" THEN { PortEssence(p) : p \in Range(o.ports) } ELSE o[f]]

\* An Application that was edited ends up with the objects of one that was created as it
\* is now: nothing of a former spec is left over and nothing of the present one is
\* missing, whatever stages failed on the way (Reconcile, the mutators).
AsIfNew ==
  Applied => \A k \in Kinds :
    IF Wanted(k, copy)
    THEN /\ obj[k] # NoObj
         /\ Essence(k, obj[k]) = Essence(k, Stored(k, Mutated(k, copy, config, NoObj)))
    ELSE obj[k] = NoObj

\* A Reconcile after one that succeeded has nothing to patch: with defaults, kept ports
\* and node ports in place the mutators leave their objects alone (the reason for
\* SetObjectDefaults_Deployment; deployment_test.go, "does not keep overwriting defaults
\* for Probes").  CronJobs, whose mutator has no such call, are patched every time.
NothingToPatch ==
  Applied => \A k \in Kinds \ {"CronJob"} :
    obj[k] # NoObj => Mutated(k, copy, config, obj[k]) = obj[k]

\* A port of the spec can be reached through the object of kind k, where the spec has it.
Leads(k, p) ==
  \E sp \in Range(obj[k].ports) :
    /\ sp.name = p.name
    /\ { << c.containerPort, c.protocol >> : c \in Reached(sp, obj["Deployment"].ports) }
         = { << p.containerPort, p.protocol >> }

\* Every port of the spec is reached through the Service, and those the load balancer
\* names through its Service; routes and monitor name a port there is, unless the spec
\* itself names another (serviceMutator, lbServiceMutator, deploymentMutator).
PortsLeadHome ==
  Applied =>
    /\ \A p \in Range(copy.ports) : Leads("Service", p)
    /\ copy.loadBalancer # Off =>
         \A n \in Range(copy.loadBalancer.portNames) : Leads("LBService", ByName(copy.ports, n))
    /\ (copy.ingress # Off /\ copy.ingress.portName = "") =>
         \A r \in Range(obj["IngressRoute"].routes) :
            r.service = "app" => r.port \in NamesOf(PortsOf(obj["Service"]))
    /\ (copy.metrics # Off /\ copy.metrics.portName = "") =>
         obj["PodMonitor"].port \in NamesOf(obj["Deployment"].ports)

\* What clients dial stays what it was as long as the port stays: a patch changes neither
\* number nor node port of a service port (reconcileServicePorts).
StableAddresses ==
  [][ \A k \in {"Service", "LBService"} :
        \A p \in Range(PortsOf(obj[k])), q \in Range(PortsOf(obj'[k])) :
           p.name = q.name => p.port = q.port /\ p.nodePort = q.nodePort ]_vars

\* Traefik prefers the longer rule, so a rule for a path beats the one for the host alone;
\* between two rules for paths the lengths of strings decide, which are not modelled.
Matches(rule, path) ==
  CASE rule.on = "any"    -> TRUE
    [] rule.on = "prefix" -> IsPrefix(rule.path, path)
    [] rule.on = "exact"  -> rule.path = path

Chosen(routes, path) ==
  LET matching == { r \in Range(routes) : Matches(r.rule, path) }
      special  == { r \in matching : r.rule.on # "any" }
  IN  IF special # {} THEN special ELSE matching

\* Requests are routed as the Application asks: below the authentication prefix to the
\* authentication service, everything else to the Application, through the authentication
\* middleware unless the path is excluded.  An entry with a trailing slash excludes all that
\* is below it, any other itself only: so the code and ingress_route_test.go:206, while the
\* API's comment (application_types.go:321) calls every entry a prefix.  (A path that is
\* excluded and below the prefix is left open.)
RoutedAsAsked ==
  (Applied /\ copy.ingress # Off) =>
    \A path \in RequestPaths : \A r \in Chosen(obj["IngressRoute"].routes, path) :
      LET auth     == copy.ingress.auth
          excluded == auth # Off /\ \E e \in Range(auth) :
                        e = path \/ (Last(e) = "/" /\ IsPrefix(e, path))
          signIn   == auth # Off /\ IsPrefix(config.authPrefix, path)
          guarded  == config.authMiddleware \in Range(r.middlewares)
      IN  /\ (signIn /\ ~excluded) => r.service = config.authService /\ ~guarded
          /\ ~signIn => r.service = "app" /\ (guarded <=> auth # Off /\ ~excluded)

=============================================================================
