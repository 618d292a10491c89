----------------------------- MODULE MCBuilders -----------------------------
(***************************************************************************)
(* Instances of Builders for TLC: specs that differ in everything a        *)
(* builder merges, keeps, overwrites, guesses or refuses.                  *)
(***************************************************************************)
EXTENDS Builders

Port(n, p)  == [name |-> n, containerPort |-> p, protocol |-> "TCP", hostPort |-> 0]
UdpPort(n, p) == [Port(n, p) EXCEPT !.protocol = "UDP"]

\* The spec of an Application that has only ports.
WithPorts(ps) ==
  [ports |-> ps, hostNetwork |-> FALSE, security |-> 0, pod |-> 1,
   loadBalancer |-> Off, metrics |-> Off, ingress |-> Off, cronJob |-> Off]

Ingress(port, auth) ==
  [goodHost |-> TRUE, portName |-> port, middlewares |-> << >>, auth |-> auth]

Metrics(port, path) == [portName |-> port, path |-> path]

Balanced(names) == [host |-> "lb", portNames |-> names]

api   == << "/", "api", "/" >>
hook  == << "/", "hook" >>
oauth == << "/", "oauth2", "/" >>

Paths == { << "/" >>, << "/", "api" >>, api, Append(api, "v1"), hook, hook \o << "/", "x" >>,
           oauth, Append(oauth, "sign_in") }

Flag(prefix, ms) ==
  [authPrefix |-> prefix, authService |-> "proxy", authPort |-> "auth",
   authMiddleware |-> "forward", middlewares |-> ms]

\* The second has a prefix that does not end with a slash.
Flags == { Flag(oauth, << "compress" >>), Flag(<< "/", "oauth2" >>, << >>) }

-----------------------------------------------------------------------------
\* Builders: two ports that change number, order, protocol, name and number of them;
\* sections that come, change and go; specs that mutators refuse.
BuilderSpecs ==
  { [WithPorts(<< Port("http", 80), Port("metrics", 90) >>)
       EXCEPT !.metrics = Metrics("", ""), !.ingress = Ingress("", << api, hook >>)],
    [WithPorts(<< Port("metrics", 91), Port("http", 80), UdpPort("dns", 53) >>)
       EXCEPT !.metrics = Metrics("metrics", "/m"), !.pod = 2, !.hostNetwork = TRUE,
              !.loadBalancer = Balanced(<< "dns", "http" >>)],
    [WithPorts(<< Port("web", 80), Port("dns", 53) >>)
       EXCEPT !.ingress = Ingress("", Off), !.security = 1,
              !.loadBalancer = Balanced(<< "dns" >>), !.cronJob = "daily"],
    [WithPorts(<< Port("http", 90), Port("metrics", 80) >>)
       EXCEPT !.ingress = [Ingress("http", << >>) EXCEPT !.middlewares = << "gzip" >>],
              !.security = 2, !.cronJob = "hourly"],
    [WithPorts(<< >>) EXCEPT !.pod = 3, !.cronJob = "daily"],
    [WithPorts(<< Port("rpc", 70), Port("http", 81) >>)
       EXCEPT !.metrics = Metrics("", ""), !.loadBalancer = Balanced(<< "rpc" >>)],
    [WithPorts(<< Port("http", 80), Port("web", 82), Port("rpc", 81) >>)
       EXCEPT !.ingress = Ingress("", << oauth >>), !.loadBalancer = Balanced(<< "rpc", "web" >>)],
    [WithPorts(<< Port("http", 80) >>)
       EXCEPT !.ingress = [Ingress("http", Off) EXCEPT !.goodHost = FALSE],
              !.loadBalancer = Balanced(<< "http" >>)] }

=============================================================================
