--------------------------- MODULE MCImageFinder ---------------------------
(***************************************************************************)
(* An instance of ImageFinder for TLC: two tags for the same version, an   *)
(* older and a newer one, a moving tag; constraints that accept the newest *)
(* version, all but the newest, two apart, or none.                        *)
(***************************************************************************)
EXTENDS ImageFinder, TLC

Ranks == ("1.1.0" :> 1) @@ ("1.2" :> 2) @@ ("v1.2.0" :> 2) @@ ("2.0.0" :> 3)

AllTags == DOMAIN Ranks \cup {"latest"}

ByTag(t)     == [strategy |-> "Digest", digest |-> t, semver |-> Absent]
ByVersion(c) == [strategy |-> "SemVer", digest |-> Absent, semver |-> c]

\* Also the specs the CRD lets through and the finder refuses, and a strategy that only an
\* older CRD would.
Specs ==
  { ByTag(t) : t \in {"latest", "", Absent} }
    \cup { ByVersion(c) : c \in {1..3, {1, 2}, {1, 3}, {4}, Malformed, Absent} }
    \cup { [ByTag("latest") EXCEPT !.strategy = "Newest"] }

Times == [call |-> 2, push |-> 2, untag |-> 2, fault |-> 1]

=============================================================================
