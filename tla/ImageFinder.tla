---------------------------- MODULE ImageFinder ----------------------------
(***************************************************************************)
(* One FindImage of the image finder (internal/images/imagefinder.go,      *)
(* imageref.go) against a registry that changes under it.                  *)
(*                                                                         *)
(* A lookup by version takes two calls of the registry, one for the list   *)
(* of tags and one for the digest of the tag chosen, and tags come, move   *)
(* and go in between.  The list itself is taken to be one consistent       *)
(* answer, as it is for a repository whose tags fit on one page.           *)
(***************************************************************************)
EXTENDS Integers, Sequences, SequencesExt

CONSTANTS
  Tags,       \* the tags of the repository
  Rank,       \* the tags that are like a semantic version, each with its precedence
  Movable,    \* the tags that may be pushed again for another image
  Requests,   \* image specs: [strategy, digest, semver]
  Budget,     \* how often each environment event may happen
  Absent,     \* a section of the spec that is nil
  Malformed,  \* a constraint that does not parse
  NoImage,    \* "suitable image not found"
  Error,      \* every other error
  NoAnswer    \* no call has returned yet

Events == {"call", "push", "untag", "fault"}

Versions == DOMAIN Rank

\* A digest section names a tag, maybe the empty one; a constraint accepts precedences.
ASSUME FinderAssumption ==
  /\ IsFiniteSet(Versions) /\ Versions \subseteq Tags
  /\ Rank \in [Versions -> Nat]
  /\ "latest" \in Tags
  /\ \A r \in Requests :
       /\ DOMAIN r = {"strategy", "digest", "semver"}
       /\ r.digest \in Tags \cup {"", Absent}
       /\ r.semver \in {Malformed, Absent} \/ r.semver \subseteq Nat
  /\ "" \notin Tags /\ Absent \notin Tags \cup {""}
  /\ NoImage # Error /\ NoAnswer \notin {NoImage, Error}
  /\ Budget \in [Events -> Nat]

Answers == [tag : Tags \cup {""}, digest : Nat]

\* FindImage returns an image or an error, never both.
ASSUME AnswerAssumption == {NoImage, Error, NoAnswer} \cap Answers = {}

VARIABLES
  registry,   \* the image each tag stands for, as a number; 0 when there is no such tag
  at,         \* the call FindImage is at
  request,    \* the spec it was given
  tag,        \* the tag whose digest it wants
  answer,     \* what the last FindImage returned
  atOnce,     \* history: what it could have returned at one moment of its run or another,
              \* had it taken no time
  excused,    \* history: the registry failed or lost a tag meanwhile
  left        \* environment events that may still happen

callVars == << at, request, tag, answer >>
vars     == << registry, callVars, atOnce, excused, left >>

TypeOK ==
  /\ registry \in [Tags -> Nat]
  /\ at \in {"idle", "list", "digest"}
  /\ request \in Requests \cup {Absent}
  /\ tag \in Tags \cup {""}
  /\ answer \in Answers \cup {NoImage, Error, NoAnswer}
  /\ atOnce \subseteq Answers \cup {NoImage, Error}
  /\ excused \in BOOLEAN
  /\ left \in [Events -> Nat]

Init ==
  /\ registry \in [Tags -> {0, 1}]
  /\ at = "idle"
  /\ request = Absent
  /\ tag = ""
  /\ answer = NoAnswer
  /\ atOnce = {}
  /\ excused = FALSE
  /\ left = Budget

Spend(e) == left[e] > 0 /\ left' = [left EXCEPT ![e] = @ - 1]

-----------------------------------------------------------------------------
(***************************************************************************)
(* What the code computes                                                  *)
(***************************************************************************)

\* ImageRef.String: no tag and no digest stand for "latest".
Referred(t) == IF t = "" THEN "latest" ELSE t

\* Neither strategy, or the section the strategy needs is missing or does not parse.
Refused(r) ==
  \/ r.strategy \notin {"Digest", "SemVer"}
  \/ r.strategy = "Digest" /\ r.digest = Absent
  \/ r.strategy = "SemVer" /\ r.semver \in {Absent, Malformed}

Listed(reg) == { t \in Tags : reg[t] # 0 }

\* sort.Sort(sort.Reverse(...)) puts the versions in descending order and is not stable:
\* "1.2" and "v1.2.0" may come either way.  And variants that forget to reverse, or stumble
\* over tags that are no versions.
Ascending(tags) ==
  { s \in SetToSeqs(tags \cap Versions) : \A i, j \in DOMAIN s : i < j => Rank[s[i]] <= Rank[s[j]] }

Sorted(tags) ==
  { s \in SetToSeqs(tags \cap Versions) : \A i, j \in DOMAIN s : i < j => Rank[s[i]] >= Rank[s[j]] }

\* The first version that the constraint accepts, or "" when none does; and a variant that
\* looks at the first only.
NewestIf(s, constraint) ==
  IF s # << >> /\ Rank[s[1]] \in constraint THEN s[1] ELSE ""

First(s, constraint) ==
  LET accepted == { i \in DOMAIN s : Rank[s[i]] \in constraint }
  IN  IF accepted = {} THEN ""
      ELSE s[CHOOSE i \in accepted : \A j \in accepted : i <= j]

-----------------------------------------------------------------------------
(***************************************************************************)
(* What a lookup that takes no time may answer                             *)
(***************************************************************************)

Matching(reg, r) == { t \in Versions : reg[t] # 0 /\ Rank[t] \in r.semver }

Newest(reg, r) == { t \in Matching(reg, r) : \A u \in Matching(reg, r) : Rank[u] <= Rank[t] }

Instant(reg, r) ==
  IF Refused(r) THEN {Error}
  ELSE IF r.strategy = "Digest"
  THEN IF reg[Referred(r.digest)] = 0 THEN {Error}
       ELSE {[tag |-> r.digest, digest |-> reg[Referred(r.digest)]]}
  ELSE IF Listed(reg) = {} THEN {NoImage, Error}
  ELSE IF Matching(reg, r) = {} THEN {NoImage}
       ELSE { [tag |-> t, digest |-> reg[t]] : t \in Newest(reg, r) }

-----------------------------------------------------------------------------
(***************************************************************************)
(* FindImage                                                               *)
(***************************************************************************)

Return(a) ==
  /\ at' = "idle"
  /\ tag' = ""
  /\ answer' = a

\* FindImage, findImageByDigest and findImageBySemver up to their first registry call.
FindImage(r) ==
  /\ at = "idle"
  /\ Spend("call")
  /\ request' = r
  /\ atOnce' = Instant(registry, r)
  /\ excused' = FALSE
  /\ \/ Refused(r) /\ Return(Error)
     \/ /\ ~Refused(r) /\ r.strategy = "Digest"
        /\ at' = "digest" /\ tag' = r.digest /\ answer' = NoAnswer
     \/ /\ ~Refused(r) /\ r.strategy = "SemVer"
        /\ at' = "list" /\ tag' = "" /\ answer' = NoAnswer
  /\ UNCHANGED registry

\* The registry may be unreachable, and is for every call that needs it.
Fault ==
  /\ at # "idle"
  /\ Spend("fault")
  /\ excused' = TRUE
  /\ Return(Error)
  /\ UNCHANGED << registry, request, atOnce >>

\* A variant of ListTags that gives up when a tag is no version.
ListVersions ==
  /\ at = "list"
  /\ IF Listed(registry) \subseteq Versions
     THEN at' = "digest" /\ tag' \in Newest(registry, request) /\ UNCHANGED answer
     ELSE Return(Error)
  /\ UNCHANGED << registry, request, atOnce, excused, left >>

\* The tags are listed and one is chosen; a repository without tags may be an error.
ListTags ==
  /\ at = "list"
  /\ \/ \E s \in Sorted(Listed(registry)) :
          LET t == First(s, request.semver)
          IN  IF t = "" THEN Return(NoImage)
              ELSE at' = "digest" /\ tag' = t /\ UNCHANGED answer
     \/ Listed(registry) = {} /\ Return(Error)
  /\ UNCHANGED << registry, request, atOnce, excused, left >>

\* A variant that returns the reference it asked for.
GetReference ==
  /\ at = "digest"
  /\ Return([tag |-> tag, digest |-> Absent])
  /\ UNCHANGED << registry, request, atOnce, excused, left >>

\* The digest of the tag as it is now.
GetDigest ==
  LET digest == registry[Referred(tag)]
  IN  /\ at = "digest"
      /\ Return(IF digest = 0 THEN Error ELSE [tag |-> tag, digest |-> digest])
      /\ UNCHANGED << registry, request, atOnce, excused, left >>

-----------------------------------------------------------------------------
(***************************************************************************)
(* The registry's users                                                    *)
(***************************************************************************)

Witness == atOnce' = IF at = "idle" THEN atOnce ELSE atOnce \cup Instant(registry', request)

\* An image is pushed under a new tag, or an old tag is moved to it.
Push(t) ==
  /\ registry[t] = 0 \/ t \in Movable
  /\ Spend("push")
  /\ registry' = [registry EXCEPT ![t] = @ + 1]
  /\ Witness
  /\ UNCHANGED << callVars, excused >>

Untag(t) ==
  /\ registry[t] # 0
  /\ Spend("untag")
  /\ registry' = [registry EXCEPT ![t] = 0]
  /\ Witness
  /\ excused' = TRUE
  /\ UNCHANGED callVars

Next ==
  \/ \E r \in Requests : FindImage(r)
  \/ ListTags \/ GetDigest \/ Fault
  \/ \E t \in Tags : Push(t) \/ Untag(t)

Spec == Init /\ [][Next]_vars

-----------------------------------------------------------------------------
(***************************************************************************)
(* Properties                                                              *)
(***************************************************************************)

\* The image that FindImage returns was, with this digest, the one to deploy at some
\* moment of its run, although it puts it together from two calls of the registry.
AtomicAnswer == answer \notin {NoImage, Error, NoAnswer} => answer \in atOnce

\* "Suitable image not found" means that at some moment no version satisfied the
\* constraint, not only that the newest one did not.
NotFoundIsTrue == answer = NoImage => NoImage \in atOnce

\* Any other error has its reason in the spec, in a tag that was missing at some moment, or
\* in the registry; tags that are no versions are no reason.
ErrorsHaveReason == answer = Error => excused \/ Error \in atOnce

=============================================================================
