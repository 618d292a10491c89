------------------------- MODULE ImageFinderProofs -------------------------
(***************************************************************************)
(* What FindImage answers was true at some moment of its run, for all      *)
(* tags, versions, specs and budgets.  For its errors this needs nothing;  *)
(* for an image, that the tags that are versions are not moved.            *)
(***************************************************************************)
EXTENDS ImageFinder, FiniteSetTheorems, FunctionTheorems, WellFoundedInduction, TLAPS

\* A call under way has a spec to work on; what it could answer at once is on record.
Recorded ==
  at # "idle" =>
    /\ request \in Requests
    /\ ~Refused(request)
    /\ request.strategy = (IF at = "list" THEN "SemVer" ELSE request.strategy)
    /\ Instant(registry, request) \subseteq atOnce

\* The tag whose digest is wanted is the one asked for, or a version that is still there or
\* was removed.
Chosen ==
  at = "digest" =>
    \/ request.strategy = "Digest" /\ tag = request.digest
    \/ request.strategy = "SemVer" /\ tag \in Versions /\ (registry[tag] # 0 \/ excused)

\* The inductive invariant behind TypeOK, NotFoundIsTrue and ErrorsHaveReason.
ReasonInv == TypeOK /\ Recorded /\ Chosen /\ NotFoundIsTrue /\ ErrorsHaveReason

\* The tags that are versions stand for the image they were first pushed for.
Fixed == \A t \in Versions : registry[t] \in {0, 1}

\* The version that was chosen was a newest one that the constraint accepts.
Picked ==
  (at = "digest" /\ request.strategy = "SemVer") => [tag |-> tag, digest |-> 1] \in atOnce

\* The inductive invariant behind AtomicAnswer.
AnswerInv == ReasonInv /\ Fixed /\ Picked /\ AtomicAnswer

-----------------------------------------------------------------------------
(***************************************************************************)
(* Sorting and scanning finds the newest match                             *)
(***************************************************************************)

\* A nonempty set of natural numbers has a least one.
LEMMA Least ==
  ASSUME NEW S \in SUBSET Nat, S # {}
  PROVE  \E i \in S : \A j \in S : i <= j
<1> DEFINE R == OpToRel(<, Nat)
<1>1. IsWellFoundedOn(R, Nat)
  BY NatLessThanWellFounded
<1>2. \A x, y \in Nat : x < y => << x, y >> \in R
  BY DEF OpToRel
<1> HIDE DEF R
<1>3. PICK i \in S : \A j \in S : ~ (<< j, i >> \in R)
  BY <1>1, WFMin
<1>4. \A j \in S : ~ (j < i)
  BY <1>2, <1>3
<1>5. S \subseteq Nat
  OBVIOUS
<1> QED BY <1>4, <1>5

\* A sorted list of tags holds every version among them, and nothing else.
LEMMA SortedHolds ==
  ASSUME NEW tags, NEW s \in Sorted(tags)
  PROVE  /\ \A i \in DOMAIN s : s[i] \in tags \cap Versions
         /\ \A t \in tags \cap Versions : \E i \in DOMAIN s : s[i] = t
         /\ DOMAIN s \subseteq Nat
<1> DEFINE V == tags \cap Versions
           D == 1..Cardinality(V)
<1>1. /\ s \in [D -> V]
      /\ \A i, j \in D : i # j => s[i] # s[j]
  BY DEF Sorted, SetToSeqs
<1>2. IsFiniteSet(V)
  BY FinderAssumption, FS_Subset
<1>3. Cardinality(V) \in Nat
  BY <1>2, FS_CardinalityType
<1>4. Cardinality(D) = Cardinality(V)
  BY <1>3, FS_Interval
<1>5. s \in Injection(D, V)
  BY <1>1, Fun_IsInj
<1>6. s \in Surjection(D, V)
  BY <1>2, <1>4, <1>5, FS_Injection
<1>7. \A t \in V : \E i \in D : s[i] = t
  BY <1>6 DEF Surjection
<1>8. DOMAIN s = D /\ D \subseteq Nat
  BY <1>1
<1> HIDE DEF D
<1> QED BY <1>1, <1>7, <1>8

\* The first match of a sorted list is a newest one; without a match there is no tag.
LEMMA FirstIsNewest ==
  ASSUME NEW reg, NEW r, NEW s \in Sorted(Listed(reg))
  PROVE  /\ First(s, r.semver) = "" => Matching(reg, r) = {}
         /\ First(s, r.semver) # "" => First(s, r.semver) \in Newest(reg, r)
<1> DEFINE accepted == { i \in DOMAIN s : Rank[s[i]] \in r.semver }
           first == CHOOSE i \in accepted : \A j \in accepted : i <= j
<1>1. /\ \A i \in DOMAIN s : s[i] \in Versions /\ s[i] # "" /\ reg[s[i]] # 0
      /\ \A t \in Versions : reg[t] # 0 => \E i \in DOMAIN s : s[i] = t
      /\ accepted \subseteq Nat
  <2>1. \A i \in DOMAIN s : s[i] \in Listed(reg) \cap Versions
    BY SortedHolds
  <2>2. \A t \in Listed(reg) \cap Versions : \E i \in DOMAIN s : s[i] = t
    BY SortedHolds
  <2>3. DOMAIN s \subseteq Nat
    BY SortedHolds
  <2> QED BY <2>1, <2>2, <2>3, FinderAssumption DEF Listed
<1>2. CASE accepted = {}
  <2>1. First(s, r.semver) = ""
    BY <1>2 DEF First
  <2>2. Matching(reg, r) = {}
    BY <1>1, <1>2 DEF Matching
  <2> QED BY <2>1, <2>2
<1>3. CASE accepted # {}
  <2>1. first \in accepted /\ \A j \in accepted : first <= j
    BY <1>1, <1>3, Least
  <2>2. First(s, r.semver) = s[first]
    BY <1>3 DEF First
  <2> HIDE DEF first
  <2>3. s[first] \in Matching(reg, r)
    BY <1>1, <2>1 DEF Matching
  <2>4. ASSUME NEW u \in Matching(reg, r)
        PROVE  Rank[u] <= Rank[s[first]]
    <3>1. PICK j \in accepted : s[j] = u
      BY <1>1 DEF Matching
    <3>2. Rank[s[first]] \in Nat /\ Rank[u] \in Nat
      BY <2>3, FinderAssumption DEF Matching
    <3>3. CASE first = j
      BY <3>1, <3>2, <3>3
    <3>4. CASE first < j
      BY <1>1, <2>1, <3>1, <3>2, <3>4 DEF Sorted
    <3>5. first \in Nat /\ j \in Nat /\ first <= j
      BY <1>1, <2>1, <3>1
    <3> QED BY <3>3, <3>4, <3>5
  <2>5. s[first] \in Newest(reg, r) /\ s[first] # ""
    BY <1>1, <2>1, <2>3, <2>4 DEF Newest
  <2> QED BY <2>2, <2>5
<1> QED BY <1>2, <1>3

-----------------------------------------------------------------------------
(***************************************************************************)
(* The invariant                                                           *)
(***************************************************************************)

\* What a lookup could answer at once is an image, "not found" or an error.
LEMMA InstantType ==
  ASSUME NEW reg \in [Tags -> Nat], NEW r \in Requests
  PROVE  Instant(reg, r) \subseteq Answers \cup {NoImage, Error}
<1>1. CASE r.strategy = "Digest" /\ ~Refused(r)
  <2>1. r.digest \in Tags \cup {""} /\ Referred(r.digest) \in Tags
    BY <1>1, FinderAssumption DEF Refused, Referred
  <2> DEFINE image == [tag |-> r.digest, digest |-> reg[Referred(r.digest)]]
  <2>2. image \in Answers
    BY <2>1 DEF Answers
  <2>3. Instant(reg, r) \subseteq {Error, image}
    BY <1>1 DEF Instant
  <2> QED BY <2>2, <2>3
<1>2. CASE r.strategy # "Digest" /\ ~Refused(r)
  <2>1. Newest(reg, r) \subseteq Tags
    BY FinderAssumption DEF Newest, Matching
  <2> DEFINE images == { [tag |-> t, digest |-> reg[t]] : t \in Newest(reg, r) }
  <2>2. images \subseteq Answers
    <3>1. ASSUME NEW t \in Tags PROVE [tag |-> t, digest |-> reg[t]] \in Answers
      BY DEF Answers
    <3> QED BY <2>1, <3>1
  <2>3. Instant(reg, r) \subseteq {Error, NoImage} \cup images
    BY <1>2 DEF Instant
  <2> QED BY <2>2, <2>3
<1>3. CASE Refused(r)
  BY <1>3 DEF Instant
<1> QED BY <1>1, <1>2, <1>3

\* Spending an event leaves a budget.
LEMMA SpendType ==
  ASSUME left \in [Events -> Nat], NEW e \in Events, Spend(e)
  PROVE  left' \in [Events -> Nat]
BY DEF Spend

\* What holds of calls holds when there has been none.
LEMMA InitReason == Init => ReasonInv
<1> SUFFICES ASSUME Init PROVE ReasonInv
  OBVIOUS
<1>1. TypeOK
  <2>1. registry \in [Tags -> {0, 1}]
    BY DEF Init
  <2>2. registry \in [Tags -> Nat]
    BY <2>1
  <2> QED BY <2>2, FinderAssumption DEF Init, TypeOK
<1>2. Recorded /\ Chosen /\ NotFoundIsTrue /\ ErrorsHaveReason
  BY FinderAssumption DEF Init, Recorded, Chosen, NotFoundIsTrue, ErrorsHaveReason
<1> QED BY <1>1, <1>2 DEF ReasonInv

\* A call that starts works on its spec, and records what it could answer now.
LEMMA StartReason ==
  ASSUME ReasonInv, NEW r \in Requests, FindImage(r)
  PROVE  ReasonInv'
<1> USE DEF ReasonInv
<1>1. left' \in [Events -> Nat]
  BY SpendType DEF FindImage, TypeOK, Events
<1>2. Instant(registry, r) \subseteq Answers \cup {NoImage, Error}
  BY InstantType DEF TypeOK
<1>3. CASE Refused(r) /\ Return(Error)
  <2>1. TypeOK'
    BY <1>1, <1>2, <1>3 DEF FindImage, Return, TypeOK
  <2>2. Error \in atOnce'
    BY <1>3 DEF FindImage, Instant
  <2>3. (Recorded /\ Chosen /\ NotFoundIsTrue /\ ErrorsHaveReason)'
    BY <1>3, <2>2, FinderAssumption
    DEF FindImage, Return, Recorded, Chosen, NotFoundIsTrue, ErrorsHaveReason
  <2> QED BY <2>1, <2>3
<1>4. CASE ~Refused(r) /\ r.strategy = "Digest" /\ at' = "digest" /\ tag' = r.digest
             /\ answer' = NoAnswer
  <2>1. r.digest \in Tags \cup {""}
    BY <1>4, FinderAssumption DEF Refused
  <2>2. TypeOK'
    BY <1>1, <1>2, <1>4, <2>1 DEF FindImage, TypeOK
  <2>3. (Recorded /\ Chosen /\ NotFoundIsTrue /\ ErrorsHaveReason)'
    BY <1>4, FinderAssumption DEF FindImage, Recorded, Chosen, NotFoundIsTrue, ErrorsHaveReason
  <2> QED BY <2>2, <2>3
<1>5. CASE ~Refused(r) /\ r.strategy = "SemVer" /\ at' = "list" /\ tag' = ""
             /\ answer' = NoAnswer
  <2>1. TypeOK'
    BY <1>1, <1>2, <1>5 DEF FindImage, TypeOK
  <2>2. (Recorded /\ Chosen /\ NotFoundIsTrue /\ ErrorsHaveReason)'
    BY <1>5, FinderAssumption DEF FindImage, Recorded, Chosen, NotFoundIsTrue, ErrorsHaveReason
  <2> QED BY <2>1, <2>2
<1> QED BY <1>3, <1>4, <1>5 DEF FindImage

\* A call that fails has the failure for a reason.
LEMMA FaultReason ==
  ASSUME ReasonInv, Fault
  PROVE  ReasonInv'
<1> USE DEF ReasonInv
<1>1. left' \in [Events -> Nat]
  BY SpendType DEF Fault, TypeOK, Events
<1>2. TypeOK'
  BY <1>1 DEF Fault, Return, TypeOK
<1>3. (Recorded /\ Chosen /\ NotFoundIsTrue /\ ErrorsHaveReason)'
  BY FinderAssumption DEF Fault, Return, Recorded, Chosen, NotFoundIsTrue, ErrorsHaveReason
<1> QED BY <1>2, <1>3

\* What a lookup by version could answer while it lists the tags.
LEMMA ListNow ==
  ASSUME ReasonInv, ListTags
  PROVE  /\ request \in Requests /\ ~Refused(request) /\ request.strategy = "SemVer"
         /\ UNCHANGED << registry, request, atOnce, excused, left >>
         /\ (IF Listed(registry) = {} THEN {NoImage, Error}
             ELSE IF Matching(registry, request) = {} THEN {NoImage}
             ELSE { [tag |-> t, digest |-> registry[t]] : t \in Newest(registry, request) })
               \subseteq atOnce
<1>1. /\ request \in Requests /\ ~Refused(request) /\ request.strategy = "SemVer"
      /\ Instant(registry, request) \subseteq atOnce
  BY DEF ListTags, ReasonInv, Recorded
<1> QED BY <1>1 DEF ListTags, Instant

\* What listing picks is a version that is there; without a match, this moment is the reason
\* for "not found".
LEMMA ListReason ==
  ASSUME ReasonInv, ListTags
  PROVE  ReasonInv'
<1> USE DEF ReasonInv
<1>1. /\ request \in Requests /\ ~Refused(request) /\ request.strategy = "SemVer"
      /\ UNCHANGED << registry, request, atOnce, excused, left >>
  BY ListNow
<1>2. CASE Listed(registry) = {} /\ Return(Error)
  <2>1. Error \in atOnce
    BY <1>2, ListNow
  <2> QED BY <1>1, <1>2, <2>1, FinderAssumption
          DEF Return, TypeOK, Recorded, Chosen, NotFoundIsTrue, ErrorsHaveReason
<1>3. ASSUME NEW s \in Sorted(Listed(registry)), First(s, request.semver) = "", Return(NoImage)
      PROVE  ReasonInv'
  <2>1. NoImage \in atOnce
    BY <1>3, FirstIsNewest, ListNow
  <2> QED BY <1>1, <1>3, <2>1, FinderAssumption
          DEF Return, TypeOK, Recorded, Chosen, NotFoundIsTrue, ErrorsHaveReason
<1>4. ASSUME NEW s \in Sorted(Listed(registry)), First(s, request.semver) # "",
             at' = "digest", tag' = First(s, request.semver), UNCHANGED answer
      PROVE  ReasonInv'
  <2>1. tag' \in Newest(registry, request)
    BY <1>4, FirstIsNewest
  <2>2. tag' \in Versions /\ tag' \in Tags /\ registry[tag'] # 0
    BY <2>1, FinderAssumption DEF Newest, Matching
  <2>3. TypeOK'
    BY <1>1, <1>4, <2>2 DEF TypeOK
  <2>4. Recorded' /\ Chosen'
    BY <1>1, <1>4, <2>2 DEF ListTags, Recorded, Chosen
  <2>5. NotFoundIsTrue' /\ ErrorsHaveReason'
    BY <1>1, <1>4 DEF NotFoundIsTrue, ErrorsHaveReason
  <2> QED BY <2>3, <2>4, <2>5
<1> QED BY <1>2, <1>3, <1>4 DEF ListTags

\* A tag that has no digest was removed meanwhile, or is the one asked for.
LEMMA DigestReason ==
  ASSUME ReasonInv, GetDigest
  PROVE  ReasonInv'
<1> USE DEF ReasonInv
<1> DEFINE digest == registry[Referred(tag)]
           result == IF digest = 0 THEN Error ELSE [tag |-> tag, digest |-> digest]
<1>1. /\ at = "digest" /\ Return(result)
      /\ UNCHANGED << registry, request, atOnce, excused, left >>
  BY DEF GetDigest
<1>2. digest \in Nat
  BY FinderAssumption DEF TypeOK, Referred
<1>3. result \in Answers \cup {Error}
  BY <1>2 DEF TypeOK, Answers
<1>4. result = Error => excused \/ Error \in atOnce
  <2>1. /\ request \in Requests /\ ~Refused(request)
        /\ Instant(registry, request) \subseteq atOnce
    BY <1>1 DEF Recorded
  <2>2. CASE request.strategy = "Digest" /\ tag = request.digest
    <3>1. result \in atOnce
      BY <2>1, <2>2 DEF Instant
    <3> QED BY <3>1
  <2>3. CASE tag \in Versions /\ (registry[tag] # 0 \/ excused)
    <3>1. Referred(tag) = tag
      BY <2>3, FinderAssumption DEF Referred
    <3>2. CASE excused
      BY <3>2
    <3>3. CASE digest # 0
      <4>1. result \in Answers
        BY <1>2, <3>3 DEF TypeOK, Answers
      <4> QED BY <4>1, AnswerAssumption
    <3> QED BY <2>3, <3>1, <3>2, <3>3
  <2> QED BY <1>1, <2>2, <2>3 DEF Chosen
<1>5. result # NoImage
  BY <1>3, FinderAssumption, AnswerAssumption
<1> HIDE DEF result
<1>6. TypeOK'
  BY <1>1, <1>3 DEF Return, TypeOK
<1>7. (Recorded /\ Chosen /\ NotFoundIsTrue /\ ErrorsHaveReason)'
  BY <1>1, <1>4, <1>5 DEF Return, Recorded, Chosen, NotFoundIsTrue, ErrorsHaveReason
<1> QED BY <1>6, <1>7

\* A registry that changes adds to what is on record, and loses no tag without an excuse.
LEMMA RegistryReason ==
  ASSUME ReasonInv, NEW t \in Tags, Push(t) \/ Untag(t)
  PROVE  /\ ReasonInv'
         /\ UNCHANGED callVars
         /\ atOnce \subseteq atOnce'
<1> USE DEF ReasonInv
<1>1. /\ registry' \in [Tags -> Nat] /\ left' \in [Events -> Nat]
      /\ \A u \in Tags : registry'[u] = 0 => registry[u] = 0 \/ excused'
  <2>1. CASE Push(t)
    <3>1. left' \in [Events -> Nat]
      BY <2>1, SpendType DEF Push, TypeOK, Events
    <3>2. registry' = [registry EXCEPT ![t] = registry[t] + 1] /\ registry \in [Tags -> Nat]
      BY <2>1 DEF Push, TypeOK
    <3>3. registry' \in [Tags -> Nat] /\ \A u \in Tags : registry'[u] = 0 => registry[u] = 0
      BY <3>2
    <3> QED BY <3>1, <3>3
  <2>2. CASE Untag(t)
    <3>1. left' \in [Events -> Nat]
      BY <2>2, SpendType DEF Untag, TypeOK, Events
    <3>2. registry' = [registry EXCEPT ![t] = 0] /\ registry \in [Tags -> Nat] /\ excused'
      BY <2>2 DEF Untag, TypeOK
    <3>3. registry' \in [Tags -> Nat]
      BY <3>2
    <3> QED BY <3>1, <3>2, <3>3
  <2> QED BY <2>1, <2>2
<1>2. /\ UNCHANGED callVars
      /\ Witness
      /\ excused' \in BOOLEAN /\ (excused => excused')
  BY DEF Push, Untag, TypeOK
<1>3. atOnce \subseteq atOnce' /\ atOnce' \subseteq Answers \cup {NoImage, Error}
  <2>1. at # "idle" => Instant(registry', request) \subseteq Answers \cup {NoImage, Error}
    BY <1>1, InstantType DEF Recorded
  <2> QED BY <1>2, <2>1 DEF Witness, TypeOK
<1>4. TypeOK'
  BY <1>1, <1>2, <1>3 DEF TypeOK, callVars
<1>5. Recorded'
  BY <1>2, <1>3 DEF Recorded, Witness, callVars
<1>6. Chosen'
  <2>1. tag \in Versions /\ excused' = FALSE => (registry'[tag] = 0 => registry[tag] = 0)
    BY <1>1, FinderAssumption
  <2> QED BY <1>2, <2>1, FinderAssumption DEF Chosen, callVars
<1>7. NotFoundIsTrue' /\ ErrorsHaveReason'
  BY <1>2, <1>3 DEF NotFoundIsTrue, ErrorsHaveReason, callVars
<1> QED BY <1>2, <1>3, <1>4, <1>5, <1>6, <1>7

\* Every step keeps the reasons.
LEMMA NextReason ==
  ASSUME ReasonInv, [Next]_vars
  PROVE  ReasonInv'
<1>1. CASE UNCHANGED vars
  BY <1>1 DEF ReasonInv, vars, callVars, TypeOK, Recorded, Chosen, NotFoundIsTrue,
              ErrorsHaveReason
<1>2. CASE Next
  BY <1>2, StartReason, FaultReason, ListReason, DigestReason, RegistryReason DEF Next
<1> QED BY <1>1, <1>2

\* Every variable has its type.
THEOREM TypeCorrect == Spec => []TypeOK
<1>1. ReasonInv => TypeOK
  BY DEF ReasonInv
<1> QED BY <1>1, InitReason, NextReason, PTL DEF Spec

\* "Suitable image not found" is answered only when, at some moment of the call, no version
\* satisfied the constraint, however tags come, move and go.
THEOREM NotFoundJustified == Spec => []NotFoundIsTrue
<1>1. ReasonInv => NotFoundIsTrue
  BY DEF ReasonInv
<1> QED BY <1>1, InitReason, NextReason, PTL DEF Spec

\* Any other error of FindImage has its reason in the spec, in a tag that was missing or in
\* the registry's failing.
THEOREM ErrorsJustified == Spec => []ErrorsHaveReason
<1>1. ReasonInv => ErrorsHaveReason
  BY DEF ReasonInv
<1> QED BY <1>1, InitReason, NextReason, PTL DEF Spec

-----------------------------------------------------------------------------
(***************************************************************************)
(* The image                                                               *)
(***************************************************************************)

\* A version that is there is never replaced.
LEMMA NextFixed ==
  ASSUME Movable \cap Versions = {}, ReasonInv, Fixed, [Next]_vars
  PROVE  Fixed'
<1>1. CASE UNCHANGED registry
  BY <1>1 DEF Fixed
<1>2. registry \in [Tags -> Nat]
  BY DEF ReasonInv, TypeOK
<1>3. ASSUME NEW t \in Tags, Push(t) PROVE Fixed'
  <2>1. t \in Versions => registry[t] = 0
    BY <1>3 DEF Push
  <2>2. \A u \in Versions : registry'[u] = IF u = t THEN registry[t] + 1 ELSE registry[u]
    BY <1>2, <1>3, FinderAssumption DEF Push
  <2> QED BY <2>1, <2>2 DEF Fixed
<1>4. ASSUME NEW t \in Tags, Untag(t) PROVE Fixed'
  BY <1>2, <1>4, FinderAssumption DEF Untag, Fixed
<1> QED BY <1>1, <1>3, <1>4 DEF Next, FindImage, ListTags, GetDigest, Fault, vars

\* What listing picks, with the image that versions stand for, is what this moment answers.
LEMMA ListPicked ==
  ASSUME ReasonInv, Fixed, ListTags
  PROVE  Picked'
<1> SUFFICES ASSUME at' = "digest" PROVE [tag |-> tag', digest |-> 1] \in atOnce
  BY ListNow DEF Picked
<1>1. PICK s \in Sorted(Listed(registry)) :
         First(s, request.semver) # "" /\ tag' = First(s, request.semver)
  BY DEF ListTags, Return
<1>2. tag' \in Newest(registry, request)
  BY <1>1, FirstIsNewest
<1>3. tag' \in Versions /\ tag' \in Tags /\ registry[tag'] # 0
  BY <1>2, FinderAssumption DEF Newest, Matching
<1>4. registry[tag'] = 1 /\ Listed(registry) # {} /\ Matching(registry, request) # {}
  BY <1>2, <1>3 DEF Fixed, Listed, Newest
<1> QED BY <1>2, <1>4, ListNow

\* The digest of a version is the one it had when it was picked; the digest of a tag asked
\* for is what this moment answers.
LEMMA DigestAtomic ==
  ASSUME AnswerInv, GetDigest
  PROVE  AtomicAnswer'
<1> DEFINE digest == registry[Referred(tag)]
           result == IF digest = 0 THEN Error ELSE [tag |-> tag, digest |-> digest]
<1>1. at = "digest" /\ Return(result) /\ UNCHANGED atOnce
  BY DEF GetDigest
<1>2. /\ request \in Requests /\ ~Refused(request)
      /\ Instant(registry, request) \subseteq atOnce
  BY <1>1 DEF AnswerInv, ReasonInv, Recorded
<1>3. result \in atOnce \cup {Error}
  <2>1. CASE request.strategy = "Digest" /\ tag = request.digest
    BY <1>2, <2>1 DEF Instant
  <2>2. CASE request.strategy = "SemVer" /\ tag \in Versions
    <3>1. Referred(tag) = tag /\ registry[tag] \in {0, 1}
      BY <2>2, FinderAssumption DEF Referred, AnswerInv, Fixed
    <3>2. [tag |-> tag, digest |-> 1] \in atOnce
      BY <1>1, <2>2 DEF AnswerInv, Picked
    <3> QED BY <3>1, <3>2
  <2> QED BY <1>1, <2>1, <2>2 DEF AnswerInv, ReasonInv, Chosen
<1> HIDE DEF result
<1> QED BY <1>1, <1>3 DEF Return, AtomicAnswer

\* Every step keeps the answers atomic.
LEMMA NextAnswer ==
  ASSUME Movable \cap Versions = {}, AnswerInv, [Next]_vars
  PROVE  AnswerInv'
<1>1. ReasonInv' /\ Fixed'
  BY NextReason, NextFixed DEF AnswerInv
<1> SUFFICES Picked' /\ AtomicAnswer'
  BY <1>1 DEF AnswerInv
<1>2. CASE \E r \in Requests : FindImage(r)
  BY <1>2, FinderAssumption DEF FindImage, Return, Picked, AtomicAnswer
<1>3. CASE Fault
  BY <1>3 DEF Fault, Return, Picked, AtomicAnswer
<1>4. CASE ListTags
  <2>1. Picked'
    BY <1>4, ListPicked DEF AnswerInv
  <2>2. answer' \in {answer, NoImage, Error} /\ UNCHANGED atOnce
    BY <1>4 DEF ListTags, Return
  <2> QED BY <2>1, <2>2 DEF AnswerInv, AtomicAnswer
<1>5. CASE GetDigest
  BY <1>5, DigestAtomic DEF GetDigest, Return, Picked
<1>6. ASSUME NEW t \in Tags, Push(t) \/ Untag(t) PROVE Picked' /\ AtomicAnswer'
  BY <1>6, RegistryReason DEF AnswerInv, Picked, AtomicAnswer, callVars
<1>7. CASE UNCHANGED vars
  BY <1>7 DEF AnswerInv, Picked, AtomicAnswer, vars, callVars
<1> QED BY <1>2, <1>3, <1>4, <1>5, <1>6, <1>7 DEF Next

\* FindImage answers with an image that was the one to deploy at some moment of its run,
\* provided no tag that is a version is moved.
THEOREM AnswersAtomic ==
  ASSUME Movable \cap Versions = {}
  PROVE  Spec => []AtomicAnswer
<1>1. Init => AnswerInv
  BY InitReason, FinderAssumption DEF Init, AnswerInv, Fixed, Picked, AtomicAnswer
<1>2. AnswerInv => AtomicAnswer
  BY DEF AnswerInv
<1> QED BY <1>1, <1>2, NextAnswer, PTL DEF Spec

=============================================================================
