----------------------------- MODULE PortProofs -----------------------------
(***************************************************************************)
(* What merging lists of ports results in, for all lists: the lemmas that  *)
(* BuilderProofs rests on.                                                 *)
(***************************************************************************)
EXTENDS Ports, FiniteSetTheorems, FunctionTheorems, SequenceTheorems, WellFoundedInduction,
        TLAPS

-----------------------------------------------------------------------------
(***************************************************************************)
(* Induction                                                               *)
(***************************************************************************)

\* A set that holds 0 and with each number its successor holds every number.
LEMMA Induction ==
  ASSUME NEW S, 0 \in S, \A n \in Nat : n \in S => n + 1 \in S
  PROVE  Nat \subseteq S
<1> DEFINE R == OpToRel(<, Nat)
           T == Nat \ S
<1> SUFFICES ASSUME T # {} PROVE FALSE
  OBVIOUS
<1>1. IsWellFoundedOn(R, Nat)
  BY NatLessThanWellFounded
<1>2. \A x, y \in Nat : x < y => << x, y >> \in R
  BY DEF OpToRel
<1> HIDE DEF R
<1>3. PICK i \in T : \A j \in T : ~ (<< j, i >> \in R)
  BY <1>1, WFMin
<1>4. i \in Nat /\ i # 0
  OBVIOUS
<1>5. i - 1 \in Nat /\ i - 1 < i /\ (i - 1) + 1 = i
  BY <1>4
<1>6. i - 1 \in S
  BY <1>2, <1>3, <1>4, <1>5
<1> QED BY <1>5, <1>6

-----------------------------------------------------------------------------
(***************************************************************************)
(* Selecting ports by name                                                 *)
(***************************************************************************)

\* A list that a port is appended to holds that port and those it held.
LEMMA AppendRange ==
  ASSUME NEW S, NEW s \in Seq(S), NEW x \in S
  PROVE  Range(Append(s, x)) = Range(s) \cup {x}
<1> DEFINE t == Append(s, x)
<1>1. /\ DOMAIN t = 1..(Len(s) + 1) /\ DOMAIN s = 1..Len(s) /\ Len(s) \in Nat
      /\ \A i \in 1..Len(s) : t[i] = s[i]
      /\ t[Len(s) + 1] = x
  OBVIOUS
<1> HIDE DEF t
<1>2. \A i \in 1..(Len(s) + 1) : i \in 1..Len(s) \/ i = Len(s) + 1
  BY <1>1
<1>3. 1..Len(s) \subseteq 1..(Len(s) + 1) /\ Len(s) + 1 \in 1..(Len(s) + 1)
  BY <1>1
<1>4. Range(t) \subseteq Range(s) \cup {x}
  BY <1>1, <1>2 DEF Range
<1>5. Range(s) \subseteq Range(t) /\ x \in Range(t)
  BY <1>1, <1>3 DEF Range
<1> QED BY <1>4, <1>5 DEF t

\* The function that Selected is defined by exists, on every prefix of the ports.
LEMMA UptoExists ==
  ASSUME NEW S, NEW ports \in Seq(S), NEW names
  PROVE  \E f : f = [n \in 0..Len(ports) |->
                       IF n = 0 THEN << >>
                       ELSE IF ports[n].name \in names THEN Append(f[n - 1], ports[n])
                       ELSE f[n - 1]]
<1> DEFINE L == Len(ports)
           Next(n, s) == IF ports[n].name \in names THEN Append(s, ports[n]) ELSE s
           Upto(k, f) == f = [n \in 0..k |-> IF n = 0 THEN << >> ELSE Next(n, f[n - 1])]
           K == { k \in Nat : \E f : Upto(k, f) }
<1>1. 0 \in K
  <2> DEFINE f == [n \in 0..0 |-> << >>]
  <2>1. Upto(0, f)
    OBVIOUS
  <2> QED BY <2>1
<1>2. ASSUME NEW k \in Nat, k \in K
      PROVE  k + 1 \in K
  <2>1. PICK f : Upto(k, f)
    BY <1>2
  <2> DEFINE g == [n \in 0..(k + 1) |-> IF n = k + 1 THEN Next(k + 1, f[k]) ELSE f[n]]
  <2>2. ASSUME NEW n \in 0..(k + 1)
        PROVE  g[n] = IF n = 0 THEN << >> ELSE Next(n, g[n - 1])
    <3>1. CASE n = 0
      BY <2>1, <3>1
    <3>2. CASE n = k + 1
      <4>1. g[n - 1] = f[k] /\ g[n] = Next(k + 1, f[k])
        BY <3>2
      <4> QED BY <3>2, <4>1
    <3>3. CASE n \in 1..k
      <4>1. g[n] = f[n] /\ g[n - 1] = f[n - 1]
        <5>1. n \in 0..(k + 1) /\ n - 1 \in 0..(k + 1) /\ n # k + 1 /\ n - 1 # k + 1
          BY <3>3
        <5> QED BY <5>1
      <4>2. f[n] = Next(n, f[n - 1])
        <5>1. n \in 0..k /\ n # 0
          BY <3>3
        <5> HIDE DEF Next
        <5> QED BY <2>1, <5>1
      <4> QED BY <3>3, <4>1, <4>2
    <3> QED BY <3>1, <3>2, <3>3
  <2>3. Upto(k + 1, g)
    <3> HIDE DEF Next
    <3>1. g = [n \in 0..(k + 1) |-> g[n]]
      OBVIOUS
    <3> HIDE DEF g
    <3> QED BY <2>2, <3>1
  <2> HIDE DEF g, Upto
  <2> QED BY <2>3
<1> HIDE DEF K
<1>3. Nat \subseteq K
  BY <1>1, <1>2, Induction
<1>4. L \in K
  BY <1>3
<1> QED BY <1>4 DEF K

\* Selected by its characterisation: the ports with these names and no others, and the
\* list itself when all of its ports have one.
LEMMA SelectedIs ==
  ASSUME NEW S, NEW ports \in Seq(S), NEW names
  PROVE  /\ Selected(ports, names) \in Seq(S)
         /\ Range(Selected(ports, names)) = { p \in Range(ports) : p.name \in names }
         /\ NamesOf(ports) \subseteq names => Selected(ports, names) = ports
<1> DEFINE L == Len(ports)
           Is(f) == f = [n \in 0..L |-> IF n = 0 THEN << >>
                                        ELSE IF ports[n].name \in names THEN Append(f[n - 1], ports[n])
                                        ELSE f[n - 1]]
<1>1. PICK f : f = (CHOOSE g : Is(g))
  OBVIOUS
<1>2. Selected(ports, names) = f[L]
  BY <1>1 DEF Selected
<1>3. Is(f)
  <2>1. \E g : Is(g)
    BY UptoExists
  <2> HIDE DEF Is
  <2> QED BY <1>1, <2>1
<1> DEFINE Good(n) == /\ f[n] \in Seq(S)
                      /\ Range(f[n]) = { ports[i] : i \in { j \in 1..n : ports[j].name \in names } }
                      /\ NamesOf(ports) \subseteq names =>
                           Len(f[n]) = n /\ \A i \in 1..n : f[n][i] = ports[i]
           G == { n \in Nat : n <= L => Good(n) }
<1>4. 0 \in G
  BY <1>3 DEF Range
<1>5. ASSUME NEW n \in Nat, n \in G
      PROVE  n + 1 \in G
  <2> SUFFICES ASSUME n + 1 <= L PROVE Good(n + 1)
    OBVIOUS
  <2>1. Good(n) /\ n + 1 \in 1..L
    BY <1>5
  <2>2. f[n + 1] = IF ports[n + 1].name \in names THEN Append(f[n], ports[n + 1]) ELSE f[n]
    <3>1. n + 1 \in 0..L /\ n + 1 # 0 /\ (n + 1) - 1 = n
      BY <2>1
    <3> QED BY <1>3, <3>1
  <2>3. ports[n + 1] \in S /\ ports[n + 1].name \in NamesOf(ports)
    BY <2>1 DEF NamesOf, Range
  <2>4. CASE ports[n + 1].name \in names
    <3>1. f[n + 1] = Append(f[n], ports[n + 1])
      BY <2>2, <2>4
    <3>2. /\ f[n + 1] \in Seq(S) /\ Len(f[n + 1]) = Len(f[n]) + 1
          /\ \A i \in 1..Len(f[n]) : f[n + 1][i] = f[n][i]
          /\ f[n + 1][Len(f[n]) + 1] = ports[n + 1]
      BY <2>1, <2>3, <3>1
    <3>3. Range(f[n + 1]) = Range(f[n]) \cup {ports[n + 1]}
      BY <2>1, <2>3, <3>1, AppendRange
    <3>4. { j \in 1..(n + 1) : ports[j].name \in names }
            = { j \in 1..n : ports[j].name \in names } \cup {n + 1}
      BY <2>4
    <3>5. Range(f[n + 1]) = { ports[i] : i \in { j \in 1..(n + 1) : ports[j].name \in names } }
      BY <2>1, <3>3, <3>4
    <3>6. ASSUME NamesOf(ports) \subseteq names
          PROVE  Len(f[n + 1]) = n + 1 /\ \A i \in 1..(n + 1) : f[n + 1][i] = ports[i]
      <4>1. Len(f[n]) = n /\ \A i \in 1..n : f[n][i] = ports[i]
        BY <2>1, <3>6
      <4>2. ASSUME NEW i \in 1..(n + 1)
            PROVE  f[n + 1][i] = ports[i]
        <5>1. CASE i \in 1..n
          BY <3>2, <4>1, <5>1
        <5>2. CASE i = n + 1
          <6>1. f[n + 1][Len(f[n]) + 1] = ports[n + 1]
            BY <3>2
          <6>2. Len(f[n]) + 1 = i
            BY <4>1, <5>2
          <6> QED BY <5>2, <6>1, <6>2
        <5> QED BY <5>1, <5>2
      <4> QED BY <3>2, <4>1, <4>2
    <3> QED BY <3>2, <3>5, <3>6
  <2>5. CASE ports[n + 1].name \notin names
    <3>1. { j \in 1..(n + 1) : ports[j].name \in names } = { j \in 1..n : ports[j].name \in names }
      BY <2>5
    <3>2. f[n + 1] = f[n]
      BY <2>2, <2>5
    <3> QED BY <2>1, <2>3, <2>5, <3>1, <3>2
  <2> QED BY <2>4, <2>5
<1> HIDE DEF G, Good
<1>6. Nat \subseteq G
  BY <1>4, <1>5, Induction
<1>7. Good(L)
  <2>1. L \in Nat /\ L <= L
    OBVIOUS
  <2> QED BY <1>6, <2>1 DEF G
<1>8. { ports[i] : i \in { j \in 1..L : ports[j].name \in names } }
        = { p \in Range(ports) : p.name \in names }
  BY DEF Range
<1>9. NamesOf(ports) \subseteq names => f[L] = ports
  BY <1>7 DEF Good
<1> QED BY <1>2, <1>7, <1>8, <1>9 DEF Good

-----------------------------------------------------------------------------
(***************************************************************************)
(* Merging                                                                 *)
(***************************************************************************)

\* A list with this name holds a port of this name, and ByName is one.
LEMMA ByNameIs ==
  ASSUME NEW S, NEW ports \in Seq(S), NEW n \in NamesOf(ports)
  PROVE  ByName(ports, n) \in Range(ports) /\ ByName(ports, n).name = n
<1> DEFINE L == Len(ports)
           I == { i \in DOMAIN ports : ports[i].name = n }
           R == OpToRel(<, Nat)
           T == { L - i : i \in I }
           IsLast(i) == /\ ports[i].name = n
                        /\ \A j \in DOMAIN ports : ports[j].name = n => j <= i
<1>1. L \in Nat /\ DOMAIN ports = 1..L
  OBVIOUS
<1>2. I # {}
  BY DEF NamesOf, Range
<1>3. IsWellFoundedOn(R, Nat)
  BY NatLessThanWellFounded
<1>4. \A x, y \in Nat : x < y => << x, y >> \in R
  BY DEF OpToRel
<1> HIDE DEF R
<1>5. T # {} /\ T \subseteq Nat
  BY <1>1, <1>2
<1>6. PICK t \in T : \A u \in T : ~ (<< u, t >> \in R)
  BY <1>3, <1>5, WFMin
<1>7. PICK i \in I : t = L - i
  BY <1>6
<1>8. \A j \in I : ~ (L - j < L - i)
  BY <1>4, <1>5, <1>6, <1>7
<1>9. \A j \in I : j <= i
  BY <1>1, <1>8
<1>10. \E k \in DOMAIN ports : IsLast(k)
  BY <1>9
<1>11. ByName(ports, n) = ports[CHOOSE k \in DOMAIN ports : IsLast(k)]
  BY DEF ByName
<1>12. PICK k \in DOMAIN ports : k = (CHOOSE l \in DOMAIN ports : IsLast(l)) /\ IsLast(k)
  BY <1>10
<1> QED BY <1>11, <1>12 DEF Range

\* Ports with the same name are the same.
Consistent(ports) ==
  \A i, j \in DOMAIN ports : ports[i].name = ports[j].name => ports[i] = ports[j]

\* Of ports that are consistent, each is the one of its name.
LEMMA ByNameOfConsistent ==
  ASSUME NEW S, NEW ports \in Seq(S), Consistent(ports), NEW p \in Range(ports)
  PROVE  p.name \in NamesOf(ports) /\ ByName(ports, p.name) = p
<1>1. p.name \in NamesOf(ports)
  BY DEF NamesOf
<1>2. ByName(ports, p.name) \in Range(ports) /\ ByName(ports, p.name).name = p.name
  BY <1>1, ByNameIs
<1> QED BY <1>1, <1>2 DEF Consistent, Range

\* The ports of a concatenation are those of its parts.
LEMMA ConcatRange ==
  ASSUME NEW S, NEW s \in Seq(S), NEW t \in Seq(S)
  PROVE  Range(s \o t) = Range(s) \cup Range(t)
<1> DEFINE u == s \o t
<1>1. /\ Len(s) \in Nat /\ Len(t) \in Nat
      /\ DOMAIN s = 1..Len(s) /\ DOMAIN t = 1..Len(t) /\ DOMAIN u = 1..(Len(s) + Len(t))
      /\ \A i \in 1..(Len(s) + Len(t)) : u[i] = IF i <= Len(s) THEN s[i] ELSE t[i - Len(s)]
  OBVIOUS
<1> HIDE DEF u
<1>2. ASSUME NEW i \in 1..(Len(s) + Len(t))
      PROVE  u[i] \in Range(s) \cup Range(t)
  <2>1. CASE i <= Len(s)
    BY <1>1, <2>1 DEF Range
  <2>2. CASE ~ (i <= Len(s))
    <3>1. i - Len(s) \in 1..Len(t)
      BY <1>1, <2>2
    <3> QED BY <1>1, <2>2, <3>1 DEF Range
  <2> QED BY <2>1, <2>2
<1>3. ASSUME NEW i \in 1..Len(s)
      PROVE  s[i] \in Range(u)
  BY <1>1 DEF Range
<1>4. ASSUME NEW i \in 1..Len(t)
      PROVE  t[i] \in Range(u)
  <2>1. /\ Len(s) + i \in 1..(Len(s) + Len(t)) /\ ~ (Len(s) + i <= Len(s))
        /\ (Len(s) + i) - Len(s) = i
    BY <1>1
  <2>2. u[Len(s) + i] = t[i]
    BY <1>1, <2>1
  <2> QED BY <1>1, <2>1, <2>2 DEF Range
<1>5. Range(u) \subseteq Range(s) \cup Range(t)
  BY <1>1, <1>2 DEF Range
<1>6. Range(s) \cup Range(t) \subseteq Range(u)
  BY <1>1, <1>3, <1>4 DEF Range
<1> QED BY <1>5, <1>6 DEF u

\* The ports of an object that have a namesake among the desired, updated from it; and the
\* desired ports that are new: that is a merge.
LEMMA MergeIs ==
  ASSUME NEW S, NEW actual \in Seq(S), NEW desired \in Seq(S), NEW W,
         \A p, q \in S : Updated(p, q, W) \in S
  PROVE  /\ Merge(actual, desired, W) \in Seq(S)
         /\ Range(Merge(actual, desired, W)) =
              { Updated(p, ByName(desired, p.name), W) :
                  p \in { q \in Range(actual) : q.name \in NamesOf(desired) } }
              \cup { d \in Range(desired) : d.name \notin NamesOf(actual) }
<1> DEFINE D == NamesOf(desired)
           A == NamesOf(actual)
           stay == Selected(actual, D)
           new == Selected(desired, D \ A)
           up == [i \in DOMAIN stay |-> Updated(stay[i], ByName(desired, stay[i].name), W)]
           M == { Updated(p, ByName(desired, p.name), W) : p \in { q \in Range(actual) : q.name \in D } }
           N == { d \in Range(desired) : d.name \notin A }
<1>1. CASE actual = << >>
  <2>1. Range(actual) = {} /\ A = {}
    BY <1>1 DEF NamesOf, Range
  <2>2. Merge(actual, desired, W) = desired
    BY <1>1 DEF Merge
  <2>3. M = {} /\ N = Range(desired)
    BY <2>1
  <2> QED BY <2>2, <2>3
<1>2. CASE actual # << >>
  <2>1. Merge(actual, desired, W) = up \o new
    BY <1>2 DEF Merge
  <2>2. stay \in Seq(S) /\ Range(stay) = { p \in Range(actual) : p.name \in D }
    BY SelectedIs
  <2>3. new \in Seq(S) /\ Range(new) = { p \in Range(desired) : p.name \in D \ A }
    BY SelectedIs
  <2>4. Range(new) = N
    BY <2>3 DEF NamesOf
  <2>5. Range(desired) \subseteq S
    BY DEF Range
  <2>6. \A i \in DOMAIN stay : up[i] \in S
    <3>1. ASSUME NEW i \in DOMAIN stay
          PROVE  Updated(stay[i], ByName(desired, stay[i].name), W) \in S
      <4>1. stay[i] \in S /\ stay[i].name \in D
        BY <2>2 DEF Range
      <4>2. ByName(desired, stay[i].name) \in S
        BY <2>5, <4>1, ByNameIs
      <4> QED BY <4>1, <4>2
    <3> QED BY <3>1
  <2>7. up \in Seq(S)
    <3>1. DOMAIN stay = 1..Len(stay) /\ Len(stay) \in Nat
      BY <2>2
    <3> HIDE DEF stay
    <3>2. up \in [1..Len(stay) -> S]
      BY <2>6, <3>1
    <3> HIDE DEF up
    <3> QED BY <3>1, <3>2
  <2>8. Range(up) = { Updated(p, ByName(desired, p.name), W) : p \in Range(stay) }
    <3> HIDE DEF stay
    <3> QED BY DEF Range
  <2>9. Range(up) = M
    BY <2>2, <2>8
  <2> HIDE DEF up, new, M, N
  <2>10. up \o new \in Seq(S)
    BY <2>3, <2>7
  <2>11. Range(up \o new) = M \cup N
    BY <2>3, <2>4, <2>7, <2>9, ConcatRange
  <2> QED BY <2>1, <2>10, <2>11 DEF M, N
<1> QED BY <1>1, <1>2

\* A list carries the desired ports: it has their names, and under each name the fields
\* that a merge overwrites.
Carries(ports, desired, W) ==
  /\ NamesOf(ports) = NamesOf(desired)
  /\ \A p \in Range(ports) : \A f \in W : p[f] = ByName(desired, p.name)[f]

\* A merge results in a list that carries the desired ports, whatever the object had.
LEMMA MergeCarries ==
  ASSUME NEW S, NEW actual \in Seq(S), NEW desired \in Seq(S), NEW W, "name" \notin W,
         \A p, q \in S : Updated(p, q, W) \in S /\ W \cup {"name"} \subseteq DOMAIN p,
         Consistent(desired)
  PROVE  Carries(Merge(actual, desired, W), desired, W)
<1> DEFINE m == Merge(actual, desired, W)
           U(p) == Updated(p, ByName(desired, p.name), W)
           M == { U(p) : p \in { q \in Range(actual) : q.name \in NamesOf(desired) } }
           N == { d \in Range(desired) : d.name \notin NamesOf(actual) }
<1>1. Range(m) = M \cup N
  BY MergeIs
<1> HIDE DEF m
<1>2. Range(actual) \subseteq S /\ Range(desired) \subseteq S
  BY DEF Range
<1>3. \A p \in S : /\ U(p).name = p.name
                   /\ \A f \in W : U(p)[f] = ByName(desired, p.name)[f]
  BY DEF Updated
<1>4. ASSUME NEW p \in Range(m)
      PROVE  /\ p.name \in NamesOf(desired)
             /\ \A f \in W : p[f] = ByName(desired, p.name)[f]
  <2>1. CASE p \in M
    <3>1. PICK q \in Range(actual) : q.name \in NamesOf(desired) /\ p = U(q)
      BY <2>1
    <3>2. p.name = q.name /\ \A f \in W : p[f] = ByName(desired, q.name)[f]
      BY <1>2, <1>3, <3>1
    <3> QED BY <3>1, <3>2
  <2>2. CASE p \in N
    BY <2>2, ByNameOfConsistent
  <2> QED BY <1>1, <2>1, <2>2
<1>5. ASSUME NEW n \in NamesOf(desired)
      PROVE  n \in NamesOf(m)
  <2>1. CASE n \in NamesOf(actual)
    <3>1. PICK q \in Range(actual) : q.name = n
      BY <2>1 DEF NamesOf
    <3>2. U(q) \in Range(m)
      BY <1>1, <3>1
    <3>3. U(q).name = n
      BY <1>2, <1>3, <3>1
    <3> HIDE DEF U
    <3> QED BY <3>2, <3>3 DEF NamesOf
  <2>2. CASE n \notin NamesOf(actual)
    BY <1>1, <2>2 DEF NamesOf
  <2> QED BY <2>1, <2>2
<1>6. NamesOf(m) = NamesOf(desired)
  BY <1>4, <1>5 DEF NamesOf
<1> QED BY <1>4, <1>6 DEF Carries, m

\* A list without ports is the only one without names.
LEMMA NoNames ==
  ASSUME NEW S, NEW ports \in Seq(S)
  PROVE  NamesOf(ports) = {} <=> ports = << >>
<1>1. CASE ports = << >>
  BY <1>1 DEF NamesOf, Range
<1>2. CASE ports # << >>
  <2>1. 1 \in DOMAIN ports
    BY <1>2
  <2>2. ports[1].name \in NamesOf(ports)
    BY <2>1 DEF NamesOf, Range
  <2> QED BY <1>2, <2>2
<1> QED BY <1>1, <1>2

\* A merge leaves a list alone that carries the desired ports.
LEMMA CarriesKept ==
  ASSUME NEW S, NEW ports \in Seq(S), NEW desired \in Seq(S), NEW W,
         \A p \in S : p = [f \in DOMAIN p |-> p[f]],
         Carries(ports, desired, W)
  PROVE  Merge(ports, desired, W) = ports
<1>1. NamesOf(ports) = NamesOf(desired)
  BY DEF Carries
<1>2. CASE ports = << >>
  <2>1. desired = << >>
    BY <1>1, <1>2, NoNames
  <2> QED BY <1>2, <2>1 DEF Merge
<1>3. CASE ports # << >>
  <2> DEFINE D == NamesOf(desired)
             stay == Selected(ports, D)
             new == Selected(desired, D \ NamesOf(ports))
             up == [i \in DOMAIN stay |-> Updated(stay[i], ByName(desired, stay[i].name), W)]
  <2>1. Merge(ports, desired, W) = up \o new
    BY <1>3 DEF Merge
  <2>2. stay = ports
    BY <1>1, SelectedIs
  <2>3. new = << >>
    <3>1. new \in Seq(S) /\ Range(new) = { p \in Range(desired) : p.name \in D \ NamesOf(ports) }
      BY SelectedIs
    <3>2. NamesOf(new) = {}
      BY <1>1, <3>1 DEF NamesOf
    <3> HIDE DEF new
    <3> QED BY <3>1, <3>2, NoNames
  <2>4. ASSUME NEW i \in DOMAIN ports
        PROVE  up[i] = ports[i]
    <3>1. ports[i] \in S /\ ports[i] \in Range(ports)
      BY DEF Range
    <3>2. \A f \in W : ports[i][f] = ByName(desired, ports[i].name)[f]
      BY <3>1 DEF Carries
    <3>3. Updated(ports[i], ByName(desired, ports[i].name), W)
            = [f \in DOMAIN ports[i] |-> ports[i][f]]
      BY <3>2 DEF Updated
    <3> HIDE DEF stay
    <3> QED BY <2>2, <3>1, <3>3
  <2>5. up = ports
    <3> HIDE DEF stay
    <3>1. DOMAIN up = DOMAIN ports
      BY <2>2
    <3>2. up = [i \in DOMAIN ports |-> up[i]] /\ ports = [i \in DOMAIN ports |-> ports[i]]
      BY <3>1
    <3> HIDE DEF up
    <3> QED BY <2>4, <3>2
  <2> HIDE DEF up, new
  <2> QED BY <2>1, <2>3, <2>5
<1> QED BY <1>2, <1>3

-----------------------------------------------------------------------------
(***************************************************************************)
(* What the API server adds                                                *)
(***************************************************************************)

\* A partial assignment of distinct values can be completed, as long as there are enough.
LEMMA Extension ==
  ASSUME NEW D, IsFiniteSet(D), NEW N, IsFiniteSet(N), 0 \notin N,
         Cardinality(D) <= Cardinality(N),
         NEW g \in [D -> N \cup {0}],
         \A x, y \in D : g[x] = g[y] /\ g[x] # 0 => x = y
  PROVE  \E f \in [D -> N] : \A x, y \in D : /\ f[x] = f[y] => x = y
                                             /\ g[x] \in {0, f[x]}
<1> DEFINE D0 == { x \in D : g[x] # 0 }
           g0 == [x \in D0 |-> g[x]]
           N0 == Range(g0)
           E == D \ D0
           M == N \ N0
<1>1. D0 \subseteq D /\ IsFiniteSet(D0) /\ IsFiniteSet(E) /\ IsFiniteSet(M)
  BY FS_Subset
<1>2. g0 \in Injection(D0, N)
  <2>1. g0 \in [D0 -> N]
    OBVIOUS
  <2>2. \A x, y \in D0 : g0[x] = g0[y] => x = y
    OBVIOUS
  <2> HIDE DEF g0, D0
  <2> QED BY <2>1, <2>2, Fun_IsInj
<1>3. N0 \subseteq N /\ IsFiniteSet(N0) /\ Cardinality(N0) = Cardinality(D0)
  <2>1. g0 \in Bijection(D0, N0)
    BY <1>2, Fun_InjMeansBijImage
  <2>2. ExistsBijection(D0, N0)
    BY <2>1, Fun_ExistsBij
  <2> QED BY <1>1, <2>2, FS_Bijection DEF Range
<1>4. Cardinality(E) <= Cardinality(M)
  <2>1. Cardinality(E) = Cardinality(D) - Cardinality(D \cap D0)
    BY FS_Difference
  <2>2. Cardinality(M) = Cardinality(N) - Cardinality(N \cap N0)
    BY FS_Difference
  <2>3. D \cap D0 = D0 /\ N \cap N0 = N0
    BY <1>1, <1>3
  <2>4. /\ Cardinality(D) \in Nat /\ Cardinality(N) \in Nat
        /\ Cardinality(D0) \in Nat
    BY <1>1, FS_CardinalityType
  <2> QED BY <1>3, <2>1, <2>2, <2>3, <2>4
<1> HIDE DEF E, M
<1>5. ExistsInjection(E, M)
  <2>1. Cardinality(E) \in Nat /\ Cardinality(M) \in Nat
    BY <1>1, FS_CardinalityType
  <2>2. ExistsBijection(1..Cardinality(E), E) /\ ExistsBijection(1..Cardinality(M), M)
    BY <1>1, FS_CardinalityType
  <2>3. ExistsInjection(1..Cardinality(E), 1..Cardinality(M))
    BY <1>4, <2>1, Fun_NatInjLeq
  <2>4. ExistsBijection(E, 1..Cardinality(E))
    BY <2>2, Fun_ExistsBijSymmetric
  <2>5. ExistsInjection(E, 1..Cardinality(E)) /\ ExistsInjection(1..Cardinality(M), M)
    BY <2>2, <2>4, Fun_ExistsBijEquiv
  <2>6. ExistsInjection(E, 1..Cardinality(M))
    BY <2>3, <2>5, Fun_ExistsInjTransitive
  <2> QED BY <2>5, <2>6, Fun_ExistsInjTransitive
<1>6. PICK h \in [E -> M] : \A x, y \in E : h[x] = h[y] => x = y
  <2>1. PICK h : h \in Injection(E, M)
    BY <1>5, Fun_ExistsInj
  <2> QED BY <2>1, Fun_InjectionProperties
<1> DEFINE f == [x \in D |-> IF g[x] # 0 THEN g[x] ELSE h[x]]
<1>7. \A x \in D : /\ g[x] # 0 => f[x] = g[x] /\ f[x] \in N0 /\ f[x] \in N
                   /\ g[x] = 0 => f[x] = h[x] /\ f[x] \in N /\ f[x] \notin N0 /\ x \in E
  BY <1>6 DEF E, M, Range
<1>8. f \in [D -> N]
  BY <1>7
<1> HIDE DEF f, N0
<1>9. \A x, y \in D : f[x] = f[y] => x = y
  BY <1>6, <1>7
<1>10. \A x \in D : g[x] \in {0, f[x]}
  BY <1>7
<1> QED BY <1>8, <1>9, <1>10

=============================================================================
