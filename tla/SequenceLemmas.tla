--------------------------- MODULE SequenceLemmas ----------------------------
(***************************************************************************)
(* Facts about numbers, sequences, functions that are defined along an     *)
(* interval, paths and tables, for the proofs.                             *)
(***************************************************************************)
EXTENDS VfsPaths, SequenceTheorems, WellFoundedInduction, FiniteSetTheorems, TLAPS

LEMMA LeastElement ==
    ASSUME NEW S \in SUBSET Nat, S # {}
    PROVE  \E x \in S : \A y \in S : x <= y
  <1> DEFINE R == OpToRel(<, Nat)
  <1>1. IsWellFoundedOn(R, Nat)
    BY NatLessThanWellFounded
  <1>2. \A x, y \in Nat : x < y => <<x, y>> \in R
    BY DEF OpToRel
  <1> HIDE DEF R
  <1>3. PICK x \in S : \A y \in S : ~ (<<y, x>> \in R)
    BY <1>1, WFMin
  <1>4. ASSUME NEW y \in S PROVE x <= y
    <2>1. x \in Nat /\ y \in Nat /\ ~(y < x)
      BY <1>2, <1>3
    <2> QED
      BY <2>1
  <1> QED
    BY <1>4

LEMMA GreatestElement ==
    ASSUME NEW N \in Nat, NEW S \in SUBSET (0..N), S # {}
    PROVE  \E x \in S : \A y \in S : y <= x
  <1> DEFINE D == {k \in Nat : N - k \in S}
  <1>1. D \in SUBSET Nat /\ D # {}
    <2>1. PICK y \in S : TRUE
      OBVIOUS
    <2>2. N - y \in Nat /\ N - (N - y) = y
      OBVIOUS
    <2> QED
      BY <2>1, <2>2
  <1>2. PICK k \in D : \A j \in D : k <= j
    <2> HIDE DEF D
    <2> QED
      BY <1>1, LeastElement
  <1>3. k \in Nat /\ N - k \in S
    OBVIOUS
  <1>4. ASSUME NEW y \in S PROVE y <= N - k
    <2>1. N - y \in D /\ y \in Nat
      OBVIOUS
    <2>2. k <= N - y
      BY <1>2, <2>1
    <2> QED
      BY <1>3, <2>1, <2>2
  <1> QED
    BY <1>3, <1>4

LEMMA AppendElements ==
    ASSUME NEW S, NEW s \in Seq(S), NEW n \in S
    PROVE  /\ Append(s, n) \in Seq(S)
           /\ Len(Append(s, n)) = Len(s) + 1
           /\ \A i \in 1..Len(s) : Append(s, n)[i] = s[i]
           /\ Append(s, n)[Len(s) + 1] = n
           /\ ToSet(Append(s, n)) = ToSet(s) \cup {n}
  <1> DEFINE t == Append(s, n)
  <1>1. /\ t \in Seq(S)
        /\ Len(t) = Len(s) + 1
        /\ \A i \in 1..Len(s) : t[i] = s[i]
        /\ t[Len(s) + 1] = n
    OBVIOUS
  <1>2. DOMAIN t = 1..Len(s) + 1 /\ DOMAIN s = 1..Len(s) /\ Len(s) \in Nat
    BY <1>1
  <1>3. ToSet(t) = ToSet(s) \cup {n}
    BY <1>1, <1>2 DEF ToSet
  <1> QED
    BY <1>1, <1>3

\* Appending an element a sequence without repetitions does not have.
LEMMA AppendNew ==
    ASSUME NEW S, NEW s \in Seq(S), IsInjective(s), NEW n \in S, n \notin ToSet(s)
    PROVE  IsInjective(Append(s, n))
  <1> DEFINE t == Append(s, n)
  <1>1. /\ t \in Seq(S)
        /\ Len(t) = Len(s) + 1
        /\ \A i \in 1..Len(s) : t[i] = s[i]
        /\ t[Len(s) + 1] = n
    BY AppendElements
  <1>2. DOMAIN t = 1..Len(s) + 1 /\ DOMAIN s = 1..Len(s) /\ Len(s) \in Nat
    BY <1>1
  <1> HIDE DEF t
  <1>3. \A k \in 1..Len(s) : t[k] \in ToSet(s)
    BY <1>1, <1>2 DEF ToSet
  <1>4. ASSUME NEW i \in DOMAIN t, NEW j \in DOMAIN t, t[i] = t[j]
        PROVE  i = j
    <2>1. /\ i \in 1..Len(s) \/ i = Len(s) + 1
          /\ j \in 1..Len(s) \/ j = Len(s) + 1
      BY <1>2
    <2>2. CASE i \in 1..Len(s) /\ j \in 1..Len(s)
      BY <1>1, <1>2, <1>4, <2>2 DEF IsInjective
    <2> QED
      BY <1>1, <1>3, <1>4, <2>1, <2>2
  <1>5. IsInjective(t)
    BY <1>4 DEF IsInjective
  <1> QED
    BY <1>5 DEF t

\* Erasing an element moves those behind it one place forward.
LEMMA RemoveAtElements ==
    ASSUME NEW S, NEW s \in Seq(S), IsInjective(s), NEW i \in 1..Len(s)
    PROVE  /\ RemoveAt(s, i) \in Seq(S)
           /\ IsInjective(RemoveAt(s, i))
           /\ Len(RemoveAt(s, i)) = Len(s) - 1
           /\ \A k \in 1..Len(s) - 1 :
                 RemoveAt(s, i)[k] = IF k < i THEN s[k] ELSE s[k + 1]
           /\ ToSet(RemoveAt(s, i)) = ToSet(s) \ {s[i]}
  <1> DEFINE t == RemoveAt(s, i)
             u == SubSeq(s, 1, i - 1)
             v == SubSeq(s, i + 1, Len(s))
  <1>1. /\ u \in Seq(S) /\ Len(u) = i - 1
        /\ \A k \in 1..i - 1 : u[k] = s[k]
    OBVIOUS
  <1>2. /\ v \in Seq(S) /\ Len(v) = Len(s) - i
        /\ \A k \in 1..Len(s) - i : v[k] = s[k + i]
    OBVIOUS
  <1>3. t = u \o v
    BY DEF RemoveAt
  <1> HIDE DEF t, u, v
  <1>4. t \in Seq(S) /\ Len(t) = Len(s) - 1
    BY <1>1, <1>2, <1>3, SMTT(30)
  <1>5. \A k \in 1..Len(s) - 1 : t[k] = IF k < i THEN s[k] ELSE s[k + 1]
    BY <1>1, <1>2, <1>3
  <1>6. DOMAIN t = 1..Len(s) - 1 /\ DOMAIN s = 1..Len(s) /\ Len(s) \in Nat
    BY <1>4
  <1>7. IsInjective(t)
    BY <1>5, <1>6 DEF IsInjective
  <1>8. ToSet(t) = ToSet(s) \ {s[i]}
    <2>1. \A k \in DOMAIN t : t[k] \in ToSet(s) \ {s[i]}
      BY <1>5, <1>6 DEF IsInjective, ToSet
    <2>2. \A j \in DOMAIN s : j # i => s[j] \in ToSet(t)
      <3> SUFFICES ASSUME NEW j \in DOMAIN s, j # i
                   PROVE  \E k \in DOMAIN t : t[k] = s[j]
        BY DEF ToSet
      <3>1. CASE j < i
        BY <3>1, <1>5, <1>6
      <3>2. CASE j > i
        <4>1. j - 1 \in 1..Len(s) - 1 /\ ~(j - 1 < i) /\ (j - 1) + 1 = j
          BY <3>2, <1>6
        <4> QED
          BY <4>1, <1>5, <1>6
      <3> QED
        BY <3>1, <3>2, <1>6
    <2> QED
      BY <2>1, <2>2 DEF ToSet
  <1> QED
    BY <1>4, <1>5, <1>7, <1>8 DEF t

LEMMA ConcatElements ==
    ASSUME NEW S, NEW s \in Seq(S), NEW t \in Seq(S)
    PROVE  /\ s \o t \in Seq(S)
           /\ Len(s \o t) = Len(s) + Len(t)
           /\ \A i \in 1..Len(s) : (s \o t)[i] = s[i]
           /\ \A i \in 1..Len(t) : (s \o t)[Len(s) + i] = t[i]
           /\ ToSet(s \o t) = ToSet(s) \cup ToSet(t)
  <1> DEFINE u == s \o t
  <1>1. /\ u \in Seq(S)
        /\ Len(u) = Len(s) + Len(t)
        /\ \A i \in 1..Len(s) : u[i] = s[i]
        /\ \A i \in 1..Len(t) : u[Len(s) + i] = t[i]
    OBVIOUS
  <1>2. /\ DOMAIN u = 1..Len(s) + Len(t)
        /\ DOMAIN s = 1..Len(s) /\ DOMAIN t = 1..Len(t)
        /\ Len(s) \in Nat /\ Len(t) \in Nat
    BY <1>1
  <1> HIDE DEF u
  <1>3. ASSUME NEW i \in DOMAIN u PROVE u[i] \in ToSet(s) \cup ToSet(t)
    <2>1. CASE i \in 1..Len(s)
      BY <1>1, <1>2, <2>1 DEF ToSet
    <2>2. CASE i \notin 1..Len(s)
      <3>1. i - Len(s) \in 1..Len(t) /\ Len(s) + (i - Len(s)) = i
        BY <1>2, <2>2
      <3>2. u[i] = t[i - Len(s)]
        BY <1>1, <3>1
      <3> QED
        BY <1>2, <3>1, <3>2 DEF ToSet
    <2> QED
      BY <2>1, <2>2
  <1>4. ASSUME NEW i \in DOMAIN s PROVE s[i] \in ToSet(u)
    BY <1>1, <1>2 DEF ToSet
  <1>5. ASSUME NEW i \in DOMAIN t PROVE t[i] \in ToSet(u)
    <2>1. Len(s) + i \in DOMAIN u
      BY <1>2
    <2> QED
      BY <1>1, <1>2, <2>1 DEF ToSet
  <1>6. ToSet(u) = ToSet(s) \cup ToSet(t)
    BY <1>3, <1>4, <1>5 DEF ToSet
  <1> QED
    BY <1>1, <1>6 DEF u

\* A prefix, as SubSeq cuts it off.
LEMMA PrefixElements ==
    ASSUME NEW S, NEW s \in Seq(S), NEW n \in 0..Len(s)
    PROVE  /\ SubSeq(s, 1, n) \in Seq(S)
           /\ Len(SubSeq(s, 1, n)) = n
           /\ ToSet(SubSeq(s, 1, n)) \subseteq ToSet(s)
  <1> DEFINE t == SubSeq(s, 1, n)
  <1>1. /\ t \in Seq(S) /\ Len(t) = n
        /\ \A i \in 1..n : t[i] = s[i]
    OBVIOUS
  <1>2. DOMAIN t = 1..n /\ DOMAIN s = 1..Len(s) /\ Len(s) \in Nat
    BY <1>1
  <1> QED
    BY <1>1, <1>2 DEF ToSet

\* A sequence is its front and its last element.
LEMMA FrontLast ==
    ASSUME NEW S, NEW s \in Seq(S), s # << >>
    PROVE  /\ Front(s) \in Seq(S) /\ Last(s) \in S
           /\ Len(Front(s)) = Len(s) - 1
           /\ Append(Front(s), Last(s)) = s
           /\ ToSet(s) = ToSet(Front(s)) \cup {Last(s)}
  <1>1. Len(s) \in Nat \ {0} /\ DOMAIN s = 1..Len(s)
    OBVIOUS
  <1>2. /\ Front(s) \in Seq(S) /\ Len(Front(s)) = Len(s) - 1
        /\ \A i \in 1..Len(s) - 1 : Front(s)[i] = s[i]
    BY <1>1 DEF Front
  <1>3. Last(s) \in S /\ Last(s) = s[Len(s)]
    BY <1>1 DEF Last
  <1> DEFINE t == Append(Front(s), Last(s))
  <1>4. /\ t \in Seq(S) /\ Len(t) = Len(s)
        /\ \A i \in 1..Len(s) - 1 : t[i] = s[i]
        /\ t[Len(s)] = s[Len(s)]
    <2> DEFINE f == Front(s)
               e == Last(s)
    <2>1. f \in Seq(S) /\ e \in S /\ Len(f) + 1 = Len(s)
      BY <1>1, <1>2, <1>3
    <2> HIDE DEF f, e
    <2>2. /\ Append(f, e) \in Seq(S)
          /\ Len(Append(f, e)) = Len(f) + 1
          /\ \A i \in 1..Len(f) : Append(f, e)[i] = f[i]
          /\ Append(f, e)[Len(f) + 1] = e
      BY <2>1
    <2> QED
      BY <1>1, <1>2, <1>3, <2>1, <2>2 DEF f, e
  <1> HIDE DEF t
  <1>5. t = s
    BY <1>1, <1>4, SeqEqual
  <1>6. ToSet(t) = ToSet(Front(s)) \cup {Last(s)}
    BY <1>2, <1>3, AppendElements DEF t
  <1> QED
    BY <1>2, <1>3, <1>5, <1>6 DEF t

LEMMA LastIn ==
    ASSUME NEW S, NEW s \in Seq(S), s # << >>
    PROVE  Last(s) \in S /\ Last(s) \in ToSet(s)
  BY FrontLast

LEMMA FrontOfAppend ==
    ASSUME NEW S, NEW s \in Seq(S), NEW n \in S
    PROVE  /\ Front(Append(s, n)) = s
           /\ Last(Append(s, n)) = n
           /\ Append(s, n) # << >>
  <1> DEFINE t == Append(s, n)
  <1>1. /\ t \in Seq(S) /\ Len(t) = Len(s) + 1 /\ Len(s) \in Nat
        /\ \A i \in 1..Len(s) : t[i] = s[i]
        /\ t[Len(s) + 1] = n
    OBVIOUS
  <1>2. /\ Front(t) \in Seq(S) /\ Len(Front(t)) = Len(s)
        /\ \A i \in 1..Len(s) : Front(t)[i] = s[i]
    BY <1>1 DEF Front
  <1>3. Front(t) = s
    BY <1>2
  <1> QED
    BY <1>1, <1>3 DEF Last

\* A sequence is its head and its tail.
LEMMA HeadTail ==
    ASSUME NEW S, NEW s \in Seq(S), s # << >>
    PROVE  /\ Head(s) \in S /\ Tail(s) \in Seq(S)
           /\ Len(Tail(s)) = Len(s) - 1
           /\ ToSet(s) = {Head(s)} \cup ToSet(Tail(s))
  <1>1. /\ Len(s) \in Nat \ {0} /\ DOMAIN s = 1..Len(s)
        /\ Head(s) = s[1] /\ Tail(s) \in Seq(S)
        /\ Len(Tail(s)) = Len(s) - 1
        /\ \A i \in 1..Len(s) - 1 : Tail(s)[i] = s[i + 1]
    OBVIOUS
  <1>2. DOMAIN Tail(s) = 1..Len(s) - 1
    BY <1>1
  <1>3. \A i \in DOMAIN s : s[i] \in {Head(s)} \cup ToSet(Tail(s))
    <2> SUFFICES ASSUME NEW i \in DOMAIN s, i # 1 PROVE s[i] \in ToSet(Tail(s))
      BY <1>1
    <2>1. i - 1 \in DOMAIN Tail(s) /\ (i - 1) + 1 = i
      BY <1>1, <1>2
    <2>2. Tail(s)[i - 1] = s[i]
      BY <1>1, <1>2, <2>1
    <2> QED
      BY <2>1, <2>2 DEF ToSet
  <1>4. \A i \in DOMAIN Tail(s) : Tail(s)[i] \in ToSet(s)
    BY <1>1, <1>2 DEF ToSet
  <1>5. Head(s) \in ToSet(s)
    BY <1>1 DEF ToSet
  <1> QED
    BY <1>1, <1>3, <1>4, <1>5 DEF ToSet

\* A finite set as a sequence without repetitions.
LEMMA SetToSeqIs ==
    ASSUME NEW S, IsFiniteSet(S)
    PROVE  /\ SetToSeq(S) \in Seq(S) /\ IsInjective(SetToSeq(S))
           /\ ToSet(SetToSeq(S)) \subseteq S
  <1> DEFINE n == Cardinality(S)
             Is(f) == f \in [1..n -> S] /\ IsInjective(f)
  <1>1. n \in Nat /\ ExistsBijection(1..n, S)
    BY FS_CardinalityType
  <1> HIDE DEF n
  <1>2. PICK f \in Bijection(1..n, S) : TRUE
    BY <1>1 DEF ExistsBijection
  <1>3. f \in [1..n -> S] /\ \A a, b \in 1..n : f[a] = f[b] => a = b
    BY <1>2 DEF Bijection, Injection, IsInjective
  <1>4. f \in [1..n -> S] /\ DOMAIN f = 1..n
    BY <1>3
  <1>5. Is(f)
    BY <1>3, <1>4 DEF IsInjective
  <1>6. SetToSeq(S) = CHOOSE g \in [1..n -> S] : IsInjective(g)
    BY DEF SetToSeq, n
  <1>7. Is(SetToSeq(S))
    BY <1>5, <1>6
  <1> DEFINE s == SetToSeq(S)
  <1>8. s \in [1..n -> S] /\ IsInjective(s)
    BY <1>7
  <1> HIDE DEF s
  <1>9. s \in Seq(S) /\ DOMAIN s = 1..n /\ \A i \in 1..n : s[i] \in S
    BY <1>1, <1>8
  <1>10. ToSet(s) \subseteq S
    BY <1>9 DEF ToSet
  <1> QED
    BY <1>8, <1>9, <1>10 DEF s

\* Appending what a sequence without repetitions does not have.
LEMMA ConcatNew ==
    ASSUME NEW S, NEW s \in Seq(S), NEW t \in Seq(S), IsInjective(s), IsInjective(t),
           ToSet(s) \cap ToSet(t) = {}
    PROVE  IsInjective(s \o t)
  <1> DEFINE u == s \o t
  <1>1. /\ u \in Seq(S) /\ Len(u) = Len(s) + Len(t)
        /\ \A i \in 1..Len(s) : u[i] = s[i]
        /\ \A i \in 1..Len(t) : u[Len(s) + i] = t[i]
    BY ConcatElements
  <1>2. /\ DOMAIN u = 1..Len(s) + Len(t)
        /\ DOMAIN s = 1..Len(s) /\ DOMAIN t = 1..Len(t)
        /\ Len(s) \in Nat /\ Len(t) \in Nat
    BY <1>1
  <1> HIDE DEF u
  <1>3. \A i \in 1..Len(s) : u[i] \in ToSet(s)
    BY <1>1, <1>2 DEF ToSet
  <1>4. ASSUME NEW i \in DOMAIN u, i \notin 1..Len(s)
        PROVE  /\ i - Len(s) \in 1..Len(t) /\ u[i] = t[i - Len(s)]
               /\ u[i] \in ToSet(t)
    <2>1. i - Len(s) \in 1..Len(t) /\ Len(s) + (i - Len(s)) = i
      BY <1>2, <1>4
    <2>2. u[i] = t[i - Len(s)]
      BY <1>1, <2>1
    <2> QED
      BY <1>2, <2>1, <2>2 DEF ToSet
  <1>5. ASSUME NEW i \in DOMAIN u, NEW j \in DOMAIN u, u[i] = u[j]
        PROVE  i = j
    <2>1. CASE i \in 1..Len(s) /\ j \in 1..Len(s)
      <3>1. s[i] = s[j]
        BY <1>1, <1>5, <2>1
      <3> QED
        BY <1>2, <2>1, <3>1 DEF IsInjective
    <2>2. CASE i \notin 1..Len(s) /\ j \notin 1..Len(s)
      <3>1. /\ i - Len(s) \in 1..Len(t) /\ j - Len(s) \in 1..Len(t)
            /\ t[i - Len(s)] = t[j - Len(s)]
        BY <1>4, <1>5, <2>2
      <3>2. i - Len(s) = j - Len(s)
        BY <1>2, <3>1 DEF IsInjective
      <3> QED
        BY <1>2, <3>2
    <2>3. CASE i \in 1..Len(s) /\ j \notin 1..Len(s)
      BY <1>3, <1>4, <1>5, <2>3
    <2>4. CASE i \notin 1..Len(s) /\ j \in 1..Len(s)
      BY <1>3, <1>4, <1>5, <2>4
    <2> QED
      BY <2>1, <2>2, <2>3, <2>4
  <1> QED
    BY <1>5 DEF IsInjective, u

-----------------------------------------------------------------------------
(* Recursion *)

\* T has the good values at each point, which a step by G goes from one to the
\* next of.
Steps(a, b, T, G) == \A i \in a + 1..b : \A x \in T[i - 1] : G[i][x] \in T[i]

Iterates(f, a, b, T, G, start) ==
    /\ f = [i \in a..b |-> f[i]] /\ f[a] = start
    /\ \A i \in a + 1..b : f[i] = G[i][f[i - 1]]
    /\ \A i \in a..b : f[i] \in T[i]

\* What holds at 0 and at each number after one it holds at.
LEMMA IntervalInduction ==
    ASSUME NEW b \in Nat, NEW S, 0 \in S, \A i \in 1..b : i - 1 \in S => i \in S
    PROVE  \A i \in 0..b : i \in S
  <1> DEFINE Bad == {i \in 0..b : i \notin S}
  <1>1. SUFFICES ASSUME Bad # {} PROVE FALSE
    OBVIOUS
  <1>2. Bad \in SUBSET Nat
    OBVIOUS
  <1>3. PICK n \in Bad : \A m \in Bad : n <= m
    <2> HIDE DEF Bad
    <2> QED
      BY <1>1, <1>2, LeastElement
  <1>4. n \in 0..b /\ n \notin S /\ n # 0
    BY <1>3
  <1>5. n \in 1..b /\ n - 1 \in 0..b /\ ~(n <= n - 1)
    BY <1>4
  <1>6. n - 1 \in S
    BY <1>3, <1>5
  <1> QED
    BY <1>4, <1>5, <1>6

\* A function that is defined along an interval has at each point a value of
\* the set for it, if the start and every step do.
LEMMA IterationValues ==
    ASSUME NEW a \in Nat, NEW b \in Nat, a <= b, NEW T, NEW G, NEW start \in T[a],
           Steps(a, b, T, G),
           NEW f, f[a] = start,
           \A i \in a + 1..b : f[i - 1] \in T[i - 1] => f[i] = G[i][f[i - 1]]
    PROVE  \A i \in a..b : f[i] \in T[i]
  <1> DEFINE Bad == {i \in a..b : f[i] \notin T[i]}
  <1>1. SUFFICES ASSUME Bad # {} PROVE FALSE
    OBVIOUS
  <1>2. Bad \in SUBSET Nat
    OBVIOUS
  <1>3. PICK n \in Bad : \A m \in Bad : n <= m
    <2> HIDE DEF Bad
    <2> QED
      BY <1>1, <1>2, LeastElement
  <1>4. n \in a..b /\ f[n] \notin T[n]
    BY <1>3
  <1>5. n # a
    BY <1>4
  <1>6. n \in a + 1..b /\ n - 1 \in a..b /\ ~(n <= n - 1)
    BY <1>4, <1>5
  <1>7. f[n - 1] \in T[n - 1]
    BY <1>3, <1>6
  <1> QED
    BY <1>4, <1>6, <1>7 DEF Steps

\* There is such a function.
LEMMA IterationExists ==
    ASSUME NEW a \in Nat, NEW b \in Nat, a <= b, NEW T, NEW G, NEW start \in T[a],
           Steps(a, b, T, G)
    PROVE  \E f : Iterates(f, a, b, T, G, start)
  <1> DEFINE Is(n, f) == f = [i \in a..n |-> IF i = a THEN start ELSE G[i][f[i - 1]]]
             Bad == {n \in a..b : ~\E f : Is(n, f)}
  <1>1. Bad = {}
    <2> SUFFICES ASSUME Bad # {} PROVE FALSE
      OBVIOUS
    <2>1. Bad \in SUBSET Nat
      OBVIOUS
    <2>2. PICK n \in Bad : \A m \in Bad : n <= m
      <3> HIDE DEF Bad
      <3> QED
        BY <2>1, LeastElement
    <2>3. n \in a..b /\ ~\E f : Is(n, f)
      BY <2>2
    <2>4. CASE n = a
      <3> DEFINE f == [i \in a..a |-> start]
      <3>1. f = [i \in a..a |-> IF i = a THEN start ELSE G[i][f[i - 1]]]
        OBVIOUS
      <3>2. Is(n, f)
        BY <2>4, <3>1
      <3> QED
        BY <2>3, <3>2
    <2>5. CASE n # a
      <3>1. n - 1 \in a..b /\ ~(n <= n - 1)
        BY <2>3, <2>5
      <3>2. n - 1 \notin Bad
        BY <2>2, <3>1
      <3>3. PICK f : Is(n - 1, f)
        BY <3>1, <3>2
      <3> DEFINE g == [i \in a..n |-> IF i = n THEN G[n][f[n - 1]] ELSE f[i]]
      <3>4. \A i \in a..n : g[i] = IF i = a THEN start ELSE G[i][g[i - 1]]
        <4> TAKE i \in a..n
        <4>1. CASE i = n
          BY <4>1, <2>3, <2>5
        <4>2. CASE i # n
          <5>1. i \in a..n - 1 /\ (i = a \/ i - 1 \in a..n - 1) /\ n \in Nat
            BY <4>2, <2>3
          <5>2. f[i] = IF i = a THEN start ELSE G[i][f[i - 1]]
            BY <3>3, <5>1
          <5> QED
            BY <4>2, <5>1, <5>2
        <4> QED
          BY <4>1, <4>2
      <3>5. g = [i \in a..n |-> g[i]]
        OBVIOUS
      <3>6. g = [i \in a..n |-> IF i = a THEN start ELSE G[i][g[i - 1]]]
        <4> HIDE DEF g
        <4> QED
          BY <3>4, <3>5
      <3>7. Is(n, g)
        BY <3>6
      <3> QED
        BY <2>3, <3>7
    <2> QED
      BY <2>4, <2>5
  <1>2. PICK f : Is(b, f)
    BY <1>1
  <1>3. /\ f[a] = start
        /\ \A i \in a + 1..b : f[i - 1] \in T[i - 1] => f[i] = G[i][f[i - 1]]
    BY <1>2
  <1>4. \A i \in a..b : f[i] \in T[i]
    <2> HIDE DEF Is, Bad
    <2> QED
      BY <1>3, IterationValues
  <1>5. \A i \in a + 1..b : f[i] = G[i][f[i - 1]]
    BY <1>2
  <1>6. f = [i \in a..b |-> f[i]]
    BY <1>2
  <1> QED
    BY <1>3, <1>4, <1>5, <1>6 DEF Iterates

-----------------------------------------------------------------------------
(* Paths *)

LEMMA PrefixIs ==
    ASSUME NEW S, NEW p \in Seq(S), NEW q \in Seq(S)
    PROVE  IsPrefix(q, p) <=> /\ Len(q) <= Len(p)
                              /\ \A i \in 1..Len(q) : q[i] = p[i]
  <1> DEFINE u == SubSeq(q, 1, Len(q))
             v == SubSeq(p, 1, Len(q))
  <1> SUFFICES ASSUME Len(q) <= Len(p)
               PROVE  u = v <=> \A i \in 1..Len(q) : q[i] = p[i]
    BY DEF IsPrefix
  <1>1. /\ u \in Seq(S) /\ Len(u) = Len(q)
        /\ \A i \in 1..Len(q) : u[i] = q[i]
    OBVIOUS
  <1>2. /\ v \in Seq(S) /\ Len(v) = Len(q)
        /\ \A i \in 1..Len(q) : v[i] = p[i]
    OBVIOUS
  <1> HIDE DEF u, v
  <1>3. (\A i \in 1..Len(q) : u[i] = v[i]) => u = v
    BY <1>1, <1>2, SeqEqual
  <1> QED
    BY <1>1, <1>2, <1>3

\* What is on the way to p is what is a prefix of p.
LEMMA OnPathIs ==
    ASSUME NEW S, NEW p \in Seq(S)
    PROVE  /\ \A q \in OnPath(p) : q \in Seq(S) /\ IsPrefix(q, p)
           /\ \A q \in Seq(S) : IsPrefix(q, p) => q \in OnPath(p)
           /\ p \in OnPath(p) /\ << >> \in OnPath(p)
  <1>1. ASSUME NEW j \in 0..Len(p)
        PROVE  Up(p, j) \in Seq(S) /\ IsPrefix(Up(p, j), p)
    <2> DEFINE u == SubSeq(p, 1, Len(p) - j)
    <2>1. /\ u \in Seq(S) /\ Len(u) = Len(p) - j
          /\ \A i \in 1..Len(p) - j : u[i] = p[i]
      OBVIOUS
    <2> HIDE DEF u
    <2>2. IsPrefix(u, p)
      BY <2>1, PrefixIs
    <2> QED
      BY <2>1, <2>2 DEF Up, u
  <1>2. ASSUME NEW q \in Seq(S), IsPrefix(q, p)
        PROVE  q \in OnPath(p)
    <2>1. Len(q) <= Len(p) /\ \A i \in 1..Len(q) : q[i] = p[i]
      BY <1>2, PrefixIs
    <2>2. CASE Len(q) = Len(p)
      <3>1. q = p
        BY <2>1, <2>2, SeqEqual
      <3> QED
        BY <3>1 DEF OnPath
    <2>3. CASE Len(q) # Len(p)
      <3> DEFINE j == Len(p) - Len(q)
                 u == SubSeq(p, 1, Len(p) - j)
      <3>1. j \in 1..Len(p) /\ Len(p) - j = Len(q)
        BY <2>1, <2>3
      <3>2. /\ u \in Seq(S) /\ Len(u) = Len(q)
            /\ \A i \in 1..Len(q) : u[i] = p[i]
        BY <2>1, <3>1
      <3> HIDE DEF u
      <3>3. u = q
        BY <2>1, <3>2, SeqEqual
      <3> QED
        BY <3>1, <3>3 DEF OnPath, Ancestors, Up, u
    <2> QED
      BY <2>2, <2>3
  <1>3. IsPrefix(p, p) /\ IsPrefix(<< >>, p) /\ << >> \in Seq(S)
    <2> DEFINE e == << >>
    <2>1. e \in Seq(S) /\ Len(e) = 0 /\ Len(p) \in Nat
      OBVIOUS
    <2> HIDE DEF e
    <2>2. IsPrefix(e, p)
      <3>1. Len(e) <= Len(p) /\ \A i \in 1..Len(e) : e[i] = p[i]
        BY <2>1
      <3> QED
        BY <2>1, <3>1, PrefixIs
    <2>3. IsPrefix(p, p)
      BY <2>1, PrefixIs
    <2> QED
      BY <2>1, <2>2, <2>3 DEF e
  <1>4. \A q \in OnPath(p) : q \in Seq(S) /\ IsPrefix(q, p)
    BY <1>1, <1>3 DEF OnPath, Ancestors
  <1> QED
    BY <1>2, <1>3, <1>4

LEMMA Longest ==
    ASSUME NEW S, NEW p \in Seq(S), NEW Q \in SUBSET OnPath(p), Q # {}
    PROVE  /\ LongestOf(Q) \in Q
           /\ \A q \in Q : Len(q) <= Len(LongestOf(Q))
  <1>1. \A q \in Q : q \in Seq(S) /\ Len(q) \in 0..Len(p)
    BY OnPathIs, PrefixIs
  <1> DEFINE L == {Len(q) : q \in Q}
  <1>2. L \subseteq 0..Len(p) /\ L # {} /\ Len(p) \in Nat
    <2>1. \A n \in L : n \in 0..Len(p)
      BY <1>1
    <2>2. L # {}
      OBVIOUS
    <2> QED
      BY <2>1, <2>2
  <1>3. PICK n \in L : \A m \in L : m <= n
    <2> HIDE DEF L
    <2> QED
      BY <1>2, GreatestElement
  <1>4. \E r \in Q : \A q \in Q : Len(q) <= Len(r)
    BY <1>3
  <1> QED
    BY <1>4 DEF LongestOf

\* A path is its parent and its last name.
LEMMA ParentLast ==
    ASSUME NEW S, NEW p \in Seq(S), p # << >>
    PROVE  /\ Parent(p) \in Seq(S) /\ Last(p) \in S
           /\ Len(Parent(p)) = Len(p) - 1 /\ Len(p) \in Nat \ {0}
           /\ Append(Parent(p), Last(p)) = p
           /\ IsPrefix(Parent(p), p)
           /\ \A q \in Seq(S) : IsPrefix(q, p) => q = p \/ IsPrefix(q, Parent(p))
  <1>1. Parent(p) = Front(p)
    BY DEF Parent, Up, Front
  <1>2. /\ Parent(p) \in Seq(S) /\ Last(p) \in S
        /\ Len(Parent(p)) = Len(p) - 1 /\ Len(p) \in Nat \ {0}
        /\ Append(Parent(p), Last(p)) = p
    BY <1>1, FrontLast
  <1>3. \A i \in 1..Len(p) - 1 : Parent(p)[i] = p[i]
    BY <1>2, AppendElements
  <1>4. IsPrefix(Parent(p), p)
    BY <1>2, <1>3, PrefixIs
  <1>5. ASSUME NEW q \in Seq(S), IsPrefix(q, p)
        PROVE  q = p \/ IsPrefix(q, Parent(p))
    <2>1. Len(q) <= Len(p) /\ \A i \in 1..Len(q) : q[i] = p[i]
      BY <1>5, PrefixIs
    <2>2. CASE Len(q) = Len(p)
      BY <2>1, <2>2, SeqEqual
    <2>3. CASE Len(q) # Len(p)
      <3>1. Len(q) <= Len(p) - 1
        BY <1>2, <2>1, <2>3
      <3> QED
        BY <1>2, <1>3, <2>1, <3>1, PrefixIs
    <2> QED
      BY <2>2, <2>3
  <1> QED
    BY <1>2, <1>4, <1>5

LEMMA ParentOfAppend ==
    ASSUME NEW S, NEW p \in Seq(S), NEW n \in S
    PROVE  /\ Append(p, n) \in Seq(S) /\ Append(p, n) # << >>
           /\ Parent(Append(p, n)) = p /\ Last(Append(p, n)) = n
  <1>1. Parent(Append(p, n)) = Front(Append(p, n))
    BY DEF Parent, Up, Front
  <1> QED
    BY <1>1, FrontOfAppend, AppendElements

LEMMA PrefixTransitive ==
    ASSUME NEW S, NEW p \in Seq(S), NEW q \in Seq(S), NEW r \in Seq(S),
           IsPrefix(p, q), IsPrefix(q, r)
    PROVE  IsPrefix(p, r)
  <1>1. Len(p) <= Len(q) /\ Len(q) <= Len(r)
    BY PrefixIs
  <1>2. \A i \in 1..Len(p) : i \in 1..Len(q) /\ p[i] = q[i] /\ q[i] = r[i]
    BY <1>1, PrefixIs
  <1>3. \A i \in 1..Len(p) : p[i] = r[i]
    BY <1>2
  <1> QED
    BY <1>1, <1>3, PrefixIs

\* Of two paths on the way to a third, one is on the way to the other.
LEMMA PrefixTotal ==
    ASSUME NEW S, NEW p \in Seq(S), NEW q \in Seq(S), NEW r \in Seq(S),
           IsPrefix(p, r), IsPrefix(q, r)
    PROVE  IsPrefix(p, q) \/ IsPrefix(q, p)
  <1>1. /\ \A i \in 1..Len(p) : p[i] = r[i]
        /\ \A i \in 1..Len(q) : q[i] = r[i]
        /\ Len(p) \in Nat /\ Len(q) \in Nat
    BY PrefixIs
  <1>2. CASE Len(p) <= Len(q)
    <2>1. \A i \in 1..Len(p) : p[i] = q[i]
      BY <1>1, <1>2
    <2> QED
      BY <1>2, <2>1, PrefixIs
  <1>3. CASE Len(q) <= Len(p)
    <2>1. \A i \in 1..Len(q) : q[i] = p[i]
      BY <1>1, <1>3
    <2> QED
      BY <1>3, <2>1, PrefixIs
  <1> QED
    BY <1>1, <1>2, <1>3

\* What is below from goes below to, and keeps its own part.
LEMMA RelocateIs ==
    ASSUME NEW S, NEW p \in Seq(S), NEW from \in Seq(S), NEW to \in Seq(S),
           IsPrefix(from, p)
    PROVE  /\ Relocate(p, from, to) \in Seq(S)
           /\ IsPrefix(to, Relocate(p, from, to))
           /\ Relocate(p, from, to) = p => from = to
           /\ p = from => Relocate(p, from, to) = to
           /\ p # from => /\ p # << >>
                          /\ Relocate(p, from, to)
                                = Append(Relocate(Parent(p), from, to), Last(p))
  <1> DEFINE rest == SubSeq(p, Len(from) + 1, Len(p))
             s == to \o rest
  <1>1. Len(from) <= Len(p) /\ \A i \in 1..Len(from) : from[i] = p[i]
    BY PrefixIs
  <1>2. /\ rest \in Seq(S) /\ Len(rest) = Len(p) - Len(from)
        /\ \A i \in 1..Len(p) - Len(from) : rest[i] = p[Len(from) + i]
    BY <1>1
  <1>3. Relocate(p, from, to) = s
    BY DEF Relocate
  <1> HIDE DEF rest
  <1>4. /\ s \in Seq(S) /\ Len(s) = Len(to) + (Len(p) - Len(from))
        /\ \A i \in 1..Len(to) : s[i] = to[i]
        /\ \A i \in 1..Len(p) - Len(from) : s[Len(to) + i] = rest[i]
        /\ Len(to) \in Nat /\ Len(from) \in Nat /\ Len(p) \in Nat
    <2>0. rest \in Seq(S)
      BY <1>2
    <2>1. /\ s \in Seq(S) /\ Len(s) = Len(to) + Len(rest)
          /\ \A i \in 1..Len(to) : s[i] = to[i]
          /\ \A i \in 1..Len(rest) : s[Len(to) + i] = rest[i]
      BY <2>0, ConcatElements
    <2>2. Len(to) \in Nat /\ Len(from) \in Nat /\ Len(p) \in Nat
      OBVIOUS
    <2> HIDE DEF s
    <2> QED
      BY <1>2, <2>1, <2>2
  <1> HIDE DEF s
  <1>5. IsPrefix(to, s)
    <2>1. Len(to) <= Len(s)
      BY <1>1, <1>4
    <2>2. \A i \in 1..Len(to) : to[i] = s[i]
      BY <1>4
    <2>3. s \in Seq(S)
      BY <1>4
    <2> QED
      BY <2>1, <2>2, <2>3, PrefixIs
  <1>6. ASSUME s = p PROVE from = to
    <2>1. Len(to) = Len(from)
      BY <1>1, <1>4, <1>6
    <2> QED
      BY <1>1, <1>4, <1>6, <2>1, SeqEqual
  <1>7. ASSUME p = from PROVE s = to
    BY <1>4, <1>7, SeqEqual
  <1>8. ASSUME p # from
        PROVE  /\ p # << >>
               /\ s = Append(Relocate(Parent(p), from, to), Last(p))
    <2>1. Len(from) # Len(p)
      BY <1>1, <1>8, SeqEqual
    <2>2. p # << >>
      BY <1>1, <2>1
    <2> DEFINE q == Parent(p)
               front == SubSeq(q, Len(from) + 1, Len(q))
               r == to \o front
               t == Append(r, Last(p))
    <2>3. /\ q \in Seq(S) /\ Len(q) = Len(p) - 1 /\ Last(p) \in S
          /\ Append(q, Last(p)) = p
      BY <2>2, ParentLast
    <2>4. /\ \A i \in 1..Len(p) - 1 : q[i] = p[i]
          /\ Last(p) = p[Len(p)]
      BY <2>3, AppendElements DEF Last
    <2> HIDE DEF q
    <2>5. /\ front \in Seq(S) /\ Len(front) = Len(p) - 1 - Len(from)
          /\ \A i \in 1..Len(p) - 1 - Len(from) : front[i] = q[Len(from) + i]
      BY <1>1, <2>1, <2>3
    <2> HIDE DEF front
    <2>6. /\ r \in Seq(S) /\ Len(r) = Len(to) + (Len(p) - 1 - Len(from))
          /\ \A i \in 1..Len(to) : r[i] = to[i]
          /\ \A i \in 1..Len(p) - 1 - Len(from) : r[Len(to) + i] = front[i]
      <3>0. front \in Seq(S)
        BY <2>5
      <3>1. /\ r \in Seq(S) /\ Len(r) = Len(to) + Len(front)
            /\ \A i \in 1..Len(to) : r[i] = to[i]
            /\ \A i \in 1..Len(front) : r[Len(to) + i] = front[i]
        BY <3>0, ConcatElements
      <3> HIDE DEF r
      <3> QED
        BY <2>5, <3>1
    <2> HIDE DEF r
    <2>7. /\ t \in Seq(S) /\ Len(t) = Len(r) + 1
          /\ \A i \in 1..Len(r) : t[i] = r[i]
          /\ t[Len(r) + 1] = Last(p)
      BY <2>3, <2>6, AppendElements
    <2> HIDE DEF t
    <2>8. ASSUME NEW i \in 1..Len(s) PROVE s[i] = t[i]
      <3>1. CASE i \in 1..Len(to)
        BY <1>1, <1>4, <2>1, <2>6, <2>7, <3>1
      <3>2. CASE i \notin 1..Len(to)
        <4> DEFINE k == i - Len(to)
        <4>1. k \in 1..Len(p) - Len(from) /\ i = Len(to) + k
          BY <1>1, <1>4, <3>2
        <4>2. s[i] = p[Len(from) + k]
          BY <1>2, <1>4, <4>1
        <4>3. CASE k = Len(p) - Len(from)
          <5>1. i = Len(r) + 1 /\ Len(from) + k = Len(p)
            BY <1>1, <2>6, <4>1, <4>3
          <5> QED
            BY <2>4, <2>7, <4>2, <5>1
        <4>4. CASE k # Len(p) - Len(from)
          <5>1. /\ k \in 1..Len(p) - 1 - Len(from) /\ i \in 1..Len(r)
                /\ Len(from) + k \in 1..Len(p) - 1
            <6>1. k \in 1..Len(p) - 1 - Len(from)
              BY <1>4, <4>1, <4>4
            <6> HIDE DEF k
            <6> QED
              BY <1>4, <2>6, <4>1, <6>1
          <5>2. t[i] = q[Len(from) + k]
            BY <2>5, <2>6, <2>7, <4>1, <5>1
          <5> QED
            BY <2>4, <4>2, <5>1, <5>2
        <4> QED
          BY <4>3, <4>4
      <3> QED
        BY <3>1, <3>2
    <2>9. Len(s) = Len(t)
      BY <1>1, <1>4, <2>6, <2>7
    <2>10. s = t
      BY <1>4, <2>7, <2>8, <2>9, SeqEqual
    <2> QED
      BY <2>2, <2>10 DEF t, r, front, q, Relocate
  <1> QED
    BY <1>3, <1>4, <1>5, <1>6, <1>7, <1>8

\* The names of a path one by one.
LEMMA CutIs ==
    ASSUME NEW S, NEW p \in Seq(S), NEW i \in 1..Len(p)
    PROVE  /\ SubSeq(p, 1, i) \in Seq(S) /\ SubSeq(p, 1, i) # << >>
           /\ Parent(SubSeq(p, 1, i)) = SubSeq(p, 1, i - 1)
  <1> DEFINE u == SubSeq(p, 1, i)
             v == SubSeq(p, 1, i - 1)
             w == SubSeq(u, 1, i - 1)
  <1>1. /\ u \in Seq(S) /\ Len(u) = i /\ \A j \in 1..i : u[j] = p[j]
    OBVIOUS
  <1>2. /\ v \in Seq(S) /\ Len(v) = i - 1 /\ \A j \in 1..i - 1 : v[j] = p[j]
    OBVIOUS
  <1> HIDE DEF u, v
  <1>3. /\ w \in Seq(S) /\ Len(w) = i - 1 /\ \A j \in 1..i - 1 : w[j] = u[j]
    BY <1>1
  <1>4. Parent(u) = w
    BY <1>1 DEF Parent, Up
  <1> HIDE DEF w
  <1>5. \A j \in 1..i - 1 : w[j] = v[j]
    BY <1>1, <1>2, <1>3
  <1>6. w = v
    BY <1>2, <1>3, <1>5, SeqEqual
  <1>7. u # << >>
    BY <1>1
  <1> QED
    BY <1>1, <1>4, <1>6, <1>7 DEF u, v

LEMMA CutWhole ==
    ASSUME NEW S, NEW p \in Seq(S)
    PROVE  /\ SubSeq(p, 1, Len(p)) = p
           /\ \A q \in Seq(S) : IsPrefix(q, p) => q = SubSeq(p, 1, Len(q))
  <1>1. ASSUME NEW q \in Seq(S), IsPrefix(q, p) PROVE q = SubSeq(p, 1, Len(q))
    <2> DEFINE u == SubSeq(p, 1, Len(q))
    <2>1. Len(q) <= Len(p) /\ \A i \in 1..Len(q) : q[i] = p[i]
      BY <1>1, PrefixIs
    <2>2. u \in Seq(S) /\ Len(u) = Len(q) /\ \A i \in 1..Len(q) : u[i] = p[i]
      BY <2>1
    <2> HIDE DEF u
    <2>3. \A i \in 1..Len(q) : q[i] = u[i]
      BY <2>1, <2>2
    <2>4. q = u
      BY <2>2, <2>3, SeqEqual
    <2> QED
      BY <2>4 DEF u
  <1>2. IsPrefix(p, p)
    BY PrefixIs
  <1> QED
    BY <1>1, <1>2

LEMMA ParentType ==
    ASSUME NEW S, NEW p \in Seq(S)
    PROVE  Parent(p) \in Seq(S)
  <1>1. CASE p = << >>
    <2>1. Len(p) = 0
      BY <1>1
    <2>2. Parent(p) = SubSeq(p, 1, -1)
      BY <2>1 DEF Parent, Up
    <2> QED
      BY <2>1, <2>2
  <1>2. CASE p # << >>
    BY <1>2, ParentLast
  <1> QED
    BY <1>1, <1>2

\* The path some levels up.
LEMMA UpIs ==
    ASSUME NEW S, NEW p \in Seq(S), NEW j \in 0..Len(p)
    PROVE  /\ Up(p, j) \in Seq(S) /\ Len(Up(p, j)) = Len(p) - j
           /\ Up(p, j) \in OnPath(p)
           /\ j = 0 => Up(p, j) = p
           /\ j < Len(p) => Up(p, j) # << >> /\ Parent(Up(p, j)) = Up(p, j + 1)
  <1> DEFINE u == SubSeq(p, 1, Len(p) - j)
  <1>1. /\ u \in Seq(S) /\ Len(u) = Len(p) - j
        /\ \A i \in 1..Len(p) - j : u[i] = p[i]
    OBVIOUS
  <1>2. Up(p, j) = u
    BY DEF Up
  <1> HIDE DEF u
  <1>3. u \in OnPath(p) /\ (j = 0 => u = p)
    <2>1. IsPrefix(u, p)
      BY <1>1, PrefixIs
    <2>2. j = 0 => u = p
      BY <1>1, SeqEqual
    <2> QED
      BY <1>1, <2>1, <2>2, OnPathIs
  <1>4. ASSUME j < Len(p) PROVE u # << >> /\ Parent(u) = Up(p, j + 1)
    <2> DEFINE v == SubSeq(p, 1, Len(p) - (j + 1))
               w == SubSeq(u, 1, Len(u) - 1)
    <2>1. /\ v \in Seq(S) /\ Len(v) = Len(p) - (j + 1)
          /\ \A i \in 1..Len(p) - (j + 1) : v[i] = p[i]
      BY <1>4
    <2>2. Up(p, j + 1) = v
      BY DEF Up
    <2>3. /\ w \in Seq(S) /\ Len(w) = Len(p) - (j + 1)
          /\ \A i \in 1..Len(p) - (j + 1) : w[i] = u[i]
      BY <1>1, <1>4
    <2>4. Parent(u) = w
      BY DEF Parent, Up
    <2> HIDE DEF v, w
    <2>5. \A i \in 1..Len(p) - (j + 1) : w[i] = v[i]
      BY <1>1, <1>4, <2>1, <2>3
    <2>6. w = v
      BY <2>1, <2>3, <2>5, SeqEqual
    <2>7. u # << >>
      BY <1>1, <1>4
    <2> QED
      BY <2>2, <2>4, <2>6, <2>7
  <1> QED
    BY <1>1, <1>2, <1>3, <1>4

\* What is left of a path below another.
LEMMA PrefixRest ==
    ASSUME NEW S, NEW p \in Seq(S), NEW q \in Seq(S), IsPrefix(q, p)
    PROVE  /\ SubSeq(p, Len(q) + 1, Len(p)) \in Seq(S)
           /\ p = q \o SubSeq(p, Len(q) + 1, Len(p))
  <1> DEFINE rest == SubSeq(p, Len(q) + 1, Len(p))
             t == q \o rest
  <1>1. Len(q) <= Len(p) /\ \A i \in 1..Len(q) : q[i] = p[i]
    BY PrefixIs
  <1>2. /\ rest \in Seq(S) /\ Len(rest) = Len(p) - Len(q)
        /\ \A i \in 1..Len(p) - Len(q) : rest[i] = p[Len(q) + i]
    BY <1>1
  <1> HIDE DEF rest
  <1>3. /\ t \in Seq(S) /\ Len(t) = Len(q) + Len(rest)
        /\ \A i \in 1..Len(q) : t[i] = q[i]
        /\ \A i \in 1..Len(rest) : t[Len(q) + i] = rest[i]
    BY <1>2, ConcatElements
  <1> HIDE DEF t
  <1>4. Len(t) = Len(p) /\ Len(p) \in Nat /\ Len(q) \in Nat
    BY <1>1, <1>2, <1>3
  <1>5. ASSUME NEW i \in 1..Len(p) PROVE t[i] = p[i]
    <2>1. CASE i \in 1..Len(q)
      BY <1>1, <1>3, <2>1
    <2>2. CASE i \notin 1..Len(q)
      <3> DEFINE k == i - Len(q)
      <3>1. k \in 1..Len(p) - Len(q) /\ i = Len(q) + k
        BY <1>1, <1>4, <2>2
      <3> HIDE DEF k
      <3> QED
        BY <1>2, <1>3, <3>1
    <2> QED
      BY <2>1, <2>2
  <1>6. t = p
    BY <1>3, <1>4, <1>5, SeqEqual
  <1> QED
    BY <1>2, <1>6 DEF t, rest

LEMMA PrefixOfConcat ==
    ASSUME NEW S, NEW q \in Seq(S), NEW rest \in Seq(S)
    PROVE  q \o rest \in Seq(S) /\ IsPrefix(q, q \o rest)
  <1> DEFINE p == q \o rest
  <1>1. /\ p \in Seq(S) /\ Len(p) = Len(q) + Len(rest)
        /\ \A i \in 1..Len(q) : p[i] = q[i]
    BY ConcatElements
  <1> HIDE DEF p
  <1>2. Len(q) <= Len(p)
    BY <1>1
  <1>3. IsPrefix(q, p)
    BY <1>1, <1>2, PrefixIs
  <1> QED
    BY <1>1, <1>3 DEF p

LEMMA RelocateRest ==
    ASSUME NEW S, NEW from \in Seq(S), NEW to \in Seq(S), NEW rest \in Seq(S)
    PROVE  Relocate(from \o rest, from, to) = to \o rest
  <1> DEFINE p == from \o rest
             r == SubSeq(p, Len(from) + 1, Len(p))
  <1>1. /\ p \in Seq(S) /\ Len(p) = Len(from) + Len(rest)
        /\ \A i \in 1..Len(rest) : p[Len(from) + i] = rest[i]
    BY ConcatElements
  <1> HIDE DEF p
  <1>2. Len(from) \in Nat /\ Len(rest) \in Nat
    OBVIOUS
  <1>3. /\ r \in Seq(S) /\ Len(r) = Len(rest)
        /\ \A i \in 1..Len(rest) : r[i] = p[Len(from) + i]
    BY <1>1, <1>2
  <1> HIDE DEF r
  <1>4. r = rest
    BY <1>1, <1>3, SeqEqual
  <1> QED
    BY <1>4 DEF Relocate, r, p

\* The last name of a path below another.
LEMMA RestLast ==
    ASSUME NEW S, NEW a \in Seq(S), NEW b \in Seq(S), b # << >>
    PROVE  /\ a \o b \in Seq(S) /\ a \o b # << >>
           /\ Parent(a \o b) = a \o Parent(b) /\ Last(a \o b) = Last(b)
  <1> DEFINE q == Parent(b)
             n == Last(b)
  <1>1. q \in Seq(S) /\ n \in S /\ Append(q, n) = b
    BY ParentLast
  <1> HIDE DEF q, n
  <1>2. Append(q, n) = q \o <<n>>
    BY ONLY <1>1, AppendIsConcat
  <1>2a. <<n>> \in Seq(S)
    BY ONLY <1>1
  <1>3. a \o q \in Seq(S)
    BY <1>1, ConcatElements
  <1>4. a \o b = (a \o q) \o <<n>>
    BY <1>1, <1>2, <1>2a, ConcatAssociative
  <1>5. a \o b = Append(a \o q, n)
    BY <1>1, <1>3, <1>4, AppendIsConcat
  <1>6. /\ Append(a \o q, n) \in Seq(S) /\ Append(a \o q, n) # << >>
        /\ Parent(Append(a \o q, n)) = a \o q /\ Last(Append(a \o q, n)) = n
    BY <1>1, <1>3, ParentOfAppend
  <1> QED
    BY <1>5, <1>6 DEF q, n

LEMMA AppendRest ==
    ASSUME NEW S, NEW a \in Seq(S), NEW b \in Seq(S), NEW n \in S
    PROVE  Append(a \o b, n) = a \o Append(b, n)
  <1>1. Append(b, n) = b \o <<n>> /\ <<n>> \in Seq(S)
    BY AppendIsConcat
  <1>2. a \o b \in Seq(S)
    BY ConcatElements
  <1>3. Append(a \o b, n) = (a \o b) \o <<n>>
    BY <1>2, AppendIsConcat
  <1> QED
    BY <1>1, <1>3, ConcatAssociative

-----------------------------------------------------------------------------
(* Tables *)

Maps(K, V) == UNION {[D -> V] : D \in SUBSET K}

LEMMA MapsIs ==
    ASSUME NEW K, NEW V, NEW c
    PROVE  c \in Maps(K, V) <=> /\ c = [k \in DOMAIN c |-> c[k]]
                                /\ \A k \in DOMAIN c : k \in K /\ c[k] \in V
  <1>1. ASSUME c \in Maps(K, V)
        PROVE  /\ c = [k \in DOMAIN c |-> c[k]]
               /\ \A k \in DOMAIN c : k \in K /\ c[k] \in V
    <2>1. PICK D \in SUBSET K : c \in [D -> V]
      BY <1>1 DEF Maps
    <2> QED
      BY <2>1
  <1>2. ASSUME c = [k \in DOMAIN c |-> c[k]],
               \A k \in DOMAIN c : k \in K /\ c[k] \in V
        PROVE  c \in Maps(K, V)
    <2>1. DOMAIN c \in SUBSET K /\ c \in [DOMAIN c -> V]
      BY <1>2
    <2> QED
      BY <2>1 DEF Maps
  <1> QED
    BY <1>1, <1>2

LEMMA PutIs ==
    ASSUME NEW K, NEW V, NEW c \in Maps(K, V), NEW p \in K, NEW v \in V
    PROVE  Put(c, p, v) \in Maps(K, V)
  <1> DEFINE t == Put(c, p, v)
  <1>1. \A k \in DOMAIN c : k \in K /\ c[k] \in V
    BY MapsIs
  <1>2. \A k \in DOMAIN t : k \in K /\ t[k] \in V
    BY <1>1 DEF Put
  <1>3. t = [k \in DOMAIN t |-> t[k]]
    BY DEF Put
  <1> HIDE DEF t
  <1>4. t \in Maps(K, V)
    BY <1>2, <1>3, MapsIs
  <1> QED
    BY <1>4 DEF t

\* A table whose entries are of news or of the table.
LEMMA OverrideIs ==
    ASSUME NEW K, NEW V, NEW c \in Maps(K, V), NEW d \in Maps(K, V)
    PROVE  Override(d, c) \in Maps(K, V)
  <1> DEFINE t == Override(d, c)
  <1>1. /\ \A k \in DOMAIN c : k \in K /\ c[k] \in V
        /\ \A k \in DOMAIN d : k \in K /\ d[k] \in V
    BY MapsIs
  <1>2. \A k \in DOMAIN t : k \in K /\ t[k] \in V
    BY <1>1 DEF Override
  <1>3. t = [k \in DOMAIN t |-> t[k]]
    BY DEF Override
  <1> HIDE DEF t
  <1>4. t \in Maps(K, V)
    BY <1>2, <1>3, MapsIs
  <1> QED
    BY <1>4 DEF t
=============================================================================
