----------------------------- MODULE CachesProofs ------------------------------
(***************************************************************************)
(* Theorems about Caches: what each of the three caches holds, for any     *)
(* names and paths, any trees at first, and any bound on the changes.      *)
(***************************************************************************)
EXTENDS Caches, SequenceLemmas

-----------------------------------------------------------------------------
(* The file system *)

\* The links of any tree, and where they lead in it.
LinkIn(tree, p) == p \in DOMAIN tree /\ tree[p].kind = "link"

FollowIn(tree, p) ==
    IF \A q \in OnPath(p) : ~LinkIn(tree, q) THEN p
    ELSE LET q == CHOOSE r \in OnPath(p) : LinkIn(tree, r) IN Relocate(p, q, tree[q].to)

WayIn(tree, p) ==
    LET way[i \in 0..MaxLinks] == IF i = 0 THEN p ELSE FollowIn(tree, way[i - 1])
    IN  way

FreeIn(tree, p) == \A q \in OnPath(p) : ~LinkIn(tree, q)

\* Whatever is above something is a directory.
LEMMA AboveIsDir ==
    ASSUME NEW tree, IsTree(tree), NEW p \in DOMAIN tree, NEW q \in Seq(Names) \ {<< >>},
           IsPrefix(q, p), q # p
    PROVE  q \in DOMAIN tree /\ tree[q].kind = "dir"
  <1> DEFINE Good(r) == r \in DOMAIN tree /\ tree[r].kind = "dir"
             Above == {r \in Seq(Names) : IsPrefix(q, r) /\ IsPrefix(r, p) /\ r # p}
             Bad == {n \in Nat : \E r \in Above : Len(p) - Len(r) = n /\ ~Good(r)}
  <1>1. p \in Seq(Names) \ {<< >>}
    BY CacheConstants DEF IsTree
  <1>2. SUFFICES ASSUME ~Good(q) PROVE FALSE
    OBVIOUS
  <1>3. q \in Above
    <2>1. IsPrefix(q, q)
      BY PrefixIs
    <2> QED
      BY <2>1
  <1>4. Bad # {}
    <2>1. Len(p) - Len(q) \in Nat
      BY <1>1, PrefixIs
    <2> QED
      BY <1>2, <1>3, <2>1
  <1>5. PICK n \in Bad : \A m \in Bad : n <= m
    <2>1. Bad \in SUBSET Nat
      OBVIOUS
    <2> HIDE DEF Bad
    <2> QED
      BY <1>4, <2>1, LeastElement
  <1>6. PICK r \in Above : Len(p) - Len(r) = n /\ ~Good(r)
    BY <1>5
  <1>7. r \in Seq(Names) /\ r # << >>
    <2>1. Len(q) <= Len(r) /\ Len(q) # 0
      BY <1>6, PrefixIs, EmptySeq
    <2> QED
      BY <1>6, <2>1
  <1>8. PICK u \in Seq(Names) : /\ IsPrefix(u, p) /\ u # << >> /\ Parent(u) = r
                                /\ Len(u) = Len(r) + 1
    <2> DEFINE u == SubSeq(p, 1, Len(r) + 1)
    <2>1. /\ Len(r) <= Len(p) /\ Len(r) # Len(p)
          /\ \A i \in 1..Len(r) : r[i] = p[i]
          /\ Len(r) \in Nat /\ Len(p) \in Nat
      <3>1. Len(r) <= Len(p) /\ \A i \in 1..Len(r) : r[i] = p[i]
        BY <1>1, <1>6, <1>7, PrefixIs
      <3>2. Len(r) # Len(p)
        BY <1>1, <1>6, <1>7, <3>1, SeqEqual
      <3> QED
        BY <1>1, <1>7, <3>1, <3>2
    <2>2. /\ u \in Seq(Names) /\ Len(u) = Len(r) + 1
          /\ \A i \in 1..Len(r) + 1 : u[i] = p[i]
      BY <1>1, <2>1
    <2> HIDE DEF u
    <2>3. IsPrefix(u, p) /\ IsPrefix(r, u)
      <3>1. Len(u) <= Len(p) /\ \A i \in 1..Len(u) : u[i] = p[i]
        BY <2>1, <2>2
      <3>2. Len(r) <= Len(u) /\ \A i \in 1..Len(r) : r[i] = u[i]
        BY <2>1, <2>2
      <3>3. IsPrefix(u, p)
        BY <1>1, <2>2, <3>1, PrefixIs
      <3>4. IsPrefix(r, u)
        BY <1>7, <2>2, <3>2, PrefixIs
      <3> QED
        BY <3>3, <3>4
    <2>4. u # << >> /\ r # u
      BY <2>1, <2>2
    <2>5. IsPrefix(r, Parent(u))
      BY <1>7, <2>2, <2>3, <2>4, ParentLast
    <2>6. Parent(u) \in Seq(Names) /\ Len(Parent(u)) = Len(r)
      <3>1. Parent(u) \in Seq(Names) /\ Len(Parent(u)) = Len(u) - 1
        BY <2>2, <2>4, ParentLast
      <3> QED
        BY <2>1, <2>2, <3>1
    <2>7. Parent(u) = r
      <3>1. \A i \in 1..Len(r) : r[i] = Parent(u)[i]
        BY <1>7, <2>5, <2>6, PrefixIs
      <3> QED
        BY <1>7, <2>6, <3>1, SeqEqual
    <2> QED
      BY <2>2, <2>3, <2>4, <2>7
  <1>9. u \in DOMAIN tree
    <2>1. CASE u = p
      BY <2>1
    <2>2. CASE u # p
      <3>1. IsPrefix(r, u)
        BY <1>8, ParentLast
      <3>2. IsPrefix(q, u)
        BY <1>6, <1>7, <1>8, <3>1, PrefixTransitive
      <3>3. u \in Above
        BY <1>8, <2>2, <3>2
      <3>4. Len(p) - Len(u) \in Nat /\ ~(n <= Len(p) - Len(u))
        <4>1. Len(u) <= Len(p) /\ Len(p) \in Nat /\ Len(u) \in Nat /\ Len(r) \in Nat
          BY <1>1, <1>7, <1>8, PrefixIs
        <4> QED
          BY <1>6, <1>8, <4>1
      <3>5. Good(u)
        BY <1>5, <3>3, <3>4
      <3> QED
        BY <3>5
    <2> QED
      BY <2>1, <2>2
  <1>10. Good(r)
    BY <1>7, <1>8, <1>9 DEF IsTree
  <1> QED
    BY <1>6, <1>10

LEMMA LinkIs ==
    ASSUME NEW tree, IsTree(tree), NEW p, LinkIn(tree, p)
    PROVE  /\ p \in Seq(Names) \ {<< >>}
           /\ \E l \in Links : l[1] = p /\ tree[p] = Link(l[2])
           /\ tree[p].to \in Seq(Names)
  <1>1. p \in DOMAIN tree /\ tree[p].kind = "link"
    BY DEF LinkIn
  <1>2. p \in Seq(Names) \ {<< >>}
    BY <1>1, CacheConstants DEF IsTree
  <1>3. tree[p] \notin Nodes
    BY <1>1 DEF Nodes
  <1>4. PICK l \in Links : l[1] = p /\ tree[p] = Link(l[2])
    BY <1>1, <1>3 DEF IsTree
  <1>5. tree[p].to = l[2] /\ l[2] \in Seq(Names)
    BY <1>4, CacheConstants DEF Link
  <1> QED
    BY <1>2, <1>4, <1>5

\* What is below a link is not in the tree: a path has one link at most.
LEMMA OneLink ==
    ASSUME NEW tree, IsTree(tree), NEW p \in Seq(Names),
           NEW q, LinkIn(tree, q), IsPrefix(q, p), NEW r, LinkIn(tree, r), IsPrefix(r, p)
    PROVE  q = r
  <1>1. /\ q \in Seq(Names) \ {<< >>} /\ r \in Seq(Names) \ {<< >>}
        /\ q \in DOMAIN tree /\ r \in DOMAIN tree
        /\ tree[q].kind # "dir" /\ tree[r].kind # "dir"
    BY LinkIs DEF LinkIn
  <1>2. IsPrefix(q, r) \/ IsPrefix(r, q)
    BY <1>1, PrefixTotal
  <1> QED
    BY <1>1, <1>2, AboveIsDir

\* A link is followed wherever it is on the path.
LEMMA FollowIs ==
    ASSUME NEW tree, IsTree(tree), NEW p \in Seq(Names)
    PROVE  /\ FollowIn(tree, p) \in Seq(Names)
           /\ (\A q \in Seq(Names) : IsPrefix(q, p) => ~LinkIn(tree, q)) => FollowIn(tree, p) = p
           /\ \A q : LinkIn(tree, q) /\ IsPrefix(q, p) => FollowIn(tree, p) = Relocate(p, q, tree[q].to)
  <1> DEFINE links == {q \in OnPath(p) : LinkIn(tree, q)}
  <1>1. \A q : q \in links <=> LinkIn(tree, q) /\ IsPrefix(q, p)
    <2>1. \A q : LinkIn(tree, q) => q \in Seq(Names)
      BY LinkIs
    <2> QED
      BY <2>1, OnPathIs
  <1>2. CASE links = {}
    <2>1. FollowIn(tree, p) = p
      BY <1>2 DEF FollowIn
    <2> QED
      BY <1>1, <1>2, <2>1
  <1>3. CASE links # {}
    <2> DEFINE r == CHOOSE q \in OnPath(p) : LinkIn(tree, q)
    <2>1. r \in links
      BY <1>3
    <2>2. FollowIn(tree, p) = Relocate(p, r, tree[r].to)
      BY <1>3 DEF FollowIn
    <2> HIDE DEF r
    <2>3. LinkIn(tree, r) /\ IsPrefix(r, p)
      BY <1>1, <2>1
    <2>4. FollowIn(tree, p) \in Seq(Names)
      BY <2>2, <2>3, LinkIs, RelocateIs
    <2>5. \A q : LinkIn(tree, q) /\ IsPrefix(q, p) => q = r
      BY <2>3, OneLink
    <2>6. r \in Seq(Names)
      BY <2>3, LinkIs
    <2> QED
      BY <2>2, <2>3, <2>4, <2>5, <2>6
  <1> QED
    BY <1>2, <1>3

LEMMA FreeIs ==
    ASSUME NEW tree, IsTree(tree), NEW p \in Seq(Names)
    PROVE  /\ FreeIn(tree, p) <=> \A q : IsPrefix(q, p) => ~LinkIn(tree, q)
           /\ FreeIn(tree, p) => FollowIn(tree, p) = p
  <1>1. \A q : LinkIn(tree, q) => q \in Seq(Names)
    BY LinkIs
  <1>2. FreeIn(tree, p) <=> \A q : IsPrefix(q, p) => ~LinkIn(tree, q)
    BY <1>1, OnPathIs DEF FreeIn
  <1> QED
    BY <1>2, FollowIs

LEMMA WayIs ==
    ASSUME NEW tree, IsTree(tree), NEW p \in Seq(Names)
    PROVE  /\ WayIn(tree, p)[0] = p
           /\ \A i \in 1..MaxLinks : WayIn(tree, p)[i] = FollowIn(tree, WayIn(tree, p)[i - 1])
           /\ \A i \in 0..MaxLinks : WayIn(tree, p)[i] \in Seq(Names)
  <1> DEFINE a == 0
             b == MaxLinks
             T == [i \in a..b |-> Seq(Names)]
             G == [i \in a + 1..b |-> [x \in Seq(Names) |-> FollowIn(tree, x)]]
             Is(f) == f = [i \in 0..MaxLinks |->
                              IF i = 0 THEN p ELSE FollowIn(tree, f[i - 1])]
             way == CHOOSE f : Is(f)
  <1>1. a \in Nat /\ b \in Nat /\ a <= b
    BY CacheConstants
  <1>2. \A x \in Seq(Names) : FollowIn(tree, x) \in Seq(Names)
    BY FollowIs
  <1>3. p \in T[a] /\ Steps(a, b, T, G)
    BY <1>1, <1>2 DEF Steps
  <1>4. \E f : Iterates(f, a, b, T, G, p)
    <2> HIDE DEF a, b, T, G
    <2> QED
      BY <1>1, <1>3, IterationExists
  <1>5. \E f : Is(f)
    <2>1. PICK f : /\ f = [i \in a..b |-> f[i]] /\ f[a] = p
                   /\ \A i \in a + 1..b : f[i] = G[i][f[i - 1]]
                   /\ \A i \in a..b : f[i] \in T[i]
      BY <1>4 DEF Iterates
    <2>2. ASSUME NEW i \in 0..MaxLinks
          PROVE  f[i] = IF i = 0 THEN p ELSE FollowIn(tree, f[i - 1])
      <3>1. CASE i = 0
        BY <2>1, <3>1
      <3>2. CASE i # 0
        <4>1. i \in a + 1..b /\ i - 1 \in a..b
          BY <1>1, <3>2
        <4>2. f[i] = G[i][f[i - 1]] /\ f[i - 1] \in Seq(Names)
          BY <2>1, <4>1
        <4> QED
          BY <3>2, <4>1, <4>2
      <3> QED
        BY <3>1, <3>2
    <2>3. Is(f)
      BY <2>1, <2>2
    <2> QED
      BY <2>3
  <1>6. Is(way)
    <2> HIDE DEF Is
    <2> QED
      BY <1>5
  <1>7. WayIn(tree, p) = way
    BY DEF WayIn
  <1> HIDE DEF way
  <1>8. /\ way[0] = p
        /\ \A i \in 1..MaxLinks : way[i] = FollowIn(tree, way[i - 1])
    BY <1>1, <1>6
  <1>9. \A i \in 0..MaxLinks : way[i] \in Seq(Names)
    <2> DEFINE S == {i \in 0..MaxLinks : way[i] \in Seq(Names)}
    <2>1. 0 \in S
      BY <1>1, <1>8
    <2>2. \A i \in 1..MaxLinks : i - 1 \in S => i \in S
      BY <1>1, <1>2, <1>8
    <2> HIDE DEF S
    <2>3. \A i \in 0..MaxLinks : i \in S
      BY <1>1, <2>1, <2>2, IntervalInduction
    <2> QED
      BY <2>3 DEF S
  <1> QED
    BY <1>7, <1>8, <1>9

\* A path without a link leads nowhere else.
LEMMA WayFree ==
    ASSUME NEW tree, IsTree(tree), NEW p \in Seq(Names), NEW i \in 0..MaxLinks,
           FreeIn(tree, WayIn(tree, p)[i])
    PROVE  \A j \in i..MaxLinks : WayIn(tree, p)[j] = WayIn(tree, p)[i]
  <1> DEFINE w == WayIn(tree, p)
             S == {j \in 0..MaxLinks : i <= j => w[j] = w[i]}
  <1>1. /\ \A j \in 1..MaxLinks : w[j] = FollowIn(tree, w[j - 1])
        /\ w[i] \in Seq(Names)
    BY WayIs
  <1>2. MaxLinks \in Nat /\ FollowIn(tree, w[i]) = w[i]
    BY <1>1, FreeIs, CacheConstants
  <1> HIDE DEF w
  <1>3. 0 \in S
    BY <1>2
  <1>4. \A j \in 1..MaxLinks : j - 1 \in S => j \in S
    <2> SUFFICES ASSUME NEW j \in 1..MaxLinks, j - 1 \in S, i <= j
                 PROVE  w[j] = w[i]
      BY <1>2
    <2>1. CASE i = j
      BY <2>1
    <2>2. CASE i # j
      <3>1. i <= j - 1
        BY <1>2, <2>2
      <3> QED
        BY <1>1, <1>2, <3>1
    <2> QED
      BY <2>1, <2>2
  <1> HIDE DEF S
  <1>5. \A j \in 0..MaxLinks : j \in S
    BY <1>2, <1>3, <1>4, IntervalInduction
  <1> QED
    BY <1>2, <1>5 DEF S, w

LEMMA AppendFree ==
    ASSUME NEW tree, IsTree(tree), NEW p \in Seq(Names), NEW n \in Names
    PROVE  /\ FreeIn(tree, Append(p, n)) <=> FreeIn(tree, p) /\ ~LinkIn(tree, Append(p, n))
           /\ ~FreeIn(tree, p) => FollowIn(tree, Append(p, n)) = Append(FollowIn(tree, p), n)
  <1> DEFINE u == Append(p, n)
  <1>1. /\ u \in Seq(Names) /\ u # << >> /\ Parent(u) = p /\ Last(u) = n
        /\ IsPrefix(p, u) /\ Len(u) = Len(p) + 1
        /\ \A q \in Seq(Names) : IsPrefix(q, u) => q = u \/ IsPrefix(q, p)
    <2>1. u \in Seq(Names) /\ u # << >> /\ Parent(u) = p /\ Last(u) = n
      BY ParentOfAppend
    <2>2. Len(u) = Len(p) + 1
      BY AppendElements
    <2> HIDE DEF u
    <2> QED
      BY <2>1, <2>2, ParentLast
  <1> HIDE DEF u
  <1>2. \A q : LinkIn(tree, q) => q \in Seq(Names) /\ tree[q].to \in Seq(Names)
    BY LinkIs
  <1>3. IsPrefix(u, u)
    BY <1>1, PrefixIs
  <1>4. ASSUME NEW q \in Seq(Names), IsPrefix(q, p) PROVE IsPrefix(q, u) /\ q # u
    <2>1. IsPrefix(q, u)
      BY <1>1, <1>4, PrefixTransitive
    <2>2. Len(q) <= Len(p) /\ Len(p) \in Nat
      BY <1>4, PrefixIs
    <2> QED
      BY <1>1, <2>1, <2>2
  <1>5. FreeIn(tree, u) <=> FreeIn(tree, p) /\ ~LinkIn(tree, u)
    BY <1>1, <1>2, <1>3, <1>4, FreeIs
  <1>6. ASSUME ~FreeIn(tree, p) PROVE FollowIn(tree, u) = Append(FollowIn(tree, p), n)
    <2>1. PICK q : IsPrefix(q, p) /\ LinkIn(tree, q)
      BY <1>6, FreeIs
    <2>2. q \in Seq(Names) /\ IsPrefix(q, u) /\ q # u
      BY <1>2, <1>4, <2>1
    <2>3. PICK to : to = tree[q].to
      OBVIOUS
    <2>4. to \in Seq(Names)
      BY <1>2, <2>1, <2>3
    <2>5. FollowIn(tree, u) = Relocate(u, q, to) /\ FollowIn(tree, p) = Relocate(p, q, to)
      BY <1>1, <2>1, <2>2, <2>3, FollowIs
    <2>6. Relocate(u, q, to) = Append(Relocate(Parent(u), q, to), Last(u))
      BY <1>1, <2>2, <2>4, RelocateIs
    <2> QED
      BY <1>1, <2>5, <2>6
  <1> QED
    BY <1>5, <1>6 DEF u

\* Where a name leads below a path that is led elsewhere: the same way, and then
\* where a link of that name leads.
LEMMA WayAppend ==
    ASSUME NEW tree, IsTree(tree), NEW p \in Seq(Names), NEW n \in Names
    PROVE  LET w == WayIn(tree, p)
               v == WayIn(tree, Append(p, n))
           IN  \A i \in 0..MaxLinks : \E k \in 0..i :
                  /\ w[k] = w[i] /\ v[k] = Append(w[k], n)
                  /\ k = i \/ FreeIn(tree, w[k])
  <1> DEFINE w == WayIn(tree, p)
             u == Append(p, n)
             v == WayIn(tree, u)
             Is(i, k) == /\ w[k] = w[i] /\ v[k] = Append(w[k], n)
                         /\ k = i \/ FreeIn(tree, w[k])
             S == {i \in 0..MaxLinks : \E k \in 0..i : Is(i, k)}
  <1>1. /\ w[0] = p /\ \A i \in 1..MaxLinks : w[i] = FollowIn(tree, w[i - 1])
        /\ \A i \in 0..MaxLinks : w[i] \in Seq(Names)
    BY WayIs
  <1>2. u \in Seq(Names) /\ MaxLinks \in Nat
    BY AppendElements, CacheConstants
  <1>3. v[0] = u /\ \A i \in 1..MaxLinks : v[i] = FollowIn(tree, v[i - 1])
    <2> HIDE DEF u
    <2> QED
      BY <1>2, WayIs
  <1> HIDE DEF w, v
  <1>4. 0 \in S
    <2>1. Is(0, 0)
      BY <1>1, <1>3
    <2> QED
      BY <1>2, <2>1
  <1>5. ASSUME NEW i \in 1..MaxLinks, i - 1 \in S
        PROVE  i \in S
    <2>1. i - 1 \in 0..MaxLinks /\ i \in 0..MaxLinks
      BY <1>2
    <2>2. PICK k \in 0..i - 1 : Is(i - 1, k)
      BY <1>5
    <2>3. k \in 0..i /\ w[i - 1] \in Seq(Names)
      BY <1>1, <1>2, <2>1, <2>2
    <2>4. CASE k = i - 1 /\ ~FreeIn(tree, w[k])
      <3>1. v[i] = Append(w[i], n)
        <4>1. w[i] = FollowIn(tree, w[i - 1]) /\ v[i] = FollowIn(tree, v[i - 1])
          BY <1>1, <1>3
        <4>2. FollowIn(tree, Append(w[i - 1], n)) = Append(FollowIn(tree, w[i - 1]), n)
          BY <2>3, <2>4, AppendFree
        <4>3. v[i - 1] = Append(w[i - 1], n)
          BY <2>2, <2>4
        <4> QED
          BY <4>1, <4>2, <4>3
      <3>2. Is(i, i)
        BY <3>1
      <3> QED
        BY <1>2, <3>2
    <2>5. CASE FreeIn(tree, w[k])
      <3>1. w[i] = w[k]
        BY <1>1, <2>2, <2>3, <2>5, FreeIs
      <3>2. Is(i, k)
        BY <2>2, <2>5, <3>1
      <3> QED
        BY <2>1, <2>3, <3>2
    <2> QED
      BY <2>2, <2>4, <2>5
  <1> HIDE DEF S
  <1>6. \A i \in 0..MaxLinks : i \in S
    BY <1>2, <1>4, <1>5, IntervalInduction
  <1> QED
    BY <1>6 DEF S, w, v

-----------------------------------------------------------------------------
(* Where a path leads *)

LEMMA OfDisk ==
    /\ \A p : IsLink(p) <=> LinkIn(disk, p)
    /\ \A p : LinkFree(p) <=> FreeIn(disk, p)
    /\ \A p : Way(p) = WayIn(disk, p)
  <1>1. \A p : IsLink(p) <=> LinkIn(disk, p)
    BY DEF IsLink, LinkIn
  <1>2. \A p : LinkFree(p) <=> FreeIn(disk, p)
    BY <1>1 DEF LinkFree, FreeIn
  <1>3. \A p : Way(p) = WayIn(disk, p)
    BY DEF Way, WayIn, Follow, FollowIn, IsLink, LinkIn
  <1> QED
    BY <1>1, <1>2, <1>3

LEMMA OfDiskNext ==
    /\ \A p : IsLink(p)' <=> LinkIn(disk', p)
    /\ \A p : LinkFree(p)' <=> FreeIn(disk', p)
    /\ \A p : Way(p)' = WayIn(disk', p)
  <1>1. \A p : IsLink(p)' <=> LinkIn(disk', p)
    BY DEF IsLink, LinkIn
  <1>2. \A p : LinkFree(p)' <=> FreeIn(disk', p)
    BY <1>1 DEF LinkFree, FreeIn
  <1>3. \A p : Way(p)' = WayIn(disk', p)
    BY DEF Way, WayIn, Follow, FollowIn, IsLink, LinkIn
  <1> QED
    BY <1>1, <1>2, <1>3

\* Where p leads.
LEMMA CanonIs ==
    ASSUME IsTree(disk), NEW p \in Seq(Names)
    PROVE  /\ Canon(p) \in Seq(Names) /\ Way(p)[0] = p
           /\ \A i \in 0..MaxLinks : Way(p)[i] \in Seq(Names)
           /\ LinkFree(p) => Canon(p) = p
  <1>1. MaxLinks \in 0..MaxLinks /\ 0 \in 0..MaxLinks
    BY CacheConstants
  <1>2. Way(p)[0] = p /\ \A i \in 0..MaxLinks : Way(p)[i] \in Seq(Names)
    BY WayIs, OfDisk
  <1>3. ASSUME LinkFree(p) PROVE Canon(p) = p
    <2>1. FreeIn(disk, WayIn(disk, p)[0]) /\ WayIn(disk, p)[0] = p
      BY <1>2, <1>3, OfDisk
    <2>2. WayIn(disk, p)[MaxLinks] = p
      BY <1>1, <2>1, WayFree
    <2> QED
      BY <2>2, OfDisk DEF Canon
  <1> QED
    BY <1>1, <1>2, <1>3 DEF Canon

LEMMA CanonRoot ==
    ASSUME IsTree(disk)
    PROVE  LinkFree(<< >>) /\ Canon(<< >>) = << >> /\ Exists(<< >>) /\ IsDirectory(<< >>)
  <1> DEFINE e == << >>
  <1>1. e \in Seq(Names) /\ Len(e) = 0
    OBVIOUS
  <1>2. ASSUME NEW q, IsPrefix(q, e) PROVE ~LinkIn(disk, q)
    <2> SUFFICES ASSUME LinkIn(disk, q) PROVE FALSE
      OBVIOUS
    <2>1. q \in Seq(Names) /\ q # << >>
      BY LinkIs
    <2>2. Len(q) <= Len(e)
      BY <1>1, <1>2, <2>1, PrefixIs
    <2>3. Len(q) = 0
      BY <1>1, <2>1, <2>2
    <2> QED
      BY <2>1, <2>3, EmptySeq
  <1>3. LinkFree(e)
    BY <1>1, <1>2, FreeIs, OfDisk
  <1>4. Canon(e) = e
    BY <1>1, <1>3, CanonIs
  <1> QED
    BY <1>3, <1>4 DEF Exists, IsDirectory

\* No link leads to another, but where links are chained.
LEMMA TargetFree ==
    ASSUME IsTree(disk), ~Chained, NEW e, IsLink(e)
    PROVE  disk[e].to \in Seq(Names) /\ LinkFree(disk[e].to)
  <1>1. PICK k \in Links : k[1] = e /\ disk[e] = Link(k[2])
    BY LinkIs, OfDisk
  <1>2. disk[e].to = k[2] /\ k[2] \in Seq(Names)
    BY <1>1, CacheConstants DEF Link
  <1>3. Met(k)
    BY <1>1, <1>2 DEF Met
  <1>4. ASSUME NEW q, IsPrefix(q, k[2]), IsLink(q) PROVE FALSE
    <2>1. PICK l \in Links : l[1] = q /\ disk[q] = Link(l[2])
      BY <1>4, LinkIs, OfDisk
    <2>2. Met(l)
      BY <1>4, <2>1 DEF Met, Link
    <2> QED
      BY <1>3, <1>4, <2>1, <2>2 DEF Chained
  <1>5. LinkFree(k[2])
    BY <1>2, <1>4, FreeIs, OfDisk
  <1> QED
    BY <1>2, <1>5

\* What is led astray stays so below.
LEMMA MisledBelow ==
    ASSUME IsTree(disk), relinked \subseteq Paths, NEW p \in Seq(Names), NEW n \in Names,
           Misled(p)
    PROVE  Misled(Append(p, n))
  <1> DEFINE w == WayIn(disk, p)
             v == WayIn(disk, Append(p, n))
  <1>1. MaxLinks \in 0..MaxLinks /\ relinked \subseteq Seq(Names)
    BY CacheConstants
  <1>2. \A i \in 0..MaxLinks : \E k \in 0..i :
           w[k] = w[i] /\ v[k] = Append(w[k], n) /\ (k = i \/ FreeIn(disk, w[k]))
    BY WayAppend
  <1>3. \A i \in 0..MaxLinks : w[i] \in Seq(Names)
    BY WayIs
  <1>4. Way(p) = w /\ Way(Append(p, n)) = v
    BY OfDisk
  <1> HIDE DEF w, v
  <1>5. CASE Crosses(relinked, p)
    <2>1. PICK q \in relinked, i \in 0..MaxLinks : IsPrefix(q, w[i])
      BY <1>4, <1>5 DEF Crosses
    <2>2. PICK k \in 0..i : w[k] = w[i] /\ v[k] = Append(w[k], n)
      BY <1>2
    <2>3. k \in 0..MaxLinks
      BY <1>1
    <2> DEFINE a == w[i]
               b == Append(a, n)
    <2>4. a \in Seq(Names) /\ q \in Seq(Names) /\ IsPrefix(q, a)
      BY <1>1, <1>3, <2>1
    <2> HIDE DEF a
    <2>5. b \in Seq(Names) /\ b # << >> /\ Parent(b) = a
      BY <2>4, ParentOfAppend
    <2> HIDE DEF b
    <2>6. IsPrefix(a, b)
      BY <2>5, ParentLast
    <2>7. IsPrefix(q, b)
      BY <2>4, <2>5, <2>6, PrefixTransitive
    <2>8. v[k] = b
      BY <2>2 DEF a, b
    <2>9. Crosses(relinked, Append(p, n))
      BY <1>4, <2>3, <2>7, <2>8 DEF Crosses
    <2> QED
      BY <2>9 DEF Misled
  <1>6. CASE ~LinkFree(Canon(p))
    <2>1. ~FreeIn(disk, w[MaxLinks])
      BY <1>4, <1>6, OfDisk DEF Canon
    <2>2. PICK k \in 0..MaxLinks : /\ w[k] = w[MaxLinks] /\ v[k] = Append(w[k], n)
                                   /\ k = MaxLinks \/ FreeIn(disk, w[k])
      BY <1>1, <1>2
    <2>3. v[MaxLinks] = Append(w[MaxLinks], n)
      BY <2>1, <2>2
    <2>4. ~FreeIn(disk, v[MaxLinks])
      BY <1>1, <1>3, <2>1, <2>3, AppendFree
    <2>5. ~LinkFree(Canon(Append(p, n)))
      BY <1>4, <2>4, OfDisk DEF Canon
    <2> QED
      BY <2>5 DEF Misled
  <1> QED
    BY <1>5, <1>6 DEF Misled

\* Where a name leads below a path that leads to no link.
LEMMA CanonBelow ==
    ASSUME IsTree(disk), ~Chained, NEW p \in Seq(Names), NEW n \in Names, LinkFree(Canon(p))
    PROVE  LET e == Append(Canon(p), n)
               c == Canon(Append(p, n))
           IN  c = (IF IsLink(e) THEN disk[e].to ELSE e) \/ ~LinkFree(c)
  <1> DEFINE w == WayIn(disk, p)
             u == Append(p, n)
             v == WayIn(disk, u)
             e == Append(w[MaxLinks], n)
  <1>1. MaxLinks \in Nat /\ u \in Seq(Names)
    BY AppendElements, CacheConstants
  <1>2. PICK k \in 0..MaxLinks : w[k] = w[MaxLinks] /\ v[k] = Append(w[k], n)
    <2>1. \A i \in 0..MaxLinks : \E j \in 0..i : w[j] = w[i] /\ v[j] = Append(w[j], n)
      BY WayAppend
    <2>2. MaxLinks \in 0..MaxLinks
      BY <1>1
    <2> HIDE DEF w, v
    <2> QED
      BY <2>1, <2>2
  <1>3. w[MaxLinks] \in Seq(Names)
    BY <1>1, WayIs
  <1>4. /\ \A i \in 1..MaxLinks : v[i] = FollowIn(disk, v[i - 1])
        /\ \A i \in 0..MaxLinks : v[i] \in Seq(Names)
    <2> HIDE DEF u
    <2> QED
      BY <1>1, WayIs
  <1>5. ASSUME NEW j \in 0..MaxLinks, FreeIn(disk, v[j]) PROVE v[MaxLinks] = v[j]
    <2> HIDE DEF u
    <2> QED
      BY <1>1, <1>5, WayFree
  <1>6. Canon(p) = w[MaxLinks] /\ Canon(u) = v[MaxLinks]
    BY OfDisk DEF Canon
  <1> HIDE DEF w, v
  <1>7. v[k] = e /\ e \in Seq(Names)
    BY <1>1, <1>2, <1>3, AppendElements
  <1>8. FreeIn(disk, e) <=> ~LinkIn(disk, e)
    <2>1. FreeIn(disk, w[MaxLinks])
      BY <1>6, OfDisk
    <2> QED
      BY <1>3, <2>1, AppendFree
  <1> HIDE DEF e
  <1>9. CASE ~IsLink(e)
    <2>1. v[MaxLinks] = e
      BY <1>5, <1>7, <1>8, <1>9, OfDisk
    <2> QED
      BY <1>6, <1>9, <2>1 DEF e, u
  <1>10. CASE IsLink(e) /\ k = MaxLinks
    <2>1. ~LinkFree(v[MaxLinks])
      BY <1>7, <1>8, <1>10, OfDisk
    <2> QED
      BY <1>6, <2>1 DEF e, u
  <1>11. CASE IsLink(e) /\ k # MaxLinks
    <2>1. PICK to : to = disk[e].to
      OBVIOUS
    <2>2. to \in Seq(Names) /\ FreeIn(disk, to)
      BY <1>11, <2>1, TargetFree, OfDisk
    <2>3. FollowIn(disk, e) = to
      <3>1. IsPrefix(e, e)
        BY <1>7, PrefixIs
      <3>2. FollowIn(disk, e) = Relocate(e, e, to)
        BY <1>7, <1>11, <2>1, <3>1, FollowIs, OfDisk
      <3> QED
        BY <1>7, <2>2, <3>1, <3>2, RelocateIs
    <2>4. k + 1 \in 1..MaxLinks /\ k + 1 \in 0..MaxLinks /\ (k + 1) - 1 = k
      BY <1>1, <1>11
    <2>5. v[k + 1] = to
      BY <1>4, <1>7, <2>3, <2>4
    <2>6. v[MaxLinks] = to
      BY <1>5, <2>2, <2>4, <2>5
    <2> QED
      BY <1>6, <1>11, <2>1, <2>6 DEF e, u
  <1> QED
    BY <1>9, <1>10, <1>11

-----------------------------------------------------------------------------
(* The caches *)

LEMMA WithoutIs ==
    ASSUME NEW K, NEW V, NEW c \in Maps(K, V), NEW p
    PROVE  Without(c, p) \in Maps(K, V)
  <1> DEFINE t == Without(c, p)
  <1>1. \A k \in DOMAIN c : k \in K /\ c[k] \in V
    BY MapsIs
  <1>2. \A k \in DOMAIN t : k \in K /\ t[k] \in V
    BY <1>1 DEF Without
  <1>3. t = [k \in DOMAIN t |-> t[k]]
    BY DEF Without
  <1> HIDE DEF t
  <1>4. t \in Maps(K, V)
    BY <1>2, <1>3, MapsIs
  <1> QED
    BY <1>4 DEF t

-----------------------------------------------------------------------------
(* path_cache *)

Lowered == {LowerOf(p) : p \in Seq(Names)}

SameNames(paths) == \A k \in DOMAIN paths : LowerOf(paths[k]) = k

Spelt == [path : Seq(Names), paths : Maps(Lowered, Seq(Names))]

LEMMA LowerAppend ==
    ASSUME NEW p \in Seq(Names), NEW q \in Seq(Names), LowerOf(p) = LowerOf(q),
           NEW m \in Names, NEW n \in Names, Lower[m] = Lower[n]
    PROVE  LowerOf(Append(p, m)) = LowerOf(Append(q, n))
  <1>1. /\ DOMAIN p = 1..Len(p) /\ DOMAIN q = 1..Len(q)
        /\ Len(p) \in Nat /\ Len(q) \in Nat
    OBVIOUS
  <1>2. DOMAIN p = DOMAIN q /\ \A i \in DOMAIN p : Lower[p[i]] = Lower[q[i]]
    <2>1. DOMAIN LowerOf(p) = DOMAIN p /\ DOMAIN LowerOf(q) = DOMAIN q
      BY DEF LowerOf
    <2>2. \A i \in DOMAIN p : LowerOf(p)[i] = Lower[p[i]]
      BY DEF LowerOf
    <2>3. \A i \in DOMAIN q : LowerOf(q)[i] = Lower[q[i]]
      BY DEF LowerOf
    <2> QED
      BY <2>1, <2>2, <2>3
  <1>3. Len(p) = Len(q)
    <2>1. ASSUME NEW a \in Nat, NEW b \in Nat, 1..a = 1..b PROVE ~(a < b)
      <3>1. b \in 1..b \/ b = 0
        OBVIOUS
      <3> QED
        BY <2>1, <3>1
    <2>2. 1..Len(p) = 1..Len(q)
      BY <1>1, <1>2
    <2>3. ~(Len(p) < Len(q)) /\ ~(Len(q) < Len(p))
      BY <1>1, <2>1, <2>2
    <2>4. Len(p) \in Nat /\ Len(q) \in Nat
      BY <1>1
    <2> QED
      BY <2>3, <2>4
  <1> DEFINE s == Append(p, m)
             t == Append(q, n)
  <1>4. /\ s \in Seq(Names) /\ Len(s) = Len(p) + 1
        /\ \A i \in 1..Len(p) : s[i] = p[i]
        /\ s[Len(p) + 1] = m
    BY AppendElements
  <1>5. /\ t \in Seq(Names) /\ Len(t) = Len(p) + 1
        /\ \A i \in 1..Len(p) : t[i] = q[i]
        /\ t[Len(p) + 1] = n
    BY <1>3, AppendElements
  <1> HIDE DEF s, t
  <1>6. DOMAIN s = 1..Len(p) + 1 /\ DOMAIN t = 1..Len(p) + 1
    BY <1>4, <1>5
  <1>7. ASSUME NEW i \in DOMAIN s PROVE Lower[s[i]] = Lower[t[i]]
    <2>1. CASE i = Len(p) + 1
      BY <1>4, <1>5, <2>1
    <2>2. CASE i # Len(p) + 1
      <3>1. i \in 1..Len(p)
        BY <1>1, <1>6, <2>2
      <3> QED
        BY <1>1, <1>2, <1>4, <1>5, <3>1
    <2> QED
      BY <2>1, <2>2
  <1> QED
    BY <1>6, <1>7 DEF LowerOf, s, t

LEMMA SpellingIs ==
    ASSUME IsTree(disk), NEW d, NEW n \in Names, NEW first
    PROVE  Spelling(d, n, first) \in Names /\ Lower[Spelling(d, n, first)] = Lower[n]
  <1> DEFINE found == {m \in Entries(d) : Lower[m] = Lower[n]}
  <1>1. Entries(d) \subseteq Names
    <2>1. \A q \in DOMAIN disk : q \in Seq(Names) /\ q # << >>
      BY CacheConstants DEF IsTree
    <2>2. \A q \in DOMAIN disk : Last(q) \in Names
      BY <2>1, ParentLast
    <2> QED
      BY <2>2 DEF Entries
  <1>2. CASE found = {}
    BY <1>2 DEF Spelling
  <1>3. CASE found # {}
    <2>1. Spelling(d, n, first) = CHOOSE m \in found : first \in found => m = first
      BY <1>3 DEF Spelling
    <2>2. \E m \in found : first \in found => m = first
      BY <1>3
    <2> DEFINE c == CHOOSE m \in found : first \in found => m = first
    <2>3. c \in found
      <3> HIDE DEF found
      <3> QED
        BY <2>2
    <2> QED
      BY <1>1, <2>1, <2>3
  <1> QED
    BY <1>2, <1>3

LEMMA SpellNameIs ==
    ASSUME IsTree(disk), NEW x \in Spelt, SameNames(x.paths),
           NEW p \in Seq(Names), p # << >>, LowerOf(x.path) = LowerOf(Parent(p)), NEW first
    PROVE  /\ SpellName(x, p, first) \in Spelt
           /\ SameNames(SpellName(x, p, first).paths)
           /\ LowerOf(SpellName(x, p, first).path) = LowerOf(p)
  <1> DEFINE n == Spelling(x.path, Last(p), first)
             k == LowerOf(x.path)
             q == Append(x.path, n)
             c == IF k \in DOMAIN x.paths THEN x.paths ELSE Put(x.paths, k, x.path)
  <1>1. SpellName(x, p, first) = [path |-> q, paths |-> c]
    BY DEF SpellName
  <1>2. /\ x.path \in Seq(Names) /\ x.paths \in Maps(Lowered, Seq(Names))
        /\ Parent(p) \in Seq(Names) /\ Last(p) \in Names
        /\ Append(Parent(p), Last(p)) = p
    BY ParentLast DEF Spelt
  <1>3. n \in Names /\ Lower[n] = Lower[Last(p)]
    BY <1>2, SpellingIs
  <1> HIDE DEF n
  <1>4. q \in Seq(Names) /\ LowerOf(q) = LowerOf(p)
    <2>1. LowerOf(Append(x.path, n)) = LowerOf(Append(Parent(p), Last(p)))
      <3> DEFINE u == x.path
                 v == Parent(p)
                 m == Last(p)
      <3>1. u \in Seq(Names) /\ v \in Seq(Names) /\ LowerOf(u) = LowerOf(v) /\ m \in Names
        BY <1>2
      <3> HIDE DEF u, v, m
      <3>2. Lower[n] = Lower[m] /\ n \in Names
        BY <1>3 DEF m
      <3>3. LowerOf(Append(u, n)) = LowerOf(Append(v, m))
        BY <3>1, <3>2, LowerAppend
      <3> QED
        BY <3>3 DEF u, v, m
    <2> QED
      BY <1>2, <1>3, <2>1, AppendElements
  <1>5. k \in Lowered
    BY <1>2 DEF Lowered
  <1>6. c \in Maps(Lowered, Seq(Names)) /\ SameNames(c)
    <2>1. CASE k \in DOMAIN x.paths
      BY <1>2, <2>1
    <2>2. CASE k \notin DOMAIN x.paths
      <3> DEFINE t == Put(x.paths, k, x.path)
      <3>1. t \in Maps(Lowered, Seq(Names))
        BY <1>2, <1>5, PutIs
      <3>2. /\ DOMAIN t = DOMAIN x.paths \cup {k} /\ t[k] = x.path
            /\ \A j \in DOMAIN x.paths : j # k => t[j] = x.paths[j]
        BY DEF Put
      <3>3. c = t
        BY <2>2
      <3> HIDE DEF t, c
      <3>4. SameNames(t)
        BY <3>2 DEF SameNames
      <3> QED
        BY <3>1, <3>3, <3>4
    <2> QED
      BY <2>1, <2>2
  <1> HIDE DEF q, c
  <1> QED
    BY <1>1, <1>4, <1>6 DEF Spelt

\* winpath answers a path of the name that was asked for, and caches directories
\* under their own names.
LEMMA WinPathIs ==
    ASSUME IsTree(disk), path_cache \in Maps(Lowered, Seq(Names)), SameNames(path_cache),
           NEW source \in Seq(Names), NEW first
    PROVE  /\ WinPath(source, first).path \in Seq(Names)
           /\ LowerOf(WinPath(source, first).path) = LowerOf(source)
           /\ WinPath(source, first).paths \in Maps(Lowered, Seq(Names))
           /\ SameNames(WinPath(source, first).paths)
           /\ \E from \in Seq(Names) : WinPath(source, first).stats = Stated(stat_cache, from)
  <1> DEFINE Q == {q \in OnPath(source) : Exists(q) \/ LowerOf(q) \in DOMAIN path_cache}
             from == LongestOf(Q)
             start == [path  |-> IF Exists(from) THEN from ELSE path_cache[LowerOf(from)],
                       paths |-> path_cache]
             a == Len(from)
             b == Len(source)
             T == [i \in a..b |-> {x \in Spelt : /\ SameNames(x.paths)
                                               /\ LowerOf(x.path) = LowerOf(SubSeq(source, 1, i))}]
             G == [i \in a + 1..b |-> [x \in T[i - 1] |->
                      SpellName(x, SubSeq(source, 1, i), first)]]
             Is(f) == f = [i \in a..b |-> IF i = a THEN start
                              ELSE SpellName(f[i - 1], SubSeq(source, 1, i), first)]
             won == (CHOOSE f : Is(f))[b]
  <1>1. from \in Q
    <2>1. << >> \in Q
      BY OnPathIs, CanonRoot
    <2>2. Q \in SUBSET OnPath(source)
      OBVIOUS
    <2> HIDE DEF Q
    <2> QED
      BY <2>1, <2>2, Longest
  <1>2. /\ from \in Seq(Names) /\ IsPrefix(from, source)
        /\ Exists(from) \/ LowerOf(from) \in DOMAIN path_cache
    BY <1>1, OnPathIs
  <1> HIDE DEF Q, from
  <1>3. a \in Nat /\ b \in Nat /\ a <= b
    BY <1>2, PrefixIs
  <1>4. from = SubSeq(source, 1, a)
    BY <1>2, CutWhole
  <1>5. start \in T[a]
    <2> DEFINE p == start.path
    <2>1. p \in Seq(Names) /\ LowerOf(p) = LowerOf(from)
      <3>1. CASE Exists(from)
        BY <1>2, <3>1
      <3>2. CASE ~Exists(from)
        <4>1. LowerOf(from) \in DOMAIN path_cache
          BY <1>2, <3>2
        <4>2. path_cache[LowerOf(from)] \in Seq(Names)
          BY <4>1, MapsIs
        <4>3. LowerOf(path_cache[LowerOf(from)]) = LowerOf(from)
          BY <4>1 DEF SameNames
        <4> QED
          BY <3>2, <4>2, <4>3
      <3> QED
        BY <3>1, <3>2
    <2>2. start = [path |-> p, paths |-> path_cache]
      OBVIOUS
    <2> HIDE DEF start, p
    <2>3. start \in Spelt /\ start.paths = path_cache /\ start.path = p
      BY <2>1, <2>2 DEF Spelt
    <2>4. SameNames(start.paths)
      BY <2>3 DEF SameNames
    <2>5. LowerOf(start.path) = LowerOf(SubSeq(source, 1, a))
      BY <1>4, <2>1, <2>3
    <2> HIDE DEF a, b
    <2> QED
      BY <1>3, <2>3, <2>4, <2>5
  <1> HIDE DEF start, a
  <1>6. ASSUME NEW i \in a + 1..b, NEW x \in T[i - 1]
        PROVE  SpellName(x, SubSeq(source, 1, i), first) \in T[i]
    <2>1. i \in 1..b /\ i - 1 \in a..b /\ i \in a..b
      BY <1>3
    <2> DEFINE p == SubSeq(source, 1, i)
    <2>2. p \in Seq(Names) /\ p # << >> /\ Parent(p) = SubSeq(source, 1, i - 1)
      BY <2>1, CutIs
    <2>3. x \in Spelt /\ SameNames(x.paths) /\ LowerOf(x.path) = LowerOf(Parent(p))
      BY <2>1, <2>2
    <2> DEFINE y == SpellName(x, p, first)
    <2> HIDE DEF p
    <2>4. y \in Spelt /\ SameNames(y.paths) /\ LowerOf(y.path) = LowerOf(p)
      BY <2>2, <2>3, SpellNameIs
    <2> HIDE DEF y
    <2>5. y \in T[i]
      BY <2>1, <2>4 DEF p
    <2> QED
      BY <2>5 DEF y, p
  <1> HIDE DEF T, b
  <1>7. \A i \in a + 1..b : \A x \in T[i - 1] :
           G[i][x] = SpellName(x, SubSeq(source, 1, i), first)
    OBVIOUS
  <1>8. Steps(a, b, T, G)
    BY <1>6, <1>7 DEF Steps
  <1> HIDE DEF G
  <1>9. \E f : Is(f)
    <2>0. \E f : Iterates(f, a, b, T, G, start)
      BY <1>3, <1>5, <1>8, IterationExists
    <2>1. PICK f : /\ f = [i \in a..b |-> f[i]] /\ f[a] = start
                   /\ \A i \in a + 1..b : f[i] = G[i][f[i - 1]]
                   /\ \A i \in a..b : f[i] \in T[i]
      BY <2>0 DEF Iterates
    <2>2. \A i \in a..b : f[i] = IF i = a THEN start
                              ELSE SpellName(f[i - 1], SubSeq(source, 1, i), first)
      <3> TAKE i \in a..b
      <3>1. CASE i = a
        BY <2>1, <3>1
      <3>2. CASE i # a
        <4>1. i \in a + 1..b /\ i - 1 \in a..b
          BY <1>3, <3>2
        <4>2. f[i] = G[i][f[i - 1]] /\ f[i - 1] \in T[i - 1]
          BY <2>1, <3>2, <4>1
        <4> QED
          BY <1>7, <3>2, <4>1, <4>2
      <3> QED
        BY <3>1, <3>2
    <2>3. f = [i \in a..b |-> f[i]]
      BY <2>1
    <2>4. Is(f)
      BY <2>2, <2>3
    <2> QED
      BY <2>4
  <1> DEFINE down == CHOOSE f : Is(f)
  <1>10. Is(down)
    <2> HIDE DEF Is
    <2> QED
      BY <1>9
  <1>11. won \in T[b]
    <2>0. won = down[b]
      OBVIOUS
    <2> HIDE DEF down, won
    <2>1. down[a] = start
      BY <1>3, <1>10
    <2>2. \A i \in a + 1..b : down[i - 1] \in T[i - 1] => down[i] = G[i][down[i - 1]]
      <3> TAKE i \in a + 1..b
      <3>1. i \in a..b /\ i # a
        BY <1>3
      <3>2. down[i] = SpellName(down[i - 1], SubSeq(source, 1, i), first)
        BY <1>10, <3>1
      <3> QED
        BY <1>7, <3>2
    <2> HIDE DEF Is
    <2>3. \A i \in a..b : down[i] \in T[i]
      BY <1>3, <1>5, <1>8, <2>1, <2>2, IterationValues
    <2> QED
      BY <1>3, <2>0, <2>3
  <1>12. WinPath(source, first)
            = [path |-> won.path, paths |-> won.paths, stats |-> Stated(stat_cache, from)]
    BY DEF WinPath, start, a, b, from, Q
  <1> HIDE DEF won
  <1>13. /\ won \in Spelt /\ SameNames(won.paths)
         /\ LowerOf(won.path) = LowerOf(source)
    <2>1. b \in a..b
      BY <1>3
    <2>2. SubSeq(source, 1, b) = source
      BY CutWhole DEF b
    <2> QED
      BY <1>11, <2>1, <2>2 DEF T
  <1> QED
    BY <1>2, <1>12, <1>13 DEF Spelt

-----------------------------------------------------------------------------
(* readlink_cache *)

\* No link is on the path that another is resolved to, unless it came later.
Free(real) == LinkFree(real) \/ \E q \in relinked : IsPrefix(q, real)

Resolves(p, real) == Chained \/ ((real = Canon(p) \/ Misled(p)) /\ Free(real))

AllResolve(links) == \A p \in DOMAIN links : Resolves(p, links[p])

Followed == [path : Seq(Names), cache : Maps(Seq(Names), Seq(Names))]

\* What readlink says of a name below a path that was resolved.
LEMMA ReadLinkIs ==
    ASSUME IsTree(disk), relinked \subseteq Paths, NEW r \in Seq(Names), NEW n \in Names
    PROVE  LET here == Append(r, n)
               real == ReadLink(here)
           IN  /\ here \in Seq(Names) /\ real \in Seq(Names)
               /\ LinkFree(r) => real = IF IsLink(here) THEN disk[here].to ELSE here
               /\ ~Chained /\ Free(r) => Free(real)
  <1> DEFINE here == Append(r, n)
             real == ReadLink(here)
             e == Entry(here)
  <1>1. here \in Seq(Names) /\ here # << >> /\ Parent(here) = r /\ Last(here) = n
    BY ParentOfAppend
  <1> HIDE DEF here
  <1>2. relinked \subseteq Seq(Names)
    BY CacheConstants
  <1>3. e = Append(Canon(r), n)
    BY <1>1 DEF Entry
  <1>4. real = IF IsLink(e) THEN disk[e].to ELSE here
    BY DEF ReadLink
  <1>5. LinkFree(r) => e = here
    BY <1>3, CanonIs DEF here
  <1> HIDE DEF real, e
  <1>6. real \in Seq(Names)
    BY <1>1, <1>4, LinkIs, OfDisk
  <1>7. LinkFree(r) => real = IF IsLink(here) THEN disk[here].to ELSE here
    BY <1>4, <1>5
  <1>8. ASSUME ~Chained, Free(r) PROVE Free(real)
    <2>1. CASE IsLink(e)
      BY <1>4, <1>8, <2>1, TargetFree DEF Free
    <2>2. CASE ~IsLink(e) /\ LinkFree(r)
      <3>1. FreeIn(disk, here)
        <4>1. FreeIn(disk, r) /\ ~LinkIn(disk, here)
          BY <1>5, <2>2, OfDisk
        <4> QED
          BY <4>1, AppendFree DEF here
      <3> QED
        BY <1>4, <2>2, <3>1, OfDisk DEF Free
    <2>3. CASE ~IsLink(e) /\ ~LinkFree(r)
      <3>1. PICK q \in relinked : IsPrefix(q, r)
        BY <1>8, <2>3 DEF Free
      <3>2. IsPrefix(r, here)
        BY <1>1, ParentLast
      <3>3. IsPrefix(q, here)
        BY <1>1, <1>2, <3>1, <3>2, PrefixTransitive
      <3> QED
        BY <1>4, <2>3, <3>3 DEF Free
    <2> QED
      BY <2>1, <2>2, <2>3
  <1> QED
    BY <1>1, <1>6, <1>7, <1>8 DEF here, real

\* One step of cached_readlink resolves the path it was asked for and the one
\* it came to.
LEMMA ResolveStep ==
    ASSUME IsTree(disk), relinked \subseteq Paths,
           NEW p \in Seq(Names), p # << >>, NEW r \in Seq(Names), Resolves(Parent(p), r)
    PROVE  LET here == Append(r, Last(p)) IN
           /\ here \in Seq(Names) /\ ReadLink(here) \in Seq(Names)
           /\ Resolves(p, ReadLink(here)) /\ Resolves(here, ReadLink(here))
  <1> DEFINE here == Append(r, Last(p))
             real == ReadLink(here)
  <1>1. PICK q, n : q = Parent(p) /\ n = Last(p)
    OBVIOUS
  <1>2. q \in Seq(Names) /\ n \in Names /\ Append(q, n) = p
    BY <1>1, ParentLast
  <1>3. /\ here \in Seq(Names) /\ real \in Seq(Names)
        /\ LinkFree(r) => real = IF IsLink(here) THEN disk[here].to ELSE here
        /\ ~Chained /\ Free(r) => Free(real)
    BY <1>1, <1>2, ReadLinkIs
  <1>4. here = Append(r, n)
    BY <1>1
  <1> HIDE DEF here, real
  <1>5. CASE Chained
    BY <1>3, <1>5 DEF Resolves, here, real
  <1>6. CASE ~Chained
    <2>1. (r = Canon(q) \/ Misled(q)) /\ Free(r) /\ Free(real)
      BY <1>1, <1>3, <1>6 DEF Resolves
    <2>2. real = Canon(p) \/ Misled(p)
      <3>1. CASE Misled(q)
        BY <1>2, <3>1, MisledBelow
      <3>2. CASE ~Misled(q)
        <4>1. r = Canon(q) /\ LinkFree(r)
          BY <2>1, <3>2 DEF Misled
        <4>2. real = Canon(p) \/ ~LinkFree(Canon(p))
          BY <1>2, <1>3, <1>4, <1>6, <4>1, CanonBelow
        <4> QED
          BY <4>2 DEF Misled
      <3> QED
        BY <3>1, <3>2
    <2>3. real = Canon(here) \/ Misled(here)
      <3>1. CASE LinkFree(r)
        <4>1. Canon(r) = r
          BY <3>1, CanonIs
        <4>2. real = Canon(here) \/ ~LinkFree(Canon(here))
          BY <1>2, <1>3, <1>4, <1>6, <3>1, <4>1, CanonBelow
        <4> QED
          BY <4>2 DEF Misled
      <3>2. CASE ~LinkFree(r)
        <4>1. PICK k \in relinked : IsPrefix(k, r)
          BY <2>1, <3>2 DEF Free
        <4>2. Way(r)[0] = r /\ 0 \in 0..MaxLinks
          BY CanonIs, CacheConstants
        <4>3. Misled(r)
          BY <4>1, <4>2 DEF Misled, Crosses
        <4> QED
          BY <1>2, <1>4, <4>3, MisledBelow
      <3> QED
        BY <3>1, <3>2
    <2> QED
      BY <1>3, <2>1, <2>2, <2>3 DEF Resolves, here, real
  <1> QED
    BY <1>5, <1>6

LEMMA FollowNameIs ==
    ASSUME IsTree(disk), relinked \subseteq Paths, NEW x \in Followed, AllResolve(x.cache),
           NEW p \in Seq(Names), p # << >>, Resolves(Parent(p), x.path)
    PROVE  /\ FollowName(x, p) \in Followed
           /\ AllResolve(FollowName(x, p).cache)
           /\ Resolves(p, FollowName(x, p).path)
  <1> DEFINE here == Append(x.path, Last(p))
             real == ReadLink(here)
             first == Put(x.cache, p, real)
             both == Put(first, here, real)
  <1>1. FollowName(x, p) = [path |-> real, cache |-> both]
    BY DEF FollowName
  <1>2. x.path \in Seq(Names) /\ x.cache \in Maps(Seq(Names), Seq(Names))
    BY DEF Followed
  <1>3. /\ here \in Seq(Names) /\ real \in Seq(Names)
        /\ Resolves(p, real) /\ Resolves(here, real)
    BY <1>2, ResolveStep
  <1> HIDE DEF here, real
  <1>4. first \in Maps(Seq(Names), Seq(Names)) /\ AllResolve(first)
    <2>1. first \in Maps(Seq(Names), Seq(Names))
      BY <1>2, <1>3, PutIs
    <2>2. /\ DOMAIN first = DOMAIN x.cache \cup {p} /\ first[p] = real
          /\ \A k \in DOMAIN x.cache : k # p => first[k] = x.cache[k]
      BY DEF Put
    <2> HIDE DEF first
    <2>3. AllResolve(first)
      BY <1>3, <2>2 DEF AllResolve
    <2> QED
      BY <2>1, <2>3
  <1> HIDE DEF first
  <1>5. both \in Maps(Seq(Names), Seq(Names)) /\ AllResolve(both)
    <2>1. both \in Maps(Seq(Names), Seq(Names))
      BY <1>3, <1>4, PutIs
    <2>2. /\ DOMAIN both = DOMAIN first \cup {here} /\ both[here] = real
          /\ \A k \in DOMAIN first : k # here => both[k] = first[k]
      BY DEF Put
    <2> HIDE DEF both
    <2>3. AllResolve(both)
      BY <1>3, <1>4, <2>2 DEF AllResolve
    <2> QED
      BY <2>1, <2>3
  <1> HIDE DEF both
  <1> QED
    BY <1>1, <1>3, <1>5 DEF Followed

\* cached_readlink answers, and caches, what it resolves.
LEMMA CachedReadlinkIs ==
    ASSUME IsTree(disk), relinked \subseteq Paths,
           readlink_cache \in Maps(Seq(Names), Seq(Names)), AllResolve(readlink_cache),
           NEW source \in Seq(Names)
    PROVE  /\ CachedReadlink(source) \in Followed
           /\ AllResolve(CachedReadlink(source).cache)
           /\ Resolves(source, CachedReadlink(source).path)
  <1> DEFINE known == OnPath(source) \cap DOMAIN readlink_cache
             from == IF known = {} THEN << >> ELSE LongestOf(known)
             start == IF known = {}
                      THEN [path |-> << >>, cache |-> Put(readlink_cache, << >>, << >>)]
                      ELSE [path |-> readlink_cache[from], cache |-> readlink_cache]
             a == Len(from)
             b == Len(source)
             T == [i \in a..b |-> {x \in Followed : /\ AllResolve(x.cache)
                                                  /\ Resolves(SubSeq(source, 1, i), x.path)}]
             G == [i \in a + 1..b |-> [x \in T[i - 1] |->
                      FollowName(x, SubSeq(source, 1, i))]]
             Is(f) == f = [i \in a..b |-> IF i = a THEN start
                              ELSE FollowName(f[i - 1], SubSeq(source, 1, i))]
             won == (CHOOSE f : Is(f))[b]
  <1>1. /\ from \in Seq(Names) /\ IsPrefix(from, source)
        /\ known # {} => from \in DOMAIN readlink_cache
    <2>1. CASE known = {}
      BY <2>1, OnPathIs
    <2>2. CASE known # {}
      <3>1. from \in known
        <4>1. known \in SUBSET OnPath(source)
          OBVIOUS
        <4>2. from = LongestOf(known)
          BY <2>2
        <4> HIDE DEF known, from
        <4> QED
          BY <2>2, <4>1, <4>2, Longest
      <3> HIDE DEF from
      <3> QED
        BY <2>2, <3>1, OnPathIs
    <2> QED
      BY <2>1, <2>2
  <1>2. start \in Followed /\ AllResolve(start.cache) /\ Resolves(from, start.path)
    <2>1. CASE known = {}
      <3> DEFINE e == << >>
                 t == Put(readlink_cache, e, e)
      <3>1. e \in Seq(Names) /\ Resolves(e, e)
        BY CanonRoot DEF Resolves, Free
      <3>2. start = [path |-> e, cache |-> t] /\ from = e
        BY <2>1
      <3> HIDE DEF e
      <3>3. t \in Maps(Seq(Names), Seq(Names))
        BY <3>1, PutIs
      <3>4. /\ DOMAIN t = DOMAIN readlink_cache \cup {e} /\ t[e] = e
            /\ \A k \in DOMAIN readlink_cache : k # e => t[k] = readlink_cache[k]
        BY DEF Put
      <3> HIDE DEF t, start, from
      <3>5. AllResolve(t)
        BY <3>1, <3>4 DEF AllResolve
      <3> QED
        BY <3>1, <3>2, <3>3, <3>5 DEF Followed
    <2>2. CASE known # {}
      <3>1. start = [path |-> readlink_cache[from], cache |-> readlink_cache]
        BY <2>2
      <3> HIDE DEF start, from
      <3>2. readlink_cache[from] \in Seq(Names) /\ Resolves(from, readlink_cache[from])
        BY <1>1, <2>2, MapsIs DEF AllResolve
      <3> QED
        BY <3>1, <3>2 DEF Followed
    <2> QED
      BY <2>1, <2>2
  <1> HIDE DEF known, from, start
  <1>3. a \in Nat /\ b \in Nat /\ a <= b
    BY <1>1, PrefixIs
  <1>4. from = SubSeq(source, 1, a)
    BY <1>1, CutWhole
  <1> HIDE DEF a
  <1>5. start \in T[a]
    <2>1. Resolves(SubSeq(source, 1, a), start.path)
      BY <1>2, <1>4
    <2> HIDE DEF b
    <2> QED
      BY <1>2, <1>3, <2>1
  <1>6. ASSUME NEW i \in a + 1..b, NEW x \in T[i - 1]
        PROVE  FollowName(x, SubSeq(source, 1, i)) \in T[i]
    <2>1. i \in 1..b /\ i - 1 \in a..b /\ i \in a..b
      BY <1>3
    <2> DEFINE p == SubSeq(source, 1, i)
    <2>2. p \in Seq(Names) /\ p # << >> /\ Parent(p) = SubSeq(source, 1, i - 1)
      BY <2>1, CutIs
    <2>3. x \in Followed /\ AllResolve(x.cache) /\ Resolves(Parent(p), x.path)
      BY <2>1, <2>2
    <2> DEFINE y == FollowName(x, p)
    <2> HIDE DEF p
    <2>4. y \in Followed /\ AllResolve(y.cache) /\ Resolves(p, y.path)
      BY <2>2, <2>3, FollowNameIs
    <2> HIDE DEF y
    <2>5. y \in T[i]
      BY <2>1, <2>4 DEF p
    <2> QED
      BY <2>5 DEF y, p
  <1> HIDE DEF T, b
  <1>7. \A i \in a + 1..b : \A x \in T[i - 1] :
           G[i][x] = FollowName(x, SubSeq(source, 1, i))
    OBVIOUS
  <1>8. Steps(a, b, T, G)
    BY <1>6, <1>7 DEF Steps
  <1> HIDE DEF G
  <1>9. \E f : Is(f)
    <2>0. \E f : Iterates(f, a, b, T, G, start)
      BY <1>3, <1>5, <1>8, IterationExists
    <2>1. PICK f : /\ f = [i \in a..b |-> f[i]] /\ f[a] = start
                   /\ \A i \in a + 1..b : f[i] = G[i][f[i - 1]]
                   /\ \A i \in a..b : f[i] \in T[i]
      BY <2>0 DEF Iterates
    <2>2. \A i \in a..b : f[i] = IF i = a THEN start
                              ELSE FollowName(f[i - 1], SubSeq(source, 1, i))
      <3> TAKE i \in a..b
      <3>1. CASE i = a
        BY <2>1, <3>1
      <3>2. CASE i # a
        <4>1. i \in a + 1..b /\ i - 1 \in a..b
          BY <1>3, <3>2
        <4>2. f[i] = G[i][f[i - 1]] /\ f[i - 1] \in T[i - 1]
          BY <2>1, <3>2, <4>1
        <4> QED
          BY <1>7, <3>2, <4>1, <4>2
      <3> QED
        BY <3>1, <3>2
    <2>3. f = [i \in a..b |-> f[i]]
      BY <2>1
    <2>4. Is(f)
      BY <2>2, <2>3
    <2> QED
      BY <2>4
  <1> DEFINE down == CHOOSE f : Is(f)
  <1>10. Is(down)
    <2> HIDE DEF Is
    <2> QED
      BY <1>9
  <1>11. won \in T[b]
    <2>0. won = down[b]
      OBVIOUS
    <2> HIDE DEF down, won
    <2>1. down[a] = start
      BY <1>3, <1>10
    <2>2. \A i \in a + 1..b : down[i - 1] \in T[i - 1] => down[i] = G[i][down[i - 1]]
      <3> TAKE i \in a + 1..b
      <3>1. i \in a..b /\ i # a
        BY <1>3
      <3>2. down[i] = FollowName(down[i - 1], SubSeq(source, 1, i))
        BY <1>10, <3>1
      <3> QED
        BY <1>7, <3>2
    <2> HIDE DEF Is
    <2>3. \A i \in a..b : down[i] \in T[i]
      BY <1>3, <1>5, <1>8, <2>1, <2>2, IterationValues
    <2> QED
      BY <1>3, <2>0, <2>3
  <1>12. CachedReadlink(source) = won
    BY DEF CachedReadlink, start, a, b, from, known
  <1> HIDE DEF won
  <1>13. won \in Followed /\ AllResolve(won.cache) /\ Resolves(source, won.path)
    <2>1. b \in a..b
      BY <1>3
    <2>2. SubSeq(source, 1, b) = source
      BY CutWhole DEF b
    <2>3. /\ won \in Followed /\ AllResolve(won.cache)
          /\ Resolves(SubSeq(source, 1, b), won.path)
      BY <1>11, <2>1 DEF T
    <2> QED
      BY <2>2, <2>3
  <1> QED
    BY <1>12, <1>13

-----------------------------------------------------------------------------
(* stat_cache *)

Removed(p) == Crosses(gone, p)

\* What is remembered of p was true when it was remembered: only a removal
\* makes it wrong.
Stands(p, isdir) ==
    /\ isdir \in BOOLEAN
    /\ Exists(p) \/ gone # {}
    /\ isdir => IsDirectory(p) \/ Removed(p)

AllStand(stats) == \A p \in DOMAIN stats : Stands(p, stats[p])

StatMaps == Maps(Seq(Names), BOOLEAN)

LEMMA StatedIs ==
    ASSUME NEW stats \in StatMaps, AllStand(stats), NEW p \in Seq(Names)
    PROVE  Stated(stats, p) \in StatMaps /\ AllStand(Stated(stats, p))
  <1>1. CASE ~Exists(p)
    BY <1>1 DEF Stated
  <1>2. CASE Exists(p)
    <2> DEFINE isdir == IsDirectory(p)
               t == Put(stats, p, isdir)
    <2>1. isdir \in BOOLEAN
      BY DEF IsDirectory
    <2>2. Stands(p, isdir)
      BY <1>2, <2>1 DEF Stands
    <2>3. Stated(stats, p) = t
      BY <1>2 DEF Stated
    <2> HIDE DEF isdir
    <2>4. t \in StatMaps
      BY <2>1, PutIs DEF StatMaps
    <2>5. /\ DOMAIN t = DOMAIN stats \cup {p} /\ t[p] = isdir
          /\ \A k \in DOMAIN stats : k # p => t[k] = stats[k]
      BY DEF Put
    <2> HIDE DEF t
    <2>6. AllStand(t)
      BY <2>2, <2>5 DEF AllStand
    <2> QED
      BY <2>3, <2>4, <2>6
  <1> QED
    BY <1>1, <1>2

LEMMA ForgottenIs ==
    ASSUME NEW stats \in StatMaps, AllStand(stats), NEW p
    PROVE  Without(stats, p) \in StatMaps /\ AllStand(Without(stats, p))
  <1>1. Without(stats, p) \in StatMaps
    BY WithoutIs DEF StatMaps
  <1>2. AllStand(Without(stats, p))
    BY DEF AllStand, Without
  <1> QED
    BY <1>1, <1>2

LEMMA UnresolvedIs ==
    ASSUME NEW links \in Maps(Seq(Names), Seq(Names)), AllResolve(links), NEW p
    PROVE  /\ Without(links, p) \in Maps(Seq(Names), Seq(Names))
           /\ AllResolve(Without(links, p))
  <1>1. Without(links, p) \in Maps(Seq(Names), Seq(Names))
    BY WithoutIs
  <1>2. AllResolve(Without(links, p))
    BY DEF AllResolve, Without
  <1> QED
    BY <1>1, <1>2

-----------------------------------------------------------------------------
(* The invariant *)

CachesInv ==
    /\ IsTree(disk) /\ relinked \subseteq Paths /\ changes \in 0..MaxChanges
    /\ path_cache \in Maps(Lowered, Seq(Names)) /\ SameNames(path_cache)
    /\ readlink_cache \in Maps(Seq(Names), Seq(Names)) /\ AllResolve(readlink_cache)
    /\ stat_cache \in StatMaps /\ AllStand(stat_cache)

\* A path that is resolved to a is sent to real.
LeadsTo(p, a, real) ==
    LET folder == LowerOf(a) IN
    IF folder \in DOMAIN Backing THEN LowerOf(real) = folder \/ real = Backing[folder]
                                 ELSE LowerOf(real) = LowerOf(p)

\* winevfs_get_path leaves the caches right, and sends a known folder to a
\* directory, or to where its records put it.
LEMMA GetPathIs ==
    ASSUME CachesInv, NEW p \in Seq(Names), NEW first
    PROVE  LET got == GetPath(p, first) IN
           /\ got.real \in Seq(Names)
           /\ got.paths \in Maps(Lowered, Seq(Names)) /\ SameNames(got.paths)
           /\ got.stats \in StatMaps /\ AllStand(got.stats)
           /\ got.links \in Maps(Seq(Names), Seq(Names)) /\ AllResolve(got.links)
           /\ got.folder => \/ IsDirectory(got.real) \/ Removed(got.real)
                            \/ \E f \in DOMAIN Backing : got.real = Backing[f]
           /\ \E a : Resolves(p, a) /\ LeadsTo(p, a, got.real)
  <1> DEFINE abs == CachedReadlink(p)
             folder == LowerOf(abs.path)
             known == folder \in DOMAIN Backing
             source == IF known THEN abs.path ELSE p
             win == WinPath(source, first)
             back == Backing[folder]
             at == IF known THEN FolderPath(win, back)
                   ELSE [real |-> win.path, stats |-> win.stats]
  <1>1. GetPath(p, first) = [real |-> at.real, paths |-> win.paths, stats |-> at.stats,
                             links |-> abs.cache, folder |-> known]
    BY DEF GetPath
  <1>2. abs \in Followed /\ AllResolve(abs.cache) /\ Resolves(p, abs.path)
    BY CachedReadlinkIs DEF CachesInv
  <1> HIDE DEF abs
  <1>3. source \in Seq(Names)
    BY <1>2 DEF Followed
  <1>3a. source = IF known THEN abs.path ELSE p
    OBVIOUS
  <1> HIDE DEF source
  <1>4. /\ win.path \in Seq(Names) /\ LowerOf(win.path) = LowerOf(source)
        /\ win.paths \in Maps(Lowered, Seq(Names)) /\ SameNames(win.paths)
        /\ \E from \in Seq(Names) : win.stats = Stated(stat_cache, from)
    BY <1>3, WinPathIs DEF CachesInv
  <1> HIDE DEF win
  <1>5. win.stats \in StatMaps /\ AllStand(win.stats)
    BY <1>4, StatedIs DEF CachesInv
  <1>6. known => back \in Seq(Names)
    BY CacheConstants
  <1>7. /\ at.real \in Seq(Names) /\ at.stats \in StatMaps /\ AllStand(at.stats)
        /\ known => IsDirectory(at.real) \/ Removed(at.real) \/ at.real = back
        /\ IF known THEN at.real = win.path \/ at.real = back ELSE at.real = win.path
    <2>1. CASE ~known
      BY <1>4, <1>5, <2>1
    <2>2. CASE known
      <3> DEFINE stats == IF win.path \in DOMAIN win.stats THEN win.stats
                          ELSE Stated(win.stats, win.path)
                 real == IF win.path \in DOMAIN stats /\ stats[win.path]
                         THEN win.path ELSE back
      <3>1. at = [real |-> real, stats |-> stats]
        BY <2>2 DEF FolderPath
      <3>2. stats \in StatMaps /\ AllStand(stats)
        BY <1>4, <1>5, StatedIs
      <3> HIDE DEF stats, at
      <3>3. CASE win.path \in DOMAIN stats /\ stats[win.path]
        <4>1. Stands(win.path, stats[win.path])
          BY <3>2, <3>3 DEF AllStand
        <4>2. real = win.path
          BY <3>3
        <4> HIDE DEF real
        <4> QED
          BY <1>4, <3>1, <3>2, <3>3, <4>1, <4>2 DEF Stands
      <3>4. CASE ~(win.path \in DOMAIN stats /\ stats[win.path])
        <4>1. real = back
          BY <3>4
        <4> HIDE DEF real
        <4> QED
          BY <1>6, <2>2, <3>1, <3>2, <4>1
      <3> QED
        BY <3>3, <3>4
    <2> QED
      BY <2>1, <2>2
  <1> HIDE DEF at
  <1> DEFINE got == GetPath(p, first)
  <1>8. /\ got.real = at.real /\ got.paths = win.paths /\ got.stats = at.stats
        /\ got.links = abs.cache /\ got.folder = known
    BY <1>1
  <1> HIDE DEF got
  <1>9. /\ got.real \in Seq(Names)
        /\ got.paths \in Maps(Lowered, Seq(Names)) /\ SameNames(got.paths)
        /\ got.stats \in StatMaps /\ AllStand(got.stats)
    BY <1>4, <1>7, <1>8
  <1>10. got.links \in Maps(Seq(Names), Seq(Names)) /\ AllResolve(got.links)
    BY <1>2, <1>8 DEF Followed
  <1>11. got.folder => \/ IsDirectory(got.real) \/ Removed(got.real)
                      \/ \E f \in DOMAIN Backing : got.real = Backing[f]
    BY <1>7, <1>8
  <1>12. LeadsTo(p, abs.path, got.real)
    <2>1. CASE known
      BY <1>3a, <1>4, <1>7, <1>8, <2>1 DEF LeadsTo
    <2>2. CASE ~known
      BY <1>3a, <1>4, <1>7, <1>8, <2>2 DEF LeadsTo
    <2> QED
      BY <2>1, <2>2
  <1> QED
    BY <1>2, <1>9, <1>10, <1>11, <1>12 DEF got

-----------------------------------------------------------------------------
(* Changes of the file system *)

\* Something appears or disappears at e.
ChangesAt(e) ==
    /\ e \in Paths
    /\ \A q : q # e => /\ (q \in DOMAIN disk' <=> q \in DOMAIN disk)
                       /\ (q \in DOMAIN disk => disk'[q] = disk[q])
    /\ e \in DOMAIN disk  => /\ e \notin DOMAIN disk' /\ e \in gone'
                             /\ \A q \in DOMAIN disk : Parent(q) # e \/ disk[e].kind # "dir"
    /\ e \notin DOMAIN disk =>
          /\ e \in DOMAIN disk'
          /\ Parent(e) # << >> => /\ Parent(e) \in DOMAIN disk
                                 /\ disk[Parent(e)].kind = "dir"
          /\ disk'[e] \in Nodes \/ (\E l \in Links : l[1] = e /\ disk'[e] = Link(l[2]))
    /\ relinked \subseteq relinked' /\ relinked' \subseteq Paths /\ gone \subseteq gone'
    /\ IsLink(e) \/ IsLink(e)' => e \in relinked'

LEMMA TreeStays ==
    ASSUME IsTree(disk), NEW e, ChangesAt(e)
    PROVE  IsTree(disk)'
  <1> DEFINE Good(tree, p) ==
             /\ tree[p] \in Nodes \/ (\E l \in Links : l[1] = p /\ tree[p] = Link(l[2]))
             /\ Parent(p) # << >> => /\ Parent(p) \in DOMAIN tree
                                    /\ tree[Parent(p)].kind = "dir"
  <1>1. DOMAIN disk' \subseteq Paths
    BY DEF IsTree, ChangesAt
  <1>2. ASSUME NEW p \in DOMAIN disk'
        PROVE  Good(disk', p)
    <2>1. p \in Seq(Names) /\ p # << >>
      BY <1>1, CacheConstants
    <2>2. CASE p = e
      <3>1. e \notin DOMAIN disk
        BY <1>2, <2>2 DEF ChangesAt
      <3>2. Parent(e) # e
        BY <2>1, <2>2, ParentLast
      <3> QED
        BY <2>2, <3>1, <3>2 DEF ChangesAt
    <2>3. CASE p # e
      <3>1. p \in DOMAIN disk /\ disk'[p] = disk[p]
        BY <1>2, <2>3 DEF ChangesAt
      <3>2. Good(disk, p)
        BY <3>1 DEF IsTree
      <3>3. CASE Parent(p) # e
        BY <3>1, <3>2, <3>3 DEF ChangesAt
      <3>4. CASE Parent(p) = e
        <4>1. e # << >>
          BY CacheConstants DEF ChangesAt
        <4>2. e \in DOMAIN disk /\ disk[e].kind = "dir"
          BY <3>2, <3>4, <4>1
        <4> QED
          BY <3>1, <3>4, <4>2 DEF ChangesAt
      <3> QED
        BY <3>3, <3>4
    <2> QED
      BY <2>2, <2>3
  <1> QED
    BY <1>1, <1>2 DEF IsTree

LEMMA LinkStays ==
    ASSUME NEW e, ChangesAt(e)
    PROVE  \A q : q # e => /\ (LinkIn(disk', q) <=> LinkIn(disk, q))
                           /\ (LinkIn(disk, q) => disk'[q] = disk[q])
  BY DEF LinkIn, ChangesAt

\* A path leads where it led, unless a link on it came or went.
LEMMA FollowStays ==
    ASSUME IsTree(disk), NEW e, ChangesAt(e), NEW p \in Seq(Names),
           ~IsPrefix(e, p) \/ (~IsLink(e) /\ ~IsLink(e)')
    PROVE  FollowIn(disk', p) = FollowIn(disk, p)
  <1>1. IsTree(disk')
    <2>1. IsTree(disk)'
      BY TreeStays
    <2> QED
      BY <2>1 DEF IsTree
  <1>2. \A q : IsPrefix(q, p) => /\ (LinkIn(disk', q) <=> LinkIn(disk, q))
                                /\ (LinkIn(disk, q) => disk'[q] = disk[q])
    BY LinkStays, OfDisk, OfDiskNext DEF LinkIn
  <1>3. CASE \E q : IsPrefix(q, p) /\ LinkIn(disk, q)
    <2>1. PICK q : IsPrefix(q, p) /\ LinkIn(disk, q)
      BY <1>3
    <2>2. FollowIn(disk, p) = Relocate(p, q, disk[q].to)
      BY <2>1, FollowIs
    <2>3. FollowIn(disk', p) = Relocate(p, q, disk'[q].to)
      BY <1>1, <1>2, <2>1, FollowIs
    <2> QED
      BY <1>2, <2>1, <2>2, <2>3
  <1>4. CASE ~\E q : IsPrefix(q, p) /\ LinkIn(disk, q)
    <2>1. FollowIn(disk, p) = p
      BY <1>4, FollowIs
    <2>2. FollowIn(disk', p) = p
      BY <1>1, <1>2, <1>4, FollowIs
    <2> QED
      BY <2>1, <2>2
  <1> QED
    BY <1>3, <1>4

\* A path leads the same way, at least as far as the link that came or went.
LEMMA WayStays ==
    ASSUME IsTree(disk), NEW e, ChangesAt(e), NEW p \in Seq(Names)
    PROVE  \/ \A i \in 0..MaxLinks : Way(p)'[i] = Way(p)[i]
           \/ /\ IsLink(e) \/ IsLink(e)'
              /\ \E k \in 0..MaxLinks : /\ IsPrefix(e, Way(p)[k])
                                       /\ \A i \in 0..k : Way(p)'[i] = Way(p)[i]
  <1> DEFINE w == WayIn(disk, p)
             v == WayIn(disk', p)
             Same(i) == \A j \in 0..i : v[j] = w[j]
             Meets == \E k \in 0..MaxLinks : IsPrefix(e, w[k]) /\ Same(k)
             S == {i \in 0..MaxLinks : Same(i)}
  <1>1. IsTree(disk') /\ MaxLinks \in Nat
    <2>1. IsTree(disk)'
      BY TreeStays
    <2> QED
      BY <2>1, CacheConstants DEF IsTree
  <1>2. /\ w[0] = p /\ \A i \in 1..MaxLinks : w[i] = FollowIn(disk, w[i - 1])
        /\ \A i \in 0..MaxLinks : w[i] \in Seq(Names)
    BY WayIs
  <1>3. v[0] = p /\ \A i \in 1..MaxLinks : v[i] = FollowIn(disk', v[i - 1])
    BY <1>1, WayIs
  <1>4. Way(p) = w /\ Way(p)' = v
    BY OfDisk, OfDiskNext
  <1> HIDE DEF w, v
  <1>5. SUFFICES ASSUME ~((IsLink(e) \/ IsLink(e)') /\ Meets)
                 PROVE  \A i \in 0..MaxLinks : v[i] = w[i]
    BY <1>4
  <1>6. 0 \in S
    BY <1>1, <1>2, <1>3
  <1>7. ASSUME NEW i \in 1..MaxLinks, i - 1 \in S PROVE i \in S
    <2>1. i - 1 \in 0..MaxLinks /\ i \in 0..MaxLinks /\ Same(i - 1)
      BY <1>1, <1>7
    <2>2. ~IsPrefix(e, w[i - 1]) \/ (~IsLink(e) /\ ~IsLink(e)')
      BY <1>5, <2>1
    <2>3. FollowIn(disk', w[i - 1]) = FollowIn(disk, w[i - 1])
      BY <1>2, <2>1, <2>2, FollowStays
    <2>4. v[i - 1] = w[i - 1]
      BY <1>1, <2>1
    <2>5. v[i] = w[i]
      BY <1>2, <1>3, <2>3, <2>4
    <2>6. \A j \in 0..i : j = i \/ j \in 0..i - 1
      BY <1>1
    <2>7. Same(i)
      BY <2>1, <2>5, <2>6
    <2> QED
      BY <2>1, <2>7
  <1> HIDE DEF S
  <1>8. \A i \in 0..MaxLinks : i \in S
    BY <1>1, <1>6, <1>7, IntervalInduction
  <1> QED
    BY <1>1, <1>8 DEF S

\* Nothing is below where something appears.
LEMMA NothingBelow ==
    ASSUME IsTree(disk), NEW e, ChangesAt(e), e \notin DOMAIN disk,
           NEW p \in Seq(Names), IsPrefix(e, p)
    PROVE  FreeIn(disk, p) /\ p \notin DOMAIN disk \cup {<< >>}
  <1>1. e \in Seq(Names) \ {<< >>}
    BY CacheConstants DEF ChangesAt
  <1>2. ASSUME NEW q, IsPrefix(q, p) PROVE ~LinkIn(disk, q)
    <2> SUFFICES ASSUME LinkIn(disk, q) PROVE FALSE
      OBVIOUS
    <2>1. q \in DOMAIN disk /\ disk[q].kind # "dir" /\ q # << >> /\ q \in Seq(Names)
      BY LinkIs DEF LinkIn
    <2>2. CASE IsPrefix(e, q)
      BY <1>1, <2>1, <2>2, AboveIsDir
    <2>3. CASE IsPrefix(q, e)
      <3>1. q = e \/ IsPrefix(q, Parent(e))
        BY <1>1, <2>1, <2>3, ParentLast
      <3>2. CASE IsPrefix(q, Parent(e))
        <4>1. Parent(e) \in Seq(Names)
          BY <1>1, ParentLast
        <4>2. Parent(e) # << >>
          <5>1. Len(q) <= Len(Parent(e)) /\ Len(q) \in Nat \ {0}
            BY <2>1, <3>2, <4>1, PrefixIs, EmptySeq
          <5> QED
            BY <5>1
        <4>3. Parent(e) \in DOMAIN disk /\ disk[Parent(e)].kind = "dir"
          BY <4>2 DEF ChangesAt
        <4> QED
          BY <2>1, <3>2, <4>3, AboveIsDir
      <3> QED
        BY <2>1, <3>1, <3>2
    <2> QED
      BY <1>1, <1>2, <2>1, <2>2, <2>3, PrefixTotal
  <1>3. FreeIn(disk, p)
    BY <1>2, FreeIs
  <1>4. p # << >>
    <2>1. Len(e) <= Len(p) /\ Len(e) \in Nat \ {0}
      BY <1>1, PrefixIs, EmptySeq
    <2> QED
      BY <2>1
  <1>5. p \notin DOMAIN disk
    BY <1>1, AboveIsDir
  <1> QED
    BY <1>3, <1>4, <1>5

LEMMA ChainedStays ==
    ASSUME NEW e, ChangesAt(e), Chained
    PROVE  Chained'
  <1>1. PICK k \in Links, l \in Links : Met(k) /\ Met(l) /\ IsPrefix(l[1], k[2])
    BY DEF Chained
  <1>2. ASSUME NEW m \in Links, Met(m) PROVE Met(m)'
    <2>1. CASE m[1] \in relinked
      BY <2>1 DEF Met, ChangesAt
    <2>2. CASE IsLink(m[1]) /\ disk[m[1]].to = m[2] /\ m[1] = e
      BY <2>2 DEF Met, ChangesAt
    <2>3. CASE IsLink(m[1]) /\ disk[m[1]].to = m[2] /\ m[1] # e
      <3>1. IsLink(m[1])' /\ disk'[m[1]] = disk[m[1]]
        BY <2>3, LinkStays, OfDisk, OfDiskNext
      <3> QED
        BY <2>3, <3>1 DEF Met
    <2> QED
      BY <1>2, <2>1, <2>2, <2>3 DEF Met
  <1>3. Met(k)' /\ Met(l)'
    BY <1>1, <1>2
  <1> QED
    BY <1>1, <1>3 DEF Chained

LEMMA ResolvesStays ==
    ASSUME IsTree(disk), relinked \subseteq Paths, NEW e, ChangesAt(e),
           NEW p \in Seq(Names), NEW real \in Seq(Names), Resolves(p, real)
    PROVE  Resolves(p, real)'
  <1>1. CASE Chained
    BY <1>1, ChainedStays DEF Resolves
  <1>2. CASE ~Chained
    <2>1. relinked \subseteq relinked' /\ ((IsLink(e) \/ IsLink(e)') => e \in relinked')
      BY DEF ChangesAt
    <2>2. (real = Canon(p) \/ Misled(p)) /\ Free(real)
      BY <1>2 DEF Resolves
    <2>3. MaxLinks \in 0..MaxLinks
      BY CacheConstants
    <2>4. Free(real)'
      <3>1. CASE \E q \in relinked : IsPrefix(q, real)
        BY <2>1, <3>1 DEF Free
      <3>2. CASE LinkFree(real)
        <4>1. CASE LinkFree(real)'
          BY <4>1 DEF Free
        <4>2. CASE ~LinkFree(real)'
          <5>1. PICK q \in OnPath(real) : IsLink(q)'
            BY <4>2 DEF LinkFree
          <5>2. ~IsLink(q)
            BY <3>2 DEF LinkFree
          <5>3. q = e
            BY <5>1, <5>2, LinkStays, OfDisk, OfDiskNext
          <5>4. e \in relinked' /\ IsPrefix(e, real)
            BY <2>1, <5>1, <5>3, OnPathIs
          <5> QED
            BY <5>4 DEF Free
        <4> QED
          BY <4>1, <4>2
      <3> QED
        BY <2>2, <3>1, <3>2 DEF Free
    <2>5. (real = Canon(p))' \/ Misled(p)'
      <3>1. CASE \A i \in 0..MaxLinks : Way(p)'[i] = Way(p)[i]
        <4>1. Canon(p)' = Canon(p)
          BY <2>3, <3>1 DEF Canon
        <4>2. CASE real = Canon(p)
          BY <4>1, <4>2
        <4>3. CASE Crosses(relinked, p)
          <5>1. Crosses(relinked, p)'
            BY <2>1, <3>1, <4>3 DEF Crosses
          <5> QED
            BY <5>1 DEF Misled
        <4>4. CASE ~LinkFree(Canon(p))
          <5>1. PICK q : IsPrefix(q, Canon(p)) /\ LinkIn(disk, q)
            BY <4>4, CanonIs, FreeIs, OfDisk
          <5>2. CASE q = e
            <6>1. Crosses(relinked, p)'
              BY <2>1, <2>3, <3>1, <5>1, <5>2, OfDisk DEF Crosses, Canon
            <6> QED
              BY <6>1 DEF Misled
          <5>3. CASE q # e
            <6>1. LinkIn(disk', q)
              BY <5>1, <5>3, LinkStays
            <6>2. q \in OnPath(Canon(p))
              BY <5>1, CanonIs, LinkIs, OnPathIs
            <6>3. ~LinkFree(Canon(p))'
              BY <4>1, <6>1, <6>2, OfDiskNext DEF FreeIn
            <6> QED
              BY <6>3 DEF Misled
          <5> QED
            BY <5>2, <5>3
        <4> QED
          BY <1>2, <2>2, <4>2, <4>3, <4>4 DEF Misled
      <3>2. CASE /\ IsLink(e) \/ IsLink(e)'
                 /\ \E k \in 0..MaxLinks : /\ IsPrefix(e, Way(p)[k])
                                          /\ \A i \in 0..k : Way(p)'[i] = Way(p)[i]
        <4>1. PICK k \in 0..MaxLinks : /\ IsPrefix(e, Way(p)[k])
                                       /\ \A i \in 0..k : Way(p)'[i] = Way(p)[i]
          BY <3>2
        <4>2. k \in 0..k
          OBVIOUS
        <4>3. Crosses(relinked, p)'
          BY <2>1, <3>2, <4>1, <4>2 DEF Crosses
        <4> QED
          BY <4>3 DEF Misled
      <3> QED
        BY <3>1, <3>2, WayStays
    <2> QED
      BY <2>4, <2>5 DEF Resolves
  <1> QED
    BY <1>1, <1>2

LEMMA StandsStays ==
    ASSUME IsTree(disk), NEW e, ChangesAt(e),
           NEW p \in Seq(Names), NEW isdir, Stands(p, isdir)
    PROVE  Stands(p, isdir)'
  <1> DEFINE w == Way(p)
             Meets == \E k \in 0..MaxLinks : IsPrefix(e, w[k])
  <1>1. /\ MaxLinks \in 0..MaxLinks /\ Canon(p) = w[MaxLinks]
        /\ \A i \in 0..MaxLinks : w[i] \in Seq(Names)
    BY CanonIs, CacheConstants DEF Canon
  <1>2. gone \subseteq gone' /\ isdir \in BOOLEAN
    BY DEF ChangesAt, Stands
  <1>3. CASE e \notin DOMAIN disk /\ Meets
    <2>1. PICK k \in 0..MaxLinks : IsPrefix(e, w[k]) /\ \A i \in 0..k : Way(p)'[i] = w[i]
      <3>1. CASE \A i \in 0..MaxLinks : Way(p)'[i] = w[i]
        <4>1. PICK k \in 0..MaxLinks : IsPrefix(e, w[k])
          BY <1>3
        <4>2. \A i \in 0..k : i \in 0..MaxLinks
          BY CacheConstants
        <4> QED
          BY <3>1, <4>1, <4>2
      <3>2. CASE \E k \in 0..MaxLinks : IsPrefix(e, w[k]) /\ \A i \in 0..k : Way(p)'[i] = w[i]
        BY <3>2
      <3> QED
        BY <3>1, <3>2, WayStays
    <2>2. FreeIn(disk, w[k]) /\ w[k] \notin DOMAIN disk \cup {<< >>}
      BY <1>1, <1>3, <2>1, NothingBelow
    <2>3. \A j \in k..MaxLinks : w[j] = w[k]
      BY <2>2, OfDisk, WayFree
    <2> HIDE DEF w
    <2>4. Canon(p) = w[k]
      BY <1>1, <2>3, CacheConstants
    <2>5. ~Exists(p) /\ ~IsDirectory(p)
      BY <2>2, <2>4 DEF Exists, IsDirectory
    <2>6. gone' # {}
      BY <1>2, <2>5 DEF Stands
    <2>7. ASSUME isdir PROVE Removed(p)'
      <3>1. PICK q \in gone, i \in 0..MaxLinks : IsPrefix(q, w[i])
        BY <2>5, <2>7 DEF Stands, Removed, Crosses, w
      <3>2. PICK j \in 0..k : w[j] = w[i]
        <4>1. CASE i <= k
          <5>1. i \in 0..k
            BY <4>1
          <5> QED
            BY <5>1
        <4>2. CASE ~(i <= k)
          <5>1. i \in k..MaxLinks /\ k \in 0..k
            BY <4>2, CacheConstants
          <5> QED
            BY <2>3, <5>1
        <4> QED
          BY <4>1, <4>2
      <3>3. j \in 0..MaxLinks /\ Way(p)'[j] = w[i]
        BY <2>1, <3>2, CacheConstants
      <3>4. q \in gone'
        BY <1>2
      <3> QED
        BY <3>1, <3>3, <3>4 DEF Removed, Crosses
    <2> QED
      BY <1>2, <2>6, <2>7 DEF Stands
  <1>4. CASE e \in DOMAIN disk /\ Meets
    <2>1. e \in gone'
      BY <1>4 DEF ChangesAt
    <2>2. PICK k \in 0..MaxLinks : IsPrefix(e, w[k]) /\ Way(p)'[k] = w[k]
      <3>1. \A k \in 0..MaxLinks : k \in 0..k
        BY CacheConstants
      <3> QED
        BY <1>4, <3>1, WayStays
    <2>3. Removed(p)'
      BY <2>1, <2>2 DEF Removed, Crosses
    <2> QED
      BY <1>2, <2>1, <2>3 DEF Stands
  <1>5. CASE ~Meets
    <2>1. \A i \in 0..MaxLinks : Way(p)'[i] = w[i]
      BY <1>5, WayStays
    <2>2. Canon(p)' = Canon(p)
      BY <1>1, <2>1 DEF Canon
    <2>3. Canon(p) # e
      <3>1. IsPrefix(Canon(p), Canon(p))
        BY <1>1, PrefixIs
      <3> QED
        BY <1>1, <1>5, <3>1
    <2>4. Exists(p) => Exists(p)'
      BY <2>2, <2>3 DEF Exists, ChangesAt
    <2>5. IsDirectory(p) => IsDirectory(p)'
      BY <2>2, <2>3 DEF IsDirectory, ChangesAt
    <2>6. Removed(p) => Removed(p)'
      BY <1>2, <2>1 DEF Removed, Crosses
    <2>7. gone # {} => gone' # {}
      BY <1>2
    <2> QED
      BY <1>2, <2>4, <2>5, <2>6, <2>7 DEF Stands
  <1> QED
    BY <1>3, <1>4, <1>5

-----------------------------------------------------------------------------
(* Every step *)

LEMMA SameDisk ==
    ASSUME UNCHANGED disk
    PROVE  \A p : /\ Way(p)' = Way(p) /\ Canon(p)' = Canon(p)
                  /\ (LinkFree(p)' <=> LinkFree(p))
  <1> TAKE p
  <1>1. Way(p)' = Way(p)
    <2>1. Way(p)' = WayIn(disk', p) /\ Way(p) = WayIn(disk, p)
      BY OfDisk, OfDiskNext
    <2> QED
      BY <2>1
  <1>2. Canon(p)' = Canon(p)
    BY <1>1 DEF Canon
  <1>3. LinkFree(p)' <=> LinkFree(p)
    <2>1. (LinkFree(p)' <=> FreeIn(disk', p)) /\ (LinkFree(p) <=> FreeIn(disk, p))
      BY OfDisk, OfDiskNext
    <2> QED
      BY <2>1 DEF FreeIn, LinkIn
  <1> QED
    BY <1>1, <1>2, <1>3

LEMMA CachesKept ==
    ASSUME CachesInv, changes' \in 0..MaxChanges,
           (\E e : ChangesAt(e)) \/ UNCHANGED <<disk, relinked, gone>>,
           NEW paths \in Maps(Lowered, Seq(Names)), SameNames(paths),
           NEW links \in Maps(Seq(Names), Seq(Names)), AllResolve(links),
           NEW stats \in StatMaps, AllStand(stats),
           path_cache' = paths, readlink_cache' = links, stat_cache' = stats
    PROVE  CachesInv'
  <1>1. IsTree(disk)' /\ (relinked \subseteq Paths)'
    <2>1. CASE \E e : ChangesAt(e)
      <3>1. PICK e : ChangesAt(e)
        BY <2>1
      <3> QED
        BY <3>1, TreeStays DEF CachesInv, ChangesAt
    <2>2. CASE UNCHANGED <<disk, relinked, gone>>
      BY <2>2 DEF CachesInv, IsTree
    <2> QED
      BY <2>1, <2>2
  <1>2. SameNames(path_cache)'
    BY DEF SameNames
  <1>3. AllResolve(readlink_cache)'
    <2> SUFFICES ASSUME NEW p \in DOMAIN links
                 PROVE  Resolves(p, links[p])'
      BY DEF AllResolve
    <2>1. PICK real : real = links[p]
      OBVIOUS
    <2>2. p \in Seq(Names) /\ real \in Seq(Names) /\ Resolves(p, real)
      BY <2>1, MapsIs DEF AllResolve
    <2>3. Resolves(p, real)'
      <3>1. CASE \E e : ChangesAt(e)
        BY <2>2, <3>1, ResolvesStays DEF CachesInv
      <3>2. CASE UNCHANGED <<disk, relinked, gone>>
        <4>1. Chained' <=> Chained
          BY <3>2 DEF Chained, Met, IsLink
        <4>2. Misled(p)' <=> Misled(p)
          BY <3>2, <4>1, SameDisk DEF Misled, Crosses
        <4>3. Free(real)' <=> Free(real)
          BY <3>2, SameDisk DEF Free
        <4> QED
          BY <2>2, <3>2, <4>1, <4>2, <4>3, SameDisk DEF Resolves
      <3> QED
        BY <3>1, <3>2
    <2> QED
      BY <2>1, <2>3
  <1>4. AllStand(stat_cache)'
    <2> SUFFICES ASSUME NEW p \in DOMAIN stats
                 PROVE  Stands(p, stats[p])'
      BY DEF AllStand
    <2>1. PICK isdir : isdir = stats[p]
      OBVIOUS
    <2>2. p \in Seq(Names) /\ Stands(p, isdir)
      BY <2>1, MapsIs DEF AllStand, StatMaps
    <2>3. Stands(p, isdir)'
      <3>1. CASE \E e : ChangesAt(e)
        BY <2>2, <3>1, StandsStays DEF CachesInv
      <3>2. CASE UNCHANGED <<disk, relinked, gone>>
        <4>1. Removed(p)' <=> Removed(p)
          BY <3>2, SameDisk DEF Removed, Crosses
        <4>2. (Exists(p)' <=> Exists(p)) /\ (IsDirectory(p)' <=> IsDirectory(p))
          BY <3>2, SameDisk DEF Exists, IsDirectory
        <4> QED
          BY <2>2, <3>2, <4>1, <4>2 DEF Stands
      <3> QED
        BY <3>1, <3>2
    <2> QED
      BY <2>1, <2>3
  <1> QED
    BY <1>1, <1>2, <1>3, <1>4 DEF CachesInv

\* Where a call makes a directory, or removes something.
LEMMA EntryParent ==
    ASSUME IsTree(disk), NEW p \in Seq(Names), Entry(p) \in Paths
    PROVE  Parent(Entry(p)) = Canon(Parent(p))
  <1> DEFINE c == Canon(Parent(p))
             n == Last(p)
  <1>1. c \in Seq(Names)
    BY ParentType, CanonIs
  <1> HIDE DEF c, n
  <1>2. c \in Seq(Names \cup {n}) /\ n \in Names \cup {n}
    <2>1. \A i \in 1..Len(c) : c[i] \in Names \cup {n}
      BY <1>1
    <2> QED
      BY <1>1, <2>1
  <1>3. Parent(Append(c, n)) = c
    BY <1>2, ParentOfAppend
  <1> QED
    BY <1>3 DEF Entry, c, n

LEMMA StatStep ==
    ASSUME CachesInv, NEW c \in Calls, NEW first, Stat(c, first)
    PROVE  CachesInv'
  <1>1. PICK got \in {GetPath(c.path, first)} :
           /\ path_cache' = got.paths
           /\ stat_cache' = Stated(got.stats, got.real)
           /\ readlink_cache' = got.links
           /\ UNCHANGED <<disk, relinked, gone, changes>>
    BY DEF Stat
  <1>2. c.path \in Seq(Names)
    BY CacheConstants
  <1>3. /\ got.real \in Seq(Names)
        /\ got.paths \in Maps(Lowered, Seq(Names)) /\ SameNames(got.paths)
        /\ got.stats \in StatMaps /\ AllStand(got.stats)
        /\ got.links \in Maps(Seq(Names), Seq(Names)) /\ AllResolve(got.links)
    BY <1>2, GetPathIs
  <1>4. PICK stats : stats = Stated(got.stats, got.real)
    OBVIOUS
  <1>5. stats \in StatMaps /\ AllStand(stats)
    BY <1>3, <1>4, StatedIs
  <1>6. changes' \in 0..MaxChanges /\ UNCHANGED <<disk, relinked, gone>>
    BY <1>1 DEF CachesInv
  <1>7. path_cache' = got.paths /\ readlink_cache' = got.links /\ stat_cache' = stats
    BY <1>1, <1>4
  <1> QED
    BY <1>3, <1>5, <1>6, <1>7, CachesKept

LEMMA MkdirStep ==
    ASSUME CachesInv, NEW c \in Calls, NEW first, Mkdir(c, first)
    PROVE  CachesInv'
  <1>1. PICK got \in {GetPath(c.path, first)} :
           /\ path_cache' = got.paths
           /\ stat_cache' = got.stats
           /\ readlink_cache' = got.links
           /\ disk' = IF Entry(got.real) \in Paths \ DOMAIN disk
                         /\ IsDirectory(Parent(got.real))
                      THEN Put(disk, Entry(got.real), [kind |-> "dir", to |-> << >>])
                      ELSE disk
           /\ UNCHANGED <<relinked, gone, changes>>
    BY DEF Mkdir
  <1>2. c.path \in Seq(Names)
    BY CacheConstants
  <1>3. /\ got.real \in Seq(Names)
        /\ got.paths \in Maps(Lowered, Seq(Names)) /\ SameNames(got.paths)
        /\ got.stats \in StatMaps /\ AllStand(got.stats)
        /\ got.links \in Maps(Seq(Names), Seq(Names)) /\ AllResolve(got.links)
    BY <1>2, GetPathIs
  <1>4. changes' \in 0..MaxChanges
    BY <1>1 DEF CachesInv
  <1>5. (\E e : ChangesAt(e)) \/ UNCHANGED <<disk, relinked, gone>>
    <2>1. CASE Entry(got.real) \in Paths \ DOMAIN disk /\ IsDirectory(Parent(got.real))
      <3>1. PICK e : e = Entry(got.real)
        OBVIOUS
      <3> DEFINE node == [kind |-> "dir", to |-> << >>]
      <3>2. disk' = Put(disk, e, node) /\ e \in Paths /\ e \notin DOMAIN disk
        BY <1>1, <2>1, <3>1
      <3>3. Parent(e) = Canon(Parent(got.real))
        BY <1>3, <2>1, <3>1, EntryParent DEF CachesInv
      <3>4. Parent(e) # << >> => Parent(e) \in DOMAIN disk /\ disk[Parent(e)].kind = "dir"
        BY <2>1, <3>3 DEF IsDirectory, Exists
      <3>5. node \in Nodes /\ node.kind # "link"
        BY DEF Nodes
      <3> HIDE DEF node
      <3>6. /\ DOMAIN disk' = DOMAIN disk \cup {e} /\ disk'[e] = node
            /\ \A q \in DOMAIN disk : q # e => disk'[q] = disk[q]
        BY <3>2 DEF Put
      <3>7. ~IsLink(e) /\ ~IsLink(e)'
        BY <3>2, <3>5, <3>6 DEF IsLink
      <3>8. ChangesAt(e)
        BY <1>1, <3>2, <3>4, <3>5, <3>6, <3>7 DEF ChangesAt, CachesInv
      <3> QED
        BY <3>8
    <2>2. CASE ~(Entry(got.real) \in Paths \ DOMAIN disk /\ IsDirectory(Parent(got.real)))
      BY <1>1, <2>2
    <2> QED
      BY <2>1, <2>2
  <1>6. path_cache' = got.paths /\ readlink_cache' = got.links /\ stat_cache' = got.stats
    BY <1>1
  <1> QED
    BY <1>3, <1>4, <1>5, <1>6, CachesKept

LEMMA DeleteStep ==
    ASSUME CachesInv, NEW c \in Calls, NEW first, Delete(c, first)
    PROVE  CachesInv'
  <1>1. PICK got \in {GetPath(c.path, first)} :
           /\ path_cache' = got.paths
           /\ stat_cache' = Without(got.stats, got.real)
           /\ readlink_cache' = Without(got.links, got.real)
           /\ IF Removable(Entry(got.real))
              THEN /\ disk' = Without(disk, Entry(got.real))
                   /\ gone' = gone \cup {Entry(got.real)}
              ELSE UNCHANGED <<disk, gone>>
           /\ UNCHANGED <<relinked, changes>>
    BY DEF Delete
  <1>2. c.path \in Seq(Names)
    BY CacheConstants
  <1>3. /\ got.real \in Seq(Names)
        /\ got.paths \in Maps(Lowered, Seq(Names)) /\ SameNames(got.paths)
        /\ got.stats \in StatMaps /\ AllStand(got.stats)
        /\ got.links \in Maps(Seq(Names), Seq(Names)) /\ AllResolve(got.links)
    BY <1>2, GetPathIs
  <1>4. changes' \in 0..MaxChanges
    BY <1>1 DEF CachesInv
  <1>5. PICK stats : stats = Without(got.stats, got.real)
    OBVIOUS
  <1>6. stats \in StatMaps /\ AllStand(stats)
    BY <1>3, <1>5, ForgottenIs
  <1>7. PICK links : links = Without(got.links, got.real)
    OBVIOUS
  <1>8. links \in Maps(Seq(Names), Seq(Names)) /\ AllResolve(links)
    BY <1>3, <1>7, UnresolvedIs
  <1>9. (\E e : ChangesAt(e)) \/ UNCHANGED <<disk, relinked, gone>>
    <2>1. CASE Removable(Entry(got.real))
      <3>1. PICK e : e = Entry(got.real)
        OBVIOUS
      <3>2. /\ disk' = Without(disk, e) /\ gone' = gone \cup {e}
            /\ e \in DOMAIN disk /\ ~IsLink(e) /\ \A q \in DOMAIN disk : Parent(q) # e
        BY <1>1, <2>1, <3>1 DEF Removable
      <3>3. /\ DOMAIN disk' = DOMAIN disk \ {e}
            /\ \A q \in DOMAIN disk : q # e => disk'[q] = disk[q]
        BY <3>2 DEF Without
      <3>4. e \in Paths /\ ~IsLink(e)'
        BY <3>2, <3>3 DEF IsLink, CachesInv, IsTree
      <3>5. ChangesAt(e)
        BY <1>1, <3>2, <3>3, <3>4 DEF ChangesAt, CachesInv
      <3> QED
        BY <3>5
    <2>2. CASE ~Removable(Entry(got.real))
      BY <1>1, <2>2
    <2> QED
      BY <2>1, <2>2
  <1>10. path_cache' = got.paths /\ readlink_cache' = links /\ stat_cache' = stats
    BY <1>1, <1>5, <1>7
  <1> QED
    BY <1>3, <1>4, <1>6, <1>8, <1>9, <1>10, CachesKept

\* What other processes do leaves the caches alone.
LEMMA OthersKeep ==
    ASSUME CachesInv, changes' \in 0..MaxChanges, UNCHANGED caches,
           (\E e : ChangesAt(e)) \/ UNCHANGED <<disk, relinked, gone>>
    PROVE  CachesInv'
  <1>1. PICK paths : paths = path_cache
    OBVIOUS
  <1>2. PICK links : links = readlink_cache
    OBVIOUS
  <1>3. PICK stats : stats = stat_cache
    OBVIOUS
  <1>4. /\ paths \in Maps(Lowered, Seq(Names)) /\ SameNames(paths)
        /\ links \in Maps(Seq(Names), Seq(Names)) /\ AllResolve(links)
        /\ stats \in StatMaps /\ AllStand(stats)
    BY <1>1, <1>2, <1>3 DEF CachesInv
  <1>5. path_cache' = paths /\ readlink_cache' = links /\ stat_cache' = stats
    BY <1>1, <1>2, <1>3 DEF caches
  <1> QED
    BY <1>4, <1>5, CachesKept

LEMMA MakeStep ==
    ASSUME CachesInv, NEW p \in Paths, NEW node, Make(p, node),
           node \in Nodes \/ (\E l \in Links : l[1] = p /\ node = Link(l[2]))
    PROVE  CachesInv'
  <1>1. /\ changes < MaxChanges /\ changes' = changes + 1 /\ UNCHANGED caches
        /\ p \in Paths \ DOMAIN disk
        /\ Parent(p) = << >> \/ (Parent(p) \in DOMAIN disk /\ disk[Parent(p)].kind = "dir")
        /\ disk' = Put(disk, p, node)
        /\ relinked' = relinked \cup IF node.kind = "link" THEN {p} ELSE {}
        /\ UNCHANGED gone
    BY DEF Make, Change
  <1>2. changes' \in 0..MaxChanges
    BY <1>1, CacheConstants DEF CachesInv
  <1>3. /\ DOMAIN disk' = DOMAIN disk \cup {p} /\ disk'[p] = node
        /\ \A q \in DOMAIN disk : q # p => disk'[q] = disk[q]
    BY <1>1 DEF Put
  <1>4. IsLink(p) \/ IsLink(p)' => p \in relinked'
    BY <1>1, <1>3 DEF IsLink
  <1>5. ChangesAt(p)
    BY <1>1, <1>3, <1>4 DEF ChangesAt, CachesInv
  <1> QED
    BY <1>1, <1>2, <1>5, OthersKeep

LEMMA UnmakeStep ==
    ASSUME CachesInv, NEW p \in Paths, Unmake(p)
    PROVE  CachesInv'
  <1>1. /\ changes < MaxChanges /\ changes' = changes + 1 /\ UNCHANGED caches
        /\ Removable(p) \/ IsLink(p)
        /\ disk' = Without(disk, p)
        /\ relinked' = relinked \cup IF IsLink(p) THEN {p} ELSE {}
        /\ gone' = gone \cup {p}
    BY DEF Unmake, Change
  <1>2. changes' \in 0..MaxChanges
    BY <1>1, CacheConstants DEF CachesInv
  <1>3. /\ DOMAIN disk' = DOMAIN disk \ {p}
        /\ \A q \in DOMAIN disk : q # p => disk'[q] = disk[q]
    BY <1>1 DEF Without
  <1>4. /\ p \in DOMAIN disk
        /\ \A q \in DOMAIN disk : Parent(q) # p \/ disk[p].kind # "dir"
    BY <1>1 DEF Removable, IsLink
  <1>5. IsLink(p) \/ IsLink(p)' => p \in relinked'
    BY <1>1, <1>3 DEF IsLink
  <1>6. ChangesAt(p)
    BY <1>1, <1>3, <1>4, <1>5 DEF ChangesAt, CachesInv
  <1> QED
    BY <1>1, <1>2, <1>6, OthersKeep

LEMMA CachesInvariant == Spec => []CachesInv
  <1>1. Init => CachesInv
    <2> SUFFICES ASSUME Init PROVE CachesInv
      OBVIOUS
    <2> DEFINE e == << >>
    <2>1. DOMAIN e = {} /\ e = [k \in DOMAIN e |-> e[k]]
      OBVIOUS
    <2>2. path_cache = e /\ stat_cache = e /\ readlink_cache = e
      BY DEF Init
    <2> HIDE DEF e
    <2>3. \A K, V : e \in Maps(K, V)
      BY <2>1, MapsIs
    <2>4. SameNames(path_cache) /\ AllResolve(readlink_cache) /\ AllStand(stat_cache)
      BY <2>1, <2>2 DEF SameNames, AllResolve, AllStand
    <2>5. IsTree(disk) /\ relinked \subseteq Paths /\ changes \in 0..MaxChanges
      BY CacheConstants DEF Init
    <2> QED
      BY <2>2, <2>3, <2>4, <2>5 DEF CachesInv, StatMaps
  <1>2. CachesInv /\ [Next]_vars => CachesInv'
    <2> SUFFICES ASSUME CachesInv, [Next]_vars PROVE CachesInv'
      OBVIOUS
    <2>1. ASSUME NEW c \in Calls, NEW first,
                 Stat(c, first) \/ Mkdir(c, first) \/ Delete(c, first)
          PROVE  CachesInv'
      BY <2>1, StatStep, MkdirStep, DeleteStep
    <2>2. ASSUME NEW p \in Paths, NEW node \in Nodes, Make(p, node)
          PROVE  CachesInv'
      BY <2>2, MakeStep
    <2>3. ASSUME NEW l \in Links, Make(l[1], Link(l[2]))
          PROVE  CachesInv'
      <3>1. l[1] \in Paths
        BY CacheConstants
      <3> QED
        BY <2>3, <3>1, MakeStep
    <2>4. ASSUME NEW p \in Paths, Unmake(p)
          PROVE  CachesInv'
      BY <2>4, UnmakeStep
    <2>5. CASE UNCHANGED vars
      <3>1. changes' \in 0..MaxChanges /\ UNCHANGED caches
            /\ UNCHANGED <<disk, relinked, gone>>
        BY <2>5 DEF vars, CachesInv
      <3> QED
        BY <3>1, OthersKeep
    <2> QED
      BY <2>1, <2>2, <2>3, <2>4, <2>5 DEF Next
  <1> QED
    BY <1>1, <1>2, PTL DEF Spec

-----------------------------------------------------------------------------
(* The theorems *)

\* What exists forms a tree, and stat_cache remembers directories that exist, or
\* did (winevfs_stat, vfs.cpp:46).
THEOREM CachesTypes == Spec => []TypeOK
  <1>1. CachesInv => TypeOK
    BY DEF CachesInv, TypeOK, IsTree, AllStand, Stands
  <1> QED
    BY <1>1, CachesInvariant, PTL

\* A path that readlink_cache resolves is resolved right, whatever is made or
\* removed, unless that was a link on the way the path leads, or links lead to links
\* (cached_readlink, vfs.cpp:220).
THEOREM LinksFollowedTheorem == Spec => []LinksFollowed
  <1>1. CachesInv => LinksFollowed
    BY DEF CachesInv, LinksFollowed, AllResolve, Resolves, Misled
  <1> QED
    BY <1>1, CachesInvariant, PTL

\* A known folder is sent to a directory that exists, or where its records put
\* it, unless something on the path was removed without stat_cache being told
\* (winevfs_get_path_inner, vfs.cpp:1218).
THEOREM FolderThereTheorem == Spec => FolderThere
  <1> DEFINE A == Answered /\ answer'.folder
                  => \/ IsDirectory(answer'.real)
                     \/ answer'.real \in {Backing[f] : f \in DOMAIN Backing}
                     \/ Crosses(gone, answer'.real)
  <1>1. CachesInv /\ [Next]_vars => [A]_vars
    <2> SUFFICES ASSUME CachesInv, Next, Answered, answer'.folder
                 PROVE  A
      BY DEF vars
    <2>1. ASSUME NEW c \in Calls, NEW first,
                 Stat(c, first) \/ Mkdir(c, first) \/ Delete(c, first)
          PROVE  A
      <3>1. PICK got \in {GetPath(c.path, first)} : Answers(c, got)
        BY <2>1 DEF Stat, Mkdir, Delete
      <3>2. c.path \in Seq(Names)
        BY CacheConstants
      <3>3. got.folder => \/ IsDirectory(got.real) \/ Removed(got.real)
                          \/ \E f \in DOMAIN Backing : got.real = Backing[f]
        BY <3>2, GetPathIs
      <3>4. answer'.real = got.real /\ answer'.folder = got.folder
        BY <3>1 DEF Answers
      <3> QED
        BY <3>3, <3>4 DEF Removed
    <2>2. ASSUME NEW p, (\E node : Make(p, node)) \/ Unmake(p)
          PROVE  A
      BY <2>2 DEF Make, Unmake, Change, Answered
    <2> QED
      BY <2>1, <2>2 DEF Next
  <1> QED
    BY <1>1, CachesInvariant, PTL DEF Spec, FolderThere

\* A lookup leads to a path of the name that was asked for, or to the known folder
\* that the path leads to, however stale path_cache is, with the same exceptions
\* (winpath, vfs.cpp:634, and winevfs_get_path_inner, vfs.cpp:1206).
THEOREM RightNameTheorem == Spec => RightName
  <1> DEFINE A == Answered
                  => (LET folder == LowerOf(Canon(answer'.path)) IN
                      \/ IF folder \in DOMAIN Backing
                         THEN LowerOf(answer'.real) = folder \/ answer'.real = Backing[folder]
                         ELSE LowerOf(answer'.real) = LowerOf(answer'.path)
                      \/ Misled(answer'.path))
  <1>1. CachesInv /\ [Next]_vars => [A]_vars
    <2> SUFFICES ASSUME CachesInv, Next, Answered, ~Misled(answer'.path)
                 PROVE  LeadsTo(answer'.path, Canon(answer'.path), answer'.real)
      BY DEF vars, LeadsTo
    <2>1. ASSUME NEW c \in Calls, NEW first,
                 Stat(c, first) \/ Mkdir(c, first) \/ Delete(c, first)
          PROVE  LeadsTo(answer'.path, Canon(answer'.path), answer'.real)
      <3>1. PICK got \in {GetPath(c.path, first)} : Answers(c, got)
        BY <2>1 DEF Stat, Mkdir, Delete
      <3>2. c.path \in Seq(Names)
        BY CacheConstants
      <3>3. \E a : Resolves(c.path, a) /\ LeadsTo(c.path, a, got.real)
        BY <3>2, GetPathIs
      <3>4. answer'.path = c.path /\ answer'.real = got.real
        BY <3>1 DEF Answers
      <3>5. ~Misled(c.path)
        BY <3>4
      <3>6. \A a : Resolves(c.path, a) => a = Canon(c.path)
        BY <3>5 DEF Resolves, Misled
      <3> QED
        BY <3>3, <3>4, <3>6
    <2>2. ASSUME NEW p, (\E node : Make(p, node)) \/ Unmake(p)
          PROVE  FALSE
      BY <2>2 DEF Make, Unmake, Change, Answered
    <2> QED
      BY <2>1, <2>2 DEF Next
  <1> QED
    BY <1>1, CachesInvariant, PTL DEF Spec, RightName
=============================================================================
