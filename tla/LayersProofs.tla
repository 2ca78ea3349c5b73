----------------------------- MODULE LayersProofs ------------------------------
(***************************************************************************)
(* Lazy exploration is not observable to a program that only reads.  The   *)
(* tables of Exploration are at all times what has been read of the real   *)
(* directories: a function of read, which says for each virtual folder the *)
(* records whose directory for it has been scanned (Filled).  Whatever the *)
(* order of the lookups, one that is over has scanned all the directories  *)
(* of a folder or none, and all of those that its own answer depends on;   *)
(* so it answers what Overlay promises, and the tables list and watch      *)
(* every layer.                                                            *)
(***************************************************************************)
EXTENDS ExplorationProofs

-----------------------------------------------------------------------------
(* The layers of a virtual path, of the VFS file rs and the tree files *)

Covers(rs, v) == {i \in DOMAIN rs : IsPrefix(rs[i].virtual, v)}
At(rs, i, v) == Relocate(v, rs[i].virtual, rs[i].real)
Holds(rs, files, v) == {i \in Covers(rs, v) : At(rs, i, v) \in files}
Lays(rs, files, v) == {i \in Covers(rs, v) : At(rs, i, v) \in DirsOf(files)}

LEMMA AtRest ==
    ASSUME NEW rs \in VfsFiles, NEW v \in Path, NEW i \in Covers(rs, v)
    PROVE  /\ i \in DOMAIN rs /\ rs[i].virtual \in Path /\ rs[i].virtual # << >>
           /\ rs[i].real \in Path /\ IsPrefix(rs[i].virtual, v)
           /\ \E a \in Path : v = rs[i].virtual \o a /\ At(rs, i, v) = rs[i].real \o a
  <1> DEFINE from == rs[i].virtual
             to == rs[i].real
             a == SubSeq(v, Len(from) + 1, Len(v))
  <1>1. /\ i \in DOMAIN rs /\ from \in Seq(N) /\ from # << >> /\ to \in Seq(N)
        /\ v \in Seq(N) /\ IsPrefix(from, v)
    BY RecordIs DEF Covers, Path
  <1>2. At(rs, i, v) = to \o a
    BY DEF At, Relocate
  <1> HIDE DEF from, to
  <1>3. a \in Seq(N) /\ v = from \o a
    BY <1>1, PrefixRest
  <1> QED
    BY <1>1, <1>2, <1>3 DEF from, to, Path

LEMMA AtIs ==
    ASSUME NEW rs \in VfsFiles, NEW v \in Path, NEW i \in Covers(rs, v)
    PROVE  /\ At(rs, i, v) \in Path /\ IsPrefix(rs[i].real, At(rs, i, v))
           /\ v # << >> /\ Parent(v) \in Path /\ Last(v) \in N
           /\ v = rs[i].virtual => At(rs, i, v) = rs[i].real
           /\ v # rs[i].virtual =>
                /\ i \in Covers(rs, Parent(v))
                /\ At(rs, i, v) = Append(At(rs, i, Parent(v)), Last(v))
           /\ \A p \in Path : Parent(p) = v /\ p # << >> => i \in Covers(rs, p)
  <1> DEFINE from == rs[i].virtual
             to == rs[i].real
  <1>1. /\ i \in DOMAIN rs /\ from \in Seq(N) /\ from # << >> /\ to \in Seq(N)
        /\ v \in Seq(N) /\ IsPrefix(from, v)
    BY AtRest DEF Path
  <1>2. At(rs, i, v) = Relocate(v, from, to)
    BY DEF At
  <1>3. \A u : i \in Covers(rs, u) <=> IsPrefix(from, u)
    BY <1>1 DEF Covers
  <1>4. At(rs, i, Parent(v)) = Relocate(Parent(v), from, to)
    BY DEF At
  <1> HIDE DEF from, to
  <1>5. v # << >>
    <2>1. from = << >> \/ v # << >>
      <3>1. Len(from) <= Len(v) /\ Len(from) \in Nat
        BY <1>1, PrefixIs
      <3> QED
        BY <1>1, <3>1, EmptySeq
    <2> QED
      BY <1>1, <2>1
  <1>6. /\ Parent(v) \in Seq(N) /\ Last(v) \in N
        /\ v # from => IsPrefix(from, Parent(v))
    BY <1>1, <1>5, ParentLast
  <1>7. /\ Relocate(v, from, to) \in Seq(N) /\ IsPrefix(to, Relocate(v, from, to))
        /\ v = from => Relocate(v, from, to) = to
        /\ v # from => Relocate(v, from, to)
                          = Append(Relocate(Parent(v), from, to), Last(v))
    BY <1>1, RelocateIs
  <1>8. ASSUME NEW p \in Path, Parent(p) = v, p # << >>
        PROVE  IsPrefix(from, p)
    <2>1. p \in Seq(N) /\ IsPrefix(v, p)
      BY <1>8, ParentLast DEF Path
    <2> QED
      BY <1>1, <2>1, PrefixTransitive
  <1> QED
    BY <1>2, <1>3, <1>4, <1>5, <1>6, <1>7, <1>8 DEF from, to, Path

LEMMA AtBelow ==
    ASSUME NEW rs \in VfsFiles, NEW v \in Path, NEW w \in Path, IsPrefix(v, w),
           NEW i \in Covers(rs, v)
    PROVE  /\ i \in Covers(rs, w) /\ IsPrefix(At(rs, i, v), At(rs, i, w))
           /\ Relocate(w, v, At(rs, i, v)) = At(rs, i, w)
  <1> DEFINE from == rs[i].virtual
             to == rs[i].real
             d == At(rs, i, v)
             b == SubSeq(w, Len(v) + 1, Len(w))
  <1>1. /\ i \in DOMAIN rs /\ from \in Seq(N) /\ to \in Seq(N) /\ IsPrefix(from, v)
        /\ \E a \in Path : v = from \o a /\ d = to \o a
    BY AtRest DEF Path
  <1>2. At(rs, i, w) = Relocate(w, from, to)
    BY DEF At
  <1>3. \A u : i \in Covers(rs, u) <=> IsPrefix(from, u)
    BY <1>1 DEF Covers
  <1> HIDE DEF from, to, d
  <1>4. PICK a \in Path : v = from \o a /\ d = to \o a
    BY <1>1
  <1>5. a \in Seq(N) /\ v \in Seq(N) /\ w \in Seq(N) /\ d \in Seq(N)
    BY <1>1, <1>4, PrefixOfConcat DEF Path
  <1>6. b \in Seq(N) /\ w = v \o b
    BY <1>5, PrefixRest
  <1> HIDE DEF b
  <1> DEFINE c == a \o b
  <1>7. w = from \o c /\ d \o b = to \o c /\ c \in Seq(N)
    <2>1. \A s \in Seq(N) : (s \o a) \o b = s \o (a \o b)
      BY <1>5, <1>6, ConcatAssociative
    <2>2. (from \o a) \o b = from \o c /\ (to \o a) \o b = to \o c
      BY <1>1, <2>1
    <2>3. c \in Seq(N)
      BY <1>5, <1>6, PrefixOfConcat
    <2> HIDE DEF c
    <2> QED
      BY <1>4, <1>6, <2>1, <2>2, <2>3
  <1> HIDE DEF c
  <1>8. Relocate(w, from, to) = d \o b /\ Relocate(w, v, d) = d \o b
    <2>1. Relocate(from \o c, from, to) = to \o c
      BY <1>1, <1>7, RelocateRest
    <2>2. Relocate(v \o b, v, d) = d \o b
      BY <1>5, <1>6, RelocateRest
    <2> QED
      BY <1>6, <1>7, <2>1, <2>2
  <1>9. IsPrefix(d, d \o b) /\ IsPrefix(from, w)
    BY <1>1, <1>5, <1>6, PrefixOfConcat, PrefixTransitive
  <1> QED
    BY <1>2, <1>3, <1>8, <1>9 DEF d

LEMMA AtBack ==
    ASSUME NEW rs \in VfsFiles, NEW v \in Path, NEW i \in Covers(rs, v),
           NEW x \in Path, IsPrefix(At(rs, i, v), x)
    PROVE  /\ Relocate(x, At(rs, i, v), v) \in Path
           /\ IsPrefix(v, Relocate(x, At(rs, i, v), v))
           /\ i \in Covers(rs, Relocate(x, At(rs, i, v), v))
           /\ At(rs, i, Relocate(x, At(rs, i, v), v)) = x
  <1> DEFINE d == At(rs, i, v)
             b == SubSeq(x, Len(d) + 1, Len(x))
             w == Relocate(x, d, v)
  <1>1. d \in Seq(N) /\ v \in Seq(N) /\ x \in Seq(N)
    BY AtIs DEF Path
  <1>2. w = v \o b
    BY DEF Relocate
  <1> HIDE DEF d
  <1>3. b \in Seq(N) /\ x = d \o b
    BY <1>1, PrefixRest DEF d
  <1> HIDE DEF b
  <1>4. v \o b \in Seq(N) /\ IsPrefix(v, v \o b)
    BY <1>1, <1>3, PrefixOfConcat
  <1>5. Relocate(v \o b, v, d) = d \o b
    BY <1>1, <1>3, RelocateRest
  <1> HIDE DEF w
  <1>6. w \in Path /\ IsPrefix(v, w) /\ Relocate(w, v, d) = x
    BY <1>2, <1>3, <1>4, <1>5 DEF Path
  <1>7. i \in Covers(rs, w) /\ Relocate(w, v, d) = At(rs, i, w)
    BY <1>6, AtBelow DEF d
  <1> QED
    BY <1>6, <1>7 DEF w, d

LEMMA RealsApart ==
    ASSUME NEW rs \in VfsFiles, NEW i \in DOMAIN rs, NEW j \in DOMAIN rs,
           NEW x \in Path, IsPrefix(rs[i].real, x), IsPrefix(rs[j].real, x)
    PROVE  i = j
  <1> DEFINE a == rs[i].real
             b == rs[j].real
  <1>1. a \in Seq(N) /\ b \in Seq(N) /\ x \in Seq(N)
    BY RecordIs DEF Path
  <1>2. i # j => ~IsPrefix(a, b) /\ ~IsPrefix(b, a)
    BY RecordsType
  <1> HIDE DEF a, b
  <1>3. IsPrefix(a, b) \/ IsPrefix(b, a)
    BY <1>1, PrefixTotal DEF a, b
  <1> QED
    BY <1>2, <1>3

LEMMA AtApart ==
    ASSUME NEW rs \in VfsFiles, NEW v \in Path, NEW i \in Covers(rs, v),
           NEW u \in Path, NEW j \in Covers(rs, u), At(rs, i, v) = At(rs, j, u)
    PROVE  i = j /\ v = u
  <1> DEFINE x == At(rs, i, v)
  <1>1. /\ i \in DOMAIN rs /\ j \in DOMAIN rs /\ x \in Path
        /\ IsPrefix(rs[i].real, x) /\ IsPrefix(rs[j].real, x)
    BY AtIs, AtRest
  <1>2. i = j
    BY <1>1, RealsApart
  <1> DEFINE from == rs[i].virtual
             to == rs[i].real
  <1>3. /\ from \in Seq(N) /\ to \in Seq(N)
        /\ \E a \in Path : v = from \o a /\ x = to \o a
    BY AtRest DEF Path
  <1>3a. \E a \in Path : u = from \o a /\ x = to \o a
    <2>1. \E a \in Path : u = rs[j].virtual \o a /\ At(rs, j, u) = rs[j].real \o a
      BY AtRest
    <2> QED
      BY <1>2, <2>1
  <1> HIDE DEF from, to, x
  <1>4. ASSUME NEW a \in Path, x = to \o a
        PROVE  Relocate(x, to, from) = from \o a
    <2>1. Relocate(to \o a, to, from) = from \o a
      BY <1>3, RelocateRest, SMTT(30) DEF Path
    <2> QED
      BY <1>4, <2>1
  <1> QED
    BY <1>2, <1>3, <1>3a, <1>4

LEMMA PrefixBoth ==
    ASSUME NEW p \in Path, NEW q \in Path, IsPrefix(p, q), IsPrefix(q, p)
    PROVE  p = q
  <1>1. p \in Seq(N) /\ q \in Seq(N)
    BY DEF Path
  <1>2. Len(p) <= Len(q) /\ Len(q) <= Len(p) /\ Len(p) \in Nat /\ Len(q) \in Nat
    BY <1>1, PrefixIs
  <1>3. p = SubSeq(q, 1, Len(p)) /\ SubSeq(q, 1, Len(q)) = q
    BY <1>1, CutWhole
  <1>4. Len(p) = Len(q)
    BY <1>2
  <1> QED
    BY <1>3, <1>4

LEMMA SameFolder ==
    ASSUME NEW rs \in VfsFiles, NEW files \in Trees, LayersAgree(rs, files),
           NEW v \in Path, NEW i \in Covers(rs, v), NEW j \in Covers(rs, v)
    PROVE  rs[i].virtual = rs[j].virtual
  <1> DEFINE a == rs[i].virtual
             b == rs[j].virtual
  <1>1. a \in Seq(N) /\ b \in Seq(N) /\ v \in Seq(N) /\ IsPrefix(a, v) /\ IsPrefix(b, v)
        /\ i \in DOMAIN rs /\ j \in DOMAIN rs
    BY AtRest DEF Path
  <1>2. ~IsStrictPrefix(a, b) /\ ~IsStrictPrefix(b, a)
    BY <1>1 DEF LayersAgree
  <1> HIDE DEF a, b
  <1>3. IsPrefix(a, b) \/ IsPrefix(b, a)
    BY <1>1, PrefixTotal
  <1>4. a = b
    BY <1>2, <1>3 DEF IsStrictPrefix
  <1> QED
    BY <1>4 DEF a, b

\* No record lies below the folder of another.
LEMMA NoNesting ==
    ASSUME NEW rs \in VfsFiles, NEW files \in Trees, LayersAgree(rs, files),
           NEW v \in Path, NEW i \in Covers(rs, v), NEW j \in DOMAIN rs,
           IsPrefix(v, rs[j].virtual)
    PROVE  v = rs[j].virtual
  <1> DEFINE b == rs[j].virtual
  <1>1. b \in Path /\ b \in Seq(N) /\ v \in Seq(N) /\ IsPrefix(v, b)
    BY RecordIs DEF Path
  <1>2. i \in Covers(rs, b)
    BY <1>1, AtBelow
  <1>3. j \in Covers(rs, b)
    <2>1. IsPrefix(b, b)
      BY <1>1, PrefixIs
    <2> QED
      BY <2>1 DEF Covers
  <1>4. rs[i].virtual = b
    BY <1>1, <1>2, <1>3, SameFolder
  <1>5. IsPrefix(b, v)
    BY <1>4, AtRest
  <1> HIDE DEF b
  <1>6. v = b
    BY <1>1, <1>5, PrefixBoth
  <1> QED
    BY <1>6 DEF b

\* What a path is, all of its layers are.
LEMMA Kinds ==
    ASSUME NEW rs \in VfsFiles, NEW files \in Trees, LayersAgree(rs, files),
           NEW v \in Path, NEW i \in Covers(rs, v)
    PROVE  /\ At(rs, i, v) \in files =>
                /\ v \notin DirsOf(files)
                /\ \A j \in Covers(rs, v) : At(rs, j, v) \notin DirsOf(files)
           /\ v \in files => At(rs, i, v) \notin DirsOf(files)
  <1> DEFINE from == rs[i].virtual
             to == rs[i].real
             x == At(rs, i, v)
  <1>1. /\ i \in DOMAIN rs /\ from \in Seq(N) /\ to \in Seq(N) /\ v \in Seq(N)
        /\ IsPrefix(from, v) /\ IsPrefix(to, x) /\ x \in Seq(N)
        /\ \E a \in Path : v = from \o a /\ x = to \o a
    BY AtRest, AtIs DEF Path
  <1>2. PICK a \in Path : v = from \o a /\ x = to \o a
    BY <1>1
  <1>3. a \in Seq(N)
    BY DEF Path
  <1> DEFINE twins == {j \in DOMAIN rs : rs[j].virtual = from}
             spots == {from} \cup {rs[j].real : j \in twins}
  <1>4. \A f \in files : \A y, z \in spots :
           IsPrefix(y, f) => Relocate(f, y, z) \notin DirsOf(files)
    BY <1>1 DEF LayersAgree
  <1>5. from \in spots /\ to \in spots
    BY <1>1
  <1>6. ASSUME NEW j \in Covers(rs, v)
        PROVE  rs[j].real \in spots /\ Relocate(x, to, rs[j].real) = At(rs, j, v)
    <2>1. rs[j].virtual = from /\ j \in DOMAIN rs
      BY SameFolder, AtRest
    <2> DEFINE b == rs[j].real
    <2>2. b \in Seq(N)
      BY <2>1, RecordIs DEF Path
    <2>3. At(rs, j, v) = Relocate(v, from, b)
      BY <2>1 DEF At
    <2>4. b \in spots
      BY <2>1
    <2> HIDE DEF from, to, x, b
    <2>5. \A s, t \in Seq(N) : Relocate(s \o a, s, t) = t \o a
      BY <1>3, RelocateRest
    <2>6. Relocate(from \o a, from, b) = b \o a /\ Relocate(to \o a, to, b) = b \o a
      BY <1>1, <2>2, <2>5
    <2> QED
      BY <1>2, <2>3, <2>4, <2>6 DEF b
  <1>7. Relocate(x, to, from) = v /\ Relocate(v, from, to) = x
    <2> HIDE DEF from, to, x
    <2>1. /\ Relocate(to \o a, to, from) = from \o a
          /\ Relocate(from \o a, from, to) = to \o a
      BY <1>1, <1>3, RelocateRest, SMTT(30)
    <2> QED
      BY <1>2, <2>1
  <1> HIDE DEF from, to, x, twins, spots
  <1>8. /\ x \in files => /\ v \notin DirsOf(files)
                          /\ \A j \in Covers(rs, v) : At(rs, j, v) \notin DirsOf(files)
        /\ v \in files => x \notin DirsOf(files)
    BY <1>1, <1>4, <1>5, <1>6, <1>7
  <1> QED
    BY <1>8 DEF x

\* The directories above a layer are layers.
LEMMA LaysAbove ==
    ASSUME NEW rs \in VfsFiles, NEW files \in Trees,
           NEW w \in Path, NEW i \in Lays(rs, files, w) \cup Holds(rs, files, w),
           NEW v \in Path, i \in Covers(rs, v), IsPrefix(v, w), v # w
    PROVE  i \in Lays(rs, files, v)
  <1> DEFINE x == At(rs, i, w)
             y == At(rs, i, v)
             D == DirsOf(files)
  <1>1. i \in Covers(rs, w) /\ x \in D \cup files
    BY DEF Lays, Holds
  <1>2. x \in Path /\ y \in Path /\ IsPrefix(y, x) /\ x # y
    BY <1>1, AtIs, AtBelow, AtApart
  <1>3. Tree(files, D)
    BY StartTree
  <1> HIDE DEF D, x, y
  <1>4. x \in Seq(N) /\ y \in Seq(N)
    BY <1>2 DEF Path
  <1>5. CASE x \in D
    <2>1. y \in OnPath(x)
      BY <1>2, <1>4, OnPathIs
    <2>2. y \in D
      BY <1>3, <1>5, <2>1 DEF Tree, Dirs
    <2> QED
      BY <2>2 DEF Lays, y, D
  <1>6. CASE x \in files
    <2>1. x # << >> /\ Parent(x) \in D
      BY <1>3, <1>6 DEF Tree
    <2>2. IsPrefix(y, Parent(x)) /\ Parent(x) \in Seq(N)
      BY <1>2, <1>4, <2>1, ParentLast
    <2>3. y \in OnPath(Parent(x))
      BY <1>4, <2>2, OnPathIs
    <2>4. y \in D
      BY <1>3, <2>1, <2>3 DEF Tree, Dirs
    <2> QED
      BY <2>4 DEF Lays, y, D
  <1> QED
    BY <1>1, <1>5, <1>6 DEF x

-----------------------------------------------------------------------------
(* What the tables hold, when read[v] are the records whose directory for the *)
(* folder v has been scanned, and n records have been loaded                  *)

\* The records whose entry for q has been found, if they have one: in the VFS
\* file, or in the directory above.
Seen(rs, read, n, q) ==
    {i \in Covers(rs, q) : IF rs[i].virtual = q THEN i <= n ELSE i \in read[Parent(q)]}

Known(rs, files, read, n, q) == Lays(rs, files, q) \cap Seen(rs, read, n, q)
Mapping(rs, files, read, n, q) == Holds(rs, files, q) \cap Seen(rs, read, n, q)

\* The directories for v of the records in S, in their order.
Lists(rs, paths, S, v) ==
    /\ \A k \in 1..Len(paths) : \E i \in S : paths[k] = At(rs, i, v)
    /\ \A i \in S : At(rs, i, v) \in ToSet(paths)
    /\ \A k, l \in 1..Len(paths) : \A i, j \in S :
          paths[k] = At(rs, i, v) /\ paths[l] = At(rs, j, v) /\ k < l => i < j

\* The names in the directories that have been scanned.
Entries(rs, files, read, v) ==
    {Last(q) : q \in {p \in Path : /\ p # << >> /\ Parent(p) = v
                                   /\ \E i \in read[v] : i \in Holds(rs, files, p)
                                                              \cup Lays(rs, files, p)}}

FilledFolder(rs, files, f, read, n, q) ==
    /\ f.explored <=> read[q] # {}
    /\ Lists(rs, f.paths, Known(rs, files, read, n, q), q)
    /\ Covers(rs, q) # {} => f.children = Entries(rs, files, read, q)
    /\ Covers(rs, q) = {} => \E j \in DOMAIN rs : IsStrictPrefix(q, rs[j].virtual)

FilledFolders(rs, files, folders, read, n) ==
    /\ \A q \in Path : Known(rs, files, read, n, q) # {} => q \in DOMAIN folders
    /\ \A q \in DOMAIN folders :
          /\ Covers(rs, q) # {} => Known(rs, files, read, n, q) # {}
          /\ FilledFolder(rs, files, folders[q], read, n, q)

\* A file is mapped to that of the last record that has been read.
FilledFiles(rs, files, mapped, read, n) ==
    \A q \in Path :
        /\ q \in DOMAIN mapped <=> Mapping(rs, files, read, n, q) # {}
        /\ \A i \in Mapping(rs, files, read, n, q) :
              (\A j \in Mapping(rs, files, read, n, q) : j <= i)
              => mapped[q] = At(rs, i, q)

Noted(rs, files, st, read, n) ==
    \A q \in Path : \A i \in Known(rs, files, read, n, q) :
        At(rs, i, q) \in st.watched /\ At(rs, i, q) \in DOMAIN st.reverse

\* What is scanned is known, and so are the directories on the way to it.
Closed(rs, files, read, n) ==
    \A v \in Path : \A i \in read[v] :
        /\ i \in Known(rs, files, read, n, v)
        /\ \A u \in Path : i \in Covers(rs, u) /\ IsPrefix(u, v) => i \in read[u]

\* Unless the program looks elsewhere, the tables have no empty entry.
Allowed(rs) == IF LooksElsewhere THEN WithBlank(Pairs(rs)) ELSE Pairs(rs)

Filled(rs, files, st, read, n) ==
    /\ Good(st, DirsOf(files), Allowed(rs))
    /\ FilledFiles(rs, files, st.mapped, read, n)
    /\ FilledFolders(rs, files, st.folders, read, n)
    /\ Noted(rs, files, st, read, n)
    /\ Closed(rs, files, read, n)

\* What is true of the VFS file rs and the tree files.
Agreeing(rs, files) ==
    /\ rs \in VfsFiles /\ files \in Trees
    /\ LayersAgree(rs, files) /\ Regular(Allowed(rs)) /\ Tree(files, DirsOf(files))
    /\ \A i \in DOMAIN rs : /\ rs[i].virtual # rs[i].real
                            /\ \A v \in Path : i \in Covers(rs, v) => At(rs, i, v) # v
    /\ Len(rs) \in Nat /\ DOMAIN rs = 1..Len(rs)

LEMMA AllowedIs ==
    ASSUME NEW rs
    PROVE  /\ \A v, d : <<v, d>> \in Allowed(rs) <=> <<v, d>> \in Pairs(rs)
           /\ Regular(Pairs(rs)) => Regular(Allowed(rs))
           /\ Blank \in Allowed(rs) <=> LooksElsewhere
  <1> DEFINE R == Pairs(rs)
  <1>1. Blank \notin R
    <2>1. \A pr \in R : pr \in Path \X Path
      BY DEF Pairs
    <2> HIDE DEF R
    <2>2. \A pr \in R : pr = <<pr[1], pr[2]>>
      BY <2>1
    <2>3. \A v, d : <<v, d>> # Blank
      BY DEF Blank
    <2> QED
      BY <2>2, <2>3
  <1>2. Allowed(rs) = IF LooksElsewhere THEN WithBlank(R) ELSE R
    BY DEF Allowed
  <1> HIDE DEF R
  <1>3. /\ \A v, d : <<v, d>> \in WithBlank(R) <=> <<v, d>> \in R
        /\ Blank \in WithBlank(R)
        /\ Regular(R) => Regular(WithBlank(R))
    BY BlankIs
  <1>4. CASE LooksElsewhere
    <2>1. Allowed(rs) = WithBlank(R)
      BY <1>2, <1>4
    <2> QED
      BY <1>3, <1>4, <2>1, Zenon DEF R
  <1>5. CASE ~LooksElsewhere
    <2>1. Allowed(rs) = R
      BY <1>2, <1>5
    <2> QED
      BY <1>1, <1>5, <2>1, Zenon DEF R
  <1> QED
    BY <1>4, <1>5

LEMMA AgreeingIs ==
    ASSUME Plain, Layered, DOMAIN Suffix = {}, NEW rs \in VfsFiles, NEW files \in Trees
    PROVE  Agreeing(rs, files)
  <1>1. LayersAgree(rs, files)
    BY DEF Layered
  <1>2. Regular(Allowed(rs)) /\ Tree(files, DirsOf(files))
    BY PairsRegular, AllowedIs, StartTree
  <1>3. ASSUME NEW i \in DOMAIN rs PROVE rs[i].virtual # rs[i].real
    <2> DEFINE a == rs[i].virtual
    <2>1. \/ rs[i].real = << >>
          \/ FileName(Parent(a)) # FileName(Parent(rs[i].real))
      BY DEF Plain
    <2>2. a # << >>
      BY RecordIs
    <2> QED
      BY <2>1, <2>2
  <1>4. ASSUME NEW i \in DOMAIN rs, NEW v \in Path, i \in Covers(rs, v)
        PROVE  At(rs, i, v) # v
    <2> DEFINE from == rs[i].virtual
               to == rs[i].real
    <2>1. from \in Seq(N) /\ to \in Seq(N) /\ v \in Seq(N) /\ IsPrefix(from, v)
      BY <1>4, AtRest DEF Path
    <2>2. from # to
      BY <1>3
    <2>3. At(rs, i, v) = Relocate(v, from, to)
      BY DEF At
    <2> HIDE DEF from, to
    <2> QED
      BY <2>1, <2>2, <2>3, RelocateIs
  <1>5. Len(rs) \in Nat /\ DOMAIN rs = 1..Len(rs)
    <2> DEFINE Record == [op : {"R", "W"}, virtual : Seq(Names) \ {<< >>},
                          real : Seq(Names)]
    <2>1. rs \in Seq(Record)
      BY InputTypes
    <2> HIDE DEF Record
    <2> QED
      BY <2>1
  <1> QED
    BY <1>1, <1>2, <1>3, <1>4, <1>5 DEF Agreeing

LEMMA PairAt ==
    ASSUME NEW rs \in VfsFiles, NEW v \in Path
    PROVE  /\ \A i \in Covers(rs, v) : <<v, At(rs, i, v)>> \in Allowed(rs)
           /\ \A d : <<v, d>> \in Allowed(rs) =>
                 \E i \in Covers(rs, v) : d = At(rs, i, v)
  <1>1. ASSUME NEW i \in Covers(rs, v) PROVE <<v, At(rs, i, v)>> \in Allowed(rs)
    <2>1. /\ i \in DOMAIN rs
          /\ \E a \in Path : v = rs[i].virtual \o a /\ At(rs, i, v) = rs[i].real \o a
      BY AtRest
    <2> QED
      BY <2>1, IsPair, AllowedIs
  <1>2. ASSUME NEW d, <<v, d>> \in Allowed(rs)
        PROVE  \E i \in Covers(rs, v) : d = At(rs, i, v)
    BY <1>2, PairRelocates, AllowedIs DEF Covers, At
  <1> QED
    BY <1>1, <1>2

-----------------------------------------------------------------------------
(* add_folder *)

LEMMA SetToSeqSmall ==
    ASSUME NEW d
    PROVE  SetToSeq({}) = << >> /\ SetToSeq({d}) = <<d>>
  <1>1. SetToSeq({}) = << >>
    <2> DEFINE s == SetToSeq({})
    <2>1. s \in Seq({}) /\ ToSet(s) \subseteq {}
      BY FS_EmptySet, SetToSeqIs
    <2> HIDE DEF s
    <2>2. Len(s) = 0
      BY <2>1
    <2> QED
      BY <2>1, <2>2, EmptySeq DEF s
  <1>2. SetToSeq({d}) = <<d>>
    <2> DEFINE Is(f) == f \in [1..1 -> {d}] /\ IsInjective(f)
               s == SetToSeq({d})
    <2>1. Cardinality({d}) = 1
      BY FS_Singleton
    <2>2. s = CHOOSE f \in [1..1 -> {d}] : IsInjective(f)
      BY <2>1 DEF SetToSeq
    <2>3. Is([k \in 1..1 |-> d])
      <3> DEFINE g == [k \in 1..1 |-> d]
      <3>1. g \in [1..1 -> {d}] /\ DOMAIN g = 1..1
        OBVIOUS
      <3>2. \A a, b \in 1..1 : a = b
        OBVIOUS
      <3> HIDE DEF g
      <3>3. Is(g)
        BY <3>1, <3>2 DEF IsInjective
      <3> QED
        BY <3>3 DEF g
    <2>4. Is(s)
      BY <2>2, <2>3
    <2> HIDE DEF s
    <2>5. s \in [1..1 -> {d}]
      BY <2>4
    <2> DEFINE T == {d}
    <2>6. s \in [1..1 -> T] /\ DOMAIN s = 1..1
      BY <2>5
    <2>7. s[1] \in T
      BY <2>6
    <2>8. s[1] = d
      BY <2>7
    <2> HIDE DEF T
    <2>9. s \in Seq(T) /\ Len(s) = 1
      <3> DEFINE n == 1
      <3>1. n \in Nat /\ s \in [1..n -> T] /\ DOMAIN s = 1..n
        BY <2>6
      <3> HIDE DEF n
      <3>2. s \in Seq(T) /\ Len(s) = n
        BY <3>1
      <3> QED
        BY <3>2 DEF n
    <2> QED
      BY <2>8, <2>9 DEF s
  <1> QED
    BY <1>1, <1>2

LEMMA AdjoinOne ==
    ASSUME NEW S, NEW paths \in Seq(S), NEW d \in S
    PROVE  /\ Adjoin(paths, {}) = paths
           /\ d \in ToSet(paths) => Adjoin(paths, {d}) = paths
           /\ d \notin ToSet(paths) => Adjoin(paths, {d}) = Append(paths, d)
  <1>1. paths \o << >> = paths
    BY ConcatEmptySeq
  <1>2. SetToSeq({}) = << >> /\ SetToSeq({d}) = <<d>>
    BY SetToSeqSmall
  <1>3. Append(paths, d) = paths \o <<d>>
    BY AppendIsConcat
  <1>4. {} \ ToSet(paths) = {}
    OBVIOUS
  <1>5. d \in ToSet(paths) => {d} \ ToSet(paths) = {}
    OBVIOUS
  <1>6. d \notin ToSet(paths) => {d} \ ToSet(paths) = {d}
    OBVIOUS
  <1> QED
    BY <1>1, <1>2, <1>3, <1>4, <1>5, <1>6 DEF Adjoin

\* add_folder registers for a folder above v no directory but that of the record.
LEMMA AlignedAt ==
    ASSUME NEW rs, NEW files, Agreeing(rs, files),
           NEW v \in Path, NEW i \in Covers(rs, v), NEW q \in OnPath(v)
    PROVE  /\ i \in Covers(rs, q) => AlignedDest(v, At(rs, i, v), q) \subseteq {At(rs, i, q)}
           /\ i \notin Covers(rs, q) => AlignedDest(v, At(rs, i, v), q) = {}
           /\ q = v => AlignedDest(v, At(rs, i, v), q) = {At(rs, i, v)}
  <1> DEFINE d == At(rs, i, v)
             A == AlignedDest(v, d, q)
             R == Allowed(rs)
  <1>1. rs \in VfsFiles /\ Regular(R)
    BY DEF Agreeing
  <1>2. d \in Path /\ IsPrefix(rs[i].real, d) /\ <<v, d>> \in R /\ d \in Seq(N)
    BY <1>1, AtIs, PairAt DEF Path
  <1>3. q \in Path
    BY OnPathIs DEF Path
  <1> HIDE DEF d, R
  <1>4. /\ \A e \in A : e \in OnPath(d) /\ <<q, e>> \in R
        /\ v = q => d \in A
    BY <1>1, <1>2, AlignedIs
  <1> HIDE DEF A
  <1>5. ASSUME NEW e \in A PROVE i \in Covers(rs, q) /\ e = At(rs, i, q)
    <2>1. PICK j \in Covers(rs, q) : e = At(rs, j, q)
      BY <1>1, <1>3, <1>4, PairAt DEF R
    <2>2. e \in Path /\ IsPrefix(e, d) /\ e \in Seq(N)
      BY <1>2, <1>4, OnPathIs DEF Path
    <2> DEFINE b == rs[j].real
    <2>3. IsPrefix(b, e) /\ b \in Seq(N) /\ j \in DOMAIN rs
      BY <1>1, <1>3, <2>1, AtIs, AtRest DEF Path
    <2>4. IsPrefix(b, d)
      <3> HIDE DEF b
      <3> QED
        BY <1>2, <2>2, <2>3, PrefixTransitive
    <2>5. i = j
      BY <1>1, <1>2, <2>3, <2>4, RealsApart DEF Covers
    <2> QED
      BY <2>1, <2>5
  <1>6. At(rs, i, v) = d /\ AlignedDest(v, At(rs, i, v), q) = A
    BY DEF d, A
  <1>7. q = v => At(rs, i, q) = d
    BY DEF d
  <1> QED
    BY <1>4, <1>5, <1>6, <1>7

\* What has been found of v, and of the directories above.
LEMMA SeenAbove ==
    ASSUME NEW rs, NEW files, Agreeing(rs, files), NEW read, NEW n,
           Closed(rs, files, read, n), NEW m,
           NEW v \in Path, NEW i \in Seen(rs, read, m, v),
           NEW u \in Path, i \in Covers(rs, u), IsPrefix(u, v), u # v
    PROVE  i \in read[u]
  <1> DEFINE from == rs[i].virtual
  <1>1. rs \in VfsFiles /\ i \in Covers(rs, v)
    BY DEF Agreeing, Seen
  <1>2. from \in Path /\ IsPrefix(from, u) /\ v # << >>
    BY <1>1, AtRest, AtIs
  <1>3. from # v
    BY <1>2, PrefixBoth
  <1>4. i \in read[Parent(v)]
    BY <1>3 DEF Seen
  <1>5. Parent(v) \in Path /\ IsPrefix(u, Parent(v))
    BY <1>2, ParentLast DEF Path
  <1> QED
    BY <1>4, <1>5 DEF Closed

LEMMA ListsMore ==
    ASSUME NEW rs \in VfsFiles, NEW v \in Path, NEW paths \in Seq(Path), NEW S,
           Lists(rs, paths, S, v), NEW i \in Covers(rs, v),
           \A j \in S : j \in Covers(rs, v) /\ j < i, i \in Nat
    PROVE  /\ At(rs, i, v) \notin ToSet(paths)
           /\ Lists(rs, Append(paths, At(rs, i, v)), S \cup {i}, v)
  <1> DEFINE d == At(rs, i, v)
             new == Append(paths, d)
             T == S \cup {i}
  <1>1. d \in Path
    BY AtIs
  <1>2. \A j \in T : At(rs, j, v) = d => j = i
    <2> SUFFICES ASSUME NEW j \in S, At(rs, j, v) = d PROVE j = i
      OBVIOUS
    <2> QED
      BY AtApart
  <1>3. ~(i < i)
    OBVIOUS
  <1>4. i \notin S
    BY <1>3
  <1>5. d \notin ToSet(paths)
    <2> SUFFICES ASSUME NEW k \in 1..Len(paths), paths[k] = d PROVE FALSE
      BY DEF ToSet
    <2>1. PICK j \in S : paths[k] = At(rs, j, v)
      BY DEF Lists
    <2> QED
      BY <1>2, <1>4, <2>1
  <1>6. /\ new \in Seq(Path) /\ Len(new) = Len(paths) + 1 /\ new[Len(paths) + 1] = d
        /\ \A k \in 1..Len(paths) : new[k] = paths[k]
        /\ ToSet(new) = ToSet(paths) \cup {d}
        /\ Len(paths) \in Nat
    BY <1>1, AppendElements
  <1> HIDE DEF new
  <1>7. \A k \in 1..Len(new) : \E j \in T : new[k] = At(rs, j, v)
    <2> SUFFICES ASSUME NEW k \in 1..Len(new) PROVE \E j \in T : new[k] = At(rs, j, v)
      OBVIOUS
    <2>1. CASE k \in 1..Len(paths)
      <3>1. \E j \in S : paths[k] = At(rs, j, v)
        BY <2>1 DEF Lists
      <3> QED
        BY <1>6, <2>1, <3>1
    <2>2. CASE k = Len(paths) + 1
      BY <1>6, <2>2
    <2> QED
      BY <1>6, <2>1, <2>2
  <1>8. \A j \in T : At(rs, j, v) \in ToSet(new)
    BY <1>6 DEF Lists
  <1>9. ASSUME NEW k \in 1..Len(new), NEW l \in 1..Len(new), NEW a \in T, NEW b \in T,
               new[k] = At(rs, a, v), new[l] = At(rs, b, v), k < l
        PROVE  a < b
    <2>1. k \in 1..Len(paths) /\ new[k] = paths[k]
      BY <1>6, <1>9
    <2>2. a \in S
      <3>1. new[k] # d
        BY <1>5, <2>1 DEF ToSet
      <3>2. a # i
        BY <1>9, <3>1
      <3> QED
        BY <3>2
    <2>3. CASE l \in 1..Len(paths)
      <3>1. new[l] = paths[l] /\ paths[l] # d
        BY <1>5, <1>6, <2>3 DEF ToSet
      <3>2. b \in S
        BY <1>9, <3>1
      <3> QED
        BY <1>9, <2>1, <2>2, <2>3, <3>1, <3>2 DEF Lists
    <2>4. CASE l = Len(paths) + 1
      <3>1. b = i
        BY <1>2, <1>6, <1>9, <2>4
      <3> QED
        BY <2>2, <3>1
    <2> QED
      BY <1>6, <2>3, <2>4
  <1>10. Lists(rs, new, T, v)
    BY <1>7, <1>8, <1>9 DEF Lists
  <1> QED
    BY <1>5, <1>10 DEF new, d, T

\* What add_folder does to one folder.
AlignedAll(folder, dests, q) == UNION {AlignedDest(folder, d, q) : d \in dests}

LEMMA AddFolderAt ==
    ASSUME NEW R, NEW ds, NEW st, Good(st, ds, R), NEW folder \in Path, NEW dests, NEW q \in Path
    PROVE  /\ q \in DOMAIN AddFolder(st, folder, dests).folders
                 <=> q \in DOMAIN st.folders \cup OnPath(folder)
           /\ q \in DOMAIN st.folders \ OnPath(folder) =>
                AddFolder(st, folder, dests).folders[q] = st.folders[q]
           /\ q \in OnPath(folder) =>
                /\ AddFolder(st, folder, dests).folders[q].explored
                     = FolderAt(st.folders, q).explored
                /\ AddFolder(st, folder, dests).folders[q].paths
                     = Adjoin(FolderAt(st.folders, q).paths, AlignedAll(folder, dests, q))
                /\ AddFolder(st, folder, dests).folders[q].children
                     = FolderAt(st.folders, q).children
                          \cup IF q = folder THEN {} ELSE {folder[Len(q) + 1]}
  <1> DEFINE Aligned(v) == UNION {AlignedDest(folder, d, v) : d \in dests}
             line == OnPath(folder)
             Entry(v) == LET old == FolderAt(st.folders, v) IN
                         IF v \notin line THEN old
                         ELSE [old EXCEPT
                                  !.paths = Adjoin(@, Aligned(v)),
                                  !.children = @ \cup IF v = folder THEN {}
                                                      ELSE {folder[Len(v) + 1]}]
             folders == [v \in DOMAIN st.folders \cup line |-> Entry(v)]
             pairs == UNION {{v} \X Aligned(v) : v \in line}
             reverse == RegisterReverse(st.reverse, folders, pairs)
             new == [st EXCEPT !.folders = folders, !.reverse = reverse]
  <1>1. AddFolder(st, folder, dests) = new
    BY DEF AddFolder
  <1>2. st \in Tables(ds) /\ st.folders \in Maps(Path, Folder(ds)) /\ Leads(st.folders, R)
    BY DEF Good, Tables
  <1>3. FolderAt(st.folders, q) \in Folder(ds)
    BY <1>2, FolderAtIs
  <1>4. /\ DOMAIN folders = DOMAIN st.folders \cup line
        /\ \A v \in DOMAIN st.folders \cup line : folders[v] = Entry(v)
    OBVIOUS
  <1> DEFINE old == FolderAt(st.folders, q)
  <1>5. q \in line =>
          /\ Entry(q).explored = old.explored
          /\ Entry(q).paths = Adjoin(old.paths, Aligned(q))
          /\ Entry(q).children = old.children \cup IF q = folder THEN {}
                                                   ELSE {folder[Len(q) + 1]}
    <2> HIDE DEF old, line, Aligned
    <2> SUFFICES ASSUME q \in line
                 PROVE  LET e == [old EXCEPT !.paths = Adjoin(@, Aligned(q)),
                                             !.children = @ \cup IF q = folder THEN {}
                                                      ELSE {folder[Len(q) + 1]}]
                        IN  /\ e.explored = old.explored
                            /\ e.paths = Adjoin(old.paths, Aligned(q))
                            /\ e.children = old.children \cup IF q = folder THEN {}
                                                   ELSE {folder[Len(q) + 1]}
      BY DEF old
    <2>1. old \in Folder(ds)
      BY <1>3 DEF old
    <2> QED
      BY <2>1 DEF Folder
  <1>6. q \in DOMAIN st.folders \ line => Entry(q) = st.folders[q]
    BY DEF FolderAt
  <1> HIDE DEF folders, Entry, line, reverse, Aligned, pairs
  <1>7. new.folders = folders
    BY <1>2 DEF Tables
  <1> HIDE DEF new
  <1> QED
    BY <1>1, <1>4, <1>5, <1>6, <1>7 DEF line, Aligned, old, AlignedAll

\* The directory of record i for v is met: the record is the one that is loaded, or
\* v has been found before.
Meets(rs, read, n, m, v, i) ==
    /\ v \in Path /\ i \in Seen(rs, read, m, v) /\ n \in Nat /\ m \in {n, n + 1}
    /\ m = n + 1 => i = m /\ v = rs[i].virtual

LEMMA SeenNext ==
    ASSUME NEW rs, NEW files, Agreeing(rs, files), NEW read, NEW n, NEW m, NEW v, NEW i,
           Meets(rs, read, n, m, v, i)
    PROVE  /\ \A q : q # v => Seen(rs, read, m, q) = Seen(rs, read, n, q)
           /\ Seen(rs, read, m, v) = Seen(rs, read, n, v) \cup {i}
           /\ i \notin Seen(rs, read, n, v) => \A j \in Seen(rs, read, n, v) : j < i
  <1> USE DEF Meets
  <1>1. /\ rs \in VfsFiles /\ files \in Trees /\ LayersAgree(rs, files)
        /\ i \in Covers(rs, v)
    BY DEF Agreeing, Seen
  <1>2. \A j \in DOMAIN rs : j \in Nat
    BY DEF Agreeing
  <1>3. CASE m = n
    BY <1>3
  <1>4. CASE m = n + 1
    <2>1. i = n + 1 /\ v = rs[i].virtual
      BY <1>4
    <2>2. \A q : \A j \in Covers(rs, q) : j \in Nat /\ j \in DOMAIN rs
      BY <1>2 DEF Covers
    <2>3. \A j \in Nat : (j <= m <=> j <= n \/ j = m) /\ ~(m <= n)
      BY <1>4
    <2>4. \A j \in DOMAIN rs : j \in Nat /\ (j = m => rs[j].virtual = v)
      BY <1>2, <1>4, <2>1
    <2>5. ASSUME NEW q, q # v
          PROVE  Seen(rs, read, m, q) = Seen(rs, read, n, q)
      BY <2>2, <2>3, <2>4, <2>5 DEF Seen
    <2>6. Seen(rs, read, m, v) = Seen(rs, read, n, v) \cup {i}
      <3>1. ASSUME NEW j \in Covers(rs, v)
            PROVE  j \in Seen(rs, read, m, v) <=> j \in Seen(rs, read, n, v) \/ j = i
        <4>1. rs[j].virtual = v /\ j \in Nat
          BY <1>1, <2>1, <2>2, SameFolder
        <4> QED
          BY <1>4, <2>1, <2>3, <4>1 DEF Seen
      <3>2. /\ Seen(rs, read, m, v) \subseteq Covers(rs, v)
            /\ Seen(rs, read, n, v) \subseteq Covers(rs, v) /\ i \in Covers(rs, v)
        BY DEF Seen
      <3> QED
        BY <3>1, <3>2
    <2>7. ASSUME NEW j \in Seen(rs, read, n, v) PROVE j < i
      <3>1. j \in Covers(rs, v)
        BY DEF Seen
      <3>2. rs[j].virtual = v /\ j \in Nat
        BY <1>1, <2>1, <2>2, <3>1, SameFolder
      <3>3. j <= n
        BY <3>2 DEF Seen
      <3> QED
        BY <2>1, <3>2, <3>3
    <2> QED
      BY <2>5, <2>6, <2>7
  <1> QED
    BY <1>3, <1>4

LEMMA OnPathNext ==
    ASSUME NEW v \in Path, NEW q \in OnPath(v), q # v
    PROVE  \E c \in Path : /\ c # << >> /\ Parent(c) = q /\ IsPrefix(c, v)
                           /\ Last(c) = v[Len(q) + 1]
  <1> DEFINE k == Len(q) + 1
             c == SubSeq(v, 1, k)
  <1>1. v \in Seq(N) /\ q \in Seq(N) /\ IsPrefix(q, v)
    BY OnPathIs DEF Path
  <1>2. Len(q) <= Len(v) /\ Len(q) \in Nat /\ Len(v) \in Nat
        /\ \A j \in 1..Len(q) : q[j] = v[j]
    BY <1>1, PrefixIs
  <1>3. Len(q) # Len(v)
    BY <1>1, <1>2, SeqEqual
  <1>4. k \in 1..Len(v) /\ k - 1 = Len(q) /\ k \in Nat
    BY <1>2, <1>3
  <1>5. c \in Seq(N) /\ c # << >> /\ Parent(c) = SubSeq(v, 1, Len(q))
    BY <1>1, <1>4, CutIs
  <1>6. Parent(c) = q
    BY <1>1, <1>5, CutWhole
  <1>7. Len(c) = k /\ \A j \in 1..k : c[j] = v[j]
    BY <1>1, <1>4
  <1> HIDE DEF c
  <1>8. IsPrefix(c, v) /\ Last(c) = v[k]
    <2>1. IsPrefix(c, v)
      BY <1>1, <1>4, <1>5, <1>7, PrefixIs
    <2>2. Last(c) = c[k]
      BY <1>5, <1>7 DEF Last
    <2> QED
      BY <1>4, <1>7, <2>1, <2>2
  <1> QED
    BY <1>5, <1>6, <1>8 DEF Path

LEMMA NothingListed ==
    ASSUME NEW rs, NEW v
    PROVE  Lists(rs, << >>, {}, v)
  <1>1. Len(<< >>) = 0 /\ 1..0 = {}
    OBVIOUS
  <1>2. 1..Len(<< >>) = {}
    BY <1>1
  <1> QED
    BY <1>2 DEF Lists

\* A folder that is not in the table yet is an empty one.
LEMMA FolderAtFilled ==
    ASSUME NEW rs, NEW files, Agreeing(rs, files), NEW st, NEW read, NEW n,
           Filled(rs, files, st, read, n), NEW q \in Path
    PROVE  /\ FolderAt(st.folders, q).explored <=> read[q] # {}
           /\ Lists(rs, FolderAt(st.folders, q).paths, Known(rs, files, read, n, q), q)
           /\ Covers(rs, q) # {}
                => FolderAt(st.folders, q).children = Entries(rs, files, read, q)
           /\ FolderAt(st.folders, q).paths \in Seq(Path)
           /\ ToSet(FolderAt(st.folders, q).paths) \subseteq DirsOf(files)
  <1> DEFINE f == FolderAt(st.folders, q)
             ds == DirsOf(files)
             R == Allowed(rs)
  <1>1. st.folders \in Maps(Path, Folder(ds)) /\ Leads(st.folders, R) /\ ds \subseteq Path
    BY DEF Filled, Good, Tables, Agreeing, Tree, Dirs
  <1>2. f \in Folder(ds)
    BY <1>1, FolderAtIs
  <1> HIDE DEF ds
  <1>3. f.paths \in Seq(Path) /\ ToSet(f.paths) \subseteq ds
    <2>1. f.paths \in Seq(ds)
      BY <1>2 DEF Folder
    <2> QED
      BY <1>1, <2>1 DEF ToSet
  <1>4. CASE q \in DOMAIN st.folders
    <2>1. FilledFolder(rs, files, st.folders[q], read, n, q) /\ f = st.folders[q]
      BY <1>4 DEF Filled, FilledFolders, FolderAt
    <2> HIDE DEF f
    <2> QED
      BY <1>3, <2>1 DEF FilledFolder, f, ds
  <1>5. CASE q \notin DOMAIN st.folders
    <2>1. f.paths = << >> /\ f.children = {} /\ f.explored = FALSE
      BY <1>5 DEF FolderAt, NewFolder
    <2>2. Known(rs, files, read, n, q) = {}
      BY <1>5 DEF Filled, FilledFolders
    <2>3. read[q] = {}
      BY <2>2 DEF Filled, Closed
    <2>4. Entries(rs, files, read, q) = {}
      BY <2>3 DEF Entries
    <2> HIDE DEF f
    <2> QED
      BY <1>3, <2>1, <2>2, <2>3, <2>4, NothingListed DEF f, ds
  <1> QED
    BY <1>4, <1>5

LEMMA AddFolderFills ==
    ASSUME NEW rs, NEW files, Agreeing(rs, files), NEW st, NEW read, NEW n, NEW m,
           Filled(rs, files, st, read, n),
           NEW v \in Path, NEW i \in Lays(rs, files, v), Meets(rs, read, n, m, v, i),
           NEW q \in OnPath(v)
    PROVE  /\ FilledFolder(rs, files, AddFolder(st, v, {At(rs, i, v)}).folders[q],
                           read, m, q)
           /\ Covers(rs, q) # {} => Known(rs, files, read, m, q) # {}
  <1> DEFINE d == At(rs, i, v)
             dests == {d}
             f == AddFolder(st, v, dests).folders[q]
             old == FolderAt(st.folders, q)
             A == AlignedDest(v, d, q)
             name == IF q = v THEN {} ELSE {v[Len(q) + 1]}
             K(k) == Known(rs, files, read, k, q)
  <1>1. rs \in VfsFiles /\ files \in Trees /\ LayersAgree(rs, files)
    BY DEF Agreeing
  <1>2. /\ i \in Covers(rs, v) /\ q \in Path /\ IsPrefix(q, v) /\ v \in Path
        /\ q \in Seq(N) /\ v \in Seq(N) /\ i \in DOMAIN rs /\ i \in Nat
        /\ i \in Seen(rs, read, m, v)
    BY OnPathIs DEF Lays, Path, Covers, Agreeing, Meets
  <1>3. /\ f.explored = old.explored
        /\ f.paths = Adjoin(old.paths, A)
        /\ f.children = old.children \cup name
    <2>1. AlignedAll(v, dests, q) = A
      BY DEF AlignedAll
    <2>2. Good(st, DirsOf(files), Allowed(rs))
      BY DEF Filled
    <2>3. /\ f.explored = old.explored
          /\ f.paths = Adjoin(old.paths, AlignedAll(v, dests, q))
          /\ f.children = old.children \cup name
      <3> HIDE DEF dests
      <3> QED
        BY <1>2, <2>2, AddFolderAt
    <2> QED
      BY <2>1, <2>3
  <1>4. /\ old.explored <=> read[q] # {}
        /\ Lists(rs, old.paths, K(n), q)
        /\ Covers(rs, q) # {} => old.children = Entries(rs, files, read, q)
        /\ old.paths \in Seq(Path)
    BY <1>2, FolderAtFilled
  <1>5. /\ i \in Covers(rs, q) => A \subseteq {At(rs, i, q)}
        /\ i \notin Covers(rs, q) => A = {}
        /\ q = v => A = {d}
    BY <1>2, AlignedAt
  <1>6. /\ q # v => K(m) = K(n)
        /\ q = v => K(m) = K(n) \cup {i}
        /\ q = v /\ i \notin K(n) => \A j \in K(n) : j \in Covers(rs, v) /\ j < i
    <2>1. /\ \A u : u # v => Seen(rs, read, m, u) = Seen(rs, read, n, u)
          /\ Seen(rs, read, m, v) = Seen(rs, read, n, v) \cup {i}
          /\ i \notin Seen(rs, read, n, v) => \A j \in Seen(rs, read, n, v) : j < i
      BY SeenNext
    <2>2. \A j \in Seen(rs, read, n, v) : j \in Covers(rs, v)
      BY DEF Seen
    <2> QED
      BY <2>1, <2>2 DEF Known
  <1>7. Adjoin(old.paths, {}) = old.paths
    BY <1>2, <1>4, AdjoinOne
  <1>8. At(rs, i, q) \in ToSet(old.paths) /\
           A \subseteq {At(rs, i, q)} => Adjoin(old.paths, A) = old.paths
    <2> SUFFICES ASSUME At(rs, i, q) \in ToSet(old.paths), A \subseteq {At(rs, i, q)}
                 PROVE  Adjoin(old.paths, A) = old.paths
      OBVIOUS
    <2>1. At(rs, i, q) \in Path
      BY <1>4 DEF ToSet
    <2>2. Adjoin(old.paths, {At(rs, i, q)}) = old.paths
      BY <1>4, <2>1, AdjoinOne
    <2>3. A = {} \/ A = {At(rs, i, q)}
      OBVIOUS
    <2> QED
      BY <1>7, <2>2, <2>3
  <1>9. CASE i \in Covers(rs, q) /\ q # v
    <2>1. i \in read[q]
      BY <1>1, <1>2, <1>9, SeenAbove DEF Filled
    <2>2. i \in K(n)
      BY <1>2, <2>1 DEF Filled, Closed
    <2>3. At(rs, i, q) \in ToSet(old.paths)
      BY <1>4, <2>2 DEF Lists
    <2>4. f.paths = old.paths
      BY <1>3, <1>5, <1>8, <1>9, <2>3
    <2>5. name \subseteq Entries(rs, files, read, q)
      <3>1. PICK c \in Path : /\ c # << >> /\ Parent(c) = q /\ IsPrefix(c, v)
                              /\ Last(c) = v[Len(q) + 1]
        BY <1>2, <1>9, OnPathNext
      <3>2. i \in Covers(rs, c)
        BY <1>1, <1>2, <1>9, <3>1, AtIs
      <3>3. i \in Lays(rs, files, c)
        BY <1>1, <1>2, <3>1, <3>2, LaysAbove
      <3> QED
        BY <1>9, <2>1, <3>1, <3>3 DEF Entries
    <2>6. f.children = old.children
      BY <1>3, <1>4, <1>9, <2>5
    <2> HIDE DEF f, old, A, name, K
    <2>7. FilledFolder(rs, files, f, read, m, q)
      BY <1>3, <1>4, <1>6, <1>9, <2>4, <2>6 DEF FilledFolder, K
    <2> QED
      BY <1>6, <1>9, <2>2, <2>7 DEF f, K
  <1>10. CASE q = v
    <2>1. f.paths = Adjoin(old.paths, {d}) /\ f.children = old.children
      BY <1>3, <1>5, <1>10
    <2>2. Lists(rs, f.paths, K(m), q)
      <3>1. CASE i \in K(n)
        <4>1. d \in ToSet(old.paths)
          BY <1>4, <1>10, <3>1 DEF Lists
        <4>2. d \in Path
          BY <1>1, <1>2, AtIs
        <4>3. Adjoin(old.paths, {d}) = old.paths
          BY <1>4, <4>1, <4>2, AdjoinOne
        <4>4. K(m) = K(n)
          BY <1>6, <1>10, <3>1
        <4> QED
          BY <1>4, <2>1, <4>3, <4>4
      <3>2. CASE i \notin K(n)
        <4>1. /\ \A j \in K(n) : j \in Covers(rs, v) /\ j < i
              /\ K(m) = K(n) \cup {i} /\ Lists(rs, old.paths, K(n), v)
          BY <1>4, <1>6, <1>10, <3>2
        <4>2. d \in Path
          BY <1>1, <1>2, AtIs
        <4> HIDE DEF K, old, d
        <4>3. /\ d \notin ToSet(old.paths)
              /\ Lists(rs, Append(old.paths, d), K(n) \cup {i}, v)
          BY <1>1, <1>2, <1>4, <4>1, ListsMore DEF d
        <4>4. Adjoin(old.paths, {d}) = Append(old.paths, d)
          BY <1>4, <4>2, <4>3, AdjoinOne
        <4> QED
          BY <1>10, <2>1, <4>1, <4>3, <4>4
      <3> QED
        BY <3>1, <3>2
    <2>3. i \in K(m)
      BY <1>6, <1>10
    <2> HIDE DEF f, old, A, name, K
    <2>4. FilledFolder(rs, files, f, read, m, q)
      BY <1>2, <1>3, <1>4, <1>10, <2>1, <2>2 DEF FilledFolder, K
    <2> QED
      BY <2>3, <2>4 DEF f, K
  <1>11. CASE i \notin Covers(rs, q)
    <2>1. Covers(rs, q) = {}
      <3> SUFFICES ASSUME NEW j \in Covers(rs, q) PROVE FALSE
        OBVIOUS
      <3>1. j \in Covers(rs, v) /\ IsPrefix(rs[j].virtual, q)
        BY <1>1, <1>2, AtBelow, AtRest
      <3>2. rs[j].virtual = rs[i].virtual
        BY <1>1, <1>2, <3>1, SameFolder
      <3> QED
        BY <1>2, <1>11, <3>1, <3>2 DEF Covers
    <2>2. K(m) = {} /\ K(n) = {}
      BY <2>1 DEF Known, Lays
    <2>3. f.paths = old.paths
      BY <1>3, <1>5, <1>7, <1>11
    <2>4. IsStrictPrefix(q, rs[i].virtual)
      <3> DEFINE b == rs[i].virtual
      <3>1. b \in Seq(N) /\ IsPrefix(b, v)
        BY <1>1, <1>2, AtRest DEF Path
      <3>2. ~IsPrefix(b, q)
        BY <1>2, <1>11 DEF Covers
      <3> HIDE DEF b
      <3>3. IsPrefix(q, b)
        BY <1>2, <3>1, <3>2, PrefixTotal
      <3>4. q # b
        BY <3>2, <3>3
      <3>5. IsStrictPrefix(q, b)
        BY <3>3, <3>4 DEF IsStrictPrefix
      <3> QED
        BY <3>5 DEF b
    <2> HIDE DEF f, old, A, name, K
    <2>5. FilledFolder(rs, files, f, read, m, q)
      BY <1>2, <1>3, <1>4, <2>1, <2>2, <2>3, <2>4 DEF FilledFolder, K
    <2> QED
      BY <2>1, <2>5 DEF f
  <1> QED
    BY <1>9, <1>10, <1>11

\* _add_read_entry of a folder: when a record is loaded, and again each time the
\* folder is explored.
LEMMA AddReadFolderFills ==
    ASSUME NEW rs, NEW files, Agreeing(rs, files), NEW st, NEW read, NEW n, NEW m,
           Filled(rs, files, st, read, n),
           NEW v \in Path, NEW i \in Lays(rs, files, v), Meets(rs, read, n, m, v, i)
    PROVE  Filled(rs, files, AddReadFolder(st, v, At(rs, i, v)), read, m)
  <1> DEFINE d == At(rs, i, v)
             dests == {d}
             added == AddFolder(st, v, dests)
             new == AddReadFolder(st, v, d)
             ds == DirsOf(files)
             R == Allowed(rs)
             K(k, q) == Known(rs, files, read, k, q)
             M(k, q) == Mapping(rs, files, read, k, q)
  <1>1. /\ rs \in VfsFiles /\ Regular(R) /\ Tree(files, ds) /\ Dirs(ds)
        /\ i \in Covers(rs, v) /\ i \in DOMAIN rs /\ d # v /\ d \in ds
    BY DEF Agreeing, Tree, Lays, Covers
  <1>2. /\ Good(st, ds, R) /\ FilledFiles(rs, files, st.mapped, read, n)
        /\ FilledFolders(rs, files, st.folders, read, n)
        /\ Noted(rs, files, st, read, n) /\ Closed(rs, files, read, n)
    BY DEF Filled
  <1>3. <<v, d>> \in R
    BY <1>1, PairAt
  <1>4. Good(new, ds, R)
    <2> HIDE DEF d, new, R, ds
    <2> QED
      BY <1>1, <1>2, <1>3, AddReadFolderIs DEF new
  <1>5. /\ added.mapped = st.mapped /\ added.watched = st.watched
        /\ DOMAIN st.reverse \subseteq DOMAIN added.reverse
        /\ d \in DOMAIN added.reverse
        /\ Good(added, ds, R)
    <2>1. dests \in SUBSET {d} /\ dests # {}
      OBVIOUS
    <2> HIDE DEF d, dests, R, ds
    <2>2. Good(added, ds, R)
      BY <1>1, <1>2, <1>3, <2>1, AddFolderIs
    <2>3. added.mapped = st.mapped /\ added.watched = st.watched
      BY <1>2, AddFolderWatches DEF Good
    <2>5. DOMAIN st.reverse \subseteq DOMAIN added.reverse
      BY <1>1, <1>2, <1>3, <2>1, AddFolderIs
    <2>6. v # d => d \in DOMAIN added.reverse
      BY <1>1, <1>2, <1>3, <2>1, AddFolderIs
    <2> HIDE DEF added
    <2> QED
      BY <1>1, <2>2, <2>3, <2>5, <2>6
  <1>6. /\ new.mapped = st.mapped /\ new.folders = added.folders
        /\ new.watched = st.watched \cup {d}
        /\ DOMAIN st.reverse \subseteq DOMAIN new.reverse /\ d \in DOMAIN new.reverse
    <2>1. new = [added EXCEPT !.watched = @ \cup {d}]
      BY DEF AddReadFolder
    <2> HIDE DEF new, added, dests
    <2> QED
      BY <1>5, <2>1 DEF Good, Tables
  <1>7. /\ \A q : q # v => Seen(rs, read, m, q) = Seen(rs, read, n, q)
        /\ Seen(rs, read, m, v) = Seen(rs, read, n, v) \cup {i}
    BY SeenNext
  <1>8. /\ \A q : q # v => K(m, q) = K(n, q)
        /\ K(m, v) = K(n, v) \cup {i}
    BY <1>7 DEF Known
  <1>9. \A q : M(m, q) = M(n, q)
    <2>1. i \notin Holds(rs, files, v)
      BY <1>1 DEF Holds, Tree
    <2> QED
      BY <1>7, <2>1 DEF Mapping
  <1>10. FilledFiles(rs, files, new.mapped, read, m)
    <2> HIDE DEF new
    <2> QED
      BY <1>2, <1>6, <1>9 DEF FilledFiles
  <1>11. ASSUME NEW q \in Path
         PROVE  /\ q \in DOMAIN added.folders <=> q \in DOMAIN st.folders \cup OnPath(v)
                /\ q \in DOMAIN st.folders \ OnPath(v) => added.folders[q] = st.folders[q]
    <2> HIDE DEF added, dests
    <2> QED
      BY <1>2, AddFolderAt DEF added
  <1>12. v \in OnPath(v)
    BY OnPathIs DEF Path
  <1>13. \A q \in OnPath(v) :
            /\ FilledFolder(rs, files, added.folders[q], read, m, q)
            /\ Covers(rs, q) # {} => K(m, q) # {}
    BY AddFolderFills
  <1>14. \A q \in DOMAIN added.folders : q \in Path
    BY <1>5, MapsIs DEF Good, Tables
  <1> HIDE DEF added, new, dests
  <1>15. FilledFolders(rs, files, added.folders, read, m)
    <2>1. ASSUME NEW q \in Path, K(m, q) # {} PROVE q \in DOMAIN added.folders
      <3>1. q = v \/ q \in DOMAIN st.folders
        BY <1>2, <1>8, <2>1 DEF FilledFolders
      <3> QED
        BY <1>11, <1>12, <3>1
    <2>2. ASSUME NEW q \in DOMAIN added.folders
          PROVE  /\ Covers(rs, q) # {} => K(m, q) # {}
                 /\ FilledFolder(rs, files, added.folders[q], read, m, q)
      <3>1. CASE q \in OnPath(v)
        BY <1>13, <3>1
      <3>2. CASE q \notin OnPath(v)
        <4>1. /\ q \in DOMAIN st.folders /\ added.folders[q] = st.folders[q]
              /\ q # v
          BY <1>11, <1>12, <1>14, <3>2
        <4>2. K(m, q) = K(n, q)
          BY <1>8, <4>1
        <4>3. /\ Covers(rs, q) # {} => K(n, q) # {}
              /\ FilledFolder(rs, files, st.folders[q], read, n, q)
          BY <1>2, <4>1 DEF FilledFolders
        <4> QED
          BY <4>1, <4>2, <4>3 DEF FilledFolder
      <3> QED
        BY <3>1, <3>2
    <2> QED
      BY <2>1, <2>2 DEF FilledFolders
  <1>16. Noted(rs, files, new, read, m)
    <2> SUFFICES ASSUME NEW q \in Path, NEW j \in K(m, q)
                 PROVE  At(rs, j, q) \in new.watched /\ At(rs, j, q) \in DOMAIN new.reverse
      BY DEF Noted
    <2>1. CASE j \in K(n, q)
      BY <1>2, <1>6, <2>1 DEF Noted
    <2>2. CASE j \notin K(n, q)
      <3>1. q = v /\ j = i
        BY <1>8, <2>2
      <3> QED
        BY <1>6, <3>1
    <2> QED
      BY <2>1, <2>2
  <1>17. Closed(rs, files, read, m)
    BY <1>2, <1>8 DEF Closed
  <1>18. Filled(rs, files, new, read, m)
    BY <1>4, <1>6, <1>10, <1>15, <1>16, <1>17 DEF Filled
  <1> QED
    BY <1>18 DEF new

\* _add_read_entry of a file: what it does to one folder.
LEMMA AddReadEntryAt ==
    ASSUME NEW R, Regular(R), NEW ds, Dirs(ds), NEW st, Good(st, ds, R),
           NEW v \in Path, v # << >>, NEW d \in Path, <<v, d>> \in R
    PROVE  /\ AddReadEntry(st, v, d).mapped = Put(st.mapped, v, d)
           /\ DOMAIN st.reverse \subseteq DOMAIN AddReadEntry(st, v, d).reverse
           /\ DOMAIN AddReadEntry(st, v, d).folders
                = DOMAIN AddFolder(st, Parent(v), {}).folders
           /\ \A q \in DOMAIN AddReadEntry(st, v, d).folders :
                /\ q # Parent(v) => AddReadEntry(st, v, d).folders[q]
                                      = AddFolder(st, Parent(v), {}).folders[q]
                /\ AddReadEntry(st, v, d).folders[q].explored
                     = AddFolder(st, Parent(v), {}).folders[q].explored
                /\ AddReadEntry(st, v, d).folders[q].paths
                     = AddFolder(st, Parent(v), {}).folders[q].paths
  <1> DEFINE p == Parent(v)
             parents == AddFolder(st, p, {})
             mapped == Put(parents.mapped, v, d)
             c == parents.folders[p].children \cup {Last(v)}
             folders == [parents.folders EXCEPT ![p].children = c]
             new == [parents EXCEPT !.mapped = mapped, !.folders = folders]
  <1>1. AddReadEntry(st, v, d) = new
    BY DEF AddReadEntry
  <1>2. p \in Path
    <2>1. v \in Seq(N)
      BY DEF Path
    <2> QED
      BY <2>1, ParentLast DEF Path
  <1>3. Good(parents, ds, R) /\ DOMAIN st.reverse \subseteq DOMAIN parents.reverse
    <2> DEFINE dests == {}
    <2>1. dests \in SUBSET {v} /\ dests = {}
      OBVIOUS
    <2> HIDE DEF p, dests
    <2>2. Good(AddFolder(st, p, dests), ds, R)
      BY <1>2, <2>1, AddFolderIs
    <2>3. DOMAIN st.reverse \subseteq DOMAIN AddFolder(st, p, dests).reverse
      BY <1>2, <2>1, AddFolderIs
    <2> QED
      BY <2>2, <2>3 DEF dests
  <1>4. parents.mapped = st.mapped
    BY AddFolderWatches DEF Good
  <1>5. parents \in Tables(ds) /\ parents.folders \in Maps(Path, Folder(ds))
    BY <1>3 DEF Good, Tables
  <1> HIDE DEF parents, p, c
  <1>6. DOMAIN folders = DOMAIN parents.folders
    OBVIOUS
  <1>7. ASSUME NEW q \in DOMAIN parents.folders
        PROVE  /\ q # p => folders[q] = parents.folders[q]
               /\ folders[q].explored = parents.folders[q].explored
               /\ folders[q].paths = parents.folders[q].paths
    <2>1. parents.folders[q] \in Folder(ds)
      BY <1>5, MapsIs
    <2>2. CASE q = p
      BY <2>1, <2>2 DEF Folder
    <2>3. CASE q # p
      BY <2>3
    <2> QED
      BY <2>2, <2>3
  <1> HIDE DEF folders, mapped
  <1>8. new.folders = folders /\ new.mapped = mapped /\ new.reverse = parents.reverse
    BY <1>5 DEF Tables
  <1> HIDE DEF new
  <1> QED
    BY <1>1, <1>3, <1>4, <1>6, <1>7, <1>8 DEF parents, p, mapped

\* A record of a file, when it is loaded.
LEMMA AddReadEntryFills ==
    ASSUME NEW rs, NEW files, Agreeing(rs, files), NEW st, NEW read, NEW n, NEW m,
           Filled(rs, files, st, read, n),
           NEW v \in Path, NEW i \in Holds(rs, files, v), v = rs[i].virtual,
           Meets(rs, read, n, m, v, i)
    PROVE  Filled(rs, files, AddReadEntry(st, v, At(rs, i, v)), read, m)
  <1> DEFINE d == At(rs, i, v)
             p == Parent(v)
             none == {}
             added == AddFolder(st, p, none)
             new == AddReadEntry(st, v, d)
             ds == DirsOf(files)
             R == Allowed(rs)
             K(k, q) == Known(rs, files, read, k, q)
             M(k, q) == Mapping(rs, files, read, k, q)
  <1>1. /\ rs \in VfsFiles /\ files \in Trees /\ LayersAgree(rs, files)
        /\ Regular(R) /\ Tree(files, ds) /\ Dirs(ds)
        /\ i \in Covers(rs, v) /\ i \in DOMAIN rs /\ d \in files /\ v \in Seq(N)
    BY DEF Agreeing, Tree, Holds, Covers, Path
  <1>2. /\ Good(st, ds, R) /\ FilledFiles(rs, files, st.mapped, read, n)
        /\ FilledFolders(rs, files, st.folders, read, n)
        /\ Noted(rs, files, st, read, n) /\ Closed(rs, files, read, n)
    BY DEF Filled
  <1>3. <<v, d>> \in R /\ d \in Path /\ v # << >> /\ p \in Path /\ d = rs[i].real
    BY <1>1, PairAt, AtIs
  <1>4. Good(new, ds, R) /\ new.watched = st.watched
    <2> HIDE DEF d, new, R, ds
    <2> QED
      BY <1>1, <1>2, <1>3, AddReadEntryIs DEF new
  <1>5. /\ new.mapped = Put(st.mapped, v, d)
        /\ DOMAIN st.reverse \subseteq DOMAIN new.reverse
        /\ DOMAIN new.folders = DOMAIN added.folders
        /\ \A q \in DOMAIN new.folders :
              /\ q # p => new.folders[q] = added.folders[q]
              /\ new.folders[q].explored = added.folders[q].explored
              /\ new.folders[q].paths = added.folders[q].paths
    <2> HIDE DEF d, R, ds
    <2> QED
      BY <1>1, <1>2, <1>3, AddReadEntryAt
  <1>6. /\ \A q : q # v => Seen(rs, read, m, q) = Seen(rs, read, n, q)
        /\ Seen(rs, read, m, v) = Seen(rs, read, n, v) \cup {i}
    BY SeenNext
  <1>7. \A q : K(m, q) = K(n, q)
    <2>1. i \notin Lays(rs, files, v)
      BY <1>1 DEF Lays, Tree
    <2> QED
      BY <1>6, <2>1 DEF Known
  <1>8. M(m, v) = {i} /\ \A q : q # v => M(m, q) = M(n, q)
    <2>1. ASSUME NEW j \in Covers(rs, v) PROVE j = i
      <3>1. rs[j].virtual = rs[i].virtual /\ j \in DOMAIN rs
        BY <1>1, <2>1, SameFolder DEF Covers
      <3>2. {k \in DOMAIN rs : rs[k].virtual = rs[i].virtual} = {i}
        BY <1>1, <1>3 DEF LayersAgree
      <3> QED
        BY <3>1, <3>2
    <2>2. M(m, v) \subseteq Covers(rs, v) /\ i \in M(m, v)
      BY <1>6 DEF Mapping, Holds
    <2> QED
      BY <1>6, <2>1, <2>2 DEF Mapping
  <1>9. FilledFiles(rs, files, new.mapped, read, m)
    <2>1. /\ DOMAIN new.mapped = DOMAIN st.mapped \cup {v} /\ new.mapped[v] = d
          /\ \A q \in DOMAIN st.mapped : q # v => new.mapped[q] = st.mapped[q]
      <3> HIDE DEF new, d
      <3> QED
        BY <1>5 DEF Put
    <2>2. ASSUME NEW q \in Path
          PROVE  /\ q \in DOMAIN new.mapped <=> M(m, q) # {}
                 /\ \A j \in M(m, q) : (\A k \in M(m, q) : k <= j)
                        => new.mapped[q] = At(rs, j, q)
      <3> HIDE DEF new, d, M
      <3>1. CASE q = v
        BY <1>8, <2>1, <3>1 DEF d
      <3>2. CASE q # v
        <4>1. /\ q \in DOMAIN st.mapped <=> M(n, q) # {}
              /\ \A j \in M(n, q) : (\A k \in M(n, q) : k <= j)
                        => st.mapped[q] = At(rs, j, q)
          BY <1>2 DEF FilledFiles, M
        <4>2. M(m, q) = M(n, q)
          BY <1>8, <3>2
        <4> QED
          BY <2>1, <3>2, <4>1, <4>2
      <3> QED
        BY <3>1, <3>2
    <2> HIDE DEF new
    <2> QED
      BY <2>2 DEF FilledFiles
  <1>10. ASSUME NEW q \in OnPath(p)
         PROVE  Covers(rs, q) = {} /\ IsStrictPrefix(q, v) /\ q \in Path
    <2>1. q \in Path /\ IsPrefix(q, p)
      BY <1>3, OnPathIs DEF Path
    <2>2. /\ IsPrefix(p, v) /\ Len(p) = Len(v) - 1 /\ p \in Seq(N) /\ q \in Seq(N)
          /\ Len(v) \in Nat
      BY <1>1, <1>3, <2>1, ParentLast DEF Path
    <2>3. IsPrefix(q, v) /\ Len(q) <= Len(p)
      BY <1>1, <2>1, <2>2, PrefixTransitive, PrefixIs
    <2>4. q # v
      BY <2>2, <2>3
    <2>5. ASSUME NEW j \in Covers(rs, q) PROVE FALSE
      BY <1>1, <2>1, <2>3, <2>4, NoNesting
    <2> QED
      BY <2>1, <2>3, <2>4, <2>5 DEF IsStrictPrefix
  <1>11. ASSUME NEW q \in Path
         PROVE  /\ q \in DOMAIN added.folders <=> q \in DOMAIN st.folders \cup OnPath(p)
                /\ q \in DOMAIN st.folders \ OnPath(p) => added.folders[q] = st.folders[q]
                /\ q \in OnPath(p) =>
                     /\ added.folders[q].explored = FolderAt(st.folders, q).explored
                     /\ added.folders[q].paths
                          = Adjoin(FolderAt(st.folders, q).paths, AlignedAll(p, none, q))
    <2> HIDE DEF added, p, none
    <2> QED
      BY <1>2, <1>3, AddFolderAt DEF added
  <1>12. \A q : AlignedAll(p, none, q) = {}
    BY DEF AlignedAll
  <1>13. p \in OnPath(p)
    BY <1>3, OnPathIs DEF Path
  <1>14. \A q \in DOMAIN new.folders : q \in Path
    <2> HIDE DEF new
    <2> QED
      BY <1>4, MapsIs DEF Good, Tables
  <1> HIDE DEF added, new, none
  <1>15. FilledFolders(rs, files, new.folders, read, m)
    <2>1. ASSUME NEW q \in Path, K(m, q) # {} PROVE q \in DOMAIN new.folders
      <3>1. q \in DOMAIN st.folders
        BY <1>2, <1>7, <2>1 DEF FilledFolders
      <3> QED
        BY <1>5, <1>11, <3>1
    <2>2. ASSUME NEW q \in DOMAIN new.folders
          PROVE  /\ Covers(rs, q) # {} => K(m, q) # {}
                 /\ FilledFolder(rs, files, new.folders[q], read, m, q)
      <3>1. CASE q \in OnPath(p)
        <4> DEFINE old == FolderAt(st.folders, q)
                   f == new.folders[q]
        <4>1. /\ old.explored <=> read[q] # {}
              /\ Lists(rs, old.paths, K(n, q), q)
              /\ old.paths \in Seq(Path)
          BY <1>14, FolderAtFilled
        <4>2. f.explored = old.explored /\ f.paths = Adjoin(old.paths, {})
          BY <1>5, <1>11, <1>12, <1>14, <3>1
        <4>3. Adjoin(old.paths, {}) = old.paths
          BY <1>3, <4>1, AdjoinOne
        <4>4. Covers(rs, q) = {} /\ IsStrictPrefix(q, v)
          BY <1>10, <3>1
        <4> HIDE DEF f, old
        <4>5. FilledFolder(rs, files, f, read, m, q)
          BY <1>1, <1>7, <4>1, <4>2, <4>3, <4>4 DEF FilledFolder
        <4> QED
          BY <4>4, <4>5 DEF f
      <3>2. CASE q \notin OnPath(p)
        <4>1. q \in DOMAIN st.folders /\ new.folders[q] = st.folders[q]
          BY <1>5, <1>11, <1>13, <1>14, <3>2
        <4>2. /\ Covers(rs, q) # {} => K(n, q) # {}
              /\ FilledFolder(rs, files, st.folders[q], read, n, q)
          BY <1>2, <4>1 DEF FilledFolders
        <4> QED
          BY <1>7, <4>1, <4>2 DEF FilledFolder
      <3> QED
        BY <3>1, <3>2
    <2> QED
      BY <2>1, <2>2 DEF FilledFolders
  <1>16. Noted(rs, files, new, read, m)
    BY <1>2, <1>4, <1>5, <1>7 DEF Noted
  <1>17. Closed(rs, files, read, m)
    BY <1>2, <1>7 DEF Closed
  <1>18. Filled(rs, files, new, read, m)
    BY <1>4, <1>9, <1>15, <1>16, <1>17 DEF Filled
  <1> QED
    BY <1>18 DEF new

-----------------------------------------------------------------------------
(* winevfs_add_read_directory *)

\* What lies in the directory of v of one record is found at paths below v.
LEMMA FoundAt ==
    ASSUME NEW rs \in VfsFiles, NEW u \in Path, NEW i \in Covers(rs, u),
           NEW v \in Path, IsPrefix(u, v)
    PROVE  /\ \A x \in Path : x # << >> /\ Parent(x) = At(rs, i, v) =>
                 LET q == Relocate(x, At(rs, i, u), u) IN
                 /\ q \in Path /\ q # << >> /\ Parent(q) = v
                 /\ i \in Covers(rs, q) /\ At(rs, i, q) = x
           /\ \A q \in Path : q # << >> /\ Parent(q) = v =>
                 /\ i \in Covers(rs, q) /\ At(rs, i, q) \in Path
                 /\ At(rs, i, q) # << >> /\ Parent(At(rs, i, q)) = At(rs, i, v)
                 /\ Relocate(At(rs, i, q), At(rs, i, u), u) = q
  <1> DEFINE to == rs[i].real
             from == rs[i].virtual
             y == At(rs, i, v)
             d == At(rs, i, u)
  <1>1. /\ i \in Covers(rs, v) /\ IsPrefix(d, y) /\ y \in Path /\ IsPrefix(to, y)
        /\ d \in Path
    BY AtBelow, AtIs
  <1>2. to \in Path /\ from \in Path /\ IsPrefix(from, v) /\ i \in DOMAIN rs
    BY <1>1, AtRest
  <1>3. ASSUME NEW q \in Path, q # << >>, Parent(q) = v
        PROVE  /\ i \in Covers(rs, q) /\ At(rs, i, q) \in Path
               /\ At(rs, i, q) # << >> /\ Parent(At(rs, i, q)) = y
               /\ IsPrefix(v, q)
    <2>1. i \in Covers(rs, q)
      BY <1>1, <1>3, AtIs
    <2>2. /\ q \in Seq(N) /\ v \in Seq(N) /\ IsPrefix(v, q) /\ Len(v) = Len(q) - 1
          /\ Len(q) \in Nat
      BY <1>3, ParentLast DEF Path
    <2>3. q # from
      <3>1. Len(from) <= Len(v) /\ Len(from) \in Nat
        BY <1>2, <2>2, PrefixIs DEF Path
      <3> QED
        BY <2>2, <3>1
    <2>4. At(rs, i, q) = Append(y, Last(q)) /\ Last(q) \in N
      BY <1>3, <2>1, <2>3, AtIs
    <2> HIDE DEF y
    <2> QED
      BY <1>1, <2>1, <2>2, <2>4, ParentOfAppend DEF Path
  <1>4. ASSUME NEW x \in Path, x # << >>, Parent(x) = y
        PROVE  LET q == Relocate(x, d, u) IN
               /\ q \in Path /\ q # << >> /\ Parent(q) = v
               /\ i \in Covers(rs, q) /\ At(rs, i, q) = x
    <2> DEFINE q == Relocate(x, d, u)
    <2>1. /\ x \in Seq(N) /\ y \in Seq(N) /\ d \in Seq(N) /\ to \in Seq(N)
          /\ IsPrefix(y, x) /\ Len(y) = Len(x) - 1 /\ Len(x) \in Nat
      BY <1>1, <1>2, <1>4, ParentLast DEF Path
    <2>2. IsPrefix(d, x) /\ Len(to) <= Len(y) /\ Len(to) \in Nat
      <3> HIDE DEF d, y, to
      <3> QED
        BY <1>1, <2>1, PrefixTransitive, PrefixIs
    <2>3. q \in Path /\ i \in Covers(rs, q) /\ At(rs, i, q) = x
      BY <2>2, AtBack
    <2>4. q # from
      <3>1. q = from => x = to
        BY <2>3, AtIs
      <3> QED
        BY <2>1, <2>2, <3>1
    <2> HIDE DEF q
    <2>5. /\ q # << >> /\ Parent(q) \in Path /\ i \in Covers(rs, Parent(q))
          /\ x = Append(At(rs, i, Parent(q)), Last(q)) /\ Last(q) \in N
      BY <2>3, <2>4, AtIs
    <2>6. At(rs, i, Parent(q)) \in Path
      BY <2>5, AtIs
    <2>7. At(rs, i, Parent(q)) = y
      BY <1>4, <2>5, <2>6, ParentOfAppend DEF Path
    <2>8. Parent(q) = v
      BY <1>1, <2>5, <2>7, AtApart
    <2> QED
      BY <2>3, <2>5, <2>8 DEF q
  <1>5. ASSUME NEW q \in Path, q # << >>, Parent(q) = v
        PROVE  Relocate(At(rs, i, q), d, u) = q
    <2> DEFINE x == At(rs, i, q)
               r == Relocate(x, d, u)
    <2>1. /\ i \in Covers(rs, q) /\ x \in Path /\ x # << >> /\ Parent(x) = y
      BY <1>3, <1>5
    <2> HIDE DEF x
    <2>2. r \in Path /\ i \in Covers(rs, r) /\ At(rs, i, r) = x
      BY <1>4, <2>1
    <2> HIDE DEF r
    <2>3. r = q
      BY <2>1, <2>2, AtApart DEF x
    <2> QED
      BY <2>3 DEF r, x
  <1> QED
    BY <1>3, <1>4, <1>5

\* The folders S that one call scans for record i, and what lies in them.
Scans(rs, files, S, u, i) ==
    /\ u \in S
    /\ \A w \in S : w \in Path /\ IsPrefix(u, w) /\ i \in Lays(rs, files, w)
    /\ \A w \in S, v \in Path : IsPrefix(u, v) /\ IsPrefix(v, w) => v \in S

FilesOf(rs, files, S, i) ==
    {q \in Path : q # << >> /\ Parent(q) \in S /\ i \in Holds(rs, files, q)}
FoldersOf(rs, files, S, i) ==
    {q \in Path : q # << >> /\ Parent(q) \in S /\ i \in Lays(rs, files, q)}

LEMMA EntriesOf ==
    ASSUME NEW rs, Agreeing(rs, disk), dirs = DirsOf(disk), NEW u \in Path, NEW S, NEW i,
           Scans(rs, disk, S, u, i)
    PROVE  /\ UNION {{Relocate(x, At(rs, i, u), u) :
                         x \in FilesIn(Relocate(v, u, At(rs, i, u)))} : v \in S}
                = FilesOf(rs, disk, S, i)
           /\ FoundDirs(u, At(rs, i, u), S) = FoldersOf(rs, disk, S, i)
           /\ \A q \in FilesOf(rs, disk, S, i) \cup FoldersOf(rs, disk, S, i) :
                 Relocate(q, u, At(rs, i, u)) = At(rs, i, q)
  <1> DEFINE d == At(rs, i, u)
             Back(x) == Relocate(x, d, u)
             Of(X) == {q \in Path : /\ q # << >> /\ Parent(q) \in S /\ i \in Covers(rs, q)
                                    /\ At(rs, i, q) \in X}
             In(X, v) == {x \in X : x # << >> /\ Parent(x) = Relocate(v, u, d)}
             Met(X) == UNION {{Back(x) : x \in In(X, v)} : v \in S}
  <1>1. /\ rs \in VfsFiles /\ i \in Covers(rs, u) /\ disk \subseteq Path /\ dirs \subseteq Path
    BY DEF Agreeing, Scans, Lays, Tree, Dirs
  <1>2. ASSUME NEW v \in S
        PROVE  v \in Path /\ IsPrefix(u, v) /\ Relocate(v, u, d) = At(rs, i, v)
    BY <1>1, <1>2, AtBelow DEF Scans
  <1>3. ASSUME NEW q \in Path, q # << >>, Parent(q) \in S
        PROVE  i \in Covers(rs, q) /\ Relocate(q, u, d) = At(rs, i, q)
    <2>1. i \in Covers(rs, q) /\ IsPrefix(u, Parent(q)) /\ Parent(q) \in Path
      BY <1>1, <1>2, <1>3, FoundAt
    <2>2. IsPrefix(u, q)
      <3>1. q \in Seq(N) /\ IsPrefix(Parent(q), q) /\ Parent(q) \in Seq(N) /\ u \in Seq(N)
        BY <1>3, ParentLast DEF Path
      <3> QED
        BY <2>1, <3>1, PrefixTransitive
    <2> QED
      BY <1>1, <2>1, <2>2, AtBelow
  <1>4. ASSUME NEW X \in SUBSET Path
        PROVE  Met(X) = Of(X)
    <2> HIDE DEF d
    <2>1. ASSUME NEW v \in S, NEW x \in In(X, v)
          PROVE  Back(x) \in Of(X)
      <3>1. x \in Path /\ x # << >> /\ Parent(x) = At(rs, i, v) /\ x \in X
        BY <1>2, <2>1
      <3>2. LET q == Back(x) IN /\ q \in Path /\ q # << >> /\ Parent(q) = v
                                /\ i \in Covers(rs, q) /\ At(rs, i, q) = x
        BY <1>1, <1>2, <3>1, FoundAt DEF d
      <3> HIDE DEF Back
      <3> QED
        BY <3>1, <3>2
    <2>2. ASSUME NEW q \in Of(X)
          PROVE  \E v \in S : \E x \in In(X, v) : q = Back(x)
      <3> DEFINE v == Parent(q)
                 x == At(rs, i, q)
      <3>1. v \in S /\ q \in Path /\ q # << >> /\ x \in X
        BY <2>2
      <3>2. x # << >> /\ Parent(x) = At(rs, i, v) /\ Back(x) = q
        BY <1>1, <1>2, <3>1, FoundAt DEF d
      <3>3. x \in In(X, v)
        BY <1>2, <3>1, <3>2
      <3> HIDE DEF In, v, x, Of, Back
      <3> QED
        BY <3>1, <3>2, <3>3
    <2> HIDE DEF Back, Of, In
    <2> QED
      BY <2>1, <2>2
  <1>5. Of(disk) = FilesOf(rs, disk, S, i) /\ Of(dirs) = FoldersOf(rs, disk, S, i)
    <2>1. Of(disk) = FilesOf(rs, disk, S, i)
      BY DEF FilesOf, Holds
    <2>2. Of(dirs) = FoldersOf(rs, disk, S, i)
      BY DEF FoldersOf, Lays
    <2> QED
      BY <2>1, <2>2
  <1>6. Met(disk) = UNION {{Relocate(x, d, u) : x \in FilesIn(Relocate(v, u, d))} : v \in S}
    BY DEF FilesIn
  <1>7. Met(dirs) = FoundDirs(u, d, S)
    BY DEF DirsIn, FoundDirs
  <1>8. Met(disk) = Of(disk) /\ Met(dirs) = Of(dirs)
    <2> HIDE DEF Met, Of
    <2> QED
      BY <1>1, <1>4
  <1>9. \A q \in FilesOf(rs, disk, S, i) \cup FoldersOf(rs, disk, S, i) :
           Relocate(q, u, d) = At(rs, i, q)
    BY <1>3 DEF FilesOf, FoldersOf
  <1> HIDE DEF Met, Of
  <1> QED
    BY <1>5, <1>6, <1>7, <1>8, <1>9

\* The tables new are st with the files F and the folders D of record i, and the
\* folders S explored.
Enters(rs, new, st, S, F, D, i) ==
    /\ DOMAIN new.mapped = DOMAIN st.mapped \cup F
    /\ \A q \in DOMAIN new.mapped :
          new.mapped[q] = IF q \in F THEN At(rs, i, q) ELSE st.mapped[q]
    /\ DOMAIN new.folders = DOMAIN st.folders \cup D
    /\ \A q \in DOMAIN new.folders :
          /\ new.folders[q].paths
               = IF q \in D THEN Adjoin(FolderAt(st.folders, q).paths, {At(rs, i, q)})
                 ELSE FolderAt(st.folders, q).paths
          /\ new.folders[q].children
               = FolderAt(st.folders, q).children \cup
                   {Last(p) : p \in {x \in F \cup D : Parent(x) = q}}
          /\ new.folders[q].explored <=> FolderAt(st.folders, q).explored \/ q \in S
    /\ new.watched = st.watched \cup {At(rs, i, q) : q \in D}
    /\ DOMAIN st.reverse \subseteq DOMAIN new.reverse
    /\ \A q \in D : At(rs, i, q) \in DOMAIN new.reverse

LEMMA AddEntriesAt ==
    ASSUME NEW rs, Agreeing(rs, disk), dirs = DirsOf(disk), NEW u \in Path, NEW S, NEW i,
           Scans(rs, disk, S, u, i), NEW st, Good(st, dirs, Allowed(rs))
    PROVE  LET new == AddEntries(st, u, At(rs, i, u), S)
           IN  /\ Good(new, dirs, Allowed(rs))
               /\ Enters(rs, new, st, S, FilesOf(rs, disk, S, i),
                         FoldersOf(rs, disk, S, i), i)
  <1> DEFINE d == At(rs, i, u)
             new == AddEntries(st, u, d, S)
             R == Allowed(rs)
             F == FilesOf(rs, disk, S, i)
             D == FoldersOf(rs, disk, S, i)
             Real(v) == Relocate(v, u, d)
             Virtual(X) == {Relocate(x, d, u) : x \in X}
             foundFiles == UNION {Virtual(FilesIn(Real(v))) : v \in S}
             foundDirs == UNION {Virtual(DirsIn(Real(v))) : v \in S}
             Entry(v) ==
                LET old == FolderAt(st.folders, v) IN
                [paths    |-> IF v \in foundDirs THEN Adjoin(old.paths, {Real(v)})
                                                 ELSE old.paths,
                 children |-> old.children \cup
                    {Last(p) : p \in {q \in foundFiles \cup foundDirs :
                                         Parent(q) = v}},
                 explored |-> old.explored \/ v \in S]
             folders == [v \in DOMAIN st.folders \cup foundDirs |-> Entry(v)]
             found == [p \in foundFiles |-> Real(p)]
             mapped == Override(found, st.mapped)
             reverse == RegisterReverse(st.reverse, folders, {<<v, Real(v)>> : v \in foundDirs})
             watched == st.watched \cup {Real(v) : v \in foundDirs}
  <1>1. new = [mapped |-> mapped, folders |-> folders, reverse |-> reverse,
               watched |-> watched]
    BY DEF AddEntries
  <1>2. /\ foundFiles = F /\ foundDirs = D
        /\ \A q \in F \cup D : Real(q) = At(rs, i, q)
        /\ FoundDirs(u, d, S) = D
    <2>1. /\ UNION {{Relocate(x, d, u) : x \in FilesIn(Relocate(v, u, d))} : v \in S} = F
          /\ FoundDirs(u, d, S) = D
          /\ \A q \in F \cup D : Relocate(q, u, d) = At(rs, i, q)
      BY EntriesOf
    <2>2. foundFiles = UNION {{Relocate(x, d, u) : x \in FilesIn(Relocate(v, u, d))} : v \in S}
      OBVIOUS
    <2>3. foundDirs = FoundDirs(u, d, S)
      BY DEF FoundDirs
    <2> HIDE DEF foundFiles, foundDirs, F, D
    <2> QED
      BY <2>1, <2>2, <2>3
  <1>3. /\ rs \in VfsFiles /\ Regular(R) /\ Disk /\ i \in Covers(rs, u) /\ d \in Path
        /\ <<u, d>> \in R /\ Good(st, dirs, R) /\ new = AddEntries(st, u, d, S)
    <2>1. rs \in VfsFiles /\ Regular(R) /\ Disk /\ i \in Covers(rs, u)
      BY DEF Agreeing, Disk, Scans, Lays
    <2> QED
      BY <2>1, AtIs, PairAt
  <1>4. /\ Good(new, dirs, R)
        /\ DOMAIN st.reverse \subseteq DOMAIN new.reverse
        /\ \A v \in D : v # Real(v) => Real(v) \in DOMAIN new.reverse
    <2>1. \A v \in S : v \in Path /\ IsPrefix(u, v)
      BY DEF Scans
    <2> HIDE DEF d, R, D
    <2>2. Good(new, dirs, R)
      BY <1>3, <2>1, AddEntriesIs
    <2>3. DOMAIN st.reverse \subseteq DOMAIN new.reverse
      BY <1>3, <2>1, AddEntriesIs
    <2>4. \A v \in FoundDirs(u, d, S) : v # Real(v) => Real(v) \in DOMAIN new.reverse
      BY <1>3, <2>1, AddEntriesIs
    <2> QED
      BY <1>2, <2>2, <2>3, <2>4
  <1>5. \A q \in D : q # At(rs, i, q)
    <2> SUFFICES ASSUME NEW q \in D PROVE q # At(rs, i, q)
      OBVIOUS
    <2>1. q \in Path /\ i \in Covers(rs, q) /\ i \in DOMAIN rs
      BY DEF FoldersOf, Lays, Covers
    <2> HIDE DEF D
    <2> QED
      BY <2>1 DEF Agreeing
  <1>6. /\ DOMAIN mapped = F \cup DOMAIN st.mapped
        /\ \A q \in DOMAIN mapped : mapped[q] = IF q \in F THEN At(rs, i, q)
                                                ELSE st.mapped[q]
    <2>1. DOMAIN found = F /\ \A q \in F : found[q] = At(rs, i, q)
      BY <1>2
    <2> HIDE DEF found, F
    <2> QED
      BY <2>1 DEF Override
  <1>7. /\ DOMAIN folders = DOMAIN st.folders \cup D
        /\ \A q \in DOMAIN folders :
              /\ folders[q].paths = IF q \in D THEN Adjoin(FolderAt(st.folders, q).paths,
                                                           {At(rs, i, q)})
                                    ELSE FolderAt(st.folders, q).paths
              /\ folders[q].children
                     = FolderAt(st.folders, q).children \cup
                         {Last(p) : p \in {x \in F \cup D : Parent(x) = q}}
              /\ folders[q].explored <=> FolderAt(st.folders, q).explored \/ q \in S
    <2> HIDE DEF foundFiles, foundDirs, F, D, Real
    <2>1. DOMAIN folders = DOMAIN st.folders \cup D
      BY <1>2
    <2> DEFINE names(q) == {Last(p) : p \in {x \in F \cup D : Parent(x) = q}}
               E(q) == [paths |-> IF q \in D THEN Adjoin(FolderAt(st.folders, q).paths,
                                                         {Real(q)})
                                  ELSE FolderAt(st.folders, q).paths,
                        children |-> FolderAt(st.folders, q).children \cup names(q),
                        explored |-> FolderAt(st.folders, q).explored \/ q \in S]
    <2>2. ASSUME NEW q \in DOMAIN folders PROVE folders[q] = E(q)
      <3>1. folders[q] = Entry(q)
        OBVIOUS
      <3>2. Entry(q) = E(q)
        BY <1>2
      <3> QED
        BY <3>1, <3>2
    <2> HIDE DEF folders, names
    <2>3. ASSUME NEW q \in DOMAIN folders
          PROVE  /\ folders[q].paths = IF q \in D THEN Adjoin(FolderAt(st.folders, q).paths,
                                                           {At(rs, i, q)})
                                    ELSE FolderAt(st.folders, q).paths
                 /\ folders[q].children
                     = FolderAt(st.folders, q).children \cup names(q)
                 /\ folders[q].explored <=> FolderAt(st.folders, q).explored \/ q \in S
      <3>1. folders[q] = E(q) /\ (q \in D => Real(q) = At(rs, i, q))
        BY <1>2, <2>2
      <3>2. folders[q].explored = (FolderAt(st.folders, q).explored \/ q \in S)
        BY <3>1
      <3>3. folders[q].explored <=> FolderAt(st.folders, q).explored \/ q \in S
        BY <3>2, Zenon
      <3>4. folders[q].paths = IF q \in D THEN Adjoin(FolderAt(st.folders, q).paths,
                                                      {At(rs, i, q)})
                               ELSE FolderAt(st.folders, q).paths
        BY <3>1
      <3>5. folders[q].children = FolderAt(st.folders, q).children \cup names(q)
        BY <3>1
      <3> QED
        BY <3>3, <3>4, <3>5
    <2> QED
      BY <2>1, <2>3 DEF names
  <1>8. watched = st.watched \cup {At(rs, i, q) : q \in D}
    <2> HIDE DEF foundDirs, D, Real
    <2> QED
      BY <1>2
  <1> HIDE DEF mapped, folders, reverse, watched
  <1>9. /\ new.mapped = mapped /\ new.folders = folders /\ new.watched = watched
    BY <1>1
  <1> HIDE DEF F, D, Real, new
  <1>10. \A q \in D : At(rs, i, q) \in DOMAIN new.reverse
    BY <1>2, <1>4, <1>5
  <1>11. Good(new, dirs, R) /\ Enters(rs, new, st, S, F, D, i)
    BY <1>4, <1>6, <1>7, <1>8, <1>9, <1>10 DEF Enters
  <1> QED
    BY <1>11 DEF F, D, new

\* What has been read once the folders S have been scanned for record i too.
ReadMore(read, S, i) == [v \in Path |-> IF v \in S THEN read[v] \cup {i} ELSE read[v]]

InOrder(read, S, i) == \A w \in S : \A j \in read[w] : j <= i

LEMMA SeenSame ==
    ASSUME NEW rs \in VfsFiles, NEW read, NEW n, NEW S, NEW i, NEW q \in Path,
           q = << >> \/ Parent(q) \notin S
    PROVE  Seen(rs, ReadMore(read, S, i), n, q) = Seen(rs, read, n, q)
  <1> DEFINE p == Parent(q)
             after == ReadMore(read, S, i)
  <1>1. CASE q = << >>
    <2>1. Covers(rs, q) = {}
      BY <1>1, AtIs
    <2> QED
      BY <1>1, <2>1 DEF Seen
  <1>2. CASE q # << >>
    <2>1. p \in Path /\ p \notin S
      BY <1>2, ParentLast DEF Path
    <2>2. after[p] = read[p]
      BY <2>1 DEF ReadMore
    <2> HIDE DEF after
    <2> QED
      BY <2>2 DEF Seen, after
  <1> QED
    BY <1>1, <1>2

LEMMA SeenMore ==
    ASSUME NEW rs, NEW files, Agreeing(rs, files), NEW read, NEW n, NEW u, NEW i, NEW S,
           Scans(rs, files, S, u, i), InOrder(read, S, i),
           NEW q \in Path, q # << >>, Parent(q) \in S
    PROVE  /\ i \in Covers(rs, q)
           /\ Seen(rs, ReadMore(read, S, i), n, q) = Seen(rs, read, n, q) \cup {i}
           /\ \A j \in Seen(rs, read, n, q) : j \in Covers(rs, q) /\ j <= i
  <1> DEFINE p == Parent(q)
             after == ReadMore(read, S, i)
  <1>1. rs \in VfsFiles /\ files \in Trees /\ LayersAgree(rs, files)
    BY DEF Agreeing
  <1>2. p \in Path /\ i \in Covers(rs, p)
    BY DEF Scans, Lays
  <1>3. after[p] = read[p] \cup {i} /\ \A j \in read[p] : j <= i
    BY <1>2 DEF ReadMore, InOrder
  <1>4. i \in Covers(rs, q)
    BY <1>1, <1>2, AtIs
  <1>5. ASSUME NEW j \in Covers(rs, q) PROVE rs[j].virtual # q
    <2>1. rs[j].virtual = rs[i].virtual
      BY <1>1, <1>4, SameFolder
    <2>2. IsPrefix(rs[i].virtual, p) /\ rs[i].virtual \in Path
      BY <1>1, <1>2, AtRest
    <2>3. ~IsPrefix(q, p)
      <3>1. Len(p) = Len(q) - 1 /\ Len(q) \in Nat /\ q \in Seq(N) /\ p \in Seq(N)
        BY ParentLast DEF Path
      <3>2. IsPrefix(q, p) => Len(q) <= Len(p)
        BY <3>1, PrefixIs
      <3> QED
        BY <3>1, <3>2
    <2> QED
      BY <2>1, <2>2, <2>3
  <1>6. /\ Seen(rs, read, n, q) = {j \in Covers(rs, q) : j \in read[p]}
        /\ Seen(rs, after, n, q) = {j \in Covers(rs, q) : j \in after[p]}
    BY <1>5 DEF Seen
  <1> HIDE DEF after, p
  <1>7. /\ Seen(rs, after, n, q) = Seen(rs, read, n, q) \cup {i}
        /\ \A j \in Seen(rs, read, n, q) : j \in Covers(rs, q) /\ j <= i
    BY <1>3, <1>4, <1>6
  <1> QED
    BY <1>4, <1>7 DEF after, p

LEMMA KnownMore ==
    ASSUME NEW rs, NEW files, Agreeing(rs, files), NEW read, NEW n, NEW u, NEW i, NEW S,
           Scans(rs, files, S, u, i), InOrder(read, S, i)
    PROVE  /\ \A q \in FoldersOf(rs, files, S, i) :
                /\ i \in Covers(rs, q)
                /\ Known(rs, files, ReadMore(read, S, i), n, q)
                     = Known(rs, files, read, n, q) \cup {i}
                /\ \A j \in Known(rs, files, read, n, q) : j \in Covers(rs, q) /\ j <= i
           /\ \A q \in FilesOf(rs, files, S, i) :
                /\ Mapping(rs, files, ReadMore(read, S, i), n, q)
                     = Mapping(rs, files, read, n, q) \cup {i}
                /\ \A j \in Mapping(rs, files, read, n, q) : j <= i
  <1> DEFINE after == ReadMore(read, S, i)
  <1>1. ASSUME NEW q \in Path, q # << >>, Parent(q) \in S
        PROVE  /\ i \in Covers(rs, q)
               /\ Seen(rs, after, n, q) = Seen(rs, read, n, q) \cup {i}
               /\ \A j \in Seen(rs, read, n, q) : j \in Covers(rs, q) /\ j <= i
    <2>1. i \in Covers(rs, q)
      BY <1>1, SeenMore
    <2>2. Seen(rs, after, n, q) = Seen(rs, read, n, q) \cup {i}
      BY <1>1, SeenMore
    <2>3. \A j \in Seen(rs, read, n, q) : j \in Covers(rs, q) /\ j <= i
      BY <1>1, SeenMore
    <2> QED
      BY <2>1, <2>2, <2>3
  <1>2. /\ \A q \in FoldersOf(rs, files, S, i) :
              q \in Path /\ q # << >> /\ Parent(q) \in S /\ i \in Lays(rs, files, q)
        /\ \A q \in FilesOf(rs, files, S, i) :
              q \in Path /\ q # << >> /\ Parent(q) \in S /\ i \in Holds(rs, files, q)
    BY DEF FoldersOf, FilesOf
  <1> HIDE DEF after
  <1>3. ASSUME NEW q \in FoldersOf(rs, files, S, i)
        PROVE  /\ i \in Covers(rs, q)
               /\ Known(rs, files, after, n, q) = Known(rs, files, read, n, q) \cup {i}
               /\ \A j \in Known(rs, files, read, n, q) : j \in Covers(rs, q) /\ j <= i
    BY <1>1, <1>2 DEF Known
  <1>4. ASSUME NEW q \in FilesOf(rs, files, S, i)
        PROVE  /\ Mapping(rs, files, after, n, q) = Mapping(rs, files, read, n, q) \cup {i}
               /\ \A j \in Mapping(rs, files, read, n, q) : j <= i
    BY <1>1, <1>2 DEF Mapping
  <1> QED
    BY <1>3, <1>4 DEF after

LEMMA KnownSame ==
    ASSUME NEW rs, NEW files, Agreeing(rs, files), NEW read, NEW n, NEW u, NEW i, NEW S,
           Scans(rs, files, S, u, i), NEW q \in Path
    PROVE  /\ q \notin FoldersOf(rs, files, S, i) =>
                Known(rs, files, ReadMore(read, S, i), n, q) = Known(rs, files, read, n, q)
           /\ q \notin FilesOf(rs, files, S, i) =>
                Mapping(rs, files, ReadMore(read, S, i), n, q)
                  = Mapping(rs, files, read, n, q)
  <1> DEFINE after == ReadMore(read, S, i)
  <1>1. CASE q = << >> \/ Parent(q) \notin S
    <2>1. Seen(rs, after, n, q) = Seen(rs, read, n, q)
      BY <1>1, SeenSame DEF Agreeing
    <2> QED
      BY <2>1 DEF Known, Mapping
  <1>2. CASE q # << >> /\ Parent(q) \in S
    <2>1. after[Parent(q)] = read[Parent(q)] \cup {i}
      BY <1>2 DEF ReadMore, Scans
    <2>2. \A j : j # i => (j \in Seen(rs, after, n, q) <=> j \in Seen(rs, read, n, q))
      <3> HIDE DEF after
      <3> QED
        BY <2>1 DEF Seen
    <2>3. /\ q \notin FoldersOf(rs, files, S, i) => i \notin Lays(rs, files, q)
          /\ q \notin FilesOf(rs, files, S, i) => i \notin Holds(rs, files, q)
      BY <1>2 DEF FoldersOf, FilesOf
    <2> HIDE DEF after
    <2>4. /\ q \notin FoldersOf(rs, files, S, i) =>
               Known(rs, files, after, n, q) = Known(rs, files, read, n, q)
          /\ q \notin FilesOf(rs, files, S, i) =>
               Mapping(rs, files, after, n, q) = Mapping(rs, files, read, n, q)
      BY <2>2, <2>3 DEF Known, Mapping
    <2> QED
      BY <2>4 DEF after
  <1> QED
    BY <1>1, <1>2

\* The directory of u of one record is read, and those below on the way.
LEMMA AddEntriesFills ==
    ASSUME NEW rs, Agreeing(rs, disk), dirs = DirsOf(disk), NEW st, NEW read, NEW n,
           Filled(rs, disk, st, read, n), NEW u \in Path, NEW S, NEW i,
           i \in Known(rs, disk, read, n, u), Scans(rs, disk, S, u, i), InOrder(read, S, i)
    PROVE  Filled(rs, disk, AddEntries(st, u, At(rs, i, u), S), ReadMore(read, S, i), n)
  <1> DEFINE new == AddEntries(st, u, At(rs, i, u), S)
             after == ReadMore(read, S, i)
             F == FilesOf(rs, disk, S, i)
             D == FoldersOf(rs, disk, S, i)
             K(q) == Known(rs, disk, read, n, q)
             M(q) == Mapping(rs, disk, read, n, q)
             K2(q) == Known(rs, disk, after, n, q)
             M2(q) == Mapping(rs, disk, after, n, q)
  <1>1. /\ rs \in VfsFiles /\ disk \in Trees /\ LayersAgree(rs, disk)
        /\ i \in Covers(rs, u) /\ i \in DOMAIN rs /\ DOMAIN rs \subseteq Nat
    BY DEF Agreeing, Known, Lays, Covers
  <1>2. /\ Good(st, dirs, Allowed(rs)) /\ FilledFiles(rs, disk, st.mapped, read, n)
        /\ FilledFolders(rs, disk, st.folders, read, n)
        /\ Noted(rs, disk, st, read, n) /\ Closed(rs, disk, read, n)
    BY DEF Filled
  <1>3. /\ Good(new, dirs, Allowed(rs))
        /\ DOMAIN new.mapped = DOMAIN st.mapped \cup F
        /\ \A q \in DOMAIN new.mapped :
              new.mapped[q] = IF q \in F THEN At(rs, i, q) ELSE st.mapped[q]
        /\ DOMAIN new.folders = DOMAIN st.folders \cup D
        /\ \A q \in DOMAIN new.folders :
             /\ new.folders[q].paths
                  = IF q \in D THEN Adjoin(FolderAt(st.folders, q).paths, {At(rs, i, q)})
                    ELSE FolderAt(st.folders, q).paths
             /\ new.folders[q].children
                  = FolderAt(st.folders, q).children \cup
                      {Last(p) : p \in {x \in F \cup D : Parent(x) = q}}
             /\ new.folders[q].explored <=> FolderAt(st.folders, q).explored \/ q \in S
        /\ new.watched = st.watched \cup {At(rs, i, q) : q \in D}
        /\ DOMAIN st.reverse \subseteq DOMAIN new.reverse
        /\ \A q \in D : At(rs, i, q) \in DOMAIN new.reverse
    <2>1. Good(new, dirs, Allowed(rs)) /\ Enters(rs, new, st, S, F, D, i)
      BY <1>2, AddEntriesAt
    <2> HIDE DEF new, F, D
    <2> QED
      BY <2>1 DEF Enters
  <1>4. ASSUME NEW q \in Path
        PROVE  /\ q \in D => /\ i \in Covers(rs, q) /\ K2(q) = K(q) \cup {i}
                             /\ \A j \in K(q) : j \in Covers(rs, q) /\ j <= i
               /\ q \notin D => K2(q) = K(q)
               /\ q \in F => M2(q) = M(q) \cup {i} /\ \A j \in M(q) : j <= i
               /\ q \notin F => M2(q) = M(q)
    <2>0. q \in D => i \in Covers(rs, q)
      BY KnownMore
    <2>1. q \in D => K2(q) = K(q) \cup {i}
      BY KnownMore
    <2>2. q \in D => \A j \in K(q) : j \in Covers(rs, q) /\ j <= i
      BY KnownMore
    <2>3. q \notin D => K2(q) = K(q)
      BY KnownSame
    <2>4. q \in F => M2(q) = M(q) \cup {i}
      BY KnownMore
    <2>5. q \in F => \A j \in M(q) : j <= i
      BY KnownMore
    <2>6. q \notin F => M2(q) = M(q)
      BY KnownSame
    <2> HIDE DEF F, D, K, K2, M, M2
    <2> QED
      BY <2>0, <2>1, <2>2, <2>3, <2>4, <2>5, <2>6
  <1>5. F \subseteq Path /\ D \subseteq Path
    BY DEF FilesOf, FoldersOf
  <1>6. /\ \A w \in S : w \in Path /\ IsPrefix(u, w) /\ i \in Covers(rs, w)
        /\ \A w \in S, v \in Path : IsPrefix(u, v) /\ IsPrefix(v, w) => v \in S
        /\ \A w \in S : i \in Lays(rs, disk, w)
    BY DEF Scans, Lays
  <1> HIDE DEF new, M, M2, K, K2
  <1>7. FilledFiles(rs, disk, new.mapped, after, n)
    <2> SUFFICES ASSUME NEW q \in Path
                 PROVE  /\ q \in DOMAIN new.mapped <=> M2(q) # {}
                        /\ \A j \in M2(q) : (\A k \in M2(q) : k <= j)
                               => new.mapped[q] = At(rs, j, q)
      BY DEF FilledFiles, M2
    <2>1. /\ q \in DOMAIN st.mapped <=> M(q) # {}
          /\ \A j \in M(q) : (\A k \in M(q) : k <= j) => st.mapped[q] = At(rs, j, q)
      BY <1>2 DEF FilledFiles, M
    <2> HIDE DEF F
    <2>2. CASE q \in F
      <3>1. \A j \in M2(q) : j \in Nat /\ (j <= i)
        BY <1>1, <1>4, <2>2 DEF M, Mapping, Holds, Covers
      <3>2. M2(q) = M(q) \cup {i} /\ new.mapped[q] = At(rs, i, q) /\ q \in DOMAIN new.mapped
        BY <1>3, <1>4, <2>2
      <3>3. \A j \in M2(q) : (\A k \in M2(q) : k <= j) => j = i
        BY <1>1, <3>1, <3>2
      <3> QED
        BY <3>2, <3>3
    <2>3. CASE q \notin F
      <3>1. M2(q) = M(q)
        BY <1>4, <2>3
      <3> QED
        BY <1>3, <2>1, <2>3, <3>1
    <2> QED
      BY <2>2, <2>3
  <1>8. Closed(rs, disk, after, n)
    <2>1. \A v \in Path : after[v] = IF v \in S THEN read[v] \cup {i} ELSE read[v]
      BY DEF ReadMore
    <2>2. \A v \in Path : K(v) \subseteq K2(v)
      BY <1>4
    <2>3. ASSUME NEW v \in Path, v \in S PROVE i \in K2(v)
      <3>1. CASE v = u
        BY <2>2, <3>1 DEF K
      <3>2. CASE v # u
        <4>1. v # << >> /\ Parent(v) \in Path /\ IsPrefix(u, Parent(v)) /\ IsPrefix(Parent(v), v)
          <5>1. IsPrefix(u, v) /\ v \in Seq(N) /\ u \in Seq(N)
            BY <1>6, <2>3 DEF Path
          <5>2. v # << >>
            BY <1>1, <1>6, <2>3, AtIs
          <5> QED
            BY <3>2, <5>1, <5>2, ParentLast DEF Path
        <4>2. Parent(v) \in S
          BY <1>6, <2>3, <4>1
        <4>3. v \in D
          BY <1>6, <2>3, <4>1, <4>2 DEF FoldersOf
        <4> QED
          BY <1>4, <4>3
      <3> QED
        BY <3>1, <3>2
    <2>4. ASSUME NEW v \in S, NEW w \in Path, i \in Covers(rs, w), IsPrefix(w, v)
          PROVE  i \in after[w]
      <3>1. v \in Path /\ IsPrefix(u, v) /\ w \in Seq(N) /\ u \in Seq(N) /\ v \in Seq(N)
        BY <1>6 DEF Path
      <3>2. IsPrefix(u, w) \/ IsPrefix(w, u)
        BY <2>4, <3>1, PrefixTotal
      <3>3. CASE IsPrefix(u, w)
        BY <1>6, <2>1, <2>4, <3>3
      <3>4. CASE IsPrefix(w, u) /\ w # u
        <4>1. i \in Seen(rs, read, n, u)
          BY DEF Known
        <4>2. i \in read[w]
          BY <1>2, <2>4, <3>4, <4>1, SeenAbove
        <4> QED
          BY <2>1, <4>2
      <3>5. CASE w = u
        <4>1. IsPrefix(u, u)
          BY <3>1, PrefixIs
        <4> QED
          BY <1>6, <2>1, <2>4, <3>5, <4>1
      <3> QED
        BY <3>2, <3>3, <3>4, <3>5
    <2>5. ASSUME NEW v \in Path, NEW j \in after[v]
          PROVE  /\ j \in K2(v)
                 /\ \A w \in Path : j \in Covers(rs, w) /\ IsPrefix(w, v) => j \in after[w]
      <3>1. CASE j \in read[v]
        <4>1. /\ j \in K(v)
              /\ \A w \in Path : j \in Covers(rs, w) /\ IsPrefix(w, v) => j \in read[w]
          BY <1>2, <3>1 DEF Closed, K
        <4> QED
          BY <2>1, <2>2, <4>1
      <3>2. CASE j \notin read[v]
        <4>1. j = i /\ v \in S
          BY <2>1, <2>5, <3>2
        <4> QED
          BY <2>3, <2>4, <4>1
      <3> QED
        BY <3>1, <3>2
    <2> QED
      BY <2>5 DEF Closed, K2
  <1>9. Noted(rs, disk, new, after, n)
    <2> SUFFICES ASSUME NEW q \in Path, NEW j \in K2(q)
                 PROVE  At(rs, j, q) \in new.watched /\ At(rs, j, q) \in DOMAIN new.reverse
      BY DEF Noted, K2
    <2>1. CASE j \in K(q)
      <3>1. At(rs, j, q) \in st.watched /\ At(rs, j, q) \in DOMAIN st.reverse
        BY <1>2, <2>1 DEF Noted, K
      <3> QED
        BY <1>3, <3>1
    <2>2. CASE j \notin K(q)
      <3>1. q \in D /\ j = i
        BY <1>4, <2>2
      <3> HIDE DEF D
      <3> QED
        BY <1>3, <3>1
    <2> QED
      BY <2>1, <2>2
  <1>10. \A q \in DOMAIN new.folders : q \in Path
    BY <1>3, MapsIs DEF Good, Tables
  <1>11. ASSUME NEW q \in DOMAIN new.folders
         PROVE  /\ Covers(rs, q) # {} => K2(q) # {}
                /\ FilledFolder(rs, disk, new.folders[q], after, n, q)
    <2> DEFINE f == new.folders[q]
               old == FolderAt(st.folders, q)
               names == {Last(p) : p \in {x \in F \cup D : Parent(x) = q}}
    <2>1. /\ old.explored <=> read[q] # {}
          /\ Lists(rs, old.paths, K(q), q)
          /\ Covers(rs, q) # {} => old.children = Entries(rs, disk, read, q)
          /\ old.paths \in Seq(Path)
      BY <1>10, FolderAtFilled DEF K
    <2>2. /\ f.paths = IF q \in D THEN Adjoin(old.paths, {At(rs, i, q)}) ELSE old.paths
          /\ f.children = old.children \cup names
          /\ f.explored <=> old.explored \/ q \in S
      BY <1>3
    <2>3. after[q] = IF q \in S THEN read[q] \cup {i} ELSE read[q]
      BY <1>10 DEF ReadMore
    <2>4. f.explored <=> after[q] # {}
      <3> HIDE DEF after, f, old
      <3> QED
        BY <2>1, <2>2, <2>3
    <2>5. Lists(rs, f.paths, K2(q), q)
      <3>1. CASE q \notin D
        <4> HIDE DEF f, old
        <4> QED
          BY <1>4, <1>10, <2>1, <2>2, <3>1
      <3>2. CASE q \in D
        <4> DEFINE x == At(rs, i, q)
        <4>1. /\ i \in Covers(rs, q) /\ K2(q) = K(q) \cup {i}
              /\ \A j \in K(q) : j \in Covers(rs, q) /\ j <= i
          BY <1>4, <1>10, <3>2
        <4>2. x \in Path
          BY <1>1, <1>10, <4>1, AtIs
        <4> HIDE DEF f, old, x
        <4>3. CASE i \in K(q)
          <5>1. x \in ToSet(old.paths)
            BY <2>1, <4>3 DEF Lists, x
          <5>2. Adjoin(old.paths, {x}) = old.paths
            BY <2>1, <4>2, <5>1, AdjoinOne
          <5>3. K2(q) = K(q)
            BY <4>1, <4>3
          <5> QED
            BY <2>1, <2>2, <3>2, <5>2, <5>3 DEF x
        <4>4. CASE i \notin K(q)
          <5>1. \A j \in K(q) : j \in Covers(rs, q) /\ j < i
            <6>1. \A j \in K(q) : j \in Nat /\ j # i
              BY <1>1, <4>1, <4>4 DEF Covers
            <6> QED
              BY <1>1, <4>1, <6>1
          <5>2. x \notin ToSet(old.paths) /\ Lists(rs, Append(old.paths, x), K(q) \cup {i}, q)
            BY <1>1, <1>10, <2>1, <4>1, <5>1, ListsMore DEF x
          <5>3. Adjoin(old.paths, {x}) = Append(old.paths, x)
            BY <2>1, <4>2, <5>2, AdjoinOne
          <5> QED
            BY <2>2, <3>2, <4>1, <5>2, <5>3 DEF x
        <4> QED
          BY <4>3, <4>4
      <3> QED
        BY <3>1, <3>2
    <2>6. Covers(rs, q) # {} => f.children = Entries(rs, disk, after, q)
      <3> DEFINE E(j) == {Last(p) : p \in {x \in Path : /\ x # << >> /\ Parent(x) = q
                                    /\ j \in Holds(rs, disk, x) \cup Lays(rs, disk, x)}}
      <3>1. /\ Entries(rs, disk, read, q) = UNION {E(j) : j \in read[q]}
            /\ Entries(rs, disk, after, q) = UNION {E(j) : j \in after[q]}
        <4> HIDE DEF after
        <4>1. \A r : Entries(rs, disk, r, q) = UNION {E(j) : j \in r[q]}
          BY DEF Entries
        <4> QED
          BY <4>1
      <3>2. names = IF q \in S THEN E(i) ELSE {}
        BY DEF FilesOf, FoldersOf
      <3> HIDE DEF names, E, after, f, old
      <3>3. CASE q \in S
        BY <2>1, <2>2, <2>3, <3>1, <3>2, <3>3
      <3>4. CASE q \notin S
        BY <2>1, <2>2, <2>3, <3>1, <3>2, <3>4
      <3> QED
        BY <3>3, <3>4
    <2>7. CASE q \in DOMAIN st.folders
      <3>1. /\ Covers(rs, q) # {} => K(q) # {}
            /\ Covers(rs, q) = {} => \E j \in DOMAIN rs : IsStrictPrefix(q, rs[j].virtual)
        BY <1>2, <2>7 DEF FilledFolders, FilledFolder, K
      <3>2. K(q) \subseteq K2(q)
        BY <1>4, <1>10
      <3> HIDE DEF f, after
      <3>3. FilledFolder(rs, disk, f, after, n, q)
        BY <2>4, <2>5, <2>6, <3>1 DEF FilledFolder, K2
      <3> QED
        BY <3>1, <3>2, <3>3 DEF f
    <2>8. CASE q \notin DOMAIN st.folders
      <3>1. q \in D
        BY <1>3, <2>8
      <3>2. i \in K2(q) /\ i \in Covers(rs, q)
        BY <1>4, <1>10, <3>1
      <3> HIDE DEF f, after
      <3>3. FilledFolder(rs, disk, f, after, n, q)
        BY <2>4, <2>5, <2>6, <3>2 DEF FilledFolder, K2
      <3> QED
        BY <3>2, <3>3 DEF f
    <2> QED
      BY <2>7, <2>8
  <1>12. FilledFolders(rs, disk, new.folders, after, n)
    <2>1. ASSUME NEW q \in Path, K2(q) # {} PROVE q \in DOMAIN new.folders
      <3>1. CASE q \in D
        BY <1>3, <3>1
      <3>2. CASE q \notin D
        <4>1. K(q) # {}
          BY <1>4, <2>1, <3>2
        <4> QED
          BY <1>2, <1>3, <4>1 DEF FilledFolders, K
      <3> QED
        BY <3>1, <3>2
    <2> HIDE DEF after
    <2> QED
      BY <1>11, <2>1 DEF FilledFolders, K2
  <1> QED
    BY <1>3, <1>7, <1>8, <1>9, <1>12 DEF Filled, new

LEMMA ScannedScans ==
    ASSUME NEW rs, Agreeing(rs, disk), dirs = DirsOf(disk), NEW u \in Path, NEW i,
           i \in Lays(rs, disk, u), NEW search \in Path, NEW recursive
    PROVE  /\ Scans(rs, disk, Scanned(u, At(rs, i, u), search, recursive), u, i)
           /\ \A v \in Path :
                v \in Scanned(u, At(rs, i, u), search, recursive) <=>
                   \/ v = u
                   \/ v \in OnPath(search) /\ IsStrictPrefix(u, v) /\ i \in Lays(rs, disk, v)
                   \/ recursive /\ v # << >> /\ Parent(v) = u /\ i \in Lays(rs, disk, v)
  <1> DEFINE d == At(rs, i, u)
             S == Scanned(u, d, search, recursive)
             line == {v \in OnPath(search) : IsStrictPrefix(u, v) /\ IsDir(Relocate(v, u, d))}
             subs == {q \in DirsIn(d) : recursive}
             below == {Relocate(q, d, u) : q \in subs}
  <1>1. /\ rs \in VfsFiles /\ disk \in Trees /\ i \in Covers(rs, u) /\ dirs \subseteq Path
        /\ search \in Seq(N) /\ u \in Seq(N)
    BY DEF Agreeing, Lays, Tree, Dirs, Path
  <1>2. S = {u} \cup line \cup below
    BY DEF Scanned
  <1>3. IsPrefix(u, u) /\ d \in Path
    <2>1. IsPrefix(u, u)
      BY <1>1, PrefixIs
    <2>2. d \in Path
      BY <1>1, AtIs
    <2> QED
      BY <2>1, <2>2
  <1>4. ASSUME NEW v \in Path, IsPrefix(u, v)
        PROVE  i \in Covers(rs, v) /\ Relocate(v, u, d) = At(rs, i, v)
    BY <1>1, <1>4, AtBelow
  <1>5. ASSUME NEW v
        PROVE  v \in line <=> v \in OnPath(search) /\ IsStrictPrefix(u, v)
                              /\ i \in Lays(rs, disk, v)
    <2>1. v \in OnPath(search) => v \in Path
      BY <1>1, OnPathIs DEF Path
    <2> QED
      BY <1>4, <2>1 DEF IsStrictPrefix, IsDir, Lays
  <1>6. Relocate(u, u, d) = d
    <2>1. At(rs, i, u) = d
      OBVIOUS
    <2> QED
      BY <1>3, <1>4
  <1>7. ASSUME NEW v \in below
        PROVE  /\ recursive /\ v \in Path /\ v # << >> /\ Parent(v) = u
               /\ i \in Lays(rs, disk, v)
    <2>1. PICK q \in subs : v = Relocate(q, d, u)
      OBVIOUS
    <2>2. q \in Path /\ q # << >> /\ Parent(q) = At(rs, i, u) /\ q \in dirs /\ recursive
      BY <1>1, <2>1 DEF DirsIn
    <2>3. LET x == Relocate(q, At(rs, i, u), u) IN
                 /\ x \in Path /\ x # << >> /\ Parent(x) = u
                 /\ i \in Covers(rs, x) /\ At(rs, i, x) = q
      BY <1>1, <1>3, <2>2, FoundAt
    <2> QED
      BY <2>1, <2>2, <2>3 DEF Lays
  <1>8. ASSUME NEW v \in Path, recursive, v # << >>, Parent(v) = u, i \in Lays(rs, disk, v)
        PROVE  v \in below
    <2> DEFINE x == At(rs, i, v)
    <2>1. x \in dirs
      BY <1>8 DEF Lays
    <2>2. x # << >> /\ Parent(x) = d /\ Relocate(x, d, u) = v
      BY <1>1, <1>3, <1>8, FoundAt
    <2>3. x \in subs
      BY <1>8, <2>1, <2>2 DEF DirsIn
    <2> HIDE DEF x, subs, d
    <2> QED
      BY <2>2, <2>3
  <1> HIDE DEF S, line, below, d
  <1>9. ASSUME NEW v \in Path
        PROVE  v \in S <=>
                   \/ v = u
                   \/ v \in OnPath(search) /\ IsStrictPrefix(u, v) /\ i \in Lays(rs, disk, v)
                   \/ recursive /\ v # << >> /\ Parent(v) = u /\ i \in Lays(rs, disk, v)
    BY <1>2, <1>5, <1>7, <1>8
  <1>10. ASSUME NEW w \in S
         PROVE  w \in Path /\ IsPrefix(u, w) /\ i \in Lays(rs, disk, w)
    <2>1. CASE w = u
      BY <1>3, <2>1
    <2>2. CASE w \in line
      <3>1. w \in Path
        BY <1>1, <1>5, <2>2, OnPathIs DEF Path
      <3> QED
        BY <1>5, <2>2, <3>1 DEF IsStrictPrefix
    <2>3. CASE w \in below
      <3>1. w \in Path /\ w # << >> /\ Parent(w) = u /\ i \in Lays(rs, disk, w)
        BY <1>7, <2>3
      <3>2. IsPrefix(u, w)
        BY <3>1, ParentLast DEF Path
      <3> QED
        BY <3>1, <3>2
    <2> QED
      BY <1>2, <2>1, <2>2, <2>3
  <1>11. ASSUME NEW w \in S, NEW v \in Path, IsPrefix(u, v), IsPrefix(v, w)
         PROVE  v \in S
    <2>0. /\ w \in Path /\ i \in Lays(rs, disk, w) /\ v \in Seq(N) /\ w \in Seq(N)
      BY <1>10 DEF Path
    <2>1. i \in Lays(rs, disk, v)
      <3>1. i \in Covers(rs, v)
        BY <1>4, <1>11
      <3> QED
        BY <1>1, <1>11, <2>0, <3>1, LaysAbove
    <2>2. CASE v = u
      BY <1>2, <2>2
    <2>3. CASE v # u /\ w = u
      BY <1>11, <2>3, PrefixBoth
    <2>4. CASE v # u /\ w \in line
      <3>1. w \in OnPath(search) /\ IsPrefix(w, search)
        BY <1>1, <1>5, <2>4, OnPathIs
      <3>2. IsPrefix(v, search)
        BY <1>1, <1>11, <2>0, <3>1, PrefixTransitive
      <3>3. v \in OnPath(search)
        BY <1>1, <2>0, <3>2, OnPathIs
      <3> QED
        BY <1>9, <1>11, <2>1, <2>4, <3>3 DEF IsStrictPrefix
    <2>5. CASE v # u /\ w \in below
      <3>1. w # << >> /\ Parent(w) = u
        BY <1>7, <2>5
      <3>2. v = w \/ IsPrefix(v, u)
        BY <1>11, <2>0, <3>1, ParentLast
      <3>3. v = w
        BY <1>11, <2>5, <3>2, PrefixBoth
      <3> QED
        BY <3>3
    <2> QED
      BY <1>2, <2>2, <2>3, <2>4, <2>5
  <1>12. Scans(rs, disk, S, u, i)
    BY <1>2, <1>10, <1>11 DEF Scans
  <1> QED
    BY <1>9, <1>12 DEF S, d

LEMMA AddReadDirectoryFills ==
    ASSUME NEW rs, Agreeing(rs, disk), dirs = DirsOf(disk), NEW st, NEW read, NEW n, NEW m,
           Filled(rs, disk, st, read, n), NEW u \in Path, NEW i \in Lays(rs, disk, u),
           Meets(rs, read, n, m, u, i), NEW search \in Path, NEW recursive,
           InOrder(read, Scanned(u, At(rs, i, u), search, recursive), i)
    PROVE  Filled(rs, disk, AddReadDirectory(st, u, At(rs, i, u), search, recursive),
                  ReadMore(read, Scanned(u, At(rs, i, u), search, recursive), i), m)
  <1> DEFINE d == At(rs, i, u)
             S == Scanned(u, d, search, recursive)
             mid == AddReadFolder(st, u, d)
  <1>1. AddReadDirectory(st, u, d, search, recursive) = AddEntries(mid, u, d, S)
    <2>1. IsDir(d)
      BY DEF Lays, IsDir
    <2> QED
      BY <2>1 DEF AddReadDirectory
  <1>2. Filled(rs, disk, mid, read, m)
    BY AddReadFolderFills
  <1>3. Scans(rs, disk, S, u, i)
    BY ScannedScans
  <1>4. i \in Known(rs, disk, read, m, u)
    BY DEF Meets, Known
  <1>5. InOrder(read, S, i)
    OBVIOUS
  <1> HIDE DEF S, mid
  <1>6. Filled(rs, disk, AddEntries(mid, u, d, S), ReadMore(read, S, i), m)
    BY <1>2, <1>3, <1>4, <1>5, AddEntriesFills
  <1> QED
    BY <1>1, <1>6 DEF S

-----------------------------------------------------------------------------
(* A lookup that is over has scanned all the directories of a folder, or none *)

Whole(rs, files, read) ==
    /\ read = [v \in Path |-> read[v]]
    /\ \A v \in Path : read[v] = {} \/ read[v] = Lays(rs, files, v)

\* When all records are loaded.
Settled(rs, files, st, read) ==
    Filled(rs, files, st, read, Len(rs)) /\ Whole(rs, files, read)

\* Then all the directories of a folder are known, or none, and so for its files.
LEMMA SettledIs ==
    ASSUME NEW rs, NEW files, Agreeing(rs, files), NEW st, NEW read,
           Settled(rs, files, st, read), NEW q \in Path
    PROVE  /\ Known(rs, files, read, Len(rs), q) # {}
                => Known(rs, files, read, Len(rs), q) = Lays(rs, files, q)
           /\ Mapping(rs, files, read, Len(rs), q) # {}
                => Mapping(rs, files, read, Len(rs), q) = Holds(rs, files, q)
  <1> DEFINE n == Len(rs)
  <1>1. /\ rs \in VfsFiles /\ files \in Trees /\ LayersAgree(rs, files)
        /\ n \in Nat /\ DOMAIN rs = 1..n
    BY DEF Agreeing
  <1>2. \A v \in Path : read[v] = {} \/ read[v] = Lays(rs, files, v)
    BY DEF Settled, Whole
  <1>3. ASSUME NEW i \in Seen(rs, read, n, q),
               NEW j \in Lays(rs, files, q) \cup Holds(rs, files, q)
        PROVE  j \in Seen(rs, read, n, q)
    <2>1. i \in Covers(rs, q) /\ j \in Covers(rs, q)
      BY DEF Seen, Lays, Holds
    <2>2. rs[i].virtual = rs[j].virtual
      BY <1>1, <2>1, SameFolder
    <2>3. CASE rs[j].virtual = q
      BY <1>1, <2>1, <2>3 DEF Seen, Covers
    <2>4. CASE rs[j].virtual # q
      <3>1. i \in read[Parent(q)]
        BY <2>2, <2>4 DEF Seen
      <3>2. j \in Covers(rs, Parent(q)) /\ Parent(q) \in Path /\ q # << >>
        BY <1>1, <2>1, <2>4, AtIs
      <3>3. IsPrefix(Parent(q), q) /\ Parent(q) # q
        BY <3>2, ParentLast DEF Path
      <3>4. j \in Lays(rs, files, Parent(q))
        BY <1>1, <3>2, <3>3, LaysAbove
      <3> QED
        BY <1>2, <2>1, <2>4, <3>1, <3>2, <3>4 DEF Seen
    <2> QED
      BY <2>3, <2>4
  <1> QED
    BY <1>3 DEF Known, Mapping

\* The table of the W records.
Wrote(rs) ==
    \A v \in DOMAIN write_mappings : \E w \in DOMAIN rs :
        rs[w].op = "W" /\ rs[w].virtual = v /\ write_mappings[v] = rs[w].real

\* The place for a new file is that of the last record of its folder.
LEMMA WriteMappingAt ==
    ASSUME NEW rs, NEW files, Agreeing(rs, files), Wrote(rs), DOMAIN Suffix = {},
           NEW u \in Path
    PROVE  \/ WriteMapping(u) = << >>
           \/ \E w \in Covers(rs, u) : /\ WriteMapping(u) = <<At(rs, w, u)>>
                                       /\ \A j \in Covers(rs, u) : j <= w
  <1> DEFINE places == UNION {{write_mappings[v] \o rest : rest \in Rests(v, u)} :
                                 v \in DOMAIN write_mappings}
  <1>1. rs \in VfsFiles /\ LayersAgree(rs, files) /\ files \in Trees
    BY DEF Agreeing
  <1>2. WriteMapping(u) = IF places = {} THEN << >> ELSE <<CHOOSE q \in places : TRUE>>
    BY DEF WriteMapping
  <1>3. ASSUME NEW d \in places
        PROVE  \E w \in Covers(rs, u) : d = At(rs, w, u) /\ \A j \in Covers(rs, u) : j <= w
    <2>0. PICK v \in DOMAIN write_mappings :
             \E rest \in Rests(v, u) : d = write_mappings[v] \o rest
      OBVIOUS
    <2>1. PICK rest \in Rests(v, u) : d = write_mappings[v] \o rest
      BY <2>0
    <2>2. IsPrefix(v, u) /\ rest = SubSeq(u, Len(v) + 1, Len(u))
      BY <2>1 DEF Rests
    <2>3. PICK w \in DOMAIN rs :
             rs[w].op = "W" /\ rs[w].virtual = v /\ write_mappings[v] = rs[w].real
      BY DEF Wrote
    <2>4. w \in Covers(rs, u) /\ d = At(rs, w, u)
      BY <2>1, <2>2, <2>3 DEF Covers, At, Relocate
    <2>5. \A j \in Covers(rs, u) : rs[j].virtual = rs[w].virtual /\ j \in DOMAIN rs
      <3>1. \A j \in Covers(rs, u) : rs[j].virtual = rs[w].virtual
        BY <1>1, <2>4, SameFolder
      <3> QED
        BY <3>1 DEF Covers
    <2>6. \A j \in {k \in DOMAIN rs : rs[k].virtual = rs[w].virtual} : j <= w
      BY <1>1, <2>3 DEF LayersAgree
    <2> QED
      BY <2>4, <2>5, <2>6
  <1> HIDE DEF places
  <1>4. CASE places = {}
    BY <1>2, <1>4
  <1>5. CASE places # {}
    <2>1. (CHOOSE q \in places : TRUE) \in places
      BY <1>5
    <2> QED
      BY <1>2, <1>3, <1>5, <2>1
  <1> QED
    BY <1>4, <1>5

\* What has been scanned below u when the first k directories have been explored on
\* the way to p.
ScannedBy(rs, files, read, u, p, vec, k) ==
    [v \in Path |->
        read[v] \cup {i \in Lays(rs, files, u) :
                         /\ v \in Scanned(u, At(rs, i, u), p, FALSE)
                         /\ \E l \in 1..k : vec[l] = At(rs, i, u)}]

\* The directories vec for u: all that exist, in the order of their records.
Visits(rs, files, vec, u) ==
    /\ vec \in Seq(Path) /\ Len(vec) \in Nat
    /\ \A k \in 1..Len(vec) : \E i \in Covers(rs, u) : vec[k] = At(rs, i, u)
    /\ \A i \in Lays(rs, files, u) : \E k \in 1..Len(vec) : vec[k] = At(rs, i, u)
    /\ \A k, l \in 1..Len(vec) : \A i, j \in Lays(rs, files, u) :
          vec[l] = At(rs, j, u) /\ vec[k] = At(rs, i, u) /\ l <= k => j <= i

\* A folder is explored from all its directories, in their order, and from the write
\* directory, which is the last.
LEMMA FolderVecAt ==
    ASSUME NEW rs, Agreeing(rs, disk), Wrote(rs), DOMAIN Suffix = {}, NEW st, NEW read,
           Settled(rs, disk, st, read), NEW u \in DOMAIN st.folders, u \in Path,
           Covers(rs, u) # {}
    PROVE  /\ Visits(rs, disk, FolderVec(st, u), u)
           /\ Known(rs, disk, read, Len(rs), u) = Lays(rs, disk, u)
           /\ Lays(rs, disk, u) # {}
  <1> DEFINE n == Len(rs)
             L == Lays(rs, disk, u)
             paths == st.folders[u].paths
             write == WriteMapping(u)
             vec == FolderVec(st, u)
  <1>1. /\ rs \in VfsFiles /\ disk \in Trees /\ LayersAgree(rs, disk)
        /\ n \in Nat /\ DOMAIN rs = 1..n
    BY DEF Agreeing
  <1>2. /\ FilledFolder(rs, disk, st.folders[u], read, n, u)
        /\ Known(rs, disk, read, n, u) # {}
    BY DEF Settled, Filled, FilledFolders
  <1>3. Known(rs, disk, read, n, u) = L
    BY <1>2, SettledIs
  <1>4. Lists(rs, paths, L, u)
    BY <1>2, <1>3 DEF FilledFolder
  <1>5. paths \in Seq(Path) /\ Len(paths) \in Nat
    <2>1. st \in Tables(DirsOf(disk))
      BY DEF Settled, Filled, Good
    <2>2. st.folders[u] \in Folder(DirsOf(disk))
      BY <2>1 DEF Tables, Maps
    <2>3. DirsOf(disk) \subseteq Path
      BY DEF Agreeing, Tree, Dirs
    <2> QED
      BY <2>2, <2>3 DEF Folder
  <1>6. \A i \in L : i \in Covers(rs, u) /\ i \in Nat
    BY <1>1 DEF Lays, Covers
  <1>7. /\ \A k \in 1..Len(paths) : \E i \in L : paths[k] = At(rs, i, u)
        /\ \A i \in L : \E k \in 1..Len(paths) : paths[k] = At(rs, i, u)
        /\ \A k, l \in 1..Len(paths) : \A i, j \in L :
              paths[l] = At(rs, j, u) /\ paths[k] = At(rs, i, u) /\ l <= k => j <= i
    <2>1. ASSUME NEW k \in 1..Len(paths), NEW l \in 1..Len(paths), NEW i \in L, NEW j \in L,
                 paths[l] = At(rs, j, u), paths[k] = At(rs, i, u), l <= k
          PROVE  j <= i
      <3>1. CASE l < k
        <4>1. j < i
          BY <1>4, <2>1, <3>1 DEF Lists
        <4> QED
          BY <1>6, <4>1
      <3>2. CASE l = k
        <4>1. At(rs, i, u) = At(rs, j, u)
          BY <2>1, <3>2
        <4>2. i = j
          BY <1>1, <1>6, <4>1, AtApart
        <4> QED
          BY <1>6, <4>2
      <3> QED
        BY <1>5, <2>1, <3>1, <3>2
    <2>2. \A i \in L : \E k \in 1..Len(paths) : paths[k] = At(rs, i, u)
      BY <1>4, <1>5 DEF Lists, ToSet
    <2>3. \A k \in 1..Len(paths) : \E i \in L : paths[k] = At(rs, i, u)
      BY <1>4 DEF Lists
    <2> QED
      BY <2>1, <2>2, <2>3
  <1>8. vec = paths \o write
    BY DEF FolderVec
  <1> HIDE DEF paths, write, vec, L
  <1>9. CASE write = << >>
    <2>1. vec = paths
      BY <1>5, <1>8, <1>9
    <2>2. \A k \in 1..Len(vec) : \E i \in Covers(rs, u) : vec[k] = At(rs, i, u)
      BY <1>6, <1>7, <2>1
    <2>3. Visits(rs, disk, vec, u)
      BY <1>5, <1>7, <2>1, <2>2 DEF Visits, L
    <2> QED
      BY <1>2, <1>3, <2>3 DEF vec, L
  <1>10. CASE \E w \in Covers(rs, u) : /\ write = <<At(rs, w, u)>>
                                       /\ \A j \in Covers(rs, u) : j <= w
    <2>1. PICK w \in Covers(rs, u) : write = <<At(rs, w, u)>> /\ \A j \in Covers(rs, u) : j <= w
      BY <1>10
    <2> DEFINE d == At(rs, w, u)
               m == Len(paths) + 1
    <2>2. d \in Path
      BY <1>1, AtIs
    <2> HIDE DEF d
    <2>3. vec = Append(paths, d)
      BY <1>5, <1>8, <2>1, <2>2 DEF d
    <2>4. /\ vec \in Seq(Path) /\ Len(vec) = m /\ m \in Nat /\ vec[m] = d
          /\ \A k \in 1..Len(paths) : vec[k] = paths[k]
      BY <1>5, <2>2, <2>3
    <2>5. \A k \in 1..Len(vec) : k = m \/ k \in 1..Len(paths)
      BY <1>5, <2>4
    <2>6. \A k \in 1..Len(vec) : \E i \in Covers(rs, u) : vec[k] = At(rs, i, u)
      BY <1>6, <1>7, <2>4, <2>5 DEF d
    <2>7. \A i \in L : \E k \in 1..Len(vec) : vec[k] = At(rs, i, u)
      <3>1. \A k \in 1..Len(paths) : k \in 1..Len(vec)
        BY <1>5, <2>4
      <3> QED
        BY <1>7, <2>4, <3>1
    <2>8. ASSUME NEW k \in 1..Len(vec), NEW l \in 1..Len(vec), NEW i \in L, NEW j \in L,
                 vec[l] = At(rs, j, u), vec[k] = At(rs, i, u), l <= k
          PROVE  j <= i
      <3>1. CASE k = m
        <4>1. At(rs, i, u) = At(rs, w, u)
          BY <2>4, <2>8, <3>1 DEF d
        <4>2. i = w
          BY <1>1, <1>6, <4>1, AtApart
        <4> QED
          BY <1>6, <2>1, <4>2
      <3>2. CASE k \in 1..Len(paths)
        <4>1. l \in 1..Len(paths)
          BY <1>5, <2>8, <3>2
        <4>2. paths[l] = At(rs, j, u) /\ paths[k] = At(rs, i, u)
          BY <2>4, <2>8, <3>2, <4>1
        <4> QED
          BY <1>7, <2>8, <3>2, <4>1, <4>2
      <3> QED
        BY <2>5, <3>1, <3>2
    <2>9. Visits(rs, disk, vec, u)
      BY <2>4, <2>6, <2>7, <2>8 DEF Visits, L
    <2> QED
      BY <1>2, <1>3, <2>9 DEF vec, L
  <1>11. write = << >> \/ \E w \in Covers(rs, u) : /\ write = <<At(rs, w, u)>>
                                                  /\ \A j \in Covers(rs, u) : j <= w
    BY WriteMappingAt DEF write
  <1> QED
    BY <1>9, <1>10, <1>11

\* One directory of the folder.
LEMMA ExploreFillsOne ==
    ASSUME NEW rs, Agreeing(rs, disk), dirs = DirsOf(disk), NEW u \in Path, NEW p \in Path,
           NEW vec, Visits(rs, disk, vec, u), Lays(rs, disk, u) # {},
           NEW read, Closed(rs, disk, read, Len(rs)), read[u] = {},
           Lays(rs, disk, u) \subseteq Seen(rs, read, Len(rs), u),
           NEW k \in 1..Len(vec), NEW x,
           Filled(rs, disk, x, ScannedBy(rs, disk, read, u, p, vec, k - 1), Len(rs))
    PROVE  Filled(rs, disk, AddReadDirectory(x, u, vec[k], p, FALSE),
                  ScannedBy(rs, disk, read, u, p, vec, k), Len(rs))
  <1> DEFINE n == Len(rs)
             L == Lays(rs, disk, u)
             before == ScannedBy(rs, disk, read, u, p, vec, k - 1)
             after == ScannedBy(rs, disk, read, u, p, vec, k)
             S(i) == Scanned(u, At(rs, i, u), p, FALSE)
             Gone(i, m) == \E l \in 1..m : vec[l] = At(rs, i, u)
  <1>1. /\ rs \in VfsFiles /\ disk \in Trees /\ LayersAgree(rs, disk)
        /\ n \in Nat /\ DOMAIN rs = 1..n /\ Len(vec) \in Nat
        /\ 1..k - 1 \subseteq 1..Len(vec) /\ 1..k \subseteq 1..Len(vec)
        /\ 1..k = (1..k - 1) \cup {k}
    <2>1. Len(vec) \in Nat
      BY DEF Visits
    <2> QED
      BY <2>1 DEF Agreeing
  <1>2. PICK i \in Covers(rs, u) : vec[k] = At(rs, i, u)
    BY DEF Visits
  <1>3. /\ \A v \in Path : before[v] = read[v] \cup {j \in L : v \in S(j) /\ Gone(j, k - 1)}
        /\ \A v \in Path : after[v] = read[v] \cup {j \in L : v \in S(j) /\ Gone(j, k)}
        /\ after = [v \in Path |-> after[v]] /\ before = [v \in Path |-> before[v]]
    BY DEF ScannedBy
  <1>4. \A j \in L : Gone(j, k) <=> Gone(j, k - 1) \/ j = i
    <2>1. \A j \in L : j \in Covers(rs, u)
      BY DEF Lays
    <2>2. \A j \in L : At(rs, j, u) = At(rs, i, u) => j = i
      BY <1>1, <2>1, AtApart
    <2> QED
      BY <1>1, <1>2, <2>2
  <1>5. CASE i \notin L
    <2>1. PICK w \in L : TRUE
      OBVIOUS
    <2>2. w \in Covers(rs, u) /\ At(rs, w, u) \in DirsOf(disk)
      BY DEF Lays
    <2>3. At(rs, i, u) \notin disk
      BY <1>1, <2>2, Kinds
    <2>4. At(rs, i, u) \notin dirs
      BY <1>5 DEF Lays
    <2>5. AddReadDirectory(x, u, vec[k], p, FALSE) = x
      BY <1>2, <2>3, <2>4 DEF AddReadDirectory, IsDir
    <2>6. \A v \in Path : after[v] = before[v]
      <3> HIDE DEF after, before, Gone, S, L
      <3>1. ASSUME NEW v \in Path PROVE after[v] = before[v]
        <4>1. /\ before[v] = read[v] \cup {j \in L : v \in S(j) /\ Gone(j, k - 1)}
              /\ after[v] = read[v] \cup {j \in L : v \in S(j) /\ Gone(j, k)}
          BY <1>3
        <4>2. \A j \in L : Gone(j, k) <=> Gone(j, k - 1)
          BY <1>4, <1>5
        <4> QED
          BY <4>1, <4>2
      <3> QED
        BY <3>1
    <2>7. after = before
      <3> HIDE DEF after, before
      <3>1. [v \in Path |-> after[v]] = [v \in Path |-> before[v]]
        BY <2>6
      <3> QED
        BY <1>3, <3>1
    <2> HIDE DEF after, before
    <2> QED
      BY <2>5, <2>7 DEF after, before
  <1>6. CASE i \in L
    <2>1. /\ Scans(rs, disk, S(i), u, i)
          /\ \A j \in L : u \in S(j)
      <3>1. Scans(rs, disk, S(i), u, i)
        BY <1>6, ScannedScans
      <3> QED
        BY <3>1 DEF Scanned
    <2>2. after = ReadMore(before, S(i), i)
      <3>1. \A v \in Path : after[v] = IF v \in S(i) THEN before[v] \cup {i} ELSE before[v]
        <4> HIDE DEF after, before, Gone, S, L
        <4>1. ASSUME NEW v \in Path
              PROVE  after[v] = IF v \in S(i) THEN before[v] \cup {i} ELSE before[v]
          <5>1. \A j : j \in after[v] <=> j \in before[v] \/ (j = i /\ v \in S(i))
            BY <1>3, <1>4, <1>6
          <5> QED
            BY <5>1
        <4> QED
          BY <4>1
      <3> HIDE DEF after, before, S
      <3>2. [v \in Path |-> after[v]] =
              [v \in Path |-> IF v \in S(i) THEN before[v] \cup {i} ELSE before[v]]
        BY <3>1
      <3> QED
        BY <1>3, <3>2 DEF ReadMore
    <2>3. InOrder(before, S(i), i)
      <3> SUFFICES ASSUME NEW w \in S(i), NEW j \in before[w]
                   PROVE  j <= i
        BY DEF InOrder
      <3>1. w \in Path /\ IsPrefix(u, w) /\ i \in Covers(rs, w)
        BY <2>1 DEF Scans, Lays
      <3>2. CASE j \in read[w]
        <4>1. j \in Covers(rs, w)
          BY <3>1, <3>2 DEF Closed, Known, Lays
        <4>2. rs[j].virtual = rs[i].virtual
          BY <1>1, <3>1, <4>1, SameFolder
        <4>3. j \in Covers(rs, u)
          BY <1>2, <4>1, <4>2 DEF Covers
        <4>4. j \in read[u]
          BY <3>1, <3>2, <4>3 DEF Closed
        <4> QED
          BY <4>4
      <3>3. CASE j \in L /\ Gone(j, k - 1)
        <4>1. PICK l \in 1..k - 1 : vec[l] = At(rs, j, u)
          BY <3>3
        <4>2. l \in 1..Len(vec) /\ l <= k
          BY <1>1, <4>1
        <4> QED
          BY <1>2, <1>6, <3>3, <4>1, <4>2 DEF Visits
      <3> QED
        BY <1>3, <3>1, <3>2, <3>3
    <2>4. i \in Seen(rs, before, n, u)
      <3>1. i \in Seen(rs, read, n, u) /\ Parent(u) \in Path
        BY <1>1, <1>2, <1>6, AtIs
      <3>2. i \in read[Parent(u)] => i \in before[Parent(u)]
        BY <1>3, <3>1
      <3> HIDE DEF before
      <3> QED
        BY <3>1, <3>2 DEF Seen
    <2>5. Meets(rs, before, n, n, u, i)
      <3>1. n \in Nat
        BY <1>1
      <3> HIDE DEF before, n
      <3>2. n # n + 1
        BY <3>1
      <3> QED
        BY <2>4, <3>1, <3>2 DEF Meets
    <2> HIDE DEF before, after, n
    <2>6. Filled(rs, disk, AddReadDirectory(x, u, At(rs, i, u), p, FALSE),
                 ReadMore(before, S(i), i), n)
      <3>1. Filled(rs, disk, x, before, n)
        BY DEF before, n
      <3> QED
        BY <1>6, <2>3, <2>5, <3>1, AddReadDirectoryFills
    <2> QED
      BY <1>2, <2>2, <2>6 DEF before, after, n
  <1> QED
    BY <1>5, <1>6

\* Exploring a folder on the way to p scans all the directories of the folder, and
\* those of the folders between it and p.
LEMMA ExploreFills ==
    ASSUME NEW rs, Agreeing(rs, disk), dirs = DirsOf(disk), Wrote(rs), DOMAIN Suffix = {},
           NEW st, NEW read, Settled(rs, disk, st, read),
           NEW u \in DOMAIN st.folders, u \in Path, Covers(rs, u) # {}, read[u] = {},
           NEW p \in Path, IsPrefix(u, p)
    PROVE  \E more : /\ Settled(rs, disk, Explore(st, u, p), more)
                     /\ \A v \in Path : read[v] \subseteq more[v]
                     /\ \A v \in OnPath(p) : IsPrefix(u, v) => more[v] = Lays(rs, disk, v)
  <1> DEFINE n == Len(rs)
             vec == FolderVec(st, u)
             L == Lays(rs, disk, u)
             K == Len(vec)
             By(k) == ScannedBy(rs, disk, read, u, p, vec, k)
             T == [k \in 0..K |-> {x \in Tables(dirs) : Filled(rs, disk, x, By(k), n)}]
             more == By(K)
  <1>1. /\ Visits(rs, disk, vec, u) /\ L # {} /\ L \subseteq Seen(rs, read, n, u)
    <2>1. Visits(rs, disk, vec, u) /\ L # {} /\ Known(rs, disk, read, n, u) = L
      BY FolderVecAt
    <2> QED
      BY <2>1 DEF Known
  <1>2. vec \in Seq(Path) /\ K \in Nat
    BY <1>1 DEF Visits
  <1>3. /\ Filled(rs, disk, st, read, n) /\ Closed(rs, disk, read, n)
        /\ read = [v \in Path |-> read[v]]
        /\ \A v \in Path : read[v] = {} \/ read[v] = Lays(rs, disk, v)
    BY DEF Settled, Whole, Filled
  <1>4. By(0) = read
    <2>1. \A v \in Path : By(0)[v] = read[v]
      BY DEF ScannedBy
    <2>2. By(0) = [v \in Path |-> By(0)[v]]
      BY DEF ScannedBy
    <2> HIDE DEF By
    <2>3. [v \in Path |-> By(0)[v]] = [v \in Path |-> read[v]]
      BY <2>1
    <2> QED
      BY <1>3, <2>2, <2>3
  <1>5. st \in T[0]
    <2>1. st \in Tables(dirs)
      BY <1>3 DEF Filled, Good
    <2> HIDE DEF By
    <2> QED
      BY <1>2, <1>3, <1>4, <2>1
  <1>6. ASSUME NEW k \in 1..K, NEW x \in T[k - 1]
        PROVE  AddReadDirectory(x, u, vec[k], p, FALSE) \in T[k]
    <2> DEFINE new == AddReadDirectory(x, u, vec[k], p, FALSE)
    <2>1. k - 1 \in 0..K /\ k \in 0..K
      BY <1>2
    <2>2. Filled(rs, disk, x, By(k - 1), n)
      BY <2>1
    <2>3. Filled(rs, disk, new, By(k), n)
      BY <1>1, <1>3, <2>2, ExploreFillsOne
    <2>4. new \in Tables(dirs)
      BY <2>3 DEF Filled, Good
    <2> HIDE DEF new, By, K
    <2> QED
      BY <2>1, <2>3, <2>4 DEF new
  <1>7. Explore(st, u, p) \in T[K]
    <2> HIDE DEF T
    <2> QED
      BY <1>2, <1>5, <1>6, ExploreSteps
  <1>8. Filled(rs, disk, Explore(st, u, p), more, n)
    BY <1>2, <1>7
  <1>9. rs \in VfsFiles /\ disk \in Trees /\ u \in Seq(N) /\ p \in Seq(N)
    BY DEF Agreeing, Path
  <1>10. ASSUME NEW v \in Path
         PROVE  more[v] = read[v] \cup
                   {i \in L : v = u \/ (v \in OnPath(p) /\ IsStrictPrefix(u, v)
                                        /\ i \in Lays(rs, disk, v))}
    <2>1. more[v] = read[v] \cup {i \in L : v \in Scanned(u, At(rs, i, u), p, FALSE)
                                           /\ \E l \in 1..K : vec[l] = At(rs, i, u)}
      BY DEF ScannedBy
    <2>2. \A i \in L : \E l \in 1..K : vec[l] = At(rs, i, u)
      BY <1>1 DEF Visits
    <2>3. \A i \in L : v \in Scanned(u, At(rs, i, u), p, FALSE) <=>
                          \/ v = u
                          \/ v \in OnPath(p) /\ IsStrictPrefix(u, v) /\ i \in Lays(rs, disk, v)
      BY ScannedScans
    <2> HIDE DEF L, more, K, vec
    <2> QED
      BY <2>1, <2>2, <2>3
  <1>11. ASSUME NEW v \in Path, v = u \/ (v \in OnPath(p) /\ IsStrictPrefix(u, v))
         PROVE  more[v] = Lays(rs, disk, v)
    <2>1. CASE v = u
      <3> HIDE DEF L, more
      <3> QED
        BY <1>10, <2>1 DEF L
    <2>2. CASE v \in OnPath(p) /\ IsStrictPrefix(u, v) /\ v # u
      <3>1. PICK j \in Covers(rs, u) : TRUE
        OBVIOUS
      <3>2. j \in Covers(rs, v)
        BY <1>9, <2>2, AtBelow DEF IsStrictPrefix
      <3>3. \A i \in Lays(rs, disk, v) : i \in Covers(rs, u)
        <4> SUFFICES ASSUME NEW i \in Lays(rs, disk, v) PROVE i \in Covers(rs, u)
          OBVIOUS
        <4>1. i \in Covers(rs, v) /\ LayersAgree(rs, disk)
          BY DEF Lays, Agreeing
        <4>2. rs[i].virtual = rs[j].virtual
          BY <1>9, <3>2, <4>1, SameFolder
        <4> QED
          BY <4>1, <4>2 DEF Covers
      <3>4. \A i \in Lays(rs, disk, v) : i \in L
        BY <1>9, <2>2, <3>3, LaysAbove DEF IsStrictPrefix
      <3> HIDE DEF L, more
      <3> QED
        BY <1>3, <1>10, <2>2, <3>4
    <2> QED
      BY <1>11, <2>1, <2>2 DEF IsStrictPrefix
  <1>12. Whole(rs, disk, more)
    <2>1. more = [v \in Path |-> more[v]]
      BY DEF ScannedBy
    <2>2. ASSUME NEW v \in Path PROVE more[v] = {} \/ more[v] = Lays(rs, disk, v)
      <3> HIDE DEF more, L
      <3> QED
        BY <1>3, <1>10, <1>11
    <2> HIDE DEF more
    <2> QED
      BY <2>1, <2>2 DEF Whole
  <1>13. \A v \in Path : read[v] \subseteq more[v]
    <2> HIDE DEF more, L
    <2> QED
      BY <1>10
  <1>14. \A v \in OnPath(p) : IsPrefix(u, v) => more[v] = Lays(rs, disk, v)
    <2>1. \A v \in OnPath(p) : v \in Path
      BY <1>9, OnPathIs DEF Path
    <2> HIDE DEF more
    <2> QED
      BY <1>11, <2>1 DEF IsStrictPrefix
  <1> HIDE DEF more
  <1>15. Settled(rs, disk, Explore(st, u, p), more)
    BY <1>8, <1>12 DEF Settled
  <1> QED
    BY <1>13, <1>14, <1>15

\* A lookup is decided by the folders on its path that have a known directory.
LEMMA DecidingIs ==
    ASSUME NEW rs, Agreeing(rs, disk), Wrote(rs), DOMAIN Suffix = {}, NEW st, NEW read,
           Settled(rs, disk, st, read), NEW p \in Path
    PROVE  /\ \A v \in Deciding(st, p) :
                 /\ v \in DOMAIN st.folders /\ v \in OnPath(p) /\ Covers(rs, v) # {}
                 /\ Known(rs, disk, read, Len(rs), v) # {}
                 /\ st.folders[v].explored <=> read[v] # {}
           /\ \A v \in OnPath(p) :
                 Known(rs, disk, read, Len(rs), v) # {} => v \in Deciding(st, p)
  <1> DEFINE n == Len(rs)
  <1>1. /\ FilledFolders(rs, disk, st.folders, read, n) /\ Closed(rs, disk, read, n)
        /\ st.folders \in Maps(Path, Folder(DirsOf(disk)))
        /\ rs \in VfsFiles /\ p \in Seq(N) /\ DirsOf(disk) \subseteq Path
    <2>1. DirsOf(disk) \subseteq Path
      BY DEF Agreeing, Tree, Dirs
    <2> QED
      BY <2>1 DEF Settled, Filled, Good, Tables, Path, Agreeing
  <1>2. ASSUME NEW v \in DOMAIN st.folders
        PROVE  /\ v \in Path /\ st.folders[v].paths \in Seq(Path)
               /\ st.folders[v].explored <=> read[v] # {}
               /\ Lists(rs, st.folders[v].paths, Known(rs, disk, read, n, v), v)
               /\ Covers(rs, v) # {} => Known(rs, disk, read, n, v) # {}
    <2>1. v \in Path /\ st.folders[v] \in Folder(DirsOf(disk))
      BY <1>1, MapsIs
    <2>2. st.folders[v].paths \in Seq(Path)
      BY <1>1, <2>1 DEF Folder
    <2> QED
      BY <1>1, <2>1, <2>2 DEF FilledFolders, FilledFolder
  <1>3. ASSUME NEW v \in Deciding(st, p)
        PROVE  /\ v \in DOMAIN st.folders /\ v \in OnPath(p) /\ Covers(rs, v) # {}
               /\ Known(rs, disk, read, n, v) # {}
               /\ st.folders[v].explored <=> read[v] # {}
    <2>1. v \in DOMAIN st.folders /\ IsPrefix(v, p)
          /\ (st.folders[v].explored \/ FolderVec(st, v) # << >>)
      BY DEF Deciding
    <2>2. v \in OnPath(p)
      BY <1>1, <1>2, <2>1, OnPathIs DEF Path
    <2>3. CASE read[v] # {}
      <3>1. Known(rs, disk, read, n, v) # {}
        BY <1>1, <1>2, <2>1, <2>3 DEF Closed
      <3> QED
        BY <1>2, <2>1, <2>2, <3>1 DEF Known, Lays
    <2>4. CASE read[v] = {}
      <3>1. st.folders[v].paths \o WriteMapping(v) # << >>
        BY <1>2, <2>1, <2>4 DEF FolderVec
      <3>2. CASE WriteMapping(v) = << >>
        <4>1. st.folders[v].paths # << >> /\ 1 \in 1..Len(st.folders[v].paths)
          BY <1>2, <2>1, <3>1, <3>2
        <4>2. Known(rs, disk, read, n, v) # {}
          BY <1>2, <2>1, <4>1 DEF Lists
        <4> QED
          BY <1>2, <2>1, <2>2, <4>2 DEF Known, Lays
      <3>3. CASE WriteMapping(v) # << >>
        <4>1. Covers(rs, v) # {}
          BY <1>2, <2>1, <3>3, WriteMappingAt
        <4> QED
          BY <1>2, <2>1, <2>2, <4>1
      <3> QED
        BY <3>2, <3>3
    <2> QED
      BY <2>3, <2>4
  <1>4. ASSUME NEW v \in OnPath(p), Known(rs, disk, read, n, v) # {}
        PROVE  v \in Deciding(st, p)
    <2>1. v \in Path /\ IsPrefix(v, p)
      BY <1>1, OnPathIs DEF Path
    <2>2. v \in DOMAIN st.folders
      BY <1>1, <1>4, <2>1 DEF FilledFolders
    <2>3. PICK i \in Known(rs, disk, read, n, v) : TRUE
      BY <1>4
    <2>4. v # << >>
      BY <1>1, <2>1, <2>3, AtIs DEF Known, Lays
    <2>5. At(rs, i, v) \in ToSet(st.folders[v].paths)
      BY <1>2, <2>2, <2>3 DEF Lists
    <2>6. st.folders[v].paths # << >>
      BY <2>5 DEF ToSet
    <2>7. FolderVec(st, v) # << >>
      <3>1. WriteMapping(v) = << >> \/ \E w \in Covers(rs, v) : WriteMapping(v) = <<At(rs, w, v)>>
        BY <2>1, WriteMappingAt
      <3>2. WriteMapping(v) \in Seq(Path)
        <4>1. \A w \in Covers(rs, v) : At(rs, w, v) \in Path
          BY <1>1, <2>1, AtIs
        <4>2. \A w \in Covers(rs, v) : <<At(rs, w, v)>> \in Seq(Path)
          <5> SUFFICES ASSUME NEW w \in Covers(rs, v)
                       PROVE  <<At(rs, w, v)>> \in Seq(Path)
            OBVIOUS
          <5> DEFINE d == At(rs, w, v)
          <5>1. d \in Path
            BY <4>1
          <5> HIDE DEF d
          <5>2. <<d>> \in Seq(Path)
            BY <5>1
          <5> QED
            BY <5>2 DEF d
        <4>3. << >> \in Seq(Path)
          OBVIOUS
        <4> QED
          BY <3>1, <4>2, <4>3
      <3> QED
        BY <1>2, <2>2, <2>6, <3>2 DEF FolderVec
    <2> QED
      BY <2>1, <2>2, <2>4, <2>7 DEF Deciding
  <1> QED
    BY <1>3, <1>4

LEMMA SeenGrows ==
    ASSUME NEW rs \in VfsFiles, NEW read, NEW more, \A v \in Path : read[v] \subseteq more[v],
           NEW n, NEW q \in Path
    PROVE  Seen(rs, read, n, q) \subseteq Seen(rs, more, n, q)
  <1> SUFFICES ASSUME NEW i \in Seen(rs, read, n, q)
               PROVE  i \in Seen(rs, more, n, q)
    OBVIOUS
  <1>1. i \in Covers(rs, q)
    BY DEF Seen
  <1>2. Parent(q) \in Path
    BY <1>1, AtIs
  <1> QED
    BY <1>1, <1>2 DEF Seen

\* Wherever a lookup is decided, every layer of its path has been found when it is
\* over: the folder it stops at has been scanned, and so has the last one above the
\* path.
LEMMA FoundFills ==
    ASSUME NEW rs, Agreeing(rs, disk), dirs = DirsOf(disk), Wrote(rs), DOMAIN Suffix = {},
           NEW st, NEW read, Settled(rs, disk, st, read), NEW p \in Path
    PROVE  \E more : /\ Settled(rs, disk, Found(st, p), more)
                     /\ Holds(rs, disk, p) \cup Lays(rs, disk, p)
                           \subseteq Seen(rs, more, Len(rs), p)
  <1> DEFINE n == Len(rs)
             deciding == Deciding(st, p)
             u == LongestOf(deciding)
             layers == Holds(rs, disk, p) \cup Lays(rs, disk, p)
  <1>1. /\ rs \in VfsFiles /\ disk \in Trees /\ LayersAgree(rs, disk)
        /\ n \in Nat /\ DOMAIN rs = 1..n
    BY DEF Agreeing
  <1>2. /\ Filled(rs, disk, st, read, n) /\ Closed(rs, disk, read, n)
        /\ p \in Seq(N) /\ p \in OnPath(p)
        /\ \A v \in Path : read[v] = {} \/ read[v] = Lays(rs, disk, v)
    <2>1. p \in Seq(N) /\ p \in OnPath(p)
      BY OnPathIs DEF Path
    <2> QED
      BY <2>1 DEF Settled, Filled, Whole
  <1>3. ASSUME NEW v \in deciding
        PROVE  /\ v \in DOMAIN st.folders /\ v \in Path /\ IsPrefix(v, p) /\ v \in OnPath(p)
               /\ Covers(rs, v) # {} /\ Known(rs, disk, read, n, v) # {}
               /\ st.folders[v].explored <=> read[v] # {}
    BY <1>2, DecidingIs, OnPathIs DEF Path
  <1>4. ASSUME NEW i \in layers
        PROVE  /\ i \in Covers(rs, p) /\ i <= n
               /\ \A v \in Path : Covers(rs, v) # {} /\ IsPrefix(v, p)
                     => /\ i \in Covers(rs, v)
                        /\ v # p => i \in Lays(rs, disk, v) /\ rs[i].virtual # p
    <2>1. i \in Covers(rs, p)
      BY DEF Holds, Lays
    <2>2. ASSUME NEW v \in Path, NEW j \in Covers(rs, v), IsPrefix(v, p)
          PROVE  i \in Covers(rs, v)
      <3>1. j \in Covers(rs, p)
        BY <1>1, <2>2, AtBelow
      <3>2. rs[j].virtual = rs[i].virtual
        BY <1>1, <2>1, <3>1, SameFolder
      <3> QED
        BY <2>1, <2>2, <3>2 DEF Covers
    <2>3. ASSUME NEW v \in Path, i \in Covers(rs, v), IsPrefix(v, p), v # p
          PROVE  i \in Lays(rs, disk, v) /\ rs[i].virtual # p
      <3>1. i \in Lays(rs, disk, v)
        BY <1>1, <2>3, LaysAbove
      <3>2. rs[i].virtual # p
        BY <2>3, PrefixBoth DEF Covers
      <3> QED
        BY <3>1, <3>2
    <2> QED
      BY <1>1, <2>1, <2>2, <2>3 DEF Covers
  <1>5. ASSUME NEW i \in layers, rs[i].virtual = p
        PROVE  i \in Seen(rs, read, n, p)
    BY <1>4, <1>5 DEF Seen
  <1>6. ASSUME NEW v \in deciding, v = p, NEW i \in layers
        PROVE  i \in Seen(rs, read, n, p)
    <2>1. Known(rs, disk, read, n, p) = Lays(rs, disk, p) /\ Lays(rs, disk, p) # {}
      BY <1>3, <1>6, SettledIs
    <2>2. i \in Lays(rs, disk, p)
      <3>1. PICK j \in Lays(rs, disk, p) : TRUE
        BY <2>1
      <3>2. i \notin Holds(rs, disk, p)
        BY <1>1, <1>4, <3>1, Kinds DEF Holds, Lays
      <3> QED
        BY <3>2
    <2> QED
      BY <2>1, <2>2 DEF Known
  <1>7. ASSUME Found(st, p) = st, layers \subseteq Seen(rs, read, n, p)
        PROVE  \E more : /\ Settled(rs, disk, Found(st, p), more)
                         /\ layers \subseteq Seen(rs, more, n, p)
    BY <1>7
  <1> HIDE DEF deciding, u, layers
  <1>8. CASE deciding = {}
    <2>1. Found(st, p) = st
      BY <1>8 DEF Found, deciding
    <2>2. ASSUME NEW i \in layers PROVE rs[i].virtual = p
      <3> SUFFICES ASSUME rs[i].virtual # p PROVE FALSE
        OBVIOUS
      <3> DEFINE b == rs[i].virtual
      <3>1. b \in Path /\ IsPrefix(b, p) /\ i \in DOMAIN rs
        BY <1>1, <1>4, AtRest
      <3>2. IsPrefix(b, b)
        BY <3>1, PrefixIs DEF Path
      <3>3. i \in Covers(rs, b)
        BY <3>1, <3>2 DEF Covers
      <3>4. i \in Lays(rs, disk, b)
        BY <1>4, <3>1, <3>3
      <3>5. i \in Known(rs, disk, read, n, b)
        BY <1>4, <3>3, <3>4 DEF Known, Seen
      <3>6. b \in OnPath(p)
        BY <1>2, <3>1, OnPathIs DEF Path
      <3>7. b \in deciding
        BY <3>5, <3>6, DecidingIs DEF deciding
      <3> QED
        BY <1>8, <3>7
    <2> QED
      BY <1>5, <1>7, <2>1, <2>2 DEF layers
  <1>9. CASE deciding # {}
    <2>1. deciding \in SUBSET OnPath(p)
      BY <1>3
    <2>2. u \in deciding /\ \A v \in deciding : Len(v) <= Len(u)
      BY <1>2, <1>9, <2>1, Longest DEF u
    <2>3. CASE p \in DOMAIN st.mapped
      <3>1. Found(st, p) = st
        BY <2>3 DEF Found
      <3>2. Mapping(rs, disk, read, n, p) # {}
        BY <1>2, <2>3 DEF Filled, FilledFiles
      <3>3. Mapping(rs, disk, read, n, p) = Holds(rs, disk, p)
        BY <3>2, SettledIs
      <3>4. PICK j \in Holds(rs, disk, p) : TRUE
        BY <3>2, <3>3
      <3>5. ASSUME NEW i \in layers PROVE i \in Seen(rs, read, n, p)
        <4>1. i \notin Lays(rs, disk, p)
          BY <1>1, <1>4, <3>4, <3>5, Kinds DEF Holds, Lays
        <4> QED
          BY <3>3, <3>5, <4>1 DEF Mapping, layers
      <3> QED
        BY <1>7, <3>1, <3>5 DEF layers
    <2>4. CASE p \notin DOMAIN st.mapped /\ st.folders[u].explored
      <3>1. Found(st, p) = st
        BY <2>4 DEF Found, u, deciding
      <3>2. read[u] = Lays(rs, disk, u)
        BY <1>2, <1>3, <2>2, <2>4
      <3>3. ASSUME NEW i \in layers PROVE i \in Seen(rs, read, n, p)
        <4>1. CASE u = p
          BY <1>6, <2>2, <3>3, <4>1
        <4>2. CASE u # p
          <5>1. i \in Lays(rs, disk, u) /\ i \in Covers(rs, u) /\ rs[i].virtual # p
            BY <1>3, <1>4, <2>2, <3>3, <4>2
          <5>2. PICK c \in Path : c # << >> /\ Parent(c) = u /\ IsPrefix(c, p)
            BY <1>3, <2>2, <4>2, OnPathNext
          <5>3. /\ c \in OnPath(p) /\ Len(u) = Len(c) - 1 /\ Len(c) \in Nat
                /\ IsPrefix(u, c) /\ u # c
            BY <1>2, <5>2, ParentLast, OnPathIs DEF Path
          <5>4. i \in Covers(rs, c) /\ rs[i].virtual # c
            <6>1. i \in Covers(rs, c)
              BY <1>1, <1>3, <2>2, <5>1, <5>2, <5>3, AtBelow
            <6>2. rs[i].virtual # c
              BY <1>3, <2>2, <5>1, <5>2, <5>3, PrefixBoth DEF Covers
            <6> QED
              BY <6>1, <6>2
          <5>5. i \in Seen(rs, read, n, c)
            BY <3>2, <5>1, <5>2, <5>4 DEF Seen
          <5>6. CASE c = p
            BY <5>5, <5>6
          <5>7. CASE c # p
            <6>1. i \in Lays(rs, disk, c)
              BY <1>4, <3>3, <5>2, <5>4, <5>7
            <6>2. i \in Known(rs, disk, read, n, c)
              BY <5>5, <6>1 DEF Known
            <6>3. c \in deciding
              BY <5>3, <6>2, DecidingIs DEF deciding
            <6> QED
              BY <2>2, <5>3, <6>3
          <5> QED
            BY <5>6, <5>7
        <4> QED
          BY <4>1, <4>2
      <3> QED
        BY <1>7, <3>1, <3>3 DEF layers
    <2>5. CASE p \notin DOMAIN st.mapped /\ ~st.folders[u].explored
      <3>1. Found(st, p) = Explore(st, u, p)
        BY <1>9, <2>5 DEF Found, u, deciding
      <3>2. /\ u \in DOMAIN st.folders /\ u \in Path /\ Covers(rs, u) # {} /\ read[u] = {}
            /\ IsPrefix(u, p)
        BY <1>3, <2>2, <2>5
      <3>3. PICK more : /\ Settled(rs, disk, Explore(st, u, p), more)
                        /\ \A v \in Path : read[v] \subseteq more[v]
                        /\ \A v \in OnPath(p) : IsPrefix(u, v)
                              => more[v] = Lays(rs, disk, v)
        BY <3>2, ExploreFills
      <3>4. Seen(rs, read, n, p) \subseteq Seen(rs, more, n, p)
        BY <1>1, <3>3, SeenGrows
      <3>5. ASSUME NEW i \in layers PROVE i \in Seen(rs, more, n, p)
        <4>1. CASE u = p
          BY <1>6, <2>2, <3>4, <3>5, <4>1
        <4>2. CASE u # p
          <5> DEFINE q == Parent(p)
          <5>1. i \in Covers(rs, p) /\ i \in Covers(rs, u) /\ rs[i].virtual # p
            BY <1>4, <3>2, <3>5, <4>2
          <5>2. p # << >> /\ q \in Path /\ i \in Covers(rs, q)
            BY <1>1, <5>1, AtIs
          <5>3. /\ IsPrefix(q, p) /\ q # p /\ IsPrefix(u, q) /\ q \in OnPath(p)
            <6>1. IsPrefix(q, p) /\ q # p /\ IsPrefix(u, q)
              BY <1>2, <3>2, <4>2, <5>2, ParentLast DEF Path
            <6> QED
              BY <1>2, <5>2, <6>1, OnPathIs DEF Path
          <5> HIDE DEF q
          <5>4. i \in Lays(rs, disk, q)
            BY <1>4, <3>5, <5>2, <5>3
          <5>5. i \in more[q]
            BY <3>3, <5>3, <5>4
          <5> QED
            BY <5>1, <5>5 DEF Seen, q
        <4> QED
          BY <4>1, <4>2
      <3> QED
        BY <3>1, <3>3, <3>5 DEF layers
    <2> QED
      BY <2>3, <2>4, <2>5 DEF layers
  <1> QED
    BY <1>8, <1>9

-----------------------------------------------------------------------------
(* Loading the VFS file *)

\* What has been scanned when n records have been read in mode m: with "?full=" the
\* folder of a record and the folders directly in it.
LoadRead(rs, files, n, m) ==
    [v \in Path |-> {j \in Lays(rs, files, v) :
                        m = "full" /\ j <= n /\ Len(v) <= Len(rs[j].virtual) + 1}]

LEMMA LoadWhole ==
    ASSUME NEW rs, NEW files, Agreeing(rs, files), NEW m
    PROVE  Whole(rs, files, LoadRead(rs, files, Len(rs), m))
  <1> DEFINE read == LoadRead(rs, files, Len(rs), m)
  <1>1. /\ rs \in VfsFiles /\ files \in Trees /\ LayersAgree(rs, files)
        /\ Len(rs) \in Nat /\ DOMAIN rs = 1..Len(rs)
    BY DEF Agreeing
  <1>2. ASSUME NEW v \in Path
        PROVE  read[v] = {} \/ read[v] = Lays(rs, files, v)
    <2>1. read[v] = {j \in Lays(rs, files, v) :
                        m = "full" /\ j <= Len(rs) /\ Len(v) <= Len(rs[j].virtual) + 1}
      BY DEF LoadRead
    <2>2. \A i, j \in Lays(rs, files, v) : rs[i].virtual = rs[j].virtual
      <3>1. \A i \in Lays(rs, files, v) : i \in Covers(rs, v)
        BY DEF Lays
      <3> QED
        BY <1>1, <3>1, SameFolder
    <2>3. \A j \in Lays(rs, files, v) : j <= Len(rs)
      BY <1>1 DEF Lays, Covers
    <2> HIDE DEF read
    <2> QED
      BY <2>1, <2>2, <2>3
  <1>3. read = [v \in Path |-> read[v]]
    BY DEF LoadRead
  <1> HIDE DEF read
  <1>4. Whole(rs, files, read)
    BY <1>2, <1>3 DEF Whole
  <1> QED
    BY <1>4 DEF read

LEMMA ScannedAll ==
    ASSUME NEW rs, Agreeing(rs, disk), dirs = DirsOf(disk), NEW u \in Path, NEW i,
           i \in Lays(rs, disk, u), NEW d, d = At(rs, i, u)
    PROVE  \A v \in Path :
              v \in Scanned(u, d, << >>, TRUE) <=>
                 \/ v = u
                 \/ v \in OnPath(<< >>) /\ IsStrictPrefix(u, v) /\ i \in Lays(rs, disk, v)
                 \/ v # << >> /\ Parent(v) = u /\ i \in Lays(rs, disk, v)
  <1> SUFFICES ASSUME NEW v \in Path
               PROVE  v \in Scanned(u, d, << >>, TRUE) <=>
                         \/ v = u
                         \/ /\ v \in OnPath(<< >>) /\ IsStrictPrefix(u, v)
                            /\ i \in Lays(rs, disk, v)
                         \/ v # << >> /\ Parent(v) = u /\ i \in Lays(rs, disk, v)
    OBVIOUS
  <1> DEFINE none == << >>
  <1>1. none \in Path
    BY NoFolderIsPath
  <1> HIDE DEF none
  <1>2. v \in Scanned(u, At(rs, i, u), none, TRUE) <=>
           \/ v = u
           \/ v \in OnPath(none) /\ IsStrictPrefix(u, v) /\ i \in Lays(rs, disk, v)
           \/ TRUE /\ v # << >> /\ Parent(v) = u /\ i \in Lays(rs, disk, v)
    BY <1>1, ScannedScans, Zenon
  <1>3. v \in Scanned(u, d, none, TRUE) <=>
           \/ v = u
           \/ v \in OnPath(none) /\ IsStrictPrefix(u, v) /\ i \in Lays(rs, disk, v)
           \/ v # << >> /\ Parent(v) = u /\ i \in Lays(rs, disk, v)
    BY <1>2
  <1> QED
    BY <1>3 DEF none

LEMMA LoadReadNext ==
    ASSUME NEW rs, Agreeing(rs, disk), dirs = DirsOf(disk), NEW n \in Nat, NEW m,
           NEW i \in DOMAIN rs, i = n + 1, NEW u \in Path, u = rs[i].virtual
    PROVE  /\ m # "full" \/ rs[i].real \notin dirs
                => LoadRead(rs, disk, i, m) = LoadRead(rs, disk, n, m)
           /\ m = "full" /\ rs[i].real \in dirs
                => LoadRead(rs, disk, i, m)
                     = ReadMore(LoadRead(rs, disk, n, m),
                                Scanned(u, rs[i].real, << >>, TRUE), i)
  <1> DEFINE d == rs[i].real
             before == LoadRead(rs, disk, n, m)
             after == LoadRead(rs, disk, i, m)
             S == Scanned(u, d, << >>, TRUE)
  <1>1. /\ rs \in VfsFiles /\ disk \in Trees /\ i \in DOMAIN rs
        /\ DOMAIN rs = 1..Len(rs) /\ Len(rs) \in Nat
    BY DEF Agreeing
  <1>2. /\ i \in Covers(rs, u) /\ At(rs, i, u) = d /\ u # << >> /\ u \in Seq(N)
    <2>1. u \in Seq(N) /\ IsPrefix(u, u)
      BY PrefixIs DEF Path
    <2>2. i \in Covers(rs, u)
      BY <1>1, <2>1 DEF Covers
    <2> QED
      BY <1>1, <2>1, <2>2, AtIs
  <1>3. ASSUME NEW v \in Path
        PROVE  /\ before[v] = {j \in Lays(rs, disk, v) :
                      m = "full" /\ j <= n /\ Len(v) <= Len(rs[j].virtual) + 1}
               /\ after[v] = {j \in Lays(rs, disk, v) :
                      m = "full" /\ j <= i /\ Len(v) <= Len(rs[j].virtual) + 1}
    BY DEF LoadRead
  <1>4. ASSUME NEW v \in Path
        PROVE  after[v] = before[v] \cup
                 {j \in {i} : m = "full" /\ i \in Lays(rs, disk, v) /\ Len(v) <= Len(u) + 1}
    <2>1. \A j \in Lays(rs, disk, v) : j \in Nat
      BY <1>1 DEF Lays, Covers
    <2> HIDE DEF before, after
    <2>2. \A j \in Lays(rs, disk, v) : j <= i <=> j <= n \/ j = i
      BY <2>1
    <2>3. \A j : j \in after[v] <=> \/ j \in before[v]
                                    \/ /\ j = i /\ j \in Lays(rs, disk, v)
                                       /\ m = "full" /\ Len(v) <= Len(rs[j].virtual) + 1
      BY <1>3, <2>2
    <2> QED
      BY <2>3
  <1>5. after = [v \in Path |-> after[v]] /\ before = [v \in Path |-> before[v]]
    BY DEF LoadRead
  <1>6. ASSUME NEW v \in Path, i \in Lays(rs, disk, v)
        PROVE  d \in dirs /\ IsPrefix(u, v)
    <2>1. i \in Covers(rs, v) /\ IsPrefix(u, v)
      BY <1>6 DEF Lays, Covers
    <2>2. CASE v = u
      <3>1. At(rs, i, v) = d /\ At(rs, i, v) \in dirs
        BY <1>2, <1>6, <2>2 DEF Lays
      <3> QED
        BY <2>1, <3>1
    <2>3. CASE v # u
      <3>1. i \in Lays(rs, disk, u)
        BY <1>1, <1>2, <1>6, <2>1, <2>3, LaysAbove
      <3> QED
        BY <1>2, <2>1, <3>1 DEF Lays
    <2> QED
      BY <2>1, <2>2, <2>3
  <1> HIDE DEF before, after
  <1>7. CASE m # "full" \/ d \notin dirs
    <2>1. \A v \in Path : after[v] = before[v]
      BY <1>4, <1>6, <1>7
    <2>2. [v \in Path |-> after[v]] = [v \in Path |-> before[v]]
      BY <2>1
    <2>3. after = before
      BY <1>5, <2>2
    <2> QED
      BY <1>7, <2>3 DEF after, before
  <1>8. CASE m = "full" /\ d \in dirs
    <2>1. i \in Lays(rs, disk, u) /\ << >> \in Path
      BY <1>2, <1>8, NoFolderIsPath DEF Lays
    <2>2. \A v \in Path : v \in S <=>
             \/ v = u
             \/ v \in OnPath(<< >>) /\ IsStrictPrefix(u, v) /\ i \in Lays(rs, disk, v)
             \/ v # << >> /\ Parent(v) = u /\ i \in Lays(rs, disk, v)
      <3> HIDE DEF S, d
      <3>1. /\ Agreeing(rs, disk) /\ dirs = DirsOf(disk) /\ u \in Path
            /\ i \in Lays(rs, disk, u) /\ d = At(rs, i, u)
        BY <1>2, <2>1
      <3> QED
        BY ONLY <3>1, ScannedAll, Zenon DEF S
    <2>3. ASSUME NEW v \in Path
          PROVE  v \in S <=> i \in Lays(rs, disk, v) /\ Len(v) <= Len(u) + 1
      <3>1. v \in Seq(N) /\ Len(v) \in Nat /\ Len(u) \in Nat
        BY <1>2 DEF Path
      <3>2. ASSUME v \in OnPath(<< >>), IsStrictPrefix(u, v) PROVE FALSE
        <4>1. IsPrefix(v, << >>) /\ << >> \in Seq(N)
          BY <2>1, <3>2, OnPathIs DEF Path
        <4>2. Len(v) <= 0
          <5> DEFINE none == << >>
          <5>1. none \in Seq(N) /\ Len(none) = 0 /\ IsPrefix(v, none)
            BY <4>1
          <5> HIDE DEF none
          <5> QED
            BY <3>1, <5>1, PrefixIs
        <4>3. Len(u) <= Len(v)
          BY <1>2, <3>1, <3>2, PrefixIs DEF IsStrictPrefix
        <4> QED
          BY <1>2, <3>1, <4>2, <4>3
      <3>3. ASSUME v # << >>, Parent(v) = u PROVE Len(v) = Len(u) + 1
        BY <3>1, <3>3, ParentLast
      <3>4. ASSUME IsPrefix(u, v), Len(v) <= Len(u) + 1, v # u
            PROVE  v # << >> /\ Parent(v) = u
        <4>1. Len(u) <= Len(v) /\ \A k \in 1..Len(u) : u[k] = v[k]
          BY <1>2, <3>1, <3>4, PrefixIs
        <4>2. Len(u) # Len(v)
          BY <1>2, <3>1, <3>4, <4>1, SeqEqual
        <4>3. Len(v) = Len(u) + 1 /\ v # << >>
          BY <3>1, <3>4, <4>1, <4>2
        <4>4. IsPrefix(u, Parent(v)) /\ Parent(v) \in Seq(N) /\ Len(Parent(v)) = Len(u)
          BY <1>2, <3>1, <3>4, <4>3, ParentLast
        <4>5. \A k \in 1..Len(u) : u[k] = Parent(v)[k]
          BY <1>2, <4>4, PrefixIs
        <4> QED
          BY <1>2, <4>3, <4>4, <4>5, SeqEqual
      <3>5. v = u => i \in Lays(rs, disk, v) /\ Len(v) <= Len(u) + 1
        BY <2>1, <3>1
      <3>6. i \in Lays(rs, disk, v) => IsPrefix(u, v)
        BY <1>6
      <3>7. v \in S <=> \/ v = u
                        \/ v \in OnPath(<< >>) /\ IsStrictPrefix(u, v)
                           /\ i \in Lays(rs, disk, v)
                        \/ v # << >> /\ Parent(v) = u /\ i \in Lays(rs, disk, v)
        BY <2>2
      <3>8. ASSUME v \in S PROVE i \in Lays(rs, disk, v) /\ Len(v) <= Len(u) + 1
        <4>1. v = u \/ (Len(v) = Len(u) + 1 /\ i \in Lays(rs, disk, v))
          BY ONLY <3>2, <3>3, <3>7, <3>8
        <4> QED
          BY <3>1, <3>5, <4>1
      <3>9. ASSUME i \in Lays(rs, disk, v), Len(v) <= Len(u) + 1 PROVE v \in S
        BY ONLY <3>4, <3>6, <3>7, <3>9
      <3> QED
        BY <3>8, <3>9
    <2>4. \A v \in Path : after[v] = IF v \in S THEN before[v] \cup {i} ELSE before[v]
      <3> HIDE DEF S
      <3> QED
        BY <1>4, <1>8, <2>3
    <2>5. [v \in Path |-> after[v]] =
            [v \in Path |-> IF v \in S THEN before[v] \cup {i} ELSE before[v]]
      <3> HIDE DEF S
      <3> QED
        BY <2>4
    <2>6. after = ReadMore(before, S, i)
      BY <1>5, <2>5 DEF ReadMore
    <2> QED
      BY <1>8, <2>6 DEF after, before
  <1> QED
    BY <1>7, <1>8

LEMMA LoadStart ==
    ASSUME NEW rs, NEW files, Agreeing(rs, files), NEW m, NEW st,
           Good(st, DirsOf(files), Allowed(rs)), DOMAIN st.mapped = {}, DOMAIN st.folders = {}
    PROVE  Filled(rs, files, st, LoadRead(rs, files, 0, m), 0)
  <1> DEFINE read == LoadRead(rs, files, 0, m)
  <1>1. rs \in VfsFiles /\ Len(rs) \in Nat /\ DOMAIN rs = 1..Len(rs)
    BY DEF Agreeing
  <1>2. \A v \in Path : read[v] = {}
    BY <1>1 DEF LoadRead, Lays, Covers
  <1> HIDE DEF read
  <1>3. ASSUME NEW q \in Path PROVE Seen(rs, read, 0, q) = {}
    <2> SUFFICES ASSUME NEW i \in Seen(rs, read, 0, q) PROVE FALSE
      OBVIOUS
    <2>1. i \in Covers(rs, q)
      BY DEF Seen
    <2>2. Parent(q) \in Path /\ i \in 1..Len(rs)
      BY <1>1, <2>1, AtIs DEF Covers
    <2>3. ~(i <= 0)
      BY <1>1, <2>2
    <2> QED
      BY <1>2, <2>2, <2>3 DEF Seen
  <1>4. \A q \in Path : /\ Known(rs, files, read, 0, q) = {}
                        /\ Mapping(rs, files, read, 0, q) = {}
    BY <1>3 DEF Known, Mapping
  <1>5. FilledFiles(rs, files, st.mapped, read, 0)
    BY <1>4 DEF FilledFiles
  <1>6. FilledFolders(rs, files, st.folders, read, 0)
    BY <1>4 DEF FilledFolders
  <1>7. Noted(rs, files, st, read, 0)
    BY <1>4 DEF Noted
  <1>8. Closed(rs, files, read, 0)
    BY <1>2 DEF Closed
  <1>9. Filled(rs, files, st, read, 0)
    BY <1>5, <1>6, <1>7, <1>8 DEF Filled
  <1> QED
    BY <1>9 DEF read

\* One record, the next.
LEMMA LoadNext ==
    ASSUME NEW rs, Agreeing(rs, disk), dirs = DirsOf(disk), NEW n \in Nat, NEW m,
           NEW i \in DOMAIN rs, i = n + 1, NEW st,
           Filled(rs, disk, st, LoadRead(rs, disk, n, m), n), NEW u, u = rs[i].virtual,
           NEW d, d = rs[i].real
    PROVE  /\ d \notin dirs =>
                Filled(rs, disk, AddReadEntry(st, u, d), LoadRead(rs, disk, i, m), i)
           /\ d \in dirs /\ m # "full" =>
                Filled(rs, disk, AddReadFolder(st, u, d), LoadRead(rs, disk, i, m), i)
           /\ d \in dirs /\ m = "full" =>
                Filled(rs, disk, AddReadDirectory(st, u, d, << >>, TRUE),
                       LoadRead(rs, disk, i, m), i)
  <1> DEFINE before == LoadRead(rs, disk, n, m)
             after == LoadRead(rs, disk, i, m)
             S == Scanned(u, d, << >>, TRUE)
  <1>1. /\ rs \in VfsFiles /\ disk \in Trees /\ LayersAgree(rs, disk)
        /\ DOMAIN rs = 1..Len(rs) /\ Len(rs) \in Nat /\ u \in Path
    <2>1. u \in Path
      BY RecordIs DEF Agreeing
    <2> QED
      BY <2>1 DEF Agreeing
  <1>2. /\ i \in Covers(rs, u) /\ At(rs, i, u) = d
    <2>1. IsPrefix(u, u)
      BY <1>1, PrefixIs DEF Path
    <2>2. i \in Covers(rs, u)
      BY <1>1, <2>1 DEF Covers
    <2> QED
      BY <1>1, <2>1, <2>2, AtIs
  <1>3. Meets(rs, before, n, i, u, i)
    <2> HIDE DEF before
    <2>1. i \in Seen(rs, before, i, u)
      BY <1>1, <1>2 DEF Seen
    <2> QED
      BY <1>1, <2>1 DEF Meets
  <1> HIDE DEF before, after
  <1>4. ASSUME d \notin dirs
        PROVE  Filled(rs, disk, AddReadEntry(st, u, d), after, i)
    <2>1. i \in Holds(rs, disk, u)
      <3>1. rs[i].real \in (disk \cup DirsOf(disk)) \ {<< >>}
        BY <1>1 DEF LayersAgree
      <3> QED
        BY <1>2, <1>4, <3>1 DEF Holds
    <2>2. after = before
      BY <1>1, <1>4, LoadReadNext DEF after, before
    <2>3. Filled(rs, disk, AddReadEntry(st, u, At(rs, i, u)), before, i)
      BY <1>1, <1>3, <2>1, AddReadEntryFills DEF before
    <2> QED
      BY <1>2, <2>2, <2>3
  <1>5. ASSUME d \in dirs
        PROVE  i \in Lays(rs, disk, u)
    BY <1>2, <1>5 DEF Lays
  <1>6. ASSUME d \in dirs, m # "full"
        PROVE  Filled(rs, disk, AddReadFolder(st, u, d), after, i)
    <2>1. after = before
      BY <1>1, <1>6, LoadReadNext DEF after, before
    <2>2. Filled(rs, disk, AddReadFolder(st, u, At(rs, i, u)), before, i)
      BY <1>1, <1>3, <1>5, <1>6, AddReadFolderFills DEF before
    <2> QED
      BY <1>2, <2>1, <2>2
  <1>7. ASSUME d \in dirs, m = "full"
        PROVE  Filled(rs, disk, AddReadDirectory(st, u, d, << >>, TRUE), after, i)
    <2>1. after = ReadMore(before, S, i)
      BY <1>1, <1>7, LoadReadNext DEF after, before
    <2>2. InOrder(before, S, i)
      <3> SUFFICES ASSUME NEW w \in S, NEW j \in before[w]
                   PROVE  j <= i
        BY DEF InOrder
      <3>1. w \in Path
        <4>1. Scans(rs, disk, Scanned(u, At(rs, i, u), << >>, TRUE), u, i)
          BY <1>1, <1>5, <1>7, ScannedScans, NoFolderIsPath
        <4> QED
          BY <1>2, <4>1 DEF Scans
      <3>2. j \in Nat /\ j <= n
        BY <1>1, <3>1 DEF before, LoadRead, Lays, Covers
      <3> QED
        BY <3>2
    <2> DEFINE none == << >>
               all == TRUE
    <2>3. S = Scanned(u, At(rs, i, u), none, all)
      BY <1>2
    <2>4. none \in Path
      BY NoFolderIsPath
    <2> HIDE DEF none, all, S
    <2>5. Filled(rs, disk, AddReadDirectory(st, u, At(rs, i, u), none, all),
                 ReadMore(before, S, i), i)
      <3>1. Filled(rs, disk, st, before, n)
        BY DEF before
      <3>2. InOrder(before, Scanned(u, At(rs, i, u), none, all), i)
        BY <2>2, <2>3
      <3>3. Filled(rs, disk, AddReadDirectory(st, u, At(rs, i, u), none, all),
                   ReadMore(before, Scanned(u, At(rs, i, u), none, all), i), i)
        BY <1>1, <1>3, <1>5, <1>7, <2>4, <3>1, <3>2, AddReadDirectoryFills
      <3> QED
        BY <2>3, <3>3
    <2>6. Filled(rs, disk, AddReadDirectory(st, u, d, none, all), after, i)
      BY <1>2, <2>1, <2>5
    <2> QED
      BY <2>6 DEF none, all
  <1> QED
    BY <1>4, <1>6, <1>7 DEF after

-----------------------------------------------------------------------------
(* Where a lookup leads *)

LEMMA ReadPath ==
    ASSUME NEW st, NEW p, NEW got, got = GetPath(st, p, "Read")
    PROVE  /\ got.vfs = Found(st, Translated(st, p)) /\ got.made = {}
           /\ got = Redirect(Found(st, Translated(st, p)), Translated(st, p), p, "Read")
  <1> DEFINE v == Translated(st, p)
             found == Found(st, v)
  <1>1. got = Redirect(found, v, p, "Read")
    BY DEF GetPath
  <1> HIDE DEF v, found
  <1>2. \A real : /\ Gives(found, real, {}, "Read").vfs = found
                  /\ Gives(found, real, {}, "Read").made = {}
    BY DEF Gives
  <1>3. \E real : Redirect(found, v, p, "Read") = Gives(found, real, {}, "Read")
    <2>1. CASE v \in DOMAIN found.mapped
      BY <2>1 DEF Redirect
    <2>2. CASE v \notin DOMAIN found.mapped
      BY <2>2 DEF Redirect
    <2> QED
      BY <2>1, <2>2
  <1> QED
    BY <1>1, <1>2, <1>3 DEF v, found

\* The virtual path that p stands for, and where the records put what is there.
VirtualOf(rs, p) ==
    LET inside == {i \in DOMAIN rs : IsPrefix(rs[i].real, p)} IN
    IF inside = {} THEN p
    ELSE Relocate(p, rs[Max(inside)].real, rs[Max(inside)].virtual)

PlaceOf(rs, files, p) ==
    LET v == VirtualOf(rs, p) IN
    IF Holds(rs, files, v) = {} THEN p ELSE At(rs, Max(Holds(rs, files, v)), v)

DirOf(rs, files, p) ==
    LET v == VirtualOf(rs, p) IN
    IF Lays(rs, files, v) = {} THEN IF p \in DirsOf(files) THEN p ELSE NoFile
    ELSE IF v \in DirsOf(files) THEN v
    ELSE At(rs, Max(Lays(rs, files, v)), v)

\* The last of some records of a file.
LEMMA LastRecord ==
    ASSUME NEW rs, NEW files, Agreeing(rs, files), NEW S \in SUBSET DOMAIN rs, S # {}
    PROVE  Max(S) \in S /\ \A i \in S : i <= Max(S)
  <1>1. Len(rs) \in Nat /\ S \in SUBSET (0..Len(rs))
    BY DEF Agreeing
  <1>2. \E x \in S : \A y \in S : y <= x
    BY <1>1, GreatestElement
  <1>3. \E x \in S : \A y \in S : x >= y
    BY <1>1, <1>2
  <1>4. Max(S) \in S /\ \A y \in S : Max(S) >= y
    BY <1>3 DEF Max
  <1> QED
    BY <1>1, <1>4

\* A path stands for at most one virtual path, where the record has it.
LEMMA VirtualIs ==
    ASSUME NEW rs, NEW files, Agreeing(rs, files), NEW p \in Path
    PROVE  /\ VirtualOf(rs, p) \in Path
           /\ (\A i \in DOMAIN rs : ~IsPrefix(rs[i].real, p)) => VirtualOf(rs, p) = p
           /\ \A i \in DOMAIN rs : IsPrefix(rs[i].real, p) =>
                /\ VirtualOf(rs, p) = Relocate(p, rs[i].real, rs[i].virtual)
                /\ i \in Covers(rs, VirtualOf(rs, p))
                /\ At(rs, i, VirtualOf(rs, p)) = p
  <1> DEFINE inside == {i \in DOMAIN rs : IsPrefix(rs[i].real, p)}
             v == VirtualOf(rs, p)
  <1>1. rs \in VfsFiles
    BY DEF Agreeing
  <1>2. inside = {} => v = p
    BY DEF VirtualOf
  <1>3. ASSUME NEW i \in inside
        PROVE  v = Relocate(p, rs[i].real, rs[i].virtual)
    <2>1. \A j \in inside : j = i
      BY <1>1, RealsApart
    <2>2. Max(inside) \in inside
      <3> HIDE DEF inside
      <3>1. inside \in SUBSET DOMAIN rs
        BY DEF inside
      <3> QED
        BY <3>1, <1>3, LastRecord
    <2>3. Max(inside) = i
      BY <2>1, <2>2
    <2>4. v = Relocate(p, rs[Max(inside)].real, rs[Max(inside)].virtual)
      BY DEF VirtualOf
    <2> QED
      BY <2>3, <2>4
  <1>4. ASSUME NEW i \in inside
        PROVE  v \in Path /\ i \in Covers(rs, v) /\ At(rs, i, v) = p
    <2> DEFINE a == rs[i].virtual
    <2>1. a \in Path /\ IsPrefix(a, a) /\ i \in DOMAIN rs
      BY <1>1, RecordIs, PrefixIs DEF Path
    <2>2. i \in Covers(rs, a)
      BY <2>1 DEF Covers
    <2>3. At(rs, i, a) = rs[i].real
      BY <1>1, <2>1, <2>2, AtIs
    <2>4. IsPrefix(At(rs, i, a), p)
      BY <2>3
    <2>5. v = Relocate(p, At(rs, i, a), a)
      BY <1>3, <2>3
    <2> HIDE DEF a, v
    <2> QED
      BY <1>1, <2>1, <2>2, <2>4, <2>5, AtBack
  <1> HIDE DEF v
  <1>5. v \in Path
    BY <1>2, <1>4
  <1> QED
    BY <1>2, <1>3, <1>4, <1>5 DEF v

\* A path that begins with a name is not that of a thing that is no name.
LEMMA FirstName ==
    ASSUME NEW S, NEW e, NEW T, e \notin T, NEW a \in Seq(T), a # << >>, a \in Seq(S),
           NEW rest \in Seq(S)
    PROVE  a \o rest # <<e>>
  <1>1. Len(a) \in Nat \ {0} /\ a[1] \in T /\ a[1] \in S
    BY EmptySeq
  <1>2. (a \o rest)[1] = a[1]
    BY <1>1, ConcatElements
  <1>3. <<e>>[1] = e
    OBVIOUS
  <1> QED
    BY ONLY <1>1, <1>2, <1>3, e \notin T

\* No record leads back to the empty path.
LEMMA NoFolderApart ==
    ASSUME NEW rs \in VfsFiles, NEW v, NEW d, <<v, d>> \in Pairs(rs)
    PROVE  v # NoFolder
  <1>1. PICK i \in DOMAIN rs : \E rest \in Path :
           v = rs[i].virtual \o rest /\ d = rs[i].real \o rest
    BY DEF Pairs
  <1>2. PICK rest \in Path : v = rs[i].virtual \o rest
    BY <1>1
  <1> DEFINE Record == [op : {"R", "W"}, virtual : Seq(Names) \ {<< >>},
                        real : Seq(Names)]
             r == rs[i]
             a == r.virtual
             e == ""
  <1>3. rs \in Seq(Record)
    BY InputTypes
  <1> HIDE DEF Record
  <1>4. r \in Record
    BY <1>3
  <1> HIDE DEF r
  <1>5. a \in Seq(Names) /\ a # << >>
    BY <1>4 DEF Record
  <1>6. a \in Path /\ v = a \o rest
    BY <1>2, RecordIs DEF r
  <1>7. e \notin Names /\ NoFolder = <<e>>
    BY NamesType, Zenon DEF NoFolder
  <1> HIDE DEF a, e
  <1>8. a \in Seq(N) /\ rest \in Seq(N)
    BY <1>6, Zenon DEF Path
  <1>9. a \o rest # <<e>>
    BY ONLY <1>5, <1>7, <1>8, FirstName
  <1> QED
    BY <1>6, <1>7, <1>9, Zenon

\* The code finds the virtual path of a path, but for what is below a record's
\* single file: that is looked up as it is.
LEMMA TranslatedVirtual ==
    ASSUME NEW rs, Agreeing(rs, disk), dirs = DirsOf(disk), ~LooksElsewhere, NEW st, NEW read,
           Settled(rs, disk, st, read), NEW p \in Path
    PROVE  \/ Translated(st, p) = VirtualOf(rs, p)
           \/ /\ Translated(st, p) = p
              /\ \E i \in DOMAIN rs : rs[i].real \in disk /\ IsPrefix(rs[i].real, p)
  <1> DEFINE known == {d \in DOMAIN st.reverse : d # << >> /\ IsPrefix(d, p)}
             real == LongestOf(known)
             folder == st.reverse[real]
             to == IF folder = NoFolder /\ real # p THEN << >> ELSE folder
  <1>1. Translated(st, p) = IF known = {} THEN p ELSE Relocate(p, real, to)
    BY DEF Translated
  <1>2. rs \in VfsFiles /\ LayersAgree(rs, disk)
    BY DEF Agreeing
  <1>3. /\ \A d \in DOMAIN st.reverse : d \in Path /\ <<st.reverse[d], d>> \in Pairs(rs)
        /\ Noted(rs, disk, st, read, Len(rs))
    <2>1. /\ st.reverse \in Maps(Path, Path) /\ Backed(st.reverse, Allowed(rs))
          /\ Noted(rs, disk, st, read, Len(rs))
      BY DEF Settled, Filled, Good, Tables
    <2>2. ASSUME NEW d \in DOMAIN st.reverse PROVE <<st.reverse[d], d>> \in Allowed(rs)
      BY <2>1, AllowedIs DEF Backed
    <2>3. ASSUME NEW d \in DOMAIN st.reverse PROVE <<st.reverse[d], d>> \in Pairs(rs)
      BY <2>2, AllowedIs
    <2>4. \A d \in DOMAIN st.reverse : d \in Path
      BY <2>1, MapsIs
    <2> QED
      BY <2>1, <2>3, <2>4
  <1>4. CASE known # {}
    <2>1. p \in Seq(N) /\ \A d \in known : d \in Seq(N)
      BY <1>3 DEF Path
    <2>2. known \in SUBSET OnPath(p)
      BY <2>1, OnPathIs
    <2>3. real \in known
      <3> HIDE DEF known
      <3> QED
        BY <1>4, <2>1, <2>2, Longest
    <2>4. real \in Path /\ IsPrefix(real, p) /\ <<folder, real>> \in Pairs(rs)
      BY <1>3, <2>3
    <2> HIDE DEF real, folder
    <2>5. to = folder
      BY <1>2, <2>4, NoFolderApart
    <2>6. PICK i \in DOMAIN rs : \E rest \in Path :
             folder = rs[i].virtual \o rest /\ real = rs[i].real \o rest
      BY <2>4 DEF Pairs
    <2>7. PICK rest \in Path : folder = rs[i].virtual \o rest /\ real = rs[i].real \o rest
      BY <2>6
    <2> DEFINE a == rs[i].virtual
               b == rs[i].real
    <2>8. a \in Seq(N) /\ b \in Seq(N) /\ rest \in Seq(N) /\ real \in Seq(N)
      BY <1>2, <2>4, RecordIs DEF Path
    <2>9. folder = a \o rest /\ real = b \o rest
      BY <2>7
    <2> HIDE DEF a, b
    <2>10. PICK more \in Seq(N) : p = real \o more
      <3>1. /\ SubSeq(p, Len(real) + 1, Len(p)) \in Seq(N)
            /\ p = real \o SubSeq(p, Len(real) + 1, Len(p))
        BY <2>1, <2>4, <2>8, PrefixRest
      <3> QED
        BY ONLY <3>1
    <2>11. p = b \o (rest \o more) /\ rest \o more \in Seq(N)
      BY ONLY <2>8, <2>9, <2>10
    <2>12. Relocate(p, real, folder) = folder \o more /\ folder \in Seq(N)
      <3>1. folder \in Seq(N)
        BY ONLY <2>8, <2>9
      <3>2. Relocate(real \o more, real, folder) = folder \o more
        BY ONLY <3>1, <2>8, <2>10, RelocateRest
      <3> QED
        BY <3>1, <3>2, <2>10
    <2>13. Relocate(p, b, a) = a \o (rest \o more) /\ IsPrefix(b, p)
      <3> DEFINE all == rest \o more
      <3>1. all \in Seq(N) /\ p = b \o all
        BY <2>11
      <3> HIDE DEF all
      <3>2. Relocate(b \o all, b, a) = a \o all
        BY ONLY <2>8, <3>1, RelocateRest
      <3>3. IsPrefix(b, b \o all)
        BY ONLY <2>8, <3>1, PrefixOfConcat
      <3> QED
        BY <3>1, <3>2, <3>3 DEF all
    <2>14. a \o (rest \o more) = folder \o more
      BY ONLY <2>8, <2>9, <2>10
    <2>15. VirtualOf(rs, p) = Relocate(p, b, a)
      <3>1. i \in DOMAIN rs /\ IsPrefix(rs[i].real, p)
        BY <2>13 DEF b
      <3> QED
        BY <3>1, VirtualIs DEF a, b
    <2>16. Translated(st, p) = Relocate(p, real, folder)
      BY <1>1, <1>4, <2>5 DEF real, folder
    <2> QED
      BY <2>12, <2>13, <2>14, <2>15, <2>16
  <1>5. ASSUME known = {}, NEW i \in DOMAIN rs, IsPrefix(rs[i].real, p)
        PROVE  rs[i].real \in disk
    <2> DEFINE a == rs[i].virtual
    <2>1. rs[i].real \in disk \cup DirsOf(disk) /\ rs[i].real # << >>
      BY <1>2 DEF LayersAgree
    <2>2. rs[i].real \notin DOMAIN st.reverse
      BY <1>5, <2>1
    <2>3. a \in Path /\ IsPrefix(a, a)
      BY <1>2, RecordIs, PrefixIs DEF Path
    <2>4. i \in Covers(rs, a)
      BY <2>3 DEF Covers
    <2>5. At(rs, i, a) = rs[i].real
      BY <1>2, <2>3, <2>4, AtIs
    <2>6. i <= Len(rs)
      BY DEF Agreeing
    <2>7. i \in Seen(rs, read, Len(rs), a)
      BY <2>4, <2>6 DEF Seen
    <2>8. rs[i].real \notin DirsOf(disk)
      BY <1>3, <2>2, <2>3, <2>4, <2>5, <2>7 DEF Known, Lays, Noted
    <2> QED
      BY <2>1, <2>8
  <1>6. CASE known = {}
    <2>1. Translated(st, p) = p
      BY <1>1, <1>6
    <2>2. CASE \A i \in DOMAIN rs : ~IsPrefix(rs[i].real, p)
      BY <2>1, <2>2, VirtualIs
    <2>3. CASE \E i \in DOMAIN rs : IsPrefix(rs[i].real, p)
      BY <1>5, <1>6, <2>1, <2>3
    <2> QED
      BY <2>2, <2>3
  <1> QED
    BY <1>4, <1>6

\* Below a single file there is nothing, and no record.
LEMMA BelowFile ==
    ASSUME NEW rs, NEW files, Agreeing(rs, files), NEW p \in Path,
           NEW i \in DOMAIN rs, rs[i].real \in files, IsPrefix(rs[i].real, p)
    PROVE  /\ Covers(rs, p) = {} /\ \A j \in DOMAIN rs : ~IsStrictPrefix(p, rs[j].virtual)
           /\ p \notin DirsOf(files)
           /\ Lays(rs, files, VirtualOf(rs, p)) = {}
           /\ \A j \in Holds(rs, files, VirtualOf(rs, p)) :
                 At(rs, j, VirtualOf(rs, p)) = p /\ p \in files
  <1> DEFINE v == VirtualOf(rs, p)
             f == rs[i].real
  <1>1. /\ rs \in VfsFiles /\ files \in Trees /\ LayersAgree(rs, files)
        /\ Tree(files, DirsOf(files))
    BY DEF Agreeing
  <1>2. /\ \A j \in DOMAIN rs : rs[j].virtual = rs[i].virtual => j = i
        /\ \A j \in DOMAIN rs : ~IsPrefix(rs[j].virtual, f) /\ ~IsStrictPrefix(f, rs[j].virtual)
    BY <1>1 DEF LayersAgree
  <1>3. f \in Seq(N) /\ p \in Seq(N) /\ IsPrefix(f, p) /\ f \in files
    BY <1>1, RecordIs DEF Path
  <1>4. ASSUME NEW j \in DOMAIN rs
        PROVE  ~IsPrefix(rs[j].virtual, p) /\ ~IsStrictPrefix(p, rs[j].virtual)
    <2> DEFINE a == rs[j].virtual
    <2>1. a \in Seq(N) /\ ~IsPrefix(a, f) /\ ~IsStrictPrefix(f, a)
      BY <1>1, <1>2, RecordIs DEF Path
    <2> HIDE DEF a, f
    <2>2. ~IsPrefix(f, a)
      <3>1. IsPrefix(f, f)
        BY <1>3, PrefixIs
      <3> QED
        BY <2>1, <3>1 DEF IsStrictPrefix
    <2>3. ~IsPrefix(a, p)
      BY <1>3, <2>1, <2>2, PrefixTotal
    <2>4. ~IsStrictPrefix(p, a)
      BY <1>3, <2>1, <2>2, PrefixTransitive DEF IsStrictPrefix
    <2> QED
      BY <2>3, <2>4 DEF a
  <1>5. p \notin DirsOf(files)
    <2>1. p \in DirsOf(files) => f \in DirsOf(files)
      BY <1>1, <1>3, OnPathIs DEF Tree, Dirs
    <2> QED
      BY <1>1, <1>3, <2>1 DEF Tree
  <1>6. v \in Path /\ i \in Covers(rs, v) /\ At(rs, i, v) = p
    BY VirtualIs
  <1> HIDE DEF v, f
  <1>7. \A j \in Covers(rs, v) : j = i
    <2>1. \A j \in Covers(rs, v) : j \in DOMAIN rs /\ rs[j].virtual = rs[i].virtual
      BY <1>1, <1>6, SameFolder DEF Covers
    <2> QED
      BY <1>2, <2>1
  <1>8. Covers(rs, p) = {}
    BY <1>4 DEF Covers
  <1>9. Lays(rs, files, v) = {}
    BY <1>5, <1>6, <1>7 DEF Lays
  <1>10. \A j \in Holds(rs, files, v) : At(rs, j, v) = p /\ p \in files
    BY <1>6, <1>7 DEF Holds
  <1> QED
    BY <1>4, <1>5, <1>8, <1>9, <1>10 DEF v

\* Where a call that only looks is redirected to, once its folder is explored.
LEMMA RealIs ==
    ASSUME NEW rs, Agreeing(rs, disk), dirs = DirsOf(disk), NEW st, NEW read,
           Settled(rs, disk, st, read), NEW p, NEW v \in Path,
           Holds(rs, disk, v) \cup Lays(rs, disk, v) \subseteq Seen(rs, read, Len(rs), v),
           NEW real, real = Redirect(st, v, p, "Read").real
    PROVE  /\ Holds(rs, disk, v) # {} =>
                real \in disk /\ real = At(rs, Max(Holds(rs, disk, v)), v)
           /\ Holds(rs, disk, v) = {} /\ Lays(rs, disk, v) # {} =>
                /\ real \in dirs
                /\ real = IF v \in dirs THEN v ELSE At(rs, Max(Lays(rs, disk, v)), v)
           /\ Holds(rs, disk, v) = {} /\ Lays(rs, disk, v) = {} =>
                \/ real = p
                \/ /\ Covers(rs, v) = {} /\ \E j \in DOMAIN rs : IsStrictPrefix(v, rs[j].virtual)
                   /\ real = IF v \in dirs THEN v ELSE Undefined
  <1> DEFINE hold == Holds(rs, disk, v)
             lay == Lays(rs, disk, v)
             n == Len(rs)
  <1>1. /\ FilledFiles(rs, disk, st.mapped, read, n)
        /\ FilledFolders(rs, disk, st.folders, read, n)
    BY DEF Settled, Filled
  <1>2. Mapping(rs, disk, read, n, v) = hold /\ Known(rs, disk, read, n, v) = lay
    BY DEF Mapping, Known
  <1>3. hold \in SUBSET DOMAIN rs /\ lay \in SUBSET DOMAIN rs
    BY DEF Holds, Lays, Covers
  <1>4. /\ v \in DOMAIN st.mapped <=> hold # {}
        /\ hold # {} => st.mapped[v] = At(rs, Max(hold), v) /\ st.mapped[v] \in disk
    <2>1. hold # {} => Max(hold) \in hold /\ \A j \in hold : j <= Max(hold)
      BY <1>3, LastRecord
    <2> HIDE DEF hold
    <2>2. /\ v \in DOMAIN st.mapped <=> hold # {}
          /\ hold # {} => st.mapped[v] = At(rs, Max(hold), v)
      BY <1>1, <1>2, <2>1 DEF FilledFiles
    <2> QED
      BY <2>1, <2>2 DEF hold, Holds
  <1>5. /\ v \in DOMAIN st.folders => (Covers(rs, v) # {} <=> lay # {})
        /\ lay # {} => v \in DOMAIN st.folders
        /\ v \in DOMAIN st.folders => FilledFolder(rs, disk, st.folders[v], read, n, v)
    <2>1. lay # {} => Covers(rs, v) # {}
      BY DEF Lays
    <2> QED
      BY <1>1, <1>2, <2>1 DEF FilledFolders
  <1>6. \A x : Gives(st, x, {}, "Read").real = x
    BY DEF Gives
  <1>7. real = IF v \in DOMAIN st.mapped THEN st.mapped[v]
               ELSE IF v \in DOMAIN st.folders THEN FolderPath(st.folders[v], v)
               ELSE p
    <2>1. CASE v \in DOMAIN st.mapped
      BY <1>6, <2>1 DEF Redirect
    <2>2. CASE v \notin DOMAIN st.mapped
      BY <1>6, <2>2 DEF Redirect
    <2> QED
      BY <2>1, <2>2
  <1>8. CASE hold # {}
    BY <1>4, <1>7, <1>8
  <1>9. CASE hold = {} /\ v \notin DOMAIN st.folders
    BY <1>4, <1>5, <1>7, <1>9
  <1>10. CASE hold = {} /\ v \in DOMAIN st.folders
    <2> DEFINE folder == st.folders[v]
               paths == folder.paths
    <2>1. real = IF v \in dirs THEN v
                 ELSE IF paths # << >> THEN Last(paths) ELSE Undefined
      BY <1>4, <1>7, <1>10 DEF FolderPath, IsDir
    <2>2. paths \in Seq(Path)
      <3>1. st.folders \in Maps(Path, Folder(DirsOf(disk))) /\ DirsOf(disk) \subseteq Path
        BY DEF Settled, Filled, Good, Tables, Agreeing, Tree, Dirs
      <3>2. folder \in Folder(DirsOf(disk))
        BY <1>10, <3>1, MapsIs
      <3> HIDE DEF folder
      <3> QED
        BY <3>1, <3>2 DEF Folder
    <2>3. Lists(rs, paths, lay, v)
      BY <1>2, <1>5, <1>10 DEF FilledFolder
    <2> HIDE DEF folder, lay
    <2>4. CASE lay # {}
      <3>1. Max(lay) \in lay /\ \A j \in lay : j <= Max(lay)
        BY <1>3, <2>4, LastRecord
      <3>2. /\ Max(lay) \in Nat /\ \A j \in lay : j \in Nat
        BY <1>3, <3>1 DEF Agreeing
      <3> DEFINE m == Max(lay)
      <3> HIDE DEF m, paths
      <3>3. PICK l \in 1..Len(paths) : paths[l] = At(rs, m, v)
        <4>1. At(rs, m, v) \in ToSet(paths)
          BY <2>3, <3>1 DEF Lists, m
        <4> QED
          BY <2>2, <4>1 DEF ToSet
      <3>4. Len(paths) \in Nat /\ paths # << >> /\ Last(paths) = paths[Len(paths)]
        BY <2>2, <3>3, EmptySeq DEF Last
      <3>5. PICK i \in lay : paths[Len(paths)] = At(rs, i, v)
        BY <2>3, <3>3, <3>4 DEF Lists
      <3>6. l < Len(paths) => m < i
        BY <2>3, <3>1, <3>3, <3>4, <3>5 DEF Lists, m
      <3>7. i <= m /\ i \in Nat /\ m \in Nat
        BY <3>1, <3>2, <3>5 DEF m
      <3>8. l = Len(paths)
        BY <3>3, <3>4, <3>6, <3>7
      <3>9. Last(paths) = At(rs, m, v) /\ At(rs, m, v) \in dirs
        BY <3>1, <3>3, <3>4, <3>8 DEF m, lay, Lays
      <3> QED
        BY <1>10, <2>1, <2>4, <3>4, <3>9 DEF m, lay
    <2>5. CASE lay = {}
      <3>1. paths = << >>
        <4> HIDE DEF paths
        <4>1. ~\E k \in 1..Len(paths) : TRUE
          BY <2>3, <2>5 DEF Lists
        <4>2. Len(paths) = 0
          BY <2>2, <4>1
        <4> QED
          BY <2>2, <4>2, EmptySeq
      <3>2. Covers(rs, v) = {} /\ \E j \in DOMAIN rs : IsStrictPrefix(v, rs[j].virtual)
        BY <1>5, <1>10, <2>5 DEF FilledFolder
      <3> QED
        BY <1>10, <2>1, <2>5, <3>1, <3>2 DEF lay
    <2> QED
      BY <2>4, <2>5
  <1> QED
    BY <1>8, <1>9, <1>10

Answered(rs, real, p) ==
    /\ (IF real \in disk THEN real ELSE NoFile)
         = (IF PlaceOf(rs, disk, p) \in disk THEN PlaceOf(rs, disk, p) ELSE NoFile)
    /\ \/ (IF real \in dirs \cup {Undefined} THEN real ELSE NoFile) = DirOf(rs, disk, p)
       \/ /\ (IF real \in dirs \cup {Undefined} THEN real ELSE NoFile) = Undefined
          /\ DirOf(rs, disk, p) = NoFile
          /\ \E j \in DOMAIN rs : IsStrictPrefix(VirtualOf(rs, p), rs[j].virtual)

\* What a call finds and what a look at a folder finds is what the records put at
\* the virtual path, or the path itself.
LEMMA AnsweredIs ==
    ASSUME NEW rs, Agreeing(rs, disk), dirs = DirsOf(disk), Wrote(rs), DOMAIN Suffix = {},
           ~LooksElsewhere, NEW st, NEW read, Settled(rs, disk, st, read), NEW p \in Path,
           NEW real, real = GetPath(st, p, "Read").real
    PROVE  Answered(rs, real, p)
  <1> DEFINE v == Translated(st, p)
             w == VirtualOf(rs, p)
             found == Found(st, v)
  <1>1. /\ rs \in VfsFiles /\ disk \in Trees /\ LayersAgree(rs, disk)
        /\ disk \subseteq Path /\ dirs \subseteq Path /\ disk \cap dirs = {}
    BY DEF Agreeing, Tree, Dirs
  <1>2. Undefined \notin disk \cup dirs
    BY <1>1, InputTypes DEF Path, N
  <1>3. v \in Path /\ real = Redirect(found, v, p, "Read").real
    <2>1. Good(st, DirsOf(disk), Allowed(rs))
      BY DEF Settled, Filled
    <2>2. v \in Path
      BY <2>1, TranslatedIs
    <2>3. GetPath(st, p, "Read") = Redirect(found, v, p, "Read")
      BY ReadPath
    <2> QED
      BY <2>2, <2>3
  <1> HIDE DEF v
  <1>4. PICK more : /\ Settled(rs, disk, found, more)
                    /\ Holds(rs, disk, v) \cup Lays(rs, disk, v)
                          \subseteq Seen(rs, more, Len(rs), v)
    BY <1>3, FoundFills
  <1> HIDE DEF found
  <1>5. /\ Holds(rs, disk, v) # {} =>
             real \in disk /\ real = At(rs, Max(Holds(rs, disk, v)), v)
        /\ Holds(rs, disk, v) = {} /\ Lays(rs, disk, v) # {} =>
             /\ real \in dirs
             /\ real = IF v \in dirs THEN v ELSE At(rs, Max(Lays(rs, disk, v)), v)
        /\ Holds(rs, disk, v) = {} /\ Lays(rs, disk, v) = {} =>
             \/ real = p
             \/ /\ Covers(rs, v) = {} /\ \E j \in DOMAIN rs : IsStrictPrefix(v, rs[j].virtual)
                /\ real = IF v \in dirs THEN v ELSE Undefined
    BY <1>3, <1>4, RealIs
  <1>6. \/ v = w
        \/ v = p /\ \E i \in DOMAIN rs : rs[i].real \in disk /\ IsPrefix(rs[i].real, p)
    BY TranslatedVirtual DEF v
  <1>7. /\ w \in Path
        /\ (\A i \in DOMAIN rs : ~IsPrefix(rs[i].real, p)) => w = p
        /\ \A i \in DOMAIN rs : IsPrefix(rs[i].real, p) =>
              i \in Covers(rs, w) /\ At(rs, i, w) = p
    BY VirtualIs
  <1>8. /\ PlaceOf(rs, disk, p) = IF Holds(rs, disk, w) = {} THEN p
                                  ELSE At(rs, Max(Holds(rs, disk, w)), w)
        /\ DirOf(rs, disk, p) = IF Lays(rs, disk, w) = {}
                                THEN IF p \in dirs THEN p ELSE NoFile
                                ELSE IF w \in dirs THEN w
                                ELSE At(rs, Max(Lays(rs, disk, w)), w)
    BY DEF PlaceOf, DirOf
  <1>9. ASSUME NEW i \in DOMAIN rs, rs[i].real \in disk, IsPrefix(rs[i].real, p), v = p
        PROVE  Answered(rs, real, p)
    <2>1. /\ Covers(rs, p) = {} /\ \A j \in DOMAIN rs : ~IsStrictPrefix(p, rs[j].virtual)
          /\ p \notin dirs
          /\ Lays(rs, disk, w) = {}
          /\ \A j \in Holds(rs, disk, w) : At(rs, j, w) = p /\ p \in disk
      BY <1>1, <1>9, BelowFile
    <2>2. Holds(rs, disk, v) = {} /\ Lays(rs, disk, v) = {}
      BY <1>9, <2>1 DEF Holds, Lays
    <2>3. real = p
      BY <1>5, <1>9, <2>1, <2>2
    <2>4. DirOf(rs, disk, p) = NoFile
      BY <1>8, <2>1
    <2>5. PlaceOf(rs, disk, p) = p
      <3>1. Holds(rs, disk, w) # {} => Max(Holds(rs, disk, w)) \in Holds(rs, disk, w)
        <4>1. Holds(rs, disk, w) \in SUBSET DOMAIN rs
          BY DEF Holds, Covers
        <4> QED
          BY <4>1, LastRecord
      <3> QED
        BY <1>8, <2>1, <3>1
    <2>6. p # Undefined \/ p \notin Path
      BY InputTypes DEF Path, N
    <2> QED
      BY <2>1, <2>3, <2>4, <2>5, <2>6 DEF Answered
  <1>10. CASE v = w
    <2>1. Holds(rs, disk, w) # {} => Lays(rs, disk, w) = {} /\ p \notin dirs
      <3>1. ASSUME NEW k \in Holds(rs, disk, w)
            PROVE  Lays(rs, disk, w) = {} /\ p \notin dirs
        <4>1. k \in Covers(rs, w) /\ At(rs, k, w) \in disk
          BY DEF Holds
        <4>2. /\ w \notin DirsOf(disk)
              /\ \A j \in Covers(rs, w) : At(rs, j, w) \notin DirsOf(disk)
          BY <1>1, <1>7, <4>1, Kinds
        <4> HIDE DEF w
        <4> QED
          BY <1>7, <4>2 DEF Lays
      <3> QED
        BY <3>1
    <2>2. Holds(rs, disk, w) = {} /\ Lays(rs, disk, w) # {} => p \notin disk
      <3>1. ASSUME NEW k \in Lays(rs, disk, w), Holds(rs, disk, w) = {}
            PROVE  p \notin disk
        <4>1. k \in Covers(rs, w) /\ At(rs, k, w) \in DirsOf(disk)
          BY DEF Lays
        <4>2. w \notin disk
          BY <1>1, <1>7, <4>1, Kinds
        <4> HIDE DEF w
        <4>3. \A i \in DOMAIN rs : IsPrefix(rs[i].real, p) => p \notin disk
          BY <1>7, <3>1 DEF Holds
        <4> QED
          BY <1>7, <4>2, <4>3
      <3> QED
        BY <3>1
    <2>3. Covers(rs, w) = {} => w = p
      BY <1>7
    <2>4. (\E j \in DOMAIN rs : IsStrictPrefix(w, rs[j].virtual)) => w \notin disk
      BY <1>1 DEF LayersAgree
    <2> HIDE DEF w
    <2>5. p # Undefined
      BY InputTypes DEF Path, N
    <2>6. CASE Holds(rs, disk, w) # {}
      BY <1>1, <1>2, <1>5, <1>8, <1>10, <2>1, <2>6 DEF Answered
    <2>7. CASE Holds(rs, disk, w) = {} /\ Lays(rs, disk, w) # {}
      BY <1>1, <1>2, <1>5, <1>8, <1>10, <2>2, <2>7 DEF Answered
    <2>8. CASE Holds(rs, disk, w) = {} /\ Lays(rs, disk, w) = {} /\ real = p
      BY <1>8, <2>5, <2>8 DEF Answered
    <2>9. CASE Holds(rs, disk, w) = {} /\ Lays(rs, disk, w) = {} /\ real # p
      <3>1. /\ Covers(rs, w) = {} /\ \E j \in DOMAIN rs : IsStrictPrefix(w, rs[j].virtual)
            /\ real = IF w \in dirs THEN w ELSE Undefined
        BY <1>5, <1>10, <2>9
      <3>2. w = p /\ w \notin disk /\ real = Undefined /\ p \notin dirs
        BY <2>3, <2>4, <2>9, <3>1
      <3>3. real \notin disk /\ real \in dirs \cup {Undefined}
        BY <1>2, <3>2
      <3>4. PlaceOf(rs, disk, p) = p /\ DirOf(rs, disk, p) = NoFile
        BY <1>8, <2>9, <3>2
      <3> QED
        BY <3>1, <3>2, <3>3, <3>4 DEF Answered, w
    <2> QED
      BY <2>6, <2>7, <2>8, <2>9
  <1> QED
    BY <1>6, <1>9, <1>10

\* What the program looks into is known, or it looks elsewhere.
LEMMA OpendirKnown ==
    ASSUME NEW rs, Agreeing(rs, disk), dirs = DirsOf(disk), Wrote(rs), DOMAIN Suffix = {},
           ~LooksElsewhere, NEW st, NEW read, Settled(rs, disk, st, read),
           NEW c \in Calls, c.op = "opendir",
           NEW got, got = GetPath(st, c.path, "Read"), got.real \in dirs
    PROVE  c.path \in DOMAIN got.vfs.folders \cup DOMAIN got.vfs.reverse
  <1> DEFINE p == c.path
             v == Translated(st, p)
             w == VirtualOf(rs, p)
             found == Found(st, v)
             real == got.real
  <1>1. /\ rs \in VfsFiles /\ disk \in Trees /\ LayersAgree(rs, disk)
        /\ disk \cap dirs = {} /\ dirs \subseteq Path
    BY DEF Agreeing, Tree, Dirs
  <1>2. p \in Path
    BY InputTypes, NamesArePaths
  <1>3. IF \E i \in DOMAIN rs : IsPrefix(rs[i].real, p)
        THEN p \in dirs
        ELSE p \in dirs => Lays(rs, disk, p) # {}
    <2>1. IF \E i \in DOMAIN rs : IsPrefix(rs[i].real, p)
          THEN p \in DirsOf(disk)
          ELSE p \in DirsOf(disk) =>
                 \E i \in DOMAIN rs : /\ IsPrefix(rs[i].virtual, p)
                                      /\ Relocate(p, rs[i].virtual, rs[i].real)
                                            \in DirsOf(disk)
      BY <1>1 DEF LooksElsewhere
    <2> HIDE DEF p
    <2> QED
      BY <2>1 DEF Lays, Covers, At
  <1>4. v \in Path /\ got.vfs = found /\ real = Redirect(found, v, p, "Read").real
    <2>1. Good(st, DirsOf(disk), Allowed(rs))
      BY DEF Settled, Filled
    <2>2. v \in Path
      BY <1>2, <2>1, TranslatedIs
    <2> QED
      BY <2>2, ReadPath
  <1>5. \/ v = w
        \/ v = p /\ \E i \in DOMAIN rs : rs[i].real \in disk /\ IsPrefix(rs[i].real, p)
    BY <1>2, TranslatedVirtual
  <1> HIDE DEF p, v, w, real
  <1>6. PICK more : /\ Settled(rs, disk, found, more)
                    /\ Holds(rs, disk, v) \cup Lays(rs, disk, v)
                          \subseteq Seen(rs, more, Len(rs), v)
    BY <1>4, FoundFills
  <1> HIDE DEF found
  <1>7. /\ FilledFolders(rs, disk, found.folders, more, Len(rs))
        /\ Noted(rs, disk, found, more, Len(rs))
        /\ Lays(rs, disk, v) \subseteq Known(rs, disk, more, Len(rs), v)
    BY <1>6 DEF Settled, Filled, Known
  <1>8. /\ w \in Path
        /\ (\A i \in DOMAIN rs : ~IsPrefix(rs[i].real, p)) => w = p
        /\ \A i \in DOMAIN rs : IsPrefix(rs[i].real, p) =>
              i \in Covers(rs, w) /\ At(rs, i, w) = p
    BY <1>2, VirtualIs DEF w
  <1>9. CASE \E i \in DOMAIN rs : IsPrefix(rs[i].real, p)
    <2>1. PICK i \in DOMAIN rs : IsPrefix(rs[i].real, p)
      BY <1>9
    <2>2. p \in dirs
      BY <1>3, <1>9
    <2>3. v = w
      <3>1. ASSUME NEW j \in DOMAIN rs, rs[j].real \in disk, IsPrefix(rs[j].real, p)
            PROVE  FALSE
        BY <1>2, <2>2, <3>1, BelowFile
      <3> QED
        BY <1>5, <3>1
    <2>4. i \in Lays(rs, disk, v) /\ At(rs, i, v) = p
      BY <1>8, <2>1, <2>2, <2>3 DEF Lays
    <2>5. p \in DOMAIN found.reverse
      BY <1>4, <1>7, <2>4 DEF Noted
    <2> QED
      BY <1>4, <2>5 DEF p
  <1>10. CASE ~\E i \in DOMAIN rs : IsPrefix(rs[i].real, p)
    <2>1. v = p
      BY <1>5, <1>8, <1>10
    <2>2. /\ Holds(rs, disk, v) # {} => real \in disk
          /\ Holds(rs, disk, v) = {} /\ Lays(rs, disk, v) = {} =>
               real = p \/ real = IF v \in dirs THEN v ELSE Undefined
      BY <1>4, <1>6, RealIs
    <2>3. real \in dirs /\ Undefined \notin dirs
      BY <1>1, InputTypes DEF Path, N, real
    <2>4. Lays(rs, disk, v) # {}
      BY <1>1, <1>3, <1>10, <2>1, <2>2, <2>3
    <2>5. v \in DOMAIN found.folders
      BY <1>4, <1>7, <2>4 DEF FilledFolders
    <2> QED
      BY <1>4, <2>1, <2>5 DEF p
  <1> QED
    BY <1>9, <1>10

-----------------------------------------------------------------------------
(* The invariant of a program that reads *)

Steady ==
    /\ records \in VfsFiles /\ disk \in Trees /\ dirs = DirsOf(disk)
    /\ loaded \in 0..Len(records) /\ events = << >> /\ spared = {}
    /\ Wrote(records)
    /\ loaded < Len(records) =>
          Filled(records, disk, vfs, LoadRead(records, disk, loaded, mode), loaded)
    /\ loaded = Len(records) => \E read : Settled(records, disk, vfs, read)

LEMMA SteadyStart ==
    ASSUME Plain, Layered, DOMAIN Suffix = {}, Init
    PROVE  Steady
  <1>1. /\ records \in VfsFiles /\ disk \in Trees /\ dirs = DirsOf(disk) /\ loaded = 0
        /\ events = << >> /\ spared = {} /\ DOMAIN write_mappings = {}
        /\ DOMAIN vfs.mapped = {} /\ DOMAIN vfs.folders = {}
    BY DEF Init
  <1>2. Agreeing(records, disk)
    BY <1>1, AgreeingIs
  <1>3. Good(vfs, DirsOf(disk), Allowed(records))
    BY <1>1, InitInv DEF Inv
  <1>4. Filled(records, disk, vfs, LoadRead(records, disk, 0, mode), 0)
    BY <1>1, <1>2, <1>3, LoadStart
  <1>5. Len(records) \in Nat
    BY <1>2 DEF Agreeing
  <1>6. 0 = Len(records) => \E read : Settled(records, disk, vfs, read)
    BY <1>2, <1>4, LoadWhole DEF Settled
  <1>7. Wrote(records)
    BY <1>1 DEF Wrote
  <1> QED
    BY <1>1, <1>4, <1>5, <1>6, <1>7 DEF Steady

LEMMA LoadSteady ==
    ASSUME Plain, Layered, DOMAIN Suffix = {}, Steady, LoadRecord
    PROVE  Steady'
  <1> DEFINE n == loaded
             i == loaded + 1
             r == records[i]
  <1>1. /\ records \in VfsFiles /\ disk \in Trees /\ dirs = DirsOf(disk)
        /\ loaded \in 0..Len(records) /\ events = << >> /\ spared = {} /\ Wrote(records)
        /\ loaded < Len(records)
        /\ Filled(records, disk, vfs, LoadRead(records, disk, n, mode), n)
    BY DEF Steady, LoadRecord
  <1>2. /\ records' = records /\ disk' = disk /\ dirs' = dirs /\ events' = events
        /\ spared' = spared /\ mode' = mode /\ loaded' = i
    BY DEF LoadRecord
  <1>3. /\ Agreeing(records, disk) /\ DOMAIN records = 1..Len(records)
        /\ Len(records) \in Nat
    BY <1>1, AgreeingIs DEF Agreeing
  <1>4. n \in Nat /\ i \in DOMAIN records /\ i \in 0..Len(records)
    BY <1>1, <1>3
  <1>5. Filled(records, disk, vfs', LoadRead(records, disk, i, mode), i)
    <2>1. vfs' = IF ~IsDir(r.real) THEN AddReadEntry(vfs, r.virtual, r.real)
                 ELSE IF mode = "full"
                 THEN AddReadDirectory(vfs, r.virtual, r.real, << >>, TRUE)
                 ELSE AddReadFolder(vfs, r.virtual, r.real)
      BY DEF LoadRecord
    <2>2. IsDir(r.real) <=> r.real \in dirs
      BY DEF IsDir
    <2>3. /\ r.real \notin dirs =>
               Filled(records, disk, AddReadEntry(vfs, r.virtual, r.real),
                      LoadRead(records, disk, i, mode), i)
          /\ r.real \in dirs /\ mode # "full" =>
               Filled(records, disk, AddReadFolder(vfs, r.virtual, r.real),
                      LoadRead(records, disk, i, mode), i)
          /\ r.real \in dirs /\ mode = "full" =>
               Filled(records, disk, AddReadDirectory(vfs, r.virtual, r.real, << >>, TRUE),
                      LoadRead(records, disk, i, mode), i)
      <3> HIDE DEF i
      <3>1. i = n + 1
        BY DEF i
      <3> HIDE DEF n
      <3> QED
        BY <1>1, <1>3, <1>4, <3>1, LoadNext
    <2> HIDE DEF i, r
    <2> QED
      BY <2>1, <2>2, <2>3
  <1>6. Wrote(records)'
    <2>1. write_mappings' = IF r.op = "W" THEN Put(write_mappings, r.virtual, r.real)
                            ELSE write_mappings
      BY DEF LoadRecord
    <2>2. \A v \in DOMAIN write_mappings' : \E w \in DOMAIN records :
             /\ records[w].op = "W" /\ records[w].virtual = v
             /\ write_mappings'[v] = records[w].real
      <3>1. CASE r.op = "W"
        <4>1. /\ DOMAIN write_mappings' = DOMAIN write_mappings \cup {r.virtual}
              /\ \A v \in DOMAIN write_mappings' : write_mappings'[v] =
                    IF v = r.virtual THEN r.real ELSE write_mappings[v]
          BY <2>1, <3>1 DEF Put
        <4> HIDE DEF i
        <4> QED
          BY <1>1, <1>4, <3>1, <4>1 DEF Wrote
      <3>2. CASE r.op # "W"
        BY <1>1, <2>1, <3>2 DEF Wrote
      <3> QED
        BY <3>1, <3>2
    <2> QED
      BY <1>2, <2>2 DEF Wrote
  <1>7. i = Len(records) => \E read : Settled(records, disk, vfs', read)
    <2> HIDE DEF i
    <2> QED
      BY <1>3, <1>5, LoadWhole DEF Settled
  <1> HIDE DEF i
  <1> QED
    BY <1>1, <1>2, <1>4, <1>5, <1>6, <1>7 DEF Steady

\* A lookup that is not to create or to delete leaves what exploration found.
LEMMA OpendirSettled ==
    ASSUME NEW rs, NEW st, NEW read, Settled(rs, disk, st, read), NEW p \in Path,
           LooksElsewhere \/ p \in DOMAIN st.folders \cup DOMAIN st.reverse
    PROVE  Settled(rs, disk, OpendirFillInfo(st, p), read)
  <1> DEFINE new == OpendirFillInfo(st, p)
             n == Len(rs)
  <1>1. Filled(rs, disk, st, read, n) /\ Whole(rs, disk, read)
    BY DEF Settled
  <1>2. Good(new, DirsOf(disk), Allowed(rs))
    BY <1>1, OpendirFillInfoIs, AllowedIs DEF Filled
  <1>3. /\ new.mapped = st.mapped /\ new.folders = st.folders /\ new.watched = st.watched
        /\ DOMAIN st.reverse \subseteq DOMAIN new.reverse
    <2>1. CASE p \in DOMAIN st.folders \cup DOMAIN st.reverse
      BY <2>1 DEF OpendirFillInfo
    <2>2. CASE p \notin DOMAIN st.folders \cup DOMAIN st.reverse
      <3>1. st \in Tables(DirsOf(disk))
        BY <1>1 DEF Filled, Good
      <3>2. new = [st EXCEPT !.reverse = Put(st.reverse, p, NoFolder)]
        BY <2>2 DEF OpendirFillInfo
      <3>3. DOMAIN st.reverse \subseteq DOMAIN Put(st.reverse, p, NoFolder)
        BY DEF Put
      <3> HIDE DEF new
      <3> QED
        BY <3>1, <3>2, <3>3 DEF Tables
    <2> QED
      BY <2>1, <2>2
  <1> HIDE DEF new
  <1>4. Noted(rs, disk, new, read, n)
    BY <1>1, <1>3 DEF Noted, Filled
  <1>5. Settled(rs, disk, new, read)
    BY <1>1, <1>2, <1>3, <1>4 DEF Settled, Filled
  <1> QED
    BY <1>5 DEF new

LEMMA CallSteady ==
    ASSUME Plain, Layered, DOMAIN Suffix = {}, Reading, Steady, NEW c \in Calls,
           Open(c) \/ Unlink(c) \/ Rename(c) \/ Mkdir(c) \/ Stat(c) \/ Opendir(c)
    PROVE  Steady'
  <1> DEFINE p == c.path
             v == Translated(vfs, p)
             found == Found(vfs, v)
  <1>1. (Open(c) /\ c.op = "read") \/ Stat(c) \/ Opendir(c)
    BY DEF Reading, Open, Unlink, Rename, Mkdir, Stat, Opendir
  <1>2. /\ records \in VfsFiles /\ disk \in Trees /\ dirs = DirsOf(disk)
        /\ loaded \in 0..Len(records) /\ events = << >> /\ spared = {} /\ Wrote(records)
        /\ Ready /\ loaded = Len(records)
    BY <1>1 DEF Steady, Open, Stat, Opendir, Ready
  <1>3. Agreeing(records, disk) /\ Len(records) \in Nat
    BY <1>2, AgreeingIs DEF Agreeing
  <1>4. PICK read : Settled(records, disk, vfs, read)
    BY <1>2 DEF Steady
  <1>5. p \in Path /\ v \in Path
    <2>1. p \in Path
      BY InputTypes, NamesArePaths
    <2>2. Good(vfs, DirsOf(disk), Allowed(records))
      BY <1>4 DEF Settled, Filled
    <2> HIDE DEF p
    <2> QED
      BY <2>1, <2>2, TranslatedIs
  <1> HIDE DEF p, v
  <1>6. PICK more : Settled(records, disk, found, more)
    BY <1>2, <1>3, <1>4, <1>5, FoundFills
  <1> HIDE DEF found
  <1>7. /\ records' = records /\ disk' = disk /\ dirs' = dirs /\ events' = << >>
        /\ spared' = spared /\ loaded' = loaded /\ write_mappings' = write_mappings
        /\ \/ vfs' = found
           \/ /\ vfs' = OpendirFillInfo(found, p)
              /\ LooksElsewhere \/ p \in DOMAIN found.folders \cup DOMAIN found.reverse
    <2>1. \A got : got = GetPath(vfs, p, "Read") => got.vfs = found /\ got.made = {}
      BY ReadPath DEF found, v
    <2>2. ReportsMade(found.watched, {}) = << >>
      BY DEF ReportsMade
    <2>3. CASE Open(c) /\ c.op = "read"
      <3>1. PICK got \in {GetPath(vfs, p, "Read")} :
              LET creates == c.op # "read" /\ Writable(got.real, got.made) IN
              /\ vfs' = got.vfs
              /\ dirs' = dirs \cup got.made
              /\ disk' = IF creates THEN disk \cup {got.real} ELSE disk
              /\ events' = ReportsMade(got.vfs.watched, got.made) \o
                           IF creates /\ got.real \notin disk
                           THEN Reports(got.vfs.watched, "R", got.real, FALSE)
                           ELSE << >>
              /\ UNCHANGED <<records, mode, loaded, write_mappings, spared>>
        BY <2>3 DEF Open, p
      <3>2. got.vfs = found /\ got.made = {}
        BY <2>1
      <3>3. events' = << >> \o << >>
        BY <2>2, <2>3, <3>1, <3>2
      <3>4. << >> \o << >> = << >>
        OBVIOUS
      <3> QED
        BY <2>3, <3>1, <3>2, <3>3, <3>4
    <2>4. CASE Stat(c)
      <3>1. /\ vfs' = GetPath(vfs, p, "Read").vfs
            /\ UNCHANGED <<records, disk, dirs, mode, loaded, write_mappings, events,
                           spared>>
        BY <2>4 DEF Stat, p
      <3> QED
        BY <1>2, <2>1, <3>1
    <2>5. CASE Opendir(c)
      <3>1. PICK got \in {GetPath(vfs, p, "Read")} :
              /\ vfs' = IF got.real \in dirs THEN OpendirFillInfo(got.vfs, p) ELSE got.vfs
              /\ UNCHANGED <<records, disk, dirs, mode, loaded, write_mappings, events,
                             spared>>
        BY <2>5 DEF Opendir, p
      <3>2. got.vfs = found
        BY <2>1
      <3>3. /\ c.op = "opendir"
            /\ got.real \in dirs =>
                 LooksElsewhere \/ p \in DOMAIN found.folders \cup DOMAIN found.reverse
        BY <1>2, <1>3, <1>4, <2>5, <3>2, OpendirKnown DEF Opendir, p
      <3> QED
        BY <1>2, <3>1, <3>2, <3>3
    <2> QED
      BY <1>1, <2>3, <2>4, <2>5
  <1>8. \E x : Settled(records, disk, vfs', x)
    BY <1>5, <1>6, <1>7, OpendirSettled
  <1>9. Wrote(records)'
    BY <1>2, <1>7 DEF Wrote
  <1>10. /\ (loaded < Len(records))' = FALSE
         /\ DirsOf(disk)' = DirsOf(disk)
    BY <1>2, <1>3, <1>7 DEF DirsOf
  <1> QED
    BY <1>2, <1>3, <1>7, <1>8, <1>9, <1>10 DEF Steady

LEMMA SteadyAlways ==
    ASSUME Plain, Layered, DOMAIN Suffix = {}, Reading
    PROVE  Spec => []Steady
  <1>1. Init => Steady
    BY SteadyStart
  <1>2. Steady /\ [Next]_vars => Steady'
    <2> SUFFICES ASSUME Steady, [Next]_vars PROVE Steady'
      OBVIOUS
    <2>1. CASE UNCHANGED vars
      <3>1. /\ records' = records /\ disk' = disk /\ dirs' = dirs /\ events' = events
            /\ spared' = spared /\ loaded' = loaded /\ write_mappings' = write_mappings
            /\ vfs' = vfs /\ mode' = mode
        BY <2>1 DEF vars
      <3> QED
        BY <3>1 DEF Steady, Wrote
    <2>2. CASE LoadRecord
      BY <2>2, LoadSteady
    <2>3. ~Listen
      BY DEF Listen, Steady
    <2>4. ASSUME NEW c \in Calls,
                 Open(c) \/ Unlink(c) \/ Rename(c) \/ Mkdir(c) \/ Stat(c) \/ Opendir(c)
          PROVE  Steady'
      BY <2>4, CallSteady
    <2> QED
      BY <2>1, <2>2, <2>3, <2>4 DEF Next
  <1> QED
    BY <1>1, <1>2, PTL DEF Spec

-----------------------------------------------------------------------------
(* What the tables hold between the calls *)

LEMMA LayersAre ==
    ASSUME Steady, NEW v
    PROVE  /\ LayersOf(v) = Lays(records, disk, v)
           /\ \A i : Promise!Target(i, v) = At(records, i, v)
  BY DEF Steady, LayersOf, Promise!Layers, Promise!Covering, Promise!Target, Lays, Covers, At,
         IsPrefix, Relocate, Promise!IsPrefix, Promise!Relocate

LEMMA QuietIs ==
    ASSUME Plain, Layered, DOMAIN Suffix = {}, Steady, Quiet
    PROVE  /\ Agreeing(records, disk) /\ dirs = DirsOf(disk) /\ Wrote(records)
           /\ DOMAIN vfs.folders \subseteq Path
           /\ \E read : Settled(records, disk, vfs, read)
  <1>1. /\ Agreeing(records, disk) /\ dirs = DirsOf(disk) /\ Wrote(records)
        /\ \E read : Settled(records, disk, vfs, read)
    BY AgreeingIs DEF Steady, Quiet
  <1>2. PICK read : Settled(records, disk, vfs, read)
    BY <1>1
  <1>3. vfs.folders \in Maps(Path, Folder(DirsOf(disk)))
    BY <1>2 DEF Settled, Filled, Good, Tables
  <1>4. DOMAIN vfs.folders \subseteq Path
    BY <1>3, MapsIs
  <1> QED
    BY <1>1, <1>4

\* What has been explored has all its layers, and they are scanned.
LEMMA ExploredIs ==
    ASSUME NEW rs, NEW files, Agreeing(rs, files), NEW st, NEW read,
           Settled(rs, files, st, read), NEW v \in DOMAIN st.folders, v \in Path,
           st.folders[v].explored
    PROVE  /\ Covers(rs, v) # {} /\ read[v] = Lays(rs, files, v)
           /\ st.folders[v].children = Entries(rs, files, read, v)
           /\ \A i \in Lays(rs, files, v) :
                 At(rs, i, v) \in st.watched /\ At(rs, i, v) \in DOMAIN st.reverse
  <1> DEFINE n == Len(rs)
  <1>1. /\ Filled(rs, files, st, read, n) /\ Closed(rs, files, read, n)
        /\ FilledFolder(rs, files, st.folders[v], read, n, v)
        /\ Noted(rs, files, st, read, n)
    BY DEF Settled, Filled, FilledFolders
  <1>2. read[v] # {}
    BY <1>1 DEF FilledFolder
  <1>3. read[v] = Lays(rs, files, v)
    BY <1>2 DEF Settled, Whole
  <1>4. \A i \in Lays(rs, files, v) : i \in Known(rs, files, read, n, v)
    BY <1>1, <1>3 DEF Closed
  <1>5. Covers(rs, v) # {}
    BY <1>2, <1>3 DEF Lays
  <1> QED
    BY <1>1, <1>3, <1>4, <1>5 DEF FilledFolder, Noted

\* The places of a directory in foldervec are in the order of the records.
LEMMA LastInOrder ==
    ASSUME NEW rs, NEW files, NEW vec, NEW v, Visits(rs, files, vec, v),
           NEW i \in Lays(rs, files, v), NEW j \in Lays(rs, files, v), i < j,
           i \in Nat, j \in Nat
    PROVE  LastAt(vec, At(rs, i, v)) <= LastAt(vec, At(rs, j, v))
  <1> DEFINE Places(k) == {a \in DOMAIN vec : vec[a] = At(rs, k, v)}
  <1>1. Len(vec) \in Nat /\ DOMAIN vec = 1..Len(vec)
    <2>1. vec \in Seq(Path) /\ Len(vec) \in Nat
      BY DEF Visits
    <2> QED
      BY <2>1
  <1>2. ASSUME NEW k \in Lays(rs, files, v)
        PROVE  LastAt(vec, At(rs, k, v)) \in Places(k)
    <2> DEFINE P == Places(k)
    <2>1. P # {}
      BY <1>1 DEF Visits
    <2>2. P \in SUBSET (0..Len(vec))
      BY <1>1
    <2> HIDE DEF P
    <2>3. \E x \in P : \A y \in P : y <= x
      BY <1>1, <2>1, <2>2, GreatestElement
    <2>4. \E x \in P : \A y \in P : x >= y
      BY <1>1, <2>2, <2>3
    <2>5. Max(P) \in P
      BY <2>4 DEF Max
    <2> QED
      BY <2>5 DEF LastAt, P
  <1> DEFINE a == LastAt(vec, At(rs, i, v))
             b == LastAt(vec, At(rs, j, v))
  <1>3. a \in 1..Len(vec) /\ vec[a] = At(rs, i, v)
    BY <1>1, <1>2
  <1>4. b \in 1..Len(vec) /\ vec[b] = At(rs, j, v)
    BY <1>1, <1>2
  <1> HIDE DEF a, b
  <1>5. b <= a => j <= i
    BY <1>3, <1>4 DEF Visits
  <1>6. a <= b
    BY <1>1, <1>3, <1>4, <1>5
  <1> QED
    BY <1>6 DEF a, b

LEMMA SteadyKnown ==
    ASSUME Plain, Layered, DOMAIN Suffix = {}, Steady
    PROVE  LayersKnown
  <1> SUFFICES ASSUME Quiet, NEW v \in DOMAIN vfs.folders, LayersOf(v) # {}
               PROVE  /\ \A i \in LayersOf(v) :
                            Promise!Target(i, v) \in ToSet(FolderVec(vfs, v))
                      /\ \A i, j \in LayersOf(v) : i < j =>
                            LastAt(FolderVec(vfs, v), Promise!Target(i, v))
                               <= LastAt(FolderVec(vfs, v), Promise!Target(j, v))
    BY DEF LayersKnown
  <1> DEFINE L == Lays(records, disk, v)
             vec == FolderVec(vfs, v)
  <1>1. /\ Agreeing(records, disk) /\ dirs = DirsOf(disk) /\ Wrote(records) /\ v \in Path
    BY QuietIs
  <1>2. PICK read : Settled(records, disk, vfs, read)
    BY QuietIs
  <1>3. LayersOf(v) = L /\ \A i : Promise!Target(i, v) = At(records, i, v)
    BY LayersAre
  <1>4. Covers(records, v) # {} /\ \A i \in L : i \in Nat
    BY <1>1, <1>3 DEF Lays, Covers, Agreeing
  <1>5. Visits(records, disk, vec, v)
    BY <1>1, <1>2, <1>4, FolderVecAt
  <1> HIDE DEF L, vec
  <1>6. \A i \in L : At(records, i, v) \in ToSet(vec)
    <2>1. vec \in Seq(Path) /\ \A i \in L : \E k \in 1..Len(vec) : vec[k] = At(records, i, v)
      BY <1>5 DEF Visits, L
    <2> QED
      BY <2>1 DEF ToSet
  <1>7. \A i, j \in L : i < j =>
           LastAt(vec, At(records, i, v)) <= LastAt(vec, At(records, j, v))
    BY <1>4, <1>5, LastInOrder DEF L
  <1> QED
    BY <1>3, <1>6, <1>7 DEF vec

LEMMA SteadyWatched ==
    ASSUME Plain, Layered, DOMAIN Suffix = {}, Steady
    PROVE  LayersWatched
  <1> SUFFICES ASSUME Quiet, NEW v \in DOMAIN vfs.folders, vfs.folders[v].explored,
                      NEW i \in LayersOf(v)
               PROVE  /\ Promise!Target(i, v) \in vfs.watched
                      /\ Promise!Target(i, v) \in DOMAIN vfs.reverse
    BY DEF LayersWatched
  <1>1. Agreeing(records, disk) /\ v \in Path
    BY QuietIs
  <1>2. PICK read : Settled(records, disk, vfs, read)
    BY QuietIs
  <1>3. i \in Lays(records, disk, v) /\ Promise!Target(i, v) = At(records, i, v)
    BY LayersAre
  <1> QED
    BY <1>1, <1>2, <1>3, ExploredIs

\* The names in the directories of the layers are those of the entries.
LEMMA EntriesAre ==
    ASSUME NEW rs, Agreeing(rs, disk), dirs = DirsOf(disk), NEW read, NEW v \in Path,
           read[v] = Lays(rs, disk, v)
    PROVE  Entries(rs, disk, read, v)
             = UNION {{Last(e) : e \in FilesIn(At(rs, i, v)) \cup DirsIn(At(rs, i, v))} :
                      i \in Lays(rs, disk, v)}
  <1> DEFINE L == Lays(rs, disk, v)
             In(i) == FilesIn(At(rs, i, v)) \cup DirsIn(At(rs, i, v))
             below == {p \in Path : /\ p # << >> /\ Parent(p) = v
                                    /\ \E i \in L : i \in Holds(rs, disk, p)
                                                             \cup Lays(rs, disk, p)}
  <1>1. /\ rs \in VfsFiles /\ disk \subseteq Path /\ dirs \subseteq Path
        /\ v \in Seq(N) /\ IsPrefix(v, v)
    <2>1. v \in Seq(N) /\ IsPrefix(v, v)
      BY PrefixIs DEF Path
    <2> QED
      BY <2>1 DEF Agreeing, Tree, Dirs
  <1>2. Entries(rs, disk, read, v) = {Last(q) : q \in below}
    BY DEF Entries
  <1>3. ASSUME NEW i \in L, NEW q \in Path, q # << >>, Parent(q) = v
        PROVE  /\ i \in Covers(rs, q) /\ Last(At(rs, i, q)) = Last(q)
               /\ At(rs, i, q) \in Path /\ At(rs, i, q) # << >>
               /\ Parent(At(rs, i, q)) = At(rs, i, v)
    <2>1. i \in Covers(rs, v)
      BY DEF Lays
    <2>2. /\ i \in Covers(rs, q) /\ At(rs, i, q) \in Path /\ At(rs, i, q) # << >>
          /\ Parent(At(rs, i, q)) = At(rs, i, v)
      BY <1>1, <1>3, <2>1, FoundAt
    <2>3. q # rs[i].virtual
      <3>1. Len(v) = Len(q) - 1 /\ Len(q) \in Nat
        BY <1>3, ParentLast DEF Path
      <3>2. rs[i].virtual \in Path /\ IsPrefix(rs[i].virtual, v)
        BY <1>1, <2>1, AtRest
      <3>3. Len(rs[i].virtual) <= Len(v)
        BY <1>1, <3>2, PrefixIs DEF Path
      <3> QED
        BY <3>1, <3>3
    <2>4. At(rs, i, q) = Append(At(rs, i, v), Last(q)) /\ Last(q) \in N
      BY <1>1, <1>3, <2>2, <2>3, AtIs
    <2>5. At(rs, i, v) \in Path
      BY <1>1, <2>1, AtIs
    <2>6. Last(At(rs, i, q)) = Last(q)
      BY <2>4, <2>5, ParentOfAppend DEF Path
    <2> QED
      BY <2>2, <2>6
  <1>4. ASSUME NEW q \in below
        PROVE  \E i \in L : \E e \in In(i) : Last(q) = Last(e)
    <2>1. PICK i \in L : i \in Holds(rs, disk, q) \cup Lays(rs, disk, q)
      OBVIOUS
    <2>2. At(rs, i, q) \in In(i)
      BY <1>3, <2>1 DEF Holds, Lays, FilesIn, DirsIn
    <2>3. Last(q) = Last(At(rs, i, q))
      BY <1>3
    <2> QED
      BY <2>2, <2>3
  <1>5. ASSUME NEW i \in L, NEW e \in In(i)
        PROVE  \E q \in below : Last(e) = Last(q)
    <2>1. /\ e \in Path /\ e # << >> /\ Parent(e) = At(rs, i, v)
          /\ e \in disk \cup dirs /\ i \in Covers(rs, v)
      BY <1>1 DEF FilesIn, DirsIn, Lays
    <2> DEFINE q == Relocate(e, At(rs, i, v), v)
    <2>2. /\ q \in Path /\ q # << >> /\ Parent(q) = v
          /\ i \in Covers(rs, q) /\ At(rs, i, q) = e
      BY <1>1, <2>1, FoundAt
    <2> HIDE DEF q
    <2>3. q \in below
      BY <2>1, <2>2 DEF Holds, Lays
    <2>4. Last(q) = Last(e)
      BY <1>3, <2>2
    <2> QED
      BY <2>3, <2>4
  <1> HIDE DEF below, In, L
  <1>6. {Last(q) : q \in below} = UNION {{Last(e) : e \in In(i)} : i \in L}
    BY <1>4, <1>5
  <1> QED
    BY <1>2, <1>6 DEF In, L

LEMMA SteadyListing ==
    ASSUME Plain, Layered, DOMAIN Suffix = {}, Steady
    PROVE  ListingExact
  <1> SUFFICES ASSUME Quiet, NEW v \in DOMAIN vfs.folders, vfs.folders[v].explored
               PROVE  vfs.folders[v].children = UNION {Held(v, i) : i \in LayersOf(v)}
    BY DEF ListingExact
  <1>1. Agreeing(records, disk) /\ dirs = DirsOf(disk) /\ v \in Path
    BY QuietIs
  <1>2. PICK read : Settled(records, disk, vfs, read)
    BY QuietIs
  <1>3. LayersOf(v) = Lays(records, disk, v) /\ \A i : Promise!Target(i, v) = At(records, i, v)
    BY LayersAre
  <1>4. /\ vfs.folders[v].children = Entries(records, disk, read, v)
        /\ read[v] = Lays(records, disk, v)
    BY <1>1, <1>2, ExploredIs
  <1>5. Entries(records, disk, read, v)
          = UNION {{Last(e) : e \in FilesIn(At(records, i, v)) \cup DirsIn(At(records, i, v))} :
                   i \in Lays(records, disk, v)}
    BY <1>1, <1>4, EntriesAre
  <1> QED
    BY <1>3, <1>4, <1>5 DEF Held

\* A program that reads finds every folder with all its real directories, in the
\* order of the records, whatever it has looked at before: a later exploration maps
\* the files of the folder with the right priority.
THEOREM LayersKnownTheorem ==
    ASSUME Plain, Layered, DOMAIN Suffix = {}, Reading
    PROVE  Spec => []LayersKnown
  <1>1. Steady => LayersKnown
    BY SteadyKnown
  <1> QED
    BY <1>1, SteadyAlways, PTL

\* A folder that a lookup has explored lists what its real directories have, and
\* nothing else, though some of it was already mapped when the VFS file was read.
THEOREM ListingExactTheorem ==
    ASSUME Plain, Layered, DOMAIN Suffix = {}, Reading
    PROVE  Spec => []ListingExact
  <1>1. Steady => ListingExact
    BY SteadyListing
  <1> QED
    BY <1>1, SteadyAlways, PTL

\* While the program only reads, no directory of a folder that has been explored is
\* left unwatched, nor without a way back to the folder, however deep it lies: what
\* another program makes there will be noticed.
THEOREM LayersWatchedTheorem ==
    ASSUME Plain, Layered, DOMAIN Suffix = {}, Reading
    PROVE  Spec => []LayersWatched
  <1>1. Steady => LayersWatched
    BY SteadyWatched
  <1> QED
    BY <1>1, SteadyAlways, PTL

-----------------------------------------------------------------------------
(* The refinement of Overlay *)

\* Nothing the tables name is missing.
LEMMA NothingMissing ==
    ASSUME Plain, Layered, DOMAIN Suffix = {}, Steady
    PROVE  {q \in DOMAIN vfs.mapped : Missing(q)} = {}
  <1>1. Agreeing(records, disk) /\ loaded \in 0..Len(records) /\ Len(records) \in Nat
    BY AgreeingIs DEF Steady, Agreeing
  <1>2. \E read, n : Filled(records, disk, vfs, read, n)
    <2>1. loaded < Len(records) \/ loaded = Len(records)
      BY <1>1
    <2> QED
      BY <2>1 DEF Steady, Settled
  <1>3. PICK read, n : Filled(records, disk, vfs, read, n)
    BY <1>2
  <1>4. ASSUME NEW q \in DOMAIN vfs.mapped
        PROVE  vfs.mapped[q] \in disk
    <2> DEFINE S == Mapping(records, disk, read, n, q)
    <2>1. vfs.mapped \in Maps(Path, Path) /\ FilledFiles(records, disk, vfs.mapped, read, n)
      BY <1>3 DEF Filled, Good, Tables
    <2>2. q \in Path
      BY <2>1, MapsIs
    <2>3. S # {}
      BY <2>1, <2>2 DEF FilledFiles
    <2>4. S \in SUBSET DOMAIN records
      BY DEF Mapping, Holds, Covers
    <2>5. Max(S) \in S /\ \A j \in S : j <= Max(S)
      <3> HIDE DEF S
      <3> QED
        BY <1>1, <2>3, <2>4, LastRecord
    <2> DEFINE m == Max(S)
    <2> HIDE DEF m
    <2>6. vfs.mapped[q] = At(records, m, q)
      BY <2>1, <2>2, <2>5 DEF FilledFiles, m
    <2> QED
      BY <2>5, <2>6 DEF m, Mapping, Holds
  <1> QED
    BY <1>4 DEF Missing

\* What Overlay promises, in the terms of the tables' contents.
LEMMA PromiseVirtual ==
    ASSUME NEW p
    PROVE  Promise!Virtual(p) = VirtualOf(records, p)
  BY DEF Promise!Virtual, VirtualOf, Relocate, Promise!Relocate, IsPrefix, Promise!IsPrefix,
         Max, Promise!Max

LEMMA PromiseHolders ==
    ASSUME Steady, NEW v
    PROVE  /\ Promise!Holders(v) = Holds(records, disk, v)
           /\ Promise!Layers(v) = Lays(records, disk, v)
           /\ \A i : Promise!Target(i, v) = At(records, i, v)
  BY DEF Steady, Promise!Holders, Promise!Layers, Promise!Covering, Promise!Target, Holds,
         Lays, Covers, At, IsPrefix, Relocate, Promise!IsPrefix, Promise!Relocate

LEMMA PromisePlace ==
    ASSUME Plain, Layered, DOMAIN Suffix = {}, Steady, NEW p, NEW creates, creates = FALSE
    PROVE  /\ Promise!Place(p, creates) = PlaceOf(records, disk, p)
           /\ Promise!Redirects(Promise!Virtual(p), creates)
                <=> Holds(records, disk, Promise!Virtual(p)) # {}
           /\ Promise!DirAt(p) = DirOf(records, disk, p)
  <1> DEFINE v == Promise!Virtual(p)
             bound == [q \in {x \in DOMAIN vfs.mapped : Missing(x)} |-> vfs.mapped[q]]
  <1>1. v = VirtualOf(records, p)
    BY PromiseVirtual
  <1>2. /\ Promise!Holders(v) = Holds(records, disk, v)
        /\ Promise!Layers(v) = Lays(records, disk, v)
        /\ \A i : Promise!Target(i, v) = At(records, i, v)
    BY PromiseHolders
  <1>3. DOMAIN bound = {}
    BY NothingMissing
  <1>4. /\ Promise!Redirects(v, creates)
             <=> v \in DOMAIN bound \/ Promise!Holders(v) # {}
                   \/ (creates /\ Promise!Writers(v) # {})
        /\ Promise!Place(p, creates) = IF ~Promise!Redirects(v, creates) THEN p
                    ELSE IF v \in DOMAIN bound THEN bound[v]
                    ELSE IF Promise!Holders(v) # {}
                    THEN Promise!Target(Promise!Max(Promise!Holders(v)), v)
                    ELSE Promise!Target(Promise!Max(Promise!Writers(v)), v)
        /\ Promise!DirAt(p) = IF Promise!Layers(v) = {} THEN IF p \in dirs THEN p ELSE NoFile
                    ELSE IF v \in dirs THEN v
                    ELSE Promise!Target(Promise!Max(Promise!Layers(v)), v)
    BY Zenon DEF Promise!Redirects, Promise!Place, Promise!DirAt
  <1>5. \A S : Promise!Max(S) = Max(S)
    BY DEF Promise!Max, Max
  <1>6. dirs = DirsOf(disk)
    BY DEF Steady
  <1> HIDE DEF v, bound
  <1>7. Promise!Redirects(v, creates) <=> Holds(records, disk, v) # {}
    BY <1>2, <1>3, <1>4
  <1>8. Promise!Place(p, creates) = IF Holds(records, disk, v) = {} THEN p
                                    ELSE At(records, Max(Holds(records, disk, v)), v)
    BY <1>2, <1>3, <1>4, <1>5, <1>7
  <1>9. Promise!DirAt(p) = IF Lays(records, disk, v) = {}
                           THEN IF p \in DirsOf(disk) THEN p ELSE NoFile
                           ELSE IF v \in DirsOf(disk) THEN v
                           ELSE At(records, Max(Lays(records, disk, v)), v)
    BY <1>2, <1>4, <1>5, <1>6
  <1> QED
    BY <1>1, <1>7, <1>8, <1>9 DEF PlaceOf, DirOf, v

\* The mappings the abstract state would show.
Bound == [p \in {q \in DOMAIN vfs.mapped : Missing(q)} |-> vfs.mapped[p]]

NoneBound == {q \in DOMAIN vfs.mapped : Missing(q)} = {}

\* A program that only looks leaves no path bound to what is not there.
LEMMA StaysBound ==
    ASSUME Plain, Layered, DOMAIN Suffix = {}, Steady, NoneBound', disk' = disk, dirs' = dirs,
           NEW p, NEW creates, creates = FALSE
    PROVE  Promise!StayBound(Promise!Override(Promise!Lead(p, creates), Bound))
  <1> DEFINE v == Promise!Virtual(p)
             lead == Promise!Lead(p, creates)
             leads == Promise!Override(lead, Bound)
  <1>1. /\ DOMAIN lead = {u \in {v} : Promise!Redirects(u, creates)}
        /\ \A u \in DOMAIN lead : lead[u] = Promise!Place(p, creates)
    BY Zenon DEF Promise!Lead
  <1>2. DOMAIN Bound = {}
    BY NothingMissing DEF Bound
  <1>3. Agreeing(records, disk)
    BY AgreeingIs DEF Steady
  <1>4. ASSUME NEW u \in DOMAIN lead
        PROVE  lead[u] \in disk
    <2> DEFINE S == Holds(records, disk, v)
    <2>1. S # {} /\ v = VirtualOf(records, p)
      BY <1>1, <1>4, PromisePlace, PromiseVirtual
    <2>2. lead[u] = At(records, Max(S), v)
      BY <1>1, <1>4, <2>1, PromisePlace DEF PlaceOf
    <2>3. S \in SUBSET DOMAIN records
      BY DEF Holds, Covers
    <2>4. Max(S) \in S
      <3> HIDE DEF S
      <3> QED
        BY <1>3, <2>1, <2>3, LastRecord
    <2> HIDE DEF v
    <2> QED
      BY <2>2, <2>4 DEF Holds
  <1> HIDE DEF lead, v
  <1>5. /\ DOMAIN leads = DOMAIN lead
        /\ \A u \in DOMAIN leads : leads[u] = lead[u]
    BY <1>2 DEF Promise!Override
  <1> HIDE DEF leads
  <1>6. {u \in DOMAIN leads : leads[u] \notin disk' \cup dirs'} = {}
    BY <1>4, <1>5
  <1>7. Bound' = [q \in {u \in DOMAIN leads : leads[u] \notin disk' \cup dirs'} |-> leads[q]]
    BY <1>6 DEF Bound, NoneBound
  <1> QED
    BY <1>7 DEF Promise!StayBound, leads, Bound, lead

LEMMA ReadPromised ==
    ASSUME Plain, Layered, DOMAIN Suffix = {}, Reading, ~LooksElsewhere, Steady, NoneBound',
           NEW c \in Calls, Open(c)
    PROVE  Promise!Open(c)
  <1> DEFINE p == c.path
             real == GetPath(vfs, p, "Read").real
             creates == c.op = "create"
             f == Promise!Place(p, creates)
  <1>1. c.op = "read" /\ creates = FALSE
    BY DEF Reading, Open
  <1>2. /\ records' = records /\ disk' = disk /\ dirs' = dirs /\ Quiet
        /\ answer' = [op |-> c.op, path |-> p,
                      file |-> IF real \in disk THEN real ELSE NoFile]
    <2>1. \A got : got = GetPath(vfs, p, "Read") => got.made = {}
      BY ReadPath
    <2> QED
      BY <1>1, <2>1 DEF Open, Ready, Quiet, Answers
  <1>3. p \in Path
    BY InputTypes, NamesArePaths
  <1>4. Answered(records, real, p)
    <2>1. PICK read : Settled(records, disk, vfs, read)
      BY <1>2, QuietIs
    <2> HIDE DEF p
    <2> QED
      BY <1>2, <1>3, <2>1, QuietIs, AnsweredIs
  <1>5. f = PlaceOf(records, disk, p)
    BY <1>1, PromisePlace
  <1>6. Promise!StayBound(Promise!Override(Promise!Lead(p, creates), Bound))
    <2>1. creates = FALSE /\ disk' = disk /\ dirs' = dirs
      BY <1>1, <1>2
    <2> HIDE DEF creates, p
    <2> QED
      BY <2>1, StaysBound
  <1> HIDE DEF real
  <1>7. answer' = Promise!Result(c, IF f \in disk' THEN f ELSE NoFile)
    BY <1>2, <1>4, <1>5 DEF Answered, Promise!Result
  <1> QED
    BY <1>1, <1>2, <1>6, <1>7 DEF Promise!Open, Bound

LEMMA StatPromised ==
    ASSUME Plain, Layered, DOMAIN Suffix = {}, Reading, ~LooksElsewhere, Steady, NoneBound',
           NEW c \in Calls, Stat(c) \/ Opendir(c)
    PROVE  Promise!Stat(c)
  <1> DEFINE p == c.path
             real == GetPath(vfs, p, "Read").real
             file == IF real \in dirs \cup {Undefined} THEN real ELSE NoFile
  <1>1. /\ c.op \in {"stat", "opendir"}
        /\ records' = records /\ disk' = disk /\ dirs' = dirs /\ Quiet
        /\ answer' = [op |-> c.op, path |-> p, file |-> file]
    BY DEF Stat, Opendir, Ready, Quiet, Answers
  <1>2. p \in Path
    BY InputTypes, NamesArePaths
  <1>3. Answered(records, real, p)
    <2>1. PICK read : Settled(records, disk, vfs, read)
      BY <1>1, QuietIs
    <2> HIDE DEF p
    <2> QED
      BY <1>1, <1>2, <2>1, QuietIs, AnsweredIs
  <1>4. Promise!DirAt(p) = DirOf(records, disk, p) /\ Promise!Virtual(p) = VirtualOf(records, p)
    BY PromisePlace, PromiseVirtual
  <1>5. Bound' = Bound
    BY NothingMissing DEF Bound, NoneBound
  <1>6. \/ file = Promise!DirAt(p)
        \/ /\ file = Undefined /\ Promise!DirAt(p) = NoFile
           /\ \E i \in DOMAIN records :
                 Promise!IsStrictPrefix(Promise!Virtual(p), records[i].virtual)
    BY <1>3, <1>4 DEF Answered, IsStrictPrefix, Promise!IsStrictPrefix, IsPrefix,
                      Promise!IsPrefix
  <1> HIDE DEF file
  <1> QED
    BY <1>1, <1>5, <1>6, Zenon DEF Promise!Stat, Promise!Result, Bound

LEMMA NextPromised ==
    ASSUME Plain, Layered, DOMAIN Suffix = {}, Reading, ~LooksElsewhere, Steady, NoneBound',
           [Next]_vars
    PROVE  [Promise!Next]_<<records, disk, dirs, Bound, answer>>
  <1>1. CASE UNCHANGED vars \/ LoadRecord
    <2>1. UNCHANGED <<records, disk, dirs, answer>>
      BY <1>1 DEF vars, LoadRecord
    <2>2. Bound' = Bound
      BY NothingMissing DEF Bound, NoneBound
    <2> QED
      BY <2>1, <2>2
  <1>2. CASE Listen
    BY <1>2 DEF Listen, Steady
  <1>3. ASSUME NEW c \in Calls,
               Open(c) \/ Unlink(c) \/ Rename(c) \/ Mkdir(c) \/ Stat(c) \/ Opendir(c)
        PROVE  Promise!Next
    <2>1. Open(c) \/ Stat(c) \/ Opendir(c)
      BY <1>3 DEF Reading, Unlink, Rename, Mkdir
    <2>2. Promise!Open(c) \/ Promise!Stat(c)
      BY <2>1, ReadPromised, StatPromised
    <2> QED
      BY <2>2 DEF Promise!Next
  <1> QED
    BY <1>1, <1>2, <1>3 DEF Next

LEMMA InitPromised ==
    ASSUME Init
    PROVE  Promise!Init
  <1>1. [p \in {q \in DOMAIN vfs.mapped : Missing(q)} |-> vfs.mapped[p]] = << >>
    BY DEF Init
  <1> QED
    BY <1>1 DEF Init, DirsOf, Promise!Init, Ancestors, Promise!Ancestors, Up, Promise!Up

\* Whatever has been loaded or explored, a call of a program that opens files to
\* read them, looks at folders and into those a record covers does what the VFS file
\* promises: that folders are explored when they are asked for is not observable.
THEOREM ImplementsTheorem ==
    ASSUME Plain, Layered, DOMAIN Suffix = {}, Reading, ~LooksElsewhere
    PROVE  Spec => Implements
  <1>1. Init => Promise!Init
    BY InitPromised
  <1>2. Steady => NoneBound
    BY NothingMissing DEF NoneBound
  <1>3. Steady /\ NoneBound' /\ [Next]_vars
          => [Promise!Next]_<<records, disk, dirs, Bound, answer>>
    BY NextPromised
  <1>4. Steady /\ NoneBound' /\ [Next]_vars
          => [Promise!Next]_<<records, disk, dirs,
                 [p \in {q \in DOMAIN vfs.mapped : Missing(q)} |-> vfs.mapped[p]], answer>>
    BY <1>3 DEF Bound
  <1> QED
    BY <1>1, <1>2, <1>4, SteadyAlways, PTL DEF Spec, Implements, Promise!Spec
=============================================================================
