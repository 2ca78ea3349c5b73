-------------------------- MODULE ExplorationProofs ---------------------------
(***************************************************************************)
(* What the tables of Exploration hold, for every VFS file, tree and       *)
(* sequence of calls: their types, and where each entry comes from.  Both  *)
(* follow from one invariant, Inv(R), which says that each entry relates a *)
(* virtual path to a real one by R.  Every path is related to every other  *)
(* for the types; for the rest it is below the virtual folder of a record, *)
(* and the real one as far below the real directory of the same record.    *)
(***************************************************************************)
EXTENDS Exploration, SequenceLemmas

\* The empty name is that of the path which opendir puts into the tables.
N == Names \cup {""}
Path == Seq(N)

Folder(ds) == [paths : {s \in Seq(ds) : IsInjective(s)}, children : SUBSET N,
               explored : BOOLEAN]
Tables(ds) == [mapped : Maps(Path, Path), folders : Maps(Path, Folder(ds)),
               reverse : Maps(Path, Path), watched : SUBSET ds]

\* What a relation between virtual and real paths must have for the entries of
\* the tables to stay in it: it goes on below, add_folder climbs in it, and a
\* path that is its own directory leaves no trace.  It may have Blank, which is no
\* pair, but says that opendir may make empty entries.
Blank == << >>

Regular(R) ==
    /\ \A v, d : <<v, d>> \in R => v \in Path /\ d \in Path
    /\ \A v, d \in Path : <<v, d>> \in R =>
          /\ \A rest \in Path : <<v \o rest, d \o rest>> \in R
          /\ /\ v # << >> /\ d # << >>
             /\ FileName(Parent(v)) = FileName(Parent(d))
             => <<Parent(v), Parent(d)>> \in R
          /\ v = d => <<NoFolder, d>> \in R
    /\ DOMAIN Suffix = {} \/ Path \X Path \subseteq R

Mapped(mapped, R) == \A p \in DOMAIN mapped : <<p, mapped[p]>> \in R

Leads(folders, R) ==
    \A v \in DOMAIN folders : \A d \in ToSet(folders[v].paths) : <<v, d>> \in R

\* Only opendir puts the empty path into the table.
Backed(reverse, R) ==
    \A d \in DOMAIN reverse : \/ reverse[d] = NoFolder /\ Blank \in R
                              \/ <<reverse[d], d>> \in R

\* What is watched is known, and leads back if it is in the reverse table.
Noticed(st, R) ==
    \A d \in st.watched :
        /\ d \in DOMAIN st.reverse \cup DOMAIN st.folders
        /\ d \in DOMAIN st.reverse => <<st.reverse[d], d>> \in R

Good(st, ds, R) ==
    /\ st \in Tables(ds)
    /\ Mapped(st.mapped, R) /\ Leads(st.folders, R) /\ Backed(st.reverse, R)
    /\ Noticed(st, R)

Dirs(ds) == ds \subseteq Path /\ << >> \in ds /\ \A d \in ds : OnPath(d) \subseteq ds

-----------------------------------------------------------------------------
(* Names and relations *)

LEMMA NoFolderIsPath == NoFolder \in Path /\ << >> \in Path
  <1> DEFINE e == ""
  <1>1. e \in N
    BY DEF N
  <1> HIDE DEF e
  <1>2. <<e>> \in Seq(N) /\ << >> \in Seq(N)
    BY <1>1
  <1> QED
    BY <1>2 DEF NoFolder, Path, e

LEMMA NamesArePaths == Seq(Names) \subseteq Path
  <1>1. Names \subseteq N
    BY DEF N
  <1> QED
    BY <1>1 DEF Path

\* What R relates stays related further down.
LEMMA Below ==
    ASSUME NEW R, Regular(R), NEW v \in Path, NEW d \in Path, <<v, d>> \in R
    PROVE  /\ \A rest \in Path : <<v \o rest, d \o rest>> \in R
           /\ \A n \in N : /\ Append(v, n) \in Path /\ Append(d, n) \in Path
                           /\ <<Append(v, n), Append(d, n)>> \in R
  <1>1. \A rest \in Path : <<v \o rest, d \o rest>> \in R
    BY DEF Regular
  <1>2. ASSUME NEW n \in N
        PROVE  /\ Append(v, n) \in Path /\ Append(d, n) \in Path
               /\ <<Append(v, n), Append(d, n)>> \in R
    <2>1. <<n>> \in Path
      BY DEF Path
    <2>2. Append(v, n) = v \o <<n>> /\ Append(d, n) = d \o <<n>>
      <3>1. v \in Seq(N) /\ d \in Seq(N)
        BY DEF Path
      <3> QED
        BY ONLY <3>1, n \in N, AppendIsConcat
    <2>3. Append(v, n) \in Path /\ Append(d, n) \in Path
      BY AppendElements DEF Path
    <2>4. <<v \o <<n>>, d \o <<n>>>> \in R
      BY <1>1, <2>1
    <2> QED
      BY <2>2, <2>3, <2>4
  <1> QED
    BY <1>1, <1>2

\* Relocating from one side of R to the other stays in R.
LEMMA RelocateRelated ==
    ASSUME NEW R, Regular(R), NEW v \in Path, NEW d \in Path, <<v, d>> \in R
    PROVE  /\ \A p \in Path : IsPrefix(v, p) =>
                 /\ Relocate(p, v, d) \in Path /\ IsPrefix(d, Relocate(p, v, d))
                 /\ Relocate(Relocate(p, v, d), d, v) = p
                 /\ <<p, Relocate(p, v, d)>> \in R
           /\ \A p \in Path : IsPrefix(d, p) =>
                 /\ Relocate(p, d, v) \in Path /\ IsPrefix(v, Relocate(p, d, v))
                 /\ Relocate(Relocate(p, d, v), v, d) = p
                 /\ <<Relocate(p, d, v), p>> \in R
  <1>1. v \in Seq(N) /\ d \in Seq(N)
    BY DEF Path
  <1>2. ASSUME NEW p \in Path, IsPrefix(v, p)
        PROVE  /\ Relocate(p, v, d) \in Path /\ IsPrefix(d, Relocate(p, v, d))
               /\ Relocate(Relocate(p, v, d), d, v) = p
               /\ <<p, Relocate(p, v, d)>> \in R
    <2>1. p \in Seq(N)
      BY DEF Path
    <2>2. PICK rest \in Seq(N) : p = v \o rest
      <3>1. /\ SubSeq(p, Len(v) + 1, Len(p)) \in Seq(N)
            /\ p = v \o SubSeq(p, Len(v) + 1, Len(p))
        BY <1>1, <1>2, <2>1, PrefixRest
      <3> QED
        BY ONLY <3>1
    <2>3. Relocate(p, v, d) = d \o rest /\ Relocate(d \o rest, d, v) = p
      BY <1>1, <2>2, RelocateRest
    <2>4. Relocate(p, v, d) \in Seq(N) /\ IsPrefix(d, Relocate(p, v, d))
      BY <1>1, <1>2, <2>1, RelocateIs
    <2>5. <<v \o rest, d \o rest>> \in R
      BY <2>2, Below DEF Path
    <2> QED
      BY <2>2, <2>3, <2>4, <2>5 DEF Path
  <1>3. ASSUME NEW p \in Path, IsPrefix(d, p)
        PROVE  /\ Relocate(p, d, v) \in Path /\ IsPrefix(v, Relocate(p, d, v))
               /\ Relocate(Relocate(p, d, v), v, d) = p
               /\ <<Relocate(p, d, v), p>> \in R
    <2>1. p \in Seq(N)
      BY DEF Path
    <2>2. PICK rest \in Seq(N) : p = d \o rest
      <3>1. /\ SubSeq(p, Len(d) + 1, Len(p)) \in Seq(N)
            /\ p = d \o SubSeq(p, Len(d) + 1, Len(p))
        BY <1>1, <1>3, <2>1, PrefixRest
      <3> QED
        BY ONLY <3>1
    <2>3. Relocate(p, d, v) = v \o rest /\ Relocate(v \o rest, v, d) = p
      BY <1>1, <2>2, RelocateRest
    <2>4. Relocate(p, d, v) \in Seq(N) /\ IsPrefix(v, Relocate(p, d, v))
      BY <1>1, <1>3, <2>1, RelocateIs
    <2>5. <<v \o rest, d \o rest>> \in R
      BY <2>2, Below DEF Path
    <2> QED
      BY <2>2, <2>3, <2>4, <2>5 DEF Path
  <1> QED
    BY <1>2, <1>3

\* add_folder climbs from a folder and its directory to others that R relates.
LEMMA AlignedIs ==
    ASSUME NEW R, Regular(R), NEW folder \in Path, NEW dest \in Path,
           <<folder, dest>> \in R, NEW v \in OnPath(folder)
    PROVE  /\ \A d \in AlignedDest(folder, dest, v) :
                 d \in OnPath(dest) /\ <<v, d>> \in R
           /\ IsFiniteSet(AlignedDest(folder, dest, v))
           /\ v = folder => dest \in AlignedDest(folder, dest, v)
  <1> DEFINE levels == Len(folder) - Len(v)
             Agree(j) == FileName(Up(folder, j)) = FileName(Up(dest, j))
  <1>1. folder \in Seq(N) /\ dest \in Seq(N)
    BY DEF Path
  <1>2. /\ v \in Seq(N) /\ IsPrefix(v, folder)
        /\ Len(v) <= Len(folder) /\ Len(v) \in Nat
        /\ Len(folder) \in Nat /\ Len(dest) \in Nat /\ levels \in 0..Len(folder)
    <2>1. v \in Seq(N) /\ IsPrefix(v, folder)
      BY <1>1, OnPathIs
    <2>2. Len(v) <= Len(folder)
      BY <1>1, <2>1, PrefixIs
    <2> QED
      BY <1>1, <2>1, <2>2
  <1>3. Up(folder, levels) = v
    <2>1. v = SubSeq(folder, 1, Len(v)) /\ Len(folder) - levels = Len(v)
      BY <1>1, <1>2, CutWhole
    <2> QED
      BY <2>1 DEF Up
  <1>4. AlignedDest(folder, dest, v)
          = IF levels <= Len(dest) /\ \A j \in 1..levels : Agree(j)
            THEN {Up(dest, levels)} ELSE {}
    BY DEF AlignedDest
  <1> HIDE DEF levels
  <1>5. ASSUME levels <= Len(dest), \A j \in 1..levels : Agree(j)
        PROVE  <<v, Up(dest, levels)>> \in R /\ Up(dest, levels) \in OnPath(dest)
    <2> DEFINE Bad == {k \in 0..levels : <<Up(folder, k), Up(dest, k)>> \notin R}
    <2>1. Bad = {}
      <3> SUFFICES ASSUME Bad # {} PROVE FALSE
        OBVIOUS
      <3>1. Bad \in SUBSET Nat
        OBVIOUS
      <3>2. PICK k \in Bad : \A m \in Bad : k <= m
        <4> HIDE DEF Bad
        <4> QED
          BY <3>1, LeastElement
      <3>3. k \in 0..levels /\ <<Up(folder, k), Up(dest, k)>> \notin R
        BY <3>2
      <3>4. k # 0
        <4>1. Up(folder, 0) = folder /\ Up(dest, 0) = dest
          BY <1>1, <1>2, UpIs
        <4> QED
          BY <3>3, <4>1
      <3> DEFINE j == k - 1
      <3>5. /\ j \in 0..levels /\ ~(k <= j) /\ j + 1 = k /\ k \in 1..levels
            /\ j \in 0..Len(folder) /\ j < Len(folder)
            /\ j \in 0..Len(dest) /\ j < Len(dest)
        BY <1>2, <1>5, <3>3, <3>4
      <3> HIDE DEF j
      <3>6. <<Up(folder, j), Up(dest, j)>> \in R
        BY <3>2, <3>5
      <3>7. /\ Up(folder, j) \in Path /\ Up(folder, j) # << >>
            /\ Parent(Up(folder, j)) = Up(folder, k)
        BY <1>1, <3>5, UpIs DEF Path
      <3>8. /\ Up(dest, j) \in Path /\ Up(dest, j) # << >>
            /\ Parent(Up(dest, j)) = Up(dest, k)
        BY <1>1, <3>5, UpIs DEF Path
      <3>9. Agree(k)
        BY <1>5, <3>5
      <3> QED
        BY <3>3, <3>6, <3>7, <3>8, <3>9 DEF Regular
    <2>2. levels \in 0..levels /\ levels \in 0..Len(dest)
      BY <1>2, <1>5
    <2>3. <<Up(folder, levels), Up(dest, levels)>> \in R
      BY <2>1, <2>2
    <2>4. Up(dest, levels) \in OnPath(dest)
      BY <1>1, <2>2, UpIs
    <2> QED
      BY <1>3, <2>3, <2>4
  <1>6. ASSUME v = folder PROVE dest \in AlignedDest(folder, dest, v)
    <2>1. levels = 0
      BY <1>2, <1>6 DEF levels
    <2>2. levels <= Len(dest) /\ 1..levels = {}
      BY <1>2, <2>1
    <2>3. Up(dest, levels) = dest
      BY <1>1, <1>2, <2>1, UpIs
    <2> QED
      BY <1>4, <2>2, <2>3
  <1>7. IsFiniteSet(AlignedDest(folder, dest, v))
    BY <1>4, FS_Singleton, FS_EmptySet
  <1> QED
    BY <1>4, <1>5, <1>6, <1>7

-----------------------------------------------------------------------------
(* add_folder *)

\* A folder's directories stay without repetitions.
LEMMA AdjoinIs ==
    ASSUME NEW ds, NEW paths \in Seq(ds), IsInjective(paths),
           NEW dests \in SUBSET ds, IsFiniteSet(dests)
    PROVE  /\ Adjoin(paths, dests) \in Seq(ds) /\ IsInjective(Adjoin(paths, dests))
           /\ ToSet(Adjoin(paths, dests)) \subseteq ToSet(paths) \cup dests
  <1> DEFINE new == dests \ ToSet(paths)
             s == SetToSeq(new)
  <1>1. IsFiniteSet(new)
    BY FS_Subset
  <1>2. s \in Seq(new) /\ IsInjective(s) /\ ToSet(s) \subseteq new
    <2> HIDE DEF new
    <2> QED
      BY <1>1, SetToSeqIs
  <1>3. s \in Seq(ds)
    <2>1. new \subseteq ds
      OBVIOUS
    <2> HIDE DEF new, s
    <2> QED
      BY <1>2, <2>1
  <1>4. ToSet(paths) \cap ToSet(s) = {} /\ ToSet(s) \subseteq dests
    BY <1>2
  <1> HIDE DEF s
  <1>5. IsInjective(paths \o s)
    BY <1>2, <1>3, <1>4, ConcatNew
  <1>6. paths \o s \in Seq(ds) /\ ToSet(paths \o s) = ToSet(paths) \cup ToSet(s)
    BY <1>3, ConcatElements
  <1>7. Adjoin(paths, dests) = paths \o s
    BY DEF Adjoin, s
  <1> QED
    BY <1>4, <1>5, <1>6, <1>7

\* A reverse table whose new entries are in R.
Extends(new, old, R) ==
    /\ new \in Maps(Path, Path) /\ DOMAIN old \subseteq DOMAIN new
    /\ \A d \in DOMAIN new : \/ <<new[d], d>> \in R
                             \/ d \in DOMAIN old /\ new[d] = old[d]

LEMMA RegisterReverseIs ==
    ASSUME NEW R, Regular(R), NEW ds \in SUBSET Path,
           NEW reverse \in Maps(Path, Path), NEW folders \in Maps(Path, Folder(ds)),
           Leads(folders, R), NEW pairs \in SUBSET (Path \X Path), pairs \subseteq R
    PROVE  /\ Extends(RegisterReverse(reverse, folders, pairs), reverse, R)
           /\ \A v, d \in Path : <<v, d>> \in pairs /\ v # d =>
                 /\ d \in DOMAIN RegisterReverse(reverse, folders, pairs)
                 /\ <<RegisterReverse(reverse, folders, pairs)[d], d>> \in R
  <1> DEFINE named == {pr \in pairs : pr[1] # pr[2]}
             known == [d \in DOMAIN reverse \cup {pr[2] : pr \in named} |->
                          IF \E pr \in named : pr[2] = d
                          THEN (CHOOSE pr \in named : pr[2] = d)[1] ELSE reverse[d]]
             Above(v) == FolderAt(folders, Parent(v)).paths
             climbed == {v \in UNION {OnPath(pr[1]) : pr \in named} :
                            v # << >> /\ Above(v) # << >>
                            /\ Last(Above(v)) \in DOMAIN known}
             Alt(v) == Append(Last(Above(v)), Last(v))
             news == [d \in {Alt(v) : v \in climbed} |->
                         CHOOSE v \in climbed : Alt(v) = d]
             new == Override(news, known)
  <1>1. RegisterReverse(reverse, folders, pairs) = new
    BY DEF RegisterReverse
  <1>2. \A pr \in named : pr \in R /\ pr \in Path \X Path
    OBVIOUS
  <1>3. \A d \in DOMAIN reverse : d \in Path /\ reverse[d] \in Path
    BY MapsIs
  <1>4. ASSUME NEW d \in DOMAIN known
        PROVE  /\ d \in Path /\ known[d] \in Path
               /\ IF \E pr \in named : pr[2] = d
                  THEN <<known[d], d>> \in R
                  ELSE d \in DOMAIN reverse /\ known[d] = reverse[d]
    <2>1. CASE \E pr \in named : pr[2] = d
      <3>1. PICK pr \in named : pr[2] = d /\ known[d] = pr[1]
        BY <2>1
      <3>2. pr \in R /\ pr \in Path \X Path /\ pr = <<pr[1], pr[2]>>
        BY <1>2
      <3> QED
        BY <2>1, <3>1, <3>2
    <2>2. CASE ~\E pr \in named : pr[2] = d
      BY <1>3, <2>2
    <2> QED
      BY <2>1, <2>2
  <1>5. DOMAIN reverse \subseteq DOMAIN known /\ \A pr \in named : pr[2] \in DOMAIN known
    OBVIOUS
  <1>6. ASSUME NEW v \in climbed
        PROVE  v \in Path /\ Alt(v) \in Path /\ <<v, Alt(v)>> \in R
    <2>1. PICK pr \in named : v \in OnPath(pr[1])
      OBVIOUS
    <2>2. v \in Seq(N)
      <3>1. pr[1] \in Seq(N)
        BY <1>2 DEF Path
      <3> QED
        BY <2>1, <3>1, OnPathIs
    <2>3. v # << >> /\ Above(v) # << >>
      OBVIOUS
    <2>4. /\ Parent(v) \in Seq(N) /\ Last(v) \in N
          /\ Append(Parent(v), Last(v)) = v
      BY <2>2, <2>3, ParentLast
    <2> DEFINE u == Parent(v)
               n == Last(v)
               s == Above(v)
    <2>5. u \in DOMAIN folders /\ s = folders[u].paths
      BY <2>3 DEF FolderAt, NewFolder
    <2>6. s \in Seq(ds) /\ s # << >>
      <3>1. folders[u] \in Folder(ds)
        BY <2>5, MapsIs
      <3> QED
        BY <2>3, <2>5, <3>1 DEF Folder
    <2> HIDE DEF named, known, climbed
    <2>7. Last(s) \in ToSet(s) /\ Last(s) \in ds
      <3> HIDE DEF s
      <3> QED
        BY ONLY <2>6, LastIn
    <2>8. <<u, Last(s)>> \in R /\ Last(s) \in Path
      BY <2>5, <2>7 DEF Leads
    <2> DEFINE d == Last(s)
    <2>9. u \in Path /\ n \in N /\ d \in Path /\ <<u, d>> \in R /\ Append(u, n) = v
      BY <2>4, <2>8 DEF Path
    <2>10. Alt(v) = Append(d, n)
      OBVIOUS
    <2> HIDE DEF u, n, s, d, Above, Alt
    <2>11. /\ Append(u, n) \in Path /\ Append(d, n) \in Path
           /\ <<Append(u, n), Append(d, n)>> \in R
      BY <2>9, Below
    <2> QED
      BY <2>9, <2>10, <2>11
  <1> HIDE DEF Above, Alt, known, named, climbed
  <1>7. ASSUME NEW d \in DOMAIN news
        PROVE  d \in Path /\ news[d] \in Path /\ <<news[d], d>> \in R
    <2>1. PICK v \in climbed : Alt(v) = d /\ news[d] = v
      OBVIOUS
    <2> QED
      BY <1>6, <2>1
  <1>8. news = [d \in DOMAIN news |-> news[d]]
    OBVIOUS
  <1>9. /\ DOMAIN new = DOMAIN news \cup DOMAIN known
        /\ \A d \in DOMAIN new : new[d] = IF d \in DOMAIN news THEN news[d] ELSE known[d]
        /\ new = [d \in DOMAIN new |-> new[d]]
    BY DEF Override
  <1> HIDE DEF new, news
  <1>10. \A d \in DOMAIN new : d \in Path /\ new[d] \in Path
    BY <1>4, <1>7, <1>9
  <1>11. new \in Maps(Path, Path)
    BY <1>9, <1>10, MapsIs
  <1>12. Extends(new, reverse, R)
    BY <1>4, <1>5, <1>7, <1>9, <1>11 DEF Extends
  <1>13. ASSUME NEW v \in Path, NEW d \in Path, <<v, d>> \in pairs, v # d
         PROVE  d \in DOMAIN new /\ <<new[d], d>> \in R
    <2> DEFINE pr == <<v, d>>
    <2>1. pr \in named /\ pr[2] = d
      BY <1>13 DEF named
    <2> HIDE DEF pr
    <2>2. d \in DOMAIN known
      BY <1>5, <2>1
    <2>3. <<known[d], d>> \in R
      BY <1>4, <2>1, <2>2
    <2> QED
      BY <1>7, <1>9, <2>2, <2>3
  <1> QED
    BY <1>1, <1>12, <1>13

\* A table that is Good and grows in R is Good.
LEMMA KeepsGood ==
    ASSUME NEW R, Regular(R), NEW ds, NEW st, Good(st, ds, R), NEW new \in Tables(ds),
           Mapped(new.mapped, R), Leads(new.folders, R),
           Extends(new.reverse, st.reverse, R),
           DOMAIN st.folders \subseteq DOMAIN new.folders,
           \A d \in new.watched : d \in st.watched
              \/ /\ d \in DOMAIN new.reverse \cup DOMAIN new.folders
                 /\ d \in DOMAIN new.reverse => <<new.reverse[d], d>> \in R
    PROVE  Good(new, ds, R)
  <1>1. Backed(new.reverse, R)
    BY DEF Good, Extends, Backed
  <1>2. Noticed(new, R)
    <2> SUFFICES ASSUME NEW d \in st.watched
                 PROVE  /\ d \in DOMAIN new.reverse \cup DOMAIN new.folders
                        /\ d \in DOMAIN new.reverse => <<new.reverse[d], d>> \in R
      BY DEF Noticed
    <2>1. /\ d \in DOMAIN st.reverse \cup DOMAIN st.folders
          /\ d \in DOMAIN st.reverse => <<st.reverse[d], d>> \in R
      BY DEF Good, Noticed
    <2> QED
      BY <2>1 DEF Extends
  <1> QED
    BY <1>1, <1>2 DEF Good

LEMMA FolderAtIs ==
    ASSUME NEW R, NEW ds, NEW folders \in Maps(Path, Folder(ds)), Leads(folders, R),
           NEW v \in Path
    PROVE  /\ FolderAt(folders, v) \in Folder(ds)
           /\ \A d \in ToSet(FolderAt(folders, v).paths) : <<v, d>> \in R
  <1>1. CASE v \in DOMAIN folders
    <2>1. folders[v] \in Folder(ds)
      BY <1>1, MapsIs
    <2> QED
      BY <1>1, <2>1 DEF FolderAt, Leads
  <1>2. CASE v \notin DOMAIN folders
    <2>1. FolderAt(folders, v) = [paths |-> << >>, children |-> {}, explored |-> FALSE]
      BY <1>2 DEF FolderAt, NewFolder
    <2>2. << >> \in Seq(ds) /\ IsInjective(<< >>) /\ ToSet(<< >>) = {}
      BY DEF IsInjective, ToSet
    <2> QED
      BY <2>1, <2>2 DEF Folder
  <1> QED
    BY <1>1, <1>2

LEMMA AddFolderIs ==
    ASSUME NEW R, Regular(R), NEW ds, Dirs(ds), NEW st, Good(st, ds, R),
           NEW folder \in Path, NEW dest, NEW dests \in SUBSET {dest},
           dests # {} => dest \in ds /\ <<folder, dest>> \in R
    PROVE  /\ Good(AddFolder(st, folder, dests), ds, R)
           /\ AddFolder(st, folder, dests).mapped = st.mapped
           /\ AddFolder(st, folder, dests).watched = st.watched
           /\ OnPath(folder) \subseteq DOMAIN AddFolder(st, folder, dests).folders
           /\ DOMAIN st.folders \subseteq DOMAIN AddFolder(st, folder, dests).folders
           /\ DOMAIN st.reverse \subseteq DOMAIN AddFolder(st, folder, dests).reverse
           /\ dests # {} =>
                /\ dest \in DOMAIN AddFolder(st, folder, dests).reverse
                               \cup DOMAIN AddFolder(st, folder, dests).folders
                /\ folder # dest => dest \in DOMAIN AddFolder(st, folder, dests).reverse
                /\ dest \in DOMAIN AddFolder(st, folder, dests).reverse
                     => <<AddFolder(st, folder, dests).reverse[dest], dest>> \in R
  <1> DEFINE Aligned(v) == UNION {AlignedDest(folder, d, v) : d \in dests}
             line == OnPath(folder)
             Entry(v) == LET old == FolderAt(st.folders, v) IN
                         IF v \notin line THEN old
                         ELSE [old EXCEPT
                                  !.paths = Adjoin(@, Aligned(v)),
                                  !.children = @ \cup IF v = folder THEN {}
                                                      ELSE {folder[Len(v) + 1]}]
             folders == [v \in DOMAIN st.folders \cup line |-> Entry(v)]
             pairs == UNION {{v} \X Aligned(v) : v \in line}
             reverse == RegisterReverse(st.reverse, folders, pairs)
             new == [st EXCEPT !.folders = folders, !.reverse = reverse]
  <1>1. AddFolder(st, folder, dests) = new
    BY DEF AddFolder
  <1>2. /\ st \in Tables(ds) /\ Leads(st.folders, R) /\ Backed(st.reverse, R)
        /\ Mapped(st.mapped, R)
    BY DEF Good
  <1>3. /\ st.folders \in Maps(Path, Folder(ds)) /\ st.reverse \in Maps(Path, Path)
        /\ ds \in SUBSET Path
    BY <1>2 DEF Tables, Dirs
  <1>4. /\ folder \in Seq(N) /\ folder \in line
        /\ \A v \in line : v \in Seq(N) /\ v \in Path /\ IsPrefix(v, folder)
    <2>1. folder \in Seq(N)
      BY DEF Path
    <2> QED
      BY <2>1, OnPathIs DEF Path
  <1>5. ASSUME NEW v \in line
        PROVE  /\ Aligned(v) \in SUBSET ds /\ IsFiniteSet(Aligned(v))
               /\ \A d \in Aligned(v) : <<v, d>> \in R
               /\ dests # {} /\ v = folder => dest \in Aligned(v)
    <2>1. CASE dests = {}
      <3>1. Aligned(v) = {}
        BY <2>1
      <3> QED
        BY <2>1, <3>1, FS_EmptySet
    <2>2. CASE dests # {}
      <3>1. dests = {dest} /\ dest \in ds /\ <<folder, dest>> \in R /\ dest \in Path
        BY <1>3, <2>2
      <3> DEFINE A == AlignedDest(folder, dest, v)
      <3>2. Aligned(v) = A
        BY <3>1
      <3>3. /\ \A d \in A : d \in OnPath(dest) /\ <<v, d>> \in R
            /\ IsFiniteSet(A)
            /\ v = folder => dest \in A
        <4>1. v \in OnPath(folder)
          OBVIOUS
        <4> HIDE DEF Aligned, line, Entry, folders, pairs, reverse, new
        <4> QED
          BY <3>1, <4>1, AlignedIs
      <3> HIDE DEF A, Aligned
      <3>4. A \subseteq ds
        BY <3>1, <3>3 DEF Dirs
      <3> QED
        BY <3>2, <3>3, <3>4
    <2> QED
      BY <2>1, <2>2
  <1> HIDE DEF Aligned, line
  <1>6. \A v \in DOMAIN st.folders : v \in Path /\ st.folders[v] \in Folder(ds)
    BY <1>3, MapsIs
  <1>7. \A v \in Path : /\ FolderAt(st.folders, v) \in Folder(ds)
                        /\ \A d \in ToSet(FolderAt(st.folders, v).paths) : <<v, d>> \in R
    BY <1>2, <1>3, FolderAtIs
  <1>8. ASSUME NEW v \in DOMAIN folders
        PROVE  /\ v \in Path /\ Entry(v) \in Folder(ds)
               /\ \A d \in ToSet(Entry(v).paths) : <<v, d>> \in R
    <2>1. v \in Path
      BY <1>4, <1>6
    <2> DEFINE old == FolderAt(st.folders, v)
    <2>2. /\ old \in Folder(ds) /\ \A d \in ToSet(old.paths) : <<v, d>> \in R
      BY <1>7, <2>1
    <2>3. CASE v \notin line
      BY <2>1, <2>2, <2>3
    <2>4. CASE v \in line
      <3> DEFINE paths == Adjoin(old.paths, Aligned(v))
                 child == IF v = folder THEN {} ELSE {folder[Len(v) + 1]}
      <3>1. old.paths \in Seq(ds) /\ IsInjective(old.paths)
        BY <2>2 DEF Folder
      <3>2. /\ paths \in Seq(ds) /\ IsInjective(paths)
            /\ ToSet(paths) \subseteq ToSet(old.paths) \cup Aligned(v)
        <4> HIDE DEF old
        <4> QED
          BY <1>5, <2>4, <3>1, AdjoinIs
      <3>3. child \subseteq N
        <4> SUFFICES ASSUME v # folder PROVE folder[Len(v) + 1] \in N
          OBVIOUS
        <4>1. v \in Seq(N) /\ IsPrefix(v, folder)
          BY <1>4, <2>4
        <4>2. Len(v) <= Len(folder) /\ \A i \in 1..Len(v) : v[i] = folder[i]
          BY <1>4, <4>1, PrefixIs
        <4>3. Len(v) # Len(folder)
          BY <1>4, <4>1, <4>2, SeqEqual
        <4>4. Len(v) + 1 \in 1..Len(folder)
          BY <1>4, <4>1, <4>2, <4>3
        <4> QED
          BY <1>4, <4>4
      <3>4. Entry(v) = [old EXCEPT !.paths = paths, !.children = @ \cup child]
        BY <2>4
      <3> HIDE DEF old, paths, child, Entry
      <3>5. /\ Entry(v).paths = paths /\ Entry(v) \in Folder(ds)
        BY <2>2, <3>2, <3>3, <3>4 DEF Folder
      <3> QED
        BY <1>5, <2>1, <2>2, <2>4, <3>2, <3>5
    <2> QED
      BY <2>3, <2>4
  <1>9. /\ DOMAIN folders = DOMAIN st.folders \cup line
        /\ \A v \in DOMAIN folders : folders[v] = Entry(v)
        /\ folders = [v \in DOMAIN folders |-> folders[v]]
    OBVIOUS
  <1> HIDE DEF folders, Entry
  <1>10. folders \in Maps(Path, Folder(ds)) /\ Leads(folders, R)
    <2>1. \A v \in DOMAIN folders : v \in Path /\ folders[v] \in Folder(ds)
      BY <1>8, <1>9
    <2> QED
      BY <1>8, <1>9, <2>1, MapsIs DEF Leads
  <1>11. pairs \subseteq R /\ pairs \in SUBSET (Path \X Path)
    <2>1. \A v \in line : v \in Path /\ Aligned(v) \subseteq ds /\ ds \subseteq Path
                          /\ \A d \in Aligned(v) : <<v, d>> \in R
      BY <1>3, <1>4, <1>5
    <2> HIDE DEF line, Aligned
    <2> QED
      BY <2>1
  <1>12. dests # {} => <<folder, dest>> \in pairs
    BY <1>4, <1>5
  <1> HIDE DEF pairs
  <1>13. /\ Extends(reverse, st.reverse, R)
         /\ \A v, d \in Path : <<v, d>> \in pairs /\ v # d =>
                d \in DOMAIN reverse /\ <<reverse[d], d>> \in R
    BY <1>3, <1>10, <1>11, RegisterReverseIs
  <1> HIDE DEF reverse
  <1>14. /\ new.mapped = st.mapped /\ new.watched = st.watched
         /\ new.folders = folders /\ new.reverse = reverse /\ new \in Tables(ds)
    BY <1>2, <1>10, <1>13 DEF Tables, Extends
  <1> HIDE DEF new
  <1>15. Good(new, ds, R)
    <2>1. DOMAIN st.folders \subseteq DOMAIN new.folders
      BY <1>9, <1>14
    <2> QED
      BY <1>2, <1>10, <1>13, <1>14, <2>1, KeepsGood
  <1>16. ASSUME dests # {}
         PROVE  /\ dest \in DOMAIN reverse \cup DOMAIN folders
                /\ folder # dest => dest \in DOMAIN reverse
                /\ dest \in DOMAIN reverse => <<reverse[dest], dest>> \in R
    <2>1. <<folder, dest>> \in pairs /\ <<folder, dest>> \in R /\ dest \in Path
      BY <1>3, <1>12, <1>16
    <2>2. CASE folder # dest
      BY <1>13, <2>1, <2>2
    <2>3. CASE folder = dest
      <3>1. dest \in DOMAIN folders
        BY <1>4, <1>9, <2>3
      <3>2. <<NoFolder, dest>> \in R
        BY <2>1, <2>3 DEF Regular
      <3>3. dest \in DOMAIN reverse => <<reverse[dest], dest>> \in R
        BY <1>14, <1>15, <3>2 DEF Good, Backed
      <3> QED
        BY <2>3, <3>1, <3>3
    <2> QED
      BY <2>2, <2>3
  <1>17. DOMAIN st.reverse \subseteq DOMAIN reverse
    BY <1>13 DEF Extends
  <1> QED
    BY <1>1, <1>9, <1>14, <1>15, <1>16, <1>17 DEF line

LEMMA AddFolderWatches ==
    ASSUME NEW ds, NEW st \in Tables(ds), NEW folder, NEW dests
    PROVE  /\ AddFolder(st, folder, dests).watched = st.watched
           /\ AddFolder(st, folder, dests).mapped = st.mapped
  <1> DEFINE Aligned(v) == UNION {AlignedDest(folder, d, v) : d \in dests}
             line == OnPath(folder)
             folders ==
                 [v \in DOMAIN st.folders \cup line |->
                     LET old == FolderAt(st.folders, v) IN
                     IF v \notin line THEN old
                     ELSE [old EXCEPT
                              !.paths = Adjoin(@, Aligned(v)),
                              !.children = @ \cup IF v = folder THEN {}
                                                  ELSE {folder[Len(v) + 1]}]]
             reverse == RegisterReverse(st.reverse, folders,
                                        UNION {{v} \X Aligned(v) : v \in line})
  <1>1. AddFolder(st, folder, dests) = [st EXCEPT !.folders = folders, !.reverse = reverse]
    BY DEF AddFolder
  <1> HIDE DEF folders, reverse
  <1> QED
    BY <1>1 DEF Tables

-----------------------------------------------------------------------------
(* _add_read_entry *)

LEMMA WithChildren ==
    ASSUME NEW R, NEW ds, NEW folders \in Maps(Path, Folder(ds)), Leads(folders, R),
           NEW q \in DOMAIN folders, NEW c \in SUBSET N
    PROVE  /\ [folders EXCEPT ![q].children = c] \in Maps(Path, Folder(ds))
           /\ Leads([folders EXCEPT ![q].children = c], R)
           /\ DOMAIN [folders EXCEPT ![q].children = c] = DOMAIN folders
  <1> DEFINE new == [folders EXCEPT ![q].children = c]
  <1>1. \A v \in DOMAIN folders : v \in Path /\ folders[v] \in Folder(ds)
    BY MapsIs
  <1>2. /\ DOMAIN new = DOMAIN folders /\ new = [v \in DOMAIN new |-> new[v]]
        /\ \A v \in DOMAIN folders :
              new[v] = IF v = q THEN [folders[q] EXCEPT !.children = c] ELSE folders[v]
    OBVIOUS
  <1> HIDE DEF new
  <1>3. ASSUME NEW v \in DOMAIN folders
        PROVE  new[v] \in Folder(ds) /\ new[v].paths = folders[v].paths
    BY <1>1, <1>2 DEF Folder
  <1>4. new \in Maps(Path, Folder(ds))
    BY <1>1, <1>2, <1>3, MapsIs
  <1>5. Leads(new, R)
    <2> SUFFICES ASSUME NEW v \in DOMAIN new, NEW d \in ToSet(new[v].paths)
                 PROVE  <<v, d>> \in R
      BY DEF Leads
    <2>1. v \in DOMAIN folders /\ d \in ToSet(folders[v].paths)
      BY <1>2, <1>3
    <2> QED
      BY <2>1 DEF Leads
  <1> QED
    BY <1>2, <1>4, <1>5 DEF new

LEMMA AddReadEntryIs ==
    ASSUME NEW R, Regular(R), NEW ds, Dirs(ds), NEW st, Good(st, ds, R),
           NEW source \in Path, source # << >>, NEW destination \in Path,
           <<source, destination>> \in R
    PROVE  /\ Good(AddReadEntry(st, source, destination), ds, R)
           /\ AddReadEntry(st, source, destination).watched = st.watched
  <1> DEFINE q == Parent(source)
             parents == AddFolder(st, q, {})
             mapped == Put(parents.mapped, source, destination)
             c == parents.folders[q].children \cup {Last(source)}
             folders == [parents.folders EXCEPT ![q].children = c]
             new == [parents EXCEPT !.mapped = mapped, !.folders = folders]
  <1>1. AddReadEntry(st, source, destination) = new
    BY DEF AddReadEntry
  <1>2. q \in Path /\ Last(source) \in N
    <2>1. source \in Seq(N)
      BY DEF Path
    <2> QED
      BY <2>1, ParentLast DEF Path
  <1>3. /\ Good(parents, ds, R) /\ OnPath(q) \subseteq DOMAIN parents.folders
        /\ parents.watched = st.watched
    <2> DEFINE dests == {}
               added == AddFolder(st, q, dests)
    <2>1. dests \in SUBSET {source} /\ dests = {}
      OBVIOUS
    <2>2. parents = added
      OBVIOUS
    <2> HIDE DEF q, dests
    <2>3. Good(added, ds, R)
      BY <1>2, <2>1, AddFolderIs
    <2>4. added.watched = st.watched
      BY AddFolderWatches DEF Good
    <2>5. OnPath(q) \subseteq DOMAIN added.folders
      BY <1>2, <2>1, AddFolderIs
    <2> HIDE DEF added, parents
    <2> QED
      BY <2>2, <2>3, <2>4, <2>5
  <1>4. q \in DOMAIN parents.folders
    <2>1. q \in Seq(N)
      BY <1>2 DEF Path
    <2>2. q \in OnPath(q)
      BY <2>1, OnPathIs
    <2> QED
      BY <1>3, <2>2
  <1> HIDE DEF parents, q
  <1>5. parents \in Tables(ds) /\ Mapped(parents.mapped, R) /\ Leads(parents.folders, R)
    BY <1>3 DEF Good
  <1>6. /\ parents.mapped \in Maps(Path, Path)
        /\ parents.folders \in Maps(Path, Folder(ds))
        /\ parents.reverse \in Maps(Path, Path)
    BY <1>5 DEF Tables
  <1>7. c \in SUBSET N
    <2>1. parents.folders[q] \in Folder(ds)
      BY <1>4, <1>6, MapsIs
    <2> QED
      BY <1>2, <2>1 DEF Folder
  <1> HIDE DEF c
  <1>8. /\ folders \in Maps(Path, Folder(ds)) /\ Leads(folders, R)
        /\ DOMAIN folders = DOMAIN parents.folders
    BY <1>4, <1>5, <1>6, <1>7, WithChildren
  <1>9. mapped \in Maps(Path, Path)
    BY <1>6, PutIs
  <1>10. Mapped(mapped, R)
    BY <1>5 DEF Mapped, Put
  <1> HIDE DEF mapped, folders
  <1>11. /\ new \in Tables(ds) /\ new.mapped = mapped /\ new.folders = folders
         /\ new.reverse = parents.reverse /\ new.watched = parents.watched
    BY <1>5, <1>8, <1>9 DEF Tables
  <1> HIDE DEF new
  <1>12. Extends(new.reverse, parents.reverse, R)
    BY <1>6, <1>11 DEF Extends
  <1>13. Good(new, ds, R)
    BY <1>3, <1>8, <1>10, <1>11, <1>12, KeepsGood
  <1> QED
    BY <1>1, <1>3, <1>11, <1>13

LEMMA AddReadFolderIs ==
    ASSUME NEW R, Regular(R), NEW ds, Dirs(ds), NEW st, Good(st, ds, R),
           NEW source \in Path, NEW destination \in ds, <<source, destination>> \in R
    PROVE  /\ Good(AddReadFolder(st, source, destination), ds, R)
           /\ st.watched \subseteq AddReadFolder(st, source, destination).watched
  <1> DEFINE dests == {destination}
             added == AddFolder(st, source, dests)
             new == [added EXCEPT !.watched = @ \cup {destination}]
  <1>1. AddReadFolder(st, source, destination) = new
    BY DEF AddReadFolder
  <1>2. dests \in SUBSET {destination} /\ dests # {}
    OBVIOUS
  <1> HIDE DEF dests
  <1>3. /\ Good(added, ds, R) /\ added.watched = st.watched
        /\ destination \in DOMAIN added.reverse \cup DOMAIN added.folders
        /\ destination \in DOMAIN added.reverse
             => <<added.reverse[destination], destination>> \in R
    BY <1>2, AddFolderIs
  <1> HIDE DEF added
  <1>4. /\ new \in Tables(ds) /\ new.mapped = added.mapped
        /\ new.folders = added.folders /\ new.reverse = added.reverse
        /\ new.watched = added.watched \cup {destination}
        /\ new.reverse \in Maps(Path, Path)
    BY <1>3 DEF Good, Tables
  <1> HIDE DEF new
  <1>5. Mapped(new.mapped, R) /\ Leads(new.folders, R)
    BY <1>3, <1>4 DEF Good
  <1>6. Extends(new.reverse, added.reverse, R)
    BY <1>4 DEF Extends
  <1>7. Good(new, ds, R)
    BY <1>3, <1>4, <1>5, <1>6, KeepsGood
  <1> QED
    BY <1>1, <1>3, <1>4, <1>7

-----------------------------------------------------------------------------
(* winevfs_add_read_directory *)

\* What lies directly in a scanned directory, as a virtual path.
LEMMA FoundIs ==
    ASSUME NEW R, Regular(R), NEW source \in Path, NEW destination \in Path,
           <<source, destination>> \in R, NEW v \in Path, IsPrefix(source, v),
           NEW e \in Path, e # << >>, Parent(e) = Relocate(v, source, destination)
    PROVE  /\ Relocate(e, destination, source) \in Path
           /\ IsPrefix(source, Relocate(e, destination, source))
           /\ Relocate(Relocate(e, destination, source), source, destination) = e
           /\ <<Relocate(e, destination, source), e>> \in R
           /\ Last(Relocate(e, destination, source)) \in N
  <1>1. source \in Seq(N) /\ destination \in Seq(N) /\ e \in Seq(N) /\ v \in Seq(N)
    BY DEF Path
  <1>2. Parent(e) \in Seq(N) /\ IsPrefix(destination, Parent(e))
    <2> DEFINE real == Relocate(v, source, destination)
    <2>1. real \in Path /\ IsPrefix(destination, real)
      BY RelocateRelated
    <2> QED
      BY <2>1 DEF Path
  <1>3. /\ IsPrefix(Parent(e), e) /\ Last(e) \in N
        /\ Len(Parent(e)) = Len(e) - 1 /\ Len(e) \in Nat
    BY <1>1, ParentLast
  <1>4. IsPrefix(destination, e)
    BY <1>1, <1>2, <1>3, PrefixTransitive
  <1>5. e # destination
    <2>1. Len(destination) <= Len(Parent(e)) /\ Len(destination) \in Nat
      BY <1>1, <1>2, PrefixIs
    <2> QED
      BY <1>3, <2>1
  <1> DEFINE p == Relocate(e, destination, source)
             q == Relocate(Parent(e), destination, source)
  <1>6. /\ p \in Path /\ IsPrefix(source, p) /\ Relocate(p, source, destination) = e
        /\ <<p, e>> \in R
    BY <1>4, RelocateRelated
  <1>7. p = Append(q, Last(e))
    BY <1>1, <1>4, <1>5, RelocateIs
  <1>8. q \in Seq(N)
    BY <1>1, <1>2, RelocateIs
  <1> HIDE DEF p, q
  <1>9. Last(p) = Last(e)
    BY <1>3, <1>7, <1>8, FrontOfAppend
  <1> QED
    BY <1>3, <1>6, <1>9 DEF p

Tree(files, ds) ==
    /\ files \subseteq Path \ {<< >>} /\ Dirs(ds) /\ files \cap ds = {}
    /\ \A f \in files : Parent(f) \in ds

Disk == Tree(disk, dirs)

\* The folders AddEntries finds below those that are scanned.
FoundDirs(source, destination, scanned) ==
    UNION {{Relocate(d, destination, source) :
               d \in DirsIn(Relocate(v, source, destination))} : v \in scanned}

LEMMA AddEntriesIs ==
    ASSUME Disk, NEW R, Regular(R), NEW st, Good(st, dirs, R),
           NEW source \in Path, NEW destination \in Path, <<source, destination>> \in R,
           NEW scanned, \A v \in scanned : v \in Path /\ IsPrefix(source, v)
    PROVE  /\ Good(AddEntries(st, source, destination, scanned), dirs, R)
           /\ st.watched \subseteq AddEntries(st, source, destination, scanned).watched
           /\ DOMAIN st.reverse
                \subseteq DOMAIN AddEntries(st, source, destination, scanned).reverse
           /\ \A v \in FoundDirs(source, destination, scanned) :
                 v # Relocate(v, source, destination) =>
                    Relocate(v, source, destination)
                       \in DOMAIN AddEntries(st, source, destination, scanned).reverse
  <1> DEFINE Real(v) == Relocate(v, source, destination)
             Virtual(S) == {Relocate(d, destination, source) : d \in S}
             foundFiles == UNION {Virtual(FilesIn(Real(v))) : v \in scanned}
             foundDirs == UNION {Virtual(DirsIn(Real(v))) : v \in scanned}
             Entry(v) ==
                LET old == FolderAt(st.folders, v) IN
                [paths    |-> IF v \in foundDirs THEN Adjoin(old.paths, {Real(v)})
                                                 ELSE old.paths,
                 children |-> old.children \cup
                    {Last(p) : p \in {q \in foundFiles \cup foundDirs :
                                         Parent(q) = v}},
                 explored |-> old.explored \/ v \in scanned]
             folders == [v \in DOMAIN st.folders \cup foundDirs |-> Entry(v)]
             pairs == {<<v, Real(v)>> : v \in foundDirs}
             reverse == RegisterReverse(st.reverse, folders, pairs)
             found == [p \in foundFiles |-> Real(p)]
             mapped == Override(found, st.mapped)
             watched == st.watched \cup {Real(v) : v \in foundDirs}
             new == [mapped |-> mapped, folders |-> folders, reverse |-> reverse,
                     watched |-> watched]
  <1>1. AddEntries(st, source, destination, scanned) = new
    BY DEF AddEntries
  <1>2. /\ st \in Tables(dirs) /\ Leads(st.folders, R) /\ Backed(st.reverse, R)
        /\ Mapped(st.mapped, R)
    BY DEF Good
  <1>3. /\ st.folders \in Maps(Path, Folder(dirs)) /\ st.reverse \in Maps(Path, Path)
        /\ st.mapped \in Maps(Path, Path) /\ st.watched \in SUBSET dirs
        /\ dirs \in SUBSET Path
    BY <1>2 DEF Tables, Disk, Tree, Dirs
  <1>4. ASSUME NEW p \in foundFiles
        PROVE  p \in Path /\ Real(p) \in Path /\ <<p, Real(p)>> \in R /\ Last(p) \in N
    <2>0. PICK v \in scanned : p \in Virtual(FilesIn(Real(v)))
      OBVIOUS
    <2>1. PICK f \in FilesIn(Real(v)) : p = Relocate(f, destination, source)
      BY <2>0
    <2>2. f \in Path /\ f # << >> /\ Parent(f) = Relocate(v, source, destination)
      BY DEF FilesIn, Disk, Tree
    <2>3. v \in Path /\ IsPrefix(source, v)
      OBVIOUS
    <2> HIDE DEF foundFiles, foundDirs
    <2>4. /\ p \in Path /\ Relocate(p, source, destination) = f /\ <<p, f>> \in R
          /\ Last(p) \in N
      BY <2>1, <2>2, <2>3, FoundIs
    <2> QED
      BY <2>2, <2>4
  <1>5. ASSUME NEW p \in foundDirs
        PROVE  p \in Path /\ Real(p) \in dirs /\ <<p, Real(p)>> \in R /\ Last(p) \in N
    <2>0. PICK v \in scanned : p \in Virtual(DirsIn(Real(v)))
      OBVIOUS
    <2>1. PICK d \in DirsIn(Real(v)) : p = Relocate(d, destination, source)
      BY <2>0
    <2>2. /\ d \in Path /\ d \in dirs /\ d # << >>
          /\ Parent(d) = Relocate(v, source, destination)
      BY <1>3 DEF DirsIn
    <2>3. v \in Path /\ IsPrefix(source, v)
      OBVIOUS
    <2> HIDE DEF foundFiles, foundDirs
    <2>4. /\ p \in Path /\ Relocate(p, source, destination) = d /\ <<p, d>> \in R
          /\ Last(p) \in N
      BY <2>1, <2>2, <2>3, FoundIs
    <2> QED
      BY <2>2, <2>4
  <1> HIDE DEF foundFiles, foundDirs, Real
  <1>6. \A v \in DOMAIN st.folders : v \in Path /\ st.folders[v] \in Folder(dirs)
    BY <1>3, MapsIs
  <1>7. ASSUME NEW v \in DOMAIN folders
        PROVE  /\ v \in Path /\ Entry(v) \in Folder(dirs)
               /\ \A d \in ToSet(Entry(v).paths) : <<v, d>> \in R
    <2>1. v \in Path
      BY <1>5, <1>6
    <2> DEFINE old == FolderAt(st.folders, v)
               paths == IF v \in foundDirs THEN Adjoin(old.paths, {Real(v)})
                                           ELSE old.paths
               names == {Last(p) : p \in {q \in foundFiles \cup foundDirs :
                                             Parent(q) = v}}
    <2>2. /\ old \in Folder(dirs) /\ \A d \in ToSet(old.paths) : <<v, d>> \in R
      <3> HIDE DEF folders, Entry
      <3> QED
        BY <1>2, <1>3, <2>1, FolderAtIs
    <2> HIDE DEF old
    <2>3. old.paths \in Seq(dirs) /\ IsInjective(old.paths)
      BY <2>2 DEF Folder
    <2>4. /\ paths \in Seq(dirs) /\ IsInjective(paths)
          /\ \A d \in ToSet(paths) : <<v, d>> \in R
      <3>1. CASE v \notin foundDirs
        BY <2>2, <2>3, <3>1
      <3>2. CASE v \in foundDirs
        <4> DEFINE dests == {Real(v)}
        <4>1. dests \in SUBSET dirs /\ IsFiniteSet(dests) /\ \A d \in dests : <<v, d>> \in R
          BY <1>5, <3>2, FS_Singleton
        <4>2. paths = Adjoin(old.paths, dests)
          BY <3>2
        <4> HIDE DEF dests, paths
        <4>3. /\ paths \in Seq(dirs) /\ IsInjective(paths)
              /\ ToSet(paths) \subseteq ToSet(old.paths) \cup dests
          BY <2>3, <4>1, <4>2, AdjoinIs
        <4> QED
          BY <2>2, <4>1, <4>3
      <3> QED
        BY <3>1, <3>2
    <2>5. names \subseteq N
      BY <1>4, <1>5
    <2>6. Entry(v) = [paths |-> paths, children |-> old.children \cup names,
                      explored |-> old.explored \/ v \in scanned]
      BY DEF old
    <2> HIDE DEF paths, names, Entry
    <2>7. old.children \cup names \in SUBSET N /\ old.explored \in BOOLEAN
      BY <2>2, <2>5 DEF Folder
    <2>8. (old.explored \/ v \in scanned) \in BOOLEAN
      OBVIOUS
    <2>9. Entry(v) \in Folder(dirs) /\ Entry(v).paths = paths
      BY <2>4, <2>6, <2>7, <2>8 DEF Folder
    <2> QED
      BY <2>1, <2>4, <2>9
  <1>8. /\ DOMAIN folders = DOMAIN st.folders \cup foundDirs
        /\ \A v \in DOMAIN folders : folders[v] = Entry(v)
        /\ folders = [v \in DOMAIN folders |-> folders[v]]
    OBVIOUS
  <1> HIDE DEF folders, Entry
  <1>9. folders \in Maps(Path, Folder(dirs)) /\ Leads(folders, R)
    <2>1. \A v \in DOMAIN folders : v \in Path /\ folders[v] \in Folder(dirs)
      BY <1>7, <1>8
    <2> QED
      BY <1>7, <1>8, <2>1, MapsIs DEF Leads
  <1>10. pairs \subseteq R /\ pairs \in SUBSET (Path \X Path)
    BY <1>3, <1>5
  <1>11. \A v \in foundDirs : <<v, Real(v)>> \in pairs
    OBVIOUS
  <1> HIDE DEF pairs
  <1>12. /\ Extends(reverse, st.reverse, R)
         /\ \A v, d \in Path : <<v, d>> \in pairs /\ v # d =>
                d \in DOMAIN reverse /\ <<reverse[d], d>> \in R
    BY <1>3, <1>9, <1>10, RegisterReverseIs
  <1> HIDE DEF reverse
  <1>13. mapped \in Maps(Path, Path) /\ Mapped(mapped, R)
    <2>1. /\ DOMAIN found = foundFiles /\ found = [p \in DOMAIN found |-> found[p]]
          /\ \A p \in DOMAIN found : /\ p \in Path /\ found[p] \in Path
                                     /\ <<p, found[p]>> \in R
      BY <1>4
    <2> HIDE DEF found
    <2>2. found \in Maps(Path, Path)
      BY <2>1, MapsIs
    <2> QED
      BY <1>2, <1>3, <2>1, <2>2, OverrideIs DEF Mapped, Override
  <1>14. watched \subseteq dirs /\ st.watched \subseteq watched
    BY <1>3, <1>5
  <1>15. ASSUME NEW d \in watched, d \notin st.watched
         PROVE  /\ d \in DOMAIN reverse \cup DOMAIN folders
                /\ d \in DOMAIN reverse => <<reverse[d], d>> \in R
    <2>1. PICK v \in foundDirs : d = Real(v)
      BY <1>15
    <2>2. v \in Path /\ d \in Path /\ <<v, d>> \in R /\ <<v, d>> \in pairs
      BY <1>3, <1>5, <1>11, <2>1
    <2>3. v \in DOMAIN folders
      BY <1>8
    <2>4. CASE v # d
      BY <1>12, <2>2, <2>4
    <2>5. CASE v = d
      <3>1. <<NoFolder, d>> \in R
        BY <2>2, <2>5 DEF Regular
      <3>2. d \in DOMAIN reverse => <<reverse[d], d>> \in R
        BY <1>2, <1>12, <3>1 DEF Extends, Backed
      <3> QED
        BY <2>3, <2>5, <3>2
    <2> QED
      BY <2>4, <2>5
  <1> HIDE DEF mapped, watched
  <1>16. /\ new.mapped = mapped /\ new.watched = watched
         /\ new.folders = folders /\ new.reverse = reverse /\ new \in Tables(dirs)
    BY <1>9, <1>12, <1>13, <1>14 DEF Tables, Extends
  <1> HIDE DEF new
  <1>17. DOMAIN st.folders \subseteq DOMAIN new.folders
    BY <1>8, <1>16
  <1>18. Good(new, dirs, R)
    BY <1>9, <1>12, <1>13, <1>15, <1>16, <1>17, KeepsGood
  <1>19. DOMAIN st.reverse \subseteq DOMAIN new.reverse
    BY <1>12, <1>16 DEF Extends
  <1>20. \A v \in foundDirs : v # Real(v) => Real(v) \in DOMAIN new.reverse
    <2>1. \A v \in foundDirs : /\ v \in Path /\ Real(v) \in Path
                               /\ <<v, Real(v)>> \in pairs
      BY <1>3, <1>5, <1>11
    <2> QED
      BY <1>12, <1>16, <2>1
  <1>21. /\ FoundDirs(source, destination, scanned) = foundDirs
         /\ \A v : Relocate(v, source, destination) = Real(v)
    BY DEF FoundDirs, foundDirs, Real
  <1> QED
    BY <1>1, <1>14, <1>16, <1>18, <1>19, <1>20, <1>21

\* The folders that are scanned are below the one they are scanned for.
LEMMA ScannedIs ==
    ASSUME Disk, NEW R, Regular(R), NEW source \in Path, NEW destination \in Path,
           <<source, destination>> \in R, NEW search \in Path, NEW recursive
    PROVE  \A v \in Scanned(source, destination, search, recursive) :
              v \in Path /\ IsPrefix(source, v)
  <1>1. source \in Seq(N) /\ destination \in Seq(N) /\ search \in Seq(N)
    BY DEF Path
  <1>2. IsPrefix(source, source) /\ IsPrefix(destination, destination)
    BY <1>1, OnPathIs
  <1>3. ASSUME NEW v \in OnPath(search), IsStrictPrefix(source, v)
        PROVE  v \in Path /\ IsPrefix(source, v)
    BY <1>1, <1>3, OnPathIs DEF IsStrictPrefix, Path
  <1>4. ASSUME NEW d \in DirsIn(destination)
        PROVE  /\ Relocate(d, destination, source) \in Path
               /\ IsPrefix(source, Relocate(d, destination, source))
    <2>1. d \in Path /\ d # << >> /\ Parent(d) = destination
      BY DEF DirsIn, Disk, Tree, Dirs
    <2>2. d \in Seq(N)
      BY <2>1 DEF Path
    <2>3. IsPrefix(destination, d)
      BY <2>1, <2>2, ParentLast
    <2> QED
      BY <2>1, <2>3, RelocateRelated
  <1> QED
    BY <1>2, <1>3, <1>4 DEF Scanned

LEMMA AddReadDirectoryIs ==
    ASSUME Disk, NEW R, Regular(R), NEW st, Good(st, dirs, R),
           NEW source \in Path, source # << >>, NEW destination \in Path,
           <<source, destination>> \in R, NEW search \in Path, NEW recursive
    PROVE  /\ Good(AddReadDirectory(st, source, destination, search, recursive), dirs, R)
           /\ st.watched
                \subseteq AddReadDirectory(st, source, destination, search, recursive).watched
  <1>1. CASE ~IsDir(destination)
    <2>1. Dirs(dirs)
      BY DEF Disk, Tree
    <2> DEFINE entry == AddReadEntry(st, source, destination)
    <2>2. Good(entry, dirs, R) /\ entry.watched = st.watched
      BY <2>1, AddReadEntryIs
    <2>3. AddReadDirectory(st, source, destination, search, recursive) \in {entry, st}
      BY <1>1 DEF AddReadDirectory
    <2> HIDE DEF entry
    <2> QED
      BY <2>2, <2>3
  <1>2. CASE IsDir(destination)
    <2> DEFINE added == AddReadFolder(st, source, destination)
               scanned == Scanned(source, destination, search, recursive)
    <2>1. destination \in dirs /\ Dirs(dirs)
      BY <1>2 DEF IsDir, Disk, Tree
    <2>2. Good(added, dirs, R) /\ st.watched \subseteq added.watched
      BY <2>1, AddReadFolderIs
    <2>3. \A v \in scanned : v \in Path /\ IsPrefix(source, v)
      BY ScannedIs
    <2>4. AddReadDirectory(st, source, destination, search, recursive)
            = AddEntries(added, source, destination, scanned)
      BY <1>2 DEF AddReadDirectory
    <2> HIDE DEF added, scanned
    <2> QED
      BY <2>2, <2>3, <2>4, AddEntriesIs
  <1> QED
    BY <1>1, <1>2

LEMMA DeleteFileIs ==
    ASSUME NEW R, Regular(R), NEW ds, NEW st, Good(st, ds, R), NEW real
    PROVE  Good(DeleteFile(st, real), ds, R) /\ DeleteFile(st, real).watched = st.watched
  <1> DEFINE v == st.reverse[Parent(real)]
             c == st.folders[v].children \ {Last(real)}
             folders == [st.folders EXCEPT ![v].children = c]
             new == [st EXCEPT !.folders = folders]
  <1>1. CASE ~(Parent(real) \in DOMAIN st.reverse /\ v \in DOMAIN st.folders)
    BY <1>1 DEF DeleteFile
  <1>2. CASE Parent(real) \in DOMAIN st.reverse /\ v \in DOMAIN st.folders
    <2>1. DeleteFile(st, real) = new
      BY <1>2 DEF DeleteFile
    <2>2. /\ st \in Tables(ds) /\ Mapped(st.mapped, R) /\ Leads(st.folders, R)
          /\ st.folders \in Maps(Path, Folder(ds)) /\ st.reverse \in Maps(Path, Path)
      BY DEF Good, Tables
    <2> HIDE DEF v
    <2>3. c \in SUBSET N
      <3>1. st.folders[v] \in Folder(ds)
        BY <1>2, <2>2, MapsIs
      <3> QED
        BY <3>1 DEF Folder
    <2> HIDE DEF c
    <2>4. /\ folders \in Maps(Path, Folder(ds)) /\ Leads(folders, R)
          /\ DOMAIN folders = DOMAIN st.folders
      BY <1>2, <2>2, <2>3, WithChildren
    <2> HIDE DEF folders
    <2>5. /\ new \in Tables(ds) /\ new.mapped = st.mapped /\ new.folders = folders
          /\ new.reverse = st.reverse /\ new.watched = st.watched
      BY <2>2, <2>4 DEF Tables
    <2> HIDE DEF new
    <2>6. Extends(new.reverse, st.reverse, R)
      BY <2>2, <2>5 DEF Extends
    <2>7. Good(new, ds, R)
      BY <2>2, <2>4, <2>5, <2>6, KeepsGood
    <2> QED
      BY <2>1, <2>5, <2>7
  <1> QED
    BY <1>1, <1>2

-----------------------------------------------------------------------------
(* winevfs_get_path *)

Written(R) ==
    /\ write_mappings \in Maps(Path, Path) /\ << >> \notin DOMAIN write_mappings
    /\ Mapped(write_mappings, R)

LEMMA RestsAre ==
    ASSUME NEW R, Regular(R), NEW v \in Path, v # << >>, NEW d \in Path, <<v, d>> \in R,
           NEW p \in Path, NEW rest \in Rests(v, p)
    PROVE  p # << >> /\ d \o rest \in Path /\ <<p, d \o rest>> \in R
  <1>1. v \in Seq(N) /\ d \in Seq(N) /\ p \in Seq(N)
    BY DEF Path
  <1> DEFINE left == SubSeq(p, Len(v) + 1, Len(p))
  <1>2. CASE IsPrefix(v, p)
    <2>1. left \in Seq(N) /\ p = v \o left
      BY <1>1, <1>2, PrefixRest
    <2>2. rest = left
      BY <1>2 DEF Rests
    <2>3. d \o left \in Seq(N)
      BY <1>1, <2>1, ConcatElements
    <2>4. <<v \o left, d \o left>> \in R
      BY <2>1, Below DEF Path
    <2>5. p # << >>
      <3>1. Len(v) <= Len(p) /\ Len(v) \in Nat \ {0}
        BY <1>1, <1>2, PrefixIs
      <3> QED
        BY <3>1
    <2> HIDE DEF left
    <2> QED
      BY <2>1, <2>2, <2>3, <2>4, <2>5 DEF Path
  <1>3. CASE ~IsPrefix(v, p)
    <2>1. PICK cut \in DOMAIN Suffix : Len(v) <= Len(p) /\ rest = <<Suffix[cut]>> \o left
      BY <1>3 DEF Rests
    <2>2. Path \X Path \subseteq R
      BY <2>1 DEF Regular
    <2>3. p # << >>
      <3>1. Len(v) \in Nat \ {0}
        BY <1>1
      <3> QED
        BY <2>1, <3>1
    <2>4. left \in Seq(N)
      BY <1>1, <2>1
    <2> HIDE DEF left
    <2>5. Suffix[cut] \in N
      BY <2>1, InputTypes DEF N
    <2> DEFINE first == <<Suffix[cut]>>
    <2>6. first \in Seq(N)
      BY <2>5
    <2>7. rest = first \o left
      BY <2>1
    <2> HIDE DEF first
    <2>8. rest \in Seq(N)
      BY <2>4, <2>6, <2>7, ConcatElements
    <2>9. d \o rest \in Seq(N)
      BY <1>1, <2>8, ConcatElements
    <2> QED
      BY <2>2, <2>3, <2>9 DEF Path
  <1> QED
    BY <1>2, <1>3

LEMMA WriteMappingIs ==
    ASSUME NEW R, Regular(R), Written(R), NEW p \in Path
    PROVE  /\ WriteMapping(p) \in Seq(Path)
           /\ \A d \in ToSet(WriteMapping(p)) : <<p, d>> \in R
           /\ WriteMapping(p) # << >> =>
                /\ p # << >> /\ WriteMapping(p)[1] \in Path
                /\ <<p, WriteMapping(p)[1]>> \in R
  <1> DEFINE places == UNION {{write_mappings[v] \o rest : rest \in Rests(v, p)} :
                                 v \in DOMAIN write_mappings}
             place == CHOOSE q \in places : TRUE
  <1>1. WriteMapping(p) = IF places = {} THEN << >> ELSE <<place>>
    BY DEF WriteMapping
  <1>2. ASSUME NEW q \in places
        PROVE  p # << >> /\ q \in Path /\ <<p, q>> \in R
    <2>1. PICK v \in DOMAIN write_mappings :
             q \in {write_mappings[v] \o rest : rest \in Rests(v, p)}
      OBVIOUS
    <2>2. PICK rest \in Rests(v, p) : q = write_mappings[v] \o rest
      BY <2>1
    <2>3. /\ v \in Path /\ v # << >> /\ write_mappings[v] \in Path
          /\ <<v, write_mappings[v]>> \in R
      BY MapsIs DEF Written, Mapped
    <2> QED
      BY <2>2, <2>3, RestsAre
  <1>3. CASE places = {}
    <2>1. WriteMapping(p) = << >>
      BY <1>1, <1>3
    <2>2. << >> \in Seq(Path) /\ ToSet(<< >>) = {}
      BY DEF ToSet
    <2> QED
      BY <2>1, <2>2
  <1>4. CASE places # {}
    <2>1. place \in places
      BY <1>4
    <2>2. p # << >> /\ place \in Path /\ <<p, place>> \in R
      BY <1>2, <2>1
    <2>3. WriteMapping(p) = <<place>>
      BY <1>1, <1>4
    <2> HIDE DEF place, places
    <2>4. <<place>> \in Seq(Path) /\ <<place>>[1] = place /\ ToSet(<<place>>) = {place}
      BY <2>2 DEF ToSet
    <2> QED
      BY <2>2, <2>3, <2>4
  <1> QED
    BY <1>3, <1>4

LEMMA TranslatedIs ==
    ASSUME NEW R, NEW ds, NEW st, Good(st, ds, R), NEW p \in Path
    PROVE  Translated(st, p) \in Path
  <1> DEFINE known == {d \in DOMAIN st.reverse : d # << >> /\ IsPrefix(d, p)}
             real == LongestOf(known)
             folder == st.reverse[real]
             to == IF folder = NoFolder /\ real # p THEN << >> ELSE folder
  <1>1. Translated(st, p) = IF known = {} THEN p ELSE Relocate(p, real, to)
    BY DEF Translated
  <1>2. \A d \in DOMAIN st.reverse : d \in Path /\ st.reverse[d] \in Path
    <2>1. st.reverse \in Maps(Path, Path)
      BY DEF Good, Tables
    <2> QED
      BY <2>1, MapsIs
  <1>3. CASE known # {}
    <2>1. p \in Seq(N) /\ \A d \in known : d \in Seq(N)
      BY <1>2 DEF Path
    <2>2. known \in SUBSET OnPath(p)
      BY <2>1, OnPathIs
    <2>3. real \in known
      <3> HIDE DEF known
      <3> QED
        BY <1>3, <2>1, <2>2, Longest
    <2>4. real \in Seq(N) /\ IsPrefix(real, p) /\ to \in Seq(N)
      BY <1>2, <2>1, <2>3, NoFolderIsPath DEF Path
    <2> HIDE DEF real, to
    <2>5. Relocate(p, real, to) \in Seq(N)
      BY <2>1, <2>4, RelocateIs
    <2> QED
      BY <1>1, <1>3, <2>5 DEF Path
  <1> QED
    BY <1>1, <1>3

\* foldervec is read directory by directory: T has the tables that are good at
\* each point.
LEMMA ExploreSteps ==
    ASSUME NEW st, NEW v, NEW p, FolderVec(st, v) \in Seq(Path), NEW T,
           st \in T[0],
           \A i \in 1..Len(FolderVec(st, v)) : \A x \in T[i - 1] :
              AddReadDirectory(x, v, FolderVec(st, v)[i], p, FALSE) \in T[i]
    PROVE  Explore(st, v, p) \in T[Len(FolderVec(st, v))]
  <1> DEFINE foldervec == FolderVec(st, v)
             n == Len(foldervec)
             Step(x, i) == AddReadDirectory(x, v, foldervec[i], p, FALSE)
             G == [i \in 0 + 1..n |-> [x \in T[i - 1] |-> Step(x, i)]]
             Is(f) == f = [i \in 0..n |-> IF i = 0 THEN st ELSE Step(f[i - 1], i)]
             read == CHOOSE f : Is(f)
  <1>1. n \in Nat /\ 0 <= n /\ st \in T[0]
    OBVIOUS
  <1>2. \A i \in 1..n : \A x \in T[i - 1] : Step(x, i) \in T[i]
    OBVIOUS
  <1>3. Explore(st, v, p) = read[n]
    BY DEF Explore
  <1> HIDE DEF Step, foldervec, n
  <1>4. \A i \in 0 + 1..n : i \in 1..n /\ i - 1 \in 0..n /\ i \in 0..n /\ i # 0
    BY <1>1
  <1>5. \A i \in 0 + 1..n : \A x \in T[i - 1] : G[i][x] = Step(x, i)
    OBVIOUS
  <1> HIDE DEF G
  <1>6. Steps(0, n, T, G)
    BY <1>2, <1>4, <1>5 DEF Steps
  <1>7. \E f : Is(f)
    <2>0. \E f : Iterates(f, 0, n, T, G, st)
      BY <1>1, <1>6, IterationExists
    <2>1. PICK f : /\ f = [i \in 0..n |-> f[i]] /\ f[0] = st
                   /\ \A i \in 0 + 1..n : f[i] = G[i][f[i - 1]]
                   /\ \A i \in 0..n : f[i] \in T[i]
      BY <2>0 DEF Iterates
    <2>2. \A i \in 0..n : f[i] = IF i = 0 THEN st ELSE Step(f[i - 1], i)
      <3> TAKE i \in 0..n
      <3>1. CASE i = 0
        BY <2>1, <3>1
      <3>2. CASE i # 0
        <4>1. i \in 0 + 1..n /\ i - 1 \in 0..n
          BY <1>1, <3>2
        <4>2. f[i] = G[i][f[i - 1]] /\ f[i - 1] \in T[i - 1]
          BY <2>1, <4>1
        <4> QED
          BY <1>5, <3>2, <4>1, <4>2
      <3> QED
        BY <3>1, <3>2
    <2>3. Is(f)
      BY <2>1, <2>2
    <2> QED
      BY <2>3
  <1>8. Is(read)
    <2> HIDE DEF Is
    <2> QED
      BY <1>7
  <1> HIDE DEF read
  <1>9. read[0] = st
    BY <1>1, <1>8
  <1>10. \A i \in 0 + 1..n : read[i - 1] \in T[i - 1] => read[i] = G[i][read[i - 1]]
    <2> TAKE i \in 0 + 1..n
    <2>1. read[i] = Step(read[i - 1], i)
      BY <1>4, <1>8
    <2> QED
      BY <1>5, <2>1
  <1> HIDE DEF Is
  <1>11. \A i \in 0..n : read[i] \in T[i]
    BY <1>1, <1>6, <1>9, <1>10, IterationValues
  <1> QED
    BY <1>1, <1>3, <1>11 DEF n, foldervec

\* What is known of foldervec.
LEMMA FolderVecIs ==
    ASSUME Disk, NEW R, Regular(R), Written(R), NEW st, Good(st, dirs, R),
           NEW v \in DOMAIN st.folders
    PROVE  /\ FolderVec(st, v) \in Seq(Path)
           /\ \A i \in 1..Len(FolderVec(st, v)) :
                 /\ FolderVec(st, v)[i] \in Path
                 /\ <<v, FolderVec(st, v)[i]>> \in R
           /\ v \in Path /\ st.folders[v] \in Folder(dirs)
  <1> DEFINE foldervec == FolderVec(st, v)
             paths == st.folders[v].paths
             place == WriteMapping(v)
  <1>1. v \in Path /\ st.folders[v] \in Folder(dirs)
    <2>1. st.folders \in Maps(Path, Folder(dirs))
      BY DEF Good, Tables
    <2> QED
      BY <2>1, MapsIs
  <1>2. foldervec \in Seq(Path) /\ \A d \in ToSet(foldervec) : <<v, d>> \in R
    <2>1. paths \in Seq(dirs) /\ \A d \in ToSet(paths) : <<v, d>> \in R
      BY <1>1 DEF Folder, Good, Leads
    <2>2. dirs \subseteq Path
      BY DEF Disk, Tree, Dirs
    <2>3. place \in Seq(Path) /\ \A d \in ToSet(place) : <<v, d>> \in R
      BY <1>1, WriteMappingIs
    <2>4. foldervec = paths \o place
      BY DEF FolderVec
    <2> HIDE DEF paths, place, foldervec
    <2>5. paths \in Seq(Path)
      BY <2>1, <2>2
    <2> QED
      BY <2>1, <2>3, <2>4, <2>5, ConcatElements
  <1> HIDE DEF foldervec
  <1>3. Len(foldervec) \in Nat /\ DOMAIN foldervec = 1..Len(foldervec)
    BY <1>2
  <1>4. \A i \in 1..Len(foldervec) : foldervec[i] \in Path /\ foldervec[i] \in ToSet(foldervec)
    BY <1>2, <1>3 DEF ToSet
  <1> QED
    BY <1>1, <1>2, <1>4 DEF foldervec

LEMMA ExploreIs ==
    ASSUME Disk, NEW R, Regular(R), Written(R), NEW st, Good(st, dirs, R),
           NEW v \in DOMAIN st.folders, v # << >>, NEW p \in Path
    PROVE  Good(Explore(st, v, p), dirs, R)
  <1> DEFINE foldervec == FolderVec(st, v)
             n == Len(foldervec)
             S == {x \in Tables(dirs) : Good(x, dirs, R)}
             T == [i \in 0..n |-> S]
  <1>1. /\ foldervec \in Seq(Path) /\ v \in Path
        /\ \A i \in 1..n : foldervec[i] \in Path /\ <<v, foldervec[i]>> \in R
    BY FolderVecIs
  <1>2. st \in S /\ n \in Nat
    BY <1>1 DEF Good
  <1>3. \A i \in 1..n : \A x \in S : AddReadDirectory(x, v, foldervec[i], p, FALSE) \in S
    <2> SUFFICES ASSUME NEW i \in 1..n, NEW x \in S
                 PROVE  AddReadDirectory(x, v, foldervec[i], p, FALSE) \in S
      OBVIOUS
    <2>1. Good(x, dirs, R) /\ foldervec[i] \in Path /\ <<v, foldervec[i]>> \in R
      BY <1>1
    <2> HIDE DEF foldervec
    <2>2. Good(AddReadDirectory(x, v, foldervec[i], p, FALSE), dirs, R)
      BY <1>1, <2>1, AddReadDirectoryIs
    <2> QED
      BY <2>2 DEF Good
  <1> HIDE DEF S
  <1>4. /\ T[0] = S /\ T[n] = S
        /\ \A i \in 1..n : T[i] = S /\ T[i - 1] = S
    BY <1>2
  <1> HIDE DEF T
  <1>5. Explore(st, v, p) \in T[n]
    BY <1>1, <1>2, <1>3, <1>4, ExploreSteps
  <1> QED
    BY <1>4, <1>5 DEF S

LEMMA FoundIsGood ==
    ASSUME Disk, NEW R, Regular(R), Written(R), NEW st, Good(st, dirs, R), NEW p \in Path
    PROVE  Good(Found(st, p), dirs, R)
  <1> DEFINE deciding == Deciding(st, p)
             v == LongestOf(deciding)
  <1>1. CASE deciding = {}
    BY <1>1 DEF Found
  <1>2. CASE deciding # {}
    <2>1. st.folders \in Maps(Path, Folder(dirs)) /\ p \in Seq(N)
      BY DEF Good, Tables, Path
    <2>2. \A u \in deciding : u \in DOMAIN st.folders /\ u \in Seq(N) /\ IsPrefix(u, p)
      BY <2>1, MapsIs DEF Deciding, Path
    <2>3. deciding \in SUBSET OnPath(p)
      BY <2>1, <2>2, OnPathIs
    <2> HIDE DEF deciding
    <2>4. v \in deciding
      BY <1>2, <2>1, <2>3, Longest
    <2>5. v \in DOMAIN st.folders /\ v # << >>
      BY <2>4 DEF Deciding, deciding
    <2> HIDE DEF v
    <2>6. Good(Explore(st, v, p), dirs, R)
      BY <2>5, ExploreIs
    <2>7. Found(st, p) = st \/ Found(st, p) = Explore(st, v, p)
      BY DEF Found, v, deciding
    <2> QED
      BY <2>6, <2>7
  <1> QED
    BY <1>1, <1>2

\* Where p can lead, if it is looked up as v.
Lands(real, p, v, R) ==
    real = p \/ real \in dirs \/ real = Undefined \/ <<v, real>> \in R

\* The directories that are made for a new file are apart from the files.
Makes(made) ==
    /\ made \subseteq Path /\ made \cap disk = {} /\ Dirs(dirs \cup made)

LEMMA MadeForIs ==
    ASSUME Disk, NEW p \in Path
    PROVE  Makes(MadeFor(p)) /\ p \notin MadeFor(p)
  <1>1. p \in Seq(N)
    BY DEF Path
  <1>2. ASSUME NEW d \in MadeFor(p)
        PROVE  /\ d \in Seq(N) /\ d # p /\ d \notin disk
               /\ \A e \in OnPath(d) : e = p \/ e \in MadeFor(p)
    <2>1. PICK j \in 1..Len(p) : d = Up(p, j)
      BY DEF MadeFor, Ancestors
    <2>2. OnPath(d) \cap disk = {}
      BY DEF MadeFor
    <2>3. d \in Seq(N) /\ Len(d) = Len(p) - j /\ Len(p) \in Nat /\ d \in OnPath(p)
      BY <1>1, <2>1, UpIs
    <2>4. d \in OnPath(d) /\ IsPrefix(d, p)
      BY <1>1, <2>3, OnPathIs
    <2>5. ASSUME NEW e \in OnPath(d) PROVE e = p \/ e \in MadeFor(p)
      <3>1. e \in Seq(N) /\ IsPrefix(e, d)
        BY <2>3, OnPathIs
      <3>2. IsPrefix(e, p)
        BY <1>1, <2>3, <2>4, <3>1, PrefixTransitive
      <3>3. e = p \/ e \in Ancestors(p)
        BY <1>1, <3>1, <3>2, OnPathIs DEF OnPath
      <3>4. OnPath(e) \subseteq OnPath(d)
        <4> SUFFICES ASSUME NEW u \in OnPath(e) PROVE u \in OnPath(d)
          OBVIOUS
        <4>1. u \in Seq(N) /\ IsPrefix(u, e)
          BY <3>1, OnPathIs
        <4>2. IsPrefix(u, d)
          BY <2>3, <3>1, <4>1, PrefixTransitive
        <4> QED
          BY <2>3, <4>1, <4>2, OnPathIs
      <3> QED
        BY <2>2, <3>3, <3>4 DEF MadeFor
    <2> QED
      BY <2>1, <2>2, <2>3, <2>4, <2>5
  <1>3. ASSUME NEW d \in MadeFor(p), NEW e \in OnPath(d) PROVE e \in MadeFor(p)
    <2>1. CASE e = p
      <3>1. d \in Seq(N) /\ IsPrefix(p, d) /\ d # p
        BY <1>2, <2>1, OnPathIs
      <3>2. d \in OnPath(p)
        BY DEF MadeFor, OnPath
      <3>3. IsPrefix(d, p)
        BY <1>1, <3>2, OnPathIs
      <3>4. Len(d) = Len(p) /\ \A i \in 1..Len(d) : d[i] = p[i]
        BY <1>1, <3>1, <3>3, PrefixIs
      <3> QED
        BY <1>1, <3>1, <3>4, SeqEqual
    <2> QED
      BY <1>2, <2>1
  <1>4. Dirs(dirs \cup MadeFor(p))
    BY <1>2, <1>3 DEF Dirs, Disk, Tree, Path
  <1> QED
    BY <1>2, <1>4 DEF Makes, Path

\* What winevfs_get_path returns for p.
Returns(got, p, v, R) ==
    /\ Good(got.vfs, dirs, R)
    /\ got.real \in Path \cup {Undefined} /\ Lands(got.real, p, v, R)
    /\ Makes(got.made) /\ got.real \notin got.made

LEMMA GivesReturns ==
    ASSUME NEW R, Regular(R), NEW tables, Good(tables, dirs, R),
           NEW p, NEW v, NEW real \in Path \cup {Undefined}, Lands(real, p, v, R),
           NEW made, Makes(made), real \notin made, NEW intent
    PROVE  Returns(Gives(tables, real, made, intent), p, v, R)
  <1> DEFINE got == Gives(tables, real, made, intent)
             left == IF intent = "Delete" THEN DeleteFile(tables, real) ELSE tables
  <1>1. got.vfs = left /\ got.real = real /\ got.made = made
    BY DEF Gives
  <1>2. Good(left, dirs, R)
    BY DeleteFileIs
  <1> HIDE DEF got, left
  <1>3. Returns(got, p, v, R)
    BY <1>1, <1>2 DEF Returns
  <1> QED
    BY <1>3 DEF got

LEMMA RedirectReturns ==
    ASSUME Disk, NEW R, Regular(R), Written(R), NEW found, Good(found, dirs, R),
           NEW v \in Path, NEW p \in Path, NEW intent
    PROVE  Returns(Redirect(found, v, p, intent), p, v, R)
  <1>1. /\ found.mapped \in Maps(Path, Path) /\ Mapped(found.mapped, R)
        /\ found.folders \in Maps(Path, Folder(dirs))
    BY DEF Good, Tables
  <1>2. dirs \subseteq Path /\ Makes({}) /\ Dirs(dirs)
    <2>1. dirs \cup {} = dirs
      OBVIOUS
    <2> QED
      BY <2>1 DEF Disk, Tree, Dirs, Makes
  <1>3. CASE v \in DOMAIN found.mapped
    <2> DEFINE real == found.mapped[v]
    <2>1. real \in Path /\ <<v, real>> \in R
      BY <1>1, <1>3, MapsIs DEF Mapped
    <2>2. Redirect(found, v, p, intent) = Gives(found, real, {}, intent)
      BY <1>3 DEF Redirect
    <2> HIDE DEF real
    <2>3. Lands(real, p, v, R)
      BY <2>1 DEF Lands
    <2> QED
      BY <1>2, <2>1, <2>2, <2>3, GivesReturns
  <1>4. CASE v \notin DOMAIN found.mapped /\ v \in DOMAIN found.folders
    <2> DEFINE paths == found.folders[v].paths
               real == FolderPath(found.folders[v], v)
    <2>1. paths \in Seq(dirs)
      <3>1. found.folders[v] \in Folder(dirs)
        BY <1>1, <1>4, MapsIs
      <3> QED
        BY <3>1 DEF Folder
    <2>2. real = IF IsDir(v) THEN v ELSE IF paths # << >> THEN Last(paths) ELSE Undefined
      BY DEF FolderPath
    <2>3. Redirect(found, v, p, intent) = Gives(found, real, {}, intent)
      BY <1>4 DEF Redirect
    <2> HIDE DEF real, paths
    <2>4. paths # << >> => Last(paths) \in dirs
      BY <2>1, LastIn
    <2>5. real \in dirs \cup {Undefined}
      BY <2>2, <2>4 DEF IsDir
    <2>6. Lands(real, p, v, R) /\ real \in Path \cup {Undefined}
      BY <1>2, <2>5 DEF Lands
    <2> QED
      BY <1>2, <2>3, <2>6, GivesReturns
  <1>5. CASE /\ v \notin DOMAIN found.mapped /\ v \notin DOMAIN found.folders
             /\ intent = "Create" /\ WriteMapping(v) # << >>
    <2> DEFINE newpath == WriteMapping(v)[1]
               tables == AddReadEntry(found, v, newpath)
               made == MadeFor(newpath)
    <2>1. v # << >> /\ newpath \in Path /\ <<v, newpath>> \in R
      BY <1>5, WriteMappingIs
    <2>2. Redirect(found, v, p, intent) = Gives(tables, newpath, made, intent)
      BY <1>5 DEF Redirect
    <2> HIDE DEF newpath
    <2>3. Good(tables, dirs, R)
      BY <1>2, <2>1, AddReadEntryIs
    <2>4. Makes(made) /\ newpath \notin made
      BY <2>1, MadeForIs
    <2> HIDE DEF tables, made
    <2>5. Lands(newpath, p, v, R)
      BY <2>1 DEF Lands
    <2> QED
      BY <2>1, <2>2, <2>3, <2>4, <2>5, GivesReturns
  <1>6. CASE /\ v \notin DOMAIN found.mapped /\ v \notin DOMAIN found.folders
             /\ ~(intent = "Create" /\ WriteMapping(v) # << >>)
    <2>1. Redirect(found, v, p, intent) = Gives(found, p, {}, intent)
      BY <1>6 DEF Redirect
    <2>2. Lands(p, p, v, R)
      BY DEF Lands
    <2> QED
      BY <1>2, <2>1, <2>2, GivesReturns
  <1> QED
    BY <1>3, <1>4, <1>5, <1>6

LEMMA GetPathReturns ==
    ASSUME Disk, NEW R, Regular(R), Written(R), NEW st, Good(st, dirs, R),
           NEW p \in Path, NEW intent
    PROVE  Returns(GetPath(st, p, intent), p, Translated(st, p), R)
  <1> DEFINE v == Translated(st, p)
             found == Found(st, v)
  <1>1. v \in Path
    BY TranslatedIs
  <1>2. GetPath(st, p, intent) = Redirect(found, v, p, intent)
    BY DEF GetPath
  <1> HIDE DEF v
  <1>3. Good(found, dirs, R)
    BY <1>1, FoundIsGood
  <1> HIDE DEF found
  <1>4. Returns(GetPath(st, p, intent), p, v, R)
    BY <1>1, <1>2, <1>3, RedirectReturns
  <1> QED
    BY <1>4 DEF v

\* The tables stay Good when directories are made.
LEMMA GoodGrows ==
    ASSUME NEW R, NEW ds, NEW more, ds \subseteq more, NEW st, Good(st, ds, R)
    PROVE  Good(st, more, R)
  <1>1. st \in Tables(ds)
    BY DEF Good
  <1>2. Folder(ds) \subseteq Folder(more)
    <2> SUFFICES ASSUME NEW f \in Folder(ds) PROVE f \in Folder(more)
      OBVIOUS
    <2>1. f.paths \in Seq(more)
      BY DEF Folder
    <2> QED
      BY <2>1 DEF Folder
  <1>3. st.folders \in Maps(Path, Folder(more))
    <2>1. st.folders \in Maps(Path, Folder(ds))
      BY <1>1 DEF Tables
    <2>2. /\ st.folders = [k \in DOMAIN st.folders |-> st.folders[k]]
          /\ \A k \in DOMAIN st.folders : k \in Path /\ st.folders[k] \in Folder(ds)
      BY <2>1, MapsIs
    <2>3. \A k \in DOMAIN st.folders : k \in Path /\ st.folders[k] \in Folder(more)
      BY <1>2, <2>2
    <2> QED
      BY <2>2, <2>3, MapsIs
  <1>4. st \in Tables(more)
    BY <1>1, <1>3 DEF Tables
  <1> QED
    BY <1>4 DEF Good

-----------------------------------------------------------------------------
(* The invariant *)

Event(watched) ==
    [event : {"R", "D"}, file : {f \in Path \ {<< >>} : Parent(f) \in watched},
     isdir : BOOLEAN]

Read == records \in VfsFiles /\ loaded \in 0..Len(records)

Recorded(R) == \A i \in DOMAIN records : <<records[i].virtual, records[i].real>> \in R

\* A file that is opened or removed is that of the path, or R puts it there.
Opens(R) ==
    /\ answer'.op \in {"read", "append", "create", "unlink"}
    /\ answer'.file \notin {NoFile, answer'.path}
    => <<Translated(vfs, answer'.path), answer'.file>> \in R

Inv(R) ==
    /\ Read /\ Disk
    /\ Good(vfs, dirs, R) /\ Written(R)
    /\ events \in Seq(Event(vfs.watched))
-----------------------------------------------------------------------------
(* What a call makes, removes and reports *)

LEMMA AncestorsOf ==
    ASSUME NEW p \in Path, p # << >>
    PROVE  Parent(p) \in Path /\ Ancestors(p) \subseteq OnPath(Parent(p))
  <1>1. p \in Seq(N)
    BY DEF Path
  <1>2. /\ Parent(p) \in Seq(N)
        /\ \A q \in Seq(N) : IsPrefix(q, p) => q = p \/ IsPrefix(q, Parent(p))
    BY <1>1, ParentLast
  <1>3. ASSUME NEW d \in Ancestors(p) PROVE d \in OnPath(Parent(p))
    <2>1. PICK j \in 1..Len(p) : d = Up(p, j)
      BY DEF Ancestors
    <2>2. Len(p) \in Nat /\ j \in 0..Len(p) /\ j \in Nat \ {0}
      BY <1>1
    <2>3. d \in Seq(N) /\ Len(d) = Len(p) - j /\ d \in OnPath(p)
      BY <1>1, <2>1, <2>2, UpIs
    <2>4. IsPrefix(d, p) /\ d # p
      BY <1>1, <2>2, <2>3, OnPathIs
    <2>5. IsPrefix(d, Parent(p))
      BY <1>2, <2>3, <2>4
    <2> QED
      BY <1>2, <2>3, <2>5, OnPathIs
  <1> QED
    BY <1>2, <1>3 DEF Path

LEMMA TreeShrinks ==
    ASSUME NEW files, NEW ds, Tree(files, ds), NEW rest, rest \subseteq files
    PROVE  Tree(rest, ds)
  BY DEF Tree

LEMMA TreeGrows ==
    ASSUME NEW files, NEW ds, Tree(files, ds), NEW f \in Path, f \notin ds, Parent(f) \in ds
    PROVE  Tree(files \cup {f}, ds)
  BY DEF Tree, Dirs

\* Directories are made apart from the files.
LEMMA MakesTree ==
    ASSUME Disk, NEW made, Makes(made)
    PROVE  Tree(disk, dirs \cup made)
  BY DEF Disk, Makes, Tree

\* mkdir makes one more directory.
LEMMA MakesMore ==
    ASSUME Disk, NEW made, Makes(made), NEW d \in Path, d \notin disk \cup dirs,
           Parent(d) \in dirs \cup made
    PROVE  Makes(made \cup {d})
  <1> DEFINE ds == dirs \cup made
  <1>1. Dirs(ds) /\ d # << >>
    BY DEF Makes, Disk, Tree, Dirs
  <1>2. OnPath(d) \subseteq ds \cup {d}
    <2>1. Ancestors(d) \subseteq OnPath(Parent(d))
      BY <1>1, AncestorsOf
    <2>2. OnPath(Parent(d)) \subseteq ds
      BY <1>1 DEF Dirs
    <2> QED
      BY <2>1, <2>2 DEF OnPath
  <1> HIDE DEF ds
  <1>3. Dirs(ds \cup {d})
    BY <1>1, <1>2 DEF Dirs
  <1>4. dirs \cup (made \cup {d}) = ds \cup {d}
    BY DEF ds
  <1> QED
    BY <1>3, <1>4 DEF Makes

LEMMA ReportsAre ==
    ASSUME NEW watched, NEW event \in {"R", "D"}, NEW file \in Path \ {<< >>},
           NEW isdir \in BOOLEAN
    PROVE  Reports(watched, event, file, isdir) \in Seq(Event(watched))
  <1> DEFINE e == [event |-> event, file |-> file, isdir |-> isdir]
  <1>1. CASE Parent(file) \in watched
    <2>1. e \in Event(watched)
      BY <1>1 DEF Event
    <2> HIDE DEF e
    <2>2. <<e>> \in Seq(Event(watched))
      BY <2>1
    <2> QED
      BY <1>1, <2>2 DEF Reports, e
  <1>2. CASE Parent(file) \notin watched
    BY <1>2 DEF Reports
  <1> QED
    BY <1>1, <1>2

LEMMA ReportsMadeAre ==
    ASSUME Disk, NEW watched, NEW made \in SUBSET Path
    PROVE  ReportsMade(watched, made) \in Seq(Event(watched))
  <1> DEFINE noticed == {d \in made \ dirs : Parent(d) \in watched}
             d == CHOOSE d \in noticed : TRUE
             event == "R"
  <1>1. CASE noticed = {}
    BY <1>1 DEF ReportsMade
  <1>2. CASE noticed # {}
    <2>1. d \in noticed
      BY <1>2
    <2>2. d \in Path \ {<< >>}
      BY <2>1 DEF Disk, Tree, Dirs
    <2>3. ReportsMade(watched, made) = Reports(watched, event, d, TRUE)
      BY <1>2 DEF ReportsMade
    <2>4. event \in {"R", "D"}
      OBVIOUS
    <2> HIDE DEF d, event
    <2> QED
      BY <2>2, <2>3, <2>4, ReportsAre
  <1> QED
    BY <1>1, <1>2
-----------------------------------------------------------------------------
(* The steps *)

\* A call's path is looked up, and directories may be made.
LEMMA Looked ==
    ASSUME NEW R, Regular(R), Inv(R), NEW st, Good(st, dirs, R),
           NEW p \in Seq(Names), NEW intent, NEW got, got = GetPath(st, p, intent)
    PROVE  /\ p \in Path /\ Returns(got, p, Translated(st, p), R)
           /\ Good(got.vfs, dirs, R) /\ Good(got.vfs, dirs \cup got.made, R)
           /\ got.made \in SUBSET Path /\ Tree(disk, dirs \cup got.made)
           /\ got.real \in Path \cup {Undefined} /\ got.real \notin got.made
  <1>1. p \in Path
    BY NamesArePaths
  <1>2. Returns(got, p, Translated(st, p), R)
    BY <1>1, GetPathReturns DEF Inv
  <1>3. /\ Good(got.vfs, dirs, R) /\ Makes(got.made)
        /\ got.real \in Path \cup {Undefined} /\ got.real \notin got.made
    BY <1>2 DEF Returns
  <1>4. Good(got.vfs, dirs \cup got.made, R)
    BY <1>3, GoodGrows
  <1>5. Tree(disk, dirs \cup got.made)
    BY <1>3, MakesTree DEF Inv
  <1> QED
    BY <1>1, <1>2, <1>3, <1>4, <1>5 DEF Makes

\* A file that is opened is where the path leads.
LEMMA OpenedIs ==
    ASSUME NEW R, NEW real, NEW p, NEW v, Lands(real, p, v, R),
           NEW files \in SUBSET Path, files \cap dirs = {}, real \in files
    PROVE  real = p \/ <<v, real>> \in R
  <1>1. \A s \in Path : s # Undefined
    <2>1. Path = Seq(Names \cup {""})
      BY DEF Path, N
    <2> QED
      BY <2>1, InputTypes
  <1> QED
    BY <1>1 DEF Lands

LEMMA OpenKeeps ==
    ASSUME NEW R, Regular(R), Inv(R), NEW c \in Calls, Open(c)
    PROVE  Inv(R)' /\ Opens(R)
  <1> DEFINE intent == IF c.op = "create" THEN "Create" ELSE "Read"
  <1>1. PICK got \in {GetPath(vfs, c.path, intent)} :
          LET creates == c.op # "read" /\ Writable(got.real, got.made) IN
          /\ vfs' = got.vfs
          /\ dirs' = dirs \cup got.made
          /\ disk' = IF creates THEN disk \cup {got.real} ELSE disk
          /\ events' = ReportsMade(got.vfs.watched, got.made) \o
                       IF creates /\ got.real \notin disk
                       THEN Reports(got.vfs.watched, "R", got.real, FALSE)
                       ELSE << >>
          /\ Answers(c, IF got.real \in disk' THEN got.real ELSE NoFile)
          /\ UNCHANGED <<records, mode, loaded, write_mappings, spared>>
    BY DEF Open
  <1> HIDE DEF intent
  <1> DEFINE creates == c.op # "read" /\ Writable(got.real, got.made)
             made == ReportsMade(got.vfs.watched, got.made)
             new == IF creates /\ got.real \notin disk
                    THEN Reports(got.vfs.watched, "R", got.real, FALSE) ELSE << >>
             watched == got.vfs.watched
  <1>2. c.path \in Seq(Names) /\ Good(vfs, dirs, R) /\ Disk
    BY InputTypes DEF Inv
  <1> DEFINE v == Translated(vfs, c.path)
  <1>3. /\ Returns(got, c.path, v, R)
        /\ Good(got.vfs, dirs \cup got.made, R)
        /\ got.made \in SUBSET Path /\ Tree(disk, dirs \cup got.made)
        /\ got.real \in Path \cup {Undefined} /\ got.real \notin got.made
    BY <1>1, <1>2, Looked
  <1>4. creates => /\ got.real \in Path \ {<< >>} /\ got.real \notin dirs \cup got.made
                   /\ Parent(got.real) \in dirs \cup got.made
    BY <1>2, <1>3 DEF Writable, Disk, Tree, Dirs
  <1>5. Tree(disk', dirs')
    <2>1. creates => Tree(disk \cup {got.real}, dirs \cup got.made)
      BY <1>3, <1>4, TreeGrows
    <2> QED
      BY <1>1, <1>3, <2>1
  <1>6. made \o new \in Seq(Event(watched))
    <2> DEFINE r == "R"
               report == Reports(watched, r, got.real, FALSE)
    <2>1. made \in Seq(Event(watched))
      BY <1>2, <1>3, ReportsMadeAre
    <2>2. r \in {"R", "D"}
      OBVIOUS
    <2>3. new = IF creates /\ got.real \notin disk THEN report ELSE << >>
      OBVIOUS
    <2> HIDE DEF r, watched, made, new
    <2>4. creates => report \in Seq(Event(watched))
      BY <1>4, <2>2, ReportsAre
    <2> HIDE DEF report, creates
    <2>5. new \in Seq(Event(watched))
      BY <2>3, <2>4
    <2> QED
      BY <2>1, <2>5, ConcatElements
  <1>7. events' = made \o new
    BY <1>1
  <1> HIDE DEF made, new, creates
  <1>8. events' \in Seq(Event(vfs'.watched))
    BY <1>1, <1>6, <1>7
  <1>9. Opens(R)
    <2>1. /\ answer'.op = c.op /\ answer'.path = c.path
          /\ answer'.file = IF got.real \in disk' THEN got.real ELSE NoFile
      BY <1>1 DEF Answers
    <2>2. Lands(got.real, c.path, v, R)
      BY <1>3 DEF Returns
    <2>3. disk' \in SUBSET Path /\ disk' \cap dirs = {}
      BY <1>1, <1>5 DEF Tree
    <2>4. got.real \in disk' => got.real = c.path \/ <<v, got.real>> \in R
      BY <2>2, <2>3, OpenedIs
    <2> QED
      BY <2>1, <2>4 DEF Opens
  <1> QED
    BY <1>1, <1>3, <1>5, <1>8, <1>9 DEF Inv, Read, Written, Disk

LEMMA UnlinkKeeps ==
    ASSUME NEW R, Regular(R), Inv(R), NEW c \in Calls, Unlink(c)
    PROVE  Inv(R)' /\ Opens(R)
  <1> DEFINE intent == "Delete"
             gone == "D"
  <1>1. PICK got \in {GetPath(vfs, c.path, intent)} :
          /\ vfs' = got.vfs
          /\ disk' = disk \ {got.real}
          /\ events' = IF got.real \in disk
                       THEN Reports(got.vfs.watched, gone, got.real, FALSE) ELSE << >>
          /\ Answers(c, IF got.real \in disk THEN got.real ELSE NoFile)
          /\ UNCHANGED <<records, dirs, mode, loaded, write_mappings, spared>>
    BY DEF Unlink
  <1>2. gone \in {"R", "D"}
    OBVIOUS
  <1> HIDE DEF intent, gone
  <1>3. c.path \in Seq(Names) /\ Good(vfs, dirs, R) /\ Disk
    BY InputTypes DEF Inv
  <1> DEFINE v == Translated(vfs, c.path)
  <1>4. Returns(got, c.path, v, R) /\ Good(got.vfs, dirs, R)
    BY <1>1, <1>3, Looked
  <1>5. Tree(disk', dirs)
    <2>1. disk' \subseteq disk /\ Tree(disk, dirs)
      BY <1>1, <1>3 DEF Disk
    <2> QED
      BY <2>1, TreeShrinks
  <1>6. events' \in Seq(Event(vfs'.watched))
    <2> DEFINE watched == got.vfs.watched
               report == Reports(watched, gone, got.real, FALSE)
    <2>1. got.real \in disk => got.real \in Path \ {<< >>}
      BY <1>3 DEF Disk, Tree
    <2>2. events' = IF got.real \in disk THEN report ELSE << >>
      BY <1>1
    <2>3. watched = vfs'.watched
      BY <1>1
    <2> HIDE DEF watched
    <2>4. got.real \in disk => report \in Seq(Event(watched))
      BY <1>2, <2>1, ReportsAre
    <2> HIDE DEF report
    <2>5. events' \in Seq(Event(watched))
      BY <2>2, <2>4
    <2> QED
      BY <2>3, <2>5
  <1>7. Opens(R)
    <2>1. /\ answer'.op = c.op /\ answer'.path = c.path
          /\ answer'.file = IF got.real \in disk THEN got.real ELSE NoFile
      BY <1>1 DEF Answers
    <2>2. Lands(got.real, c.path, v, R)
      BY <1>4 DEF Returns
    <2>3. disk \in SUBSET Path /\ disk \cap dirs = {}
      BY <1>3 DEF Disk, Tree
    <2>4. got.real \in disk => got.real = c.path \/ <<v, got.real>> \in R
      BY <2>2, <2>3, OpenedIs
    <2> QED
      BY <2>1, <2>4 DEF Opens
  <1> QED
    BY <1>1, <1>4, <1>5, <1>6, <1>7 DEF Inv, Read, Written, Disk

LEMMA RenameKeeps ==
    ASSUME NEW R, Regular(R), Inv(R), NEW c \in Calls, Rename(c)
    PROVE  Inv(R)' /\ Opens(R)
  <1> DEFINE delete == "Delete"
             create == "Create"
             gone == "D"
             came == "R"
  <1>1. PICK old \in {GetPath(vfs, c.path, delete)} :
          \E new \in {GetPath(old.vfs, c.to, create)} :
            LET renames == old.real \in disk /\ Writable(new.real, new.made) IN
            /\ vfs' = new.vfs
            /\ dirs' = dirs \cup new.made
            /\ disk' = IF renames THEN (disk \ {old.real}) \cup {new.real} ELSE disk
            /\ events' = ReportsMade(new.vfs.watched, new.made) \o
                         IF renames
                         THEN Reports(new.vfs.watched, gone, old.real, FALSE)
                              \o Reports(new.vfs.watched, came, new.real, FALSE)
                         ELSE << >>
            /\ spared' = IF renames THEN spared ELSE spared \cup {old.real}
            /\ Answers(c, IF renames THEN new.real ELSE NoFile)
            /\ UNCHANGED <<records, mode, loaded, write_mappings>>
    BY DEF Rename
  <1>2. PICK new \in {GetPath(old.vfs, c.to, create)} :
            LET renames == old.real \in disk /\ Writable(new.real, new.made) IN
            /\ vfs' = new.vfs
            /\ dirs' = dirs \cup new.made
            /\ disk' = IF renames THEN (disk \ {old.real}) \cup {new.real} ELSE disk
            /\ events' = ReportsMade(new.vfs.watched, new.made) \o
                         IF renames
                         THEN Reports(new.vfs.watched, gone, old.real, FALSE)
                              \o Reports(new.vfs.watched, came, new.real, FALSE)
                         ELSE << >>
            /\ spared' = IF renames THEN spared ELSE spared \cup {old.real}
            /\ Answers(c, IF renames THEN new.real ELSE NoFile)
            /\ UNCHANGED <<records, mode, loaded, write_mappings>>
    BY <1>1
  <1>3. gone \in {"R", "D"} /\ came \in {"R", "D"}
    OBVIOUS
  <1>4. c.op = "rename"
    BY DEF Rename
  <1> HIDE DEF delete, create, gone, came
  <1> DEFINE renames == old.real \in disk /\ Writable(new.real, new.made)
             watched == new.vfs.watched
             made == ReportsMade(watched, new.made)
             left == Reports(watched, gone, old.real, FALSE)
             arrived == Reports(watched, came, new.real, FALSE)
  <1>5. c.path \in Seq(Names) /\ c.to \in Seq(Names) /\ Good(vfs, dirs, R) /\ Disk
    BY InputTypes DEF Inv
  <1>6. Good(old.vfs, dirs, R)
    BY <1>1, <1>5, Looked
  <1>7. /\ Good(new.vfs, dirs \cup new.made, R)
        /\ new.made \in SUBSET Path /\ Tree(disk, dirs \cup new.made)
        /\ new.real \in Path \cup {Undefined} /\ new.real \notin new.made
    <2> DEFINE st == old.vfs
    <2>1. Regular(R) /\ Inv(R) /\ Good(st, dirs, R) /\ new = GetPath(st, c.to, create)
      BY <1>6
    <2>2. c.to \in Seq(Names)
      BY <1>5
    <2> HIDE DEF st
    <2> QED
      BY ONLY <2>1, <2>2, Looked
  <1>8. renames => /\ new.real \in Path \ {<< >>} /\ new.real \notin dirs \cup new.made
                   /\ Parent(new.real) \in dirs \cup new.made
                   /\ old.real \in Path \ {<< >>}
    BY <1>5, <1>7 DEF Writable, Disk, Tree, Dirs
  <1>9. Tree(disk', dirs')
    <2> DEFINE rest == disk \ {old.real}
    <2>1. Tree(rest, dirs \cup new.made)
      BY <1>7, TreeShrinks
    <2> HIDE DEF rest
    <2>2. renames => Tree(rest \cup {new.real}, dirs \cup new.made)
      BY <1>8, <2>1, TreeGrows
    <2> QED
      BY <1>2, <1>7, <2>2 DEF rest
  <1>10. events' \in Seq(Event(vfs'.watched))
    <2>1. made \in Seq(Event(watched))
      BY <1>5, <1>7, ReportsMadeAre
    <2>2. events' = made \o IF renames THEN left \o arrived ELSE << >>
      BY <1>2
    <2>3. watched = vfs'.watched
      BY <1>2
    <2> HIDE DEF watched, made, renames
    <2>4. renames => left \in Seq(Event(watched)) /\ arrived \in Seq(Event(watched))
      BY <1>3, <1>8, ReportsAre
    <2> HIDE DEF left, arrived
    <2> DEFINE rest == IF renames THEN left \o arrived ELSE << >>
    <2>5. rest \in Seq(Event(watched))
      <3>1. renames => left \o arrived \in Seq(Event(watched))
        BY <2>4, ConcatElements
      <3> DEFINE both == left \o arrived
      <3>2. rest = IF renames THEN both ELSE << >>
        OBVIOUS
      <3>3. renames => both \in Seq(Event(watched))
        BY <3>1
      <3> HIDE DEF both, rest
      <3> QED
        BY <3>2, <3>3
    <2>6. events' = made \o rest
      BY <2>2
    <2> HIDE DEF rest
    <2>7. made \o rest \in Seq(Event(watched))
      BY <2>1, <2>5, ConcatElements
    <2> QED
      BY <2>3, <2>6, <2>7
  <1>11. Opens(R)
    BY <1>2, <1>4 DEF Opens, Answers
  <1> QED
    BY <1>2, <1>7, <1>9, <1>10, <1>11 DEF Inv, Read, Written, Disk

LEMMA MkdirKeeps ==
    ASSUME NEW R, Regular(R), Inv(R), NEW c \in Calls, Mkdir(c)
    PROVE  Inv(R)' /\ Opens(R)
  <1> DEFINE create == "Create"
  <1>1. PICK got \in {GetPath(vfs, c.path, create)} :
          LET makes == got.real \notin disk /\ Writable(got.real, got.made)
              made == got.made \cup IF makes THEN {got.real} ELSE {}
          IN  /\ vfs' = got.vfs
              /\ dirs' = dirs \cup made
              /\ events' = ReportsMade(got.vfs.watched, made)
              /\ Answers(c, IF makes THEN got.real ELSE NoFile)
              /\ UNCHANGED <<records, disk, mode, loaded, write_mappings, spared>>
    BY DEF Mkdir
  <1>2. c.op = "mkdir"
    BY DEF Mkdir
  <1> HIDE DEF create
  <1> DEFINE makes == got.real \notin disk /\ Writable(got.real, got.made)
             made == got.made \cup IF makes THEN {got.real} ELSE {}
  <1>3. c.path \in Seq(Names) /\ Good(vfs, dirs, R) /\ Disk
    BY InputTypes DEF Inv
  <1>4. /\ Returns(got, c.path, Translated(vfs, c.path), R) /\ Good(got.vfs, dirs, R)
        /\ got.made \in SUBSET Path /\ got.real \in Path \cup {Undefined}
    BY <1>1, <1>3, Looked
  <1>5. Makes(made) /\ made \in SUBSET Path
    <2>1. Makes(got.made)
      BY <1>4 DEF Returns
    <2>2. CASE makes
      <3>1. /\ got.real \in Path /\ got.real \notin disk \cup dirs
            /\ Parent(got.real) \in dirs \cup got.made
        BY <1>4, <2>2 DEF Writable
      <3>2. Makes(got.made \cup {got.real})
        BY <1>3, <2>1, <3>1, MakesMore
      <3> QED
        BY <1>4, <2>2, <3>1, <3>2
    <2>3. CASE ~makes
      <3>1. made = got.made
        BY <2>3
      <3> QED
        BY <1>4, <2>1, <3>1
    <2> QED
      BY <2>2, <2>3
  <1>6. vfs' = got.vfs /\ dirs' = dirs \cup made
        /\ events' = ReportsMade(got.vfs.watched, made)
        /\ answer'.op = c.op
        /\ UNCHANGED <<records, disk, mode, loaded, write_mappings, spared>>
    BY <1>1 DEF Answers
  <1> HIDE DEF made, makes
  <1>7. Tree(disk', dirs')
    BY <1>3, <1>5, <1>6, MakesTree
  <1>8. Good(vfs', dirs', R)
    BY <1>4, <1>6, GoodGrows
  <1>9. events' \in Seq(Event(vfs'.watched))
    <2> DEFINE watched == got.vfs.watched
    <2>1. ReportsMade(watched, made) \in Seq(Event(watched))
      BY <1>3, <1>5, ReportsMadeAre
    <2> QED
      BY <1>6, <2>1
  <1>10. Opens(R)
    BY <1>2, <1>6 DEF Opens
  <1> QED
    BY <1>6, <1>7, <1>8, <1>9, <1>10 DEF Inv, Read, Written, Disk

LEMMA StatKeeps ==
    ASSUME NEW R, Regular(R), Inv(R), NEW c \in Calls, Stat(c)
    PROVE  Inv(R)' /\ Opens(R)
  <1> DEFINE intent == "Read"
  <1>1. PICK got \in {GetPath(vfs, c.path, intent)} :
          /\ vfs' = got.vfs
          /\ Answers(c, IF got.real \in dirs \cup {Undefined} THEN got.real ELSE NoFile)
          /\ UNCHANGED <<records, disk, dirs, mode, loaded, write_mappings, events,
                         spared>>
    BY DEF Stat
  <1>2. c.op = "stat"
    BY DEF Stat
  <1> HIDE DEF intent
  <1>3. c.path \in Seq(Names) /\ Good(vfs, dirs, R)
    BY InputTypes DEF Inv
  <1>4. Good(got.vfs, dirs, R)
    BY <1>1, <1>3, Looked
  <1>5. events = << >>
    BY DEF Stat, Ready
  <1>6. Opens(R)
    BY <1>1, <1>2 DEF Opens, Answers
  <1> QED
    BY <1>1, <1>4, <1>5, <1>6 DEF Inv, Read, Written, Disk, Tree

LEMMA OpendirFillInfoIs ==
    ASSUME NEW R, NEW ds, NEW st, Good(st, ds, R), NEW p \in Path,
           Blank \in R \/ p \in DOMAIN st.folders \cup DOMAIN st.reverse
    PROVE  Good(OpendirFillInfo(st, p), ds, R)
  <1> DEFINE reverse == Put(st.reverse, p, NoFolder)
             new == [st EXCEPT !.reverse = reverse]
  <1>1. CASE p \in DOMAIN st.folders \cup DOMAIN st.reverse
    BY <1>1 DEF OpendirFillInfo
  <1>2. CASE p \notin DOMAIN st.folders \cup DOMAIN st.reverse
    <2>1. OpendirFillInfo(st, p) = new
      BY <1>2 DEF OpendirFillInfo
    <2>2. st \in Tables(ds) /\ st.reverse \in Maps(Path, Path)
      BY DEF Good, Tables
    <2>3. reverse \in Maps(Path, Path)
      BY <2>2, NoFolderIsPath, PutIs
    <2>4. /\ DOMAIN reverse = DOMAIN st.reverse \cup {p}
          /\ \A d \in DOMAIN reverse :
                reverse[d] = IF d = p THEN NoFolder ELSE st.reverse[d]
      BY DEF Put
    <2> HIDE DEF reverse
    <2>5. /\ new \in Tables(ds) /\ new.mapped = st.mapped /\ new.folders = st.folders
          /\ new.reverse = reverse /\ new.watched = st.watched
      BY <2>2, <2>3 DEF Tables
    <2> HIDE DEF new
    <2>6. Backed(reverse, R)
      BY <1>2, <2>4 DEF Good, Backed
    <2>7. Noticed(new, R)
      <3> SUFFICES ASSUME NEW d \in st.watched
                   PROVE  /\ d \in DOMAIN reverse \cup DOMAIN st.folders
                          /\ d \in DOMAIN reverse => <<reverse[d], d>> \in R
        BY <2>5 DEF Noticed
      <3>1. /\ d \in DOMAIN st.reverse \cup DOMAIN st.folders
            /\ d \in DOMAIN st.reverse => <<st.reverse[d], d>> \in R
        BY DEF Good, Noticed
      <3>2. d # p
        BY <1>2, <3>1
      <3> QED
        BY <2>4, <3>1, <3>2
    <2> QED
      BY <2>1, <2>5, <2>6, <2>7 DEF Good
  <1> QED
    BY <1>1, <1>2

LEMMA OpendirKeeps ==
    ASSUME NEW R, Regular(R), Blank \in R, Inv(R), NEW c \in Calls, Opendir(c)
    PROVE  Inv(R)' /\ Opens(R)
  <1> DEFINE intent == "Read"
  <1>1. PICK got \in {GetPath(vfs, c.path, intent)} :
          /\ vfs' = IF got.real \in dirs THEN OpendirFillInfo(got.vfs, c.path)
                                         ELSE got.vfs
          /\ Answers(c, IF got.real \in dirs \cup {Undefined} THEN got.real ELSE NoFile)
          /\ UNCHANGED <<records, disk, dirs, mode, loaded, write_mappings, events,
                         spared>>
    BY DEF Opendir
  <1>2. c.op = "opendir"
    BY DEF Opendir
  <1> HIDE DEF intent
  <1>3. c.path \in Seq(Names) /\ Good(vfs, dirs, R)
    BY InputTypes DEF Inv
  <1>4. c.path \in Path /\ Good(got.vfs, dirs, R)
    BY <1>1, <1>3, Looked
  <1> DEFINE tables == got.vfs
             filled == OpendirFillInfo(tables, c.path)
  <1>5. Good(filled, dirs, R)
    BY <1>2, <1>4, OpendirFillInfoIs
  <1>6. vfs' = filled \/ vfs' = tables
    BY <1>1
  <1> HIDE DEF filled
  <1>7. Good(vfs', dirs, R)
    BY <1>4, <1>5, <1>6
  <1>8. events = << >>
    BY DEF Opendir, Ready
  <1>9. Opens(R)
    BY <1>1, <1>2 DEF Opens, Answers
  <1> QED
    BY <1>1, <1>7, <1>8, <1>9 DEF Inv, Read, Written, Disk, Tree

LEMMA CallKeeps ==
    ASSUME NEW R, Regular(R), Blank \in R, Inv(R), NEW c \in Calls,
           Open(c) \/ Unlink(c) \/ Rename(c) \/ Mkdir(c) \/ Stat(c) \/ Opendir(c)
    PROVE  Inv(R)' /\ Opens(R)
  <1>1. CASE Open(c)
    BY <1>1, OpenKeeps
  <1>2. CASE Unlink(c)
    BY <1>2, UnlinkKeeps
  <1>3. CASE Rename(c)
    BY <1>3, RenameKeeps
  <1>4. CASE Mkdir(c)
    BY <1>4, MkdirKeeps
  <1>5. CASE Stat(c)
    BY <1>5, StatKeeps
  <1>6. CASE Opendir(c)
    BY <1>6, OpendirKeeps
  <1> QED
    BY <1>1, <1>2, <1>3, <1>4, <1>5, <1>6

\* What the listener is told leads back to the folder of a watched directory.
LEMMA ListenKeeps ==
    ASSUME NEW R, Regular(R), Inv(R), Listen
    PROVE  Inv(R)'
  <1> DEFINE e == Head(events)
             d == Parent(e.file)
             v == vfs.reverse[d]
             newpath == Append(v, Last(e.file))
             none == << >>
             dir == AddReadDirectory(vfs, newpath, e.file, none, TRUE)
             entry == AddReadEntry(vfs, newpath, e.file)
             left == DeleteFile(vfs, e.file)
  <1>1. /\ events # << >> /\ events' = Tail(events)
        /\ UNCHANGED <<records, disk, dirs, answer, mode, loaded, write_mappings, spared>>
        /\ vfs' = IF e.event # "R" THEN left
                  ELSE IF d \notin DOMAIN vfs.reverse THEN vfs
                  ELSE IF e.isdir THEN dir ELSE entry
    BY DEF Listen
  <1>2. /\ Good(vfs, dirs, R) /\ Disk /\ Dirs(dirs)
        /\ events \in Seq(Event(vfs.watched))
    BY DEF Inv, Disk, Tree
  <1>3. e \in Event(vfs.watched) /\ Tail(events) \in Seq(Event(vfs.watched))
    <2> DEFINE E == Event(vfs.watched)
    <2>1. events \in Seq(E) /\ events # << >>
      BY <1>1, <1>2
    <2> HIDE DEF E
    <2>2. Head(events) \in E /\ Tail(events) \in Seq(E)
      BY <2>1, HeadTail
    <2> QED
      BY <2>2 DEF E
  <1>4. /\ e.file \in Path /\ e.file # << >> /\ d \in vfs.watched
    BY <1>3 DEF Event
  <1> HIDE DEF e
  <1>5. ASSUME d \in DOMAIN vfs.reverse
        PROVE  /\ newpath \in Path /\ newpath # << >> /\ <<newpath, e.file>> \in R
    <2>1. v \in Path /\ d \in Path /\ <<v, d>> \in R
      BY <1>2, <1>4, <1>5 DEF Good, Noticed, Regular
    <2> DEFINE n == Last(e.file)
    <2>2. n \in N /\ Append(d, n) = e.file
      <3>1. e.file \in Seq(N)
        BY <1>4 DEF Path
      <3> QED
        BY <1>4, <3>1, ParentLast
    <2> HIDE DEF n, v, d
    <2>3. Append(v, n) \in Path /\ <<Append(v, n), Append(d, n)>> \in R
      BY <2>1, <2>2, Below
    <2>4. Append(v, n) # << >>
      <3>1. v \in Seq(N)
        BY <2>1 DEF Path
      <3> QED
        BY <2>2, <3>1, FrontOfAppend
    <2> QED
      BY <2>2, <2>3, <2>4 DEF n
  <1> HIDE DEF newpath, none
  <1>6. Good(left, dirs, R) /\ left.watched = vfs.watched
    BY <1>2, DeleteFileIs
  <1>7. ASSUME d \in DOMAIN vfs.reverse
        PROVE  /\ Good(entry, dirs, R) /\ entry.watched = vfs.watched
    BY <1>2, <1>4, <1>5, <1>7, AddReadEntryIs
  <1>8. ASSUME d \in DOMAIN vfs.reverse
        PROVE  /\ Good(dir, dirs, R) /\ vfs.watched \subseteq dir.watched
    <2>1. none \in Path
      BY NoFolderIsPath DEF none
    <2> QED
      BY <1>2, <1>4, <1>5, <1>8, <2>1, AddReadDirectoryIs
  <1> HIDE DEF left, entry, dir, d
  <1>9. Good(vfs', dirs, R) /\ vfs.watched \subseteq vfs'.watched
    BY <1>1, <1>2, <1>6, <1>7, <1>8
  <1>10. events' \in Seq(Event(vfs'.watched))
    <2> DEFINE E == Event(vfs.watched)
               F == Event(vfs'.watched)
    <2>1. E \subseteq F
      BY <1>9 DEF Event
    <2>2. events' \in Seq(E)
      BY <1>1, <1>3
    <2> HIDE DEF E, F
    <2>3. events' \in Seq(F)
      BY <2>1, <2>2
    <2> QED
      BY <2>3 DEF F
  <1> QED
    BY <1>1, <1>9, <1>10 DEF Inv, Read, Written, Disk, Tree

\* The tables lead from the record's folder to its directory, or file.
LEMMA LoadKeeps ==
    ASSUME NEW R, Regular(R), Recorded(R), Inv(R), LoadRecord
    PROVE  Inv(R)'
  <1> DEFINE r == records[loaded + 1]
             none == << >>
             entry == AddReadEntry(vfs, r.virtual, r.real)
             dir == AddReadDirectory(vfs, r.virtual, r.real, none, TRUE)
             folder == AddReadFolder(vfs, r.virtual, r.real)
             places == Put(write_mappings, r.virtual, r.real)
  <1>1. /\ loaded < Len(records) /\ loaded' = loaded + 1
        /\ vfs' = IF ~IsDir(r.real) THEN entry
                  ELSE IF mode = "full" THEN dir ELSE folder
        /\ write_mappings' = IF r.op = "W" THEN places ELSE write_mappings
        /\ UNCHANGED <<records, disk, dirs, answer, mode, events, spared>>
    BY DEF LoadRecord
  <1>2. /\ Good(vfs, dirs, R) /\ Disk /\ Dirs(dirs) /\ Read /\ Written(R)
        /\ events \in Seq(Event(vfs.watched))
    BY DEF Inv, Disk, Tree
  <1>3. /\ r.virtual \in Path /\ r.virtual # << >> /\ r.real \in Path
        /\ loaded + 1 \in 0..Len(records) /\ <<r.virtual, r.real>> \in R
    <2> DEFINE Record == [op : {"R", "W"}, virtual : Seq(Names) \ {<< >>},
                          real : Seq(Names)]
    <2>1. records \in Seq(Record)
      BY <1>2, InputTypes DEF Read
    <2>2. loaded \in 0..Len(records)
      BY <1>2 DEF Read
    <2> HIDE DEF Record
    <2>3. /\ r \in Record /\ loaded + 1 \in DOMAIN records
          /\ loaded + 1 \in 0..Len(records)
      BY <1>1, <2>1, <2>2
    <2>4. <<r.virtual, r.real>> \in R
      BY <2>3 DEF Recorded
    <2> HIDE DEF r
    <2>5. r.virtual \in Seq(Names) \ {<< >>} /\ r.real \in Seq(Names)
      BY <2>3 DEF Record
    <2> QED
      BY <2>3, <2>4, <2>5, NamesArePaths
  <1> HIDE DEF r, none
  <1>4. Good(entry, dirs, R) /\ entry.watched = vfs.watched
    BY <1>2, <1>3, AddReadEntryIs
  <1>5. Good(dir, dirs, R) /\ vfs.watched \subseteq dir.watched
    <2>1. none \in Path
      BY NoFolderIsPath DEF none
    <2> QED
      BY <1>2, <1>3, <2>1, AddReadDirectoryIs
  <1>6. ASSUME IsDir(r.real)
        PROVE  Good(folder, dirs, R) /\ vfs.watched \subseteq folder.watched
    <2>1. r.real \in dirs
      BY <1>6 DEF IsDir
    <2> QED
      BY <1>2, <1>3, <2>1, AddReadFolderIs
  <1> HIDE DEF entry, dir, folder
  <1>7. Good(vfs', dirs, R) /\ vfs.watched \subseteq vfs'.watched
    BY <1>1, <1>4, <1>5, <1>6
  <1>8. events' \in Seq(Event(vfs'.watched))
    <2> DEFINE E == Event(vfs.watched)
               F == Event(vfs'.watched)
    <2>1. E \subseteq F
      BY <1>7 DEF Event
    <2>2. events' \in Seq(E)
      BY <1>1, <1>2
    <2> HIDE DEF E, F
    <2>3. events' \in Seq(F)
      BY <2>1, <2>2
    <2> QED
      BY <2>3 DEF F
  <1>9. Written(R)'
    <2>1. /\ places \in Maps(Path, Path) /\ << >> \notin DOMAIN places
          /\ Mapped(places, R)
      <3>1. places \in Maps(Path, Path)
        BY <1>2, <1>3, PutIs DEF Written
      <3>2. << >> \notin DOMAIN places /\ Mapped(places, R)
        BY <1>2, <1>3 DEF Written, Mapped, Put
      <3> QED
        BY <3>1, <3>2
    <2> HIDE DEF places
    <2> QED
      BY <1>1, <1>2, <2>1 DEF Written
  <1> QED
    BY <1>1, <1>2, <1>3, <1>7, <1>8, <1>9 DEF Inv, Read, Disk, Tree

\* The directories and files that exist at first.
LEMMA StartTree ==
    ASSUME NEW files \in Trees
    PROVE  Tree(files, DirsOf(files))
  <1> DEFINE ds == DirsOf(files)
  <1>1. ds = Homes \cup {<< >>} \cup UNION {Ancestors(f) : f \in files \cup Homes}
    BY DEF DirsOf
  <1> HIDE DEF ds
  <1>2. \A f \in files \cup Homes : f \in Seq(Names)
    BY <1>1, InputTypes
  <1>3. ASSUME NEW f \in Seq(Names), NEW d \in Ancestors(f)
        PROVE  d \in Path /\ OnPath(d) \subseteq Ancestors(f)
    <2>1. f \in Seq(N)
      BY NamesArePaths DEF Path
    <2>2. f # << >>
      <3>1. f = << >> => Len(f) = 0 /\ 1..Len(f) = {}
        OBVIOUS
      <3> QED
        BY <3>1 DEF Ancestors
    <2>3. /\ Parent(f) \in Seq(N) /\ d \in OnPath(Parent(f))
          /\ Len(Parent(f)) = Len(f) - 1 /\ Len(f) \in Nat
      BY <2>1, <2>2, ParentLast, AncestorsOf DEF Path
    <2>4. d \in Seq(N) /\ IsPrefix(d, Parent(f)) /\ IsPrefix(Parent(f), f)
      BY <2>1, <2>2, <2>3, OnPathIs, ParentLast
    <2> SUFFICES ASSUME NEW u \in OnPath(d) PROVE u \in Ancestors(f)
      BY <2>4 DEF Path
    <2>5. u \in Seq(N) /\ IsPrefix(u, d)
      BY <2>4, OnPathIs
    <2>6. IsPrefix(u, Parent(f))
      BY <2>3, <2>4, <2>5, PrefixTransitive
    <2>7. IsPrefix(u, f)
      BY <2>1, <2>3, <2>4, <2>5, <2>6, PrefixTransitive
    <2>8. Len(u) <= Len(Parent(f)) /\ Len(u) \in Nat
      BY <2>3, <2>5, <2>6, PrefixIs
    <2>9. u # f
      BY <2>3, <2>8
    <2> QED
      BY <2>1, <2>5, <2>7, <2>9, OnPathIs DEF OnPath
  <1>4. Dirs(ds)
    <2>1. ASSUME NEW d \in ds PROVE d \in Path /\ OnPath(d) \subseteq ds
      <3>1. CASE d \in Homes
        <4>1. d \in Seq(Names) /\ Ancestors(d) \subseteq ds
          BY <1>1, <1>2, <3>1
        <4> QED
          BY <4>1, NamesArePaths DEF OnPath
      <3>2. CASE d = << >>
        <4>1. Ancestors(<< >>) = {}
          BY DEF Ancestors
        <4> QED
          BY <3>2, <4>1, NoFolderIsPath DEF OnPath
      <3>3. CASE \E f \in files \cup Homes : d \in Ancestors(f)
        <4>1. PICK f \in files \cup Homes : d \in Ancestors(f)
          BY <3>3
        <4>2. d \in Path /\ OnPath(d) \subseteq Ancestors(f)
          BY <1>2, <1>3, <4>1
        <4>3. Ancestors(f) \subseteq ds
          BY <1>1
        <4> QED
          BY <4>2, <4>3
      <3> QED
        BY <1>1, <3>1, <3>2, <3>3
    <2> QED
      BY <1>1, <2>1 DEF Dirs
  <1>5. Tree(files, ds)
    <2>1. /\ files \subseteq Seq(Names) \ ({<< >>} \cup Homes)
          /\ \A f \in files \cup Homes : Ancestors(f) \cap files = {}
      BY <1>1, InputTypes
    <2>2. files \subseteq Path \ {<< >>} /\ files \cap ds = {}
      BY <1>1, <2>1, NamesArePaths
    <2>3. ASSUME NEW f \in files PROVE Parent(f) \in ds
      <3>1. f \in Seq(Names) /\ f # << >>
        BY <2>1
      <3>2. 1 \in 1..Len(f)
        BY <3>1
      <3>3. Parent(f) \in Ancestors(f)
        BY <3>2 DEF Parent, Ancestors
      <3> QED
        BY <1>1, <3>3
    <2> QED
      BY <1>4, <2>2, <2>3 DEF Tree
  <1> QED
    BY <1>5 DEF ds

\* At first there is nothing in the tables, and the directories have all that
\* is above them.
LEMMA InitInv ==
    ASSUME NEW R, Init
    PROVE  Inv(R)
  <1> DEFINE none == << >>
  <1>1. /\ records \in VfsFiles /\ disk \in Trees /\ loaded = 0
        /\ dirs = Homes \cup {<< >>} \cup UNION {Ancestors(f) : f \in disk \cup Homes}
        /\ vfs = [mapped |-> none, folders |-> none, reverse |-> none, watched |-> {}]
        /\ write_mappings = none /\ events = none
        /\ answer.op = "none"
    BY DEF Init, DirsOf, Promise!NoAnswer
  <1>2. \A S : none \in Maps(Path, S)
    <2> TAKE S
    <2>1. none = [k \in DOMAIN none |-> none[k]] /\ DOMAIN none = {}
      OBVIOUS
    <2> HIDE DEF none
    <2> QED
      BY <2>1, MapsIs
  <1>3. DOMAIN none = {}
    OBVIOUS
  <1>4. Disk
    BY <1>1, StartTree DEF Disk, DirsOf
  <1> HIDE DEF none
  <1>5. Good(vfs, dirs, R)
    <2>1. vfs \in Tables(dirs)
      BY <1>1, <1>2 DEF Tables
    <2> QED
      BY <1>1, <1>3, <2>1 DEF Good, Mapped, Leads, Backed, Noticed
  <1>6. Written(R)
    BY <1>1, <1>2, <1>3 DEF Written, Mapped
  <1>7. Read
    <2>1. records \in Seq([op : {"R", "W"}, virtual : Seq(Names) \ {<< >>},
                           real : Seq(Names)])
      BY <1>1, InputTypes
    <2>2. Len(records) \in Nat
      BY <2>1
    <2> QED
      BY <1>1, <2>2 DEF Read
  <1>8. events \in Seq(Event(vfs.watched))
    BY <1>1 DEF none
  <1> QED
    BY <1>4, <1>5, <1>6, <1>7, <1>8 DEF Inv

\* Every step keeps where the entries come from.
LEMMA NextKeeps ==
    ASSUME NEW R, Regular(R), Blank \in R, Recorded(R), Inv(R), [Next]_vars
    PROVE  Inv(R)'
  <1>1. CASE LoadRecord
    BY <1>1, LoadKeeps
  <1>2. CASE Listen
    BY <1>2, ListenKeeps
  <1>3. CASE \E c \in Calls : \/ Open(c) \/ Unlink(c) \/ Rename(c)
                             \/ Mkdir(c) \/ Stat(c) \/ Opendir(c)
    BY <1>3, CallKeeps
  <1>4. CASE UNCHANGED vars
    BY <1>4 DEF vars, Inv, Read, Disk, Tree, Written
  <1> QED
    BY <1>1, <1>2, <1>3, <1>4 DEF Next

-----------------------------------------------------------------------------
(* Types: every path is related to every other *)

WithBlank(R) == R \cup {Blank}

LEMMA BlankIs ==
    ASSUME NEW R
    PROVE  /\ \A v, d : <<v, d>> \in WithBlank(R) <=> <<v, d>> \in R
           /\ Blank \in WithBlank(R)
           /\ Regular(R) => Regular(WithBlank(R))
  <1>1. \A v, d : <<v, d>> # Blank
    BY DEF Blank
  <1>2. \A v, d : <<v, d>> \in WithBlank(R) <=> <<v, d>> \in R
    BY <1>1 DEF WithBlank
  <1>3. R \subseteq WithBlank(R) /\ Blank \in WithBlank(R)
    BY DEF WithBlank
  <1>4. ASSUME Regular(R) PROVE Regular(WithBlank(R))
    <2> DEFINE S == WithBlank(R)
    <2>1. /\ \A v, d : <<v, d>> \in S <=> <<v, d>> \in R
          /\ R \subseteq S
      BY <1>2, <1>3
    <2> HIDE DEF S
    <2>2. Regular(S)
      BY <1>4, <2>1 DEF Regular
    <2> QED
      BY <2>2 DEF S
  <1> QED
    BY <1>2, <1>3, <1>4

All == WithBlank(Path \X Path)

LEMMA AllRegular == Regular(All) /\ Blank \in All
  <1> DEFINE R == Path \X Path
  <1>1. ASSUME NEW v \in Path, NEW d \in Path
        PROVE  /\ \A rest \in Path : <<v \o rest, d \o rest>> \in R
               /\ v # << >> /\ d # << >> => <<Parent(v), Parent(d)>> \in R
               /\ <<NoFolder, d>> \in R
    <2>1. v \in Seq(N) /\ d \in Seq(N)
      BY DEF Path
    <2>2. \A rest \in Seq(N) : v \o rest \in Seq(N) /\ d \o rest \in Seq(N)
      BY <2>1, ConcatElements
    <2>3. Parent(v) \in Seq(N) /\ Parent(d) \in Seq(N)
      BY <2>1, ParentType
    <2> QED
      BY <2>2, <2>3, NoFolderIsPath DEF Path
  <1>2. Regular(R)
    BY <1>1 DEF Regular
  <1> QED
    BY <1>2, BlankIs DEF All

\* What a VFS file consists of.
LEMMA RecordIs ==
    ASSUME NEW rs \in VfsFiles, NEW i \in DOMAIN rs
    PROVE  rs[i].virtual \in Path /\ rs[i].virtual # << >> /\ rs[i].real \in Path
  <1> DEFINE Record == [op : {"R", "W"}, virtual : Seq(Names) \ {<< >>},
                        real : Seq(Names)]
             r == rs[i]
  <1>1. rs \in Seq(Record)
    BY InputTypes
  <1> HIDE DEF Record
  <1>2. r \in Record
    BY <1>1
  <1> HIDE DEF r
  <1>3. r.virtual \in Seq(Names) \ {<< >>} /\ r.real \in Seq(Names)
    BY <1>2 DEF Record
  <1> QED
    BY <1>3, NamesArePaths DEF r

LEMMA TypesOf ==
    ASSUME Inv(All)
    PROVE  TypeOK
  <1>1. /\ loaded \in 0..Len(records) /\ disk \cap dirs = {} /\ Dirs(dirs)
        /\ disk \subseteq Path \ {<< >>} /\ \A f \in disk : Parent(f) \in dirs
        /\ vfs.watched \subseteq dirs /\ vfs.folders \in Maps(Path, Folder(dirs))
    BY DEF Inv, Read, Disk, Tree, Good, Tables
  <1>2. ASSUME NEW f \in disk PROVE Ancestors(f) \subseteq dirs
    <2>1. f \in Path /\ f # << >> /\ Parent(f) \in dirs
      BY <1>1
    <2>2. Ancestors(f) \subseteq OnPath(Parent(f))
      BY <2>1, AncestorsOf
    <2> QED
      BY <1>1, <2>1, <2>2 DEF Dirs
  <1>3. \A d \in dirs : Ancestors(d) \subseteq dirs
    BY <1>1 DEF Dirs, OnPath
  <1>4. ASSUME NEW v \in DOMAIN vfs.folders
        PROVE  /\ vfs.folders[v].explored \in BOOLEAN
               /\ ToSet(vfs.folders[v].paths) \subseteq dirs
               /\ IsInjective(vfs.folders[v].paths)
    <2> DEFINE f == vfs.folders[v]
    <2>1. f \in Folder(dirs)
      BY <1>1, MapsIs
    <2> HIDE DEF f
    <2>2. f.explored \in BOOLEAN /\ f.paths \in Seq(dirs) /\ IsInjective(f.paths)
      BY <2>1 DEF Folder
    <2>3. ToSet(f.paths) \subseteq dirs
      BY <2>2 DEF ToSet
    <2> QED
      BY <2>2, <2>3 DEF f
  <1> QED
    BY <1>1, <1>2, <1>3, <1>4 DEF TypeOK

\* Whatever the VFS file, the trees and the calls are: what the tables hold has
\* its types, a folder has none of its real directories twice, no file is a
\* directory or lies outside one, and only directories that exist are watched.
THEOREM ExplorationTypes == Spec => []TypeOK
  <1>1. Init => Inv(All)
    BY InitInv
  <1>2. Inv(All) /\ [Next]_vars => Inv(All)'
    <2> SUFFICES ASSUME Inv(All), [Next]_vars PROVE Inv(All)'
      OBVIOUS
    <2>1. Recorded(All)
      <3> SUFFICES ASSUME NEW i \in DOMAIN records
                   PROVE  <<records[i].virtual, records[i].real>> \in All
        BY DEF Recorded
      <3>1. records \in VfsFiles
        BY DEF Inv, Read
      <3>2. records[i].virtual \in Path /\ records[i].real \in Path
        BY <3>1, RecordIs
      <3> QED
        BY <3>2, BlankIs DEF All
    <2> QED
      BY <2>1, AllRegular, NextKeeps
  <1>3. Inv(All) => TypeOK
    BY TypesOf
  <1> QED
    BY <1>1, <1>2, <1>3, PTL DEF Spec

-----------------------------------------------------------------------------
(* Where the entries come from *)

Pairs(rs) ==
    {pr \in Path \X Path : \E i \in DOMAIN rs : \E rest \in Path :
        pr[1] = rs[i].virtual \o rest /\ pr[2] = rs[i].real \o rest}

LEMMA IsPair ==
    ASSUME NEW rs \in VfsFiles, NEW i \in DOMAIN rs, NEW rest \in Path
    PROVE  <<rs[i].virtual \o rest, rs[i].real \o rest>> \in Pairs(rs)
  <1> DEFINE v == rs[i].virtual \o rest
             d == rs[i].real \o rest
  <1>1. v \in Path /\ d \in Path
    <2>1. rs[i].virtual \in Seq(N) /\ rs[i].real \in Seq(N) /\ rest \in Seq(N)
      BY RecordIs DEF Path
    <2> QED
      BY <2>1, ConcatElements DEF Path
  <1>2. \E j \in DOMAIN rs : \E more \in Path :
           v = rs[j].virtual \o more /\ d = rs[j].real \o more
    OBVIOUS
  <1> HIDE DEF v, d
  <1>3. <<v, d>> \in Pairs(rs)
    BY <1>1, <1>2 DEF Pairs
  <1> QED
    BY <1>3 DEF v, d

LEMMA PairsRegular ==
    ASSUME Plain, DOMAIN Suffix = {}, NEW rs \in VfsFiles
    PROVE  Regular(Pairs(rs))
  <1>1. \A i \in DOMAIN rs : \A rest \in Path :
           <<rs[i].virtual \o rest, rs[i].real \o rest>> \in Pairs(rs)
    BY IsPair
  <1>2. \A v, d : <<v, d>> \in Pairs(rs) => v \in Path /\ d \in Path
    BY DEF Pairs
  <1>3. ASSUME NEW v \in Path, NEW d \in Path, <<v, d>> \in Pairs(rs)
        PROVE  /\ \A more \in Path : <<v \o more, d \o more>> \in Pairs(rs)
               /\ /\ v # << >> /\ d # << >>
                  /\ FileName(Parent(v)) = FileName(Parent(d))
                  => <<Parent(v), Parent(d)>> \in Pairs(rs)
               /\ v # d
    <2>1. PICK i \in DOMAIN rs : \E rest \in Path :
             v = rs[i].virtual \o rest /\ d = rs[i].real \o rest
      BY <1>3 DEF Pairs
    <2>2. PICK rest \in Path : v = rs[i].virtual \o rest /\ d = rs[i].real \o rest
      BY <2>1
    <2> DEFINE a == rs[i].virtual
               b == rs[i].real
    <2>3. a \in Seq(N) /\ a # << >> /\ b \in Seq(N) /\ rest \in Seq(N)
      BY RecordIs DEF Path
    <2>4. b = << >> \/ FileName(Parent(a)) # FileName(Parent(b))
      BY DEF Plain
    <2>5. v = a \o rest /\ d = b \o rest
      BY <2>2
    <2>6. \A more \in Path : <<a \o more, b \o more>> \in Pairs(rs)
      BY <1>1
    <2> HIDE DEF a, b
    <2>7. ASSUME NEW more \in Path PROVE <<v \o more, d \o more>> \in Pairs(rs)
      <3>1. more \in Seq(N)
        BY DEF Path
      <3>2. (a \o rest) \o more = a \o (rest \o more)
        BY <2>3, <3>1, ConcatAssociative
      <3>3. (b \o rest) \o more = b \o (rest \o more)
        BY <2>3, <3>1, ConcatAssociative
      <3>4. rest \o more \in Path
        BY <2>3, <3>1, ConcatElements DEF Path
      <3>5. <<a \o (rest \o more), b \o (rest \o more)>> \in Pairs(rs)
        BY <2>6, <3>4
      <3> QED
        BY <2>5, <3>2, <3>3, <3>5
    <2>8. ASSUME v # << >>, d # << >>, FileName(Parent(v)) = FileName(Parent(d))
          PROVE  <<Parent(v), Parent(d)>> \in Pairs(rs)
      <3>1. CASE rest = << >>
        <4>1. v = a /\ d = b
          BY <2>3, <2>5, <3>1, ConcatEmptySeq
        <4> QED
          BY <2>4, <2>8, <4>1
      <3>2. CASE rest # << >>
        <4>1. Parent(v) = a \o Parent(rest) /\ Parent(d) = b \o Parent(rest)
          BY <2>3, <2>5, <3>2, RestLast
        <4>2. Parent(rest) \in Path
          BY <2>3, ParentType DEF Path
        <4> QED
          BY <2>6, <4>1, <4>2
      <3> QED
        BY <3>1, <3>2
    <2>9. v # d
      <3> SUFFICES ASSUME v = d PROVE FALSE
        OBVIOUS
      <3>1. a = b
        BY ONLY v = d, <2>3, <2>5, ConcatSimplifications
      <3> QED
        BY <2>3, <2>4, <3>1
    <2> QED
      BY <2>7, <2>8, <2>9
  <1> QED
    BY <1>2, <1>3 DEF Regular

\* A pair is what a record gives, somewhere below.
LEMMA PairRelocates ==
    ASSUME NEW rs \in VfsFiles, NEW v, NEW d, <<v, d>> \in Pairs(rs)
    PROVE  \E i \in DOMAIN rs : /\ IsPrefix(rs[i].virtual, v)
                                /\ IsPrefix(rs[i].real, d)
                                /\ d = Relocate(v, rs[i].virtual, rs[i].real)
                                /\ v = Relocate(d, rs[i].real, rs[i].virtual)
  <1>1. PICK i \in DOMAIN rs : \E rest \in Path :
           v = rs[i].virtual \o rest /\ d = rs[i].real \o rest
    BY DEF Pairs
  <1>2. PICK rest \in Path : v = rs[i].virtual \o rest /\ d = rs[i].real \o rest
    BY <1>1
  <1> DEFINE a == rs[i].virtual
             b == rs[i].real
  <1>3. a \in Seq(N) /\ b \in Seq(N) /\ rest \in Seq(N)
    BY RecordIs DEF Path
  <1>4. v = a \o rest /\ d = b \o rest
    BY <1>2
  <1> HIDE DEF a, b
  <1>5. /\ IsPrefix(a, v) /\ IsPrefix(b, d)
        /\ d = Relocate(v, a, b) /\ v = Relocate(d, b, a)
    BY <1>3, <1>4, PrefixOfConcat, RelocateRest
  <1> QED
    BY <1>5 DEF a, b

\* The invariant, for the pairs of the VFS file that is read.
Exact == \A rs \in VfsFiles : records = rs => Inv(WithBlank(Pairs(rs)))

LEMMA RecordsStay ==
    ASSUME [Next]_vars
    PROVE  records' = records
  BY DEF Next, LoadRecord, Listen, Open, Unlink, Rename, Mkdir, Stat, Opendir, vars

LEMMA ExactInv ==
    ASSUME Plain, DOMAIN Suffix = {}
    PROVE  Spec => [](Exact /\ Read)
  <1>1. Init => Exact /\ Read
    BY InitInv DEF Exact, Inv, Init
  <1>2. Exact /\ Read /\ [Next]_vars => Exact' /\ Read'
    <2> SUFFICES ASSUME Exact, Read, [Next]_vars PROVE Exact' /\ Read'
      OBVIOUS
    <2>1. PICK rs \in VfsFiles : records = rs
      BY DEF Read
    <2> DEFINE R == WithBlank(Pairs(rs))
    <2>2. Regular(R) /\ Blank \in R /\ Inv(R)
      BY <2>1, PairsRegular, BlankIs DEF Exact
    <2>3. Recorded(R)
      <3> SUFFICES ASSUME NEW i \in DOMAIN rs
                   PROVE  <<rs[i].virtual, rs[i].real>> \in R
        BY <2>1 DEF Recorded
      <3> DEFINE a == rs[i].virtual
                 b == rs[i].real
                 none == << >>
      <3>1. a \in Seq(N) /\ b \in Seq(N) /\ none \in Path
        BY RecordIs, NoFolderIsPath DEF Path
      <3>2. <<a \o none, b \o none>> \in Pairs(rs)
        BY <3>1, IsPair
      <3> HIDE DEF a, b
      <3>3. a \o none = a /\ b \o none = b
        BY <3>1, ConcatEmptySeq
      <3>4. <<a, b>> \in Pairs(rs)
        BY <3>2, <3>3
      <3> QED
        BY <3>4, BlankIs DEF a, b
    <2> HIDE DEF R
    <2>4. Inv(R)'
      BY <2>2, <2>3, NextKeeps
    <2>5. records' = rs
      BY <2>1, RecordsStay
    <2> QED
      BY <2>4, <2>5 DEF Exact, R, Inv
  <1> QED
    BY <1>1, <1>2, PTL DEF Spec

\* However the folders are explored, lazily or at once, and whatever calls and
\* events register: a real directory in the reverse table leads to the virtual
\* folder a record puts it in, as far below.  What opendir adds (vfs.cpp:417) is
\* empty and is never watched, so that no event of such a directory is lost.
\* The records are Plain, and no folder is the beginning of another's name (of
\* both the code takes no account, at vfs.cpp:349 and vfs.cpp:1236).
THEOREM ReverseExactTheorem ==
    ASSUME Plain, DOMAIN Suffix = {}
    PROVE  Spec => []ReverseExact
  <1>1. Exact /\ Read => ReverseExact
    <2> SUFFICES ASSUME Exact, Read, NEW d \in DOMAIN vfs.reverse
                 PROVE  \/ vfs.reverse[d] = NoFolder /\ d \notin vfs.watched
                        \/ \E i \in DOMAIN records :
                              /\ IsPrefix(records[i].real, d)
                              /\ vfs.reverse[d] = Relocate(d, records[i].real,
                                                           records[i].virtual)
      BY DEF ReverseExact
    <2>1. PICK rs \in VfsFiles : records = rs
      BY DEF Read
    <2>2. Good(vfs, dirs, WithBlank(Pairs(rs)))
      BY <2>1 DEF Exact, Inv
    <2>3. CASE <<vfs.reverse[d], d>> \in Pairs(rs)
      BY <2>1, <2>3, PairRelocates
    <2>4. CASE <<vfs.reverse[d], d>> \notin Pairs(rs)
      BY <2>2, <2>4, BlankIs DEF Good, Backed, Noticed
    <2> QED
      BY <2>3, <2>4
  <1> QED
    BY <1>1, ExactInv, PTL

LEMMA RecordsLength ==
    ASSUME Read
    PROVE  Len(records) \in Nat
  <1>1. records \in Seq([op : {"R", "W"}, virtual : Seq(Names) \ {<< >>},
                         real : Seq(Names)])
    BY InputTypes DEF Read
  <1> QED
    BY <1>1

\* A call opens and removes the file at its own path, or the one that a record
\* puts at the virtual path which its own stands for: never one at another level
\* or of another folder, whatever was explored and announced before.
THEOREM InPlaceTheorem ==
    ASSUME Plain, DOMAIN Suffix = {}
    PROVE  Spec => InPlace
  <1> DEFINE Step ==
        /\ Ready /\ answer'.op \in {"read", "append", "create", "unlink"}
        /\ answer'.file \notin {NoFile, answer'.path}
        => LET folder == Translated(vfs, answer'.path) IN
           \E i \in DOMAIN records :
              /\ IsPrefix(records[i].virtual, folder)
              /\ answer'.file = Relocate(folder, records[i].virtual, records[i].real)
  <1>1. Exact /\ Read /\ [Next]_vars => [Step]_vars
    <2> SUFFICES ASSUME Exact, Read, Next, Ready,
                        answer'.op \in {"read", "append", "create", "unlink"},
                        answer'.file \notin {NoFile, answer'.path}
                 PROVE  \E i \in DOMAIN records :
                           /\ IsPrefix(records[i].virtual, Translated(vfs, answer'.path))
                           /\ answer'.file = Relocate(Translated(vfs, answer'.path),
                                                      records[i].virtual, records[i].real)
      OBVIOUS
    <2>1. PICK rs \in VfsFiles : records = rs
      BY DEF Read
    <2> DEFINE R == WithBlank(Pairs(rs))
    <2>2. Regular(R) /\ Blank \in R /\ Inv(R)
      BY <2>1, PairsRegular, BlankIs DEF Exact
    <2>3. PICK c \in Calls : \/ Open(c) \/ Unlink(c) \/ Rename(c)
                             \/ Mkdir(c) \/ Stat(c) \/ Opendir(c)
      <3>1. ~LoadRecord
        <4>1. LoadRecord => loaded < Len(records)
          BY DEF LoadRecord
        <4>2. loaded = Len(records) /\ Len(records) \in Nat
          BY RecordsLength DEF Ready
        <4> QED
          BY <4>1, <4>2
      <3>2. ~Listen
        BY DEF Listen, Ready
      <3> QED
        BY <3>1, <3>2 DEF Next
    <2> HIDE DEF R
    <2>4. Opens(R)
      BY <2>2, <2>3, CallKeeps
    <2> DEFINE v == Translated(vfs, answer'.path)
               d == answer'.file
    <2>5. <<v, d>> \in Pairs(rs)
      BY <2>4, BlankIs DEF Opens, R
    <2> HIDE DEF v, d
    <2>6. \E i \in DOMAIN rs : /\ IsPrefix(rs[i].virtual, v)
                               /\ d = Relocate(v, rs[i].virtual, rs[i].real)
      BY <2>5, PairRelocates
    <2> QED
      BY <2>1, <2>6 DEF v, d
  <1> QED
    BY <1>1, ExactInv, PTL DEF Spec, InPlace
=============================================================================
