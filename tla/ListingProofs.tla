---------------------------- MODULE ListingProofs ----------------------------
(***************************************************************************)
(* Theorems about Listing for any streams, names and number of changes.    *)
(***************************************************************************)
EXTENDS Listing, SequenceLemmas, FiniteSetTheorems, TLAPS

-----------------------------------------------------------------------------
(* The invariants *)

Open(h) == pc[h] # "closed"

\* The children before the position: a listing does not come back to them.
Passed(h, n) == \E i \in 1..Len(children) : i <= position[h] /\ children[i] = n

Listed(n) == n \in ToSet(children)

\* Nothing is noted of a stream that readdir has not been called on.
FreshInv ==
    \A h \in Handles :
        /\ pc[h] \in {"closed", "opened"} =>
              already[h] = {} /\ position[h] = 0 /\ returned[h] = << >>
        /\ ~Open(h) =>
              kept[h] = {} /\ left[h] = {} /\ erased[h] = 0 /\ grown[h] = {}

\* What is real was real at opendir, and is in the stream or was returned by
\* it, or has been created since.
RealInv ==
    \A h \in Handles : Open(h) =>
        /\ real \subseteq already[h] \cup left[h] \cup grown[h]
        /\ kept[h] \subseteq Shown

\* What the stream has still to return was not returned, and once readdir has
\* turned to the children only created names can follow.
LeftInv ==
    \A h \in Handles :
        /\ left[h] \cap ToSet(returned[h]) \subseteq grown[h]
        /\ \/ pc[h] = "children"
           \/ position[h] > 0 /\ pc[h] = "ready" /\ ~rewound[h]
           => left[h] \subseteq grown[h]

\* A returned name that is still kept cannot be returned again: the stream
\* has it in already or is past it.
ReturnedBy(h) ==
    /\ \A n \in ToSet(returned[h]) \cap (kept[h] \ grown[h]) :
          n \in already[h] \/ Passed(h, n)
    /\ Open(h) /\ ~rewound[h] => already[h] \subseteq ToSet(returned[h])

ReturnedInv == \A h \in Handles : ReturnedBy(h)

\* The kept names that the first listing will not return, unless they are
\* listed again behind its position: those it is past, and those created in
\* the real directory and then erased from the children.
Missed(h) ==
    {n \in kept[h] \ ToSet(returned[h]) :
        \/ Passed(h, n)
        \/ ~Listed(n) /\ n \in grown[h]
        \/ pc[h] = "done"}

MissedBy(h) == ~rewound[h] => Cardinality(Missed(h)) <= erased[h]

MissedInv == \A h \in Handles : MissedBy(h)

ChangeStep(n) ==
    InsertChild(n) \/ EraseChild(n) \/ CreateReal(n) \/ RemoveReal(n)

ListInv == TypeOK /\ FreshInv /\ RealInv /\ LeftInv /\ ReturnedInv

-----------------------------------------------------------------------------
(* Types *)

LEMMA TypeInit == Init => TypeOK
  <1> SUFFICES ASSUME Init PROVE TypeOK
    OBVIOUS
  <1>1. children \in Seq(Names) /\ IsInjective(children)
    BY DEF Init, SeqOf
  <1> QED
    BY <1>1 DEF Init, TypeOK

LEMMA TypeHandle ==
    ASSUME TypeOK, NEW h \in Handles, HandleStep(h)
    PROVE  TypeOK'
  <1> USE DEF TypeOK, folder, info, watched
  <1>1. Shown \subseteq Names
    BY DEF Shown, ToSet
  <1>2. CASE OpenStream(h)
    BY <1>1, <1>2 DEF OpenStream
  <1>3. CASE AddOpendir(h)
    BY <1>3 DEF AddOpendir
  <1>4. ASSUME NEW n \in Names, ReadReal(h, n) PROVE TypeOK'
    BY <1>4 DEF ReadReal, Deliver
  <1>5. ASSUME NEW n \in Names, SkipRemoved(h, n) PROVE TypeOK'
    BY <1>5 DEF SkipRemoved
  <1>6. CASE EndOfStream(h)
    BY <1>6 DEF EndOfStream
  <1>7. CASE SkipChild(h)
    BY <1>7 DEF SkipChild, Advance
  <1>8. CASE ReturnChild(h)
    <2>1. NextChild(h) \in Names
      BY <1>8 DEF ReturnChild, Advance, MoreChildren, NextChild
    <2> QED
      BY <1>8, <2>1 DEF ReturnChild, Advance, Deliver
  <1>9. CASE ReturnNull(h)
    BY <1>9 DEF ReturnNull
  <1>10. CASE Closedir(h)
    BY <1>10 DEF Closedir, Closed
  <1>11. CASE Rewinddir(h)
    BY <1>1, <1>11 DEF Rewinddir
  <1> QED
    BY <1>2, <1>3, <1>4, <1>5, <1>6, <1>7, <1>8, <1>9, <1>10, <1>11 DEF HandleStep

LEMMA TypeChange ==
    ASSUME TypeOK, NEW n \in Names, ChangeStep(n)
    PROVE  TypeOK'
  <1> USE DEF TypeOK, folder, info, watched, Change, StillKept
  <1>1. CASE InsertChild(n)
    <2>1. children' \in Seq(Names) /\ IsInjective(children')
      <3>1. children' = Append(children, n) /\ n \notin ToSet(children)
        BY <1>1 DEF InsertChild
      <3> QED
        BY <3>1, AppendElements, AppendNew
    <2> QED
      BY <1>1, <2>1 DEF InsertChild
  <1>2. CASE EraseChild(n)
    <2>1. children' \in Seq(Names) /\ IsInjective(children')
      <3>1. PICK i \in 1..Len(children) : children' = RemoveAt(children, i)
        BY <1>2 DEF EraseChild
      <3> QED
        BY <3>1, RemoveAtElements
    <2>2. erased' \in [Handles -> Nat]
      BY <1>2 DEF EraseChild
    <2>3. kept' \in [Handles -> SUBSET Names]
      BY <1>2 DEF EraseChild
    <2>4. UNCHANGED <<real, left, grown, opendir_mutex, pc, already, position,
                      returned, rewound>>
      BY <1>2 DEF EraseChild
    <2> QED
      BY <2>1, <2>2, <2>3, <2>4
  <1>3. CASE CreateReal(n)
    BY <1>3 DEF CreateReal
  <1>4. CASE RemoveReal(n)
    BY <1>4 DEF RemoveReal
  <1> QED
    BY <1>1, <1>2, <1>3, <1>4 DEF ChangeStep

LEMMA TypeStep == TypeOK /\ [Next]_vars => TypeOK'
  <1> SUFFICES ASSUME TypeOK, [Next]_vars PROVE TypeOK'
    OBVIOUS
  <1>1. CASE Next
    BY <1>1, TypeHandle, TypeChange DEF Next, ChangeStep
  <1>2. CASE UNCHANGED vars
    BY <1>2 DEF vars, folder, info, watched, TypeOK
  <1> QED
    BY <1>1, <1>2

\* In every state the children are a list without repetitions, whoever inserts
\* into it and erases from it, and a stream's position and listings have their
\* types.
THEOREM ListingTypes == Spec => []TypeOK
  BY TypeInit, TypeStep, PTL DEF Spec

-----------------------------------------------------------------------------
(* The steps of a stream *)

LEMMA Delivered ==
    ASSUME TypeOK, NEW h \in Handles, NEW n \in Names, Deliver(h, n)
    PROVE  /\ returned'[h] = Append(returned[h], n)
           /\ ToSet(returned'[h]) = ToSet(returned[h]) \cup {n}
           /\ \A g \in Handles \ {h} : returned'[g] = returned[g]
  <1>1. returned[h] \in Seq(Names)
    BY DEF TypeOK
  <1>2. returned'[h] = Append(returned[h], n)
    BY DEF TypeOK, Deliver
  <1>3. \A g \in Handles \ {h} : returned'[g] = returned[g]
    BY DEF TypeOK, Deliver
  <1> QED
    BY <1>1, <1>2, <1>3, AppendElements

LEMMA EmptyReturned == ToSet(<< >>) = {}
  BY DEF ToSet

\* An injective list of children has each name at one index.
LEMMA ChildAt ==
    ASSUME TypeOK, NEW i \in 1..Len(children), NEW j \in 1..Len(children),
           children[i] = children[j]
    PROVE  i = j
  <1>1. DOMAIN children = 1..Len(children)
    BY DEF TypeOK
  <1> QED
    BY <1>1 DEF TypeOK, IsInjective

LEMMA NextChildType ==
    ASSUME TypeOK, NEW h \in Handles, Advance(h)
    PROVE  /\ position[h] + 1 \in 1..Len(children)
           /\ NextChild(h) = children[position[h] + 1]
           /\ NextChild(h) \in Names
           /\ pc[h] = "children"
           /\ position' = [position EXCEPT ![h] = @ + 1]
           /\ \A n : Passed(h, n) \/ n = NextChild(h)
                 <=> \E i \in 1..Len(children) :
                        i <= position[h] + 1 /\ children[i] = n
  <1>1. /\ position[h] \in Nat /\ position[h] < Len(children)
        /\ children \in Seq(Names)
    BY DEF TypeOK, Advance, MoreChildren
  <1> QED
    BY <1>1 DEF Advance, NextChild, Passed

LEMMA FreshHandle ==
    ASSUME TypeOK, FreshInv, NEW h \in Handles, HandleStep(h)
    PROVE  FreshInv'
  <1> USE DEF TypeOK, FreshInv, Open, folder, info, watched
  <1>1. CASE OpenStream(h)
    BY <1>1 DEF OpenStream
  <1>2. CASE AddOpendir(h)
    BY <1>2 DEF AddOpendir
  <1>3. ASSUME NEW n \in Names, ReadReal(h, n) PROVE FreshInv'
    BY <1>3 DEF ReadReal, Deliver
  <1>4. ASSUME NEW n \in Names, SkipRemoved(h, n) PROVE FreshInv'
    BY <1>4 DEF SkipRemoved
  <1>5. CASE EndOfStream(h)
    BY <1>5 DEF EndOfStream
  <1>6. CASE SkipChild(h)
    BY <1>6 DEF SkipChild, Advance
  <1>7. CASE ReturnChild(h)
    BY <1>7 DEF ReturnChild, Advance, Deliver
  <1>8. CASE ReturnNull(h)
    BY <1>8 DEF ReturnNull
  <1>9. CASE Closedir(h)
    BY <1>9 DEF Closedir, Closed
  <1>10. CASE Rewinddir(h)
    BY <1>10 DEF Rewinddir
  <1> QED
    BY <1>1, <1>2, <1>3, <1>4, <1>5, <1>6, <1>7, <1>8, <1>9, <1>10 DEF HandleStep

LEMMA RealHandle ==
    ASSUME TypeOK, FreshInv, RealInv, NEW h \in Handles, HandleStep(h)
    PROVE  RealInv'
  <1> USE DEF TypeOK, FreshInv, RealInv, Open, Shown, folder, info, watched
  <1>1. CASE OpenStream(h)
    BY <1>1 DEF OpenStream
  <1>2. CASE AddOpendir(h)
    BY <1>2 DEF AddOpendir
  <1>3. ASSUME NEW n \in Names, ReadReal(h, n) PROVE RealInv'
    BY <1>3 DEF ReadReal, Deliver
  <1>4. ASSUME NEW n \in Names, SkipRemoved(h, n) PROVE RealInv'
    BY <1>4 DEF SkipRemoved
  <1>5. CASE EndOfStream(h)
    BY <1>5 DEF EndOfStream
  <1>6. CASE SkipChild(h)
    BY <1>6 DEF SkipChild, Advance
  <1>7. CASE ReturnChild(h)
    BY <1>7 DEF ReturnChild, Advance, Deliver
  <1>8. CASE ReturnNull(h)
    BY <1>8 DEF ReturnNull
  <1>9. CASE Closedir(h)
    BY <1>9 DEF Closedir, Closed
  <1>10. CASE Rewinddir(h)
    BY <1>10 DEF Rewinddir
  <1> QED
    BY <1>1, <1>2, <1>3, <1>4, <1>5, <1>6, <1>7, <1>8, <1>9, <1>10 DEF HandleStep

LEMMA LeftHandle ==
    ASSUME TypeOK, FreshInv, LeftInv, NEW h \in Handles, HandleStep(h)
    PROVE  LeftInv'
  <1> USE EmptyReturned DEF TypeOK, FreshInv, LeftInv, Open, folder, info, watched
  <1>1. CASE OpenStream(h)
    BY <1>1 DEF OpenStream
  <1>2. CASE AddOpendir(h)
    BY <1>2 DEF AddOpendir
  <1>3. ASSUME NEW n \in Names, ReadReal(h, n) PROVE LeftInv'
    BY <1>3, Delivered DEF ReadReal
  <1>4. ASSUME NEW n \in Names, SkipRemoved(h, n) PROVE LeftInv'
    BY <1>4 DEF SkipRemoved
  <1>5. CASE EndOfStream(h)
    BY <1>5 DEF EndOfStream
  <1>6. CASE SkipChild(h)
    <2>1. /\ pc[h] = "children"
          /\ position' = [position EXCEPT ![h] = @ + 1]
      BY <1>6, NextChildType DEF SkipChild
    <2> QED
      BY <1>6, <2>1 DEF SkipChild
  <1>7. CASE ReturnChild(h)
    <2>1. /\ pc[h] = "children"
          /\ position' = [position EXCEPT ![h] = @ + 1]
          /\ NextChild(h) \in Names
      BY <1>7, NextChildType DEF ReturnChild
    <2>2. left[h] \cap {NextChild(h)} \subseteq grown[h]
      BY <2>1
    <2>3. /\ ToSet(returned'[h]) = ToSet(returned[h]) \cup {NextChild(h)}
          /\ \A g \in Handles \ {h} : returned'[g] = returned[g]
      BY <1>7, <2>1, Delivered DEF ReturnChild
    <2> QED
      BY <1>7, <2>1, <2>2, <2>3 DEF ReturnChild
  <1>8. CASE ReturnNull(h)
    BY <1>8 DEF ReturnNull
  <1>9. CASE Closedir(h)
    BY <1>9 DEF Closedir, Closed
  <1>10. CASE Rewinddir(h)
    BY <1>10 DEF Rewinddir
  <1> QED
    BY <1>1, <1>2, <1>3, <1>4, <1>5, <1>6, <1>7, <1>8, <1>9, <1>10 DEF HandleStep

\* A step of one stream leaves the others alone.
LEMMA OtherStreams ==
    ASSUME TypeOK, NEW h \in Handles, HandleStep(h), NEW g \in Handles, g # h
    PROVE  /\ UNCHANGED folder
           /\ UNCHANGED <<pc[g], left[g], already[g], position[g], returned[g],
                          kept[g], erased[g], grown[g], rewound[g]>>
  <1> USE DEF TypeOK, folder, info, watched
  <1>1. CASE OpenStream(h)
    BY <1>1 DEF OpenStream
  <1>2. CASE AddOpendir(h)
    BY <1>2 DEF AddOpendir
  <1>3. CASE \E n \in Names : ReadReal(h, n)
    BY <1>3 DEF ReadReal, Deliver
  <1>4. CASE \E n \in Names : SkipRemoved(h, n)
    BY <1>4 DEF SkipRemoved
  <1>5. CASE EndOfStream(h)
    BY <1>5 DEF EndOfStream
  <1>6. CASE SkipChild(h)
    BY <1>6 DEF SkipChild, Advance
  <1>7. CASE ReturnChild(h)
    BY <1>7 DEF ReturnChild, Advance, Deliver
  <1>8. CASE ReturnNull(h)
    BY <1>8 DEF ReturnNull
  <1>9. CASE Closedir(h)
    BY <1>9 DEF Closedir, Closed
  <1>10. CASE Rewinddir(h)
    BY <1>10 DEF Rewinddir
  <1> QED
    BY <1>1, <1>2, <1>3, <1>4, <1>5, <1>6, <1>7, <1>8, <1>9, <1>10 DEF HandleStep

LEMMA ReturnedHandle ==
    ASSUME TypeOK, FreshInv, LeftInv, ReturnedInv, NEW h \in Handles, HandleStep(h)
    PROVE  ReturnedInv'
  <1>1. ASSUME NEW g \in Handles, g # h PROVE ReturnedBy(g)'
    BY <1>1, OtherStreams DEF ReturnedInv, ReturnedBy, Passed, Open, folder
  <1> SUFFICES ReturnedBy(h)'
    BY <1>1 DEF ReturnedInv
  <1>2. ReturnedBy(h)
    BY DEF ReturnedInv
  <1> USE EmptyReturned, <1>2
      DEF TypeOK, ReturnedBy, Passed, Open, folder, info, watched
  <1>3. CASE OpenStream(h)
    BY <1>3 DEF OpenStream, FreshInv
  <1>4. CASE AddOpendir(h)
    BY <1>4 DEF AddOpendir, FreshInv
  <1>5. ASSUME NEW n \in Names, ReadReal(h, n) PROVE ReturnedBy(h)'
    <2>1. ToSet(returned'[h]) = ToSet(returned[h]) \cup {n}
      BY <1>5, Delivered DEF ReadReal
    <2>2. \A m : Passed(h, m)' <=> Passed(h, m)
      BY <1>5 DEF ReadReal
    <2> HIDE DEF Passed
    <2> QED
      BY <1>5, <2>1, <2>2 DEF ReadReal
  <1>6. ASSUME NEW n \in Names, SkipRemoved(h, n) PROVE ReturnedBy(h)'
    BY <1>6 DEF SkipRemoved
  <1>7. CASE EndOfStream(h)
    BY <1>7 DEF EndOfStream
  <1>8. CASE SkipChild(h)
    <2>1. position'[h] = position[h] + 1
      BY <1>8, NextChildType DEF SkipChild
    <2>2. \A m : Passed(h, m) => Passed(h, m)'
      BY <1>8, <2>1 DEF SkipChild
    <2> HIDE DEF Passed
    <2> QED
      BY <1>8, <2>2 DEF SkipChild, Advance
  <1>9. CASE ReturnChild(h)
    <2>1. PICK m \in Names : m = NextChild(h)
      BY <1>9, NextChildType DEF ReturnChild
    <2>2. /\ position'[h] = position[h] + 1
          /\ position[h] + 1 \in 1..Len(children)
          /\ m = children[position[h] + 1]
          /\ pc[h] = "children"
      BY <1>9, <2>1, NextChildType DEF ReturnChild
    <2>3. ToSet(returned'[h]) = ToSet(returned[h]) \cup {m}
      BY <1>9, <2>1, Delivered DEF ReturnChild
    <2>4. UNCHANGED <<children, already, kept, grown, rewound>>
      BY <1>9 DEF ReturnChild
    <2>5. Passed(h, m)'
      BY <2>2, <2>4
    <2>6. \A n : Passed(h, n) => Passed(h, n)'
      BY <2>2, <2>4
    <2> HIDE DEF Passed
    <2> QED
      BY <2>2, <2>3, <2>4, <2>5, <2>6
  <1>10. CASE ReturnNull(h)
    BY <1>10 DEF ReturnNull
  <1>11. CASE Closedir(h)
    BY <1>11 DEF Closedir, Closed
  <1>12. CASE Rewinddir(h)
    BY <1>12 DEF Rewinddir
  <1> QED
    BY <1>3, <1>4, <1>5, <1>6, <1>7, <1>8, <1>9, <1>10, <1>11, <1>12 DEF HandleStep

-----------------------------------------------------------------------------
(* The steps of other threads and processes *)

LEMMA InsertedChild ==
    ASSUME TypeOK, NEW n \in Names, InsertChild(n)
    PROVE  /\ ToSet(children') = ToSet(children) \cup {n}
           /\ Len(children') = Len(children) + 1
           /\ \A i \in 1..Len(children) : children'[i] = children[i]
           /\ children'[Len(children) + 1] = n
  <1>1. children \in Seq(Names) /\ children' = Append(children, n)
    BY DEF TypeOK, InsertChild
  <1> QED
    BY <1>1, AppendElements

\* Erasing a name moves those behind it one place forward.
LEMMA ErasedChild ==
    ASSUME TypeOK, NEW n \in Names, EraseChild(n)
    PROVE  \E i \in 1..Len(children) :
              /\ children[i] = n
              /\ ToSet(children') = ToSet(children) \ {n}
              /\ Len(children') = Len(children) - 1
              /\ \A k \in 1..Len(children) - 1 :
                    children'[k] = IF k < i THEN children[k] ELSE children[k + 1]
  <1>1. children \in Seq(Names) /\ IsInjective(children)
    BY DEF TypeOK
  <1>2. PICK i \in 1..Len(children) :
              children[i] = n /\ children' = RemoveAt(children, i)
    BY <1>1 DEF EraseChild
  <1> QED
    BY <1>1, <1>2, RemoveAtElements

LEMMA ErasedCount ==
    ASSUME TypeOK, NEW n \in Names, EraseChild(n)
    PROVE  /\ erased' = [h \in Handles |->
                            IF pc[h] = "closed" THEN 0 ELSE erased[h] + 1]
           /\ UNCHANGED <<real, left, grown>>
  BY DEF EraseChild

\* What all of them leave alone.
LEMMA Meanwhile ==
    ASSUME TypeOK, NEW n \in Names, ChangeStep(n)
    PROVE  /\ UNCHANGED <<pc, already, position, returned, rewound>>
           /\ \A h \in Handles : kept'[h] = kept[h] \cap Shown'
  <1> USE DEF Change, StillKept, info
  <1>1. CASE InsertChild(n)
    BY <1>1 DEF InsertChild
  <1>2. CASE EraseChild(n)
    BY <1>2 DEF EraseChild
  <1>3. CASE CreateReal(n)
    BY <1>3 DEF CreateReal
  <1>4. CASE RemoveReal(n)
    BY <1>4 DEF RemoveReal
  <1> QED
    BY <1>1, <1>2, <1>3, <1>4 DEF ChangeStep

LEMMA FreshChange ==
    ASSUME TypeOK, FreshInv, NEW n \in Names, ChangeStep(n)
    PROVE  FreshInv'
  <1> USE Meanwhile DEF TypeOK, FreshInv, Open
  <1>1. CASE InsertChild(n)
    BY <1>1 DEF InsertChild
  <1>2. CASE EraseChild(n)
    BY <1>2, ErasedCount
  <1>3. CASE CreateReal(n)
    BY <1>3 DEF CreateReal
  <1>4. CASE RemoveReal(n)
    BY <1>4 DEF RemoveReal
  <1> QED
    BY <1>1, <1>2, <1>3, <1>4 DEF ChangeStep

LEMMA RealChange ==
    ASSUME TypeOK, RealInv, NEW n \in Names, ChangeStep(n)
    PROVE  RealInv'
  <1> USE Meanwhile DEF TypeOK, RealInv, Open
  <1>1. CASE InsertChild(n)
    BY <1>1 DEF InsertChild
  <1>2. CASE EraseChild(n)
    BY <1>2, ErasedCount
  <1>3. CASE CreateReal(n)
    BY <1>3 DEF CreateReal
  <1>4. CASE RemoveReal(n)
    BY <1>4 DEF RemoveReal
  <1> QED
    BY <1>1, <1>2, <1>3, <1>4 DEF ChangeStep

LEMMA LeftChange ==
    ASSUME TypeOK, FreshInv, LeftInv, NEW n \in Names, ChangeStep(n)
    PROVE  LeftInv'
  <1> USE Meanwhile DEF TypeOK, FreshInv, LeftInv, Open
  <1>1. CASE InsertChild(n)
    BY <1>1 DEF InsertChild
  <1>2. CASE EraseChild(n)
    BY <1>2, ErasedCount
  <1>3. CASE CreateReal(n)
    BY <1>3 DEF CreateReal
  <1>4. CASE RemoveReal(n)
    BY <1>4 DEF RemoveReal
  <1> QED
    BY <1>1, <1>2, <1>3, <1>4 DEF ChangeStep

\* What was passed stays passed, unless it is erased.
LEMMA InsertedPassed ==
    ASSUME TypeOK, NEW n \in Names, InsertChild(n), NEW h \in Handles,
           NEW m, Passed(h, m)
    PROVE  Passed(h, m)'
  <1>1. PICK i \in 1..Len(children) : i <= position[h] /\ children[i] = m
    BY DEF Passed
  <1>2. Len(children) \in Nat
    BY DEF TypeOK
  <1>3. /\ i \in 1..Len(children')
        /\ children'[i] = m
    BY <1>1, <1>2, InsertedChild
  <1>4. position' = position
    BY Meanwhile DEF ChangeStep
  <1> QED
    BY <1>1, <1>3, <1>4 DEF Passed

LEMMA ErasedPassed ==
    ASSUME TypeOK, NEW n \in Names, EraseChild(n), NEW h \in Handles,
           NEW m, m # n, Passed(h, m)
    PROVE  Passed(h, m)'
  <1>1. PICK k \in 1..Len(children) : k <= position[h] /\ children[k] = m
    BY DEF Passed
  <1>2. Len(children) \in Nat /\ position[h] \in Nat
    BY DEF TypeOK
  <1>3. PICK i \in 1..Len(children) :
              /\ children[i] = n
              /\ Len(children') = Len(children) - 1
              /\ \A j \in 1..Len(children) - 1 :
                    children'[j] = IF j < i THEN children[j] ELSE children[j + 1]
    BY ErasedChild
  <1>4. position' = position
    BY Meanwhile DEF ChangeStep
  <1>5. CASE k < i
    <2>1. k \in 1..Len(children') /\ children'[k] = m
      BY <1>1, <1>2, <1>3, <1>5
    <2> QED
      BY <2>1, <1>1, <1>4 DEF Passed
  <1>6. CASE k > i
    <2>1. /\ k - 1 \in 1..Len(children')
          /\ children'[k - 1] = m
          /\ k - 1 <= position[h]
      BY <1>1, <1>2, <1>3, <1>6
    <2> QED
      BY <2>1, <1>4 DEF Passed
  <1> QED
    BY <1>1, <1>3, <1>5, <1>6

LEMMA ReturnedChange ==
    ASSUME ListInv, NEW n \in Names, ChangeStep(n)
    PROVE  ReturnedInv'
  <1> SUFFICES ASSUME NEW h \in Handles PROVE ReturnedBy(h)'
    BY DEF ReturnedInv
  <1>1. TypeOK /\ ReturnedBy(h)
    BY DEF ListInv, ReturnedInv
  <1> USE <1>1 DEF TypeOK, ReturnedBy, Open
  <1>2. CASE InsertChild(n)
    <2>1. \A m : Passed(h, m) => Passed(h, m)'
      BY <1>2, InsertedPassed
    <2> QED
      BY <1>2, <2>1, Meanwhile DEF InsertChild
  <1>3. CASE EraseChild(n)
    <2>1. \A m : m # n /\ Passed(h, m) => Passed(h, m)'
      BY <1>3, ErasedPassed
    <2>2. ASSUME n \in ToSet(returned[h]), n \in kept'[h] \ grown[h]
          PROVE  n \in already[h]
      <3>1. n \in real
        BY <1>3, <2>2, Meanwhile, ErasedChild, ErasedCount DEF Shown
      <3>2. Open(h)
        BY <2>2, Meanwhile DEF FreshInv, ListInv
      <3> QED
        BY <2>2, <3>1, <3>2 DEF RealInv, LeftInv, ListInv
    <2> QED
      BY <1>3, <2>1, <2>2, Meanwhile, ErasedCount
  <1>4. CASE CreateReal(n)
    <2>1. \A m : Passed(h, m) => Passed(h, m)'
      BY <1>4, Meanwhile DEF CreateReal, Passed
    <2> QED
      BY <1>4, <2>1, Meanwhile DEF CreateReal, FreshInv, ListInv
  <1>5. CASE RemoveReal(n)
    <2>1. \A m : Passed(h, m) => Passed(h, m)'
      BY <1>5, Meanwhile DEF RemoveReal, Passed
    <2> QED
      BY <1>5, <2>1, Meanwhile DEF RemoveReal
  <1> QED
    BY <1>2, <1>3, <1>4, <1>5 DEF ChangeStep

LEMMA ListInit == Init => ListInv
  <1> SUFFICES ASSUME Init PROVE ListInv
    OBVIOUS
  <1>1. TypeOK
    BY TypeInit
  <1>2. FreshInv /\ RealInv /\ LeftInv
    BY DEF Init, FreshInv, RealInv, LeftInv, Open
  <1>3. ReturnedInv
    BY EmptyReturned DEF Init, ReturnedInv, ReturnedBy, Open
  <1> QED
    BY <1>1, <1>2, <1>3 DEF ListInv

LEMMA StepCases ==
    ASSUME [Next]_vars
    PROVE  \/ \E h \in Handles : HandleStep(h)
           \/ \E n \in Names : ChangeStep(n)
           \/ UNCHANGED vars
  BY DEF Next, ChangeStep

LEMMA ListStep == ListInv /\ [Next]_vars => ListInv'
  <1> SUFFICES ASSUME ListInv, [Next]_vars PROVE ListInv'
    OBVIOUS
  <1> USE DEF ListInv
  <1>1. ASSUME NEW h \in Handles, HandleStep(h) PROVE ListInv'
    BY <1>1, TypeHandle, FreshHandle, RealHandle, LeftHandle, ReturnedHandle
  <1>2. ASSUME NEW n \in Names, ChangeStep(n) PROVE ListInv'
    BY <1>2, TypeChange, FreshChange, RealChange, LeftChange, ReturnedChange
  <1>3. CASE UNCHANGED vars
    BY <1>3 DEF vars, folder, info, watched, TypeOK, FreshInv, RealInv, LeftInv,
                ReturnedInv, ReturnedBy, Passed, Open, Shown
  <1> QED
    BY <1>1, <1>2, <1>3, StepCases

LEMMA ListInvariant == Spec => []ListInv
  BY ListInit, ListStep, PTL DEF Spec

-----------------------------------------------------------------------------
(* No kept name twice *)

OnceBy(h) ==
    \A i, j \in 1..Len(returned[h]) :
        /\ returned[h][i] = returned[h][j]
        /\ returned[h][i] \in kept[h] \ grown[h]
        => i = j

LEMMA DeliveredOnce ==
    ASSUME TypeOK, NEW h \in Handles, OnceBy(h), NEW n \in Names, Deliver(h, n),
           UNCHANGED <<kept, grown>>,
           n \in ToSet(returned[h]) => n \notin kept[h] \ grown[h]
    PROVE  OnceBy(h)'
  <1> DEFINE r == returned[h]
             s == returned'[h]
  <1>1. r \in Seq(Names) /\ s = Append(r, n)
    BY Delivered DEF TypeOK
  <1>2. /\ Len(s) = Len(r) + 1
        /\ \A i \in 1..Len(r) : s[i] = r[i]
        /\ s[Len(r) + 1] = n
    BY <1>1
  <1>3. \A i \in 1..Len(r) : r[i] \in ToSet(r)
    BY <1>1 DEF ToSet
  <1> SUFFICES ASSUME NEW i \in 1..Len(s), NEW j \in 1..Len(s), s[i] = s[j],
                      s[i] \in kept[h] \ grown[h]
               PROVE  i = j
    BY DEF OnceBy
  <1>4. Len(r) \in Nat
    BY <1>1
  <1>5. /\ i \in 1..Len(r) \/ i = Len(r) + 1
        /\ j \in 1..Len(r) \/ j = Len(r) + 1
    BY <1>2, <1>4
  <1>6. CASE i \in 1..Len(r) /\ j \in 1..Len(r)
    BY <1>2, <1>6 DEF OnceBy
  <1> QED
    BY <1>2, <1>3, <1>5, <1>6

LEMMA OnceHandle ==
    ASSUME ListInv, KeptOnce, NEW h \in Handles, HandleStep(h)
    PROVE  KeptOnce'
  <1>1. TypeOK /\ OnceBy(h) /\ ReturnedBy(h)
    BY DEF ListInv, KeptOnce, OnceBy, ReturnedInv
  <1>2. ASSUME NEW g \in Handles, g # h PROVE OnceBy(g)'
    BY <1>1, <1>2, OtherStreams DEF KeptOnce, OnceBy
  <1> SUFFICES OnceBy(h)'
    BY <1>2 DEF KeptOnce, OnceBy
  <1>3. ASSUME returned'[h] = << >> PROVE OnceBy(h)'
    BY <1>3 DEF OnceBy
  <1>4. ASSUME UNCHANGED <<returned[h], kept[h], grown[h]>> PROVE OnceBy(h)'
    BY <1>1, <1>4 DEF OnceBy
  <1>5. CASE OpenStream(h)
    BY <1>1, <1>3, <1>5 DEF OpenStream, ListInv, FreshInv
  <1>6. CASE AddOpendir(h)
    BY <1>4, <1>6 DEF AddOpendir, watched
  <1>7. ASSUME NEW n \in Names, ReadReal(h, n) PROVE OnceBy(h)'
    <2>1. n \in ToSet(returned[h]) => n \in grown[h]
      BY <1>7 DEF ReadReal, ListInv, LeftInv
    <2> QED
      BY <1>1, <1>7, <2>1, DeliveredOnce DEF ReadReal
  <1>8. ASSUME NEW n \in Names, SkipRemoved(h, n) PROVE OnceBy(h)'
    BY <1>4, <1>8 DEF SkipRemoved, watched
  <1>9. CASE EndOfStream(h)
    BY <1>4, <1>9 DEF EndOfStream, watched
  <1>10. CASE SkipChild(h)
    BY <1>4, <1>10 DEF SkipChild, watched
  <1>11. CASE ReturnChild(h)
    <2>1. PICK n \in Names : n = NextChild(h)
      BY <1>1, <1>11, NextChildType DEF ReturnChild
    <2>2. /\ position[h] + 1 \in 1..Len(children)
          /\ n = children[position[h] + 1]
      BY <1>1, <1>11, <2>1, NextChildType DEF ReturnChild
    <2>3. n \notin already[h] /\ Deliver(h, n) /\ UNCHANGED <<kept, grown>>
      BY <1>11, <2>1 DEF ReturnChild
    <2>4. ~Passed(h, n)
      <3> SUFFICES ASSUME NEW i \in 1..Len(children), i <= position[h],
                          children[i] = n
                   PROVE  FALSE
        BY DEF Passed
      <3>1. i = position[h] + 1
        BY <1>1, <2>2, ChildAt
      <3> QED
        BY <1>1, <3>1 DEF TypeOK
    <2>5. n \in ToSet(returned[h]) => n \notin kept[h] \ grown[h]
      BY <1>1, <2>3, <2>4 DEF ReturnedBy
    <2> QED
      BY <1>1, <2>3, <2>5, DeliveredOnce
  <1>12. CASE ReturnNull(h)
    BY <1>4, <1>12 DEF ReturnNull, watched
  <1>13. CASE Closedir(h)
    BY <1>1, <1>3, <1>13 DEF Closedir, Closed, TypeOK
  <1>14. CASE Rewinddir(h)
    BY <1>1, <1>3, <1>14 DEF Rewinddir, TypeOK
  <1> QED
    BY <1>5, <1>6, <1>7, <1>8, <1>9, <1>10, <1>11, <1>12, <1>13, <1>14
       DEF HandleStep

\* A stream's grown names stay grown while it is open.
LEMMA GrownChange ==
    ASSUME TypeOK, NEW n \in Names, ChangeStep(n), NEW h \in Handles, Open(h)
    PROVE  grown[h] \subseteq grown'[h]
  <1>1. CASE InsertChild(n)
    BY <1>1 DEF InsertChild
  <1>2. CASE EraseChild(n)
    BY <1>2, ErasedCount
  <1>3. CASE CreateReal(n)
    BY <1>3 DEF CreateReal, Open
  <1>4. CASE RemoveReal(n)
    BY <1>4 DEF RemoveReal
  <1> QED
    BY <1>1, <1>2, <1>3, <1>4 DEF ChangeStep

LEMMA OnceChange ==
    ASSUME ListInv, KeptOnce, NEW n \in Names, ChangeStep(n)
    PROVE  KeptOnce'
  <1>1. TypeOK /\ returned' = returned
    BY Meanwhile DEF ListInv
  <1> SUFFICES ASSUME NEW h \in Handles PROVE OnceBy(h)'
    BY DEF KeptOnce, OnceBy
  <1>2. OnceBy(h)
    BY DEF KeptOnce, OnceBy
  <1>3. CASE Open(h)
    <2>1. kept'[h] \subseteq kept[h] /\ grown[h] \subseteq grown'[h]
      BY <1>1, <1>3, Meanwhile, GrownChange
    <2> QED
      BY <1>1, <1>2, <2>1 DEF OnceBy
  <1>4. CASE ~Open(h)
    BY <1>1, <1>4 DEF OnceBy, ListInv, FreshInv, Open
  <1> QED
    BY <1>3, <1>4

\* No listing returns a name twice that the folder has had since opendir: what
\* readdir remembers of the real directory, and its position in the children,
\* cover whatever it returned, although other threads move the children.
THEOREM KeptOnceTheorem == Spec => []KeptOnce
  <1>1. Init => KeptOnce
    BY DEF Init, KeptOnce
  <1>2. ListInv /\ KeptOnce /\ [Next]_vars => KeptOnce'
    <2> SUFFICES ASSUME ListInv, KeptOnce, [Next]_vars PROVE KeptOnce'
      OBVIOUS
    <2>1. CASE UNCHANGED vars
      BY <2>1 DEF vars, watched, KeptOnce
    <2> QED
      BY <2>1, OnceHandle, OnceChange, StepCases
  <1> QED
    BY <1>1, <1>2, ListInvariant, PTL DEF Spec

-----------------------------------------------------------------------------
(* Names a listing misses *)

LEMMA MissedFinite ==
    ASSUME TypeOK, NEW h \in Handles
    PROVE  IsFiniteSet(Missed(h)) /\ Cardinality(Missed(h)) \in Nat
  <1>1. Missed(h) \subseteq Names
    BY DEF TypeOK, Missed
  <1> QED
    BY <1>1, FS_Subset, FS_CardinalityType, ListingConstants

LEMMA EmptyMissed ==
    ASSUME NEW h \in Handles, TypeOK, Missed(h) = {}
    PROVE  MissedBy(h)
  BY FS_EmptySet DEF MissedBy, TypeOK

LEMMA MissedShrinks ==
    ASSUME TypeOK, TypeOK', NEW h \in Handles, MissedBy(h),
           ~rewound'[h] => ~rewound[h],
           ~rewound'[h] => Missed(h)' \subseteq Missed(h),
           erased[h] <= erased'[h]
    PROVE  MissedBy(h)'
  <1> SUFFICES ASSUME ~rewound'[h]
               PROVE  Cardinality(Missed(h)') <= erased'[h]
    BY DEF MissedBy
  <1>1. Cardinality(Missed(h)) <= erased[h]
    BY DEF MissedBy
  <1> DEFINE A == Missed(h)'
             B == Missed(h)
  <1>2. IsFiniteSet(B) /\ Cardinality(B) \in Nat
    BY MissedFinite
  <1>3. A \subseteq B
    OBVIOUS
  <1> HIDE DEF A, B
  <1>4. Cardinality(A) <= Cardinality(B) /\ Cardinality(A) \in Nat
    BY <1>2, <1>3, FS_Subset, FS_CardinalityType
  <1>5. erased[h] \in Nat /\ erased'[h] \in Nat
    BY DEF TypeOK
  <1> QED
    BY <1>1, <1>2, <1>4, <1>5 DEF A, B

\* readdir returns NULL only when it is past every kept name it did not return.
LEMMA NullMissed ==
    ASSUME ListInv, NEW h \in Handles, ReturnNull(h), ~rewound[h]
    PROVE  Missed(h)' \subseteq Missed(h)
  <1>1. TypeOK
    BY DEF ListInv
  <1>2. UNCHANGED <<children, real, kept, returned, position, grown>>
    BY DEF ReturnNull, folder, info, watched
  <1>3. /\ pc[h] = "children" /\ Open(h)
        /\ position[h] \in Nat /\ Len(children) \in Nat
        /\ Len(children) <= position[h]
    BY <1>1 DEF ReturnNull, MoreChildren, Open, TypeOK
  <1> SUFFICES ASSUME NEW n \in kept[h] \ ToSet(returned[h])
               PROVE  Passed(h, n) \/ (~Listed(n) /\ n \in grown[h])
    BY <1>2 DEF Missed
  <1>4. CASE Listed(n)
    <2>1. PICK i \in 1..Len(children) : children[i] = n
      BY <1>1, <1>4 DEF Listed, ToSet, TypeOK
    <2>2. i <= position[h]
      BY <1>3, <2>1
    <2> QED
      BY <2>1, <2>2 DEF Passed
  <1>5. CASE ~Listed(n)
    <2>1. n \in real
      BY <1>3, <1>5 DEF ListInv, RealInv, Shown, Listed
    <2>2. n \in already[h] \cup left[h] \cup grown[h]
      BY <1>3, <2>1 DEF ListInv, RealInv
    <2>3. n \notin already[h]
      BY <1>3 DEF ListInv, ReturnedInv, ReturnedBy
    <2>4. n \in left[h] => n \in grown[h]
      BY <1>3 DEF ListInv, LeftInv
    <2> QED
      BY <1>5, <2>2, <2>3, <2>4
  <1> QED
    BY <1>4, <1>5

LEMMA MissedHandle ==
    ASSUME ListInv, ListInv', MissedInv, NEW h \in Handles, HandleStep(h)
    PROVE  MissedInv'
  <1>1. TypeOK /\ TypeOK' /\ MissedBy(h) /\ FreshInv
    BY DEF ListInv, MissedInv
  <1>2. ASSUME NEW g \in Handles, g # h PROVE MissedBy(g)'
    <2>1. /\ Missed(g)' = Missed(g)
          /\ rewound'[g] = rewound[g] /\ erased'[g] = erased[g]
      BY <1>1, <1>2, OtherStreams DEF Missed, Passed, Listed, folder
    <2> QED
      BY <2>1 DEF MissedInv, MissedBy
  <1> SUFFICES MissedBy(h)'
    BY <1>2 DEF MissedInv
  <1>3. ASSUME UNCHANGED <<erased, rewound>>,
               ~rewound[h] => Missed(h)' \subseteq Missed(h)
        PROVE  MissedBy(h)'
    BY <1>1, <1>3, MissedShrinks DEF TypeOK
  <1>4. ASSUME Missed(h)' = {} PROVE MissedBy(h)'
    BY <1>1, <1>4, FS_EmptySet DEF MissedBy, TypeOK
  <1> USE DEF folder, info, watched
  <1>5. CASE OpenStream(h)
    <2>1. /\ position'[h] = 0 /\ grown'[h] = {} /\ pc'[h] = "opened"
      BY <1>1, <1>5 DEF OpenStream, FreshInv, Open, TypeOK
    <2>2. Missed(h)' = {}
      BY <2>1 DEF Missed, Passed
    <2> QED
      BY <1>4, <2>2
  <1>6. CASE AddOpendir(h)
    <2>1. /\ position' = position /\ pc[h] # "done" /\ pc'[h] # "done"
          /\ UNCHANGED <<children, returned, kept, grown>>
      BY <1>1, <1>6 DEF AddOpendir, FreshInv, TypeOK
    <2>2. Missed(h)' = Missed(h)
      BY <2>1 DEF Missed, Passed, Listed
    <2> QED
      BY <1>3, <1>6, <2>2 DEF AddOpendir
  <1>7. ASSUME NEW n \in Names, ReadReal(h, n) PROVE MissedBy(h)'
    <2>1. ToSet(returned'[h]) = ToSet(returned[h]) \cup {n}
      BY <1>1, <1>7, Delivered DEF ReadReal
    <2>2. UNCHANGED <<children, position, pc, kept, grown, erased, rewound>>
      BY <1>7 DEF ReadReal
    <2>3. Missed(h)' \subseteq Missed(h)
      BY <2>1, <2>2 DEF Missed, Passed, Listed
    <2> QED
      BY <1>3, <2>2, <2>3
  <1>8. ASSUME NEW n \in Names, SkipRemoved(h, n) PROVE MissedBy(h)'
    <2>1. Missed(h)' = Missed(h)
      BY <1>8 DEF SkipRemoved, Missed, Passed, Listed
    <2> QED
      BY <1>3, <1>8, <2>1 DEF SkipRemoved
  <1>9. CASE EndOfStream(h)
    <2>1. /\ pc[h] # "done" /\ pc'[h] # "done"
          /\ UNCHANGED <<children, position, returned, kept, grown>>
      BY <1>1, <1>9 DEF EndOfStream, TypeOK
    <2>2. Missed(h)' = Missed(h)
      BY <2>1 DEF Missed, Passed, Listed
    <2> QED
      BY <1>3, <1>9, <2>2 DEF EndOfStream
  <1>10. CASE SkipChild(h)
    <2>1. PICK m : m = NextChild(h)
      OBVIOUS
    <2>2. /\ position[h] + 1 \in 1..Len(children)
          /\ m = children[position[h] + 1]
          /\ position'[h] = position[h] + 1
          /\ position[h] \in Nat
      BY <1>1, <1>10, <2>1, NextChildType DEF SkipChild, TypeOK
    <2>3. m \in already[h] /\ pc[h] = "children"
      BY <1>10, <2>1 DEF SkipChild, Advance
    <2>4. UNCHANGED <<children, pc, kept, returned, grown, erased, rewound>>
      BY <1>10 DEF SkipChild
    <2>5. \A n : Passed(h, n)' => Passed(h, n) \/ n = m
      BY <2>2, <2>4 DEF Passed
    <2>6. ~rewound[h] => m \in ToSet(returned[h])
      BY <2>3 DEF ListInv, ReturnedInv, ReturnedBy, Open
    <2>7. ~rewound[h] => Missed(h)' \subseteq Missed(h)
      BY <2>4, <2>5, <2>6 DEF Missed, Listed
    <2> QED
      BY <1>3, <2>4, <2>7
  <1>11. CASE ReturnChild(h)
    <2>1. PICK m \in Names : m = NextChild(h)
      BY <1>1, <1>11, NextChildType DEF ReturnChild
    <2>2. /\ position[h] + 1 \in 1..Len(children)
          /\ m = children[position[h] + 1]
          /\ position'[h] = position[h] + 1
          /\ position[h] \in Nat
      BY <1>1, <1>11, <2>1, NextChildType DEF ReturnChild, TypeOK
    <2>3. ToSet(returned'[h]) = ToSet(returned[h]) \cup {m}
      BY <1>1, <1>11, <2>1, Delivered DEF ReturnChild
    <2>4. /\ UNCHANGED <<children, kept, grown, erased, rewound>>
          /\ pc[h] # "done" /\ pc'[h] # "done"
      BY <1>1, <1>11 DEF ReturnChild, Advance, TypeOK
    <2>5. \A n : Passed(h, n)' => Passed(h, n) \/ n = m
      BY <2>2, <2>4 DEF Passed
    <2>6. Missed(h)' \subseteq Missed(h)
      BY <2>3, <2>4, <2>5 DEF Missed, Listed
    <2> QED
      BY <1>3, <2>4, <2>6
  <1>12. CASE ReturnNull(h)
    <2>1. UNCHANGED <<erased, rewound>>
      BY <1>12 DEF ReturnNull
    <2> QED
      BY <1>3, <1>12, <2>1, NullMissed
  <1>13. CASE Closedir(h)
    <2>1. Missed(h)' = {}
      BY <1>1, <1>13 DEF Closedir, Closed, Missed, TypeOK
    <2> QED
      BY <1>4, <2>1
  <1>14. CASE Rewinddir(h)
    <2>1. rewound'[h]
      BY <1>1, <1>14 DEF Rewinddir, TypeOK
    <2> QED
      BY <2>1 DEF MissedBy
  <1> QED
    BY <1>5, <1>6, <1>7, <1>8, <1>9, <1>10, <1>11, <1>12, <1>13, <1>14
       DEF HandleStep

\* The name erased, if it was not reached yet, or the one that takes the last
\* place the stream has passed.
LEMMA ErasedMissed ==
    ASSUME ListInv, NEW n \in Names, EraseChild(n), NEW h \in Handles
    PROVE  \E x : Missed(h)' \subseteq Missed(h) \cup {x}
  <1>1. TypeOK
    BY DEF ListInv
  <1>2. PICK i \in 1..Len(children) :
              /\ children[i] = n
              /\ ToSet(children') = ToSet(children) \ {n}
              /\ Len(children') = Len(children) - 1
              /\ \A k \in 1..Len(children) - 1 :
                    children'[k] = IF k < i THEN children[k] ELSE children[k + 1]
    BY <1>1, ErasedChild
  <1>3. /\ UNCHANGED <<pc, position, returned, grown>>
        /\ kept'[h] \subseteq kept[h]
    BY <1>1, Meanwhile, ErasedCount DEF ChangeStep
  <1>4. position[h] \in Nat /\ Len(children) \in Nat
    BY <1>1 DEF TypeOK
  <1>5. \A m : m # n /\ Listed(m) => Listed(m)'
    BY <1>2 DEF Listed
  <1>6. CASE i <= position[h]
    <2> DEFINE x == children[position[h] + 1]
    <2>1. ASSUME NEW m, Passed(h, m)' PROVE Passed(h, m) \/ m = x
      <3>1. PICK k \in 1..Len(children) - 1 : k <= position[h] /\ children'[k] = m
        BY <1>2, <1>3, <2>1 DEF Passed
      <3>2. CASE k < i
        BY <1>2, <1>4, <3>1, <3>2 DEF Passed
      <3>3. CASE ~(k < i) /\ k < position[h]
        <4>1. children[k + 1] = m /\ k + 1 <= position[h]
              /\ k + 1 \in 1..Len(children)
          BY <1>2, <1>4, <3>1, <3>3
        <4> QED
          BY <4>1 DEF Passed
      <3>4. CASE ~(k < i) /\ k = position[h]
        BY <1>2, <3>1, <3>4
      <3> QED
        BY <1>4, <3>1, <3>2, <3>3, <3>4
    <2>2. Passed(h, n)
      BY <1>2, <1>6 DEF Passed
    <2>3. \A m \in Missed(h)' : m \in Missed(h) \cup {x}
      BY <1>3, <1>5, <2>1, <2>2 DEF Missed
    <2> QED
      BY <2>3
  <1>7. CASE ~(i <= position[h])
    <2>1. \A m : Passed(h, m)' => Passed(h, m)
      BY <1>2, <1>3, <1>4, <1>7 DEF Passed
    <2>2. \A m \in Missed(h)' : m \in Missed(h) \cup {n}
      BY <1>3, <1>5, <2>1 DEF Missed
    <2> QED
      BY <2>2
  <1> QED
    BY <1>6, <1>7

LEMMA MissedChange ==
    ASSUME ListInv, ListInv', MissedInv, NEW n \in Names, ChangeStep(n)
    PROVE  MissedInv'
  <1> SUFFICES ASSUME NEW h \in Handles PROVE MissedBy(h)'
    BY DEF MissedInv
  <1>1. TypeOK /\ TypeOK' /\ MissedBy(h) /\ FreshInv /\ FreshInv'
    BY DEF ListInv, MissedInv
  <1>2. /\ UNCHANGED <<pc, already, position, returned, rewound>>
        /\ kept'[h] = kept[h] \cap Shown'
    BY <1>1, Meanwhile
  <1>3. CASE ~Open(h)
    <2>1. Missed(h)' = {}
      BY <1>1, <1>2, <1>3 DEF FreshInv, Open, Missed
    <2> QED
      BY <1>1, <2>1, FS_EmptySet DEF MissedBy, TypeOK
  <1>4. ASSUME Missed(h)' \subseteq Missed(h), erased[h] <= erased'[h]
        PROVE  MissedBy(h)'
    BY <1>1, <1>2, <1>4, MissedShrinks
  <1>5. erased[h] <= erased[h]
    BY <1>1 DEF TypeOK
  <1>6. Open(h) => kept[h] \subseteq Shown /\ real \subseteq already[h] \cup left[h] \cup grown[h]
    BY DEF ListInv, RealInv
  <1>7. CASE Open(h) /\ InsertChild(n)
    <2>1. UNCHANGED <<real, grown, erased>>
      BY <1>7 DEF InsertChild
    <2>2. Len(children) \in Nat /\ position[h] \in Nat
      BY <1>1 DEF TypeOK
    <2>3. ASSUME ~rewound[h], n \in kept[h], n \notin ToSet(returned[h]),
                 Passed(h, n)', ~Listed(n), pc[h] # "done"
          PROVE  n \in grown[h]
      <3>1. n \in real
        BY <1>6, <1>7, <2>3 DEF Shown, Listed
      <3>2. position[h] > 0
        BY <1>2, <2>2, <2>3, <1>1, <1>7, InsertedChild DEF Passed
      <3>3. pc[h] \in {"ready", "children"}
        BY <1>1, <1>7, <2>3, <3>2 DEF FreshInv, Open, TypeOK
      <3>4. n \notin already[h]
        BY <1>7, <2>3 DEF ListInv, ReturnedInv, ReturnedBy
      <3> QED
        BY <1>6, <1>7, <2>3, <3>1, <3>2, <3>3, <3>4 DEF ListInv, LeftInv
    <2>4. \A m : m # n /\ Passed(h, m)' => Passed(h, m)
      BY <1>1, <1>2, <1>7, <2>2, InsertedChild DEF Passed
    <2>5. ~Listed(n) /\ \A m : Listed(m) => Listed(m)'
      BY <1>1, <1>7, InsertedChild DEF Listed, InsertChild
    <2>6. ~rewound[h] => Missed(h)' \subseteq Missed(h)
      <3> SUFFICES ASSUME ~rewound[h], NEW m \in Missed(h)' PROVE m \in Missed(h)
        OBVIOUS
      <3>1. Listed(n)'
        BY <1>1, <1>7, InsertedChild DEF Listed
      <3>2. CASE m = n
        BY <1>2, <2>1, <2>3, <2>5, <3>1, <3>2 DEF Missed
      <3>3. CASE m # n
        BY <1>2, <2>1, <2>4, <2>5, <3>3 DEF Missed
      <3> QED
        BY <3>2, <3>3
    <2> QED
      BY <1>1, <1>2, <1>5, <2>1, <2>6, MissedShrinks
  <1>8. CASE Open(h) /\ EraseChild(n)
    <2>1. PICK x : Missed(h)' \subseteq Missed(h) \cup {x}
      BY <1>8, ErasedMissed
    <2>2. erased'[h] = erased[h] + 1 /\ erased[h] \in Nat
      BY <1>1, <1>8, ErasedCount DEF Open, TypeOK
    <2> DEFINE A == Missed(h)'
               B == Missed(h)
    <2>3. IsFiniteSet(B) /\ Cardinality(B) \in Nat
      BY <1>1, MissedFinite
    <2>4. A \subseteq B \cup {x}
      BY <2>1
    <2>5. rewound'[h] = rewound[h]
      BY <1>2
    <2>6. ~rewound[h] => Cardinality(B) <= erased[h]
      BY <1>1 DEF MissedBy
    <2> HIDE DEF A, B
    <2>7. /\ IsFiniteSet(B \cup {x})
          /\ Cardinality(B \cup {x}) \in Nat
          /\ Cardinality(B \cup {x}) <= Cardinality(B) + 1
      <3>1. /\ IsFiniteSet(B \cup {x})
            /\ Cardinality(B \cup {x}) = IF x \in B THEN Cardinality(B)
                                                  ELSE Cardinality(B) + 1
        BY <2>3, FS_AddElement
      <3>2. Cardinality(B \cup {x}) \in {Cardinality(B), Cardinality(B) + 1}
        BY <3>1
      <3> QED
        BY <2>3, <3>1, <3>2
    <2>8. Cardinality(A) <= Cardinality(B) + 1
      BY <2>3, <2>4, <2>7, FS_Subset, FS_CardinalityType
    <2>9. Cardinality(A) \in Nat
      BY <2>4, <2>7, FS_Subset, FS_CardinalityType
    <2> QED
      BY <2>2, <2>3, <2>5, <2>6, <2>8, <2>9 DEF MissedBy, A
  <1>9. CASE Open(h) /\ CreateReal(n)
    <2>1. /\ UNCHANGED <<children, erased>>
          /\ grown'[h] = grown[h] \cup {n}
          /\ n \notin real
      BY <1>9 DEF CreateReal, Open
    <2>2. n \in kept[h] => Listed(n)
      BY <1>6, <1>9, <2>1 DEF Shown, Listed
    <2>3. Missed(h)' \subseteq Missed(h)
      BY <1>2, <2>1, <2>2 DEF Missed, Passed, Listed
    <2> QED
      BY <1>4, <1>5, <2>1, <2>3
  <1>10. CASE Open(h) /\ RemoveReal(n)
    <2>1. UNCHANGED <<children, grown, erased>>
      BY <1>10 DEF RemoveReal
    <2>2. Missed(h)' \subseteq Missed(h)
      BY <1>2, <2>1 DEF Missed, Passed, Listed
    <2> QED
      BY <1>4, <1>5, <2>1, <2>2
  <1> QED
    BY <1>3, <1>7, <1>8, <1>9, <1>10 DEF ChangeStep

LEMMA MissedInit == Init => MissedInv
  <1> SUFFICES ASSUME Init, NEW h \in Handles PROVE MissedBy(h)
    BY DEF MissedInv
  <1>1. Missed(h) = {}
    BY DEF Init, Missed
  <1> QED
    BY <1>1, TypeInit, EmptyMissed

\* A first listing returns every name the folder has had since opendir, except
\* that each erasure of a child meanwhile hides at most one of them, in any
\* number of streams and however names are listed, created and removed.
THEOREM LostPerErasureTheorem == Spec => []LostPerErasure
  <1>1. ListInv /\ ListInv' /\ MissedInv /\ [Next]_vars => MissedInv'
    <2> SUFFICES ASSUME ListInv, ListInv', MissedInv, [Next]_vars
                 PROVE  MissedInv'
      OBVIOUS
    <2>1. CASE UNCHANGED vars
      BY <2>1 DEF vars, folder, info, watched, MissedInv, MissedBy, Missed, Passed,
                  Listed
    <2> QED
      BY <2>1, MissedHandle, MissedChange, StepCases
  <1>2. MissedInv => LostPerErasure
    <2> SUFFICES ASSUME MissedInv, NEW h \in Handles, pc[h] = "done", ~rewound[h]
                 PROVE  Cardinality(kept[h] \ ToSet(returned[h])) <= erased[h]
      BY DEF LostPerErasure
    <2>1. Missed(h) = kept[h] \ ToSet(returned[h])
      BY DEF Missed
    <2> QED
      BY <2>1 DEF MissedInv, MissedBy
  <1> QED
    BY <1>1, <1>2, MissedInit, ListInvariant, PTL DEF Spec
=============================================================================
