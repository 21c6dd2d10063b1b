----------------------------- MODULE PagesProofs ----------------------------
(***************************************************************************)
(* The pages of list and search, for every tree, every change of it and    *)
(* every size of the pages: what stays is on exactly one page.             *)
(***************************************************************************)
EXTENDS Pages, FiniteSetTheorems, WellFoundedInduction, TLAPS

-----------------------------------------------------------------------------
(***************************************************************************)
(* Orders.                                                                 *)
(***************************************************************************)

(* R orders L.                                                             *)
Orders(R, L) ==
  /\ \A x \in L : <<x, x>> \notin R
  /\ \A x, y, z \in L : <<x, y>> \in R /\ <<y, z>> \in R => <<x, z>> \in R
  /\ \A x, y \in L : x = y \/ <<x, y>> \in R \/ <<y, x>> \in R

(* A finite set has a least element under a strict total order: of the     *)
(* sets of what comes before an element, one has no other within it.       *)
LEMMA LeastOf ==
  ASSUME NEW L, IsFiniteSet(L), L # {}, NEW R, Orders(R, L)
  PROVE  \E x \in L : \A y \in L : x = y \/ <<x, y>> \in R
<1> DEFINE Before(x) == {y \in L : <<y, x>> \in R}
           U == {Before(x) : x \in L}
<1>1. U \subseteq FiniteSubsetsOf(L) /\ U # {}
  <2>1. ASSUME NEW x \in L
        PROVE  Before(x) \in FiniteSubsetsOf(L)
    <3>1. Before(x) \in SUBSET L
      OBVIOUS
    <3> HIDE DEF Before
    <3>2. IsFiniteSet(Before(x))
      BY <3>1, FS_Subset
    <3> QED
      BY <3>1, <3>2 DEF FiniteSubsetsOf
  <2> HIDE DEF Before
  <2> QED
    BY <2>1
<1>2. \E u \in U : \A v \in U : ~ <<v, u>> \in StrictSubsetOrdering(L)
  <2> HIDE DEF U
  <2> QED
    BY <1>1, FS_StrictSubsetOrderingWellFounded, WFMin
<1>3. PICK x \in L : \A y \in L : <<Before(y), Before(x)>> \notin StrictSubsetOrdering(L)
  <2> HIDE DEF Before
  <2>1. PICK u \in U : \A v \in U : ~ <<v, u>> \in StrictSubsetOrdering(L)
    BY <1>2
  <2>2. PICK x \in L : u = Before(x)
    OBVIOUS
  <2>3. \A y \in L : Before(y) \in U
    OBVIOUS
  <2> HIDE DEF U
  <2> QED
    BY <2>1, <2>2, <2>3
<1>4. ASSUME NEW y \in L, <<y, x>> \in R
      PROVE  FALSE
  <2>1. y \in Before(x) /\ y \notin Before(y)
    BY <1>4 DEF Orders
  <2>2. Before(y) \subseteq Before(x) /\ Before(x) \in SUBSET L
    BY <1>4 DEF Orders
  <2> HIDE DEF Before
  <2>3. <<Before(y), Before(x)>> \in StrictSubsetOrdering(L)
    BY <2>1, <2>2 DEF StrictSubsetOrdering
  <2> QED
    BY <1>3, <2>3
<1> QED
  BY <1>4 DEF Orders

(* So has a finite set of naturals, and any set of them, below one.        *)
LEMMA LeastOfFinite ==
  ASSUME NEW L \in SUBSET Nat, IsFiniteSet(L), L # {}
  PROVE  \E x \in L : \A y \in L : x <= y
<1> DEFINE R == {p \in L \X L : p[1] < p[2]}
<1>1. ASSUME NEW x \in L, NEW y \in L
      PROVE  <<x, y>> \in R <=> x < y
  <2>1. <<x, y>>[1] = x /\ <<x, y>>[2] = y /\ <<x, y>> \in L \X L
    OBVIOUS
  <2> QED
    BY <2>1
<1> HIDE DEF R
<1>2. Orders(R, L)
  <2>1. ASSUME NEW x \in L, NEW y \in L
        PROVE  x = y \/ <<x, y>> \in R \/ <<y, x>> \in R
    BY <1>1
  <2>2. ASSUME NEW x \in L, NEW y \in L, NEW z \in L, <<x, y>> \in R, <<y, z>> \in R
        PROVE  <<x, z>> \in R
    BY <1>1, <2>2
  <2>3. \A x \in L : <<x, x>> \notin R
    BY <1>1
  <2> QED
    BY <2>1, <2>2, <2>3 DEF Orders
<1>3. PICK x \in L : \A y \in L : x = y \/ <<x, y>> \in R
  BY <1>2, LeastOf
<1>4. ASSUME NEW y \in L
      PROVE  x <= y
  <2>1. x \in Nat /\ y \in Nat /\ (x = y \/ x < y)
    BY <1>1, <1>3
  <2> QED
    BY <2>1
<1> QED
  BY <1>4

LEMMA LeastNatural ==
  ASSUME NEW S \in SUBSET Nat, S # {}
  PROVE  \E n \in S : \A m \in S : n <= m
<1>1. PICK b \in S : b \in Nat
  OBVIOUS
<1> DEFINE L == {n \in S : n <= b}
<1>2. b \in L
  BY <1>1
<1>3. ASSUME NEW n \in S
      PROVE  n \in L \/ b < n
  BY <1>1
<1>4. \A n \in L : n \in S /\ n \in Nat /\ n <= b
  OBVIOUS
<1> HIDE DEF L
<1>5. IsFiniteSet(L)
  <2>1. L \in SUBSET Nat
    BY <1>4
  <2> QED
    BY <1>1, <1>4, <2>1, FS_BoundedSetOfNaturals
<1>6. PICK n \in L : \A m \in L : n <= m
  <2>1. L \in SUBSET Nat /\ L # {}
    BY <1>2, <1>4
  <2> QED
    BY <1>5, <2>1, LeastOfFinite
<1>7. ASSUME NEW m \in S
      PROVE  n <= m
  <2>1. n \in Nat /\ m \in Nat /\ n <= b
    BY <1>4
  <2> QED
    BY <1>1, <1>3, <1>6, <2>1
<1> QED
  BY <1>4, <1>7

(* The first difference of two tuples.                                     *)
Diverge(p, q, n) ==
  /\ n \in 0 .. Len(p) /\ n < Len(q) /\ \A k \in 1 .. n : p[k] = q[k]
  /\ n < Len(p) => p[n + 1] < q[n + 1]

LEMMA NamesOf ==
  ASSUME NEW p \in Seq(Nat)
  PROVE  \A k \in 1 .. Len(p) : p[k] \in Nat
OBVIOUS

LEMMA LessIs ==
  ASSUME NEW p, NEW q
  PROVE  Less(p, q) <=> \E n : Diverge(p, q, n)
BY DEF Less, Diverge

LEMMA LessIsIrreflexive ==
  ASSUME NEW p \in Seq(Nat)
  PROVE  ~ Less(p, p)
<1> SUFFICES ASSUME NEW n, Diverge(p, p, n) PROVE FALSE
  BY LessIs
<1>1. n \in Nat /\ n < Len(p) /\ p[n + 1] < p[n + 1]
  BY DEF Diverge
<1>2. n + 1 \in 1 .. Len(p)
  BY <1>1
<1>3. p[n + 1] \in Nat
  BY <1>2
<1> QED
  BY <1>1, <1>3

LEMMA LessIsTransitive ==
  ASSUME NEW p \in Seq(Nat), NEW q \in Seq(Nat), NEW r \in Seq(Nat), Less(p, q), Less(q, r)
  PROVE  Less(p, r)
<1>1. PICK n : Diverge(p, q, n)
  BY LessIs
<1>2. PICK m : Diverge(q, r, m)
  BY LessIs
<1>3. /\ n \in Nat /\ m \in Nat /\ Len(p) \in Nat /\ Len(q) \in Nat /\ Len(r) \in Nat
      /\ n <= Len(p) /\ n < Len(q) /\ m <= Len(q) /\ m < Len(r)
  BY <1>1, <1>2 DEF Diverge
<1>4. /\ \A k \in 1 .. n : p[k] = q[k]
      /\ \A k \in 1 .. m : q[k] = r[k]
      /\ n < Len(p) => p[n + 1] < q[n + 1]
      /\ m < Len(q) => q[m + 1] < r[m + 1]
  BY <1>1, <1>2 DEF Diverge
<1>5. CASE n < m
  <2>1. \A k \in 1 .. n : k \in 1 .. m
    BY <1>3, <1>5
  <2>2. \A k \in 1 .. n : p[k] = r[k]
    BY <1>4, <2>1
  <2>3. n + 1 \in 1 .. m
    BY <1>3, <1>5
  <2>4. q[n + 1] = r[n + 1]
    BY <1>4, <2>3
  <2>5. Diverge(p, r, n)
    BY <1>3, <1>4, <1>5, <2>2, <2>4 DEF Diverge
  <2> QED
    BY <2>5, LessIs
<1>6. CASE m < n
  <2>1. \A k \in 1 .. m : k \in 1 .. n
    BY <1>3, <1>6
  <2>2. \A k \in 1 .. m : p[k] = r[k]
    BY <1>4, <2>1
  <2>3. m + 1 \in 1 .. n /\ m < Len(q)
    BY <1>3, <1>6
  <2>4. p[m + 1] = q[m + 1] /\ q[m + 1] < r[m + 1]
    BY <1>4, <2>3
  <2>5. m <= Len(p)
    BY <1>3, <1>6
  <2>6. Diverge(p, r, m)
    BY <1>3, <2>2, <2>4, <2>5 DEF Diverge
  <2> QED
    BY <2>6, LessIs
<1>7. CASE m = n
  <2>1. \A k \in 1 .. n : p[k] = r[k]
    BY <1>4, <1>7
  <2>2. ASSUME n < Len(p)
        PROVE  p[n + 1] < r[n + 1]
    <3>1. p[n + 1] < q[n + 1] /\ q[n + 1] < r[n + 1]
      BY <1>3, <1>4, <1>7, <2>2
    <3>2. n + 1 \in 1 .. Len(p) /\ n + 1 \in 1 .. Len(q) /\ n + 1 \in 1 .. Len(r)
      BY <1>3, <1>7, <2>2
    <3>3. p[n + 1] \in Nat /\ q[n + 1] \in Nat /\ r[n + 1] \in Nat
      BY <3>2, NamesOf, Zenon
    <3> QED
      BY <3>1, <3>3
  <2>3. Diverge(p, r, n)
    BY <1>3, <1>7, <2>1, <2>2 DEF Diverge
  <2> QED
    BY <2>3, LessIs
<1> QED
  BY <1>3, <1>5, <1>6, <1>7

LEMMA LessIsTotal ==
  ASSUME NEW p \in Seq(Nat), NEW q \in Seq(Nat), p # q
  PROVE  Less(p, q) \/ Less(q, p)
<1> DEFINE D == {k \in Nat : k \in 1 .. Len(p) /\ k \in 1 .. Len(q) /\ p[k] # q[k]}
<1>1. Len(p) \in Nat /\ Len(q) \in Nat
  OBVIOUS
<1>2. CASE D # {}
  <2>1. PICK k \in D : \A j \in D : k <= j
    BY <1>2, LeastNatural
  <2>2. k \in 1 .. Len(p) /\ k \in 1 .. Len(q) /\ p[k] # q[k] /\ k - 1 \in Nat
    OBVIOUS
  <2>3. \A j \in 1 .. k - 1 : p[j] = q[j]
    <3> SUFFICES ASSUME NEW j \in 1 .. k - 1, p[j] # q[j] PROVE FALSE
      OBVIOUS
    <3>1. j \in Nat /\ j \in 1 .. Len(p) /\ j \in 1 .. Len(q) /\ j < k
      BY <1>1, <2>2
    <3>2. j \in D
      BY <3>1
    <3> HIDE DEF D
    <3> QED
      BY <2>1, <2>2, <3>1, <3>2
  <2>4. p[k] \in Nat /\ q[k] \in Nat
    BY <2>2
  <2>5. (k - 1) + 1 = k
    BY <2>2
  <2>6. CASE p[k] < q[k]
    <3>1. Diverge(p, q, k - 1)
      BY <1>1, <2>2, <2>3, <2>5, <2>6 DEF Diverge
    <3> QED
      BY <3>1, LessIs
  <2>7. CASE q[k] < p[k]
    <3>1. Diverge(q, p, k - 1)
      BY <1>1, <2>2, <2>3, <2>5, <2>7 DEF Diverge
    <3> QED
      BY <3>1, LessIs
  <2> QED
    BY <2>2, <2>4, <2>6, <2>7
<1>3. CASE D = {}
  <2>1. \A k \in Nat : k \in 1 .. Len(p) /\ k \in 1 .. Len(q) => p[k] = q[k]
    BY <1>3
  <2> HIDE DEF D
  <2>2. CASE Len(p) < Len(q)
    <3>1. \A k \in 1 .. Len(p) : p[k] = q[k]
      BY <1>1, <2>1, <2>2
    <3>2. Diverge(p, q, Len(p))
      BY <1>1, <2>2, <3>1 DEF Diverge
    <3> QED
      BY <3>2, LessIs
  <2>3. CASE Len(q) < Len(p)
    <3>1. \A k \in 1 .. Len(q) : q[k] = p[k]
      BY <1>1, <2>1, <2>3
    <3>2. Diverge(q, p, Len(q))
      BY <1>1, <2>3, <3>1 DEF Diverge
    <3> QED
      BY <3>2, LessIs
  <2>4. CASE Len(p) = Len(q)
    <3>1. \A k \in 1 .. Len(p) : p[k] = q[k]
      BY <1>1, <2>1, <2>4
    <3>2. p = [k \in 1 .. Len(p) |-> p[k]] /\ q = [k \in 1 .. Len(p) |-> q[k]]
      BY <2>4
    <3> QED
      BY <3>1, <3>2
  <2> QED
    BY <1>1, <2>2, <2>3, <2>4
<1> QED
  BY <1>2, <1>3

(* Records are in a strict order, in which any two stand.                  *)
LEMMA PrecedesIsIrreflexive ==
  ASSUME NEW r \in Record
  PROVE  ~ Precedes(r, r)
<1>1. r.parts \in Seq(Nat) /\ r.number \in Nat
  BY DEF Record
<1> QED
  BY <1>1, LessIsIrreflexive DEF Precedes

LEMMA PrecedesIsTransitive ==
  ASSUME NEW r \in Record, NEW s \in Record, NEW t \in Record, Precedes(r, s), Precedes(s, t)
  PROVE  Precedes(r, t)
<1>1. /\ r.parts \in Seq(Nat) /\ s.parts \in Seq(Nat) /\ t.parts \in Seq(Nat)
      /\ r.number \in Nat /\ s.number \in Nat /\ t.number \in Nat
  BY DEF Record
<1>2. CASE Less(r.parts, s.parts) /\ Less(s.parts, t.parts)
  BY <1>1, <1>2, LessIsTransitive DEF Precedes
<1>3. CASE r.parts = s.parts /\ r.number < s.number /\ Less(s.parts, t.parts)
  BY <1>3 DEF Precedes
<1>4. CASE Less(r.parts, s.parts) /\ s.parts = t.parts
  BY <1>4 DEF Precedes
<1>5. CASE r.parts = s.parts /\ s.parts = t.parts /\ r.number < s.number /\ s.number < t.number
  BY <1>1, <1>5 DEF Precedes
<1> QED
  BY <1>2, <1>3, <1>4, <1>5 DEF Precedes

LEMMA PrecedesIsTotal ==
  ASSUME NEW r \in Record, NEW s \in Record, r # s
  PROVE  Precedes(r, s) \/ Precedes(s, r)
<1>1. /\ r.parts \in Seq(Nat) /\ s.parts \in Seq(Nat) /\ r.number \in Nat /\ s.number \in Nat
      /\ r = [parts |-> r.parts, number |-> r.number]
      /\ s = [parts |-> s.parts, number |-> s.number]
  BY DEF Record
<1>2. CASE r.parts # s.parts
  BY <1>1, <1>2, LessIsTotal DEF Precedes
<1>3. CASE r.parts = s.parts
  <2>1. r.number # s.number
    BY <1>1, <1>3
  <2> QED
    BY <1>1, <1>3, <2>1 DEF Precedes
<1> QED
  BY <1>2, <1>3

(* A path that is not before another is under nothing that is done.        *)
LEMMA NothingAboveIsDone ==
  ASSUME NEW path \in Seq(Nat), NEW after \in Seq(Nat), ~ Less(path, after),
         NEW i \in 1 .. Len(path)
  PROVE  ~ Done(SubSeq(path, 1, i), after)
<1> DEFINE q == SubSeq(path, 1, i)
<1>1. /\ q \in Seq(Nat) /\ Len(q) = i /\ \A k \in 1 .. i : q[k] = path[k]
      /\ Len(path) \in Nat /\ Len(after) \in Nat /\ i \in Nat /\ i <= Len(path)
  OBVIOUS
<1> HIDE DEF q
<1> SUFFICES ASSUME Less(q, after) PROVE IsPrefix(q, after)
  BY DEF Done, q
<1>2. PICK n : Diverge(q, after, n)
  BY LessIs
<1>3. n \in Nat /\ n <= i /\ n < Len(after) /\ (\A k \in 1 .. n : q[k] = after[k])
      /\ (n < i => q[n + 1] < after[n + 1])
  BY <1>1, <1>2 DEF Diverge
<1>4. ~ n < i
  <2> SUFFICES ASSUME n < i PROVE Less(path, after)
    OBVIOUS
  <2>1. \A k \in 1 .. n : k \in 1 .. i
    BY <1>1, <1>3
  <2>2. \A k \in 1 .. n : path[k] = after[k]
    BY <1>1, <1>3, <2>1
  <2>3. n + 1 \in 1 .. i
    BY <1>1, <1>3
  <2>4. path[n + 1] < after[n + 1]
    BY <1>1, <1>3, <2>3
  <2>5. Diverge(path, after, n)
    BY <1>1, <1>3, <2>2, <2>4 DEF Diverge
  <2> QED
    BY <2>5, LessIs
<1>5. n = i
  BY <1>1, <1>3, <1>4
<1>6. SubSeq(q, 1, i) = [k \in 1 .. i |-> q[k]]
  BY <1>1
<1>7. SubSeq(after, 1, i) = [k \in 1 .. i |-> after[k]]
  BY <1>1, <1>3, <1>5
<1>8. SubSeq(q, 1, i) = SubSeq(after, 1, i)
  BY <1>3, <1>5, <1>6, <1>7
<1> QED
  BY <1>1, <1>3, <1>5, <1>8 DEF IsPrefix

-----------------------------------------------------------------------------
(***************************************************************************)
(* What a call returns after a cursor is what it returns from the start,   *)
(* but for what does not come after the cursor.                            *)
(***************************************************************************)
Typed ==
  /\ tree \in [Paths -> Entry \cup {None}]
  /\ call \in {"list", "glob", "lines"}

(* The records a call gives.                                               *)
IsOfCall(r) ==
  /\ r \in Record
  /\ call = "list" => Len(r.parts) = 1
  /\ call # "lines" => r.number = 0

LEMMA PathsAre ==
  /\ \A path \in Paths : path \in Seq(Nat) /\ path # <<>> /\ path # None /\ Head(path) \in Nat
  /\ \A n \in Lines : n \in Nat /\ n > 0
  /\ None \notin Seq(Nat) /\ None \notin Record
<1>1. \A path \in Paths : path \in Seq(Nat) /\ path # <<>>
  BY PagesAssumption
<1>2. None \notin Seq(Nat) /\ None \notin Record
  BY PagesAssumption
<1>3. \A n \in Lines : n \in Nat /\ n > 0
  BY PagesAssumption
<1>4. \A path \in Seq(Nat) : path # <<>> => Head(path) \in Nat
  OBVIOUS
<1> QED
  BY <1>1, <1>2, <1>3, <1>4

LEMMA FilesAre ==
  ASSUME Typed, NEW after
  PROVE  \A path \in Walked(after) :
           /\ path \in Paths /\ tree[path].lines \subseteq Lines
<1> SUFFICES ASSUME NEW path \in Walked(after)
             PROVE  path \in Paths /\ tree[path].lines \subseteq Lines
  OBVIOUS
<1>1. path \in Paths /\ tree[path] # None
  BY DEF Walked, There
<1>2. tree[path] \in Entry
  BY <1>1 DEF Typed
<1> QED
  BY <1>1, <1>2 DEF Entry

LEMMA WalkedAfter ==
  ASSUME Typed, NEW after \in Seq(Nat)
  PROVE  Walked(after) = {path \in Walked(None) : ~ Less(path, after)}
<1>1. after # None
  BY PathsAre
<1>2. \A path \in There : path \in Seq(Nat)
  BY PathsAre DEF There
<1>3. \A path \in There : ~ Less(path, after)
         => \A i \in DOMAIN path : ~ Done(SubSeq(path, 1, i), after)
  <2> SUFFICES ASSUME NEW path \in There, ~ Less(path, after), NEW i \in DOMAIN path
               PROVE  ~ Done(SubSeq(path, 1, i), after)
    OBVIOUS
  <2>1. path \in Seq(Nat) /\ i \in 1 .. Len(path)
    BY <1>2
  <2> QED
    BY <2>1, NothingAboveIsDone
<1>4. \A q : ~ Done(q, None)
  BY DEF Done
<1> QED
  BY <1>1, <1>3, <1>4 DEF Walked

(* A result, one by one.                                                   *)
ResultOfList(r, from) ==
  \E n \in Names : (from # None => n > Head(from.parts)) /\ r = [parts |-> <<n>>, number |-> 0]

After(from) == IF from = None THEN None ELSE from.parts

ResultOfGlob(r, from) ==
  \E path \in (Walked(After(from)) \cap Matched) \ {After(from)} :
    r = [parts |-> path, number |-> 0]

ResultOfLines(r, from) ==
  \E path \in Walked(After(from)) \cap Matched :
  \E n \in LinesOf(path, IF path = After(from) THEN from.number ELSE 0) :
    r = [parts |-> path, number |-> n]

LEMMA ResultsAre ==
  ASSUME NEW from, NEW r
  PROVE  /\ call = "list" => (r \in Results(from) <=> ResultOfList(r, from))
         /\ call = "glob" => (r \in Results(from) <=> ResultOfGlob(r, from))
         /\ call = "lines" => (r \in Results(from) <=> ResultOfLines(r, from))
<1>1. CASE call = "list"
  BY <1>1 DEF Results, Listed, ResultOfList
<1>2. CASE call = "glob"
  BY <1>2 DEF Results, Searched, ResultOfGlob, After
<1>3. CASE call = "lines"
  BY <1>3 DEF Results, Searched, ResultOfLines, After
<1> QED
  BY <1>1, <1>2, <1>3

LEMMA ResultsType ==
  ASSUME Typed, NEW r \in Results(None)
  PROVE  IsOfCall(r)
<1>1. CASE call = "list"
  <2>1. PICK n \in Names : r = [parts |-> <<n>>, number |-> 0]
    BY <1>1, ResultsAre DEF ResultOfList
  <2>2. n \in Nat
    BY PathsAre DEF Names, There
  <2> QED
    BY <1>1, <2>1, <2>2 DEF IsOfCall, Record
<1>2. CASE call = "glob"
  <2>1. PICK path \in Walked(None) : r = [parts |-> path, number |-> 0]
    BY <1>2, ResultsAre DEF ResultOfGlob, After
  <2>2. path \in Seq(Nat) \ {<<>>}
    BY FilesAre, PathsAre
  <2> QED
    BY <1>2, <2>1, <2>2 DEF IsOfCall, Record
<1>3. CASE call = "lines"
  <2>1. PICK path \in Walked(None) : \E n \in tree[path].lines : r = [parts |-> path, number |-> n]
    BY <1>3, ResultsAre DEF ResultOfLines, After, LinesOf
  <2>2. PICK n \in tree[path].lines : r = [parts |-> path, number |-> n]
    BY <2>1
  <2>3. path \in Seq(Nat) \ {<<>>} /\ n \in Nat
    BY FilesAre, PathsAre
  <2> QED
    BY <1>3, <2>2, <2>3 DEF IsOfCall, Record
<1> QED
  BY <1>1, <1>2, <1>3 DEF Typed

LEMMA LessOfNames ==
  ASSUME NEW p \in Seq(Nat), Len(p) = 1, NEW n \in Nat
  PROVE  Less(p, <<n>>) <=> Head(p) < n
<1>1. Head(p) = p[1] /\ Len(<<n>>) = 1 /\ <<n>>[1] = n /\ p[1] \in Nat
  <2>1. p[1] \in Nat
    <3>1. 1 \in 1 .. Len(p)
      OBVIOUS
    <3> QED
      BY <3>1, NamesOf, Zenon
  <2>2. Head(p) = p[1]
    OBVIOUS
  <2>3. Len(<<n>>) = 1 /\ <<n>>[1] = n
    OBVIOUS
  <2> QED
    BY <2>1, <2>2, <2>3
<1>2. ASSUME Less(p, <<n>>)
      PROVE  p[1] < n
  <2>1. PICK k : Diverge(p, <<n>>, k)
    BY <1>2, LessIs
  <2>2. k = 0
    BY <1>1, <2>1 DEF Diverge
  <2> QED
    BY <1>1, <2>1, <2>2 DEF Diverge
<1>3. ASSUME p[1] < n
      PROVE  Less(p, <<n>>)
  <2>1. Diverge(p, <<n>>, 0)
    BY <1>1, <1>3 DEF Diverge
  <2> QED
    BY <2>1, LessIs
<1> QED
  BY <1>1, <1>2, <1>3

LEMMA LessIsNotMore ==
  ASSUME NEW p \in Seq(Nat), NEW q \in Seq(Nat)
  PROVE  Less(p, q) <=> ~ Less(q, p) /\ p # q
<1>1. Less(p, q) /\ Less(q, p) => Less(p, p)
  BY LessIsTransitive
<1>2. p = q => ~ Less(p, q)
  BY LessIsIrreflexive
<1> QED
  BY <1>1, <1>2, LessIsIrreflexive, LessIsTotal

LEMMA ResultsAfter ==
  ASSUME Typed, NEW c, IsOfCall(c), NEW r
  PROVE  r \in Results(c) <=> r \in Results(None) /\ Precedes(c, r)
<1>1. /\ c # None /\ c.parts \in Seq(Nat) /\ c.number \in Nat
      /\ After(c) = c.parts /\ After(None) = None
  BY PathsAre DEF IsOfCall, Record, After
<1>2. CASE call = "list"
  <2>1. Len(c.parts) = 1 /\ c.number = 0
    BY <1>2 DEF IsOfCall
  <2>2. ASSUME NEW n \in Names
        PROVE  Precedes(c, [parts |-> <<n>>, number |-> 0]) <=> n > Head(c.parts)
    <3>1. n \in Nat /\ Head(c.parts) \in Nat
      <4>1. n \in Nat
        BY PathsAre DEF Names, There
      <4> QED
        BY <1>1, <2>1, <4>1
    <3>2. Less(c.parts, <<n>>) <=> Head(c.parts) < n
      BY <1>1, <2>1, <3>1, LessOfNames
    <3> QED
      BY <2>1, <3>1, <3>2 DEF Precedes
  <2>3. r \in Results(c) <=> ResultOfList(r, c)
    BY <1>2, ResultsAre
  <2>4. r \in Results(None) <=> ResultOfList(r, None)
    BY <1>2, ResultsAre
  <2> QED
    BY <1>1, <2>2, <2>3, <2>4 DEF ResultOfList
<1>3. ASSUME NEW path \in Walked(None)
      PROVE  /\ path \in Seq(Nat) /\ path \in Paths /\ path # None
             /\ path \in Walked(c.parts) <=> ~ Less(path, c.parts)
             /\ Less(c.parts, path) <=> ~ Less(path, c.parts) /\ path # c.parts
  <2>1. path \in Seq(Nat) /\ path \in Paths /\ path # None
    BY FilesAre, PathsAre
  <2>2. path \in Walked(c.parts) <=> ~ Less(path, c.parts)
    BY <1>1, WalkedAfter
  <2>3. Less(c.parts, path) <=> ~ Less(path, c.parts) /\ path # c.parts
    BY <1>1, <2>1, LessIsNotMore
  <2> QED
    BY <2>1, <2>2, <2>3
<1>4. Walked(c.parts) \subseteq Walked(None)
  BY <1>1, WalkedAfter
<1>5. CASE call = "glob"
  <2>1. c.number = 0
    BY <1>5 DEF IsOfCall
  <2>2. ASSUME NEW path \in Walked(None)
        PROVE  Precedes(c, [parts |-> path, number |-> 0]) <=> Less(c.parts, path)
    BY <2>1 DEF Precedes
  <2>3. r \in Results(c) <=> ResultOfGlob(r, c)
    BY <1>5, ResultsAre
  <2>4. r \in Results(None) <=> ResultOfGlob(r, None)
    BY <1>5, ResultsAre
  <2>5. ResultOfGlob(r, c) <=> \E path \in Walked(None) \cap Matched :
            Less(c.parts, path) /\ r = [parts |-> path, number |-> 0]
    BY <1>1, <1>3, <1>4 DEF ResultOfGlob
  <2>6. ResultOfGlob(r, None) <=> \E path \in Walked(None) \cap Matched :
            r = [parts |-> path, number |-> 0]
    BY <1>1, <1>3 DEF ResultOfGlob
  <2> QED
    BY <2>2, <2>3, <2>4, <2>5, <2>6
<1>6. CASE call = "lines"
  <2>1. r \in Results(c) <=> ResultOfLines(r, c)
    BY <1>6, ResultsAre
  <2>2. r \in Results(None) <=> ResultOfLines(r, None)
    BY <1>6, ResultsAre
  <2>3. ASSUME NEW path \in Walked(None), NEW n \in tree[path].lines
        PROVE  /\ n \in Nat /\ n > 0
               /\ Precedes(c, [parts |-> path, number |-> n])
                    <=> path \in Walked(c.parts)
                        /\ n > (IF path = c.parts THEN c.number ELSE 0)
    <3>1. n \in Nat /\ n > 0
      BY FilesAre, PathsAre
    <3>2. Precedes(c, [parts |-> path, number |-> n])
            <=> (Less(c.parts, path) \/ (c.parts = path /\ c.number < n))
      BY DEF Precedes
    <3>3. path = c.parts => path \in Walked(c.parts)
      BY <1>1, <1>3, LessIsIrreflexive
    <3>4. CASE path = c.parts
      <4>1. ~ Less(c.parts, path)
        BY <1>1, <3>4, LessIsIrreflexive
      <4> QED
        BY <1>1, <3>1, <3>2, <3>3, <3>4, <4>1
    <3>5. CASE path # c.parts
      <4>1. Precedes(c, [parts |-> path, number |-> n]) <=> Less(c.parts, path)
        BY <3>2, <3>5
      <4>2. Less(c.parts, path) <=> path \in Walked(c.parts)
        BY <1>3, <3>5
      <4>3. n > (IF path = c.parts THEN c.number ELSE 0)
        BY <3>1, <3>5
      <4> QED
        BY <3>1, <4>1, <4>2, <4>3
    <3> QED
      BY <3>1, <3>4, <3>5
  <2>4. ResultOfLines(r, c) <=>
          \E path \in Walked(c.parts) \cap Matched : \E n \in tree[path].lines :
             n > (IF path = c.parts THEN c.number ELSE 0) /\ r = [parts |-> path, number |-> n]
    BY <1>1 DEF ResultOfLines, LinesOf
  <2>5. ResultOfLines(r, None) <=>
          \E path \in Walked(None) \cap Matched : \E n \in tree[path].lines :
             r = [parts |-> path, number |-> n]
    BY <1>1, <1>3, <2>3 DEF ResultOfLines, LinesOf
  <2> QED
    BY <1>4, <2>1, <2>2, <2>3, <2>4, <2>5
<1> QED
  BY <1>2, <1>5, <1>6 DEF Typed

-----------------------------------------------------------------------------
(***************************************************************************)
(* Of a finite set of records there is a page of any size.                 *)
(***************************************************************************)
LEMMA RecordsAreFinite ==
  ASSUME Typed
  PROVE  IsFiniteSet(Results(None)) /\ Results(None) \subseteq Record
<1> DEFINE top == [path \in Paths |-> <<Head(path)>>]
           Tops == {top[path] : path \in Paths}
           A == (Paths \cup Tops) \X (Lines \cup {0})
           rec == [a \in A |-> [parts |-> a[1], number |-> a[2]]]
           B == {rec[a] : a \in A}
<1>1. IsFiniteSet(Tops)
  <2>1. top \in Surjection(Paths, Tops)
    BY DEF Surjection
  <2>2. IsFiniteSet(Paths)
    BY PagesAssumption
  <2> HIDE DEF top, Tops
  <2> QED
    BY <2>1, <2>2, FS_Surjection
<1>2. \A path \in Paths : <<Head(path)>> \in Tops
  OBVIOUS
<1> HIDE DEF Tops
<1>3. IsFiniteSet(A)
  <2>1. IsFiniteSet(Paths) /\ IsFiniteSet(Lines)
    BY PagesAssumption
  <2>2. IsFiniteSet(Paths \cup Tops)
    BY <1>1, <2>1, FS_Union
  <2>3. IsFiniteSet(Lines \cup {0})
    BY <2>1, FS_AddElement
  <2> QED
    BY <2>2, <2>3, FS_Product
<1>4. IsFiniteSet(B)
  <2>1. rec \in Surjection(A, B)
    BY DEF Surjection
  <2> HIDE DEF A, B, rec
  <2> QED
    BY <1>3, <2>1, FS_Surjection
<1>5. ASSUME NEW p \in Paths \cup Tops, NEW n \in Lines \cup {0}
      PROVE  [parts |-> p, number |-> n] \in B
  <2>1. <<p, n>> \in A /\ <<p, n>>[1] = p /\ <<p, n>>[2] = n
    OBVIOUS
  <2>2. rec[<<p, n>>] = [parts |-> p, number |-> n]
    BY <2>1
  <2> HIDE DEF rec, A
  <2> QED
    BY <2>1, <2>2
<1> HIDE DEF A, B, rec, top
<1>6. ASSUME NEW r \in Results(None)
      PROVE  r \in B
  <2>1. CASE call = "list"
    <3>1. PICK n \in Names : r = [parts |-> <<n>>, number |-> 0]
      BY <2>1, ResultsAre DEF ResultOfList
    <3>2. <<n>> \in Tops
      BY <1>2 DEF Names, There
    <3> QED
      BY <1>5, <3>1, <3>2
  <2>2. CASE call = "glob"
    <3>1. PICK path \in Walked(None) : r = [parts |-> path, number |-> 0]
      BY <2>2, ResultsAre DEF ResultOfGlob, After
    <3> QED
      BY <1>5, <3>1, FilesAre
  <2>3. CASE call = "lines"
    <3>1. PICK path \in Walked(None) :
            \E n \in tree[path].lines : r = [parts |-> path, number |-> n]
      BY <2>3, ResultsAre DEF ResultOfLines, After, LinesOf
    <3>2. PICK n \in tree[path].lines : r = [parts |-> path, number |-> n]
      BY <3>1
    <3>3. path \in Paths /\ n \in Lines
      BY FilesAre
    <3> QED
      BY <1>5, <3>2, <3>3
  <2> QED
    BY <2>1, <2>2, <2>3 DEF Typed
<1>7. Results(None) \in SUBSET B
  BY <1>6
<1>8. Results(None) \subseteq Record
  BY ResultsType DEF IsOfCall
<1> QED
  BY <1>4, <1>7, <1>8, FS_Subset

(* A page of the first k elements of L, in the order R.                    *)
IsPage(page, k, L, R) ==
  /\ page \in [1 .. k -> L]
  /\ \A i, j \in 1 .. k : i < j => <<page[i], page[j]>> \in R
  /\ \A x \in L : \/ \E i \in 1 .. k : page[i] = x
                  \/ \A i \in 1 .. k : <<page[i], x>> \in R

LEMMA PageGrows ==
  ASSUME NEW L, IsFiniteSet(L), NEW R, Orders(R, L), NEW k \in Nat, k < Cardinality(L),
         NEW page, IsPage(page, k, L, R)
  PROVE  \E next : IsPage(next, k + 1, L, R)
<1> DEFINE T == {page[i] : i \in 1 .. k}
           Left == L \ T
<1>1. Left # {}
  <2> SUFFICES ASSUME L \subseteq T PROVE FALSE
    OBVIOUS
  <2>1. T \subseteq L
    BY DEF IsPage
  <2>2. page \in Surjection(1 .. k, T)
    BY DEF IsPage, Surjection
  <2>3. IsFiniteSet(1 .. k) /\ Cardinality(1 .. k) = k
    BY FS_Interval
  <2> HIDE DEF T
  <2>4. Cardinality(T) <= k
    BY <2>2, <2>3, FS_Surjection
  <2>5. T = L
    BY <2>1
  <2>6. Cardinality(L) \in Nat
    BY FS_CardinalityType
  <2> QED
    BY <2>4, <2>5, <2>6
<1>2. \A i \in 1 .. k : page[i] \in T /\ page[i] \in L
  BY DEF IsPage
<1>3. ASSUME NEW x \in L
      PROVE  x \in Left \/ \E i \in 1 .. k : page[i] = x
  OBVIOUS
<1>4. ASSUME NEW x \in Left, NEW i \in 1 .. k
      PROVE  <<page[i], x>> \in R
  BY DEF IsPage
<1> HIDE DEF T
<1>5. Left \subseteq L
  OBVIOUS
<1> HIDE DEF Left
<1>6. PICK x \in Left : \A y \in Left : x = y \/ <<x, y>> \in R
  <2>1. IsFiniteSet(Left)
    BY <1>5, FS_Subset
  <2>2. Orders(R, Left)
    BY <1>5 DEF Orders
  <2> QED
    BY <1>1, <2>1, <2>2, LeastOf
<1> DEFINE next == [i \in 1 .. (k + 1) |-> IF i = k + 1 THEN x ELSE page[i]]
<1>7. next[k + 1] = x /\ \A i \in 1 .. k : next[i] = page[i]
  OBVIOUS
<1>8. \A i \in 1 .. (k + 1) : i = k + 1 \/ i \in 1 .. k
  OBVIOUS
<1>9. next \in [1 .. (k + 1) -> L]
  BY <1>2, <1>5, <1>8
<1> HIDE DEF next
<1>10. ASSUME NEW i \in 1 .. (k + 1), NEW j \in 1 .. (k + 1), i < j
       PROVE  <<next[i], next[j]>> \in R
  <2>1. i \in 1 .. k
    BY <1>10
  <2>2. CASE j = k + 1
    BY <1>4, <1>7, <2>1, <2>2
  <2>3. CASE j \in 1 .. k
    BY <1>7, <1>10, <2>1, <2>3 DEF IsPage
  <2> QED
    BY <1>8, <2>2, <2>3
<1>11. ASSUME NEW y \in L
       PROVE  \/ \E i \in 1 .. (k + 1) : next[i] = y
              \/ \A i \in 1 .. (k + 1) : <<next[i], y>> \in R
  <2>1. k + 1 \in 1 .. (k + 1) /\ \A i \in 1 .. k : i \in 1 .. (k + 1)
    OBVIOUS
  <2>2. CASE \E i \in 1 .. k : page[i] = y
    BY <1>7, <2>1, <2>2
  <2>3. CASE y \in Left /\ y = x
    BY <1>7, <2>1, <2>3
  <2>4. CASE y \in Left /\ y # x
    BY <1>4, <1>6, <1>7, <1>8, <2>4
  <2> QED
    BY <1>3, <2>2, <2>3, <2>4
<1>12. IsPage(next, k + 1, L, R)
  BY <1>9, <1>10, <1>11 DEF IsPage
<1> QED
  BY <1>12

(* The least size of which there were none would be one more than a size   *)
(* of which there is one.                                                  *)
LEMMA PageExists ==
  ASSUME NEW L, IsFiniteSet(L), NEW R, Orders(R, L), NEW k \in Nat, k <= Cardinality(L)
  PROVE  \E page : IsPage(page, k, L, R)
<1> DEFINE Bad == {n \in Nat : n <= Cardinality(L) /\ ~ \E page : IsPage(page, n, L, R)}
<1> SUFFICES ASSUME Bad # {} PROVE FALSE
  OBVIOUS
<1>1. Cardinality(L) \in Nat
  BY FS_CardinalityType
<1>2. PICK n \in Bad : \A m \in Bad : n <= m
  BY LeastNatural
<1>3. n \in Nat /\ n <= Cardinality(L) /\ ~ \E page : IsPage(page, n, L, R)
  OBVIOUS
<1>4. n # 0
  <2> DEFINE page == [i \in 1 .. 0 |-> i]
  <2>1. \A i \in 1 .. 0 : FALSE
    OBVIOUS
  <2>2. page \in [1 .. 0 -> L]
    BY <2>1
  <2> HIDE DEF page
  <2>3. IsPage(page, 0, L, R)
    BY <2>1, <2>2 DEF IsPage
  <2> QED
    BY <1>3, <2>3
<1>5. n - 1 \in Nat /\ n - 1 < Cardinality(L) /\ (n - 1) + 1 = n
  BY <1>1, <1>3, <1>4
<1>6. n - 1 \notin Bad
  <2> HIDE DEF Bad
  <2>1. n \in Nat /\ ~ n <= n - 1
    BY <1>3
  <2> QED
    BY <1>2, <2>1
<1>7. \E page : IsPage(page, n - 1, L, R)
  BY <1>1, <1>5, <1>6
<1> HIDE DEF Bad
<1>8. PICK page : IsPage(page, n - 1, L, R)
  BY <1>7
<1>9. \E next : IsPage(next, (n - 1) + 1, L, R)
  BY <1>5, <1>8, PageGrows
<1> QED
  BY <1>3, <1>5, <1>9

(* What Paginate gives: the first of the records, in their order, at most  *)
(* limit of them.                                                          *)
SizeOf(records, limit) == IF limit < Cardinality(records) THEN limit ELSE Cardinality(records)

IsPaginated(page, records, limit) ==
  /\ page \in [1 .. SizeOf(records, limit) -> records]
  /\ \A i, j \in 1 .. SizeOf(records, limit) : i < j => Precedes(page[i], page[j])
  /\ \A r \in records : \/ \E i \in 1 .. SizeOf(records, limit) : page[i] = r
                       \/ \A i \in 1 .. SizeOf(records, limit) : Precedes(page[i], r)

LEMMA PaginateGives ==
  ASSUME NEW records \in SUBSET Record, IsFiniteSet(records), NEW limit \in Nat
  PROVE  IsPaginated(Paginate(records, limit), records, limit)
<1> DEFINE R == {p \in Record \X Record : Precedes(p[1], p[2])}
           size == SizeOf(records, limit)
<1>1. ASSUME NEW r \in Record, NEW s \in Record
      PROVE  <<r, s>> \in R <=> Precedes(r, s)
  <2>1. <<r, s>>[1] = r /\ <<r, s>>[2] = s /\ <<r, s>> \in Record \X Record
    OBVIOUS
  <2> QED
    BY <2>1
<1> HIDE DEF R
<1>2. Orders(R, records)
  <2>1. \A x \in records : <<x, x>> \notin R
    BY <1>1, PrecedesIsIrreflexive
  <2>2. ASSUME NEW x \in records, NEW y \in records, NEW z \in records,
               <<x, y>> \in R, <<y, z>> \in R
        PROVE  <<x, z>> \in R
    BY <1>1, <2>2, PrecedesIsTransitive
  <2>3. ASSUME NEW x \in records, NEW y \in records
        PROVE  x = y \/ <<x, y>> \in R \/ <<y, x>> \in R
    BY <1>1, PrecedesIsTotal
  <2> QED
    BY <2>1, <2>2, <2>3 DEF Orders
<1>3. size \in Nat /\ size <= Cardinality(records)
  BY FS_CardinalityType DEF SizeOf
<1>4. PICK page : IsPage(page, size, records, R)
  BY <1>2, <1>3, PageExists
<1>5. \A i \in 1 .. size : page[i] \in Record
  BY <1>4 DEF IsPage
<1>6. IsPaginated(page, records, limit)
  <2>1. page \in [1 .. size -> records]
    BY <1>4 DEF IsPage
  <2>2. \A i, j \in 1 .. size : i < j => Precedes(page[i], page[j])
    BY <1>1, <1>4, <1>5 DEF IsPage
  <2>3. \A r \in records : \/ \E i \in 1 .. size : page[i] = r
                           \/ \A i \in 1 .. size : Precedes(page[i], r)
    BY <1>1, <1>4, <1>5 DEF IsPage
  <2> QED
    BY <2>1, <2>2, <2>3 DEF IsPaginated
<1>7. Paginate(records, limit) = CHOOSE p \in [1 .. size -> records] :
                                   /\ \A i, j \in 1 .. size : i < j => Precedes(p[i], p[j])
                                   /\ \A r \in records : \/ \E i \in 1 .. size : p[i] = r
                                                        \/ \A i \in 1 .. size : Precedes(p[i], r)
  BY DEF Paginate, SizeOf
<1> HIDE DEF size
<1>8. \E p \in [1 .. size -> records] :
         /\ \A i, j \in 1 .. size : i < j => Precedes(p[i], p[j])
         /\ \A r \in records : \/ \E i \in 1 .. size : p[i] = r
                              \/ \A i \in 1 .. size : Precedes(p[i], r)
  BY <1>6 DEF IsPaginated, size
<1> DEFINE P == Paginate(records, limit)
<1>9. /\ P \in [1 .. size -> records]
      /\ \A i, j \in 1 .. size : i < j => Precedes(P[i], P[j])
      /\ \A r \in records : \/ \E i \in 1 .. size : P[i] = r
                           \/ \A i \in 1 .. size : Precedes(P[i], r)
  BY <1>7, <1>8
<1> QED
  BY <1>9 DEF IsPaginated, size

(* A page as long as there are records has them all.                       *)
LEMMA FullPage ==
  ASSUME NEW records \in SUBSET Record, IsFiniteSet(records), NEW limit \in Nat,
         NEW page, IsPaginated(page, records, limit), ~ Len(page) < Cardinality(records)
  PROVE  \A r \in records : \E i \in DOMAIN page : page[i] = r
<1> DEFINE size == SizeOf(records, limit)
<1>1. size \in Nat /\ Cardinality(records) \in Nat /\ size <= Cardinality(records)
  BY FS_CardinalityType DEF SizeOf
<1>2. /\ page \in [1 .. size -> records]
      /\ \A i, j \in 1 .. size : i < j => Precedes(page[i], page[j])
  BY DEF IsPaginated
<1> HIDE DEF size
<1>3. Len(page) = size /\ DOMAIN page = 1 .. size
  BY <1>1, <1>2
<1>4. size = Cardinality(records)
  BY <1>1, <1>3
<1>5. ASSUME NEW i \in 1 .. size, NEW j \in 1 .. size, page[i] = page[j]
      PROVE  i = j
  <2>1. page[i] \in Record /\ page[j] \in Record
    BY <1>2
  <2>2. ~ Precedes(page[i], page[i])
    BY <2>1, PrecedesIsIrreflexive
  <2>3. ~ i < j /\ ~ j < i
    BY <1>2, <1>5, <2>2
  <2> QED
    BY <1>1, <2>3
<1>6. page \in Injection(1 .. size, records)
  BY <1>2, <1>5 DEF Injection, IsInjective
<1>7. Cardinality(1 .. size) = size
  BY <1>1, FS_Interval
<1>8. page \in Surjection(1 .. size, records)
  BY <1>4, <1>6, <1>7, FS_Injection
<1> QED
  BY <1>3, <1>8 DEF Surjection

-----------------------------------------------------------------------------
(***************************************************************************)
(* The invariant: the next page takes up after all that is shown.          *)
(***************************************************************************)
Sorted(s) == \A i, j \in DOMAIN s : i < j => Precedes(s[i], s[j])

TakesUp ==
  /\ walk \in {"new", "going", "over"}
  /\ walk = "new" => cursor = None /\ shown = <<>> /\ stayed = {}
  /\ walk = "going" =>
       /\ IsOfCall(cursor)
       /\ \A i \in DOMAIN shown : shown[i] = cursor \/ Precedes(shown[i], cursor)

PagesInv ==
  /\ Typed
  /\ TakesUp
  /\ shown \in Seq(Record)
  /\ stayed \subseteq Results(None)
  /\ EachOnce

LEMMA InitPages ==
  ASSUME Init
  PROVE  PagesInv
<1>1. DOMAIN shown = {} /\ shown \in Seq(Record)
  BY DEF Init
<1> QED
  BY <1>1 DEF Init, PagesInv, Typed, TakesUp, EachOnce

LEMMA ChangesKeepsPages ==
  ASSUME PagesInv, NEW path \in Paths, NEW entry \in Entry \cup {None}, Changes(path, entry)
  PROVE  PagesInv'
<1>1. Typed'
  BY DEF PagesInv, Typed, Changes
<1>2. UNCHANGED <<call, cursor, walk, shown>> /\ stayed' \subseteq stayed
      /\ stayed' \subseteq Results(None)' /\ walk = "going"
  BY DEF Changes
<1>3. TakesUp'
  BY <1>2 DEF PagesInv, TakesUp, IsOfCall
<1>4. EachOnce'
  BY <1>2 DEF PagesInv, EachOnce
<1> QED
  BY <1>1, <1>2, <1>3, <1>4 DEF PagesInv

(* What a page takes from: all of it comes after what is shown, and what   *)
(* stayed is shown or in it.                                               *)
LEMMA NextRecords ==
  ASSUME PagesInv, walk # "over"
  PROVE  /\ Results(cursor) \subseteq Results(None)
         /\ \A i \in DOMAIN shown : \A r \in Results(cursor) : Precedes(shown[i], r)
         /\ \A hit \in (IF walk = "new" THEN Results(cursor) ELSE stayed) :
              hit \in Results(cursor) \/ \E i \in DOMAIN shown : shown[i] = hit
<1>1. CASE walk = "new"
  BY <1>1 DEF PagesInv, TakesUp
<1>2. CASE walk = "going"
  <2>1. IsOfCall(cursor)
    BY <1>2 DEF PagesInv, TakesUp
  <2>2. \A r : r \in Results(cursor) <=> r \in Results(None) /\ Precedes(cursor, r)
    BY <2>1, ResultsAfter DEF PagesInv
  <2>3. ASSUME NEW i \in DOMAIN shown, NEW r \in Results(cursor)
        PROVE  Precedes(shown[i], r)
    <3>1. shown[i] = cursor \/ Precedes(shown[i], cursor)
      BY <1>2 DEF PagesInv, TakesUp
    <3>2. r \in Record /\ Precedes(cursor, r)
      BY <2>2, ResultsType DEF PagesInv, IsOfCall
    <3>3. shown[i] \in Record /\ cursor \in Record
      BY <2>1 DEF PagesInv, IsOfCall
    <3> QED
      BY <3>1, <3>2, <3>3, PrecedesIsTransitive
  <2>4. ASSUME NEW hit \in stayed
        PROVE  hit \in Results(cursor) \/ \E i \in DOMAIN shown : shown[i] = hit
    BY <1>2, <2>2 DEF PagesInv, EachOnce
  <2> QED
    BY <1>2, <2>2, <2>3, <2>4
<1> QED
  BY <1>1, <1>2 DEF PagesInv, TakesUp

LEMMA JoinedAre ==
  ASSUME NEW s \in Seq(Record), NEW t \in Seq(Record)
  PROVE  /\ s \o t \in Seq(Record)
         /\ DOMAIN (s \o t) = 1 .. Len(s) + Len(t)
         /\ \A i \in 1 .. Len(s) : (s \o t)[i] = s[i]
         /\ \A i \in 1 .. Len(t) : (s \o t)[Len(s) + i] = t[i]
<1>1. s \o t \in Seq(Record) /\ DOMAIN (s \o t) = 1 .. Len(s) + Len(t)
  OBVIOUS
<1>2. \A i \in 1 .. Len(s) : (s \o t)[i] = s[i]
  OBVIOUS
<1>3. \A i \in 1 .. Len(t) : (s \o t)[Len(s) + i] = t[i]
  OBVIOUS
<1> QED
  BY <1>1, <1>2, <1>3

LEMMA NextPageKeepsPages ==
  ASSUME PagesInv, NEW limit \in 1 .. MAX_PAGE, NextPage(limit)
  PROVE  PagesInv'
<1> DEFINE records == Results(cursor)
           taken == Paginate(records, limit)
           size == SizeOf(records, limit)
           more == Len(taken) < Cardinality(records)
<1>1. /\ shown' = shown \o taken
      /\ cursor' = IF more THEN Last(taken) ELSE None
      /\ walk' = IF more THEN "going" ELSE "over"
      /\ stayed' = IF walk = "new" THEN records ELSE stayed
      /\ walk # "over" /\ UNCHANGED <<tree, call>>
  BY DEF NextPage
<1>2. /\ records \subseteq Results(None)
      /\ \A i \in DOMAIN shown : \A r \in records : Precedes(shown[i], r)
      /\ \A hit \in stayed' : hit \in records \/ \E i \in DOMAIN shown : shown[i] = hit
  BY <1>1, NextRecords
<1>3. limit \in Nat /\ limit > 0
  BY PagesAssumption
<1>4. records \in SUBSET Record /\ IsFiniteSet(records)
  <2>1. records \in SUBSET Results(None)
    BY <1>2
  <2> QED
    BY <2>1, RecordsAreFinite, FS_Subset DEF PagesInv
<1> HIDE DEF records
<1>5. IsPaginated(taken, records, limit)
  BY <1>3, <1>4, PaginateGives
<1>6. size \in Nat /\ Cardinality(records) \in Nat /\ (size < Cardinality(records) => size = limit)
  BY <1>3, <1>4, FS_CardinalityType DEF SizeOf
<1>7. /\ taken \in [1 .. size -> records]
      /\ \A i, j \in 1 .. size : i < j => Precedes(taken[i], taken[j])
      /\ \A r \in records : \/ \E i \in 1 .. size : taken[i] = r
                           \/ \A i \in 1 .. size : Precedes(taken[i], r)
  BY <1>5 DEF IsPaginated
<1>8. ~ more => \A r \in records : \E i \in DOMAIN taken : taken[i] = r
  BY <1>3, <1>4, <1>5, FullPage
<1> HIDE DEF taken, size
<1>9. /\ taken \in Seq(records) /\ taken \in Seq(Record)
      /\ Len(taken) = size /\ DOMAIN taken = 1 .. size
  BY <1>4, <1>6, <1>7
<1>10. shown \in Seq(Record) /\ Len(shown) \in Nat
  BY DEF PagesInv
<1>11. /\ shown' \in Seq(Record)
       /\ DOMAIN shown' = 1 .. Len(shown) + size
       /\ \A i \in 1 .. Len(shown) : shown'[i] = shown[i]
       /\ \A i \in 1 .. size : shown'[Len(shown) + i] = taken[i]
  <2>1. shown' = shown \o taken
    BY <1>1
  <2> QED
    BY <1>9, <1>10, <2>1, JoinedAre
<1>12. \A i \in DOMAIN shown' : i \in 1 .. Len(shown)
           \/ \E k \in 1 .. size : i = Len(shown) + k
  <2> SUFFICES ASSUME NEW i \in 1 .. Len(shown) + size, i \notin 1 .. Len(shown)
               PROVE  \E k \in 1 .. size : i = Len(shown) + k
    BY <1>11
  <2>1. i - Len(shown) \in 1 .. size /\ i = Len(shown) + (i - Len(shown))
    BY <1>6, <1>10
  <2> QED
    BY <2>1
<1>13. DOMAIN shown = 1 .. Len(shown)
  BY <1>10
<1>14. Sorted(shown')
  <2> SUFFICES ASSUME NEW i \in DOMAIN shown', NEW j \in DOMAIN shown', i < j
               PROVE  Precedes(shown'[i], shown'[j])
    BY DEF Sorted
  <2>1. CASE i \in 1 .. Len(shown) /\ j \in 1 .. Len(shown)
    BY <1>11, <1>13, <2>1 DEF PagesInv, EachOnce
  <2>2. ASSUME NEW k \in 1 .. size, j = Len(shown) + k, i \in 1 .. Len(shown)
        PROVE  Precedes(shown'[i], shown'[j])
    <3>1. taken[k] \in records
      BY <1>7
    <3> QED
      BY <1>2, <1>11, <1>13, <2>2, <3>1
  <2>3. ASSUME NEW k \in 1 .. size, j = Len(shown) + k,
               NEW l \in 1 .. size, i = Len(shown) + l
        PROVE  Precedes(shown'[i], shown'[j])
    <3>1. l < k
      BY <1>6, <1>10, <2>3
    <3> QED
      BY <1>7, <1>11, <2>3, <3>1
  <2>4. ~ \E k \in 1 .. size : i = Len(shown) + k /\ j \in 1 .. Len(shown)
    BY <1>6, <1>10
  <2> QED
    BY <1>12, <2>1, <2>2, <2>3, <2>4
<1>15. more => Last(taken) = taken[size] /\ size \in 1 .. size
  BY <1>3, <1>6, <1>9 DEF Last
<1>16. ASSUME NEW r \in Record, \E i \in 1 .. size : taken[i] = r
       PROVE  \E i \in DOMAIN shown' : shown'[i] = r
  <2>1. PICK k \in 1 .. size : taken[k] = r
    BY <1>16
  <2>2. Len(shown) + k \in DOMAIN shown'
    BY <1>6, <1>10, <1>11
  <2> QED
    BY <1>11, <2>1, <2>2
<1>17. ASSUME NEW hit \in stayed', walk' = "over" \/ ~ Precedes(cursor', hit)
       PROVE  \E i \in DOMAIN shown' : shown'[i] = hit
  <2>1. CASE \E i \in DOMAIN shown : shown[i] = hit
    <3>1. PICK i \in 1 .. Len(shown) : shown[i] = hit
      BY <1>13, <2>1
    <3>2. i \in DOMAIN shown'
      BY <1>6, <1>10, <1>11
    <3> QED
      BY <1>11, <3>1, <3>2
  <2>2. CASE hit \in records
    <3>1. \E i \in 1 .. size : taken[i] = hit
      <4>1. CASE more
        BY <1>1, <1>7, <1>15, <1>17, <2>2, <4>1
      <4>2. CASE ~ more
        BY <1>8, <1>9, <2>2, <4>2
      <4> QED
        BY <4>1, <4>2
    <3> QED
      BY <1>4, <1>16, <2>2, <3>1
  <2> QED
    BY <1>2, <2>1, <2>2
<1>18. EachOnce'
  BY <1>14, <1>17 DEF EachOnce, Sorted
<1>19. TakesUp'
  <2>1. CASE ~ more
    BY <1>1, <2>1 DEF TakesUp
  <2>2. CASE more
    <3>1. cursor' = taken[size] /\ size \in 1 .. size /\ walk' = "going"
      BY <1>1, <1>15, <2>2
    <3>2. cursor' \in Results(None)
      BY <1>2, <1>7, <3>1
    <3>3. IsOfCall(cursor)'
      <4>1. IsOfCall(cursor')
        BY <3>2, ResultsType DEF PagesInv
      <4> QED
        BY <1>1, <4>1 DEF IsOfCall
    <3>4. ASSUME NEW i \in DOMAIN shown'
          PROVE  shown'[i] = cursor' \/ Precedes(shown'[i], cursor')
      <4>1. shown'[Len(shown) + size] = cursor' /\ Len(shown) + size \in DOMAIN shown'
        BY <1>6, <1>10, <1>11, <3>1
      <4>2. i = Len(shown) + size \/ i < Len(shown) + size
        BY <1>6, <1>10, <1>11
      <4> QED
        BY <1>14, <4>1, <4>2 DEF Sorted
    <3> QED
      BY <3>1, <3>3, <3>4 DEF TakesUp
  <2> QED
    BY <2>1, <2>2
<1>20. Typed' /\ stayed' \subseteq Results(None)'
  <2>1. Results(None)' = Results(None)
    BY <1>1 DEF Results, Listed, Searched, Names, There, Walked, LinesOf
  <2>2. stayed' \subseteq Results(None)
    BY <1>1, <1>2 DEF PagesInv
  <2> QED
    BY <1>1, <2>1, <2>2 DEF PagesInv, Typed
<1> QED
  BY <1>11, <1>18, <1>19, <1>20 DEF PagesInv

LEMMA PagesKept == Spec => []PagesInv
<1>1. Init => PagesInv
  BY InitPages
<1>2. PagesInv /\ [Next]_vars => PagesInv'
  <2> SUFFICES ASSUME PagesInv, [Next]_vars PROVE PagesInv'
    OBVIOUS
  <2>1. ASSUME NEW limit \in 1 .. MAX_PAGE, NextPage(limit)
        PROVE  PagesInv'
    BY <2>1, NextPageKeepsPages
  <2>2. ASSUME NEW path \in Paths, NEW entry \in Entry \cup {None}, Changes(path, entry)
        PROVE  PagesInv'
    BY <2>2, ChangesKeepsPages
  <2>3. CASE UNCHANGED vars
    BY <2>3 DEF vars, PagesInv, Typed, TakesUp, IsOfCall, EachOnce, Results, Listed, Searched,
                Names, There, Walked, LinesOf
  <2> QED
    BY <2>1, <2>2, <2>3 DEF Next
<1> QED
  BY <1>1, <1>2, PTL DEF Spec

(* However a tree changes under the pages of a call, what was there from   *)
(* the first page on is on exactly one of them, and they are in order.     *)
THEOREM WhatStaysIsOnOnePage == Spec => []EachOnce
<1>1. PagesInv => EachOnce
  BY DEF PagesInv
<1> QED
  BY <1>1, PagesKept, PTL
=============================================================================
