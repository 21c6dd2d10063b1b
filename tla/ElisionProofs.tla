---------------------------- MODULE ElisionProofs ---------------------------
(***************************************************************************)
(* The history a request is made of, for every value of the constants:     *)
(* types, the estimate, the stop for a full window and the thinking that   *)
(* goes back to the model.                                                 *)
(***************************************************************************)
EXTENDS Elision, FiniteSetTheorems, TLAPS

USE PrefixAssumption, SizeAssumption

-----------------------------------------------------------------------------
(***************************************************************************)
(* Least elements and sums.                                                *)
(***************************************************************************)

(* A set of naturals that has 0 and every successor has them all: mapped   *)
(* to its successor, no x below n could be mapped twice.                   *)
LEMMA NatIsInductive ==
  ASSUME NEW S, 0 \in S, \A n \in Nat : n \in S => n + 1 \in S
  PROVE  \A n \in Nat : n \in S
<1> SUFFICES ASSUME NEW n \in Nat, n \notin S PROVE FALSE
  OBVIOUS
<1> DEFINE T == (0 .. n) \cap S
           U == T \ {0}
           next == [x \in T |-> x + 1]
<1>1. IsFiniteSet(T)
  <2>1. IsFiniteSet(0 .. n)
    BY FS_Interval
  <2>2. T \in SUBSET (0 .. n)
    OBVIOUS
  <2> QED
    BY <2>1, <2>2, FS_Subset
<1>2. IsFiniteSet(U) /\ Cardinality(U) < Cardinality(T)
  <2>1. 0 \in T
    OBVIOUS
  <2>2. IsFiniteSet(U) /\ Cardinality(U) = Cardinality(T) - 1
    BY <1>1, <2>1, FS_RemoveElement
  <2> QED
    BY <1>1, <2>2, FS_CardinalityType
<1>3. next \in [T -> U]
  OBVIOUS
<1>4. \E x, y \in T : x # y /\ next[x] = next[y]
  <2> HIDE DEF T, U, next
  <2> QED
    BY <1>1, <1>2, <1>3, FS_PigeonHole
<1> QED
  BY <1>4

(* The first of some positions is one of them, and none is before it.      *)
LEMMA FirstIsLeast ==
  ASSUME NEW m, Len(m) \in Nat, NEW S \in SUBSET (1 .. Len(m)), S # {}
  PROVE  FirstOf(S, m) \in S /\ \A j \in S : FirstOf(S, m) <= j
<1> DEFINE T == {n \in Nat : \A k \in 0 .. n : k \notin S}
<1>1. SUFFICES \E i \in S : \A j \in S : i <= j
  BY DEF FirstOf
<1>2. SUFFICES ASSUME \A i \in S : \E j \in S : j < i PROVE FALSE
  OBVIOUS
<1>3. 0 \in T
  OBVIOUS
<1>4. ASSUME NEW n \in Nat, n \in T
      PROVE  n + 1 \in T
  <2>1. \A k \in 0 .. n : k \notin S
    BY <1>4
  <2>2. n + 1 \notin S
    BY <1>2, <2>1
  <2>3. \A k \in 0 .. n + 1 : k \in 0 .. n \/ k = n + 1
    OBVIOUS
  <2> QED
    BY <2>1, <2>2, <2>3
<1>5. \A n \in Nat : n \in T
  <2> HIDE DEF T
  <2> QED
    BY <1>3, <1>4, NatIsInductive
<1>6. PICK i \in S : TRUE
  OBVIOUS
<1>7. i \in Nat /\ i \in 0 .. i
  BY <1>6
<1> QED
  BY <1>5, <1>6, <1>7

(* What Size builds, up to a message.                                      *)
SumsTo(f, m, img, n) ==
  f = [i \in 0 .. n |-> IF i = 0 THEN 0 ELSE f[i - 1] + MessageSize(m[i], img)]

LEMMA SumsExist ==
  ASSUME NEW m, NEW img
  PROVE  \A n \in Nat : \E f : SumsTo(f, m, img, n)
<1> DEFINE S == {n \in Nat : \E f : SumsTo(f, m, img, n)}
<1>1. 0 \in S
  <2> DEFINE f == [i \in 0 .. 0 |-> 0]
  <2>1. SumsTo(f, m, img, 0)
    BY DEF SumsTo
  <2> QED
    BY <2>1
<1>2. ASSUME NEW n \in Nat, n \in S
      PROVE  n + 1 \in S
  <2>1. PICK f : SumsTo(f, m, img, n)
    BY <1>2
  <2> DEFINE g == [i \in 0 .. n + 1 |->
                     IF i = n + 1 THEN f[i - 1] + MessageSize(m[i], img) ELSE f[i]]
             h == [i \in 0 .. n + 1 |->
                     IF i = 0 THEN 0 ELSE g[i - 1] + MessageSize(m[i], img)]
  <2>2. \A i \in 0 .. n : g[i] = f[i]
    OBVIOUS
  <2>3. \A i \in 0 .. n : f[i] = IF i = 0 THEN 0 ELSE f[i - 1] + MessageSize(m[i], img)
    BY <2>1 DEF SumsTo
  <2>4. ASSUME NEW i \in 0 .. n + 1
        PROVE  g[i] = IF i = 0 THEN 0 ELSE g[i - 1] + MessageSize(m[i], img)
    <3>1. CASE i = n + 1
      <4>1. i # 0 /\ i - 1 \in 0 .. n /\ g[i - 1] = f[i - 1]
        BY <3>1, <2>2
      <4> QED
        BY <3>1, <4>1
    <3>2. CASE i \in 0 .. n
      <4>1. i # 0 => i - 1 \in 0 .. n /\ g[i - 1] = f[i - 1]
        BY <3>2, <2>2
      <4>2. g[i] = f[i]
        BY <3>2, <2>2
      <4> QED
        BY <3>2, <4>1, <4>2, <2>3
    <3> QED
      BY <3>1, <3>2
  <2>5. g = h
    <3>1. DOMAIN g = DOMAIN h
      OBVIOUS
    <3>2. \A i \in 0 .. n + 1 : g[i] = h[i]
      BY <2>4
    <3> HIDE <2>4
    <3> QED
      BY <3>2
  <2>6. SumsTo(g, m, img, n + 1)
    BY <2>5 DEF SumsTo
  <2> QED
    BY <2>6
<1> HIDE DEF S
<1>3. \A n \in Nat : n \in S
  BY <1>1, <1>2, NatIsInductive
<1> QED
  BY <1>3 DEF S

(* The size is the last of the sums.                                       *)
Sums(f, m, img) ==
  /\ Size(m, img) = f[Len(m)] /\ f[0] = 0
  /\ \A i \in 1 .. Len(m) : f[i] = f[i - 1] + MessageSize(m[i], img)

LEMMA SizeIsSum ==
  ASSUME NEW m, NEW img, Len(m) \in Nat
  PROVE  \E f : Sums(f, m, img)
<1> DEFINE f == CHOOSE g : SumsTo(g, m, img, Len(m))
<1>1. SumsTo(f, m, img, Len(m))
  BY SumsExist
<1>2. Size(m, img) = f[Len(m)]
  BY DEF Size, SumsTo
<1> HIDE DEF f
<1>3. \A i \in 0 .. Len(m) : f[i] = IF i = 0 THEN 0 ELSE f[i - 1] + MessageSize(m[i], img)
  BY <1>1 DEF SumsTo
<1>4. f[0] = 0 /\ \A i \in 1 .. Len(m) : f[i] = f[i - 1] + MessageSize(m[i], img)
  BY <1>3
<1> QED
  BY <1>2, <1>4 DEF Sums

(***************************************************************************)
(* Histories.  They are lists of any kind of thing: a message may hold the *)
(* request it was made for, so there is no one set of messages.            *)
(***************************************************************************)
IsList(m) == \E S : m \in Seq(S)

History(m) == IsList(m) /\ Alternates(m)

LEMMA ListLength ==
  ASSUME NEW m, IsList(m)
  PROVE  Len(m) \in Nat
BY DEF IsList

(* A message has a size.                                                   *)
LEMMA MessageSizeType ==
  ASSUME NEW m, IsMessage(m), NEW img \in BOOLEAN
  PROVE  MessageSize(m, img) \in Nat
<1>1. m.text \in Nat /\ m.part \in Part
  BY DEF IsMessage
<1>2. m.part.size \in Nat
  BY <1>1 DEF Part
<1> QED
  BY <1>1, <1>2 DEF MessageSize

(* The sums of a history are sizes.                                        *)
LEMMA SumsType ==
  ASSUME NEW m, Len(m) \in Nat, NEW img \in BOOLEAN, NEW f,
         \A i \in 1 .. Len(m) : IsMessage(m[i]),
         Sums(f, m, img)
  PROVE  \A i \in 0 .. Len(m) : f[i] \in Nat
<1> DEFINE T == {n \in Nat : n <= Len(m) => f[n] \in Nat}
<1>1. 0 \in T
  BY DEF Sums
<1>2. ASSUME NEW n \in Nat, n \in T
      PROVE  n + 1 \in T
  <2>1. CASE n + 1 <= Len(m)
    <3>1. n + 1 \in 1 .. Len(m) /\ (n + 1) - 1 = n
      BY <2>1
    <3>2. f[n + 1] = f[n] + MessageSize(m[n + 1], img)
      BY <3>1 DEF Sums
    <3>3. MessageSize(m[n + 1], img) \in Nat
      BY <3>1, MessageSizeType
    <3>4. f[n] \in Nat
      BY <1>2, <2>1
    <3> QED
      BY <3>2, <3>3, <3>4
  <2> QED
    BY <2>1
<1>3. \A n \in Nat : n \in T
  <2> HIDE DEF T
  <2> QED
    BY <1>1, <1>2, NatIsInductive
<1> QED
  BY <1>3

LEMMA SizeType ==
  ASSUME NEW m, History(m), NEW img \in BOOLEAN
  PROVE  Size(m, img) \in Nat
<1>1. Len(m) \in Nat /\ Len(m) \in 0 .. Len(m)
  BY ListLength DEF History
<1>2. \A i \in 1 .. Len(m) : IsMessage(m[i])
  BY DEF History, Alternates
<1>3. PICK f : Sums(f, m, img)
  BY <1>1, SizeIsSum
<1>4. Size(m, img) = f[Len(m)]
  BY <1>3 DEF Sums
<1> QED
  BY <1>1, <1>2, <1>3, <1>4, SumsType

(* The sizes of the two parts of a history sum to its own.                 *)
LEMMA SizeSplits ==
  ASSUME NEW m, History(m), NEW img \in BOOLEAN, NEW k \in 0 .. Len(m)
  PROVE  /\ Size(SubSeq(m, 1, k), img) \in Nat
         /\ Size(SubSeq(m, k + 1, Len(m)), img) \in Nat
         /\ Size(SubSeq(m, 1, k), img) + Size(SubSeq(m, k + 1, Len(m)), img) = Size(m, img)
<1> DEFINE a == SubSeq(m, 1, k)
           b == SubSeq(m, k + 1, Len(m))
<1>1. PICK S : m \in Seq(S)
  BY DEF History, IsList
<1>2. /\ Len(m) \in Nat /\ k \in Nat /\ Len(a) = k /\ Len(b) = Len(m) - k
      /\ \A i \in 1 .. k : a[i] = m[i]
      /\ \A i \in 1 .. Len(m) - k : b[i] = m[k + i]
  BY <1>1
<1>3. \A i \in 1 .. Len(m) : IsMessage(m[i])
  BY DEF History, Alternates
<1>l. Len(m) \in Nat /\ Len(a) \in Nat /\ Len(b) \in Nat /\ k \in Nat /\ k <= Len(m)
  BY <1>1
<1>b. Len(b) = Len(m) - k
  BY <1>2
<1> HIDE DEF a, b
<1>4. PICK f : Sums(f, m, img)
  BY <1>l, SizeIsSum
<1>5. PICK g : Sums(g, a, img)
  BY <1>l, SizeIsSum
<1>6. PICK h : Sums(h, b, img)
  BY <1>l, SizeIsSum
<1>7. \A i \in 0 .. Len(m) : f[i] \in Nat
  BY <1>2, <1>3, <1>4, SumsType
<1>8. \A i \in 0 .. k : g[i] \in Nat
  <2>1. \A i \in 1 .. Len(a) : IsMessage(a[i])
    BY <1>2, <1>3
  <2>2. \A i \in 0 .. Len(a) : g[i] \in Nat
    BY <1>2, <1>5, <2>1, SumsType
  <2> QED
    BY <1>2, <2>2
<1>9. \A i \in 0 .. Len(m) - k : h[i] \in Nat
  <2>1. \A i \in 1 .. Len(b) : k + i \in 1 .. Len(m)
    BY <1>2
  <2>2. \A i \in 1 .. Len(b) : IsMessage(b[i])
    BY <1>2, <1>3, <2>1
  <2>3. Len(b) \in Nat
    BY <1>2
  <2>4. \A i \in 0 .. Len(b) : h[i] \in Nat
    BY <1>6, <2>2, <2>3, SumsType
  <2> QED
    BY <1>2, <2>4
<1>10. g[k] = f[k]
  <2> DEFINE T == {n \in Nat : n <= k => g[n] = f[n]}
  <2>1. 0 \in T
    BY <1>4, <1>5 DEF Sums
  <2>2. ASSUME NEW n \in Nat, n \in T, n + 1 <= k
        PROVE  g[n + 1] = f[n + 1]
    <3>1. n + 1 \in 1 .. Len(m) /\ n + 1 \in 1 .. Len(a) /\ (n + 1) - 1 = n /\ n + 1 \in 1 .. k
      BY <2>2, <1>2
    <3>2. g[n] = f[n]
      BY <2>2
    <3>3. g[n + 1] = g[n] + MessageSize(a[n + 1], img)
      BY <1>5, <3>1 DEF Sums
    <3>4. f[n + 1] = f[n] + MessageSize(m[n + 1], img)
      BY <1>4, <3>1 DEF Sums
    <3>5. a[n + 1] = m[n + 1]
      BY <1>2, <3>1
    <3> QED
      BY <3>2, <3>3, <3>4, <3>5
  <2>3. \A n \in Nat : n \in T => n + 1 \in T
    BY <2>2
  <2>4. \A n \in Nat : n \in T
    <3> HIDE DEF T
    <3> QED
      BY <2>1, <2>3, NatIsInductive
  <2> QED
    BY <1>2, <2>4
<1>11. h[Len(m) - k] + f[k] = f[Len(m)]
  <2> DEFINE T == {n \in Nat : n <= Len(m) - k => h[n] + f[k] = f[k + n]}
  <2>1. 0 \in T
    BY <1>2, <1>6, <1>7 DEF Sums
  <2>2. ASSUME NEW n \in Nat, n \in T, n + 1 <= Len(m) - k
        PROVE  h[n + 1] + f[k] = f[k + (n + 1)]
    <3>1. /\ n + 1 \in 1 .. Len(b) /\ (n + 1) - 1 = n /\ n + 1 \in 1 .. Len(m) - k
          /\ k + (n + 1) \in 1 .. Len(m) /\ (k + (n + 1)) - 1 = k + n
      BY <2>2, <1>l, <1>b
    <3>2. h[n] + f[k] = f[k + n]
      BY <2>2, <1>l
    <3>3. h[n + 1] = h[n] + MessageSize(b[n + 1], img)
      BY <1>6, <3>1 DEF Sums
    <3>4. f[k + (n + 1)] = f[k + n] + MessageSize(m[k + (n + 1)], img)
      BY <1>4, <3>1 DEF Sums
    <3>5. b[n + 1] = m[k + (n + 1)]
      BY <1>2, <3>1
    <3>6. MessageSize(b[n + 1], img) \in Nat
      BY <1>3, <3>1, <3>5, MessageSizeType
    <3>7. h[n] \in Nat /\ f[k] \in Nat
      BY <1>2, <1>7, <1>9, <2>2
    <3> QED
      BY <3>2, <3>3, <3>4, <3>5, <3>6, <3>7
  <2>3. \A n \in Nat : n \in T => n + 1 \in T
    BY <2>2
  <2>4. \A n \in Nat : n \in T
    <3> HIDE DEF T
    <3> QED
      BY <2>1, <2>3, NatIsInductive
  <2>5. Len(m) - k \in Nat /\ k + (Len(m) - k) = Len(m)
    BY <1>2
  <2>6. h[Len(m) - k] + f[k] = f[k + (Len(m) - k)]
    BY <2>4, <2>5
  <2> QED
    BY <2>5, <2>6
<1>12. Size(m, img) = f[Len(m)] /\ Size(a, img) = f[k] /\ Size(b, img) = h[Len(m) - k]
  BY <1>2, <1>4, <1>5, <1>6, <1>10 DEF Sums
<1>13. f[k] \in Nat /\ h[Len(m) - k] \in Nat
  BY <1>2, <1>7, <1>9
<1>14. Size(a, img) \in Nat /\ Size(b, img) \in Nat /\ Size(a, img) + Size(b, img) = Size(m, img)
  BY <1>11, <1>12, <1>13
<1> QED
  BY <1>14 DEF a, b

-----------------------------------------------------------------------------
(***************************************************************************)
(* Types.                                                                  *)
(***************************************************************************)

(* What every edit of a message leaves a message, of the same role.        *)
LEMMA MessageWithoutThinking ==
  ASSUME NEW x, IsMessage(x)
  PROVE  LET y == [x EXCEPT !.think = None] IN
         /\ IsMessage(y) /\ y.think = None
         /\ y.role = x.role /\ y.part = x.part /\ y.call = x.call
BY DEF IsMessage

LEMMA MessageWithText ==
  ASSUME NEW x, IsMessage(x)
  PROVE  LET y == [x EXCEPT !.text = @ + 1] IN
         IsMessage(y) /\ y.think = x.think /\ y.role = x.role
BY DEF IsMessage

LEMMA MessageWithPart ==
  ASSUME NEW x, IsMessage(x), NEW p \in Part
  PROVE  LET y == [x EXCEPT !.part = p] IN
         IsMessage(y) /\ y.think = x.think /\ y.role = x.role
BY DEF IsMessage

LEMMA StubbedType ==
  ASSUME NEW p \in Part, NEW img \in BOOLEAN
  PROVE  Stubbed(p, img) \in Part
BY DEF Stubbed, Part, StubSize

LEMMA MessageRedacted ==
  ASSUME NEW x, IsMessage(x)
  PROVE  IsMessage(Redacted(x)) /\ Redacted(x).think = x.think /\ Redacted(x).role = x.role
<1> DEFINE p == [[x.part EXCEPT !.secret = FALSE] EXCEPT !.form = "redacted"]
<1>1. x.part \in Part
  BY DEF IsMessage
<1>2. p \in Part
  BY <1>1 DEF Part
<1>3. [x EXCEPT !.part.secret = FALSE, !.part.form = "redacted"] = [x EXCEPT !.part = p]
  BY <1>1 DEF IsMessage, Part
<1> HIDE DEF p
<1>4. Redacted(x) = x \/ Redacted(x) = [x EXCEPT !.part = p]
  BY <1>3 DEF Redacted
<1>5. CASE Redacted(x) = x
  BY <1>5
<1>6. CASE Redacted(x) = [x EXCEPT !.part = p]
  BY <1>2, <1>6, MessageWithPart
<1> QED
  BY <1>4, <1>5, <1>6

(* An edit of the messages one by one leaves a history.                    *)
LEMMA EditedHistory ==
  ASSUME NEW m, History(m), NEW n, IsList(n), Len(n) = Len(m),
         \A i \in 1 .. Len(m) : IsMessage(n[i]) /\ n[i].role = m[i].role
  PROVE  History(n)
BY DEF History, Alternates

LEMMA DropThinkingKeeps ==
  ASSUME NEW m, History(m), NEW start
  PROVE  /\ History(DropThinking(m, start)) /\ Len(DropThinking(m, start)) = Len(m)
         /\ \A i \in 1 .. Len(m) :
              DropThinking(m, start)[i] = IF i >= start THEN [m[i] EXCEPT !.think = None] ELSE m[i]
<1> DEFINE n == DropThinking(m, start)
<1>1. Len(m) \in Nat
  BY ListLength DEF History
<1>2. n \in Seq({n[i] : i \in 1 .. Len(m)}) /\ Len(n) = Len(m)
  BY <1>1 DEF DropThinking
<1>3. IsList(n)
  BY <1>2 DEF IsList
<1>4. \A i \in 1 .. Len(m) : n[i] = IF i >= start THEN [m[i] EXCEPT !.think = None] ELSE m[i]
  BY DEF DropThinking
<1> HIDE DEF n
<1>5. \A i \in 1 .. Len(m) : IsMessage(m[i])
  BY DEF History, Alternates
<1>6. \A i \in 1 .. Len(m) : IsMessage(n[i]) /\ n[i].role = m[i].role
  BY <1>4, <1>5, MessageWithoutThinking
<1>7. History(n)
  BY <1>2, <1>3, <1>6, EditedHistory
<1> QED
  BY <1>2, <1>4, <1>7 DEF n

(* A change of one message.                                                *)
LEMMA OneEdited ==
  ASSUME NEW m, History(m), NEW i \in 1 .. Len(m), NEW x, IsMessage(x), x.role = m[i].role
  PROVE  /\ History([m EXCEPT ![i] = x]) /\ Len([m EXCEPT ![i] = x]) = Len(m)
         /\ \A j \in 1 .. Len(m) : [m EXCEPT ![i] = x][j] = IF j = i THEN x ELSE m[j]
<1> DEFINE n == [m EXCEPT ![i] = x]
<1>1. PICK S : m \in Seq(S)
  BY DEF History, IsList
<1>2. m \in Seq(S \cup {x})
  BY <1>1
<1>3. n \in Seq(S \cup {x}) /\ Len(n) = Len(m)
  BY <1>2
<1>4. \A j \in 1 .. Len(m) : n[j] = IF j = i THEN x ELSE m[j]
  BY <1>2
<1>5. \A j \in 1 .. Len(m) : IsMessage(m[j])
  BY DEF History, Alternates
<1> HIDE DEF n
<1>6. History(n)
  BY <1>3, <1>4, <1>5, EditedHistory DEF IsList
<1> QED
  BY <1>3, <1>4, <1>6 DEF n

LEMMA AppendKeeps ==
  ASSUME NEW m, History(m), NEW x, IsMessage(x), x.role = "user" <=> (Len(m) + 1) % 2 = 1
  PROVE  /\ History(Append(m, x)) /\ Len(Append(m, x)) = Len(m) + 1
         /\ Append(m, x)[Len(m) + 1] = x
         /\ \A i \in 1 .. Len(m) : Append(m, x)[i] = m[i]
<1> DEFINE n == Append(m, x)
<1>1. PICK S : m \in Seq(S)
  BY DEF History, IsList
<1>2. m \in Seq(S \cup {x})
  BY <1>1
<1>3. /\ n \in Seq(S \cup {x}) /\ Len(n) = Len(m) + 1 /\ Len(m) \in Nat
      /\ n[Len(m) + 1] = x
      /\ \A i \in 1 .. Len(m) : n[i] = m[i]
  BY <1>2
<1> HIDE DEF n
<1>4. Alternates(n)
  <2>1. \A i \in 1 .. Len(n) : i \in 1 .. Len(m) \/ i = Len(m) + 1
    BY <1>3
  <2> QED
    BY <1>3, <2>1 DEF History, Alternates
<1>5. History(n)
  BY <1>3, <1>4 DEF History, IsList
<1> QED
  BY <1>3, <1>5 DEF n

-----------------------------------------------------------------------------
(***************************************************************************)
(* What an edit leaves of the thinking.  In every history the program      *)
(* makes of another, without the model, a block of thinking that is still  *)
(* there is still after the messages it was after.                         *)
(***************************************************************************)
Stands(n, m) ==
  \A i \in 1 .. Len(n) :
    n[i].think # None => /\ i \in 1 .. Len(m) /\ n[i].think = m[i].think
                         /\ \A j \in 1 .. i - 1 : n[j] = m[j]

Edit(n, m) == History(n) /\ Stands(n, m)

LEMMA EditsCompose ==
  ASSUME NEW l, NEW m, NEW n, History(m), Edit(n, m), Edit(m, l)
  PROVE  Edit(n, l)
<1>1. Len(m) \in Nat
  BY ListLength DEF History
<1> SUFFICES ASSUME NEW i \in 1 .. Len(n), n[i].think # None
             PROVE  /\ i \in 1 .. Len(l) /\ n[i].think = l[i].think
                    /\ \A j \in 1 .. i - 1 : n[j] = l[j]
  BY DEF Edit, Stands
<1>2. i \in 1 .. Len(m) /\ n[i].think = m[i].think /\ \A j \in 1 .. i - 1 : n[j] = m[j]
  BY DEF Edit, Stands
<1>3. i \in 1 .. Len(l) /\ m[i].think = l[i].think /\ \A j \in 1 .. i - 1 : m[j] = l[j]
  BY <1>2 DEF Edit, Stands
<1> QED
  BY <1>2, <1>3

LEMMA DropIsEdit ==
  ASSUME NEW m, History(m), NEW start \in Int
  PROVE  /\ Edit(DropThinking(m, start), m) /\ Len(DropThinking(m, start)) = Len(m)
         /\ \A i \in 1 .. Len(m) : i >= start => DropThinking(m, start)[i].think = None
<1> DEFINE n == DropThinking(m, start)
<1>1. /\ History(n) /\ Len(n) = Len(m)
      /\ \A i \in 1 .. Len(m) : n[i] = IF i >= start THEN [m[i] EXCEPT !.think = None] ELSE m[i]
  BY DropThinkingKeeps
<1>2. Len(m) \in Nat /\ \A i \in 1 .. Len(m) : IsMessage(m[i])
  BY ListLength DEF History, Alternates
<1> HIDE DEF n
<1>3. ASSUME NEW i \in 1 .. Len(m), i >= start
      PROVE  n[i].think = None
  <2>1. n[i] = [m[i] EXCEPT !.think = None]
    BY <1>1, <1>3
  <2> QED
    BY <1>2, <2>1, MessageWithoutThinking
<1>4. ASSUME NEW i \in 1 .. Len(n), n[i].think # None
      PROVE  n[i].think = m[i].think /\ \A j \in 1 .. i - 1 : n[j] = m[j]
  <2>1. i \in 1 .. Len(m) /\ ~ i >= start
    BY <1>1, <1>3, <1>4
  <2>2. \A j \in 1 .. i : j \in 1 .. Len(m) /\ ~ j >= start
    BY <1>2, <2>1
  <2>3. \A j \in 1 .. i : n[j] = m[j]
    BY <1>1, <2>2
  <2>4. i \in 1 .. i /\ \A j \in 1 .. i - 1 : j \in 1 .. i
    BY <1>2, <2>1
  <2> QED
    BY <2>3, <2>4
<1>5. Stands(n, m)
  BY <1>1, <1>4 DEF Stands
<1> QED
  BY <1>1, <1>3, <1>5 DEF Edit, n

(* What is appended holds no thinking.                                     *)
LEMMA AppendIsEdit ==
  ASSUME NEW m, History(m), NEW x, IsMessage(x), x.think = None,
         x.role = "user" <=> (Len(m) + 1) % 2 = 1
  PROVE  Edit(Append(m, x), m) /\ Len(Append(m, x)) = Len(m) + 1
<1> DEFINE n == Append(m, x)
<1>1. /\ History(n) /\ Len(n) = Len(m) + 1 /\ n[Len(m) + 1] = x
      /\ \A i \in 1 .. Len(m) : n[i] = m[i]
  BY AppendKeeps
<1>2. Len(m) \in Nat
  BY ListLength DEF History
<1> HIDE DEF n
<1>3. \A i \in 1 .. Len(n) : i \in 1 .. Len(m) \/ i = Len(m) + 1
  BY <1>1, <1>2
<1>4. ASSUME NEW i \in 1 .. Len(n), n[i].think # None
      PROVE  i \in 1 .. Len(m) /\ n[i].think = m[i].think /\ \A j \in 1 .. i - 1 : n[j] = m[j]
  <2>1. i \in 1 .. Len(m)
    BY <1>1, <1>3, <1>4
  <2>2. \A j \in 1 .. i - 1 : j \in 1 .. Len(m)
    BY <1>2, <2>1
  <2>3. \A j \in 1 .. Len(m) : n[j] = m[j]
    BY <1>1
  <2>4. n[i].think = m[i].think
    BY <2>1, <2>3
  <2> QED
    BY <2>1, <2>2, <2>3, <2>4
<1>5. Stands(n, m)
  BY <1>4 DEF Stands
<1> QED
  BY <1>1, <1>5 DEF Edit, n

LEMMA SayingType == IsMessage(Saying(1)) /\ Saying(1).think = None /\ Saying(1).role = "user"
<1>1. NoPart \in Part
  BY DEF NoPart, Part
<1> QED
  BY <1>1 DEF Saying, IsMessage

(* A user turn with one more text is the last again, and holds no thinking. *)
LEMMA TextIsEdit ==
  ASSUME NEW m, History(m)
  PROVE  /\ Edit(AppendUserText(m), m)
         /\ Len(AppendUserText(m)) % 2 = 1 /\ Len(AppendUserText(m)) >= Len(m)
<1>1. PICK S : m \in Seq(S)
  BY DEF History, IsList
<1>2. Len(m) \in Nat /\ (m # << >> => Len(m) \in 1 .. Len(m))
  BY <1>1
<1>3. \A i \in 1 .. Len(m) : IsMessage(m[i]) /\ (m[i].role = "user" <=> i % 2 = 1)
  BY DEF History, Alternates
<1>4. CASE m # << >> /\ m[Len(m)].role = "user"
  <2> DEFINE x == [m[Len(m)] EXCEPT !.text = @ + 1]
             n == [m EXCEPT ![Len(m)] = x]
  <2>1. Len(m) \in 1 .. Len(m) /\ IsMessage(m[Len(m)])
    BY <1>2, <1>3, <1>4
  <2>2. IsMessage(x) /\ x.role = "user" /\ x.think = m[Len(m)].think
    BY <1>4, <2>1, MessageWithText
  <2>3. x.think = None
    BY <2>2 DEF IsMessage
  <2>4. AppendUserText(m) = n
    BY <1>4 DEF AppendUserText
  <2> HIDE DEF x
  <2>5. /\ History(n) /\ Len(n) = Len(m)
        /\ \A j \in 1 .. Len(m) : n[j] = IF j = Len(m) THEN x ELSE m[j]
    BY <1>4, <2>1, <2>2, OneEdited
  <2> HIDE DEF n
  <2>6. ASSUME NEW i \in 1 .. Len(n), n[i].think # None
        PROVE  i \in 1 .. Len(m) /\ n[i].think = m[i].think /\ \A j \in 1 .. i - 1 : n[j] = m[j]
    <3>1. i \in 1 .. Len(m) /\ i # Len(m)
      BY <2>3, <2>5, <2>6
    <3>2. \A j \in 1 .. i - 1 : j \in 1 .. Len(m) /\ j # Len(m)
      BY <1>2, <3>1
    <3> QED
      BY <2>5, <3>1, <3>2
  <2>7. Len(m) % 2 = 1
    BY <1>3, <1>4, <2>1
  <2> QED
    BY <1>2, <2>4, <2>5, <2>6, <2>7 DEF Edit, Stands
<1>5. CASE ~ (m # << >> /\ m[Len(m)].role = "user")
  <2>1. Len(m) % 2 = 0
    <3>1. CASE m = << >>
      BY <3>1
    <3>2. CASE m # << >>
      <4>1. Len(m) \in 1 .. Len(m) /\ ~ Len(m) % 2 = 1
        BY <1>2, <1>3, <1>5, <3>2
      <4> QED
        BY <4>1
    <3> QED
      BY <3>1, <3>2
  <2>2. (Len(m) + 1) % 2 = 1
    BY <1>2, <2>1
  <2>3. AppendUserText(m) = Append(m, Saying(1))
    BY <1>5 DEF AppendUserText
  <2>4. Edit(Append(m, Saying(1)), m) /\ Len(Append(m, Saying(1))) = Len(m) + 1
    BY <2>2, SayingType, AppendIsEdit
  <2> QED
    BY <1>2, <2>2, <2>3, <2>4
<1> QED
  BY <1>4, <1>5

(* Elision takes the thinking from the message it changes on.              *)
LEMMA ElidedIsEdit ==
  ASSUME NEW m, History(m), NEW i \in 1 .. Len(m), NEW img \in BOOLEAN
  PROVE  Edit(Elided(m, i, img), m) /\ Len(Elided(m, i, img)) = Len(m)
<1> DEFINE x == [m[i] EXCEPT !.part = Stubbed(@, img)]
           n == [m EXCEPT ![i] = x]
           d == DropThinking(n, i)
<1>1. IsMessage(m[i])
  BY DEF History, Alternates
<1>2. IsMessage(x) /\ x.role = m[i].role
  <2>1. Stubbed(m[i].part, img) \in Part
    BY <1>1, StubbedType DEF IsMessage
  <2> QED
    BY <1>1, <2>1, MessageWithPart
<1>3. Elided(m, i, img) = d
  BY DEF Elided
<1> HIDE DEF x
<1>4. /\ History(n) /\ Len(n) = Len(m)
      /\ \A j \in 1 .. Len(m) : n[j] = IF j = i THEN x ELSE m[j]
  BY <1>2, OneEdited
<1> HIDE DEF n
<1>5. /\ Edit(d, n) /\ Len(d) = Len(m)
      /\ \A j \in 1 .. Len(m) : j >= i => d[j].think = None
  BY <1>4, DropIsEdit
<1>6. Len(m) \in Nat
  BY ListLength DEF History
<1> HIDE DEF d
<1>7. ASSUME NEW k \in 1 .. Len(d), d[k].think # None
      PROVE  k \in 1 .. Len(m) /\ d[k].think = m[k].think /\ \A j \in 1 .. k - 1 : d[j] = m[j]
  <2>1. k \in 1 .. Len(m) /\ k < i
    BY <1>5, <1>7
  <2>2. d[k].think = n[k].think /\ \A j \in 1 .. k - 1 : d[j] = n[j]
    BY <1>5, <1>7 DEF Edit, Stands
  <2>3. \A j \in 1 .. k : j \in 1 .. Len(m) /\ j # i
    BY <1>6, <2>1
  <2>4. \A j \in 1 .. k : n[j] = m[j]
    BY <1>4, <2>3
  <2> QED
    BY <2>1, <2>2, <2>4
<1> QED
  BY <1>3, <1>5, <1>7 DEF Edit, Stands

(* Redaction, too: before the first message it changes, none changes.      *)
LEMMA DumpedIsEdit ==
  ASSUME NEW m, History(m)
  PROVE  Edit(Dumped(m), m) /\ Len(Dumped(m)) = Len(m)
<1> DEFINE r == [i \in 1 .. Len(m) |-> Redacted(m[i])]
           S == {i \in 1 .. Len(m) : Redacted(m[i]) # m[i]}
           k == FirstOf(S, m)
           d == DropThinking(r, k)
<1>1. Len(m) \in Nat /\ \A i \in 1 .. Len(m) : IsMessage(m[i])
  BY ListLength DEF History, Alternates
<1>2. r \in Seq({r[i] : i \in 1 .. Len(m)}) /\ Len(r) = Len(m)
  BY <1>1
<1>3. \A i \in 1 .. Len(m) : r[i] = Redacted(m[i])
  OBVIOUS
<1>4. Dumped(m) = d
  BY DEF Dumped, FirstRedacted
<1> HIDE DEF r
<1>5. History(r)
  <2>1. \A i \in 1 .. Len(m) : IsMessage(r[i]) /\ r[i].role = m[i].role
    BY <1>1, <1>3, MessageRedacted
  <2> QED
    BY <1>2, <2>1, EditedHistory DEF IsList
<1>6. k \in Int /\ \A j \in 1 .. Len(m) : j < k => r[j] = m[j]
  <2>1. CASE S = {}
    <3>1. k = Len(m) + 1
      BY <2>1 DEF FirstOf
    <3> QED
      BY <1>1, <1>3, <2>1, <3>1
  <2>2. CASE S # {}
    <3>1. S \in SUBSET (1 .. Len(m))
      OBVIOUS
    <3> HIDE DEF S
    <3>2. k \in S /\ \A j \in S : k <= j
      BY <1>1, <2>2, <3>1, FirstIsLeast
    <3>3. k \in Int
      <4>1. k \in 1 .. Len(m)
        BY <3>1, <3>2
      <4> HIDE DEF k
      <4> QED
        BY <4>1
    <3>4. \A j \in 1 .. Len(m) : j < k => j \notin S
      BY <3>2, <3>3
    <3> QED
      BY <1>3, <3>3, <3>4 DEF S
  <2> QED
    BY <2>1, <2>2
<1> HIDE DEF k
<1>7. /\ Edit(d, r) /\ Len(d) = Len(m)
      /\ \A j \in 1 .. Len(m) : j >= k => d[j].think = None
  BY <1>2, <1>5, <1>6, DropIsEdit
<1> HIDE DEF d
<1>8. ASSUME NEW i \in 1 .. Len(d), d[i].think # None
      PROVE  i \in 1 .. Len(m) /\ d[i].think = m[i].think /\ \A j \in 1 .. i - 1 : d[j] = m[j]
  <2>1. i \in 1 .. Len(m) /\ i < k
    BY <1>6, <1>7, <1>8
  <2>2. d[i].think = r[i].think /\ \A j \in 1 .. i - 1 : d[j] = r[j]
    BY <1>7, <1>8 DEF Edit, Stands
  <2>3. \A j \in 1 .. i : j \in 1 .. Len(m) /\ j < k
    BY <1>1, <1>6, <2>1
  <2>4. \A j \in 1 .. i : r[j] = m[j]
    BY <1>6, <2>3
  <2>5. i \in 1 .. i /\ \A j \in 1 .. i - 1 : j \in 1 .. i
    BY <1>1, <2>1
  <2> QED
    BY <2>1, <2>2, <2>4, <2>5
<1> QED
  BY <1>4, <1>7, <1>8 DEF Edit, Stands

(* An old file is a history, and so is what is loaded of it.               *)
LEMMA LoadedIsEdit ==
  ASSUME NEW f \in OldFiles
  PROVE  /\ History(f.msgs) /\ Edit(Loaded(f), f.msgs) /\ Len(Loaded(f)) = Len(f.msgs)
         /\ \A i \in 1 .. Len(f.msgs) :
              i >= FirstMarked(f.msgs) => Loaded(f)[i].think = None
<1> DEFINE m == f.msgs
           S == {i \in 1 .. Len(m) : m[i].part.form # "whole"}
           k == FirstOf(S, m)
<1>1. History(m) /\ ~ f.vetted
  BY OldFilesAssumption DEF History, IsList
<1>2. Loaded(f) = DropThinking(m, k)
  BY <1>1 DEF Loaded, FirstMarked
<1> HIDE DEF m
<1>3. Len(m) \in Nat
  BY <1>1, ListLength DEF History
<1>4. k \in Int
  <2>1. CASE S = {}
    BY <1>3, <2>1 DEF FirstOf
  <2>2. CASE S # {}
    <3>1. S \in SUBSET (1 .. Len(m))
      OBVIOUS
    <3> HIDE DEF S
    <3>2. k \in S
      BY <1>3, <2>2, <3>1, FirstIsLeast
    <3>3. k \in 1 .. Len(m)
      BY <3>1, <3>2
    <3> HIDE DEF k
    <3> QED
      BY <3>3
  <2> QED
    BY <2>1, <2>2
<1>5. k = FirstMarked(m)
  BY DEF FirstMarked
<1> HIDE DEF k
<1>6. /\ Edit(DropThinking(m, k), m) /\ Len(DropThinking(m, k)) = Len(m)
      /\ \A i \in 1 .. Len(m) : i >= k => DropThinking(m, k)[i].think = None
  BY <1>1, <1>4, DropIsEdit
<1> QED
  BY <1>1, <1>2, <1>5, <1>6 DEF m

-----------------------------------------------------------------------------
(***************************************************************************)
(* The type invariant.  A session with no tools yet has said nothing, the  *)
(* request the vendor answers is of the history, and a user turn is last   *)
(* until the model has replied.                                            *)
(***************************************************************************)
Turns ==
  /\ pc \in {"step", "compact", "request"} => Len(msgs) % 2 = 1
  /\ pc \in {"answered", "dispatch"} => Len(msgs) > 0 /\ Len(msgs) % 2 = 0

ToolsKnown ==
  /\ tools = None => msgs = << >>
  /\ pc # "idle" => tools # None

WireIsRequest ==
  pc = "request"
    => wire = [tools |-> Offered, system |-> system, msgs |-> Request(msgs, images)]

WellTyped == TypeOK /\ IsList(msgs) /\ Turns /\ ToolsKnown /\ WireIsRequest

LEMMA MeasureOfLonger ==
  ASSUME NEW m, NEW n, NEW l \in Measure(m), Len(m) \in Nat, Len(n) \in Nat, Len(n) >= Len(m)
  PROVE  l \in Measure(n)
BY DEF Measure

LEMMA RedactedIsSendable ==
  ASSUME NEW p \in Sendable
  PROVE  RedactedPrompt(p) \in Sendable
<1>1. CASE p \in Prompts
  BY <1>1 DEF Sendable
<1>2. CASE p \notin Prompts
  <2>1. PICK q \in Prompts : p = RedactedPrompt(q)
    BY <1>2 DEF Sendable
  <2>2. RedactedPrompt(p) = p
    BY <2>1, PromptsAssumption DEF RedactedPrompt
  <2> QED
    BY <2>2
<1> QED
  BY <1>1, <1>2

LEMMA TypeInit == Init => WellTyped
<1> SUFFICES ASSUME Init PROVE WellTyped
  OBVIOUS
<1>1. msgs \in Seq({}) /\ Len(msgs) = 0
  BY DEF Init
<1>2. NotMeasured \in Measure(msgs)
  BY <1>1 DEF NotMeasured, Measure
<1>3. TypeOK
  <2>1. Alternates(msgs)
    BY <1>1 DEF Alternates
  <2>2. last \in Measure(msgs) /\ 0 \in 0 .. MaxResumes
    BY <1>2 DEF Init
  <2> QED
    BY <2>1, <2>2, Zenon DEF Init, TypeOK, Sendable
<1>4. IsList(msgs)
  BY <1>1 DEF IsList
<1> QED
  BY <1>3, <1>4 DEF Init, WellTyped, Turns, ToolsKnown, WireIsRequest

(* What a resume reads is a session.                                       *)
LEMMA SavedIsSession ==
  ASSUME WellTyped, NEW f \in Saved
  PROVE  /\ History(Loaded(f)) /\ f.last \in Measure(Loaded(f))
         /\ f.tools \in ToolSets /\ f.system \in Sendable /\ f.retried \in BOOLEAN
<1>1. CASE f = File /\ tools # None
  <2>1. History(msgs)
    BY DEF WellTyped, TypeOK, History
  <2>2. Loaded(f) = Dumped(msgs)
    BY <1>1 DEF Loaded, File
  <2>3. History(Dumped(msgs)) /\ Len(Dumped(msgs)) = Len(msgs) /\ Len(msgs) \in Nat
    BY <2>1, DumpedIsEdit, ListLength DEF Edit, History
  <2>4. /\ f.last = last /\ f.tools = tools /\ f.retried = retried
        /\ f.system = RedactedPrompt(system)
    BY <1>1 DEF File
  <2>5. last \in Measure(msgs) /\ tools \in ToolSets /\ retried \in BOOLEAN /\ system \in Sendable
    BY <1>1 DEF WellTyped, TypeOK
  <2>6. last \in Measure(Dumped(msgs))
    BY <2>3, <2>5, MeasureOfLonger
  <2> QED
    BY <2>2, <2>3, <2>4, <2>5, <2>6, RedactedIsSendable
<1>2. CASE f \in OldFiles
  <2>1. /\ f.last \in Measure(f.msgs)
        /\ f.tools \in ToolSets /\ f.system \in Sendable /\ f.retried \in BOOLEAN
    BY <1>2, OldFilesAssumption
  <2>2. /\ History(Loaded(f)) /\ Len(Loaded(f)) = Len(f.msgs) /\ Len(f.msgs) \in Nat
    BY <1>2, LoadedIsEdit, ListLength DEF Edit, History
  <2>3. f.last \in Measure(Loaded(f))
    BY <2>1, <2>2, MeasureOfLonger
  <2> QED
    BY <2>1, <2>2, <2>3
<1> QED
  BY <1>1, <1>2 DEF Saved

LEMMA ResumeTypes == WellTyped /\ Resume => WellTyped'
<1> SUFFICES ASSUME WellTyped, Resume PROVE WellTyped'
  OBVIOUS
<1>1. PICK f \in Saved, given \in Prompts \cup {None} :
        /\ resumes < MaxResumes /\ resumes' = resumes + 1
        /\ msgs' = IF PromptChanged(given, f) THEN DropThinking(Loaded(f), 1) ELSE Loaded(f)
        /\ last' = f.last /\ retried' = f.retried
        /\ tools' = f.tools /\ system' = Adopted(given, f)
        /\ images' \in ImageInputs
        /\ pc' = "idle" /\ stop' = None
        /\ wire' = None /\ summary' = FALSE
  BY DEF Resume
<1>2. /\ History(Loaded(f)) /\ f.last \in Measure(Loaded(f))
      /\ f.tools \in ToolSets /\ f.system \in Sendable /\ f.retried \in BOOLEAN
  BY SavedIsSession
<1>3. Len(Loaded(f)) \in Nat
  BY <1>2, ListLength DEF History
<1>4. History(msgs') /\ Len(msgs') = Len(Loaded(f))
  <2>1. History(DropThinking(Loaded(f), 1)) /\ Len(DropThinking(Loaded(f), 1)) = Len(Loaded(f))
    BY <1>2, DropThinkingKeeps
  <2> QED
    BY <1>1, <1>2, <2>1
<1>5. last' \in Measure(msgs')
  BY <1>1, <1>2, <1>3, <1>4, MeasureOfLonger
<1>6. system' \in Sendable
  BY <1>1, <1>2 DEF Adopted, Sendable
<1>7. resumes' \in 0 .. MaxResumes
  BY <1>1 DEF WellTyped, TypeOK
<1>8. /\ tools' \in ToolSets \cup {None} /\ tools' # None /\ images' \in ImageInputs
      /\ retried' \in BOOLEAN /\ stop' = None /\ pc' = "idle" /\ summary' = FALSE
  BY <1>1, <1>2
<1>9. TypeOK'
  BY <1>4, <1>5, <1>6, <1>7, <1>8 DEF TypeOK, History
<1> QED
  BY <1>4, <1>8, <1>9 DEF WellTyped, Turns, ToolsKnown, WireIsRequest, History

(* The start of a run, which an unknown tool set cannot have thought in.   *)
LEMMA RunTypes ==
  ASSUME WellTyped, NEW now \in ToolSets, Run(now)
  PROVE  WellTyped'
<1> DEFINE m == AppendUserText(msgs)
           n == IF PrefixChanges(now) THEN DropThinking(m, 1) ELSE m
<1>1. History(msgs) /\ last \in Measure(msgs)
  BY DEF WellTyped, TypeOK, History
<1>2. History(m) /\ Len(m) % 2 = 1 /\ Len(m) >= Len(msgs)
  BY <1>1, TextIsEdit DEF Edit
<1> HIDE DEF m
<1>3. History(DropThinking(m, 1)) /\ Len(DropThinking(m, 1)) = Len(m)
  BY <1>2, DropThinkingKeeps
<1>4. History(n) /\ Len(n) = Len(m)
  BY <1>2, <1>3
<1>5. msgs' = n
  BY DEF Run, m
<1> HIDE DEF n
<1>6. last' \in Measure(msgs')
  <2>1. last' = last /\ Len(msgs) \in Nat /\ Len(n) \in Nat /\ Len(n) >= Len(msgs)
    BY <1>1, <1>2, <1>4, ListLength DEF Run, History
  <2> QED
    BY <1>1, <1>5, <2>1, MeasureOfLonger
<1>7. /\ tools' \in ToolSets /\ tools' # None /\ retried' \in BOOLEAN /\ stop' = None
      /\ pc' = "step" /\ summary' = FALSE /\ UNCHANGED <<system, images, resumes>>
  BY DEF Run
<1>8. TypeOK'
  BY <1>4, <1>5, <1>6, <1>7 DEF WellTyped, TypeOK, History
<1> QED
  BY <1>2, <1>4, <1>5, <1>7, <1>8 DEF WellTyped, Turns, ToolsKnown, WireIsRequest, History

(* The steps that leave the history alone.                                 *)
LEMMA QuietTypes ==
  ASSUME WellTyped,
         Compact \/ ContextStop \/ Send \/ RequestFails \/ Finish \/ UNCHANGED vars
  PROVE  WellTyped'
<1>1. UNCHANGED <<msgs, last, tools, system, images, retried, resumes, summary>>
  BY DEF Compact, ContextStop, Send, RequestFails, Finish, Ends, vars, session
<1>2. /\ pc' \in {"idle", "compact", "request"} \/ UNCHANGED pc
      /\ stop' \in {"context", "error", "done", "max_turns"} \/ UNCHANGED stop
      /\ pc' \in {"compact", "request"} => pc \in {"step", "compact", "request"}
      /\ pc' # "idle" => pc # "idle"
  BY DEF Compact, ContextStop, Send, RequestFails, Finish, Ends, vars, session, Compacted
<1>3. TypeOK'
  BY <1>1, <1>2 DEF WellTyped, TypeOK
<1>4. WireIsRequest'
  <2>1. CASE UNCHANGED vars
    BY <2>1 DEF WellTyped, WireIsRequest, vars, session, Offered
  <2>2. CASE Send
    BY <2>2 DEF Send, WireIsRequest, Offered, session
  <2>3. CASE Compact \/ ContextStop \/ RequestFails \/ Finish
    <3>1. pc' # "request"
      BY <2>3 DEF Compact, ContextStop, RequestFails, Finish, Ends
    <3> QED
      BY <3>1 DEF WireIsRequest
  <2> QED
    BY <2>1, <2>2, <2>3
<1>5. Turns' /\ ToolsKnown'
  BY <1>1, <1>2 DEF WellTyped, Turns, ToolsKnown
<1> QED
  BY <1>1, <1>3, <1>4, <1>5 DEF WellTyped

(* What compaction takes is of the history.                                *)
LEMMA TakenIsOfHistory ==
  ASSUME History(msgs)
  PROVE  /\ OldResults(msgs, images) # {}
              => FirstOf(OldResults(msgs, images), msgs) \in 1 .. Len(msgs)
         /\ OldInputs(msgs) # {} => FirstOf(OldInputs(msgs), msgs) \in 1 .. Len(msgs)
<1>1. Len(msgs) \in Nat
  BY ListLength DEF History
<1>2. OldResults(msgs, images) \in SUBSET (1 .. Len(msgs))
  BY <1>1 DEF OldResults
<1>3. OldInputs(msgs) \in SUBSET (1 .. Len(msgs))
  BY DEF OldInputs
<1>4. ASSUME NEW S \in SUBSET (1 .. Len(msgs)), S # {}
      PROVE  FirstOf(S, msgs) \in 1 .. Len(msgs)
  BY <1>1, <1>4, FirstIsLeast
<1> QED
  BY <1>2, <1>3, <1>4

LEMMA ElideTypes ==
  ASSUME WellTyped, ElideResult \/ ElideInput
  PROVE  WellTyped' /\ Edit(msgs', msgs)
<1>1. History(msgs) /\ images \in BOOLEAN /\ last \in Measure(msgs)
  BY DEF WellTyped, TypeOK, History
<1>2. PICK i \in 1 .. Len(msgs) : msgs' = Elided(msgs, i, images)
  BY <1>1, TakenIsOfHistory DEF ElideResult, ElideInput
<1>3. Edit(msgs', msgs) /\ Len(msgs') = Len(msgs)
  BY <1>1, <1>2, ElidedIsEdit
<1>4. /\ UNCHANGED <<last, tools, system, images, retried, resumes, summary, stop, pc>>
      /\ pc = "compact"
  BY DEF ElideResult, ElideInput
<1>5. last' \in Measure(msgs')
  BY <1>1, <1>3, <1>4, ListLength, MeasureOfLonger DEF History
<1>6. TypeOK'
  BY <1>3, <1>4, <1>5 DEF WellTyped, TypeOK, Edit, History
<1> QED
  BY <1>3, <1>4, <1>6 DEF WellTyped, Turns, ToolsKnown, WireIsRequest, Edit, History

(* The reply is a turn of its own, and its thinking is of the request.     *)
LEMMA ReplyTypes ==
  ASSUME WellTyped, ReplyCalls \/ ReplyAnswers
  PROVE  /\ WellTyped'
         /\ \E turn : /\ msgs' = Append(msgs, turn) /\ IsMessage(turn)
                      /\ turn.role = "assistant" /\ turn.think \in {None, wire}
<1>1. History(msgs) /\ pc = "request" /\ Len(msgs) % 2 = 1 /\ tools # None /\ images \in BOOLEAN
  BY DEF WellTyped, TypeOK, History, Turns, ToolsKnown, ReplyCalls, ReplyAnswers
<1>2. wire.tools \in ToolSets \cup {NoTools} /\ wire.system \in Sendable
  <2>1. wire = [tools |-> Offered, system |-> system, msgs |-> Request(msgs, images)]
    BY <1>1 DEF WellTyped, WireIsRequest
  <2>2. Offered \in ToolSets \cup {NoTools} /\ system \in Sendable
    BY <1>1 DEF WellTyped, TypeOK, Offered
  <2> QED
    BY <2>1, <2>2
<1>3. NoPart \in Part
  BY DEF NoPart, Part
<1>4. ASSUME NEW think \in {None, wire}, NEW text \in Nat, NEW call \in CallNames \cup {None},
             NEW part \in Part
      PROVE  LET turn == Turn(think, text, call, part) IN
             /\ IsMessage(turn) /\ turn.role = "assistant" /\ turn.think \in {None, wire}
             /\ turn.call = call
  BY <1>2 DEF Turn, IsMessage
<1>5. PICK think \in Thoughts, text \in Nat, call \in CallNames \cup {None}, part \in Part :
        Replied(Turn(think, text, call, part))
  <2>1. CASE ReplyCalls
    <3>1. PICK think \in Thoughts, c \in Calls : Replied(Turn(think, 0, c.name, c.part))
      BY <2>1 DEF ReplyCalls
    <3>2. c.name \in CallNames /\ c.part \in Part
      BY CallsAssumption
    <3> QED
      BY <3>1, <3>2
  <2>2. CASE ReplyAnswers
    <3>1. PICK think \in Thoughts, text \in 0 .. 1 : Replied(Turn(think, text, None, NoPart))
      BY <2>2 DEF ReplyAnswers
    <3> QED
      BY <3>1, <1>3
  <2> QED
    BY <2>1, <2>2
<1> DEFINE turn == Turn(think, text, call, part)
<1>6. /\ IsMessage(turn) /\ turn.role = "assistant" /\ turn.think \in {None, wire}
      /\ turn.call = call
  <2>1. think \in {None, wire}
    BY DEF Thoughts
  <2> QED
    BY <1>4, <2>1
<1>7. Replied(turn)
  BY <1>5
<1> HIDE DEF turn
<1>8. /\ msgs' = Append(msgs, turn) /\ last' = Measured(Append(msgs, turn))
      /\ pc' \in {"answered", "dispatch"}
      /\ UNCHANGED <<tools, system, retried, summary, stop, images, resumes>>
  BY <1>7 DEF Replied
<1>9. Len(msgs) \in Nat
  BY <1>1, ListLength DEF History
<1>10. /\ History(msgs') /\ Len(msgs') = Len(msgs) + 1
  <2>1. ~ (Len(msgs) + 1) % 2 = 1
    BY <1>1, <1>9
  <2> QED
    BY <1>1, <1>6, <1>8, <2>1, AppendKeeps
<1>11. last' \in Measure(msgs')
  <2>1. Size(msgs, images) \in Nat
    BY <1>1, SizeType
  <2>2. Measured(Append(msgs, turn)) \in Measure(msgs')
    BY <1>1, <1>9, <1>10, <2>1 DEF Measured, Measure
  <2> QED
    BY <1>8, <2>2
<1>12. TypeOK'
  BY <1>8, <1>10, <1>11 DEF WellTyped, TypeOK, History
<1>13. Len(msgs') % 2 = 0 /\ Len(msgs') > 0
  BY <1>1, <1>9, <1>10
<1>14. WellTyped'
  BY <1>1, <1>8, <1>10, <1>12, <1>13 DEF WellTyped, Turns, ToolsKnown, WireIsRequest, History
<1> QED
  BY <1>6, <1>8, <1>14

LEMMA DispatchTypes ==
  ASSUME WellTyped, Dispatch
  PROVE  WellTyped' /\ Edit(msgs', msgs)
<1>1. /\ History(msgs) /\ pc = "dispatch" /\ Len(msgs) % 2 = 0 /\ tools # None
      /\ last \in Measure(msgs) /\ Len(msgs) \in 1 .. Len(msgs)
  <2>1. History(msgs)
    BY DEF WellTyped, TypeOK, History
  <2>2. Len(msgs) \in Nat
    BY <2>1, ListLength DEF History
  <2> QED
    BY <2>1, <2>2 DEF WellTyped, TypeOK, Turns, ToolsKnown, Dispatch
<1>2. PICK r \in Answers(msgs[Len(msgs)].call) :
        msgs' = Append(msgs, [role |-> "user", text |-> 0, think |-> None,
                              call |-> r.name, part |-> r.part, error |-> r.error])
  BY DEF Dispatch
<1> DEFINE turn == [role |-> "user", text |-> 0, think |-> None,
                    call |-> r.name, part |-> r.part, error |-> r.error]
<1>3. IsMessage(turn) /\ turn.think = None /\ turn.role = "user"
  <2>1. r.part \in Part /\ r.error \in BOOLEAN /\ r.name = msgs[Len(msgs)].call
    <3>1. Notice \in Part
      BY DEF Notice, NoPart, Part
    <3>2. CASE summary
      <4>1. r = [name |-> msgs[Len(msgs)].call, part |-> Notice, error |-> TRUE]
        BY <3>2 DEF Answers
      <4> QED
        BY <3>1, <4>1
    <3>3. CASE ~ summary
      <4>1. r \in Results /\ r.name = msgs[Len(msgs)].call
        BY <1>2, <3>3 DEF Answers
      <4> QED
        BY <4>1, CallsAssumption
    <3> QED
      BY <3>2, <3>3
  <2>2. IsMessage(msgs[Len(msgs)])
    BY <1>1 DEF History, Alternates
  <2>3. r.name \in CallNames \cup {None}
    BY <2>1, <2>2 DEF IsMessage
  <2> QED
    BY <2>1, <2>3 DEF IsMessage
<1> HIDE DEF turn
<1>4. (Len(msgs) + 1) % 2 = 1
  BY <1>1
<1>5. Edit(msgs', msgs) /\ Len(msgs') = Len(msgs) + 1
  BY <1>1, <1>2, <1>3, <1>4, AppendIsEdit DEF turn
<1>6. /\ pc' \in {"step", "idle"} /\ stop' \in {stop, "max_turns"}
      /\ UNCHANGED <<last, tools, system, retried, summary, images, wire, resumes>>
  BY DEF Dispatch, Ends
<1>7. last' \in Measure(msgs')
  <2>1. Len(msgs) \in Nat /\ Len(msgs') \in Nat /\ Len(msgs') >= Len(msgs)
    BY <1>1, <1>5
  <2> QED
    BY <1>1, <1>6, <2>1, MeasureOfLonger
<1>8. TypeOK'
  BY <1>5, <1>6, <1>7 DEF WellTyped, TypeOK, Edit, History
<1> QED
  BY <1>1, <1>4, <1>5, <1>6, <1>8 DEF WellTyped, Turns, ToolsKnown, WireIsRequest, Edit, History

(* A correction and the request for a summary append a text.               *)
LEMMA CorrectTypes ==
  ASSUME WellTyped, Correct \/ Summarise
  PROVE  WellTyped' /\ Edit(msgs', msgs)
<1>1. History(msgs) /\ tools # None /\ last \in Measure(msgs)
  BY DEF WellTyped, TypeOK, History, ToolsKnown, Correct, Summarise
<1>2. /\ msgs' = AppendUserText(msgs) /\ pc' \in {"step", "idle"} /\ retried' \in BOOLEAN
      /\ stop' \in {stop, "max_turns"}
      /\ UNCHANGED <<last, tools, system, images, wire, resumes>> /\ summary' \in BOOLEAN
  BY DEF WellTyped, TypeOK, Correct, Summarise, Ends
<1>3. Edit(msgs', msgs) /\ Len(msgs') % 2 = 1 /\ Len(msgs') >= Len(msgs)
  BY <1>1, <1>2, TextIsEdit
<1>4. last' \in Measure(msgs')
  <2>1. Len(msgs) \in Nat /\ Len(msgs') \in Nat
    BY <1>1, <1>3, ListLength DEF Edit, History
  <2> QED
    BY <1>1, <1>2, <1>3, <2>1, MeasureOfLonger
<1>5. TypeOK'
  BY <1>2, <1>3, <1>4 DEF WellTyped, TypeOK, Edit, History
<1> QED
  BY <1>1, <1>2, <1>3, <1>5 DEF WellTyped, Turns, ToolsKnown, WireIsRequest, Edit, History

LEMMA TypeStep == WellTyped /\ [Next]_vars => WellTyped'
<1> SUFFICES ASSUME WellTyped, [Next]_vars PROVE WellTyped'
  OBVIOUS
<1>1. CASE Resume
  BY <1>1, ResumeTypes
<1>2. CASE \E now \in ToolSets : Run(now)
  BY <1>2, RunTypes
<1>3. CASE Compact \/ ContextStop \/ Send \/ RequestFails \/ Finish \/ UNCHANGED vars
  BY <1>3, QuietTypes
<1>4. CASE ElideResult \/ ElideInput
  BY <1>4, ElideTypes
<1>5. CASE ReplyCalls \/ ReplyAnswers
  BY <1>5, ReplyTypes
<1>6. CASE Dispatch
  BY <1>6, DispatchTypes
<1>7. CASE Correct \/ Summarise
  BY <1>7, CorrectTypes
<1> QED
  BY <1>1, <1>2, <1>3, <1>4, <1>5, <1>6, <1>7 DEF Next

LEMMA TypesHold == Spec => []WellTyped
<1>1. Init => WellTyped
  BY TypeInit
<1>2. WellTyped /\ [Next]_vars => WellTyped'
  BY TypeStep
<1> QED
  BY <1>1, <1>2, PTL DEF Spec

(* Every variable keeps its type, and the roles of the history alternate,  *)
(* however it is compacted, saved, resumed, corrected and appended to.     *)
THEOREM TypeCorrect == Spec => []TypeOK
<1>1. WellTyped => TypeOK
  BY DEF WellTyped
<1> QED
  BY <1>1, TypesHold, PTL

-----------------------------------------------------------------------------
(***************************************************************************)
(* The estimate.                                                           *)
(***************************************************************************)

(* Of a history a part of which was measured, it is the size of the whole  *)
(* and what the measured request held besides the messages.                *)
MeasuredWell == last.tokens > 0 => last.tokens = last.chars + Overhead

LEMMA MaxOfTwo ==
  ASSUME NEW n \in Int
  PROVE  Max({0, n}) \in Nat /\ (n \in Nat => Max({0, n}) = n)
<1> DEFINE S == {0, n}
<1>1. \E x \in S : \A y \in S : x >= y
  <2>1. CASE n >= 0
    BY <2>1
  <2>2. CASE ~ n >= 0
    BY <2>2
  <2> QED
    BY <2>1, <2>2
<1>2. Max(S) \in S /\ \A y \in S : Max(S) >= y
  <2> HIDE DEF S
  <2> QED
    BY <1>1 DEF Max
<1> QED
  BY <1>2

LEMMA EstimateIs ==
  ASSUME WellTyped, MeasuredWell
  PROVE  /\ Estimate(msgs, images) \in Nat
         /\ last.tokens > 0 /\ last.images = images
              => Estimate(msgs, images) = Size(msgs, images) + Overhead
<1>1. /\ History(msgs) /\ images \in BOOLEAN /\ last \in Measure(msgs)
      /\ last.tokens \in Nat /\ last.chars \in Nat /\ last.messages \in 0 .. Len(msgs)
  BY DEF WellTyped, TypeOK, History, Measure
<1>2. Size(msgs, images) \in Nat
  BY <1>1, SizeType
<1>3. CASE last.tokens = 0 \/ last.images # images
  BY <1>2, <1>3 DEF Estimate
<1>4. CASE ~ (last.tokens = 0 \/ last.images # images)
  <2> DEFINE before == Size(SubSeq(msgs, 1, last.messages), images)
             after == Size(SubSeq(msgs, last.messages + 1, Len(msgs)), images)
             sum == last.tokens + (before - last.chars) + after
  <2>1. before \in Nat /\ after \in Nat /\ before + after = Size(msgs, images)
    BY <1>1, SizeSplits
  <2>2. Estimate(msgs, images) = Max({0, sum})
    BY <1>4 DEF Estimate
  <2> HIDE DEF before, after
  <2>3. last.tokens = last.chars + Overhead
    BY <1>1, <1>4 DEF MeasuredWell
  <2>4. sum = Size(msgs, images) + Overhead /\ sum \in Nat
    <3>1. last.chars \in Nat /\ Overhead \in Nat
      BY <1>1
    <3>2. sum = (last.chars + Overhead) + (before - last.chars) + after
      BY <2>3
    <3>3. sum = before + after + Overhead
      BY <2>1, <3>1, <3>2
    <3> HIDE DEF sum
    <3> QED
      BY <1>2, <2>1, <3>1, <3>3
  <2> HIDE DEF sum
  <2> QED
    BY <2>2, <2>4, MaxOfTwo
<1> QED
  BY <1>3, <1>4

LEMMA MeasureInit == Init => MeasuredWell
BY DEF Init, MeasuredWell, NotMeasured

LEMMA MeasureStep == WellTyped /\ MeasuredWell /\ [Next]_vars => MeasuredWell'
<1> SUFFICES ASSUME WellTyped, MeasuredWell, [Next]_vars PROVE MeasuredWell'
  OBVIOUS
<1>1. CASE Resume
  <2>1. PICK f \in Saved : last' = f.last
    BY <1>1 DEF Resume
  <2>2. CASE f = File
    BY <2>1, <2>2 DEF File, MeasuredWell
  <2>3. CASE f \in OldFiles
    BY <2>1, <2>3, OldFilesAssumption DEF MeasuredWell
  <2> QED
    BY <2>2, <2>3 DEF Saved
<1>2. CASE ReplyCalls \/ ReplyAnswers
  <2>1. History(msgs) /\ images \in BOOLEAN
    BY DEF WellTyped, TypeOK, History
  <2>2. Size(msgs, images) \in Nat
    BY <2>1, SizeType
  <2>3. PICK m : last' = Measured(m)
    BY <1>2 DEF ReplyCalls, ReplyAnswers, Replied
  <2> QED
    BY <2>2, <2>3 DEF Measured, MeasuredWell
<1>3. CASE UNCHANGED last
  BY <1>3 DEF MeasuredWell
<1>4. ASSUME ~ Resume, ~ (ReplyCalls \/ ReplyAnswers)
      PROVE  UNCHANGED last
  BY <1>4 DEF Next, Run, Summarise, Compact, ElideResult, ElideInput, ContextStop, Send,
              RequestFails, Dispatch, Finish, Correct, vars, session
<1> QED
  BY <1>1, <1>2, <1>3, <1>4

(***************************************************************************)
(* A request is sent only when the estimate says that it fits.             *)
(***************************************************************************)
SentFits == pc = "request" => ~ Overfull(msgs, images)

LEMMA SentStep == SentFits /\ [Next]_vars => SentFits'
<1> SUFFICES ASSUME SentFits, [Next]_vars PROVE SentFits'
  OBVIOUS
<1>1. CASE Send
  BY <1>1 DEF Send, SentFits, Overfull, Estimate, session
<1>2. CASE UNCHANGED vars
  BY <1>2 DEF SentFits, Overfull, Estimate, vars, session
<1>3. CASE Resume
  BY <1>3 DEF Resume, SentFits
<1>4. CASE ~ Send /\ ~ UNCHANGED vars /\ ~ Resume
  <2>1. pc' # "request"
    BY <1>4 DEF Next, Run, Summarise, Compact, ElideResult, ElideInput, ContextStop,
                RequestFails, ReplyCalls, ReplyAnswers, Replied, Dispatch, Finish, Correct, Ends
  <2> QED
    BY <2>1 DEF SentFits
<1> QED
  BY <1>1, <1>2, <1>3, <1>4

(* Once a request was measured under the image setting of the run, the     *)
(* size of every later one is estimated exactly, whatever was appended,    *)
(* elided, dropped, redacted and resumed since, and so each sent fits.     *)
THEOREM RequestsAlwaysFit == Spec => []RequestsFit
<1>1. Init => WellTyped /\ MeasuredWell /\ SentFits
  BY TypeInit, MeasureInit DEF Init, SentFits
<1>2. /\ WellTyped /\ MeasuredWell /\ SentFits /\ [Next]_vars
      => WellTyped' /\ MeasuredWell' /\ SentFits'
  BY TypeStep, MeasureStep, SentStep
<1>3. WellTyped /\ MeasuredWell /\ SentFits => RequestsFit
  <2> SUFFICES ASSUME WellTyped, MeasuredWell, SentFits,
                      pc = "request", last.tokens > 0, last.images = images
               PROVE  Size(msgs, images) + Overhead < Window
    BY DEF RequestsFit
  <2>1. Estimate(msgs, images) = Size(msgs, images) + Overhead /\ Estimate(msgs, images) \in Nat
    BY EstimateIs
  <2>2. ~ Estimate(msgs, images) >= Window
    BY DEF SentFits, Overfull
  <2> QED
    BY <2>1, <2>2
<1> QED
  BY <1>1, <1>2, <1>3, PTL DEF Spec

-----------------------------------------------------------------------------
(***************************************************************************)
(* The stop for a full window.                                             *)
(***************************************************************************)
LEMMA StopStep ==
  WellTyped /\ MeasuredWell /\ StopIsHonest /\ [Next]_vars => StopIsHonest'
<1> SUFFICES ASSUME WellTyped, MeasuredWell, StopIsHonest, [Next]_vars
             PROVE  StopIsHonest'
  OBVIOUS
<1>1. CASE ContextStop
  <2>1. Compacted /\ Overfull(msgs, images) /\ UNCHANGED <<msgs, images>>
    BY <1>1 DEF ContextStop
  <2>2. Estimate(msgs, images) \in Nat
    BY EstimateIs
  <2>3. Full(msgs, images) /\ StillHigh(msgs, images)
    BY <2>1, <2>2 DEF Full, StillHigh, Overfull
  <2>4. OldResults(msgs, images) = {} /\ OldInputs(msgs) = {}
    BY <2>1, <2>3 DEF Compacted
  <2> QED
    BY <2>1, <2>4 DEF StopIsHonest
<1>2. CASE UNCHANGED vars
  BY <1>2 DEF StopIsHonest, vars, session
<1>3. CASE ~ ContextStop /\ ~ UNCHANGED vars
  <2>1. pc' # "idle" \/ stop' \in {None, "error", "done", "max_turns"}
    BY <1>3 DEF Next, Resume, Run, Summarise, Compact, ElideResult, ElideInput, Send,
                RequestFails, ReplyCalls, ReplyAnswers, Replied, Dispatch, Finish, Correct, Ends
  <2>2. None # "context"
    BY StopAssumption
  <2> QED
    BY <2>1, <2>2 DEF StopIsHonest
<1> QED
  BY <1>1, <1>2, <1>3

(* A run that stops for its context has let compaction take all it may:    *)
(* the limit it stops at is above the one compaction begins at and the one *)
(* it ends at.                                                             *)
THEOREM StopsAreHonest == Spec => []StopIsHonest
<1>1. Init => WellTyped /\ MeasuredWell /\ StopIsHonest
  BY TypeInit, MeasureInit, StopAssumption DEF Init, StopIsHonest
<1>2. /\ WellTyped /\ MeasuredWell /\ StopIsHonest /\ [Next]_vars
      => WellTyped' /\ MeasuredWell' /\ StopIsHonest'
  BY TypeStep, MeasureStep, StopStep
<1> QED
  BY <1>1, <1>2, PTL DEF Spec

-----------------------------------------------------------------------------
(***************************************************************************)
(* The thinking.                                                           *)
(***************************************************************************)
Fresh(m, img) ==
  \A i \in 1 .. Len(m) :
    m[i].think # None => m[i].think.msgs = Request(SubSeq(m, 1, i - 1), img)

MadeWithTools(m, t) == \A i \in 1 .. Len(m) : m[i].think # None => m[i].think.tools = t

MadeAfterPrompt(m, p) == \A i \in 1 .. Len(m) : m[i].think # None => m[i].think.system = p

(* The first messages of a request are the request of the first messages.  *)
LEMMA FrontOfRequest ==
  ASSUME NEW m, IsList(m), NEW img, NEW k \in 0 .. Len(m)
  PROVE  SubSeq(Request(m, img), 1, k) = Request(SubSeq(m, 1, k), img)
<1> DEFINE r == Request(m, img)
<1>1. PICK S : m \in Seq(S)
  BY DEF IsList
<1>2. Len(m) \in Nat /\ k \in Nat /\ k <= Len(m)
  BY <1>1
<1>3. r \in Seq({r[i] : i \in 1 .. Len(m)}) /\ Len(r) = Len(m)
  BY <1>2 DEF Request
<1>4. \A i \in 1 .. Len(m) : r[i] = Wire(m[i], img)
  BY DEF Request
<1>5. Len(SubSeq(m, 1, k)) = k /\ \A i \in 1 .. k : SubSeq(m, 1, k)[i] = m[i]
  BY <1>1, <1>2
<1> DEFINE f == [i \in 1 .. k |-> Wire(SubSeq(m, 1, k)[i], img)]
           g == [i \in 1 .. k |-> r[i]]
<1>6. Request(SubSeq(m, 1, k), img) = f
  BY <1>5 DEF Request
<1>7. SubSeq(r, 1, k) = g
  <2> HIDE DEF r
  <2> QED
    BY <1>2, <1>3
<1>8. \A i \in 1 .. k : Wire(SubSeq(m, 1, k)[i], img) = r[i]
  <2> HIDE DEF r
  <2>1. \A i \in 1 .. k : i \in 1 .. Len(m)
    BY <1>2
  <2> QED
    BY <1>4, <1>5, <2>1
<1> HIDE DEF r
<1>9. f = g
  BY <1>8
<1> QED
  BY <1>6, <1>7, <1>9 DEF r

(* Histories that agree up to a message agree on what was sent before it.  *)
LEMMA FrontsAgree ==
  ASSUME NEW m, NEW n, IsList(m), IsList(n), NEW k \in Nat, k <= Len(m), k <= Len(n),
         \A j \in 1 .. k : n[j] = m[j]
  PROVE  SubSeq(n, 1, k) = SubSeq(m, 1, k)
<1>1. PICK S : m \in Seq(S)
  BY DEF IsList
<1>2. PICK T : n \in Seq(T)
  BY DEF IsList
<1>3. SubSeq(m, 1, k) = [j \in 1 .. k |-> m[j]]
  BY <1>1
<1>4. SubSeq(n, 1, k) = [j \in 1 .. k |-> n[j]]
  BY <1>2
<1> QED
  BY <1>3, <1>4

LEMMA EditsKeepFresh ==
  ASSUME NEW m, NEW n, History(m), Edit(n, m), NEW img, Fresh(m, img)
  PROVE  Fresh(n, img)
<1> SUFFICES ASSUME NEW i \in 1 .. Len(n), n[i].think # None
             PROVE  n[i].think.msgs = Request(SubSeq(n, 1, i - 1), img)
  BY DEF Fresh
<1>1. Len(m) \in Nat /\ Len(n) \in Nat /\ IsList(m) /\ IsList(n)
  BY ListLength DEF History, Edit
<1>2. i \in 1 .. Len(m) /\ n[i].think = m[i].think /\ \A j \in 1 .. i - 1 : n[j] = m[j]
  BY DEF Edit, Stands
<1>3. i - 1 \in Nat /\ i - 1 <= Len(m) /\ i - 1 <= Len(n)
  BY <1>1, <1>2
<1>4. SubSeq(n, 1, i - 1) = SubSeq(m, 1, i - 1)
  BY <1>1, <1>2, <1>3, FrontsAgree
<1>5. m[i].think.msgs = Request(SubSeq(m, 1, i - 1), img)
  BY <1>2 DEF Fresh
<1> QED
  BY <1>2, <1>4, <1>5

LEMMA EditsKeepMaking ==
  ASSUME NEW m, NEW n, Edit(n, m), NEW t, NEW p
  PROVE  /\ MadeWithTools(m, t) => MadeWithTools(n, t)
         /\ MadeAfterPrompt(m, p) => MadeAfterPrompt(n, p)
BY DEF Edit, Stands, MadeWithTools, MadeAfterPrompt

(* A turn made of the request that was sent.                               *)
LEMMA RepliesAreFresh ==
  ASSUME NEW m, History(m), NEW turn, IsMessage(turn), turn.role = "assistant",
         Len(m) % 2 = 1, NEW w, turn.think \in {None, w}, NEW img
  PROVE  /\ w.msgs = Request(m, img) /\ Fresh(m, img) => Fresh(Append(m, turn), img)
         /\ MadeWithTools(m, w.tools) => MadeWithTools(Append(m, turn), w.tools)
         /\ MadeAfterPrompt(m, w.system) => MadeAfterPrompt(Append(m, turn), w.system)
<1> DEFINE n == Append(m, turn)
<1>1. Len(m) \in Nat /\ IsList(m)
  BY ListLength DEF History
<1>2. /\ History(n) /\ Len(n) = Len(m) + 1 /\ n[Len(m) + 1] = turn
      /\ \A i \in 1 .. Len(m) : n[i] = m[i]
  <2>1. ~ (Len(m) + 1) % 2 = 1
    BY <1>1
  <2> QED
    BY <2>1, AppendKeeps
<1> HIDE DEF n
<1>3. \A i \in 1 .. Len(n) : i \in 1 .. Len(m) \/ i = Len(m) + 1
  BY <1>1, <1>2
<1>4. ASSUME w.msgs = Request(m, img), Fresh(m, img), NEW i \in 1 .. Len(n), n[i].think # None
      PROVE  n[i].think.msgs = Request(SubSeq(n, 1, i - 1), img)
  <2>1. CASE i \in 1 .. Len(m)
    <3>1. n[i] = m[i] /\ IsList(n) /\ Len(n) \in Nat
      BY <1>1, <1>2, <2>1 DEF History
    <3>2. \A j \in 1 .. i - 1 : n[j] = m[j]
      <4>1. \A j \in 1 .. i - 1 : j \in 1 .. Len(m)
        BY <1>1, <2>1
      <4> QED
        BY <1>2, <4>1
    <3>3. i - 1 \in Nat /\ i - 1 <= Len(m) /\ i - 1 <= Len(n)
      BY <1>1, <1>2, <2>1
    <3>4. SubSeq(n, 1, i - 1) = SubSeq(m, 1, i - 1)
      BY <1>1, <3>1, <3>2, <3>3, FrontsAgree
    <3>5. m[i].think.msgs = Request(SubSeq(m, 1, i - 1), img)
      BY <1>4, <2>1, <3>1 DEF Fresh
    <3> QED
      BY <3>1, <3>4, <3>5
  <2>2. CASE i = Len(m) + 1
    <3>1. n[i].think = w
      BY <1>2, <1>4, <2>2
    <3>2. i - 1 = Len(m) /\ Len(m) <= Len(n) /\ IsList(n)
      BY <1>1, <1>2, <2>2 DEF History
    <3>3. SubSeq(n, 1, Len(m)) = SubSeq(m, 1, Len(m))
      BY <1>1, <1>2, <3>2, FrontsAgree
    <3>4. SubSeq(m, 1, Len(m)) = m
      BY <1>1 DEF IsList
    <3> QED
      BY <1>4, <3>1, <3>2, <3>3, <3>4
  <2> QED
    BY <1>3, <2>1, <2>2
<1>5. w.msgs = Request(m, img) /\ Fresh(m, img) => Fresh(n, img)
  BY <1>4 DEF Fresh
<1>6. MadeWithTools(m, w.tools) => MadeWithTools(n, w.tools)
  BY <1>2, <1>3 DEF MadeWithTools
<1>7. MadeAfterPrompt(m, w.system) => MadeAfterPrompt(n, w.system)
  BY <1>2, <1>3 DEF MadeAfterPrompt
<1> QED
  BY <1>5, <1>6, <1>7 DEF n

(* No prompt holds a secret, so none reads otherwise in the file.          *)
PromptsArePlain == \A p \in Prompts : ~ p.secret

LEMMA PlainStaysPlain ==
  ASSUME PromptsArePlain, NEW p \in Sendable
  PROVE  RedactedPrompt(p) = p
<1>1. ASSUME NEW q \in Prompts
      PROVE  RedactedPrompt(q) = q
  <2>1. q \in [name : {r.name : r \in Prompts}, secret : BOOLEAN] /\ q.secret = FALSE
    BY PromptsAssumption DEF PromptsArePlain
  <2>2. [q EXCEPT !.secret = FALSE] = q
    BY <2>1
  <2> QED
    BY <2>2 DEF RedactedPrompt
<1> QED
  BY <1>1 DEF Sendable

(* Every step but a reply edits the history, or takes up an old file.  It  *)
(* keeps the tools and the prompt, or no thinking.                         *)
NoThinking(m) == \A i \in 1 .. Len(m) : m[i].think = None

KeepsTools(t) == tools' = t \/ NoThinking(msgs')

KeepsPrompt(p) == PromptsArePlain => system' = p \/ NoThinking(msgs')

Edits == Edit(msgs', msgs) /\ KeepsTools(tools) /\ KeepsPrompt(system)

TakesUp(f) ==
  /\ Edit(msgs', Loaded(f)) /\ KeepsTools(f.tools) /\ KeepsPrompt(f.system)
  /\ images' \in ImageInputs

Replies ==
  /\ \E turn : /\ msgs' = Append(msgs, turn) /\ IsMessage(turn)
               /\ turn.role = "assistant" /\ turn.think \in {None, wire}
  /\ pc = "request" /\ UNCHANGED <<tools, system, images>>

LEMMA EditOfItself ==
  ASSUME NEW m, History(m)
  PROVE  Edit(m, m)
BY DEF Edit, Stands

LEMMA DropsAll ==
  ASSUME NEW m, History(m)
  PROVE  Edit(DropThinking(m, 1), m) /\ NoThinking(DropThinking(m, 1))
<1>1. /\ Edit(DropThinking(m, 1), m) /\ Len(DropThinking(m, 1)) = Len(m)
      /\ \A i \in 1 .. Len(m) : i >= 1 => DropThinking(m, 1)[i].think = None
  BY DropIsEdit
<1>2. Len(m) \in Nat
  BY ListLength DEF History
<1> QED
  BY <1>1, <1>2 DEF NoThinking

LEMMA ResumeEdits ==
  ASSUME WellTyped, Resume
  PROVE  Edits \/ \E f \in OldFiles : TakesUp(f)
<1>1. PICK f \in Saved, given \in Prompts \cup {None} :
        /\ msgs' = IF PromptChanged(given, f) THEN DropThinking(Loaded(f), 1) ELSE Loaded(f)
        /\ tools' = f.tools /\ system' = Adopted(given, f) /\ images' \in ImageInputs
  BY DEF Resume
<1>2. History(Loaded(f))
  BY SavedIsSession
<1>3. Edit(msgs', Loaded(f))
  BY <1>1, <1>2, DropsAll, EditOfItself
<1>4. KeepsPrompt(f.system)
  <2> SUFFICES ASSUME PromptsArePlain PROVE system' = f.system \/ NoThinking(msgs')
    BY DEF KeepsPrompt
  <2>1. CASE PromptChanged(given, f)
    BY <1>1, <1>2, <2>1, DropsAll
  <2>2. CASE given = None
    BY <1>1, <2>2 DEF Adopted
  <2>3. CASE ~ PromptChanged(given, f) /\ given # None
    <3>1. given \in Sendable /\ RedactedPrompt(given) = f.system /\ system' = given
      BY <1>1, <2>3 DEF PromptChanged, Adopted, Sendable
    <3> QED
      BY <3>1, PlainStaysPlain
  <2> QED
    BY <2>1, <2>2, <2>3
<1>5. CASE f = File
  <2>1. History(msgs) /\ f.system = RedactedPrompt(system) /\ f.tools = tools
        /\ Loaded(f) = Dumped(msgs)
    BY <1>5 DEF WellTyped, TypeOK, History, File, Loaded
  <2>2. Edit(Dumped(msgs), msgs)
    BY <2>1, DumpedIsEdit
  <2>3. Edit(msgs', msgs)
    BY <1>2, <1>3, <2>1, <2>2, EditsCompose
  <2>4. PromptsArePlain => f.system = system
    BY <2>1, PlainStaysPlain DEF WellTyped, TypeOK
  <2> QED
    BY <1>1, <1>4, <2>1, <2>3, <2>4 DEF Edits, KeepsTools, KeepsPrompt
<1>6. CASE f \in OldFiles
  BY <1>1, <1>3, <1>4, <1>6 DEF TakesUp, KeepsTools
<1> QED
  BY <1>5, <1>6 DEF Saved

LEMMA RunEdits ==
  ASSUME WellTyped, NEW now \in ToolSets, Run(now)
  PROVE  Edits
<1> DEFINE m == AppendUserText(msgs)
<1>1. History(msgs)
  BY DEF WellTyped, TypeOK, History
<1>2. Edit(m, msgs) /\ History(m)
  BY <1>1, TextIsEdit DEF Edit
<1>3. /\ msgs' = IF PrefixChanges(now) THEN DropThinking(m, 1) ELSE m
      /\ tools' = now /\ system' = system
  BY DEF Run
<1> HIDE DEF m
<1>4. Edit(msgs', msgs) /\ (PrefixChanges(now) => NoThinking(msgs'))
  <2>1. Edit(DropThinking(m, 1), m) /\ NoThinking(DropThinking(m, 1))
    BY <1>2, DropsAll
  <2>2. Edit(DropThinking(m, 1), msgs)
    BY <1>2, <2>1, EditsCompose
  <2> QED
    BY <1>2, <1>3, <2>1, <2>2
<1>5. CASE PrefixChanges(now)
  BY <1>3, <1>4, <1>5 DEF Edits, KeepsTools, KeepsPrompt
<1>6. CASE tools = None
  <2>1. Len(msgs) = 0
    BY <1>6 DEF WellTyped, ToolsKnown
  <2>2. NoThinking(msgs')
    BY <1>4, <2>1 DEF Edit, Stands, NoThinking
  <2> QED
    BY <1>3, <1>4, <2>2 DEF Edits, KeepsTools, KeepsPrompt
<1>7. CASE ~ PrefixChanges(now) /\ tools # None
  <2>1. tools = now
    BY <1>7 DEF PrefixChanges
  <2> QED
    BY <1>3, <1>4, <2>1 DEF Edits, KeepsTools, KeepsPrompt
<1> QED
  BY <1>5, <1>6, <1>7

LEMMA StepIs ==
  ASSUME WellTyped, [Next]_vars
  PROVE  \/ Edits /\ (images' = images \/ images' \in ImageInputs)
         \/ Replies
         \/ \E f \in OldFiles : TakesUp(f)
<1>1. CASE Resume
  <2>1. images' \in ImageInputs
    BY <1>1 DEF Resume
  <2> QED
    BY <1>1, <2>1, ResumeEdits
<1>2. CASE \E now \in ToolSets : Run(now)
  <2>1. images' = images
    BY <1>2 DEF Run
  <2> QED
    BY <1>2, <2>1, RunEdits
<1>3. CASE Compact \/ ContextStop \/ Send \/ RequestFails \/ Finish \/ UNCHANGED vars
  <2>1. UNCHANGED <<msgs, tools, system, images>>
    BY <1>3 DEF Compact, ContextStop, Send, RequestFails, Finish, vars, session
  <2>2. Edit(msgs, msgs)
    BY EditOfItself DEF WellTyped, TypeOK, History
  <2> QED
    BY <2>1, <2>2 DEF Edits, KeepsTools, KeepsPrompt
<1>4. CASE ElideResult \/ ElideInput \/ Dispatch \/ Correct \/ Summarise
  <2>1. UNCHANGED <<tools, system, images>>
    BY <1>4 DEF ElideResult, ElideInput, Dispatch, Correct, Summarise
  <2>2. Edit(msgs', msgs)
    BY <1>4, ElideTypes, DispatchTypes, CorrectTypes
  <2> QED
    BY <2>1, <2>2 DEF Edits, KeepsTools, KeepsPrompt
<1>5. CASE ReplyCalls \/ ReplyAnswers
  <2>1. pc = "request" /\ UNCHANGED <<tools, system, images>>
    BY <1>5 DEF ReplyCalls, ReplyAnswers, Replied
  <2> QED
    BY <1>5, <2>1, ReplyTypes DEF Replies
<1> QED
  BY <1>1, <1>2, <1>3, <1>4, <1>5 DEF Next

(***************************************************************************)
(* What the settings of the runs must be for the thinking to stay fresh:   *)
(* one --image-input, no answer turn without tools, no prompt with a       *)
(* secret.  Without one of them the code sends stale thinking.             *)
(***************************************************************************)
OneImageInput == \A a, b \in ImageInputs : a = b

ThinkingInv ==
  /\ OneImageInput => Fresh(msgs, images)
  /\ ~ Structured => MadeWithTools(msgs, tools)
  /\ PromptsArePlain => MadeAfterPrompt(msgs, system)

LEMMA OldThinking ==
  ASSUME NEW f \in OldFiles, NEW img \in ImageInputs
  PROVE  /\ Fresh(Loaded(f), img) /\ MadeWithTools(Loaded(f), f.tools)
         /\ MadeAfterPrompt(Loaded(f), f.system)
<1> DEFINE m == f.msgs
           n == Loaded(f)
<1>1. /\ History(m) /\ Edit(n, m) /\ Len(n) = Len(m)
      /\ \A i \in 1 .. Len(m) : i >= FirstMarked(m) => n[i].think = None
  BY LoadedIsEdit
<1>2. /\ FreshBefore(m, FirstMarked(m), img)
      /\ MadeWithTools(m, f.tools) /\ MadeAfterPrompt(m, f.system)
  BY OldFilesAssumption DEF MadeWithTools, MadeAfterPrompt
<1>3. FirstMarked(m) \in Int
  <2> DEFINE S == {i \in 1 .. Len(m) : m[i].part.form # "whole"}
  <2>1. Len(m) \in Nat
    BY <1>1, ListLength DEF History
  <2>2. S \in SUBSET (1 .. Len(m)) /\ FirstMarked(m) = FirstOf(S, m)
    BY DEF FirstMarked
  <2> HIDE DEF S, m
  <2>3. CASE S = {}
    BY <2>1, <2>2, <2>3 DEF FirstOf
  <2>4. CASE S # {}
    <3>1. FirstOf(S, m) \in 1 .. Len(m)
      BY <2>1, <2>2, <2>4, FirstIsLeast
    <3> QED
      BY <2>2, <3>1
  <2> QED
    BY <2>3, <2>4
<1> HIDE DEF m, n
<1>4. Fresh(n, img)
  <2> SUFFICES ASSUME NEW i \in 1 .. Len(n), n[i].think # None
               PROVE  n[i].think.msgs = Request(SubSeq(n, 1, i - 1), img)
    BY DEF Fresh
  <2>1. Len(m) \in Nat /\ Len(n) \in Nat /\ IsList(m) /\ IsList(n)
    BY <1>1, ListLength DEF History, Edit
  <2>2. i \in 1 .. Len(m) /\ n[i].think = m[i].think /\ \A j \in 1 .. i - 1 : n[j] = m[j]
    BY <1>1 DEF Edit, Stands
  <2>3. i < FirstMarked(m)
    BY <1>1, <1>3, <2>2
  <2>4. m[i].think.msgs = Request(SubSeq(m, 1, i - 1), img)
    BY <1>2, <2>2, <2>3 DEF FreshBefore
  <2>5. i - 1 \in Nat /\ i - 1 <= Len(m) /\ i - 1 <= Len(n)
    BY <2>1, <2>2
  <2>6. SubSeq(n, 1, i - 1) = SubSeq(m, 1, i - 1)
    BY <2>1, <2>2, <2>5, FrontsAgree
  <2> QED
    BY <2>2, <2>4, <2>6
<1>5. MadeWithTools(n, f.tools) /\ MadeAfterPrompt(n, f.system)
  BY <1>1, <1>2, EditsKeepMaking
<1> QED
  BY <1>4, <1>5 DEF n

LEMMA NoneIsFresh ==
  ASSUME NEW m, NoThinking(m), NEW img, NEW t, NEW p
  PROVE  Fresh(m, img) /\ MadeWithTools(m, t) /\ MadeAfterPrompt(m, p)
BY DEF NoThinking, Fresh, MadeWithTools, MadeAfterPrompt

LEMMA ThinkingInit == Init => ThinkingInv
<1> SUFFICES ASSUME Init PROVE ThinkingInv
  OBVIOUS
<1>1. NoThinking(msgs)
  BY DEF Init, NoThinking
<1> QED
  BY <1>1, NoneIsFresh DEF ThinkingInv

LEMMA ThinkingStep == WellTyped /\ ThinkingInv /\ [Next]_vars => ThinkingInv'
<1> SUFFICES ASSUME WellTyped, ThinkingInv, [Next]_vars PROVE ThinkingInv'
  OBVIOUS
<1>1. History(msgs) /\ images \in ImageInputs
  BY DEF WellTyped, TypeOK, History
<1>2. CASE Edits /\ (images' = images \/ images' \in ImageInputs)
  <2>1. OneImageInput => Fresh(msgs', images')
    <3> SUFFICES ASSUME OneImageInput PROVE Fresh(msgs', images')
      OBVIOUS
    <3>1. images' = images /\ Fresh(msgs, images) /\ Edit(msgs', msgs)
      BY <1>1, <1>2 DEF OneImageInput, ThinkingInv, Edits
    <3>2. Fresh(msgs', images)
      BY <1>1, <3>1, EditsKeepFresh
    <3> QED
      BY <3>1, <3>2
  <2>2. ~ Structured => MadeWithTools(msgs', tools')
    <3> SUFFICES ASSUME ~ Structured PROVE MadeWithTools(msgs', tools')
      OBVIOUS
    <3>1. MadeWithTools(msgs, tools) /\ Edit(msgs', msgs)
      BY <1>2 DEF ThinkingInv, Edits
    <3>2. MadeWithTools(msgs', tools)
      BY <3>1, EditsKeepMaking
    <3> QED
      BY <1>2, <3>2, NoneIsFresh DEF Edits, KeepsTools
  <2>3. PromptsArePlain => MadeAfterPrompt(msgs', system')
    <3> SUFFICES ASSUME PromptsArePlain PROVE MadeAfterPrompt(msgs', system')
      OBVIOUS
    <3>1. MadeAfterPrompt(msgs, system) /\ Edit(msgs', msgs)
      BY <1>2 DEF ThinkingInv, Edits
    <3>2. MadeAfterPrompt(msgs', system)
      BY <3>1, EditsKeepMaking
    <3> QED
      BY <1>2, <3>2, NoneIsFresh DEF Edits, KeepsPrompt
  <2> QED
    BY <2>1, <2>2, <2>3 DEF ThinkingInv
<1>3. CASE Replies
  <2>1. PICK turn : /\ msgs' = Append(msgs, turn) /\ IsMessage(turn)
                    /\ turn.role = "assistant" /\ turn.think \in {None, wire}
    BY <1>3 DEF Replies
  <2>2. UNCHANGED <<tools, system, images>> /\ Len(msgs) % 2 = 1
    BY <1>3 DEF Replies, WellTyped, Turns
  <2>3. wire.msgs = Request(msgs, images) /\ wire.system = system
        /\ (~ Structured => wire.tools = tools)
    <3>1. wire = [tools |-> Offered, system |-> system, msgs |-> Request(msgs, images)]
      BY <1>3 DEF Replies, WellTyped, WireIsRequest
    <3>2. ~ Structured => Offered = tools
      BY DEF Offered
    <3> QED
      BY <3>1, <3>2
  <2>4. /\ Fresh(msgs, images) => Fresh(msgs', images)
        /\ MadeWithTools(msgs, wire.tools) => MadeWithTools(msgs', wire.tools)
        /\ MadeAfterPrompt(msgs, system) => MadeAfterPrompt(msgs', system)
    BY <1>1, <2>1, <2>2, <2>3, RepliesAreFresh
  <2> QED
    BY <2>2, <2>3, <2>4 DEF ThinkingInv
<1>4. CASE \E f \in OldFiles : TakesUp(f)
  <2>1. PICK f \in OldFiles : TakesUp(f)
    BY <1>4
  <2>2. /\ Edit(msgs', Loaded(f)) /\ KeepsTools(f.tools) /\ KeepsPrompt(f.system)
        /\ images' \in ImageInputs
    BY <2>1 DEF TakesUp
  <2>3. /\ Fresh(Loaded(f), images') /\ MadeWithTools(Loaded(f), f.tools)
        /\ MadeAfterPrompt(Loaded(f), f.system) /\ History(Loaded(f))
    BY <2>2, OldThinking, LoadedIsEdit DEF Edit
  <2>4. Fresh(msgs', images')
    BY <2>2, <2>3, EditsKeepFresh
  <2>5. MadeWithTools(msgs', f.tools) /\ MadeAfterPrompt(msgs', f.system)
    BY <2>2, <2>3, EditsKeepMaking
  <2>6. MadeWithTools(msgs', tools')
    BY <2>2, <2>5, NoneIsFresh DEF KeepsTools
  <2>7. PromptsArePlain => MadeAfterPrompt(msgs', system')
    BY <2>2, <2>5, NoneIsFresh DEF KeepsPrompt
  <2> QED
    BY <2>4, <2>6, <2>7 DEF ThinkingInv
<1> QED
  BY <1>2, <1>3, <1>4, StepIs

LEMMA ThinkingHolds == Spec => [](WellTyped /\ ThinkingInv)
<1>1. Init => WellTyped /\ ThinkingInv
  BY TypeInit, ThinkingInit
<1>2. WellTyped /\ ThinkingInv /\ [Next]_vars => WellTyped' /\ ThinkingInv'
  BY TypeStep, ThinkingStep
<1> QED
  BY <1>1, <1>2, PTL DEF Spec

(* What a request says, block by block.                                    *)
LEMMA SentIsFresh ==
  ASSUME WellTyped, ThinkingInv
  PROVE  /\ OneImageInput => MessagesStand
         /\ ~ Structured => ToolsStand
         /\ PromptsArePlain => PromptStands
<1>1. CASE pc # "request"
  <2>1. Len(Sent) = 0
    BY <1>1 DEF Sent
  <2> QED
    BY <2>1 DEF MessagesStand, ToolsStand, PromptStands
<1>2. CASE pc = "request"
  <2>1. Sent = msgs /\ IsList(msgs)
    BY <1>2 DEF Sent, WellTyped
  <2>2. wire.msgs = Request(msgs, images) /\ wire.system = system /\ wire.tools = Offered
    BY <1>2 DEF WellTyped, WireIsRequest
  <2>3. ASSUME OneImageInput, NEW i \in 1 .. Len(msgs), msgs[i].think # None
        PROVE  msgs[i].think.msgs = SubSeq(wire.msgs, 1, i - 1)
    <3>1. msgs[i].think.msgs = Request(SubSeq(msgs, 1, i - 1), images)
      BY <2>3 DEF ThinkingInv, Fresh
    <3>2. i - 1 \in 0 .. Len(msgs)
      BY <2>1, ListLength
    <3> QED
      BY <2>1, <2>2, <3>1, <3>2, FrontOfRequest
  <2>4. OneImageInput => MessagesStand
    BY <2>1, <2>3 DEF MessagesStand
  <2>5. ~ Structured => ToolsStand
    BY <2>1, <2>2 DEF ToolsStand, ThinkingInv, MadeWithTools, Offered
  <2>6. PromptsArePlain => PromptStands
    BY <2>1, <2>2 DEF PromptStands, ThinkingInv, MadeAfterPrompt
  <2> QED
    BY <2>4, <2>5, <2>6
<1> QED
  BY <1>1, <1>2

(* With one --image-input for every run of a session, each block of        *)
(* thinking a request holds comes after the very messages it was made      *)
(* after, whatever compaction, redaction, resumes and old files changed.   *)
THEOREM MessagesAlwaysStand ==
  ASSUME OneImageInput
  PROVE  Spec => []MessagesStand
<1>1. WellTyped /\ ThinkingInv => MessagesStand
  BY SentIsFresh
<1> QED
  BY <1>1, ThinkingHolds, PTL

(* With no answer turn that withholds the tools, each goes with the tools  *)
(* it was made with.                                                       *)
THEOREM ToolsAlwaysStand ==
  ASSUME ~ Structured
  PROVE  Spec => []ToolsStand
<1>1. WellTyped /\ ThinkingInv => ToolsStand
  BY SentIsFresh
<1> QED
  BY <1>1, ThinkingHolds, PTL

(* With no secret in a system prompt, each goes with the prompt it was     *)
(* made after.                                                             *)
THEOREM PromptsAlwaysStand ==
  ASSUME PromptsArePlain
  PROVE  Spec => []PromptStands
<1>1. WellTyped /\ ThinkingInv => PromptStands
  BY SentIsFresh
<1> QED
  BY <1>1, ThinkingHolds, PTL

(* And so no request carries thinking the vendor would refuse, for any     *)
(* tools, prompts, calls, results and old files, and any window.           *)
THEOREM ThinkingStaysFresh ==
  ASSUME OneImageInput, ~ Structured, PromptsArePlain
  PROVE  Spec => []ThinkingIsFresh
<1>1. WellTyped /\ ThinkingInv => ThinkingIsFresh
  BY SentIsFresh DEF ThinkingIsFresh
<1> QED
  BY <1>1, ThinkingHolds, PTL
=============================================================================
