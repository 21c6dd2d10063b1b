--------------------------- MODULE LiveStepProofs ---------------------------
(***************************************************************************)
(* The types of a streamed step, that its words are shown in their order   *)
(* and its reply whole, and that no step is left behind, for every value   *)
(* of the constants.                                                       *)
(***************************************************************************)
EXTENDS LiveStep, SequenceTheorems, FiniteSetTheorems, TLAPS

(* Nobody has closed the generator.                                        *)
Going == pc \notin {"closing", "closed"}

(* The events put so far, shown or yet to be.                              *)
Stream == shown \o taken \o queue

(* Where the generator stands tells of the waiter, the step and the queue. *)
PlacesInv ==
  /\ pc \in {"look", "yielded", "last", "yieldedLast", "over"} => waiter = "none"
  /\ pc = "drop" => waiter = "cancelled"
  /\ pc \in {"last", "yieldedLast", "over"} => StepOver /\ pending = Finished
  /\ pc = "over" => queue = <<>>
  /\ pc = "closed" => StepOver
  /\ step = "unwinding" => ~ Going
  /\ ~ Going => StepOver \/ step = "unwinding"

WellTyped == TypeOK /\ PlacesInv

(* The reply of a step that has one is what was heard.                     *)
ReplyTells(kind) ==
  \/ reply.words[kind] = heard[kind]
  \/ kind = "thinking" /\ rail = "anthropic" /\ reply.stop = "repetition"

ReplyInv ==
  Going /\ step \in {"replied", "calling", "returned"} => \A kind \in Kinds : ReplyTells(kind)

(* The events say what was sent, but for what is held back.                *)
Tells(kind) ==
  /\ Said(kind, Stream, {}) \o pending[kind] = fed[kind]
  /\ Said(kind, Stream, {"retry"}) \o pending[kind] = heard[kind]

AllTold == \A kind \in Kinds : Tells(kind)

SaidInv ==
  /\ Going => AllTold
  /\ WordsInOrder

-----------------------------------------------------------------------------
(***************************************************************************)
(* What some events say.                                                   *)
(***************************************************************************)

(* A set of naturals that has 0 and every successor has them all: mapped   *)
(* to its successor, no x below n could be mapped twice.                   *)
LEMMA NatIsInductive ==
  ASSUME NEW S, 0 \in S, \A n \in Nat : n \in S => n + 1 \in S
  PROVE  \A n \in Nat : n \in S
<1> SUFFICES ASSUME NEW n \in Nat, n \notin S PROVE FALSE
  OBVIOUS
<1> DEFINE T == (0 .. n) \cap S
           U == T \ {0}
           next == [x \in T |-> x + 1]
<1>1. IsFiniteSet(T)
  <2>1. IsFiniteSet(0 .. n)
    BY FS_Interval
  <2>2. T \in SUBSET (0 .. n)
    OBVIOUS
  <2> QED
    BY <2>1, <2>2, FS_Subset
<1>2. IsFiniteSet(U) /\ Cardinality(U) < Cardinality(T)
  <2>1. 0 \in T
    OBVIOUS
  <2>2. IsFiniteSet(U) /\ Cardinality(U) = Cardinality(T) - 1
    BY <1>1, <2>1, FS_RemoveElement
  <2> QED
    BY <1>1, <2>2, FS_CardinalityType
<1>3. next \in [T -> U]
  OBVIOUS
<1>4. \E x, y \in T : x # y /\ next[x] = next[y]
  <2> HIDE DEF T, U, next
  <2> QED
    BY <1>1, <1>2, <1>3, FS_PigeonHole
<1> QED
  BY <1>4

(* What Said builds, up to an event.                                       *)
SaysTo(f, kind, events, anew, n) ==
  f = [i \in 0 .. n |-> IF i = 0 THEN <<>> ELSE Adds(kind, events[i], anew, f[i - 1])]

LEMMA SayingsExist ==
  ASSUME NEW kind, NEW events, NEW anew
  PROVE  \A n \in Nat : \E f : SaysTo(f, kind, events, anew, n)
<1> DEFINE S == {n \in Nat : \E f : SaysTo(f, kind, events, anew, n)}
           next(f, i) == Adds(kind, events[i], anew, f[i - 1])
<1>1. 0 \in S
  <2> DEFINE f == [i \in 0 .. 0 |-> <<>>]
  <2>1. SaysTo(f, kind, events, anew, 0)
    BY DEF SaysTo
  <2> QED
    BY <2>1
<1>2. ASSUME NEW n \in Nat, n \in S
      PROVE  n + 1 \in S
  <2>1. PICK f : SaysTo(f, kind, events, anew, n)
    BY <1>2
  <2> DEFINE g == [i \in 0 .. n + 1 |-> IF i = n + 1 THEN next(f, i) ELSE f[i]]
             h == [i \in 0 .. n + 1 |-> IF i = 0 THEN <<>> ELSE next(g, i)]
  <2>2. \A i \in 0 .. n : g[i] = f[i]
    OBVIOUS
  <2>3. \A i \in 0 .. n : f[i] = IF i = 0 THEN <<>> ELSE next(f, i)
    BY <2>1 DEF SaysTo
  <2>4. ASSUME NEW i \in 0 .. n + 1
        PROVE  g[i] = IF i = 0 THEN <<>> ELSE next(g, i)
    <3>1. CASE i = n + 1
      <4>1. i # 0 /\ i - 1 \in 0 .. n /\ g[i - 1] = f[i - 1]
        BY <3>1, <2>2
      <4> QED
        BY <3>1, <4>1
    <3>2. CASE i \in 0 .. n
      <4>1. i # 0 => i - 1 \in 0 .. n /\ g[i - 1] = f[i - 1]
        BY <3>2, <2>2
      <4>2. g[i] = f[i]
        BY <3>2, <2>2
      <4> QED
        BY <3>2, <4>1, <4>2, <2>3
    <3> QED
      BY <3>1, <3>2
  <2>5. g = h
    <3>1. \A i \in 0 .. n + 1 : g[i] = h[i]
      BY <2>4
    <3> HIDE <2>4
    <3> QED
      BY <3>1
  <2>6. SaysTo(g, kind, events, anew, n + 1)
    BY <2>5 DEF SaysTo
  <2> QED
    BY <2>6
<1> HIDE DEF S
<1>3. \A n \in Nat : n \in S
  BY <1>1, <1>2, NatIsInductive
<1> QED
  BY <1>3 DEF S

(* What is said is the last of these.                                      *)
Says(f, kind, events, anew) ==
  /\ Said(kind, events, anew) = f[Len(events)] /\ f[0] = <<>>
  /\ \A i \in 1 .. Len(events) : f[i] = Adds(kind, events[i], anew, f[i - 1])

LEMMA SaidIsBuilt ==
  ASSUME NEW kind, NEW events, NEW anew, Len(events) \in Nat
  PROVE  \E f : Says(f, kind, events, anew)
<1> DEFINE f == CHOOSE g : SaysTo(g, kind, events, anew, Len(events))
<1>1. SaysTo(f, kind, events, anew, Len(events))
  BY SayingsExist
<1>2. Said(kind, events, anew) = f[Len(events)]
  BY DEF Said, SaysTo
<1> HIDE DEF f
<1>3. \A i \in 0 .. Len(events) :
        f[i] = IF i = 0 THEN <<>> ELSE Adds(kind, events[i], anew, f[i - 1])
  BY <1>1 DEF SaysTo
<1>4. f[0] = <<>> /\ \A i \in 1 .. Len(events) :
                       f[i] = Adds(kind, events[i], anew, f[i - 1])
  BY <1>3
<1> QED
  BY <1>2, <1>4 DEF Says

(* Events that begin alike say the same as far as they are alike.          *)
Begins(s, t) ==
  /\ Len(s) \in Nat /\ Len(t) \in Nat /\ Len(s) <= Len(t)
  /\ \A i \in 1 .. Len(s) : s[i] = t[i]

Reaches(g, kind, s, anew) == Said(kind, s, anew) = g[Len(s)]

LEMMA SaysAlike ==
  ASSUME NEW kind, NEW anew, NEW s, NEW t, Begins(s, t),
         NEW g, Says(g, kind, t, anew)
  PROVE  Reaches(g, kind, s, anew)
<1> USE DEF Begins
<1> PICK f : Says(f, kind, s, anew)
  BY SaidIsBuilt
<1> DEFINE S == {n \in Nat : n <= Len(s) => f[n] = g[n]}
<1>1. 0 \in S
  BY DEF Says
<1>2. ASSUME NEW n \in Nat, n \in S
      PROVE  n + 1 \in S
  <2>1. CASE n + 1 <= Len(s)
    <3>1. n + 1 \in 1 .. Len(s) /\ n + 1 \in 1 .. Len(t) /\ (n + 1) - 1 = n
      BY <2>1
    <3>2. f[n + 1] = Adds(kind, s[n + 1], anew, f[n])
      BY <3>1 DEF Says
    <3>3. g[n + 1] = Adds(kind, t[n + 1], anew, g[n])
      BY <3>1 DEF Says
    <3>4. f[n] = g[n] /\ s[n + 1] = t[n + 1]
      BY <1>2, <2>1, <3>1
    <3> QED
      BY <3>2, <3>3, <3>4
  <2> QED
    BY <2>1
<1>3. \A n \in Nat : n \in S
  <2> HIDE DEF S
  <2> QED
    BY <1>1, <1>2, NatIsInductive
<1> QED
  BY <1>3 DEF Reaches, Says

LEMMA SaidAppend ==
  ASSUME NEW kind, NEW anew, NEW s \in Seq(Event), NEW e \in Event
  PROVE  Said(kind, Append(s, e), anew) = Adds(kind, e, anew, Said(kind, s, anew))
<1> DEFINE t == Append(s, e)
<1>0. /\ t \in Seq(Event) /\ Len(s) \in Nat /\ Len(t) = Len(s) + 1 /\ t[Len(s) + 1] = e
      /\ \A i \in 1 .. Len(s) : s[i] = t[i]
  BY AppendProperties
<1> HIDE DEF t
<1>1. /\ Len(s) \in Nat /\ Len(t) \in Nat /\ Len(t) = Len(s) + 1 /\ t[Len(s) + 1] = e
      /\ t \in Seq(Event)
      /\ \A i \in 1 .. Len(s) : s[i] = t[i]
  BY <1>0
<1>3. PICK g : Says(g, kind, t, anew)
  BY <1>1, SaidIsBuilt
<1>4. Reaches(g, kind, s, anew)
  <2>1. Begins(s, t)
    BY <1>1 DEF Begins
  <2> QED
    BY <1>3, <2>1, SaysAlike
<1>5. g[Len(s) + 1] = Adds(kind, e, anew, g[Len(s)])
  <2>1. Len(s) + 1 \in 1 .. Len(t) /\ (Len(s) + 1) - 1 = Len(s)
    BY <1>1
  <2>2. g[Len(s) + 1] = Adds(kind, t[Len(s) + 1], anew, g[(Len(s) + 1) - 1])
    BY <1>3, <2>1 DEF Says
  <2> QED
    BY <1>1, <2>1, <2>2
<1>6. Said(kind, t, anew) = g[Len(s) + 1] /\ Said(kind, s, anew) = g[Len(s)]
  BY <1>1, <1>3, <1>4 DEF Says, Reaches
<1> QED
  BY <1>5, <1>6 DEF t

LEMMA AddsType ==
  ASSUME NEW kind \in Kinds, NEW anew, NEW e \in Event, NEW words \in Seq(Word)
  PROVE  Adds(kind, e, anew, words) \in Seq(Word)
<1>1. e.kind = kind => e.text \in Seq(Word)
  BY DEF Event, Kinds
<1> QED
  BY <1>1, ConcatProperties DEF Adds

LEMMA SaidType ==
  ASSUME NEW kind \in Kinds, NEW anew, NEW s \in Seq(Event)
  PROVE  \A f : Says(f, kind, s, anew) => \A n \in 0 .. Len(s) : f[n] \in Seq(Word)
<1> SUFFICES ASSUME NEW f, Says(f, kind, s, anew)
             PROVE  \A n \in 0 .. Len(s) : f[n] \in Seq(Word)
  OBVIOUS
<1> DEFINE S == {n \in Nat : n <= Len(s) => f[n] \in Seq(Word)}
<1>1. 0 \in S
  BY EmptySeq DEF Says
<1>2. ASSUME NEW n \in Nat, n \in S
      PROVE  n + 1 \in S
  <2>1. CASE n + 1 <= Len(s)
    <3>1. n + 1 \in 1 .. Len(s) /\ (n + 1) - 1 = n
      BY <2>1
    <3>2. f[n + 1] = Adds(kind, s[n + 1], anew, f[n])
      BY <3>1 DEF Says
    <3>3. f[n] \in Seq(Word) /\ s[n + 1] \in Event
      BY <1>2, <2>1, <3>1, ElementOfSeq
    <3> QED
      BY <3>2, <3>3, AddsType
  <2> QED
    BY <2>1
<1>3. \A n \in Nat : n \in S
  <2> HIDE DEF S
  <2> QED
    BY <1>1, <1>2, NatIsInductive
<1> QED
  BY <1>3

LEMMA WordsAreSaid ==
  ASSUME NEW kind \in Kinds, NEW anew, NEW s \in Seq(Event)
  PROVE  Said(kind, s, anew) \in Seq(Word)
<1>1. Len(s) \in Nat /\ Len(s) \in 0 .. Len(s)
  BY LenProperties
<1>2. PICK f : Says(f, kind, s, anew)
  BY <1>1, SaidIsBuilt
<1>3. f[Len(s)] \in Seq(Word)
  BY <1>1, <1>2, SaidType
<1> QED
  BY <1>2, <1>3 DEF Says

LEMMA SilenceSaysNothing ==
  ASSUME NEW kind, NEW anew
  PROVE  Said(kind, <<>>, anew) = <<>>
<1>1. Len(<<>>) = 0
  BY EmptySeq
<1>2. PICK f : Says(f, kind, <<>>, anew)
  BY <1>1, SaidIsBuilt
<1> QED
  BY <1>1, <1>2 DEF Says

LEMMA PrefixOfConcat ==
  ASSUME NEW S, NEW a \in Seq(S), NEW b \in Seq(S), NEW c \in Seq(S), IsPrefix(a, b)
  PROVE  IsPrefix(a, b \o c)
<1>1. Len(a) \in Nat /\ Len(b) \in Nat /\ Len(a) <= Len(b) /\ Len(b \o c) = Len(b) + Len(c)
      /\ Len(c) \in Nat /\ SubSeq(a, 1, Len(a)) = SubSeq(b, 1, Len(a))
  BY LenProperties, ConcatProperties DEF IsPrefix
<1>2. SubSeq(b \o c, 1, Len(a)) = SubSeq(b, 1, Len(a))
  <2>1. CASE Len(a) = 0
    BY <2>1, SubSeqEmpty
  <2>2. CASE Len(a) # 0
    <3>1. 1 \in 1 .. Len(b) /\ Len(a) \in 1 .. Len(b)
      BY <1>1, <2>2
    <3> QED
      BY <3>1, SubSeqOfConcat1
  <2> QED
    BY <2>1, <2>2
<1>3. Len(a) <= Len(b \o c)
  BY <1>1
<1> QED
  BY <1>1, <1>2, <1>3 DEF IsPrefix

(* More events say more of the same.                                       *)
LEMMA SaidGrows ==
  ASSUME NEW kind \in Kinds, NEW s \in Seq(Event), NEW t \in Seq(Event),
         NEW anew, \A e \in Event : e.kind \notin anew
  PROVE  IsPrefix(Said(kind, s, anew), Said(kind, s \o t, anew))
<1> DEFINE u == s \o t
<1>1. /\ u \in Seq(Event) /\ Len(s) \in Nat /\ Len(t) \in Nat /\ Len(u) = Len(s) + Len(t)
      /\ Len(u) \in Nat
      /\ \A i \in 1 .. Len(s) : s[i] = u[i]
  BY ConcatProperties, LenProperties
<1> HIDE DEF u
<1>2. PICK g : Says(g, kind, u, anew)
  BY <1>1, SaidIsBuilt
<1>3. \A n \in 0 .. Len(u) : g[n] \in Seq(Word)
  BY <1>1, <1>2, SaidType
<1>4. Said(kind, s, anew) = g[Len(s)] /\ g[Len(s)] \in Seq(Word)
  <2>1. Begins(s, u) /\ Len(s) \in 0 .. Len(u)
    BY <1>1 DEF Begins
  <2> QED
    BY <1>2, <1>3, <2>1, SaysAlike DEF Reaches
<1> DEFINE a == g[Len(s)]
           S == {n \in Nat : n <= Len(t) => IsPrefix(a, g[Len(s) + n])}
<1>5. 0 \in S
  <2>1. Len(a) \in Nat /\ Len(s) + 0 = Len(s)
    BY <1>1, <1>4, LenProperties
  <2> QED
    BY <1>4, <2>1 DEF IsPrefix
<1>6. ASSUME NEW n \in Nat, n \in S
      PROVE  n + 1 \in S
  <2>1. CASE n + 1 <= Len(t)
    <3> DEFINE i == Len(s) + n
    <3>1. i \in 0 .. Len(u) /\ i + 1 \in 1 .. Len(u) /\ Len(s) + (n + 1) = i + 1 /\ (i + 1) - 1 = i
      BY <1>1, <2>1
    <3>2. g[i + 1] = Adds(kind, u[i + 1], anew, g[i])
      <4>1. g[i + 1] = Adds(kind, u[i + 1], anew, g[(i + 1) - 1])
        BY <1>2, <3>1 DEF Says
      <4> QED
        BY <3>1, <4>1
    <3>3. g[i] \in Seq(Word) /\ u[i + 1] \in Event /\ IsPrefix(a, g[i])
      <4>1. \A k \in 0 .. Len(u) : g[k] \in Seq(Word)
        BY <1>3
      <4>2. u[i + 1] \in Event
        BY <1>1, <3>1, ElementOfSeq
      <4>3. IsPrefix(a, g[i])
        BY <1>1, <1>6, <2>1
      <4> QED
        BY <3>1, <4>1, <4>2, <4>3
    <3>4. PICK c \in Seq(Word) : Adds(kind, u[i + 1], anew, g[i]) = g[i] \o c
      <4>1. u[i + 1].kind = kind => u[i + 1].text \in Seq(Word)
        BY <3>3 DEF Event, Kinds
      <4>2. Adds(kind, u[i + 1], anew, g[i])
              = g[i] \o IF u[i + 1].kind = kind THEN u[i + 1].text ELSE <<>>
        BY <3>3 DEF Adds
      <4> QED
        BY <4>1, <4>2, EmptySeq
    <3>5. IsPrefix(a, g[i + 1])
      <4> HIDE DEF i, a
      <4> QED
        BY <1>4, <3>2, <3>3, <3>4, PrefixOfConcat DEF a
    <3> QED
      BY <3>1, <3>5
  <2> QED
    BY <2>1
<1>7. \A n \in Nat : n \in S
  <2> HIDE DEF S
  <2> QED
    BY <1>5, <1>6, NatIsInductive
<1>8. IsPrefix(a, g[Len(u)])
  BY <1>1, <1>7
<1>9. Said(kind, u, anew) = g[Len(u)]
  BY <1>2 DEF Says
<1> QED
  BY <1>4, <1>8, <1>9 DEF u

-----------------------------------------------------------------------------
(***************************************************************************)
(* The types, and where the generator stands.                              *)
(***************************************************************************)
LEMMA TextsType ==
  ASSUME NEW kind \in Kinds, NEW words \in Seq(Word)
  PROVE  Texts(kind, words) \in Seq(Event)
<1>1. [kind |-> kind, text |-> words] \in Event
  BY DEF Event
<1> QED
  BY <1>1, EmptySeq DEF Texts

LEMMA FlushedType ==
  ASSUME TypeOK
  PROVE  Flushed \in Seq(Event)
<1>1. pending["progress"] \in Seq(Word) /\ pending["thinking"] \in Seq(Word)
  BY DEF TypeOK, Kinds
<1> QED
  BY <1>1, TextsType, ConcatProperties DEF Flushed, Kinds

(* What a put leaves.                                                      *)
LEMMA PutType ==
  ASSUME TypeOK, NEW events \in Seq(Event), Put(events)
  PROVE  /\ queue' \in Seq(Event)
         /\ waiter' \in {"none", "new", "waiting", "woken", "got", "cancelled"}
         /\ waiter' = waiter \/ (waiter = "waiting" /\ waiter' = "woken")
<1>1. queue \in Seq(Event)
        /\ waiter \in {"none", "new", "waiting", "woken", "got", "cancelled"}
  BY DEF TypeOK
<1>2. queue \o events \in Seq(Event)
  BY <1>1, ConcatProperties
<1> QED
  BY <1>1, <1>2 DEF Put

(* The pieces of a delta.                                                  *)
LEMMA Pieces ==
  ASSUME TypeOK, NEW kind \in Kinds, NEW word \in Word,
         NEW ready \in 0 .. Len(Append(pending[kind], word))
  PROVE  LET held == Append(pending[kind], word)
         IN  /\ held \in Seq(Word) /\ held = pending[kind] \o <<word>>
             /\ SubSeq(held, 1, ready) \in Seq(Word)
             /\ SubSeq(held, ready + 1, Len(held)) \in Seq(Word)
             /\ SubSeq(held, 1, ready) \o SubSeq(held, ready + 1, Len(held)) = held
<1> DEFINE held == Append(pending[kind], word)
<1>1. pending[kind] \in Seq(Word)
  BY DEF TypeOK
<1>2. held \in Seq(Word) /\ held = pending[kind] \o <<word>> /\ Len(held) \in Nat
  BY <1>1, AppendProperties, AppendIsConcat, LenProperties
<1> HIDE DEF held
<1>3. \A i \in 1 .. Len(held) : held[i] \in Word
  BY <1>2, ElementOfSeq
<1>4. ready \in 0 .. Len(held) /\ ready \in Nat
  BY <1>2 DEF held
<1>5. SubSeq(held, 1, ready) \in Seq(Word)
  BY <1>2, <1>3, <1>4, SubSeqProperties
<1>6. SubSeq(held, ready + 1, Len(held)) \in Seq(Word)
  <2>1. \A i \in ready + 1 .. Len(held) : held[i] \in Word
    BY <1>2, <1>3, <1>4
  <2> QED
    BY <1>2, <1>4, <2>1, SubSeqProperties
<1>7. SubSeq(held, 1, ready) \o SubSeq(held, ready + 1, Len(held)) = held
  <2>1. 1 \in 1 .. Len(held) + 1 /\ ready \in 1 - 1 .. Len(held) /\ Len(held) \in ready .. Len(held)
    BY <1>2, <1>4
  <2>2. SubSeq(held, 1, ready) \o SubSeq(held, ready + 1, Len(held)) = SubSeq(held, 1, Len(held))
    BY <1>2, <2>1, ConcatAdjacentSubSeq
  <2> QED
    BY <1>2, <2>2, SubSeqFull
<1> QED
  BY <1>2, <1>5, <1>6, <1>7 DEF held

(* The word a delta brings.                                                *)
LEMMA WordType ==
  ASSUME TypeOK, NEW kind \in Kinds, Len(fed[kind]) < MaxWords
  PROVE  [attempt |-> made, no |-> Len(fed[kind]) + 1] \in Word
<1>1. Len(fed[kind]) \in Nat /\ MaxWords \in Nat
  BY LenProperties, LiveStepAssumption DEF TypeOK
<1> QED
  BY <1>1 DEF TypeOK, Word

LEMMA ReceiveTyped ==
  ASSUME WellTyped, NEW kind \in Kinds, NEW ready, NEW looping \in BOOLEAN,
         NEW watched \in BOOLEAN, Receive(kind, ready, looping, watched)
  PROVE  WellTyped'
<1> DEFINE word == [attempt |-> made, no |-> Len(fed[kind]) + 1]
           held == Append(pending[kind], word)
           first == SubSeq(held, 1, ready)
           rest == SubSeq(held, ready + 1, Len(held))
<1>1. TypeOK /\ word \in Word
  BY WordType DEF WellTyped, Receive
<1> HIDE DEF word
<1>2. /\ ready \in 0 .. Len(held) /\ Put(Texts(kind, first))
      /\ fed' = [fed EXCEPT ![kind] = Append(@, word)]
      /\ heard' = [heard EXCEPT ![kind] = Append(@, word)]
      /\ pending' = [pending EXCEPT ![kind] = rest]
      /\ loops' = [loops EXCEPT ![kind] = looping]
      /\ step = "asking" /\ step' \in {"asking", "stopped"}
      /\ UNCHANGED <<rail, made, reply, taken, pc, shown>>
  BY DEF Receive, word
<1>3. first \in Seq(Word) /\ rest \in Seq(Word)
  BY <1>1, <1>2, Pieces
<1>4. Texts(kind, first) \in Seq(Event)
  BY <1>3, TextsType
<1> HIDE DEF held, first, rest
<1>5. {fed, heard, pending}' \subseteq [Kinds -> Seq(Word)]
  <2>1. /\ Append(fed[kind], word) \in Seq(Word) /\ Append(heard[kind], word) \in Seq(Word)
        /\ fed \in [Kinds -> Seq(Word)] /\ heard \in [Kinds -> Seq(Word)]
        /\ pending \in [Kinds -> Seq(Word)]
    BY <1>1, AppendProperties DEF TypeOK
  <2> QED
    BY <1>2, <1>3, <2>1
<1>6. /\ queue' \in Seq(Event)
      /\ waiter' \in {"none", "new", "waiting", "woken", "got", "cancelled"}
      /\ waiter' = waiter \/ (waiter = "waiting" /\ waiter' = "woken")
  BY <1>1, <1>2, <1>4, PutType
<1>7. TypeOK'
  <2>1. loops' \in [Kinds -> BOOLEAN]
    BY <1>1, <1>2 DEF TypeOK
  <2> QED
    BY <1>1, <1>2, <1>5, <1>6, <2>1 DEF TypeOK
<1>8. PlacesInv'
  BY <1>2, <1>6 DEF WellTyped, PlacesInv, StepOver, Going
<1> QED
  BY <1>7, <1>8 DEF WellTyped

LEMMA RetryTyped ==
  ASSUME WellTyped, NEW failure, Retry(failure)
  PROVE  WellTyped'
<1> DEFINE event == [kind |-> "retry", attempt |-> Attempt]
<1>1. /\ Put(Append(Flushed, event)) /\ pending' = Finished /\ heard' = Unread
      /\ loops' = [kind \in Kinds |-> FALSE] /\ made' = made + 1 /\ made < MaxRetries
      /\ step = "asking" /\ step' = "resting"
      /\ UNCHANGED <<rail, fed, reply, taken, pc, shown>>
  BY DEF Retry, Retried, Fails
<1>2. made' \in 0 .. MaxRetries /\ event \in Event
  BY <1>1, LiveStepAssumption DEF WellTyped, TypeOK, Event, Attempt
<1>3. Append(Flushed, event) \in Seq(Event)
  BY <1>2, FlushedType, AppendProperties DEF WellTyped
<1> HIDE DEF event
<1>4. /\ queue' \in Seq(Event)
      /\ waiter' \in {"none", "new", "waiting", "woken", "got", "cancelled"}
      /\ waiter' = waiter \/ (waiter = "waiting" /\ waiter' = "woken")
  BY <1>1, <1>3, PutType DEF WellTyped
<1>5. Finished \in [Kinds -> Seq(Word)] /\ Unread \in [Kinds -> Seq(Word)]
  BY EmptySeq DEF Finished, Unread
<1>6. TypeOK'
  BY <1>1, <1>2, <1>4, <1>5 DEF WellTyped, TypeOK
<1>7. PlacesInv'
  BY <1>1, <1>4 DEF WellTyped, PlacesInv, StepOver, Going
<1> QED
  BY <1>6, <1>7 DEF WellTyped

LEMMA RepliesTyped ==
  ASSUME WellTyped, StopsReading \/ EndsInALoop \/ Completes
  PROVE  WellTyped'
<1>1. \/ Replies(Repeated) /\ step \in {"stopped", "asking"}
      \/ Replies(Whole) /\ step = "asking"
  BY DEF StopsReading, EndsInALoop, Completes
<1>2. Repeated \in Reply /\ Whole \in Reply
  <2>1. heard \in [Kinds -> Seq(Word)]
    BY DEF WellTyped, TypeOK
  <2> QED
    BY <2>1, EmptySeq DEF Repeated, Whole, Reply
<1>3. TypeOK'
  BY <1>1, <1>2 DEF Replies, WellTyped, TypeOK
<1>4. PlacesInv'
  BY <1>1 DEF Replies, WellTyped, PlacesInv, StepOver, Going
<1> QED
  BY <1>3, <1>4 DEF WellTyped

(* A step that goes where it may.                                          *)
LEMMA GoesTyped ==
  ASSUME WellTyped,
         \/ Ask \/ Calls \/ Return \/ Raise \/ Unwound
         \/ \E failure \in Failures : GivesUp(failure)
  PROVE  WellTyped'
<1>1. /\ step \in {"resting", "asking", "replied", "calling", "unwinding"}
      /\ step' \in {"asking", "calling", "returned", "raised", "cancelled"}
      /\ step = "unwinding" => step' \in {"returned", "raised", "cancelled"}
      /\ UNCHANGED <<askVars, pending, queue, waiter, taken, pc, shown>>
  BY DEF Ask, Calls, Return, Raise, Unwound, GivesUp, StepGoes
<1>2. TypeOK'
  BY <1>1 DEF WellTyped, TypeOK, askVars
<1>3. PlacesInv'
  BY <1>1 DEF WellTyped, PlacesInv, StepOver, Going, askVars
<1> QED
  BY <1>2, <1>3 DEF WellTyped

(* The head of a queue is shown, or got by the waiter.                     *)
LEMMA NextEvent ==
  ASSUME TypeOK, queue # <<>>
  PROVE  /\ Head(queue) \in Event /\ Tail(queue) \in Seq(Event)
         /\ Append(shown, Head(queue)) \in Seq(Event)
         /\ <<Head(queue)>> \in Seq(Event) /\ Len(<<Head(queue)>>) = 1
  BY HeadTailProperties, AppendProperties DEF TypeOK

LEMMA GetTyped ==
  ASSUME WellTyped, Get
  PROVE  WellTyped'
<1>1. /\ waiter \in {"new", "woken"} /\ UNCHANGED <<askVars, step, pending, pc, shown>>
      /\ \/ waiter' = "waiting" /\ UNCHANGED <<queue, taken>>
         \/ /\ waiter' = "got" /\ taken' \in Seq(Event) /\ Len(taken') = 1
            /\ queue' \in Seq(Event) /\ queue # <<>>
  BY NextEvent DEF Get, WellTyped
<1>2. TypeOK'
  BY <1>1 DEF WellTyped, TypeOK, askVars
<1>3. PlacesInv'
  BY <1>1 DEF WellTyped, PlacesInv, StepOver, Going
<1> QED
  BY <1>2, <1>3 DEF WellTyped

LEMMA FlushTyped ==
  ASSUME WellTyped, Flush
  PROVE  WellTyped'
<1>1. /\ Put(Flushed) /\ pending' = Finished /\ StepOver /\ pc = "look" /\ pc' = "last"
      /\ UNCHANGED <<askVars, step, taken, shown>>
  BY DEF Flush
<1>2. /\ queue' \in Seq(Event) /\ waiter = "none" /\ waiter' = "none"
  BY <1>1, FlushedType, PutType DEF WellTyped, PlacesInv
<1>3. Finished \in [Kinds -> Seq(Word)]
  BY EmptySeq DEF Finished
<1>4. TypeOK'
  BY <1>1, <1>2, <1>3 DEF WellTyped, TypeOK, askVars
<1>5. PlacesInv'
  BY <1>1, <1>2 DEF WellTyped, PlacesInv, StepOver, Going
<1> QED
  BY <1>4, <1>5 DEF WellTyped

LEMMA ShowTyped ==
  ASSUME WellTyped, Look \/ LookLast
  PROVE  WellTyped'
<1>1. /\ queue # <<>> /\ shown' = Append(shown, Head(queue)) /\ queue' = Tail(queue)
      /\ UNCHANGED <<askVars, step, pending, waiter, taken>>
      /\ \/ pc = "look" /\ pc' = "yielded"
         \/ pc = "last" /\ pc' = "yieldedLast"
  BY DEF Look, LookLast, ShowNext
<1>2. TypeOK'
  BY <1>1, NextEvent DEF WellTyped, TypeOK, askVars
<1>3. PlacesInv'
  BY <1>1 DEF WellTyped, PlacesInv, StepOver, Going
<1> QED
  BY <1>2, <1>3 DEF WellTyped

LEMMA WakeTyped ==
  ASSUME WellTyped, Wake
  PROVE  WellTyped'
<1>1. /\ pc = "wait" /\ taken' = <<>> /\ UNCHANGED <<askVars, step, pending, queue>>
      /\ \/ shown' = shown \o taken /\ waiter' = "none" /\ pc' = "yielded"
         \/ UNCHANGED shown /\ waiter' = "cancelled" /\ pc' = "drop"
  BY DEF Wake
<1>2. shown' \in Seq(Event) /\ taken' \in Seq(Event) /\ Len(taken') = 0
  <2>1. shown \in Seq(Event) /\ taken \in Seq(Event)
    BY DEF WellTyped, TypeOK
  <2>2. shown \o taken \in Seq(Event)
    BY <2>1, ConcatProperties
  <2> QED
    BY <1>1, <2>1, <2>2, EmptySeq
<1>3. TypeOK'
  BY <1>1, <1>2 DEF WellTyped, TypeOK, askVars
<1>4. PlacesInv'
  BY <1>1 DEF WellTyped, PlacesInv, StepOver, Going
<1> QED
  BY <1>3, <1>4 DEF WellTyped

(* The rest of the generator says and shows nothing.                       *)
LEMMA TurnsTyped ==
  ASSUME WellTyped, Wait \/ Dropped \/ Resume \/ End \/ Close \/ Closed
  PROVE  WellTyped'
<1>1. CASE Close
  <2>1. /\ UNCHANGED <<askVars, pending, queue, shown>> /\ pc' = "closing"
        /\ waiter' = "none" /\ taken' = <<>> /\ Len(taken') = 0 /\ taken' \in Seq(Event)
        /\ (step' = step /\ StepOver) \/ step' = "unwinding"
    BY <1>1, EmptySeq DEF Close
  <2>2. TypeOK'
    BY <2>1 DEF WellTyped, TypeOK, askVars
  <2>3. PlacesInv'
    BY <2>1 DEF WellTyped, PlacesInv, StepOver, Going
  <2> QED
    BY <2>2, <2>3 DEF WellTyped
<1>2. CASE ~ Close
  <2>1. /\ UNCHANGED <<askVars, step, pending, queue, taken, shown>>
        /\ \/ pc = "look" /\ pc' = "wait" /\ waiter' = "new"
           \/ pc = "drop" /\ pc' = "look" /\ waiter' = "none"
           \/ pc = "yielded" /\ pc' = "look" /\ waiter' = waiter
           \/ pc = "yieldedLast" /\ pc' = "last" /\ waiter' = waiter
           \/ pc = "last" /\ pc' = "over" /\ queue = <<>> /\ waiter' = waiter
           \/ pc = "closing" /\ pc' = "closed" /\ StepOver /\ waiter' = waiter
    BY <1>2 DEF Wait, Dropped, Resume, End, Closed, Joined
  <2>2. TypeOK'
    BY <2>1 DEF WellTyped, TypeOK, askVars, PlacesInv
  <2>3. PlacesInv'
    BY <2>1 DEF WellTyped, PlacesInv, StepOver, Going
  <2> QED
    BY <2>2, <2>3 DEF WellTyped
<1> QED
  BY <1>1, <1>2

LEMMA TypesInit == Init => WellTyped
<1> SUFFICES ASSUME Init PROVE WellTyped
  OBVIOUS
<1>1. <<>> \in Seq(Event) /\ <<>> \in Seq(Word) /\ Len(<<>>) = 0
  BY EmptySeq
<1>2. 0 \in 0 .. MaxRetries
  BY LiveStepAssumption
<1>3. TypeOK
  BY <1>1, <1>2 DEF Init, TypeOK, Unread
<1>4. PlacesInv
  BY DEF Init, PlacesInv, Going
<1> QED
  BY <1>3, <1>4 DEF WellTyped

LEMMA TypesStep == WellTyped /\ [Next]_vars => WellTyped'
<1> SUFFICES ASSUME WellTyped, [Next]_vars PROVE WellTyped'
  OBVIOUS
<1>1. CASE Step
  BY <1>1, ReceiveTyped, RetryTyped, RepliesTyped, GoesTyped DEF Step
<1>2. CASE Drain
  BY <1>2, ShowTyped, WakeTyped, FlushTyped, TurnsTyped DEF Drain
<1>3. CASE Get \/ Resume \/ Close \/ Closed
  BY <1>3, GetTyped, TurnsTyped
<1>4. CASE UNCHANGED vars
  BY <1>4 DEF vars, askVars, WellTyped, TypeOK, PlacesInv, StepOver, Going
<1> QED
  BY <1>1, <1>2, <1>3, <1>4 DEF Next

(* The types of the step, the queue, the waiter and the generator.         *)
THEOREM TypeCorrect == Spec => []TypeOK
<1>1. WellTyped => TypeOK
  BY DEF WellTyped
<1> QED
  BY <1>1, TypesInit, TypesStep, PTL DEF Spec

-----------------------------------------------------------------------------
(***************************************************************************)
(* The words are shown in their order.                                     *)
(***************************************************************************)

(* What a text of a kind adds, and what a flush does.                      *)
LEMMA TextsAdd ==
  ASSUME NEW kind \in Kinds, NEW other \in Kinds, NEW words \in Seq(Word),
         NEW s \in Seq(Event), NEW anew, anew \in {{}, {"retry"}}
  PROVE  Said(kind, s \o Texts(other, words), anew)
           = Said(kind, s, anew) \o IF kind = other THEN words ELSE <<>>
<1>1. Said(kind, s, anew) \in Seq(Word)
  BY WordsAreSaid
<1>2. CASE words = <<>>
  <2>1. Texts(other, words) = <<>> /\ s \o <<>> = s
    BY <1>2, ConcatEmptySeq DEF Texts
  <2>2. Said(kind, s, anew) \o <<>> = Said(kind, s, anew)
    BY <1>1, ConcatEmptySeq
  <2> QED
    BY <1>2, <2>1, <2>2
<1>3. CASE words # <<>>
  <2> DEFINE e == [kind |-> other, text |-> words]
  <2>1. e \in Event /\ e.kind = other /\ e.text = words
    BY DEF Event
  <2>2. e.kind \notin anew
    BY <2>1 DEF Kinds
  <2>3. Texts(other, words) = <<e>>
    BY <1>3 DEF Texts
  <2> HIDE DEF e
  <2>4. s \o <<e>> = Append(s, e)
    BY <2>1, AppendIsConcat
  <2>5. Said(kind, Append(s, e), anew) = Adds(kind, e, anew, Said(kind, s, anew))
    BY <2>1, SaidAppend
  <2>6. Adds(kind, e, anew, Said(kind, s, anew))
          = Said(kind, s, anew) \o IF kind = other THEN words ELSE <<>>
    BY <2>1, <2>2 DEF Adds
  <2> QED
    BY <2>3, <2>4, <2>5, <2>6
<1> QED
  BY <1>2, <1>3

LEMMA FlushAdds ==
  ASSUME TypeOK, NEW kind \in Kinds, NEW s \in Seq(Event), NEW anew, anew \in {{}, {"retry"}}
  PROVE  Said(kind, s \o Flushed, anew) = Said(kind, s, anew) \o pending[kind]
<1> DEFINE p == pending["progress"]
           t == pending["thinking"]
           first == Texts("progress", p)
           rest == Texts("thinking", t)
           before == Said(kind, s, anew)
<1>1. p \in Seq(Word) /\ t \in Seq(Word) /\ "progress" \in Kinds /\ "thinking" \in Kinds
  BY DEF TypeOK, Kinds
<1>2. first \in Seq(Event) /\ rest \in Seq(Event) /\ Flushed = first \o rest
  BY <1>1, TextsType DEF Flushed
<1>3. before \in Seq(Word)
  BY WordsAreSaid
<1> HIDE DEF p, t, before
<1>4. s \o first \in Seq(Event) /\ s \o Flushed = (s \o first) \o rest
  <2> HIDE DEF first, rest
  <2>1. s \o first \in Seq(Event)
    BY <1>2, ConcatProperties
  <2>2. (s \o first) \o rest = s \o (first \o rest)
    BY <1>2, ConcatAssociative
  <2> QED
    BY <1>2, <2>1, <2>2
<1>5. Said(kind, s \o first, anew) = before \o IF kind = "progress" THEN p ELSE <<>>
  BY <1>1, TextsAdd DEF before
<1>6. Said(kind, (s \o first) \o rest, anew)
        = Said(kind, s \o first, anew) \o IF kind = "thinking" THEN t ELSE <<>>
  <2> DEFINE u == s \o first
  <2>1. u \in Seq(Event)
    BY <1>4
  <2> HIDE DEF u
  <2>2. Said(kind, u \o rest, anew)
          = Said(kind, u, anew) \o IF kind = "thinking" THEN t ELSE <<>>
    BY <1>1, <2>1, TextsAdd
  <2> QED
    BY <2>2 DEF u
<1>7. CASE kind = "progress"
  <2>1. before \o p \in Seq(Word)
    BY <1>1, <1>3, ConcatProperties
  <2>2. (before \o p) \o <<>> = before \o p
    BY <2>1, ConcatEmptySeq
  <2>3. Said(kind, (s \o first) \o rest, anew) = (before \o p) \o <<>>
    BY <1>5, <1>6, <1>7
  <2> QED
    BY <1>4, <1>7, <2>2, <2>3 DEF p, before
<1>8. CASE kind = "thinking"
  <2>1. before \o <<>> = before
    BY <1>3, ConcatEmptySeq
  <2>2. Said(kind, (s \o first) \o rest, anew) = (before \o <<>>) \o t
    BY <1>5, <1>6, <1>8
  <2> QED
    BY <1>4, <1>8, <2>1, <2>2 DEF t, before
<1> QED
  BY <1>7, <1>8 DEF Kinds

(* A put adds to the stream.                                               *)
LEMMA StreamType ==
  ASSUME TypeOK
  PROVE  Stream \in Seq(Event)
<1>1. shown \in Seq(Event) /\ taken \in Seq(Event) /\ queue \in Seq(Event)
  BY DEF TypeOK
<1>2. shown \o taken \in Seq(Event)
  BY <1>1, ConcatProperties
<1> QED
  BY <1>1, <1>2, ConcatProperties DEF Stream

LEMMA PutStreams ==
  ASSUME TypeOK, NEW events \in Seq(Event), Put(events), UNCHANGED <<shown, taken>>
  PROVE  Stream' = Stream \o events
<1>1. shown \in Seq(Event) /\ taken \in Seq(Event) /\ queue \in Seq(Event)
  BY DEF TypeOK
<1>2. shown \o taken \in Seq(Event)
  BY <1>1, ConcatProperties
<1>3. (shown \o taken) \o (queue \o events) = ((shown \o taken) \o queue) \o events
  BY <1>1, <1>2, ConcatAssociative
<1> QED
  BY <1>3 DEF Put, Stream

(* What is shown is the beginning of the stream.                           *)
LEMMA ShownIsSaid == TypeOK /\ AllTold => WordsInOrder
<1> SUFFICES ASSUME TypeOK, NEW kind \in Kinds, Tells(kind)
             PROVE  IsPrefix(Said(kind, shown, {}), fed[kind])
  BY DEF WordsInOrder, AllTold
<1>1. shown \in Seq(Event) /\ taken \in Seq(Event) /\ queue \in Seq(Event)
      /\ taken \o queue \in Seq(Event) /\ pending[kind] \in Seq(Word)
  BY ConcatProperties DEF TypeOK
<1>2. Stream = shown \o (taken \o queue)
  BY <1>1, ConcatAssociative DEF Stream
<1>3. \A e \in Event : e.kind \notin {}
  OBVIOUS
<1>4. IsPrefix(Said(kind, shown, {}), Said(kind, Stream, {}))
  BY <1>1, <1>2, <1>3, SaidGrows
<1>5. Said(kind, shown, {}) \in Seq(Word) /\ Said(kind, Stream, {}) \in Seq(Word)
  BY <1>1, StreamType, WordsAreSaid
<1>6. IsPrefix(Said(kind, shown, {}), Said(kind, Stream, {}) \o pending[kind])
  BY <1>1, <1>4, <1>5, PrefixOfConcat
<1> QED
  BY <1>6 DEF Tells

LEMMA WordMoves ==
  ASSUME NEW S, NEW said \in Seq(S), NEW kept \in Seq(S), NEW word \in S
  PROVE  said \o (kept \o <<word>>) = Append(said \o kept, word)
<1>1. <<word>> \in Seq(S)
  OBVIOUS
<1>2. said \o (kept \o <<word>>) = (said \o kept) \o <<word>>
  BY <1>1, ConcatAssociative
<1>3. said \o kept \in Seq(S)
  BY ConcatProperties
<1> QED
  BY <1>2, <1>3, AppendIsConcat

LEMMA ReceiveTells ==
  ASSUME WellTyped, SaidInv, NEW kind \in Kinds, NEW ready, NEW looping \in BOOLEAN,
         NEW watched \in BOOLEAN, Receive(kind, ready, looping, watched), NEW k \in Kinds,
         Going
  PROVE  Tells(k)'
<1> DEFINE word == [attempt |-> made, no |-> Len(fed[kind]) + 1]
           held == Append(pending[kind], word)
           first == SubSeq(held, 1, ready)
           rest == SubSeq(held, ready + 1, Len(held))
<1>1. TypeOK /\ word \in Word
  BY WordType DEF WellTyped, Receive
<1> HIDE DEF word
<1>2. /\ ready \in 0 .. Len(held) /\ Put(Texts(kind, first))
      /\ fed' = [fed EXCEPT ![kind] = Append(@, word)]
      /\ heard' = [heard EXCEPT ![kind] = Append(@, word)]
      /\ pending' = [pending EXCEPT ![kind] = rest]
      /\ UNCHANGED <<taken, shown>>
  BY DEF Receive, word
<1>3. /\ held = pending[kind] \o <<word>> /\ first \o rest = held
      /\ first \in Seq(Word) /\ rest \in Seq(Word)
  BY <1>1, <1>2, Pieces
<1>4. Texts(kind, first) \in Seq(Event)
  BY <1>3, TextsType
<1> HIDE DEF held, first, rest
<1>5. Stream' = Stream \o Texts(kind, first) /\ Stream \in Seq(Event)
  BY <1>1, <1>2, <1>4, PutStreams, StreamType
<1>6. \A anew \in {{}, {"retry"}} :
        Said(k, Stream', anew) = Said(k, Stream, anew) \o IF k = kind THEN first ELSE <<>>
  BY <1>3, <1>5, TextsAdd
<1>7. \A anew \in {{}, {"retry"}} : Said(k, Stream, anew) \in Seq(Word)
  BY <1>5, WordsAreSaid
<1>8. /\ fed \in [Kinds -> Seq(Word)] /\ heard \in [Kinds -> Seq(Word)]
      /\ pending \in [Kinds -> Seq(Word)]
  BY <1>1 DEF TypeOK
<1>9. Tells(k)
  BY DEF SaidInv, AllTold
<1>10. CASE k = kind
  <2>1. ASSUME NEW said \in Seq(Word)
        PROVE  (said \o first) \o rest = Append(said \o pending[kind], word)
    <3>1. (said \o first) \o rest = said \o (first \o rest)
      <4>1. first \in Seq(Word) /\ rest \in Seq(Word)
        BY <1>3
      <4> QED
        BY <4>1, ConcatAssociative
    <3>2. pending[kind] \in Seq(Word)
      BY <1>8
    <3>3. said \o (pending[kind] \o <<word>>) = Append(said \o pending[kind], word)
      BY <1>1, <3>2, WordMoves
    <3> QED
      BY <1>3, <3>1, <3>3
  <2>2. /\ fed[kind] \in Seq(Word) /\ heard[kind] \in Seq(Word)
        /\ fed'[kind] = Append(fed[kind], word) /\ heard'[kind] = Append(heard[kind], word)
        /\ pending'[kind] = rest
    BY <1>2, <1>8
  <2>3. (Said(kind, Stream, {}) \o first) \o rest = Append(fed[kind], word)
    BY <1>7, <1>9, <1>10, <2>1, <2>2 DEF Tells
  <2>4. (Said(kind, Stream, {"retry"}) \o first) \o rest = Append(heard[kind], word)
    BY <1>7, <1>9, <1>10, <2>1, <2>2 DEF Tells
  <2>5. /\ Said(kind, Stream', {}) = Said(kind, Stream, {}) \o first
        /\ Said(kind, Stream', {"retry"}) = Said(kind, Stream, {"retry"}) \o first
    BY <1>6, <1>10
  <2> QED
    BY <1>10, <2>2, <2>3, <2>4, <2>5 DEF Tells
<1>11. CASE k # kind
  <2>1. fed'[k] = fed[k] /\ heard'[k] = heard[k] /\ pending'[k] = pending[k]
    BY <1>2, <1>8, <1>11
  <2>2. /\ Said(k, Stream', {}) = Said(k, Stream, {}) \o <<>>
        /\ Said(k, Stream', {"retry"}) = Said(k, Stream, {"retry"}) \o <<>>
    BY <1>6, <1>11
  <2>3. /\ Said(k, Stream, {}) \o <<>> = Said(k, Stream, {})
        /\ Said(k, Stream, {"retry"}) \o <<>> = Said(k, Stream, {"retry"})
    BY <1>7, ConcatEmptySeq
  <2> QED
    BY <1>9, <2>1, <2>2, <2>3 DEF Tells
<1> QED
  BY <1>10, <1>11

(* The words of an attempt come before the retry that gives it up.         *)
LEMMA RetryTells ==
  ASSUME WellTyped, SaidInv, NEW failure, Retry(failure), NEW k \in Kinds, Going
  PROVE  Tells(k)'
<1> DEFINE e == [kind |-> "retry", attempt |-> Attempt]
           u == Stream \o Flushed
<1>1. /\ Put(Append(Flushed, e)) /\ pending' = Finished /\ heard' = Unread
      /\ made < MaxRetries /\ UNCHANGED <<fed, taken, shown>>
  BY DEF Retry, Retried
<1>2. e \in Event /\ e.kind = "retry"
  BY <1>1, LiveStepAssumption DEF WellTyped, TypeOK, Event, Attempt
<1>3. TypeOK /\ Flushed \in Seq(Event) /\ Stream \in Seq(Event) /\ u \in Seq(Event)
  BY FlushedType, StreamType, ConcatProperties DEF WellTyped
<1> HIDE DEF e
<1>4. Stream' = Append(u, e)
  <2>1. Append(Flushed, e) \in Seq(Event) /\ Append(Flushed, e) = Flushed \o <<e>>
        /\ <<e>> \in Seq(Event) /\ Append(u, e) = u \o <<e>>
    BY <1>2, <1>3, AppendProperties, AppendIsConcat
  <2>2. Stream' = Stream \o (Flushed \o <<e>>)
    BY <1>1, <1>3, <2>1, PutStreams
  <2>3. (Stream \o Flushed) \o <<e>> = Stream \o (Flushed \o <<e>>)
    BY <1>3, <2>1, ConcatAssociative
  <2> QED
    BY <2>1, <2>2, <2>3
<1>5. Said(k, u, {}) = fed[k]
  <2>1. Said(k, u, {}) = Said(k, Stream, {}) \o pending[k]
    BY <1>3, FlushAdds
  <2> QED
    BY <2>1 DEF SaidInv, AllTold, Tells
<1> HIDE DEF u
<1>6. e.kind # k
  BY <1>2 DEF Kinds
<1>7. Said(k, Append(u, e), {}) = fed[k] \o <<>>
  <2>1. Said(k, Append(u, e), {}) = Adds(k, e, {}, Said(k, u, {}))
    BY <1>2, <1>3, SaidAppend
  <2> QED
    BY <1>5, <1>6, <2>1 DEF Adds
<1>8. Said(k, Append(u, e), {"retry"}) = <<>>
  <2>1. Said(k, Append(u, e), {"retry"}) = Adds(k, e, {"retry"}, Said(k, u, {"retry"}))
    BY <1>2, <1>3, SaidAppend
  <2> QED
    BY <1>2, <2>1 DEF Adds
<1>9. fed[k] \in Seq(Word) /\ pending'[k] = <<>> /\ heard'[k] = <<>> /\ fed' = fed
  BY <1>1, <1>3 DEF TypeOK, Finished, Unread
<1>10. (fed[k] \o <<>>) \o <<>> = fed[k] /\ <<>> \o <<>> = <<>>
  BY <1>9, ConcatEmptySeq, EmptySeq
<1> QED
  BY <1>4, <1>7, <1>8, <1>9, <1>10 DEF Tells

LEMMA FlushTells ==
  ASSUME WellTyped, SaidInv, Flush, NEW k \in Kinds
  PROVE  Tells(k)'
<1>1. /\ Put(Flushed) /\ pending' = Finished /\ Going /\ UNCHANGED <<fed, heard, taken, shown>>
  BY DEF Flush, Going, askVars
<1>2. TypeOK /\ Flushed \in Seq(Event) /\ Stream \in Seq(Event)
  BY FlushedType, StreamType DEF WellTyped
<1>3. Stream' = Stream \o Flushed
  BY <1>1, <1>2, PutStreams
<1>4. /\ Said(k, Stream', {}) = Said(k, Stream, {}) \o pending[k]
      /\ Said(k, Stream', {"retry"}) = Said(k, Stream, {"retry"}) \o pending[k]
  BY <1>2, <1>3, FlushAdds
<1>5. Said(k, Stream', {}) = fed[k] /\ Said(k, Stream', {"retry"}) = heard[k]
  BY <1>1, <1>4 DEF SaidInv, AllTold, Tells
<1>6. fed[k] \in Seq(Word) /\ heard[k] \in Seq(Word) /\ pending'[k] = <<>>
  BY <1>1, <1>2 DEF TypeOK, Finished
<1>7. fed[k] \o <<>> = fed[k] /\ heard[k] \o <<>> = heard[k]
  BY <1>6, ConcatEmptySeq
<1> QED
  BY <1>1, <1>5, <1>6, <1>7 DEF Tells

(* Every other step leaves the stream as it was, until it is closed.       *)
LEMMA NextStreams ==
  ASSUME TypeOK, queue # <<>>
  PROVE  /\ Append(shown, Head(queue)) \o Tail(queue) = shown \o queue
         /\ (shown \o <<Head(queue)>>) \o Tail(queue) = shown \o queue
<1>1. /\ shown \in Seq(Event) /\ queue \in Seq(Event) /\ Head(queue) \in Event
      /\ Tail(queue) \in Seq(Event) /\ <<Head(queue)>> \in Seq(Event)
  BY NextEvent DEF TypeOK
<1>2. <<Head(queue)>> \o Tail(queue) = queue
  BY <1>1
<1>3. (shown \o <<Head(queue)>>) \o Tail(queue) = shown \o (<<Head(queue)>> \o Tail(queue))
  BY <1>1, ConcatAssociative
<1>4. Append(shown, Head(queue)) = shown \o <<Head(queue)>>
  BY <1>1, AppendIsConcat
<1> QED
  BY <1>2, <1>3, <1>4

LEMMA StreamStands ==
  ASSUME WellTyped,
         \/ Look \/ LookLast \/ Get \/ Wake
         \/ Wait \/ Dropped \/ Resume \/ End \/ Closed
  PROVE  Stream' = Stream
<1>1. /\ shown \in Seq(Event) /\ taken \in Seq(Event) /\ queue \in Seq(Event)
      /\ waiter # "got" => taken = <<>>
  BY EmptySeq DEF WellTyped, TypeOK
<1>2. shown \o <<>> = shown
  BY <1>1, ConcatEmptySeq
<1>3. CASE Look \/ LookLast
  <2>1. /\ queue # <<>> /\ shown' = Append(shown, Head(queue)) /\ queue' = Tail(queue)
        /\ taken' = taken /\ taken = <<>>
    BY <1>1, <1>3 DEF Look, LookLast, ShowNext, WellTyped, PlacesInv
  <2>2. Append(shown, Head(queue)) \in Seq(Event)
    BY <2>1, NextEvent DEF WellTyped
  <2>3. Append(shown, Head(queue)) \o <<>> = Append(shown, Head(queue))
    BY <2>2, ConcatEmptySeq
  <2>4. Append(shown, Head(queue)) \o Tail(queue) = shown \o queue
    BY <2>1, NextStreams DEF WellTyped
  <2> QED
    BY <1>2, <2>1, <2>3, <2>4 DEF Stream
<1>4. CASE Get
  <2>1. CASE queue = <<>>
    BY <1>4, <2>1 DEF Get, Stream
  <2>2. CASE queue # <<>>
    <3>1. taken = <<>> /\ taken' = <<Head(queue)>> /\ queue' = Tail(queue) /\ shown' = shown
      BY <1>1, <1>4, <2>2 DEF Get
    <3>2. (shown \o <<Head(queue)>>) \o Tail(queue) = shown \o queue
      BY <2>2, NextStreams DEF WellTyped
    <3> QED
      BY <1>2, <3>1, <3>2 DEF Stream
  <2> QED
    BY <2>1, <2>2
<1>5. CASE Wake
  <2>1. /\ taken' = <<>> /\ queue' = queue
        /\ \/ shown' = shown \o taken
           \/ shown' = shown /\ taken = <<>>
    BY <1>1, <1>5 DEF Wake, Got
  <2>2. shown' = shown \o taken
    BY <1>2, <2>1
  <2>3. (shown \o taken) \o <<>> = shown \o taken
    BY <1>1, ConcatProperties, ConcatEmptySeq
  <2> QED
    BY <2>1, <2>2, <2>3 DEF Stream
<1>6. CASE Wait \/ Dropped \/ Resume \/ End \/ Closed
  BY <1>6 DEF Wait, Dropped, Resume, End, Closed, Stream
<1> QED
  BY <1>3, <1>4, <1>5, <1>6

LEMMA ShowsTell ==
  ASSUME WellTyped, SaidInv, NEW k \in Kinds, Going,
         \/ Look \/ LookLast \/ Get \/ Wake
         \/ Wait \/ Dropped \/ Resume \/ End \/ Closed
  PROVE  Tells(k)'
<1>1. UNCHANGED <<fed, heard, pending>>
  BY DEF Look, LookLast, ShowNext, Get, Wake, Wait, Dropped, Resume, End, Closed, askVars
<1>2. Stream' = Stream
  BY StreamStands
<1> QED
  BY <1>1, <1>2 DEF SaidInv, AllTold, Tells

(* What the step does when it does not talk.                               *)
LEMMA StepsTell ==
  ASSUME WellTyped, SaidInv, NEW k \in Kinds, Going,
         \/ StopsReading \/ EndsInALoop \/ Completes
         \/ Ask \/ Calls \/ Return \/ Raise \/ Unwound
         \/ \E failure \in Failures : GivesUp(failure)
  PROVE  Tells(k)'
<1>1. UNCHANGED <<fed, heard, pending, shown, taken, queue>>
  BY DEF StopsReading, EndsInALoop, Completes, Replies, Ask, Calls, Return, Raise, Unwound,
         GivesUp, StepGoes, askVars
<1> QED
  BY <1>1 DEF SaidInv, AllTold, Tells, Stream

(* Nothing is sent to a generator that is closed, and it shows nothing.    *)
LEMMA ClosingIsQuiet ==
  ASSUME WellTyped, [Next]_vars, ~ Going'
  PROVE  UNCHANGED <<shown, fed>>
<1>1. CASE Close \/ Closed \/ UNCHANGED vars
  BY <1>1 DEF Close, Closed, vars, askVars
<1>2. CASE Step
  <2>1. ~ Going
    BY <1>2 DEF Going, Step, Receive, StopsReading, EndsInALoop, Completes, Replies, Retry,
                GivesUp, StepGoes, Ask, Calls, Return, Raise, Unwound
  <2>2. step # "asking"
    BY <2>1 DEF WellTyped, PlacesInv, StepOver
  <2> QED
    BY <1>2, <2>2 DEF Step, Receive, StopsReading, EndsInALoop, Completes, Replies, Retry, Fails,
                      GivesUp, StepGoes, Ask, Calls, Return, Raise, Unwound, askVars
<1>3. CASE Get
  BY <1>3 DEF Get, askVars
<1>4. ~ Drain /\ ~ Resume
  BY DEF Going, Drain, Look, Wait, Wake, Dropped, Flush, LookLast, End, ShowNext, Resume
<1> QED
  BY <1>1, <1>2, <1>3, <1>4 DEF Next

LEMMA SaidStep == WellTyped /\ SaidInv /\ [Next]_vars => SaidInv'
<1> SUFFICES ASSUME WellTyped, SaidInv, [Next]_vars PROVE SaidInv'
  OBVIOUS
<1>1. WellTyped' /\ TypeOK'
  BY TypesStep DEF WellTyped
<1>2. ASSUME Going', NEW k \in Kinds PROVE Tells(k)'
  <2>1. ~ Close
    BY <1>2 DEF Going, Close
  <2>2. CASE Step
    <3>1. Going
      BY <1>2, <2>2 DEF Going, Step, Receive, StopsReading, EndsInALoop, Completes, Replies,
                        Retry, GivesUp, StepGoes, Ask, Calls, Return, Raise, Unwound
    <3>2. ASSUME NEW kind \in Kinds, NEW ready \in 0 .. MaxWords,
                 NEW looping \in BOOLEAN, NEW watched \in BOOLEAN,
                 Receive(kind, ready, looping, watched)
          PROVE  Tells(k)'
      BY <3>1, <3>2, ReceiveTells
    <3>3. ASSUME NEW failure \in Failures, Retry(failure)
          PROVE  Tells(k)'
      BY <3>1, <3>3, RetryTells
    <3>4. CASE \/ StopsReading \/ EndsInALoop \/ Completes
               \/ Ask \/ Calls \/ Return \/ Raise \/ Unwound
               \/ \E failure \in Failures : GivesUp(failure)
      BY <3>1, <3>4, StepsTell
    <3> QED
      BY <2>2, <3>2, <3>3, <3>4 DEF Step
  <2>3. CASE Flush
    BY <2>3, FlushTells
  <2>4. CASE \/ Look \/ LookLast \/ Get \/ Wake
             \/ Wait \/ Dropped \/ Resume \/ End \/ Closed
    <3>1. Going
      BY <1>2, <2>4 DEF Going, Look, LookLast, ShowNext, Get, Wake, Wait, Dropped, Resume, End,
                        Closed
    <3> QED
      BY <2>4, <3>1, ShowsTell
  <2>5. CASE UNCHANGED vars
    <3>1. UNCHANGED <<fed, heard, pending, shown, taken, queue, pc>>
      BY <2>5 DEF vars, askVars
    <3> QED
      BY <1>2, <3>1 DEF SaidInv, AllTold, Tells, Stream, Going
  <2> QED
    BY <2>1, <2>2, <2>3, <2>4, <2>5 DEF Next, Drain
<1>3. CASE Going'
  <2>1. AllTold'
    BY <1>2, <1>3 DEF AllTold
  <2>2. WordsInOrder'
    BY <1>1, <2>1, ShownIsSaid, PTL
  <2> QED
    BY <2>1, <2>2 DEF SaidInv
<1>4. CASE ~ Going'
  <2>1. UNCHANGED <<shown, fed>>
    BY <1>4, ClosingIsQuiet
  <2> QED
    BY <1>4, <2>1 DEF SaidInv, WordsInOrder
<1> QED
  BY <1>3, <1>4

LEMMA SaidInit == Init => SaidInv
<1> SUFFICES ASSUME Init PROVE SaidInv
  OBVIOUS
<1>1. /\ shown = <<>> /\ taken = <<>> /\ queue = <<>> /\ TypeOK
      /\ \A k \in Kinds : fed[k] = <<>> /\ heard[k] = <<>> /\ pending[k] = <<>>
  BY TypesInit DEF Init, Unread, WellTyped
<1>2. Stream = <<>>
  BY <1>1, ConcatEmptySeq, EmptySeq DEF Stream
<1>3. \A k \in Kinds, anew \in {{}, {"retry"}} : Said(k, <<>>, anew) = <<>>
  BY SilenceSaysNothing
<1>4. <<>> \o <<>> = <<>>
  BY ConcatEmptySeq, EmptySeq
<1>5. AllTold
  BY <1>1, <1>2, <1>3, <1>4 DEF AllTold, Tells
<1>6. WordsInOrder
  BY <1>1, <1>5, ShownIsSaid
<1> QED
  BY <1>5, <1>6 DEF SaidInv

(* The queue and the words held back: whatever the deltas, the retries and *)
(* the order in which the waiter and the step come, what is shown of a     *)
(* kind is a beginning of what was sent of it.                             *)
THEOREM WordsStayInOrder == Spec => []WordsInOrder
<1>1. SaidInv => WordsInOrder
  BY DEF SaidInv
<1> QED
  BY <1>1, TypesInit, TypesStep, SaidInit, SaidStep, PTL DEF Spec

-----------------------------------------------------------------------------
(***************************************************************************)
(* The reply is what was shown.                                            *)
(***************************************************************************)

LEMMA ReplyInit == Init => ReplyInv
  BY DEF Init, ReplyInv

LEMMA ReplyStep == ReplyInv /\ WellTyped /\ [Next]_vars => ReplyInv'
<1> SUFFICES ASSUME ReplyInv, WellTyped, [Next]_vars,
                    Going', (step \in {"replied", "calling", "returned"})', NEW k \in Kinds
             PROVE  ReplyTells(k)'
  BY DEF ReplyInv
<1>1. CASE UNCHANGED vars
  BY <1>1 DEF vars, askVars, ReplyInv, ReplyTells, Going
<1>2. ASSUME NEW kind \in Kinds, NEW ready \in 0 .. MaxWords,
             NEW looping \in BOOLEAN, NEW watched \in BOOLEAN,
             Receive(kind, ready, looping, watched)
      PROVE  FALSE
  BY <1>2 DEF Receive
<1>3. ASSUME NEW failure \in Failures, Retry(failure) \/ GivesUp(failure)
      PROVE  FALSE
  BY <1>3 DEF Retry, GivesUp, StepGoes
<1>4. CASE StopsReading \/ EndsInALoop
  <2>1. reply' = Repeated /\ heard' = heard /\ rail' = rail
    BY <1>4 DEF StopsReading, EndsInALoop, Replies
  <2> QED
    BY <2>1 DEF Repeated, ReplyTells
<1>5. CASE Completes
  BY <1>5 DEF Completes, Replies, Whole, ReplyTells
<1>6. CASE Ask \/ Calls \/ Return \/ Raise \/ Unwound
  <2>1. Going /\ step \in {"replied", "calling"} /\ UNCHANGED askVars
    BY <1>6 DEF Ask, Calls, Return, Raise, Unwound, StepGoes, WellTyped, PlacesInv, Going
  <2> QED
    BY <2>1 DEF ReplyInv, ReplyTells, askVars
<1>7. CASE Get \/ Drain \/ Resume
  <2>1. Going /\ UNCHANGED askVars /\ step' = step
    BY <1>7 DEF Get, Drain, Look, Wait, Wake, Dropped, Flush, LookLast, End, ShowNext, Resume,
                Going
  <2> QED
    BY <2>1 DEF ReplyInv, ReplyTells, askVars
<1>8. CASE Close \/ Closed
  BY <1>8 DEF Close, Closed, Going
<1> QED
  BY <1>1, <1>2, <1>3, <1>4, <1>5, <1>6, <1>7, <1>8 DEF Next, Step

LEMMA OverTellsAll ==
  ASSUME WellTyped, SaidInv, ReplyInv
  PROVE  ReplyIsShown
<1> SUFFICES ASSUME pc = "over", step = "returned", NEW k \in Kinds
             PROVE  \/ Said(k, shown, {"retry"}) = reply.words[k]
                    \/ k = "thinking" /\ rail = "anthropic" /\ reply.stop = "repetition"
  BY DEF ReplyIsShown
<1>1. /\ queue = <<>> /\ waiter = "none" /\ pending = Finished /\ Going
      /\ shown \in Seq(Event) /\ taken \in Seq(Event) /\ Len(taken) = 0
  BY DEF WellTyped, TypeOK, PlacesInv, Going
<1>2. taken = <<>> /\ pending[k] = <<>>
  BY <1>1, EmptySeq DEF Finished
<1>3. Stream = shown
  BY <1>1, <1>2, ConcatEmptySeq DEF Stream
<1>4. Said(k, shown, {"retry"}) \in Seq(Word)
  BY <1>1, WordsAreSaid
<1>5. Said(k, shown, {"retry"}) = heard[k]
  <2>1. Said(k, shown, {"retry"}) \o <<>> = heard[k]
    BY <1>1, <1>2, <1>3 DEF SaidInv, AllTold, Tells
  <2> QED
    BY <1>4, <2>1, ConcatEmptySeq
<1> QED
  BY <1>1, <1>5 DEF ReplyInv, ReplyTells

(* _live_step and stream_turn: a caller that has seen the last event of a  *)
(* step that returned has been shown, since the last retry, exactly the    *)
(* reply the session keeps, but for the reasoning of a stopped reply that  *)
(* the rail leaves out unsigned.                                           *)
THEOREM ShownReplyIsKept == Spec => []ReplyIsShown
<1>1. WellTyped /\ SaidInv /\ ReplyInv => ReplyIsShown
  BY OverTellsAll
<1> QED
  BY <1>1, TypesInit, TypesStep, SaidInit, SaidStep, ReplyInit, ReplyStep, PTL DEF Spec

-----------------------------------------------------------------------------
(* The generator looks at the queue for the last time only after the step, *)
(* and a step that is over stays over.                                     *)
JoinInv == pc \in {"last", "yieldedLast", "over", "closed"} => StepOver

LEMMA JoinInit == Init => JoinInv
  BY DEF Init, JoinInv

LEMMA JoinStep == JoinInv /\ [Next]_vars => JoinInv'
<1> SUFFICES ASSUME JoinInv, [Next]_vars PROVE JoinInv'
  OBVIOUS
<1> USE DEF JoinInv, StepOver
<1>1. CASE Step
  <2>1. ASSUME NEW kind \in Kinds, NEW ready \in 0 .. MaxWords,
               NEW looping \in BOOLEAN, NEW watched \in BOOLEAN,
               Receive(kind, ready, looping, watched)
        PROVE  JoinInv'
    BY <2>1 DEF Receive
  <2>2. CASE StopsReading \/ EndsInALoop \/ Completes
    BY <2>2 DEF StopsReading, EndsInALoop, Completes, Replies
  <2>3. ASSUME NEW failure \in Failures, Retry(failure) \/ GivesUp(failure)
        PROVE  JoinInv'
    BY <2>3 DEF Retry, GivesUp, Fails, StepGoes
  <2>4. CASE Ask \/ Calls \/ Return \/ Raise \/ Unwound
    BY <2>4 DEF Ask, Calls, Return, Raise, Unwound, StepGoes
  <2> QED
    BY <1>1, <2>1, <2>2, <2>3, <2>4 DEF Step
<1>2. CASE Get
  BY <1>2 DEF Get
<1>3. CASE Drain
  BY <1>3 DEF Drain, Look, Wait, Wake, Dropped, Flush, LookLast, End, ShowNext
<1>4. CASE Resume
  BY <1>4 DEF Resume
<1>5. CASE Close
  BY <1>5 DEF Close
<1>6. CASE Closed
  BY <1>6 DEF Closed, Joined
<1>7. CASE UNCHANGED vars
  BY <1>7 DEF vars
<1> QED
  BY <1>1, <1>2, <1>3, <1>4, <1>5, <1>6, <1>7 DEF Next

(* The finally of _live_step: however the generator is left, at its end,   *)
(* by aclose or by a cancellation, the step task is over by then.          *)
THEOREM NoStepIsEverLeft == Spec => []NoStepIsLeft
<1>1. JoinInv => NoStepIsLeft
  BY DEF JoinInv, NoStepIsLeft, StepOver
<1> QED
  BY <1>1, JoinInit, JoinStep, PTL DEF Spec
=============================================================================
