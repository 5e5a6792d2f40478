--------------------------- MODULE Redaction_proofs --------------------------
(* Proofs about Redaction, for every set of bodies of the declared shapes,   *)
(* every text in them, every choice of spans and every bound.               *)
(*                                                                          *)
(* Joining and replacing are recursive functions.  A recursive function is  *)
(* the one CHOOSE finds for its equation, so what it computes is shown in    *)
(* two steps: some function satisfies the equation, and by induction every   *)
(* value of one that does is as wanted.  Induction speaks of a set of        *)
(* numbers, not of a predicate, and rests on the least number of a set.      *)
EXTENDS Redaction, Integers, SequenceTheorems, FiniteSetTheorems, WellFoundedInduction, TLAPS

USE BoundAssumption

-----------------------------------------------------------------------------
(* Induction over data, with a set in place of a predicate.                  *)

(* A set of natural numbers that is not empty has a least one. *)
LEMMA LeastNumber ==
  ASSUME NEW T, T \subseteq Nat, T # {}
  PROVE  \E x \in T : \A y \in T : ~(y < x)
<1> DEFINE R == OpToRel(<, Nat)
<1>1. IsWellFoundedOn(R, Nat)
  BY NatLessThanWellFounded
<1>2. \A x, y \in Nat : y < x => <<y, x>> \in R
  BY DEF OpToRel
<1> HIDE DEF R
<1>3. PICK x \in T : \A y \in T : ~(<<y, x>> \in R)
  BY <1>1, WFMin
<1> QED
  BY <1>2, <1>3

LEMMA UpTo ==
  ASSUME NEW S, 0 \in S, NEW n \in Nat, \A i \in 1..n : i - 1 \in S => i \in S
  PROVE  \A i \in 0..n : i \in S
<1> SUFFICES ASSUME NEW i \in 0..n, i \notin S PROVE FALSE
  OBVIOUS
<1> DEFINE T == {j \in 0..n : j \notin S}
<1>1. PICK x \in T : \A y \in T : ~(y < x)
  <2>1. T \subseteq Nat /\ T # {}
    OBVIOUS
  <2> QED
    BY <2>1, LeastNumber
<1>2. x \in 1..n /\ x - 1 \in 0..n /\ x - 1 < x
  BY <1>1
<1>3. x - 1 \in S
  BY <1>1, <1>2
<1> QED
  BY <1>1, <1>2, <1>3

(* Downwards, from n to 1: what holds at i if it holds from i + 1 on. *)
LEMMA DownFrom ==
  ASSUME NEW S, NEW n \in Nat,
         \A i \in 1..n : (\A j \in i + 1..n : j \in S) => i \in S
  PROVE  \A i \in 1..n : i \in S
<1> SUFFICES ASSUME NEW i \in 1..n, i \notin S PROVE FALSE
  OBVIOUS
<1> DEFINE T == {k \in 0..n : n - k \in 1..n /\ n - k \notin S}
<1>1. n - i \in T
  OBVIOUS
<1>2. PICK x \in T : \A y \in T : ~(y < x)
  <2>1. T \subseteq Nat
    OBVIOUS
  <2> HIDE DEF T
  <2>2. T # {}
    BY <1>1
  <2> QED
    BY <2>1, <2>2, LeastNumber
<1>3. ASSUME NEW j \in (n - x) + 1..n PROVE j \in S
  <2>1. n - j \in 0..n /\ n - j < x /\ n - (n - j) = j /\ j \in 1..n
    BY <1>2
  <2> QED
    BY <1>2, <2>1
<1>4. n - x \in 1..n /\ n - x \notin S
  BY <1>2
<1> QED
  BY <1>3, <1>4

(* What is computed step by step exists, and stays where each step leads. *)
Computed(V, a, n, step) ==
    \E f \in [0..n -> V] : f[0] = a /\ \A i \in 1..n : f[i] = step[i][f[i - 1]]

LEMMA StepByStep ==
  ASSUME NEW V, NEW a \in V, NEW n \in Nat, NEW step \in [1..n -> [V -> V]]
  PROVE  Computed(V, a, n, step)
<1> DEFINE S == {m \in Nat : m <= n => \E f \in [0..m -> V] :
                     f[0] = a /\ \A i \in 1..m : f[i] = step[i][f[i - 1]]}
<1>1. 0 \in S
  <2> DEFINE f == [i \in 0..0 |-> a]
  <2>1. f \in [0..0 -> V] /\ f[0] = a /\ 1..0 = {}
    OBVIOUS
  <2> HIDE DEF f
  <2>2. \A i \in 1..0 : f[i] = step[i][f[i - 1]]
    BY <2>1
  <2> QED
    BY <2>1, <2>2
<1>2. ASSUME NEW m \in 1..n, m - 1 \in S PROVE m \in S
  <2>1. PICK f \in [0..m - 1 -> V] : f[0] = a /\ \A i \in 1..m - 1 : f[i] = step[i][f[i - 1]]
    BY <1>2
  <2> DEFINE g == [i \in 0..m |-> IF i = m THEN step[m][f[m - 1]] ELSE f[i]]
  <2>2. g \in [0..m -> V]
    <3>1. f[m - 1] \in V /\ step[m] \in [V -> V]
      OBVIOUS
    <3>2. ASSUME NEW i \in 0..m, i # m PROVE f[i] \in V
      BY <3>2
    <3> QED
      BY <3>1, <3>2
  <2>3. g[0] = a
    BY <2>1
  <2>4. ASSUME NEW i \in 1..m PROVE g[i] = step[i][g[i - 1]]
    <3>1. g[i - 1] = f[i - 1]
      OBVIOUS
    <3> QED
      BY <2>1, <3>1
  <2> HIDE DEF g
  <2> QED
    BY <2>2, <2>3, <2>4
<1> HIDE DEF S
<1>3. \A m \in 0..n : m \in S
  BY <1>1, <1>2, UpTo
<1>4. n \in S
  BY <1>3
<1> QED
  BY <1>4 DEF S, Computed
-----------------------------------------------------------------------------
(* Choosing from a sequence.                                                 *)

Increasing(f, c) == \A j, k \in 1..c : j < k => f[j] < f[k]

(* A finite set of positions can be gone through in order. *)
LEMMA InOrder ==
  ASSUME NEW n \in Nat, NEW at \in SUBSET (1..n)
  PROVE  /\ Cardinality(at) \in Nat
         /\ \E f \in [1..Cardinality(at) -> at] : Increasing(f, Cardinality(at))
<1> DEFINE Good(a) == /\ IsFiniteSet(a) /\ Cardinality(a) \in Nat
                      /\ \E f \in [1..Cardinality(a) -> a] : Increasing(f, Cardinality(a))
           S == {m \in Nat : \A a \in SUBSET (1..m) : Good(a)}
<1>1. 0 \in S
  <2> SUFFICES ASSUME NEW a \in SUBSET (1..0) PROVE Good(a)
    OBVIOUS
  <2>1. a = {} /\ IsFiniteSet({}) /\ Cardinality({}) = 0
    BY FS_EmptySet
  <2> DEFINE f == [i \in 1..0 |-> 1]
  <2>2. f \in [1..0 -> a] /\ Increasing(f, 0)
    BY DEF Increasing
  <2> HIDE DEF f
  <2>3. PICK c \in Nat : c = Cardinality(a) /\ c = 0 /\ IsFiniteSet(a)
    BY <2>1
  <2>4. \E g \in [1..c -> a] : Increasing(g, c)
    BY <2>2, <2>3
  <2> QED
    BY <2>3, <2>4
<1>2. ASSUME NEW m \in 1..n, m - 1 \in S PROVE m \in S
  <2> SUFFICES ASSUME NEW a \in SUBSET (1..m) PROVE Good(a)
    OBVIOUS
  <2> DEFINE b == a \ {m}
  <2>1. b \in SUBSET (1..m - 1)
    OBVIOUS
  <2>2. Good(b)
    BY <1>2, <2>1
  <2>3. CASE m \notin a
    <3>1. a = b
      BY <2>3
    <3> QED
      BY <2>2, <3>1
  <2>4. CASE m \in a
    <3>1. PICK c \in Nat : c = Cardinality(b)
      BY <2>2
    <3>2. a = b \cup {m} /\ m \notin b
      BY <2>4
    <3>3. IsFiniteSet(b \cup {m}) /\ Cardinality(b \cup {m}) = Cardinality(b) + 1
      BY <2>2, <3>2, FS_AddElement
    <3>4. IsFiniteSet(a) /\ Cardinality(a) = c + 1
      BY <3>1, <3>2, <3>3
    <3>5. PICK f \in [1..c -> b] : Increasing(f, c)
      BY <2>2, <3>1
    <3> DEFINE g == [i \in 1..c + 1 |-> IF i = c + 1 THEN m ELSE f[i]]
    <3>6. g \in [1..c + 1 -> a]
      <4>1. ASSUME NEW i \in 1..c + 1, i # c + 1 PROVE f[i] \in a
        BY <4>1
      <4> QED
        BY <2>4, <4>1
    <3>7. Increasing(g, c + 1)
      <4> SUFFICES ASSUME NEW j \in 1..c + 1, NEW k \in 1..c + 1, j < k PROVE g[j] < g[k]
        BY DEF Increasing
      <4>1. j \in 1..c /\ j # c + 1
        OBVIOUS
      <4>4. g[j] = f[j] /\ f[j] \in 1..m - 1
        BY <2>1, <4>1
      <4>2. CASE k = c + 1
        <5>1. g[k] = m
          BY <4>2
        <5> QED
          BY <4>4, <5>1
      <4>3. CASE k # c + 1
        <5>1. k \in 1..c /\ g[k] = f[k]
          BY <4>3
        <5> QED
          BY <3>5, <4>1, <4>4, <5>1 DEF Increasing
      <4> QED
        BY <4>2, <4>3
    <3> HIDE DEF g
    <3> QED
      BY <3>4, <3>6, <3>7
  <2> QED
    BY <2>3, <2>4
<1> HIDE DEF S
<1>3. \A m \in 0..n : m \in S
  BY <1>1, <1>2, UpTo
<1>4. n \in S
  BY <1>3
<1> QED
  BY <1>4 DEF S

(* What is chosen: the order depends on the positions only. *)
LEMMA ChosenByOrder ==
  ASSUME NEW n \in Nat, NEW at \in SUBSET (1..n)
  PROVE  \E c \in Nat : \E order \in [1..c -> at] :
            \A s : Chosen(s, at) = [k \in 1..c |-> s[order[k]]]
<1> DEFINE c == Cardinality(at)
           order == CHOOSE f \in [1..c -> at] :
                       \A j, k \in 1..c : j < k => f[j] < f[k]
<1>1. c \in Nat /\ order \in [1..c -> at]
  BY InOrder DEF Increasing
<1>2. \A s : Chosen(s, at) = [k \in 1..c |-> s[order[k]]]
  BY DEF Chosen
<1> HIDE DEF c, order
<1> QED
  BY <1>1, <1>2

LEMMA ChosenType ==
  ASSUME NEW V, NEW s \in Seq(V), NEW at \in SUBSET (1..Len(s))
  PROVE  /\ Chosen(s, at) \in Seq(V)
         /\ \A k \in 1..Len(Chosen(s, at)) : \E i \in at : Chosen(s, at)[k] = s[i]
<1>1. PICK n \in Nat : n = Len(s)
  BY LenProperties
<1>2. PICK c \in Nat : \E order \in [1..c -> at] :
            \A t : Chosen(t, at) = [k \in 1..c |-> t[order[k]]]
  BY <1>1, ChosenByOrder
<1>3. PICK order \in [1..c -> at] : Chosen(s, at) = [k \in 1..c |-> s[order[k]]]
  BY <1>2
<1>4. ASSUME NEW k \in 1..c PROVE order[k] \in at /\ s[order[k]] \in V
  <2>1. order[k] \in 1..n
    BY <1>1
  <2> QED
    BY <1>1, <2>1, ElementOfSeq
<1> DEFINE g == [k \in 1..c |-> s[order[k]]]
<1>5. g \in Seq(V) /\ Len(g) = c
  BY <1>4
<1> QED
  BY <1>3, <1>4, <1>5

(* t is s with each element changed. *)
ImageOf(s, t, change) ==
    \E c \in Nat : Len(s) = c /\ Len(t) = c /\ \A k \in 1..c : t[k] = change[s[k]]

(* Choosing commutes with changing each element. *)
LEMMA ChosenOfImage ==
  ASSUME NEW n \in Nat, NEW at \in SUBSET (1..n), NEW s, NEW t, NEW change,
         \A i \in at : t[i] = change[s[i]]
  PROVE  ImageOf(Chosen(s, at), Chosen(t, at), change)
<1>1. PICK c \in Nat : \E order \in [1..c -> at] :
            \A u : Chosen(u, at) = [k \in 1..c |-> u[order[k]]]
  BY ChosenByOrder
<1>2. PICK order \in [1..c -> at] : /\ Chosen(s, at) = [k \in 1..c |-> s[order[k]]]
                                    /\ Chosen(t, at) = [k \in 1..c |-> t[order[k]]]
  BY <1>1
<1>3. Len(Chosen(s, at)) = c /\ Len(Chosen(t, at)) = c
  BY <1>2
<1>4. ASSUME NEW k \in 1..c PROVE Chosen(t, at)[k] = change[Chosen(s, at)[k]]
  <2>1. order[k] \in at
    OBVIOUS
  <2>2. Chosen(s, at)[k] = s[order[k]] /\ Chosen(t, at)[k] = t[order[k]]
    BY <1>2
  <2> QED
    BY <2>1, <2>2
<1> QED
  BY <1>3, <1>4 DEF ImageOf

-----------------------------------------------------------------------------
(* What joining and replacing compute.                                       *)

LEMMA SymbolTexts == <<NewLine>> \in Texts /\ <<Tag>> \in Texts /\ <<>> \in Texts
  BY DEF Texts

LEMMA ConcatTexts ==
  ASSUME NEW s \in Texts, NEW t \in Texts
  PROVE  /\ s \o t \in Texts /\ Len(s) \in Nat /\ Len(t) \in Nat
         /\ Len(s \o t) = Len(s) + Len(t)
         /\ \A i \in 1..Len(s) + Len(t) :
               (s \o t)[i] = IF i <= Len(s) THEN s[i] ELSE t[i - Len(s)]
  BY ConcatProperties, LenProperties DEF Texts

LEMMA SubTexts ==
  ASSUME NEW t \in Texts, NEW i \in Int, NEW j \in Int, 1 <= i, j <= Len(t)
  PROVE  /\ SubSeq(t, i, j) \in Texts
         /\ Len(SubSeq(t, i, j)) = IF i <= j THEN j - i + 1 ELSE 0
         /\ \A k \in 1..j - i + 1 : SubSeq(t, i, j)[k] = t[i + k - 1]
<1> DEFINE V == Letters \cup {NewLine, Tag}
<1>1. t \in Seq(V) /\ Len(t) \in Nat
  BY LenProperties DEF Texts
<1>2. \A k \in i..j : t[k] \in V
  BY <1>1, ElementOfSeq
<1> HIDE DEF V
<1>3. /\ SubSeq(t, i, j) \in Seq(V)
      /\ Len(SubSeq(t, i, j)) = IF i <= j THEN j - i + 1 ELSE 0
      /\ \A k \in 1..j - i + 1 : SubSeq(t, i, j)[k] = t[i + k - 1]
  BY <1>2, SubSeqProperties
<1> QED
  BY <1>3 DEF Texts, V

LEMMA SameText ==
  ASSUME NEW s \in Texts, NEW t \in Texts, Len(s) = Len(t), \A i \in 1..Len(s) : s[i] = t[i]
  PROVE  s = t
  BY SeqEqual DEF Texts

LEMMA OneSymbol ==
  ASSUME NEW t \in Texts, NEW i \in 1..Len(t)
  PROVE  <<t[i]>> \in Texts /\ Len(<<t[i]>>) = 1 /\ <<t[i]>>[1] = t[i]
<1>1. t[i] \in Letters \cup {NewLine, Tag}
  BY ElementOfSeq DEF Texts
<1> QED
  BY <1>1 DEF Texts

(* The text that joins the first i of the texts. *)
JoinedUpTo(texts, f, i) ==
    IF i = 0 THEN <<>>
    ELSE IF i = 1 THEN texts[1]
    ELSE f[i - 1] \o <<NewLine>> \o texts[i]

LEMMA JoinedSteps ==
  ASSUME NEW texts \in Seq(Texts)
  PROVE  \E f \in [0..Len(texts) -> Texts] :
            /\ Joined(texts) = f[Len(texts)]
            /\ \A i \in 0..Len(texts) : f[i] = JoinedUpTo(texts, f, i)
<1>1. PICK n \in Nat : n = Len(texts) /\ \A i \in 1..n : texts[i] \in Texts
  BY LenProperties, ElementOfSeq
<1> DEFINE g == CHOOSE f : f = [i \in 0..n |-> JoinedUpTo(texts, f, i)]
<1>2. \E f : f = [i \in 0..n |-> JoinedUpTo(texts, f, i)]
  <2> DEFINE extend == [i \in 1..n |-> [v \in Texts |->
                         IF i = 1 THEN texts[1] ELSE v \o <<NewLine>> \o texts[i]]]
  <2>1. extend \in [1..n -> [Texts -> Texts]]
    <3>1. ASSUME NEW i \in 1..n, NEW v \in Texts
          PROVE  (IF i = 1 THEN texts[1] ELSE v \o <<NewLine>> \o texts[i]) \in Texts
      <4>1. texts[i] \in Texts /\ v \o <<NewLine>> \in Texts
        BY <1>1, SymbolTexts, ConcatTexts
      <4>2. (v \o <<NewLine>>) \o texts[i] \in Texts
        BY <4>1, ConcatTexts
      <4> QED
        BY <1>1, <4>1, <4>2
    <3> QED
      BY <3>1
  <2>2. \A i \in 1..n : \A v \in Texts : extend[i][v] = IF i = 1 THEN texts[1]
                                                     ELSE v \o <<NewLine>> \o texts[i]
    OBVIOUS
  <2> HIDE DEF extend
  <2>3. PICK f \in [0..n -> Texts] : f[0] = <<>> /\ \A i \in 1..n : f[i] = extend[i][f[i - 1]]
    <3>1. Computed(Texts, <<>>, n, extend)
      BY <1>1, <2>1, SymbolTexts, StepByStep
    <3> QED
      BY <3>1 DEF Computed
  <2>4. ASSUME NEW i \in 0..n PROVE f[i] = JoinedUpTo(texts, f, i)
    <3>1. CASE i = 0
      BY <2>3, <3>1 DEF JoinedUpTo
    <3>2. CASE i # 0
      <4>1. i \in 1..n /\ f[i - 1] \in Texts
        BY <3>2
      <4> QED
        BY <2>2, <2>3, <3>2, <4>1 DEF JoinedUpTo
    <3> QED
      BY <3>1, <3>2
  <2>5. f = [i \in 0..n |-> f[i]]
    OBVIOUS
  <2>6. f = [i \in 0..n |-> JoinedUpTo(texts, f, i)]
    BY <2>4, <2>5
  <2> QED
    BY <2>6
<1>3. g = [i \in 0..n |-> JoinedUpTo(texts, g, i)]
  BY <1>2
<1>4. Joined(texts) = g[n]
  BY <1>1 DEF Joined, JoinedUpTo
<1> HIDE DEF g
<1>5. \A i \in 0..n : g[i] = JoinedUpTo(texts, g, i)
  BY <1>3
<1> DEFINE S == {i \in Nat : g[i] \in Texts}
<1>6. 0 \in S
  BY <1>5, SymbolTexts DEF JoinedUpTo
<1>7. ASSUME NEW i \in 1..n, i - 1 \in S PROVE i \in S
  <2>1. g[i - 1] \o <<NewLine>> \in Texts /\ texts[i] \in Texts
    BY <1>1, <1>7, SymbolTexts, ConcatTexts
  <2>2. (g[i - 1] \o <<NewLine>>) \o texts[i] \in Texts
    BY <2>1, ConcatTexts
  <2> QED
    BY <1>1, <1>5, <2>1, <2>2 DEF JoinedUpTo
<1> HIDE DEF S
<1>8. \A i \in 0..n : i \in S
  BY <1>6, <1>7, UpTo
<1>9. g \in [0..n -> Texts]
  BY <1>3, <1>8 DEF S
<1> QED
  BY <1>1, <1>4, <1>5, <1>9

LEMMA JoinedType == ASSUME NEW texts \in Seq(Texts) PROVE Joined(texts) \in Texts
<1>1. Len(texts) \in Nat
  BY LenProperties
<1> QED
  BY <1>1, JoinedSteps
(* What str.replace makes of the text from i on, by what it makes of the     *)
(* rest.                                                                    *)
Fits(t, old, i) == i + Len(old) <= Len(t) + 1
Match(t, old, i) == Fits(t, old, i) /\ SubSeq(t, i, i + Len(old) - 1) = old
From(t, old, f, i) ==
    IF i + Len(old) > Len(t) + 1 THEN SubSeq(t, i, Len(t))
    ELSE IF SubSeq(t, i, i + Len(old) - 1) = old THEN <<Tag>> \o f[i + Len(old)]
    ELSE <<t[i]>> \o f[i + 1]

LEMMA FromLater ==
  ASSUME NEW t \in Texts, NEW old \in Texts, old # <<>>, NEW i \in 1..Len(t) + Len(old),
         NEW f, \A j \in i + 1..Len(t) + Len(old) : f[j] \in Texts
  PROVE  /\ From(t, old, f, i) \in Texts
         /\ \A g : (\A j \in i + 1..Len(t) + Len(old) : g[j] = f[j]) =>
                      From(t, old, g, i) = From(t, old, f, i)
<1>1. PICK n \in Nat : n = Len(old) /\ n > 0
  BY EmptySeq DEF Texts
<1>2. PICK l \in Nat : l = Len(t)
  BY LenProperties DEF Texts
<1>3. CASE i + n > l + 1
  <2>1. SubSeq(t, i, l) \in Texts
    BY <1>1, <1>2, SubTexts
  <2>2. \A g : From(t, old, g, i) = SubSeq(t, i, l)
    BY <1>1, <1>2, <1>3 DEF From
  <2> QED
    BY <2>1, <2>2
<1>4. CASE i + n <= l + 1 /\ SubSeq(t, i, i + n - 1) = old
  <2>1. \A g : From(t, old, g, i) = <<Tag>> \o g[i + n]
    BY <1>1, <1>2, <1>4 DEF From
  <2>2. i + n \in i + 1..l + n
    BY <1>1, <1>2, <1>4
  <2>3. f[i + n] \in Texts
    BY <1>1, <1>2, <2>2
  <2>4. <<Tag>> \o f[i + n] \in Texts
    BY <2>3, SymbolTexts, ConcatTexts
  <2> QED
    BY <1>1, <1>2, <2>1, <2>2, <2>4
<1>5. CASE i + n <= l + 1 /\ SubSeq(t, i, i + n - 1) # old
  <2>1. \A g : From(t, old, g, i) = <<t[i]>> \o g[i + 1]
    BY <1>1, <1>2, <1>5 DEF From
  <2>2. i + 1 \in i + 1..l + n /\ i \in 1..Len(t)
    BY <1>1, <1>2, <1>5
  <2>3. f[i + 1] \in Texts
    BY <1>1, <1>2, <2>2
  <2>4. <<t[i]>> \o f[i + 1] \in Texts
    BY <2>2, <2>3, OneSymbol, ConcatTexts
  <2> QED
    BY <1>1, <1>2, <2>1, <2>2, <2>4
<1> QED
  BY <1>1, <1>2, <1>3, <1>4, <1>5

LEMMA ReplacedSteps ==
  ASSUME NEW t \in Texts, NEW old \in Texts, old # <<>>
  PROVE  \E f \in [1..Len(t) + Len(old) -> Texts] :
            /\ Replaced(t, old, <<Tag>>) = f[1]
            /\ \A i \in 1..Len(t) + Len(old) : f[i] = From(t, old, f, i)
<1>1. PICK n \in Nat : n = Len(t) + Len(old)
  BY LenProperties DEF Texts
<1> DEFINE Solves(f, i) == f \in [i..n -> Texts] /\ \A j \in i..n : f[j] = From(t, old, f, j)
           g == CHOOSE f : f = [i \in 1..n |-> From(t, old, f, i)]
<1>2. ASSUME NEW i \in 1..n, NEW f, Solves(f, i + 1)
      PROVE  \E h : Solves(h, i)
  <2> DEFINE h == [j \in i..n |-> IF j = i THEN From(t, old, f, i) ELSE f[j]]
  <2>1. \A j \in i + 1..n : f[j] \in Texts
    BY <1>2
  <2>2. From(t, old, f, i) \in Texts
    BY <1>1, <2>1, FromLater
  <2>3. h \in [i..n -> Texts]
    BY <2>1, <2>2
  <2>4. \A j \in i + 1..n : h[j] = f[j]
    OBVIOUS
  <2>5. h[i] = From(t, old, f, i)
    OBVIOUS
  <2> HIDE DEF h
  <2>6. From(t, old, h, i) = From(t, old, f, i)
    BY <1>1, <2>1, <2>4, FromLater
  <2>7. ASSUME NEW j \in i + 1..n PROVE h[j] = From(t, old, h, j)
    <3>1. \A k \in j + 1..n : f[k] \in Texts /\ h[k] = f[k]
      BY <2>1, <2>4
    <3>2. From(t, old, h, j) = From(t, old, f, j)
      BY <1>1, <3>1, FromLater
    <3> QED
      BY <1>2, <2>4, <3>2
  <2>8. \A j \in i..n : h[j] = From(t, old, h, j)
    BY <2>5, <2>6, <2>7
  <2> QED
    BY <2>3, <2>8
<1>3. \E f : Solves(f, n + 1)
  <2> DEFINE f == [j \in n + 1..n |-> <<>>]
  <2>1. f \in [n + 1..n -> Texts] /\ \A j \in n + 1..n : FALSE
    OBVIOUS
  <2> HIDE DEF f
  <2> QED
    BY <2>1
<1> DEFINE S == {i \in 1..n + 1 : \E f : Solves(f, i)}
<1>4. ASSUME NEW i \in 1..n + 1, \A j \in i + 1..n + 1 : j \in S PROVE i \in S
  <2> HIDE DEF Solves
  <2>1. CASE i = n + 1
    BY <1>3, <2>1
  <2>2. CASE i # n + 1
    <3>1. i \in 1..n /\ i + 1 \in S
      BY <1>4, <2>2
    <3>2. PICK f : Solves(f, i + 1)
      BY <3>1
    <3> QED
      BY <1>2, <3>1, <3>2
  <2> QED
    BY <2>1, <2>2
<1>5. \A i \in 1..n + 1 : i \in S
  <2> HIDE DEF S
  <2>1. PICK m \in Nat : m = n + 1
    OBVIOUS
  <2>2. \A i \in 1..m : (\A j \in i + 1..m : j \in S) => i \in S
    BY <1>4, <2>1
  <2>3. \A i \in 1..m : i \in S
    BY <2>2, DownFrom
  <2> QED
    BY <2>1, <2>3
<1>6. PICK f : Solves(f, 1)
  BY <1>5
<1>7. f = [i \in 1..n |-> From(t, old, f, i)]
  BY <1>6
<1>8. g = [i \in 1..n |-> From(t, old, g, i)]
  BY <1>7
<1>9. Replaced(t, old, <<Tag>>) = g[1]
  BY <1>1 DEF Replaced, From
<1> HIDE DEF g
<1>10. \A i \in 1..n : g[i] = From(t, old, g, i)
  BY <1>8
<1> DEFINE R == {i \in 1..n : g[i] \in Texts}
<1>11. ASSUME NEW i \in 1..n, \A j \in i + 1..n : j \in R PROVE i \in R
  <2>1. \A j \in i + 1..n : g[j] \in Texts
    BY <1>11
  <2>2. From(t, old, g, i) \in Texts
    BY <1>1, <2>1, FromLater
  <2> QED
    BY <1>10, <2>2
<1>12. \A i \in 1..n : i \in R
  <2> HIDE DEF R
  <2> QED
    BY <1>11, DownFrom
<1>13. g \in [1..n -> Texts]
  BY <1>8, <1>12
<1> QED
  BY <1>1, <1>9, <1>10, <1>13

LEMMA ReplacedType ==
  ASSUME NEW t \in Texts, NEW old \in Texts, old # <<>>
  PROVE  Replaced(t, old, <<Tag>>) \in Texts
<1>1. Len(t) \in Nat /\ Len(old) \in Nat /\ Len(old) > 0
  BY LenProperties, EmptySeq DEF Texts
<1>2. PICK n \in Nat : n = Len(t) + Len(old) /\ 1 \in 1..n
  BY <1>1
<1>3. PICK f \in [1..n -> Texts] : Replaced(t, old, <<Tag>>) = f[1]
  BY <1>2, ReplacedSteps
<1> QED
  BY <1>2, <1>3

LEMMA Prepended ==
  ASSUME NEW x \in Letters \cup {NewLine, Tag}, NEW r \in Texts
  PROVE  /\ Len(<<x>> \o r) = Len(r) + 1 /\ Len(r) \in Nat
         /\ (<<x>> \o r)[1] = x
         /\ \A q \in 1..Len(r) : (<<x>> \o r)[q + 1] = r[q]
<1>1. <<x>> \in Texts /\ Len(<<x>>) = 1 /\ <<x>>[1] = x
  BY DEF Texts
<1>2. /\ Len(<<x>> \o r) = 1 + Len(r) /\ Len(r) \in Nat
      /\ \A i \in 1..1 + Len(r) : (<<x>> \o r)[i] = IF i <= 1 THEN <<x>>[i] ELSE r[i - 1]
  BY <1>1, ConcatTexts
<1>3. ASSUME NEW q \in 1..Len(r) PROVE (<<x>> \o r)[q + 1] = r[q]
  <2>1. q + 1 \in 1..1 + Len(r) /\ ~(q + 1 <= 1) /\ (q + 1) - 1 = q
    BY <1>2
  <2> QED
    BY <1>2, <2>1
<1> QED
  BY <1>1, <1>2, <1>3

(* Where there is no tag, s is a copy of t, of a place where old is not.     *)
TagFree(s, p, m) == p + m - 1 <= Len(s) /\ \A k \in 0..m - 1 : s[p + k] # Tag
CopyOf(s, p, m, t, old, j) ==
    j + m - 1 <= Len(t) /\ \A k \in 0..m - 1 : s[p + k] = t[j + k] /\ ~Match(t, old, j + k)
Copies(s, t, old, i) ==
    \A p, m \in Nat \ {0} : TagFree(s, p, m) =>
        \E j \in i..Len(t) : (p = 1 => j = i) /\ CopyOf(s, p, m, t, old, j)

LEMMA TailCopies ==
  ASSUME NEW t \in Texts, NEW old \in Texts, NEW i \in Nat \ {0}, ~Fits(t, old, i)
  PROVE  Copies(SubSeq(t, i, Len(t)), t, old, i)
<1>1. PICK l, n \in Nat : l = Len(t) /\ n = Len(old)
  BY LenProperties DEF Texts
<1>2. /\ Len(SubSeq(t, i, l)) = IF i <= l THEN l - i + 1 ELSE 0
      /\ \A q \in 1..l - i + 1 : SubSeq(t, i, l)[q] = t[i + q - 1]
  BY <1>1, SubTexts
<1>3. i + n > l + 1
  BY <1>1 DEF Fits
<1> SUFFICES ASSUME NEW p \in Nat \ {0}, NEW m \in Nat \ {0}, TagFree(SubSeq(t, i, l), p, m)
             PROVE  \E j \in i..l : (p = 1 => j = i) /\ CopyOf(SubSeq(t, i, l), p, m, t, old, j)
  BY <1>1 DEF Copies
<1>4. i <= l /\ p + m - 1 <= l - i + 1
  BY <1>1, <1>2 DEF TagFree
<1>5. PICK j \in i..l : j = i + p - 1
  BY <1>4
<1>6. j + m - 1 <= l
  BY <1>4, <1>5
<1>7. ASSUME NEW k \in 0..m - 1
      PROVE  SubSeq(t, i, l)[p + k] = t[j + k] /\ ~Match(t, old, j + k)
  <2>1. p + k \in 1..l - i + 1 /\ i + (p + k) - 1 = j + k /\ (j + k) + n > l + 1
    BY <1>3, <1>4, <1>5
  <2>2. SubSeq(t, i, l)[p + k] = t[i + (p + k) - 1]
    BY <1>2, <2>1
  <2> QED
    BY <1>1, <2>1, <2>2 DEF Match, Fits
<1>8. CopyOf(SubSeq(t, i, l), p, m, t, old, j)
  BY <1>1, <1>6, <1>7 DEF CopyOf
<1>9. p = 1 => j = i
  BY <1>4, <1>5
<1> QED
  BY <1>8, <1>9

LEMMA TagCopies ==
  ASSUME NEW t \in Texts, NEW old \in Texts, NEW i \in Nat \ {0}, NEW n \in Nat, NEW r \in Texts,
         Copies(r, t, old, i + n), n > 0
  PROVE  Copies(<<Tag>> \o r, t, old, i)
<1>1. PICK l \in Nat : l = Len(t)
  BY LenProperties DEF Texts
<1> DEFINE s == <<Tag>> \o r
<1>2. /\ Len(s) = Len(r) + 1 /\ Len(r) \in Nat /\ s[1] = Tag
      /\ \A q \in 1..Len(r) : s[q + 1] = r[q]
  BY Prepended
<1> HIDE DEF s
<1> SUFFICES ASSUME NEW p \in Nat \ {0}, NEW m \in Nat \ {0}, TagFree(s, p, m)
             PROVE  \E j \in i..l : (p = 1 => j = i) /\ CopyOf(s, p, m, t, old, j)
  BY <1>1 DEF Copies, s
<1>3. p # 1
  <2>1. 0 \in 0..m - 1 /\ p + 0 = p
    OBVIOUS
  <2>2. s[p + 0] # Tag
    BY <2>1 DEF TagFree
  <2> QED
    BY <1>2, <2>1, <2>2
<1>4. ASSUME NEW k \in 0..m - 1 PROVE s[p + k] = r[(p - 1) + k]
  <2>1. (p - 1) + k \in 1..Len(r) /\ ((p - 1) + k) + 1 = p + k
    BY <1>2, <1>3 DEF TagFree
  <2> QED
    BY <1>2, <2>1
<1>5. TagFree(r, p - 1, m)
  <2>1. (p - 1) + m - 1 <= Len(r)
    BY <1>2, <1>3 DEF TagFree
  <2>2. \A k \in 0..m - 1 : r[(p - 1) + k] # Tag
    BY <1>4 DEF TagFree
  <2> QED
    BY <2>1, <2>2 DEF TagFree
<1>6. p - 1 \in Nat \ {0}
  BY <1>3
<1>7. PICK j \in i + n..l : CopyOf(r, p - 1, m, t, old, j)
  BY <1>1, <1>5, <1>6 DEF Copies
<1>8. CopyOf(s, p, m, t, old, j)
  BY <1>4, <1>7 DEF CopyOf
<1>9. j \in i..l
  BY <1>7
<1> QED
  BY <1>3, <1>8, <1>9

LEMMA SymbolCopies ==
  ASSUME NEW t \in Texts, NEW old \in Texts, NEW i \in 1..Len(t), NEW r \in Texts,
         Copies(r, t, old, i + 1), ~Match(t, old, i)
  PROVE  Copies(<<t[i]>> \o r, t, old, i)
<1>1. PICK l \in Nat : l = Len(t)
  BY LenProperties DEF Texts
<1> DEFINE s == <<t[i]>> \o r
<1>2. /\ Len(s) = Len(r) + 1 /\ Len(r) \in Nat /\ s[1] = t[i]
      /\ \A q \in 1..Len(r) : s[q + 1] = r[q]
  <2>1. t[i] \in Letters \cup {NewLine, Tag}
    BY ElementOfSeq DEF Texts
  <2> QED
    BY <2>1, Prepended
<1> HIDE DEF s
<1> SUFFICES ASSUME NEW p \in Nat \ {0}, NEW m \in Nat \ {0}, TagFree(s, p, m)
             PROVE  \E j \in i..l : (p = 1 => j = i) /\ CopyOf(s, p, m, t, old, j)
  BY <1>1 DEF Copies, s
<1>3. CASE p # 1
  <2>1. ASSUME NEW k \in 0..m - 1 PROVE s[p + k] = r[(p - 1) + k]
    <3>1. (p - 1) + k \in 1..Len(r) /\ ((p - 1) + k) + 1 = p + k
      BY <1>2, <1>3 DEF TagFree
    <3> QED
      BY <1>2, <3>1
  <2>2. TagFree(r, p - 1, m)
    <3>1. (p - 1) + m - 1 <= Len(r)
      BY <1>2, <1>3 DEF TagFree
    <3>2. \A k \in 0..m - 1 : r[(p - 1) + k] # Tag
      BY <2>1 DEF TagFree
    <3> QED
      BY <3>1, <3>2 DEF TagFree
  <2>3. p - 1 \in Nat \ {0}
    BY <1>3
  <2>4. PICK j \in i + 1..l : CopyOf(r, p - 1, m, t, old, j)
    BY <1>1, <2>2, <2>3 DEF Copies
  <2>5. CopyOf(s, p, m, t, old, j)
    BY <2>1, <2>4 DEF CopyOf
  <2>6. j \in i..l
    BY <1>1, <2>4
  <2> QED
    BY <1>3, <2>5, <2>6
<1>4. CASE p = 1 /\ m = 1
  <2>1. CopyOf(s, p, m, t, old, i)
    <3>1. i + m - 1 <= l
      BY <1>1, <1>4
    <3>2. ASSUME NEW k \in 0..m - 1 PROVE s[p + k] = t[i + k] /\ ~Match(t, old, i + k)
      <4>1. k = 0 /\ p + k = 1 /\ i + k = i
        BY <1>1, <1>4
      <4> QED
        BY <1>2, <4>1
    <3> QED
      BY <1>1, <3>1, <3>2 DEF CopyOf
  <2>2. i \in i..l
    BY <1>1
  <2> QED
    BY <2>1, <2>2
<1>5. CASE p = 1 /\ m # 1
  <2>1. ASSUME NEW k \in 0..m - 2 PROVE s[p + (k + 1)] = r[1 + k]
    <3>1. 1 + k \in 1..Len(r) /\ (1 + k) + 1 = p + (k + 1)
      BY <1>2, <1>5 DEF TagFree
    <3> QED
      BY <1>2, <3>1
  <2>2. TagFree(r, 1, m - 1)
    <3>1. 1 + (m - 1) - 1 <= Len(r)
      BY <1>2, <1>5 DEF TagFree
    <3>2. ASSUME NEW k \in 0..(m - 1) - 1 PROVE r[1 + k] # Tag
      <4>1. k \in 0..m - 2 /\ k + 1 \in 0..m - 1
        OBVIOUS
      <4>2. s[p + (k + 1)] # Tag
        BY <4>1 DEF TagFree
      <4> QED
        BY <2>1, <4>1, <4>2
    <3> QED
      BY <3>1, <3>2 DEF TagFree
  <2>3. m - 1 \in Nat \ {0}
    BY <1>5
  <2>4. i + 1 <= l /\ CopyOf(r, 1, m - 1, t, old, i + 1)
    BY <1>1, <2>2, <2>3 DEF Copies
  <2>5. i + m - 1 <= l
    BY <1>1, <2>4 DEF CopyOf
  <2>6. ASSUME NEW k \in 0..m - 1 PROVE s[p + k] = t[i + k] /\ ~Match(t, old, i + k)
    <3>1. CASE k = 0
      <4>1. p + k = 1 /\ i + k = i
        BY <1>1, <1>5, <3>1
      <4> QED
        BY <1>2, <4>1
    <3>2. CASE k # 0
      <4>1. PICK h \in 0..m - 2 : k = h + 1
        <5>1. k - 1 \in 0..m - 2 /\ k = (k - 1) + 1
          BY <3>2
        <5> QED
          BY <5>1
      <4>2. s[p + k] = r[1 + h]
        BY <2>1, <4>1
      <4>3. h \in 0..(m - 1) - 1 /\ (i + 1) + h = i + k
        BY <1>1, <4>1
      <4>4. r[1 + h] = t[(i + 1) + h] /\ ~Match(t, old, (i + 1) + h)
        BY <2>4, <4>3 DEF CopyOf
      <4> QED
        BY <4>2, <4>3, <4>4
    <3> QED
      BY <3>1, <3>2
  <2>7. CopyOf(s, p, m, t, old, i)
    BY <1>1, <2>5, <2>6 DEF CopyOf
  <2>8. i \in i..l
    BY <1>1
  <2> QED
    BY <2>7, <2>8
<1> QED
  BY <1>3, <1>4, <1>5

(* What str.replace leaves between two tags was in the text, and old was not *)
(* there.                                                                   *)
LEMMA ReplacedCopies ==
  ASSUME NEW t \in Texts, NEW old \in Texts, old # <<>>
  PROVE  Copies(Replaced(t, old, <<Tag>>), t, old, 1)
<1>1. PICK n \in Nat : n = Len(old) /\ n > 0
  BY EmptySeq DEF Texts
<1>2. PICK l \in Nat : l = Len(t)
  BY LenProperties DEF Texts
<1>3. PICK f \in [1..l + n -> Texts] : /\ Replaced(t, old, <<Tag>>) = f[1]
                                       /\ \A i \in 1..l + n : f[i] = From(t, old, f, i)
  BY <1>1, <1>2, ReplacedSteps
<1> DEFINE S == {i \in 1..l + n : Copies(f[i], t, old, i)}
<1>4. ASSUME NEW i \in 1..l + n, \A j \in i + 1..l + n : j \in S PROVE i \in S
  <2>0. f[i] = From(t, old, f, i) /\ i \in Nat \ {0}
    BY <1>3
  <2>1. CASE ~Fits(t, old, i)
    <3>1. f[i] = SubSeq(t, i, Len(t))
      <4>1. i + Len(old) > Len(t) + 1
        BY <1>1, <1>2, <2>1 DEF Fits
      <4> QED
        BY <2>0, <4>1 DEF From
    <3>2. Copies(f[i], t, old, i)
      BY <2>0, <2>1, <3>1, TailCopies
    <3> QED
      BY <3>2
  <2>2. CASE Match(t, old, i)
    <3>1. i + n <= l + 1 /\ i + n \in i + 1..l + n
      BY <1>1, <1>2, <2>2 DEF Match, Fits
    <3>2. f[i] = <<Tag>> \o f[i + n]
      <4>1. ~(i + Len(old) > Len(t) + 1) /\ SubSeq(t, i, i + Len(old) - 1) = old
        BY <1>1, <1>2, <2>2, <3>1 DEF Match
      <4> QED
        BY <1>1, <2>0, <4>1 DEF From
    <3>3. i + n \in 1..l + n /\ Copies(f[i + n], t, old, i + n)
      BY <1>4, <3>1
    <3>4. PICK r \in Texts : r = f[i + n]
      BY <3>3
    <3>5. Copies(<<Tag>> \o r, t, old, i)
      BY <1>1, <2>0, <3>3, <3>4, TagCopies
    <3> QED
      BY <3>2, <3>4, <3>5
  <2>3. CASE Fits(t, old, i) /\ ~Match(t, old, i)
    <3>1. i + n <= l + 1 /\ i + 1 \in i + 1..l + n /\ i \in 1..l
      BY <1>1, <1>2, <2>3 DEF Fits
    <3>2. f[i] = <<t[i]>> \o f[i + 1]
      <4>1. ~(i + Len(old) > Len(t) + 1) /\ SubSeq(t, i, i + Len(old) - 1) # old
        BY <1>1, <1>2, <2>3, <3>1 DEF Match
      <4> QED
        BY <2>0, <4>1 DEF From
    <3>3. i + 1 \in 1..l + n /\ Copies(f[i + 1], t, old, i + 1)
      BY <1>4, <3>1
    <3>4. PICK r \in Texts : r = f[i + 1]
      BY <3>3
    <3>5. Copies(<<t[i]>> \o r, t, old, i)
      BY <1>2, <2>3, <3>1, <3>3, <3>4, SymbolCopies
    <3> QED
      BY <3>2, <3>4, <3>5
  <2> QED
    BY <2>1, <2>2, <2>3
<1> HIDE DEF S
<1>5. PICK m \in Nat : m = l + n
  OBVIOUS
<1>6. \A i \in 1..m : i \in S
  BY <1>4, <1>5, DownFrom
<1>7. 1 \in S
  BY <1>1, <1>5, <1>6
<1> QED
  BY <1>3, <1>7 DEF S

-----------------------------------------------------------------------------
(* w is in t. *)
Occurs(w, t) ==
    \E j \in 1..Len(t) : /\ j + Len(w) - 1 <= Len(t)
                         /\ \A k \in 0..Len(w) - 1 : t[j + k] = w[1 + k]

Value(w) == w \in Texts /\ w # <<>>
Tagless(w) == Tag \notin ToSet(w)

LEMMA TaglessCopy ==
  ASSUME NEW t \in Texts, NEW old, Value(old), NEW w, Value(w), Tagless(w),
         Occurs(w, Replaced(t, old, <<Tag>>))
  PROVE  \E j \in 1..Len(t) : /\ j + Len(w) - 1 <= Len(t)
                              /\ \A k \in 0..Len(w) - 1 : t[j + k] = w[1 + k]
                              /\ ~Match(t, old, j)
<1> DEFINE s == Replaced(t, old, <<Tag>>)
<1>1. s \in Texts /\ Copies(s, t, old, 1)
  BY ReplacedType, ReplacedCopies DEF Value
<1>2. PICK m \in Nat \ {0} : m = Len(w)
  BY EmptySeq DEF Texts, Value
<1> HIDE DEF s
<1>3. PICK p \in 1..Len(s) : p + m - 1 <= Len(s) /\ \A k \in 0..m - 1 : s[p + k] = w[1 + k]
  BY <1>2 DEF Occurs, s
<1>4. p \in Nat \ {0} /\ Len(s) \in Nat
  BY <1>1, <1>3, LenProperties DEF Texts
<1>5. ASSUME NEW k \in 0..m - 1 PROVE w[1 + k] # Tag
  <2>1. 1 + k \in 1..m /\ DOMAIN w = 1..m
    BY <1>2, LenProperties DEF Texts, Value
  <2> QED
    BY <2>1 DEF Tagless, ToSet
<1>6. TagFree(s, p, m)
  BY <1>3, <1>5 DEF TagFree
<1>7. PICK j \in 1..Len(t) : CopyOf(s, p, m, t, old, j)
  BY <1>1, <1>2, <1>4, <1>6 DEF Copies
<1>8. j + m - 1 <= Len(t)
  BY <1>7 DEF CopyOf
<1>9. ASSUME NEW k \in 0..m - 1 PROVE t[j + k] = w[1 + k]
  BY <1>3, <1>7 DEF CopyOf
<1>10. ~Match(t, old, j)
  <2>1. 0 \in 0..m - 1 /\ j + 0 = j
    BY <1>2, <1>7, LenProperties DEF Texts
  <2>2. ~Match(t, old, j + 0)
    BY <1>7, <2>1 DEF CopyOf
  <2> QED
    BY <2>1, <2>2
<1> QED
  BY <1>2, <1>8, <1>9, <1>10

(* Replacing a value makes no other appear, unless it holds a tag. *)
LEMMA NothingAppears ==
  ASSUME NEW t \in Texts, NEW old, Value(old), NEW w, Value(w), Tagless(w),
         Occurs(w, Replaced(t, old, <<Tag>>))
  PROVE  Occurs(w, t)
  BY TaglessCopy DEF Occurs

(* A value that was replaced is gone. *)
LEMMA ReplacedIsGone ==
  ASSUME NEW t \in Texts, NEW old, Value(old), Tagless(old)
  PROVE  ~Occurs(old, Replaced(t, old, <<Tag>>))
<1> SUFFICES ASSUME Occurs(old, Replaced(t, old, <<Tag>>)) PROVE FALSE
  OBVIOUS
<1>1. PICK n \in Nat \ {0} : n = Len(old)
  BY EmptySeq DEF Texts, Value
<1>2. PICK l \in Nat : l = Len(t)
  BY LenProperties DEF Texts
<1>3. PICK j \in 1..l : /\ j + n - 1 <= l
                        /\ \A k \in 0..n - 1 : t[j + k] = old[1 + k]
                        /\ ~Match(t, old, j)
  BY <1>1, <1>2, TaglessCopy
<1> DEFINE cut == SubSeq(t, j, j + n - 1)
<1>4. cut \in Texts /\ Len(cut) = n /\ \A k \in 1..n : cut[k] = t[j + k - 1]
  <2>1. j \in Int /\ j + n - 1 \in Int /\ 1 <= j /\ j <= j + n - 1 /\ (j + n - 1) - j + 1 = n
    BY <1>3
  <2> QED
    BY <1>2, <1>3, <2>1, SubTexts
<1> HIDE DEF cut
<1>5. ASSUME NEW k \in 1..n PROVE cut[k] = old[k]
  <2>1. PICK h \in 0..n - 1 : k = h + 1
    <3>1. k - 1 \in 0..n - 1 /\ k = (k - 1) + 1
      OBVIOUS
    <3> QED
      BY <3>1
  <2>2. t[j + h] = old[1 + h] /\ j + k - 1 = j + h /\ 1 + h = k
    BY <1>3, <2>1
  <2>3. cut[k] = t[j + k - 1]
    BY <1>4
  <2> QED
    BY <2>2, <2>3
<1>6. cut = old
  BY <1>1, <1>4, <1>5, SameText DEF Value
<1>7. j + n <= l + 1
  BY <1>3
<1> QED
  BY <1>1, <1>2, <1>3, <1>6, <1>7 DEF Match, Fits, cut

Values(originals) == originals \in Seq(Texts) /\ \A k \in 1..Len(originals) : Value(originals[k])

(* f is the text after each of the replacements. *)
Applies(f, t, originals) ==
    \E n \in Nat : /\ n = Len(originals) /\ f \in [0..n -> Texts]
                   /\ f[0] = t /\ ApplyReplacements(t, originals) = f[n]
                   /\ \A i \in 1..n : f[i] = Replaced(f[i - 1], originals[i], <<Tag>>)

LEMMA AppliedSteps ==
  ASSUME NEW t \in Texts, NEW originals, Values(originals)
  PROVE  \E f : Applies(f, t, originals)
<1>1. PICK n \in Nat : n = Len(originals) /\ \A i \in 1..n : Value(originals[i])
  BY LenProperties DEF Values
<1> DEFINE Next_(f, i) == IF i = 0 THEN t ELSE Replaced(f[i - 1], originals[i], <<Tag>>)
           g == CHOOSE f : f = [i \in 0..n |-> Next_(f, i)]
<1>2. \E f : f = [i \in 0..n |-> Next_(f, i)]
  <2> DEFINE replace == [i \in 1..n |-> [v \in Texts |-> Replaced(v, originals[i], <<Tag>>)]]
  <2>1. replace \in [1..n -> [Texts -> Texts]]
    <3>1. ASSUME NEW i \in 1..n, NEW v \in Texts
          PROVE  Replaced(v, originals[i], <<Tag>>) \in Texts
      BY <1>1, ReplacedType DEF Value
    <3> QED
      BY <3>1
  <2>2. \A i \in 1..n : \A v \in Texts : replace[i][v] = Replaced(v, originals[i], <<Tag>>)
    OBVIOUS
  <2> HIDE DEF replace
  <2>3. Computed(Texts, t, n, replace)
    BY <1>1, <2>1, StepByStep
  <2>4. PICK f \in [0..n -> Texts] : f[0] = t /\ \A i \in 1..n : f[i] = replace[i][f[i - 1]]
    BY <2>3 DEF Computed
  <2>5. ASSUME NEW i \in 0..n PROVE f[i] = Next_(f, i)
    <3>1. CASE i = 0
      BY <2>4, <3>1
    <3>2. CASE i # 0
      <4>1. i \in 1..n /\ f[i - 1] \in Texts
        BY <3>2
      <4> QED
        BY <2>2, <2>4, <3>2, <4>1
    <3> QED
      BY <3>1, <3>2
  <2>6. f = [i \in 0..n |-> f[i]]
    OBVIOUS
  <2>7. f = [i \in 0..n |-> Next_(f, i)]
    BY <2>5, <2>6
  <2> QED
    BY <2>7
<1>3. g = [i \in 0..n |-> Next_(g, i)]
  BY <1>2
<1>4. ApplyReplacements(t, originals) = g[n]
  BY <1>1 DEF ApplyReplacements
<1> HIDE DEF g
<1>5. \A i \in 0..n : g[i] = IF i = 0 THEN t ELSE Replaced(g[i - 1], originals[i], <<Tag>>)
  BY <1>3
<1> DEFINE S == {i \in Nat : g[i] \in Texts}
<1>6. 0 \in S
  BY <1>5
<1>7. ASSUME NEW i \in 1..n, i - 1 \in S PROVE i \in S
  <2>1. g[i] = Replaced(g[i - 1], originals[i], <<Tag>>)
    BY <1>5
  <2> QED
    BY <1>1, <1>7, <2>1, ReplacedType DEF Value
<1> HIDE DEF S
<1>8. \A i \in 0..n : i \in S
  BY <1>6, <1>7, UpTo
<1>9. g \in [0..n -> Texts]
  BY <1>3, <1>8 DEF S
<1>10. Applies(g, t, originals)
  <2>1. g[0] = t
    BY <1>5
  <2>2. \A i \in 1..n : g[i] = Replaced(g[i - 1], originals[i], <<Tag>>)
    BY <1>5
  <2> QED
    BY <1>1, <1>4, <1>9, <2>1, <2>2 DEF Applies
<1> QED
  BY <1>10

LEMMA AppliedType ==
  ASSUME NEW t \in Texts, NEW originals, Values(originals)
  PROVE  ApplyReplacements(t, originals) \in Texts
<1>1. PICK f : Applies(f, t, originals)
  BY AppliedSteps
<1>2. PICK n \in Nat : f \in [0..n -> Texts] /\ ApplyReplacements(t, originals) = f[n]
  BY <1>1 DEF Applies
<1> QED
  BY <1>2

(* In whatever order they are replaced, none of the values is left. *)
LEMMA AllAreGone ==
  ASSUME NEW t \in Texts, NEW originals, Values(originals),
         NEW k \in 1..Len(originals), Tagless(originals[k])
  PROVE  ~Occurs(originals[k], ApplyReplacements(t, originals))
<1>1. PICK n \in Nat : n = Len(originals) /\ \A i \in 1..n : Value(originals[i])
  BY LenProperties DEF Values
<1>2. PICK f \in [0..n -> Texts] :
            /\ ApplyReplacements(t, originals) = f[n]
            /\ \A i \in 1..n : f[i] = Replaced(f[i - 1], originals[i], <<Tag>>)
  <2>1. PICK g : Applies(g, t, originals)
    BY AppliedSteps
  <2> QED
    BY <1>1, <2>1 DEF Applies
<1> DEFINE S == {i \in Nat : i >= k => ~Occurs(originals[k], f[i])}
<1>3. 0 \in S
  BY <1>1
<1>4. ASSUME NEW i \in 1..n, i - 1 \in S PROVE i \in S
  <2> SUFFICES ASSUME i >= k PROVE ~Occurs(originals[k], f[i])
    OBVIOUS
  <2>1. f[i] = Replaced(f[i - 1], originals[i], <<Tag>>) /\ f[i - 1] \in Texts
    BY <1>2
  <2>2. Value(originals[i]) /\ Value(originals[k])
    BY <1>1
  <2>3. CASE i = k
    BY <2>1, <2>2, <2>3, ReplacedIsGone
  <2>4. CASE i # k
    <3>1. ~Occurs(originals[k], f[i - 1])
      BY <1>1, <1>4, <2>4
    <3> QED
      BY <2>1, <2>2, <3>1, NothingAppears
  <2> QED
    BY <2>3, <2>4
<1> HIDE DEF S
<1>5. \A i \in 0..n : i \in S
  BY <1>3, <1>4, UpTo
<1>6. n \in S /\ n >= k
  BY <1>1, <1>5
<1> QED
  BY <1>2, <1>6 DEF S

-----------------------------------------------------------------------------
(* The flattened body is a text, and so is what the findings are about.      *)

LEMMA FieldShape ==
  ASSUME NEW field \in Fields
  PROVE  /\ field.shape \in {"string", "list", "other", "absent"}
         /\ field.parts \in Seq(Parts)
         /\ field.shape = "string" => Len(field.parts) = 1 /\ field.parts[1].kind = "bare"
  BY DEF Fields

LEMMA NonEmptyType ==
  ASSUME NEW texts \in Seq(Texts)
  PROVE  Values(NonEmpty(texts))
<1> DEFINE at == {i \in 1..Len(texts) : texts[i] # <<>>}
<1>1. at \in SUBSET (1..Len(texts)) /\ \A i \in at : texts[i] # <<>>
  OBVIOUS
<1>2. NonEmpty(texts) = Chosen(texts, at)
  BY DEF NonEmpty
<1> HIDE DEF at
<1>3. /\ Chosen(texts, at) \in Seq(Texts)
      /\ \A k \in 1..Len(Chosen(texts, at)) : \E i \in at : Chosen(texts, at)[k] = texts[i]
  BY <1>1, ChosenType
<1>4. ASSUME NEW k \in 1..Len(Chosen(texts, at)) PROVE Value(Chosen(texts, at)[k])
  <2>1. Chosen(texts, at)[k] \in Texts
    BY <1>3, ElementOfSeq
  <2> QED
    BY <1>1, <1>3, <2>1 DEF Value
<1> QED
  BY <1>2, <1>3, <1>4 DEF Values

LEMMA PartTextsType ==
  ASSUME NEW parts \in Seq(Parts)
  PROVE  /\ PartTexts(parts) \in Seq(Texts)
         /\ \A k \in 1..Len(PartTexts(parts)) : \E i \in 1..Len(parts) :
               parts[i].kind # "image" /\ PartTexts(parts)[k] = parts[i].text
<1> DEFINE at == {i \in 1..Len(parts) : parts[i].kind # "image"}
           textual == Chosen(parts, at)
<1>1. at \in SUBSET (1..Len(parts)) /\ \A i \in at : parts[i].kind # "image"
  OBVIOUS
<1>2. PartTexts(parts) = [k \in 1..Len(textual) |-> textual[k].text]
  BY DEF PartTexts
<1> HIDE DEF at
<1>3. textual \in Seq(Parts) /\ \A k \in 1..Len(textual) : \E i \in at : textual[k] = parts[i]
  BY <1>1, ChosenType
<1> HIDE DEF textual
<1>4. PICK n \in Nat : n = Len(textual) /\ \A k \in 1..n : textual[k] \in Parts
  BY <1>3, LenProperties, ElementOfSeq
<1>5. \A k \in 1..n : textual[k].text \in Texts
  BY <1>4 DEF Parts
<1>6. PartTexts(parts) \in Seq(Texts) /\ Len(PartTexts(parts)) = n
  BY <1>2, <1>4, <1>5
<1>7. ASSUME NEW k \in 1..n
      PROVE  \E i \in 1..Len(parts) : parts[i].kind # "image" /\ PartTexts(parts)[k] = parts[i].text
  <2>1. PICK i \in at : textual[k] = parts[i]
    BY <1>3, <1>4
  <2>2. PartTexts(parts)[k] = parts[i].text
    BY <1>2, <1>4, <2>1
  <2> QED
    BY <1>1, <2>2
<1> QED
  BY <1>6, <1>7

LEMMA CoercedType == ASSUME NEW field \in Fields PROVE Coerced(field) \in Texts
<1>1. CASE field.shape = "string"
  <2>1. field.parts[1] \in Parts
    BY <1>1, FieldShape, ElementOfSeq
  <2> QED
    BY <1>1, <2>1 DEF Coerced, Parts
<1>2. CASE field.shape = "list"
  BY <1>2, FieldShape, PartTextsType, JoinedType DEF Coerced
<1>3. CASE field.shape \notin {"string", "list"}
  BY <1>3, SymbolTexts DEF Coerced
<1> QED
  BY <1>1, <1>2, <1>3

LEMMA MessageTextsType ==
  ASSUME NEW messages \in Seq(Messages) PROVE Values(MessageTexts(messages))
<1> DEFINE at == {i \in 1..Len(messages) : messages[i].object}
           objects == Chosen(messages, at)
           texts == [i \in 1..Len(objects) |-> Coerced(objects[i].content)]
<1>1. at \in SUBSET (1..Len(messages))
  OBVIOUS
<1>2. MessageTexts(messages) = NonEmpty(texts)
  BY DEF MessageTexts
<1> HIDE DEF at
<1>3. objects \in Seq(Messages)
  BY <1>1, ChosenType
<1> HIDE DEF objects
<1>4. PICK n \in Nat : n = Len(objects) /\ \A i \in 1..n : objects[i] \in Messages
  BY <1>3, LenProperties, ElementOfSeq
<1>5. \A i \in 1..n : Coerced(objects[i].content) \in Texts
  BY <1>4, CoercedType DEF Messages
<1>6. texts \in Seq(Texts)
  BY <1>4, <1>5
<1> QED
  BY <1>2, <1>6, NonEmptyType

Body(b) == b.system \in Fields /\ b.messages \in Seq(Messages)

LEMMA SystemTextsType ==
  ASSUME NEW field \in Fields PROVE Values(NonEmpty(<<Coerced(field)>>))
<1>1. Coerced(field) \in Texts
  BY CoercedType
<1>2. <<Coerced(field)>> \in Seq(Texts)
  BY <1>1
<1> QED
  BY <1>2, NonEmptyType

LEMMA ParsedType == ASSUME NEW from, NEW b, Body(b) PROVE Parsed(from, b) \in Texts
<1> DEFINE first == IF from = "anthropic" THEN NonEmpty(<<Coerced(b.system)>>) ELSE <<>>
<1>1. first \in Seq(Texts)
  BY SystemTextsType DEF Body, Values
<1>2. MessageTexts(b.messages) \in Seq(Texts)
  BY MessageTextsType DEF Body, Values
<1>3. Parsed(from, b) = Joined(first \o MessageTexts(b.messages))
  BY DEF Parsed
<1> HIDE DEF first
<1>4. first \o MessageTexts(b.messages) \in Seq(Texts)
  BY <1>1, <1>2, ConcatProperties
<1> QED
  BY <1>3, <1>4, JoinedType

LEMMA OriginalsType ==
  ASSUME NEW text \in Texts, NEW n \in Nat, NEW spans \in [1..n -> Spans(text)]
  PROVE  Values(Originals(text, spans))
<1>0. Len(text) \in Nat
  BY LenProperties DEF Texts
<1> DEFINE cut == [i \in 1..n |-> SubSeq(text, spans[i][1] + 1, spans[i][2])]
<1>1. ASSUME NEW i \in 1..n PROVE SubSeq(text, spans[i][1] + 1, spans[i][2]) \in Texts
  <2>1. spans[i] \in (0..Len(text)) \X (0..Len(text))
    BY DEF Spans
  <2>2. /\ spans[i][1] + 1 \in Int /\ spans[i][2] \in Int
        /\ 1 <= spans[i][1] + 1 /\ spans[i][2] <= Len(text)
    BY <1>0, <2>1
  <2> QED
    BY <2>2, SubTexts
<1>2. Len(spans) = n
  BY LenProperties
<1>3. cut \in Seq(Texts)
  BY <1>1
<1> QED
  BY <1>2, <1>3, NonEmptyType DEF Originals

-----------------------------------------------------------------------------
(* A redacted body is a body, and no value is left in what is scanned of it. *)

LEMMA PartsRedacted ==
  ASSUME NEW parts \in Seq(Parts), NEW originals, Values(originals)
  PROVE  /\ RedactedParts(parts, originals) \in Seq(Parts)
         /\ Len(RedactedParts(parts, originals)) = Len(parts) /\ Len(parts) \in Nat
         /\ \A i \in 1..Len(parts) :
              LET p == RedactedParts(parts, originals)[i]
              IN  /\ parts[i].text \in Texts /\ p.kind = parts[i].kind
                  /\ p.kind # "image" => p.text = ApplyReplacements(parts[i].text, originals)
<1>1. PICK n \in Nat : n = Len(parts) /\ \A i \in 1..n : parts[i] \in Parts
  BY LenProperties, ElementOfSeq
<1> DEFINE g == RedactedParts(parts, originals)
<1>2. g = [i \in 1..n |-> IF parts[i].kind = "image" THEN parts[i]
                          ELSE [parts[i] EXCEPT !.text = ApplyReplacements(@, originals)]]
  BY <1>1 DEF RedactedParts
<1>3. ASSUME NEW i \in 1..n
      PROVE  /\ g[i] \in Parts
             /\ parts[i].text \in Texts /\ g[i].kind = parts[i].kind
             /\ g[i].kind # "image" => g[i].text = ApplyReplacements(parts[i].text, originals)
  <2>1. g[i] = IF parts[i].kind = "image" THEN parts[i]
               ELSE [parts[i] EXCEPT !.text = ApplyReplacements(@, originals)]
    BY <1>2
  <2>2. parts[i] \in [kind: {"bare", "typed", "image"}, text: Texts] /\ parts[i].text \in Texts
    BY <1>1 DEF Parts
  <2>3. ApplyReplacements(parts[i].text, originals) \in Texts
    BY <2>2, AppliedType
  <2> HIDE DEF g
  <2>4. CASE parts[i].kind = "image"
    BY <2>1, <2>2, <2>4 DEF Parts
  <2>5. CASE parts[i].kind # "image"
    BY <2>1, <2>2, <2>3, <2>5 DEF Parts
  <2> QED
    BY <2>4, <2>5
<1>4. Len(g) = n
  BY <1>2
<1>5. g \in Seq(Parts)
  <2>1. g = [i \in 1..n |-> g[i]]
    BY <1>2
  <2> HIDE DEF g
  <2> QED
    BY <1>3, <2>1
<1> QED
  BY <1>1, <1>3, <1>4, <1>5

LEMMA FieldRedacted ==
  ASSUME NEW field \in Fields, NEW originals, Values(originals)
  PROVE  RedactedField(field, originals) \in Fields
<1> DEFINE r == RedactedField(field, originals)
<1>0. field \in [shape: {"string", "list", "other", "absent"}, parts: Seq(Parts)]
  BY DEF Fields
<1>1. CASE field.shape \in {"string", "list"}
  <2>1. r = [field EXCEPT !.parts = RedactedParts(@, originals)]
    BY <1>1 DEF RedactedField
  <2>2. r.shape = field.shape /\ r.parts = RedactedParts(field.parts, originals)
    BY <1>0, <2>1
  <2>3. r.parts \in Seq(Parts) /\ Len(r.parts) = Len(field.parts)
    BY <2>2, FieldShape, PartsRedacted
  <2>4. r \in [shape: {"string", "list", "other", "absent"}, parts: Seq(Parts)]
    BY <1>0, <2>1, <2>2, <2>3
  <2>5. field.shape = "string" => r.parts[1].kind = "bare"
    <3> SUFFICES ASSUME field.shape = "string" PROVE r.parts[1].kind = "bare"
      OBVIOUS
    <3>1. 1 \in 1..Len(field.parts) /\ field.parts[1].kind = "bare"
      BY FieldShape
    <3>2. RedactedParts(field.parts, originals)[1].kind = field.parts[1].kind
      BY <3>1, FieldShape, PartsRedacted
    <3> QED
      BY <2>2, <3>1, <3>2
  <2> HIDE DEF r
  <2>6. r.shape = "string" => Len(r.parts) = 1 /\ r.parts[1].kind = "bare"
    BY <2>2, <2>3, <2>5, FieldShape
  <2>7. r \in Fields
    BY <2>4, <2>6 DEF Fields
  <2> QED
    BY <2>7 DEF r
<1>2. CASE field.shape \notin {"string", "list"}
  BY <1>2 DEF RedactedField
<1> QED
  BY <1>1, <1>2

LEMMA MessageRedacted ==
  ASSUME NEW m \in Messages, NEW originals, Values(originals)
  PROVE  RedactedMessage(m, originals) \in Messages
<1>1. m \in [object: BOOLEAN, content: Fields] /\ m.content \in Fields
  BY DEF Messages
<1>2. CASE ~m.object
  BY <1>2 DEF RedactedMessage
<1>3. CASE m.object /\ m.content.shape = "absent"
  <2>1. RedactedMessage(m, originals) = [m EXCEPT !.content.shape = "other"]
    BY <1>3 DEF RedactedMessage
  <2>2. RedactedMessage(m, originals) = [m EXCEPT !.content = [m.content EXCEPT !.shape = "other"]]
    BY <1>1, <2>1
  <2>3. [m.content EXCEPT !.shape = "other"] \in Fields
    BY <1>1 DEF Fields
  <2> QED
    BY <1>1, <2>2, <2>3 DEF Messages
<1>4. CASE m.object /\ m.content.shape # "absent"
  <2>1. RedactedMessage(m, originals) = [m EXCEPT !.content = RedactedField(m.content, originals)]
    BY <1>1, <1>4 DEF RedactedMessage
  <2>2. RedactedField(m.content, originals) \in Fields
    BY <1>1, FieldRedacted
  <2> QED
    BY <1>1, <2>1, <2>2 DEF Messages
<1> QED
  BY <1>2, <1>3, <1>4

LEMMA BodyRedacted ==
  ASSUME NEW from, NEW b, Body(b), NEW originals, Values(originals)
  PROVE  Body(Redacted(from, b, originals))
<1>1. PICK n \in Nat : n = Len(b.messages) /\ \A i \in 1..n : b.messages[i] \in Messages
  BY LenProperties, ElementOfSeq DEF Body
<1> DEFINE r == Redacted(from, b, originals)
<1>2. /\ r.system = IF from = "anthropic" THEN RedactedField(b.system, originals) ELSE b.system
      /\ r.messages = [i \in 1..n |-> RedactedMessage(b.messages[i], originals)]
  BY <1>1 DEF Redacted
<1> HIDE DEF r
<1>3. \A i \in 1..n : RedactedMessage(b.messages[i], originals) \in Messages
  BY <1>1, MessageRedacted
<1>4. r.messages \in Seq(Messages)
  BY <1>2, <1>3
<1>5. r.system \in Fields
  BY <1>2, FieldRedacted DEF Body
<1> QED
  BY <1>4, <1>5 DEF Body, r

-----------------------------------------------------------------------------
(* Redacting a field leaves all of it but the texts of its parts.           *)

LEMMA PartsKeepSkeleton ==
  ASSUME NEW parts \in Seq(Parts), NEW originals
  PROVE  /\ Len(RedactedParts(parts, originals)) = Len(parts)
         /\ \A i \in 1..Len(parts) :
              LET p == RedactedParts(parts, originals)[i]
              IN  /\ p.kind = parts[i].kind
                  /\ p.kind = "image" => p = parts[i]
                  /\ p.kind # "image" => [p EXCEPT !.text = <<>>] = [parts[i] EXCEPT !.text = <<>>]
<1>1. PICK n \in Nat : n = Len(parts) /\ \A i \in 1..n : parts[i] \in Parts
  BY LenProperties, ElementOfSeq
<1> DEFINE g == RedactedParts(parts, originals)
<1>2. g = [i \in 1..n |-> IF parts[i].kind = "image" THEN parts[i]
                          ELSE [parts[i] EXCEPT !.text = ApplyReplacements(@, originals)]]
  BY <1>1 DEF RedactedParts
<1>3. Len(g) = n
  BY <1>1, <1>2
<1>4. ASSUME NEW i \in 1..n
      PROVE  /\ g[i].kind = parts[i].kind
             /\ g[i].kind = "image" => g[i] = parts[i]
             /\ g[i].kind # "image" => [g[i] EXCEPT !.text = <<>>] = [parts[i] EXCEPT !.text = <<>>]
  <2>1. g[i] = IF parts[i].kind = "image" THEN parts[i]
               ELSE [parts[i] EXCEPT !.text = ApplyReplacements(@, originals)]
    BY <1>2
  <2>2. parts[i] \in [kind: {"bare", "typed", "image"}, text: Texts]
    BY <1>1 DEF Parts
  <2> HIDE DEF g
  <2>3. CASE parts[i].kind = "image"
    BY <2>1, <2>3
  <2>4. CASE parts[i].kind # "image"
    BY <2>1, <2>2, <2>4
  <2> QED
    BY <2>3, <2>4
<1> QED
  BY <1>1, <1>3, <1>4

LEMMA FieldKeepsSkeleton ==
  ASSUME NEW field \in Fields, NEW originals
  PROVE  Skeleton(RedactedField(field, originals)) = Skeleton(field)
<1>1. field.parts \in Seq(Parts) /\ field.shape \in {"string", "list", "other", "absent"}
  BY DEF Fields
<1>2. CASE field.shape \in {"string", "list"}
  <2> DEFINE r == RedactedField(field, originals)
  <2>1. r = [field EXCEPT !.parts = RedactedParts(@, originals)]
    BY <1>2 DEF RedactedField
  <2>2. r.shape = field.shape /\ r.parts = RedactedParts(field.parts, originals)
    BY <2>1 DEF Fields
  <2> HIDE DEF r
  <2>3. PICK n \in Nat : n = Len(field.parts)
    BY <1>1, LenProperties
  <2>4. Len(r.parts) = n
    BY <1>1, <2>2, <2>3, PartsKeepSkeleton
  <2>5. \A i \in 1..n : /\ r.parts[i].kind = field.parts[i].kind
                        /\ r.parts[i].kind = "image" => r.parts[i] = field.parts[i]
                        /\ r.parts[i].kind # "image" =>
                              [r.parts[i] EXCEPT !.text = <<>>] = [field.parts[i] EXCEPT !.text = <<>>]
    BY <1>1, <2>2, <2>3, PartsKeepSkeleton
  <2> DEFINE Bare(parts) == [i \in 1..n |-> IF parts[i].kind = "image" THEN parts[i]
                                           ELSE [parts[i] EXCEPT !.text = <<>>]]
  <2>6. Bare(r.parts) = Bare(field.parts)
    BY <2>5
  <2>7. Skeleton(field) = [shape |-> IF field.shape = "absent" THEN "other" ELSE field.shape,
                           parts |-> Bare(field.parts)]
    BY <2>3 DEF Skeleton
  <2>8. Skeleton(r) = [shape |-> IF r.shape = "absent" THEN "other" ELSE r.shape,
                       parts |-> Bare(r.parts)]
    BY <2>4 DEF Skeleton
  <2> HIDE DEF Bare
  <2>9. Skeleton(r) = Skeleton(field)
    BY <2>2, <2>6, <2>7, <2>8
  <2> QED
    BY <2>9 DEF r
<1>3. CASE field.shape \notin {"string", "list"}
  BY <1>3 DEF RedactedField
<1> QED
  BY <1>2, <1>3

LEMMA MessageKeepsSkeleton ==
  ASSUME NEW m \in Messages, NEW originals
  PROVE  /\ RedactedMessage(m, originals).object = m.object
         /\ Skeleton(RedactedMessage(m, originals).content) = Skeleton(m.content)
<1> DEFINE r == RedactedMessage(m, originals)
<1>1. m \in [object: BOOLEAN, content: Fields] /\ m.content \in Fields
  BY DEF Messages
<1>2. CASE ~m.object
  BY <1>2 DEF RedactedMessage
<1>3. CASE m.object /\ m.content.shape = "absent"
  <2>1. r = [m EXCEPT !.content.shape = "other"]
    BY <1>3 DEF RedactedMessage
  <2>2. r.object = m.object /\ r.content = [m.content EXCEPT !.shape = "other"]
    BY <1>1, <2>1
  <2>3. r.content.shape = "other" /\ r.content.parts = m.content.parts
    BY <1>1, <2>2 DEF Fields
  <2> QED
    BY <1>3, <2>2, <2>3 DEF Skeleton
<1>4. CASE m.object /\ m.content.shape # "absent"
  <2>1. r = [m EXCEPT !.content = RedactedField(@, originals)]
    BY <1>4 DEF RedactedMessage
  <2>2. r.object = m.object /\ r.content = RedactedField(m.content, originals)
    BY <1>1, <2>1
  <2> QED
    BY <1>1, <2>2, FieldKeepsSkeleton
<1> QED
  BY <1>2, <1>3, <1>4

-----------------------------------------------------------------------------
(* A preview gives away six symbols of a value of seven or more at most.     *)

Counts(S, n) == IsFiniteSet(S) /\ Cardinality(S) = n

LEMMA OneMore ==
  ASSUME NEW S, NEW n \in Nat, Counts(S, n), NEW x, x \notin S PROVE Counts(S \cup {x}, n + 1)
  BY FS_AddElement DEF Counts

LEMMA SixAreSix == LET six == {1, 2, 3, 4, 8, 9}
                   IN  IsFiniteSet(six) /\ Cardinality(six) = 6
<1>1. Counts(1..4, 4)
  <2>1. 1 \in Int /\ 4 \in Int /\ (IF 1 > 4 THEN 0 ELSE 4 - 1 + 1) = 4
    OBVIOUS
  <2>2. IsFiniteSet(1..4) /\ Cardinality(1..4) = IF 1 > 4 THEN 0 ELSE 4 - 1 + 1
    BY <2>1, FS_Interval, Zenon
  <2> QED
    BY <2>1, <2>2 DEF Counts
<1>2. Counts((1..4) \cup {8}, 4 + 1)
  <2>1. 8 \notin 1..4 /\ 4 \in Nat
    OBVIOUS
  <2> QED
    BY <1>1, <2>1, OneMore, Zenon
<1>3. Counts(((1..4) \cup {8}) \cup {9}, (4 + 1) + 1)
  <2>1. 9 \notin (1..4) \cup {8} /\ 4 + 1 \in Nat
    OBVIOUS
  <2> QED
    BY <1>2, <2>1, OneMore, Zenon
<1>4. ((1..4) \cup {8}) \cup {9} = {1, 2, 3, 4, 8, 9} /\ (4 + 1) + 1 = 6
  OBVIOUS
<1> QED
  BY <1>3, <1>4, Zenon DEF Counts

LEMMA Stars ==
  ASSUME NEW S
  PROVE  LET stars == <<Asterisk, Asterisk, Asterisk>>
         IN  /\ stars \in Seq(S \cup {Asterisk}) /\ Len(stars) = 3
             /\ \A k \in 1..3 : stars[k] = Asterisk
  OBVIOUS

LEMMA LongPreview ==
  ASSUME NEW S, NEW text \in Seq(S), NEW n \in Nat, n = Len(text), n > 6
  PROVE  LET shown == Preview(text)
         IN  /\ Len(shown) = 9 /\ DOMAIN shown = 1..9
             /\ \A k \in 1..4 : shown[k] = text[k]
             /\ \A k \in 5..7 : shown[k] = Asterisk
             /\ \A k \in 8..9 : shown[k] = text[n - (9 - k)]
<1> DEFINE T == S \cup {Asterisk}
           head == SubSeq(text, 1, 4)
           tail == SubSeq(text, n - 1, n)
           stars == <<Asterisk, Asterisk, Asterisk>>
<1>1. \A i \in 1..n : text[i] \in T
  BY ElementOfSeq
<1>2. head \in Seq(T) /\ Len(head) = 4 /\ \A k \in 1..4 : head[k] = text[k]
  <2>1. \A i \in 1..4 : text[i] \in T
    BY <1>1
  <2> HIDE DEF T
  <2>2. /\ head \in Seq(T)
        /\ Len(head) = IF 1 <= 4 THEN 4 - 1 + 1 ELSE 0
        /\ \A k \in 1..4 - 1 + 1 : head[k] = text[1 + k - 1]
    BY <2>1, SubSeqProperties
  <2> QED
    BY <2>2
<1>3. tail \in Seq(T) /\ Len(tail) = 2 /\ \A k \in 1..2 : tail[k] = text[n - 2 + k]
  <2>1. \A i \in n - 1..n : text[i] \in T
    BY <1>1
  <2> HIDE DEF T
  <2>2. /\ tail \in Seq(T)
        /\ Len(tail) = IF n - 1 <= n THEN n - (n - 1) + 1 ELSE 0
        /\ \A k \in 1..n - (n - 1) + 1 : tail[k] = text[n - 1 + k - 1]
    BY <2>1, SubSeqProperties
  <2> QED
    BY <2>2
<1>4. stars \in Seq(T) /\ Len(stars) = 3 /\ \A k \in 1..3 : stars[k] = Asterisk
  BY Stars
<1>5. Preview(text) = head \o stars \o tail
  BY DEF Preview
<1> HIDE DEF T, head, tail, stars
<1> DEFINE front == head \o stars
<1>6. /\ front \in Seq(T) /\ Len(front) = 7
      /\ \A k \in 1..7 : front[k] = IF k <= 4 THEN head[k] ELSE stars[k - 4]
  <2>1. /\ front \in Seq(T) /\ Len(front) = Len(head) + Len(stars)
        /\ \A k \in 1..Len(head) + Len(stars) :
              front[k] = IF k <= Len(head) THEN head[k] ELSE stars[k - Len(head)]
    BY <1>2, <1>4, ConcatProperties
  <2> HIDE DEF front
  <2>2. Len(head) = 4 /\ Len(head) + Len(stars) = 7
    BY <1>2, <1>4
  <2> QED
    BY <2>1, <2>2
<1> HIDE DEF front
<1>7. /\ front \o tail \in Seq(T) /\ Len(front \o tail) = 9
      /\ \A k \in 1..9 : (front \o tail)[k] = IF k <= 7 THEN front[k] ELSE tail[k - 7]
  <2> DEFINE both == front \o tail
  <2>1. /\ both \in Seq(T) /\ Len(both) = Len(front) + Len(tail)
        /\ \A k \in 1..Len(front) + Len(tail) :
              both[k] = IF k <= Len(front) THEN front[k] ELSE tail[k - Len(front)]
    BY <1>3, <1>6, ConcatProperties, ZenonT(30)
  <2>2. Len(front) = 7 /\ Len(front) + Len(tail) = 9
    BY <1>3, <1>6
  <2> HIDE DEF both
  <2>3. /\ both \in Seq(T) /\ Len(both) = 9
        /\ \A k \in 1..9 : both[k] = IF k <= 7 THEN front[k] ELSE tail[k - 7]
    BY <2>1, <2>2
  <2> QED
    BY <2>3 DEF both
<1> DEFINE shown == front \o tail
<1>8. shown = Preview(text)
  BY <1>5 DEF front
<1>9. DOMAIN shown = 1..9
  BY <1>7, LenProperties
<1> HIDE DEF shown
<1>10. \A k \in 1..9 : shown[k] = IF k <= 7 THEN front[k] ELSE tail[k - 7]
  BY <1>7 DEF shown
<1>11. \A k \in 1..4 : shown[k] = text[k]
  BY <1>2, <1>6, <1>10
<1>12. \A k \in 5..7 : shown[k] = Asterisk
  <2> TAKE k \in 5..7
  <2>1. k - 4 \in 1..3 /\ k \in 1..7 /\ k \in 1..9 /\ k <= 7 /\ ~(k <= 4)
    OBVIOUS
  <2>2. shown[k] = stars[k - 4]
    BY <1>6, <1>10, <2>1
  <2> QED
    BY <1>4, <2>1, <2>2
<1>13. \A k \in 8..9 : shown[k] = text[n - (9 - k)]
  <2> TAKE k \in 8..9
  <2>1. k - 7 \in 1..2 /\ k \in 1..9 /\ ~(k <= 7) /\ n - 2 + (k - 7) = n - (9 - k)
    OBVIOUS
  <2>2. shown[k] = tail[k - 7]
    BY <1>10, <2>1
  <2>3. tail[k - 7] = text[n - 2 + (k - 7)]
    BY <1>3, <2>1
  <2> QED
    BY <2>1, <2>2, <2>3
<1> QED
  BY <1>7, <1>8, <1>9, <1>11, <1>12, <1>13 DEF shown

LEMMA PreviewHides ==
  ASSUME NEW S, NEW text \in Seq(S)
  PROVE  Hides(Preview(text), text)
<1>1. PICK n \in Nat : n = Len(text)
  BY LenProperties
<1> DEFINE shown == Preview(text)
           clear == {k \in DOMAIN shown : shown[k] # Asterisk}
<1>2. CASE n <= 6
  <2>1. shown = [i \in 1..n |-> Asterisk]
    BY <1>1, <1>2 DEF Preview
  <2>2. clear = {}
    BY <2>1
  <2>3. Cardinality({}) = 0
    BY FS_EmptySet
  <2>4. text # <<>> => 0 < n
    BY <1>1, EmptySeq
  <2> HIDE DEF shown, clear
  <2>5. text # <<>> => Cardinality(clear) < Len(text)
    BY <1>1, <2>2, <2>3, <2>4
  <2> QED
    BY <2>2, <2>5 DEF Hides, shown, clear
<1>3. CASE n > 6
  <2>1. /\ Len(shown) = 9 /\ DOMAIN shown = 1..9
        /\ \A k \in 1..4 : shown[k] = text[k]
        /\ \A k \in 5..7 : shown[k] = Asterisk
        /\ \A k \in 8..9 : shown[k] = text[n - (9 - k)]
    BY <1>1, <1>3, LongPreview
  <2> HIDE DEF shown
  <2>2. clear \subseteq 1..4 \cup 8..9
    BY <2>1
  <2>3. clear \in SUBSET {1, 2, 3, 4, 8, 9}
    BY <2>2
  <2> HIDE DEF clear
  <2>4. Cardinality(clear) <= 6 /\ IsFiniteSet(clear)
    BY <2>3, SixAreSix, FS_Subset
  <2>5. Cardinality(clear) \in Nat
    BY <2>4, FS_CardinalityType
  <2>6. Cardinality(clear) < Len(text)
    BY <1>1, <1>3, <2>4, <2>5
  <2>7. ASSUME NEW k \in clear
        PROVE  \/ k <= 4 /\ shown[k] = text[k]
               \/ Len(shown) - k < 2 /\ shown[k] = text[Len(text) - (Len(shown) - k)]
    BY <1>1, <2>1, <2>2
  <2> QED
    BY <2>6, <2>7 DEF Hides, shown, clear
<1> QED
  BY <1>1, <1>2, <1>3

-----------------------------------------------------------------------------
(* The body is the client's until the chain has decided about the findings, *)
(* and is changed at most once: this is what makes the rest inductive.       *)
BodyIsSent ==
    /\ sent \in Bodies
    /\ stage \in {"received", "parsed", "scanned"} => body = sent

RedactionInv == BodyIsSent /\ OnlyTextChanges /\ ContentIsTheBody

LEMMA SentKeepsItself ==
  ASSUME body = sent
  PROVE  OnlyTextChanges
  BY DEF OnlyTextChanges

LEMMA MutateOnlyText ==
  ASSUME sent \in Bodies, body = sent, NEW originals,
         body' = Redacted(provider, body, originals),
         sent' = sent, provider' = provider
  PROVE  OnlyTextChanges'
<1>1. sent.system \in Fields /\ sent.messages \in Seq(Messages)
  BY BodiesAssumption
<1>2. PICK n \in Nat : n = Len(sent.messages) /\ \A i \in 1..n : sent.messages[i] \in Messages
  BY <1>1, LenProperties, ElementOfSeq
<1>3. /\ body'.system = IF provider = "anthropic" THEN RedactedField(sent.system, originals)
                                                  ELSE sent.system
      /\ body'.messages = [i \in 1..n |-> RedactedMessage(sent.messages[i], originals)]
  BY <1>2 DEF Redacted
<1>4. Skeleton(body'.system) = Skeleton(sent.system)
  BY <1>1, <1>3, FieldKeepsSkeleton
<1>5. provider = "openai" => body'.system = sent.system
  BY <1>3
<1>6. Len(body'.messages) = n
  BY <1>3
<1>7. ASSUME NEW i \in 1..n
      PROVE  /\ body'.messages[i].object = sent.messages[i].object
             /\ Skeleton(body'.messages[i].content) = Skeleton(sent.messages[i].content)
  <2>1. body'.messages[i] = RedactedMessage(sent.messages[i], originals)
    BY <1>3
  <2> QED
    BY <1>2, <2>1, MessageKeepsSkeleton
<1> QED
  BY <1>2, <1>4, <1>5, <1>6, <1>7 DEF OnlyTextChanges

LEMMA InitRedaction == Init => RedactionInv
  BY SentKeepsItself DEF Init, RedactionInv, BodyIsSent, ContentIsTheBody

LEMMA NextRedaction == RedactionInv /\ [Next]_vars => RedactionInv'
<1> SUFFICES ASSUME RedactionInv, [Next]_vars
             PROVE  RedactionInv'
  OBVIOUS
<1>0. BodyIsSent /\ OnlyTextChanges /\ ContentIsTheBody
  BY DEF RedactionInv
<1>a. ASSUME UNCHANGED <<provider, sent, body>>
      PROVE  OnlyTextChanges'
  <2>1. provider' = provider /\ sent' = sent /\ body' = body
    BY <1>a
  <2> QED
    BY <1>0, <2>1, Zenon DEF OnlyTextChanges
<1>b. ASSUME UNCHANGED <<provider, sent, body, content>>, stage # "received"
      PROVE  ContentIsTheBody'
  BY <1>0, <1>b DEF ContentIsTheBody
<1>1. CASE Parse
  <2>1. ContentIsTheBody'
    BY <1>1 DEF Parse, ContentIsTheBody
  <2> QED
    BY <1>0, <1>1, <1>a, <2>1 DEF Parse, RedactionInv, BodyIsSent
<1>2. CASE Scan
  BY <1>0, <1>2, <1>a, <1>b DEF Scan, RedactionInv, BodyIsSent
<1>3. CASE Continue
  BY <1>0, <1>3, <1>a, <1>b DEF Continue, RedactionInv, BodyIsSent
<1>4. CASE Reject
  BY <1>0, <1>4, <1>a, <1>b DEF Reject, RedactionInv, BodyIsSent
<1>5. CASE Mutate
  <2> DEFINE originals == Originals(content, findings)
  <2>1. /\ body' = IF originals = <<>> THEN body ELSE Redacted(provider, body, originals)
        /\ content' = Parsed(provider, body') /\ stage' = "screened"
        /\ sent' = sent /\ provider' = provider /\ stage = "scanned"
    BY <1>5 DEF Mutate
  <2> HIDE DEF originals
  <2>2. body = sent /\ sent \in Bodies
    BY <1>0, <2>1 DEF BodyIsSent
  <2>3. OnlyTextChanges'
    <3>1. CASE body' = body
      BY <1>a, <2>1, <3>1
    <3>2. CASE body' = Redacted(provider, body, originals)
      BY <2>1, <2>2, <3>2, MutateOnlyText
    <3> QED
      BY <2>1, <3>1, <3>2
  <2>4. ContentIsTheBody'
    BY <2>1 DEF ContentIsTheBody
  <2> QED
    BY <2>1, <2>2, <2>3, <2>4 DEF RedactionInv, BodyIsSent
<1>6. CASE Evaluate
  BY <1>0, <1>6, <1>a, <1>b DEF Evaluate, RedactionInv, BodyIsSent
<1>7. CASE Audit
  BY <1>0, <1>7, <1>a, <1>b DEF Audit, RedactionInv, BodyIsSent
<1>8. CASE CrashMutate
  BY <1>0, <1>8, <1>a, <1>b DEF CrashMutate, RedactionInv, BodyIsSent
<1>9. CASE UNCHANGED vars
  <2>1. UNCHANGED <<provider, sent, body, content, stage>>
    BY <1>9 DEF vars
  <2>2. BodyIsSent' /\ ContentIsTheBody'
    BY <1>0, <2>1 DEF BodyIsSent, ContentIsTheBody
  <2> QED
    BY <1>a, <2>1, <2>2 DEF RedactionInv
<1> QED
  BY <1>1, <1>2, <1>3, <1>4, <1>5, <1>6, <1>7, <1>8, <1>9 DEF Next, Done

(* The inductive invariant: a body is changed at most once, in its text      *)
(* only, and parsed again when it was (_apply_mutate).                      *)
THEOREM RedactionSafe == Spec => []RedactionInv
  BY InitRedaction, NextRedaction, PTL DEF Spec

(* Redaction changes no shape, no image, and neither the number nor the      *)
(* order of messages and parts, for every body (_redact_content_field).      *)
THEOREM ShapesRoundTrip == Spec => []OnlyTextChanges
<1>1. RedactionInv => OnlyTextChanges
  BY DEF RedactionInv
<1> QED
  BY <1>1, RedactionSafe, PTL

(* What is screened after a redaction is what will be shipped, whatever      *)
(* parsing and replacing compute.                                           *)
THEOREM ScreenedIsShipped == Spec => []ContentIsTheBody
<1>1. RedactionInv => ContentIsTheBody
  BY DEF RedactionInv
<1> QED
  BY <1>1, RedactionSafe, PTL

-----------------------------------------------------------------------------
(* The ledger, up to the record that is built from it. *)

Matched(i) == SubSeq(Parsed(provider, sent), findings[i][1] + 1, findings[i][2])

Explained ==
    /\ body # sent => mutated
    /\ mutated => findings # <<>>
    /\ Len(previews) = Len(findings) /\ (findings # <<>> => previews # <<>>)
    /\ \A i \in DOMAIN findings : Hides(previews[i], Matched(i))

Booked ==
    /\ stage \in {"received", "parsed", "scanned", "screened", "decided", "recorded", "crashed"}
    /\ stage \in {"received", "parsed", "scanned"} => ~mutated
    /\ stage \in {"decided", "recorded"} =>
          counted = IF by = "pii_scan" THEN <<>> ELSE <<Len(Parsed(provider, body))>>
    /\ stage \in {"received", "parsed", "scanned", "screened"} => counted = <<>> /\ by = "none"
    /\ stage = "recorded" => record = RecordOf(by)

LedgerInv == RedactionInv /\ Explained /\ Booked

LEMMA SpanIsText ==
  ASSUME NEW c, NEW s \in Spans(c)
  PROVE  \E S : SubSeq(c, s[1] + 1, s[2]) \in Seq(S)
<1>1. s[1] \in 0..Len(c) /\ s[2] \in 0..Len(c)
  BY DEF Spans
<1>2. PICK x \in Int, y \in Int : x = s[1] + 1 /\ y = s[2]
  BY <1>1
<1>3. SubSeq(c, x, y) \in Seq({c[i] : i \in x..y})
  BY <1>2, SubSeqProperties
<1> QED
  BY <1>2, <1>3

LEMMA ScanExplains ==
  ASSUME RedactionInv, Scan
  PROVE  /\ Len(previews') = Len(findings') /\ (findings' # <<>> => previews' # <<>>)
         /\ \A i \in DOMAIN findings' : Hides(previews'[i], Matched(i)')
<1>1. /\ findings' \in UNION {[1..n -> Spans(content)] : n \in 0..MaxFindings}
      /\ previews' = [i \in DOMAIN findings' |->
                        Preview(SubSeq(content, findings'[i][1] + 1, findings'[i][2]))]
      /\ provider' = provider /\ sent' = sent /\ stage = "parsed"
  BY DEF Scan
<1>2. PICK n \in Nat : findings' \in [1..n -> Spans(content)]
  BY <1>1
<1>3. DOMAIN findings' = 1..n /\ Len(findings') = n /\ Len(previews') = n
  BY <1>1, <1>2
<1>6. findings' # <<>> => previews' # <<>>
  BY <1>2, <1>3
<1>4. content = Parsed(provider, sent)
  BY <1>1 DEF RedactionInv, ContentIsTheBody, BodyIsSent
<1>5. ASSUME NEW i \in 1..n
      PROVE  Hides(previews'[i], Matched(i)')
  <2> DEFINE match == SubSeq(content, findings'[i][1] + 1, findings'[i][2])
  <2>1. findings'[i] \in Spans(content)
    BY <1>2
  <2>2. PICK S : match \in Seq(S)
    BY <2>1, SpanIsText
  <2>3. previews'[i] = Preview(match)
    BY <1>1, <1>3
  <2>4. Matched(i)' = match
    BY <1>1, <1>4 DEF Matched
  <2> HIDE DEF match
  <2>5. Hides(Preview(match), match)
    BY <2>2, PreviewHides
  <2> QED
    BY <2>3, <2>4, <2>5
<1> QED
  BY <1>3, <1>5, <1>6

LEMMA InitLedger == Init => LedgerInv
<1> SUFFICES ASSUME Init
             PROVE  LedgerInv
  OBVIOUS
<1>1. findings = <<>> /\ previews = <<>> /\ DOMAIN findings = {}
  BY DEF Init
<1>2. Explained
  BY <1>1 DEF Init, Explained
<1>3. Booked
  BY DEF Init, Booked
<1> QED
  BY <1>2, <1>3, InitRedaction DEF LedgerInv

LEMMA NextLedger == LedgerInv /\ [Next]_vars => LedgerInv'
<1> SUFFICES ASSUME LedgerInv, [Next]_vars
             PROVE  Explained' /\ Booked'
  BY NextRedaction DEF LedgerInv
<1>0. RedactionInv /\ Explained /\ Booked /\ BodyIsSent /\ ContentIsTheBody
  BY DEF LedgerInv, RedactionInv
<1>a. ASSUME UNCHANGED <<provider, sent, body, findings, previews, mutated>>
      PROVE  Explained'
  BY <1>0, <1>a DEF Explained, Matched
<1>1. CASE Parse
  BY <1>0, <1>1, <1>a DEF Parse, Booked
<1>2. CASE Scan
  <2>1. Explained'
    <3>1. UNCHANGED <<provider, sent, body, mutated>> /\ ~mutated
      BY <1>0, <1>2 DEF Scan, Booked
    <3> QED
      BY <1>0, <1>2, <3>1, ScanExplains DEF Explained
  <2> QED
    BY <1>0, <1>2, <2>1 DEF Scan, Booked
<1>3. CASE Continue
  BY <1>0, <1>3, <1>a DEF Continue, Booked
<1>4. CASE Reject
  BY <1>0, <1>4, <1>a DEF Reject, Booked
<1>5. CASE Mutate
  <2>1. /\ UNCHANGED <<provider, sent, findings, previews, counted, by, record>>
        /\ stage = "scanned" /\ stage' = "screened" /\ findings # <<>>
        /\ body' # body => mutated'
    BY <1>5 DEF Mutate
  <2>2. body = sent
    BY <1>0, <2>1 DEF BodyIsSent
  <2>3. Explained'
    BY <1>0, <2>1, <2>2 DEF Explained, Matched
  <2>4. Booked'
    BY <1>0, <2>1 DEF Booked
  <2> QED
    BY <2>3, <2>4
<1>6. CASE Evaluate
  <2>1. content = Parsed(provider, body)
    BY <1>0, <1>6 DEF Evaluate, ContentIsTheBody
  <2>2. Booked'
    BY <1>0, <1>6, <2>1 DEF Evaluate, Booked
  <2> QED
    BY <1>6, <1>a, <2>2 DEF Evaluate
<1>7. CASE Audit
  <2>1. UNCHANGED <<provider, sent, body, findings, previews, mutated, counted, by>>
        /\ stage = "decided" /\ stage' = "recorded" /\ record' = RecordOf(by)
    BY <1>7 DEF Audit
  <2>2. RecordOf(by)' = RecordOf(by)
    BY <2>1 DEF RecordOf
  <2>3. Booked'
    BY <1>0, <2>1, <2>2 DEF Booked
  <2> QED
    BY <1>a, <2>1, <2>3
<1>8. CASE CrashMutate
  BY <1>0, <1>8, <1>a DEF CrashMutate, Booked
<1>9. CASE UNCHANGED vars
  <2>1. UNCHANGED <<provider, sent, body, findings, previews, mutated, counted, by, record, stage>>
    BY <1>9 DEF vars
  <2>2. Booked'
    BY <1>0, <2>1 DEF Booked, RecordOf
  <2> QED
    BY <1>a, <2>1, <2>2
<1> QED
  BY <1>1, <1>2, <1>3, <1>4, <1>5, <1>6, <1>7, <1>8, <1>9 DEF Next, Done

LEMMA LedgerSuffices == LedgerInv => LedgerExplainsTheBody
<1> SUFFICES ASSUME LedgerInv, stage = "recorded"
             PROVE  LedgerExplainsTheBody
  BY DEF LedgerExplainsTheBody
<1>1. Explained /\ Booked
  BY DEF LedgerInv
<1>2. record = RecordOf(by)
  BY <1>1 DEF Booked
<1>3. /\ record.mutations_applied = mutated /\ record.findings = previews
      /\ record.token_count = counted /\ record.rejecting_middleware = by
  BY <1>2 DEF RecordOf
<1>4. mutated => previews # <<>>
  BY <1>1 DEF Explained
<1>5. counted = IF by = "pii_scan" THEN <<>> ELSE <<Len(Parsed(provider, body))>>
  BY <1>1 DEF Booked
<1> QED
  BY <1>1, <1>3, <1>4, <1>5 DEF LedgerExplainsTheBody, Explained, Matched

(* For every body, every findings and every policy, the record explains the  *)
(* difference between what was sent and what was made of it, and no preview  *)
(* gives its match away (build_audit_record, _preview).                     *)
THEOREM LedgerAlwaysExplains == Spec => []LedgerExplainsTheBody
<1>1. Spec => []LedgerInv
  BY InitLedger, NextLedger, PTL DEF Spec
<1> QED
  BY <1>1, LedgerSuffices, PTL

-----------------------------------------------------------------------------
(* Types, and what is left of the values that were detected.                 *)

LEMMA PreviewType ==
  ASSUME NEW text \in Texts
  PROVE  Preview(text) \in Seq(Letters \cup {NewLine, Tag, Asterisk})
<1> DEFINE V == Letters \cup {NewLine, Tag, Asterisk}
<1>1. PICK n \in Nat : n = Len(text)
  BY LenProperties DEF Texts
<1>2. CASE n <= 6
  <2>1. Preview(text) = [i \in 1..n |-> Asterisk]
    BY <1>1, <1>2 DEF Preview
  <2> QED
    BY <2>1
<1>3. CASE n > 6
  <2> DEFINE stars == <<Asterisk, Asterisk, Asterisk>>
             start == SubSeq(text, 1, 4)
             end == SubSeq(text, n - 1, n)
  <2>1. start \in Texts /\ end \in Texts
    BY <1>1, <1>3, SubTexts
  <2>2. start \in Seq(V) /\ end \in Seq(V) /\ stars \in Seq(V)
    <3>1. Letters \cup {NewLine, Tag} \subseteq V
      OBVIOUS
    <3> HIDE DEF start, end
    <3> QED
      BY <2>1, <3>1, SeqMonotonic DEF Texts
  <2>3. Preview(text) = start \o stars \o end
    BY <1>1, <1>3 DEF Preview
  <2> HIDE DEF start, end, stars, V
  <2>4. start \o stars \in Seq(V)
    BY <2>2, ConcatProperties
  <2>5. (start \o stars) \o end \in Seq(V)
    BY <2>2, <2>4, ConcatProperties
  <2> QED
    BY <2>3, <2>5 DEF V
<1> QED
  BY <1>1, <1>2, <1>3

LEMMA NothingDetected == ASSUME NEW text PROVE Originals(text, <<>>) = <<>>
<1> DEFINE cut == [i \in 1..Len(<<>>) |-> SubSeq(text, <<>>[i][1] + 1, <<>>[i][2])]
           at == {i \in 1..Len(cut) : cut[i] # <<>>}
<1>1. Len(<<>>) = 0
  OBVIOUS
<1>2. Len(cut) = 0
  BY <1>1
<1>3. at = {}
  BY <1>2
<1>4. Originals(text, <<>>) = Chosen(cut, at)
  BY DEF Originals, NonEmpty
<1> HIDE DEF cut, at
<1>5. Cardinality(at) = 0
  BY <1>3, FS_EmptySet
<1> QED
  BY <1>4, <1>5 DEF Chosen

(* The findings are spans of the text the client sent, and from the verdict  *)
(* about them on, the body is the one they were replaced in.                *)
Found ==
    /\ Body(sent) /\ Body(body)
    /\ \E n \in Nat : findings \in [1..n -> Spans(Parsed(provider, sent))]

Cleaned ==
    stage \in {"screened", "decided", "recorded"} /\ by # "pii_scan" =>
        body = IF Detected = <<>> THEN sent ELSE Redacted(provider, sent, Detected)

TextInv == LedgerInv /\ TypeOK /\ Found /\ Cleaned

LEMMA DetectedType == ASSUME Found PROVE Values(Detected)
<1>1. Parsed(provider, sent) \in Texts
  BY ParsedType DEF Found
<1> QED
  BY <1>1, OriginalsType DEF Found, Detected

LEMMA InitTexts == Init => TextInv
<1> SUFFICES ASSUME Init PROVE TypeOK /\ Found /\ Cleaned
  BY InitLedger DEF TextInv
<1>1. Body(sent) /\ body = sent
  BY BodiesAssumption DEF Init, Body
<1>2. TypeOK
  <2>1. findings = <<>> /\ previews = <<>> /\ DOMAIN findings = {} /\ DOMAIN previews = {}
    BY DEF Init
  <2>2. content = <<>> /\ counted = <<>> /\ mutated = FALSE /\ by = "none"
    BY DEF Init
  <2>3. content \in Texts
    BY <2>2, SymbolTexts
  <2>4. counted \in Seq(Nat) /\ Len(counted) <= 1
    BY <2>2
  <2> QED
    BY <1>1, <2>1, <2>2, <2>3, <2>4 DEF TypeOK, Body
<1>3. Found
  <2>1. 0 \in Nat /\ findings \in [1..0 -> Spans(Parsed(provider, sent))]
    BY DEF Init
  <2> QED
    BY <1>1, <2>1 DEF Found
<1> QED
  BY <1>2, <1>3 DEF Init, Cleaned

LEMMA ScanTexts ==
  ASSUME TextInv, Scan
  PROVE  /\ \E n \in Nat : findings' \in [1..n -> Spans(Parsed(provider, sent))]
         /\ \A i \in DOMAIN findings' : findings'[i] \in Nat \X Nat
         /\ \A i \in DOMAIN previews' :
               previews'[i] \in Seq(Letters \cup {NewLine, Tag, Asterisk})
<1>1. /\ findings' \in UNION {[1..n -> Spans(content)] : n \in 0..MaxFindings}
      /\ previews' = [i \in DOMAIN findings' |->
                        Preview(SubSeq(content, findings'[i][1] + 1, findings'[i][2]))]
      /\ stage = "parsed"
  BY DEF Scan
<1>2. content = Parsed(provider, sent) /\ content \in Texts
  BY <1>1 DEF TextInv, LedgerInv, RedactionInv, ContentIsTheBody, BodyIsSent, TypeOK
<1>3. PICK n \in Nat : findings' \in [1..n -> Spans(content)]
  BY <1>1
<1>4. Len(content) \in Nat
  BY <1>2, LenProperties DEF Texts
<1>5. ASSUME NEW i \in 1..n
      PROVE  /\ findings'[i] \in Nat \X Nat
             /\ Preview(SubSeq(content, findings'[i][1] + 1, findings'[i][2]))
                   \in Seq(Letters \cup {NewLine, Tag, Asterisk})
  <2>1. findings'[i] \in (0..Len(content)) \X (0..Len(content))
    BY <1>3 DEF Spans
  <2>2. /\ findings'[i][1] + 1 \in Int /\ findings'[i][2] \in Int
        /\ 1 <= findings'[i][1] + 1 /\ findings'[i][2] <= Len(content)
        /\ findings'[i] \in Nat \X Nat
    BY <1>4, <2>1
  <2>3. SubSeq(content, findings'[i][1] + 1, findings'[i][2]) \in Texts
    BY <1>2, <2>2, SubTexts
  <2> QED
    BY <2>2, <2>3, PreviewType
<1>6. DOMAIN findings' = 1..n /\ DOMAIN previews' = 1..n
  BY <1>1, <1>3
<1>7. \A i \in 1..n :
         previews'[i] = Preview(SubSeq(content, findings'[i][1] + 1, findings'[i][2]))
  BY <1>1, <1>6
<1> QED
  BY <1>2, <1>3, <1>5, <1>6, <1>7

LEMMA NextTexts == TextInv /\ [Next]_vars => TextInv'
<1> SUFFICES ASSUME TextInv, [Next]_vars PROVE TypeOK' /\ Found' /\ Cleaned'
  BY NextLedger DEF TextInv
<1>0. LedgerInv /\ BodyIsSent /\ ContentIsTheBody /\ Booked /\ TypeOK /\ Found /\ Cleaned
  BY DEF TextInv, LedgerInv, RedactionInv
<1>a. ASSUME UNCHANGED <<provider, sent, body, findings>> PROVE Found'
  BY <1>0, <1>a DEF Found, Body
<1>b. ASSUME UNCHANGED <<provider, sent, findings>> PROVE Detected' = Detected
  BY <1>b DEF Detected
<1>1. CASE Parse
  <2>1. Parsed(provider, body) \in Texts
    BY <1>0, ParsedType DEF Found
  <2>2. TypeOK'
    BY <1>0, <1>1, <2>1 DEF Parse, TypeOK
  <2> QED
    BY <1>1, <1>a, <2>2 DEF Parse, Cleaned
<1>2. CASE Scan
  <2>1. /\ UNCHANGED <<provider, sent, body, content, mutated, counted, by>>
        /\ stage' = "scanned"
    BY <1>2 DEF Scan
  <2>2. TypeOK'
    BY <1>0, <1>2, <2>1, ScanTexts DEF TypeOK
  <2>3. Found'
    BY <1>0, <1>2, <2>1, ScanTexts DEF Found, Body
  <2> QED
    BY <2>1, <2>2, <2>3 DEF Cleaned
<1>3. CASE Continue
  <2>1. TypeOK'
    BY <1>0, <1>3 DEF Continue, TypeOK
  <2>2. Detected = <<>> /\ body = sent
    BY <1>0, <1>3, NothingDetected DEF Continue, Detected, BodyIsSent
  <2> QED
    BY <1>3, <1>a, <1>b, <2>1, <2>2 DEF Continue, Cleaned
<1>4. CASE Reject
  <2>1. TypeOK'
    BY <1>0, <1>4 DEF Reject, TypeOK
  <2> QED
    BY <1>4, <1>a, <2>1 DEF Reject, Cleaned
<1>5. CASE Mutate
  <2>1. /\ UNCHANGED <<provider, policy, sent, findings, previews, counted, by>>
        /\ stage = "scanned" /\ stage' = "screened"
        /\ body' = IF Originals(content, findings) = <<>> THEN body
                   ELSE Redacted(provider, body, Originals(content, findings))
        /\ content' = Parsed(provider, body')
        /\ mutated' \in BOOLEAN
    BY <1>5 DEF Mutate
  <2>2. body = sent /\ content = Parsed(provider, sent)
    BY <1>0, <2>1 DEF BodyIsSent, ContentIsTheBody
  <2>3. body' = IF Detected = <<>> THEN sent ELSE Redacted(provider, sent, Detected)
    BY <2>1, <2>2 DEF Detected
  <2>4. Body(body')
    BY <1>0, <2>3, DetectedType, BodyRedacted DEF Found
  <2>5. content' \in Texts
    BY <2>1, <2>4, ParsedType
  <2>6. TypeOK'
    BY <1>0, <2>1, <2>4, <2>5 DEF TypeOK, Body
  <2>7. Found'
    BY <1>0, <2>1, <2>4 DEF Found, Body
  <2>8. Cleaned'
    BY <1>b, <2>1, <2>3 DEF Cleaned
  <2> QED
    BY <2>6, <2>7, <2>8
<1>6. CASE Evaluate
  <2>1. Len(content) \in Nat
    BY <1>0, LenProperties DEF TypeOK, Texts
  <2>2. TypeOK'
    BY <1>0, <1>6, <2>1 DEF Evaluate, TypeOK
  <2>3. Cleaned'
    BY <1>0, <1>6, <1>b DEF Evaluate, Cleaned, Booked
  <2> QED
    BY <1>6, <1>a, <2>2, <2>3 DEF Evaluate
<1>7. CASE Audit
  <2>1. TypeOK'
    BY <1>0, <1>7 DEF Audit, TypeOK
  <2>2. Cleaned'
    BY <1>0, <1>7, <1>b DEF Audit, Cleaned
  <2> QED
    BY <1>7, <1>a, <2>1, <2>2 DEF Audit
<1>8. CASE CrashMutate
  <2>1. TypeOK'
    BY <1>0, <1>8 DEF CrashMutate, TypeOK
  <2> QED
    BY <1>8, <1>a, <2>1 DEF CrashMutate, Cleaned
<1>9. CASE UNCHANGED vars
  <2>1. UNCHANGED <<provider, policy, sent, body, content, findings, previews, mutated,
                    counted, by, record, stage>>
    BY <1>9 DEF vars
  <2>2. TypeOK'
    BY <1>0, <2>1 DEF TypeOK
  <2>3. Cleaned'
    BY <1>0, <1>b, <2>1 DEF Cleaned
  <2> QED
    BY <1>a, <2>1, <2>2, <2>3
<1> QED
  BY <1>1, <1>2, <1>3, <1>4, <1>5, <1>6, <1>7, <1>8, <1>9 DEF Next, Done

(* The inductive invariant with the texts in it. *)
THEOREM TextsSafe == Spec => []TextInv
  BY InitTexts, NextTexts, PTL DEF Spec

(* Type correctness: what replacing and flattening compute are texts, and a  *)
(* redacted body is a body.                                                 *)
THEOREM RedactionTypes == Spec => []TypeOK
<1>1. TextInv => TypeOK
  BY DEF TextInv
<1> QED
  BY <1>1, TextsSafe, PTL

(* A field that is scanned holds what was made of one of its parts. *)
LEMMA FieldTextsRedacted ==
  ASSUME NEW field \in Fields, NEW originals, Values(originals),
         NEW t \in FieldTexts(RedactedField(field, originals))
  PROVE  \E u \in Texts : t = ApplyReplacements(u, originals)
<1> DEFINE r == RedactedField(field, originals)
<1>0. field \in [shape: {"string", "list", "other", "absent"}, parts: Seq(Parts)]
  BY DEF Fields
<1>1. CASE field.shape \in {"string", "list"}
  <2>1. r = [field EXCEPT !.parts = RedactedParts(@, originals)]
    BY <1>1 DEF RedactedField
  <2>2. r.shape = field.shape /\ r.parts = RedactedParts(field.parts, originals)
    BY <1>0, <2>1
  <2>3. r.parts \in Seq(Parts) /\ Len(r.parts) = Len(field.parts)
    BY <1>0, <2>2, PartsRedacted
  <2> HIDE DEF r
  <2>4. PartTexts(r.parts) \in Seq(Texts)
    BY <2>3, PartTextsType
  <2>5. t \in ToSet(PartTexts(r.parts))
    BY <1>1, <2>2 DEF FieldTexts, r
  <2>6. PICK k \in 1..Len(PartTexts(r.parts)) : t = PartTexts(r.parts)[k]
    BY <2>4, <2>5, LenProperties DEF ToSet
  <2>7. PICK i \in 1..Len(r.parts) : r.parts[i].kind # "image" /\ t = r.parts[i].text
    BY <2>3, <2>6, PartTextsType
  <2>8. /\ field.parts[i].text \in Texts
        /\ RedactedParts(field.parts, originals)[i].text
              = ApplyReplacements(field.parts[i].text, originals)
    BY <1>0, <2>2, <2>3, <2>7, PartsRedacted
  <2> QED
    BY <2>2, <2>7, <2>8
<1>2. CASE field.shape \notin {"string", "list"}
  BY <1>2 DEF RedactedField, FieldTexts
<1> QED
  BY <1>1, <1>2

LEMMA MessageTextsRedacted ==
  ASSUME NEW m \in Messages, NEW originals, Values(originals),
         RedactedMessage(m, originals).object,
         NEW t \in FieldTexts(RedactedMessage(m, originals).content)
  PROVE  \E u \in Texts : t = ApplyReplacements(u, originals)
<1> DEFINE r == RedactedMessage(m, originals)
<1>1. m \in [object: BOOLEAN, content: Fields] /\ m.content \in Fields
  BY DEF Messages
<1>2. m.object
  BY MessageKeepsSkeleton
<1>3. CASE m.content.shape = "absent"
  <2>1. r = [m EXCEPT !.content.shape = "other"]
    BY <1>2, <1>3 DEF RedactedMessage
  <2>2. r.content = [m.content EXCEPT !.shape = "other"]
    BY <1>1, <2>1
  <2>3. r.content.shape = "other"
    BY <1>1, <2>2 DEF Fields
  <2> QED
    BY <2>3 DEF FieldTexts
<1>4. CASE m.content.shape # "absent"
  <2>1. r = [m EXCEPT !.content = RedactedField(@, originals)]
    BY <1>2, <1>4 DEF RedactedMessage
  <2>2. r.content = RedactedField(m.content, originals)
    BY <1>1, <2>1
  <2> QED
    BY <1>1, <2>2, FieldTextsRedacted
<1> QED
  BY <1>3, <1>4

LEMMA ScannedTextsRedacted ==
  ASSUME Found, Detected # <<>>, body = Redacted(provider, sent, Detected),
         NEW t \in ScannedTexts(body)
  PROVE  \E u \in Texts : t = ApplyReplacements(u, Detected)
<1>0. Values(Detected)
  BY DetectedType
<1>1. PICK n \in Nat : n = Len(sent.messages) /\ \A i \in 1..n : sent.messages[i] \in Messages
  BY LenProperties, ElementOfSeq DEF Found, Body
<1>2. /\ body.system = IF provider = "anthropic" THEN RedactedField(sent.system, Detected)
                       ELSE sent.system
      /\ body.messages = [i \in 1..n |-> RedactedMessage(sent.messages[i], Detected)]
  BY <1>1 DEF Redacted
<1>3. CASE provider = "anthropic" /\ t \in FieldTexts(body.system)
  BY <1>0, <1>2, <1>3, FieldTextsRedacted DEF Found, Body
<1>4. ASSUME NEW m \in ToSet(body.messages), m.object, t \in FieldTexts(m.content)
      PROVE  \E u \in Texts : t = ApplyReplacements(u, Detected)
  <2>1. PICK i \in 1..n : m = RedactedMessage(sent.messages[i], Detected)
    BY <1>2 DEF ToSet
  <2> QED
    BY <1>0, <1>1, <1>4, <2>1, MessageTextsRedacted
<1> QED
  BY <1>3, <1>4 DEF ScannedTexts

LEMMA SubSeqOccurs ==
  ASSUME NEW t \in Texts, NEW w, Value(w), w \in SubSeqs(t)
  PROVE  Occurs(w, t)
<1>1. PICK l \in Nat : l = Len(t)
  BY LenProperties DEF Texts
<1>2. PICK n \in Nat \ {0} : n = Len(w)
  BY EmptySeq DEF Texts, Value
<1>3. PICK i \in 0..l, j \in 0..l : w = SubSeq(t, i + 1, j)
  BY <1>1 DEF SubSeqs
<1>4. /\ Len(w) = IF i + 1 <= j THEN j - (i + 1) + 1 ELSE 0
      /\ \A k \in 1..j - (i + 1) + 1 : w[k] = t[(i + 1) + k - 1]
  <2>1. i + 1 \in Int /\ j \in Int /\ 1 <= i + 1 /\ j <= Len(t)
    BY <1>1, <1>3
  <2> QED
    BY <1>3, <2>1, SubTexts
<1>5. i + 1 <= j /\ n = j - i
  BY <1>2, <1>4
<1>6. (i + 1) + n - 1 <= l /\ i + 1 \in 1..l
  BY <1>5
<1>7. ASSUME NEW k \in 0..n - 1 PROVE t[(i + 1) + k] = w[1 + k]
  <2>1. 1 + k \in 1..j - (i + 1) + 1 /\ (i + 1) + (1 + k) - 1 = (i + 1) + k
    BY <1>5
  <2> QED
    BY <1>4, <2>1
<1> QED
  BY <1>1, <1>2, <1>6, <1>7 DEF Occurs

LEMMA CleanedSuffices == TextInv => NoDetectedValueRemains
<1> SUFFICES ASSUME TextInv, Forwarded,
                    NEW t \in ScannedTexts(body), NEW i \in DOMAIN Detected,
                    Tag \notin ToSet(Detected[i]), Detected[i] \in SubSeqs(t)
             PROVE  FALSE
  BY DEF NoDetectedValueRemains, TextInv
<1>1. Values(Detected)
  BY DetectedType DEF TextInv
<1>2. i \in 1..Len(Detected) /\ Value(Detected[i]) /\ Tagless(Detected[i])
  BY <1>1, LenProperties DEF Values, Tagless
<1>3. Detected # <<>>
  BY <1>2
<1>4. body = Redacted(provider, sent, Detected)
  BY <1>3 DEF TextInv, Cleaned, Forwarded
<1>5. PICK u \in Texts : t = ApplyReplacements(u, Detected)
  BY <1>3, <1>4, ScannedTextsRedacted DEF TextInv
<1>6. t \in Texts
  BY <1>1, <1>5, AppliedType
<1>7. Occurs(Detected[i], t)
  BY <1>2, <1>6, SubSeqOccurs
<1> QED
  BY <1>1, <1>2, <1>5, <1>7, AllAreGone

(* README: redaction replaces every occurrence of a detected value.  For     *)
(* every body, every findings, however they overlap and in whatever order    *)
(* they are replaced, no detected value is left in any scanned field of what *)
(* goes out.                                                                *)
THEOREM NoDetectedValueEverRemains == Spec => []NoDetectedValueRemains
  BY CleanedSuffices, TextsSafe, PTL

-----------------------------------------------------------------------------
(* A value within one line is replaced in each line apart.                   *)

OneLine(w) == NewLine \notin ToSet(w)

LEMMA CutText ==
  ASSUME NEW t \in Texts, NEW l \in Nat, l = Len(t), NEW i \in Int, i >= 1, NEW j \in Int, j <= l,
         NEW d \in Int, d = j - i + 1
  PROVE  /\ SubSeq(t, i, j) \in Texts
         /\ d >= 1 => Len(SubSeq(t, i, j)) = d
         /\ d < 1 => Len(SubSeq(t, i, j)) = 0
         /\ \A k \in 1..d : SubSeq(t, i, j)[k] = t[i + k - 1]
<1> DEFINE u == SubSeq(t, i, j)
<1>1. /\ u \in Texts /\ Len(u) = IF i <= j THEN j - i + 1 ELSE 0
      /\ \A k \in 1..j - i + 1 : u[k] = t[i + k - 1]
  <2>1. i \in Int /\ 1 <= i /\ j <= Len(t)
    OBVIOUS
  <2> HIDE DEF u
  <2> QED
    BY <2>1, SubTexts DEF u
<1> HIDE DEF u
<1>2. (d >= 1 => Len(u) = d) /\ (d < 1 => Len(u) = 0)
  BY <1>1
<1>3. \A k \in 1..d : u[k] = t[i + k - 1]
  BY <1>1
<1> QED
  BY <1>1, <1>2, <1>3 DEF u

(* t is the lines of x and those of y. *)
Lines(t, x, y) == t = x \o <<NewLine>> \o y
Split(t, x, y, a, b) == Lines(t, x, y) /\ a = Len(x) /\ b = Len(y)
SameCut(t, p, q, y, j, k) == SubSeq(t, p, q) = SubSeq(y, j, k)
Long(old, n) == n = Len(old)
Then(s, u, r) == s = u \o r
Broken(r, y) == r = <<NewLine>> \o y

LEMMA TextsAssociate ==
  ASSUME NEW s \in Texts, NEW t \in Texts, NEW u \in Texts
  PROVE  (s \o t) \o u = s \o (t \o u)
  BY ConcatAssociative DEF Texts

(* Two texts and the line break between them: where everything is.           *)
LEMMA SplitText ==
  ASSUME NEW x \in Texts, NEW y \in Texts, NEW a \in Nat, a = Len(x), NEW b \in Nat, b = Len(y)
  PROVE  LET t == x \o <<NewLine>> \o y
         IN  /\ t \in Texts /\ Len(t) = a + 1 + b
             /\ \A i \in 1..a : t[i] = x[i]
             /\ t[a + 1] = NewLine
             /\ \A j \in 1..b : t[a + 1 + j] = y[j]
<1> DEFINE s == x \o <<NewLine>>
           t == s \o y
<1>1. <<NewLine>> \in Texts /\ Len(<<NewLine>>) = 1 /\ <<NewLine>>[1] = NewLine
  BY SymbolTexts
<1>2. /\ s \in Texts /\ Len(s) = a + 1
      /\ \A i \in 1..a + 1 : s[i] = IF i <= a THEN x[i] ELSE <<NewLine>>[i - a]
  BY <1>1, ConcatTexts
<1> HIDE DEF s
<1>3. /\ t \in Texts /\ Len(t) = (a + 1) + b
      /\ \A i \in 1..(a + 1) + b : t[i] = IF i <= a + 1 THEN s[i] ELSE y[i - (a + 1)]
  <2>1. PICK c \in Nat : c = Len(s) /\ c = a + 1
    BY <1>2
  <2>0. /\ s \o y \in Texts
        /\ Len(s \o y) = Len(s) + Len(y)
        /\ \A i \in 1..Len(s) + Len(y) :
               (s \o y)[i] = IF i <= Len(s) THEN s[i] ELSE y[i - Len(s)]
    BY <1>2, ConcatTexts
  <2>2. /\ t \in Texts /\ Len(t) = c + b
        /\ \A i \in 1..c + b : t[i] = IF i <= c THEN s[i] ELSE y[i - c]
    BY <2>0, <2>1
  <2> HIDE DEF t
  <2> QED
    BY <2>1, <2>2
<1> HIDE DEF t
<1>4. ASSUME NEW i \in 1..a PROVE t[i] = x[i]
  <2>1. i \in 1..a + 1 /\ i \in 1..(a + 1) + b /\ i <= a + 1 /\ i <= a
    OBVIOUS
  <2>2. t[i] = s[i] /\ s[i] = x[i]
    BY <1>2, <1>3, <2>1
  <2> QED
    BY <2>2
<1>5. t[a + 1] = NewLine
  <2>1. a + 1 \in 1..a + 1 /\ a + 1 \in 1..(a + 1) + b /\ a + 1 <= a + 1 /\ ~(a + 1 <= a)
        /\ (a + 1) - a = 1
    OBVIOUS
  <2>2. t[a + 1] = s[a + 1] /\ s[a + 1] = <<NewLine>>[(a + 1) - a]
    BY <1>2, <1>3, <2>1
  <2> QED
    BY <1>1, <2>1, <2>2
<1>6. ASSUME NEW j \in 1..b PROVE t[a + 1 + j] = y[j]
  <2>1. a + 1 + j \in 1..(a + 1) + b /\ ~(a + 1 + j <= a + 1) /\ (a + 1 + j) - (a + 1) = j
    OBVIOUS
  <2> QED
    BY <1>3, <2>1
<1> QED
  BY <1>3, <1>4, <1>5, <1>6 DEF s, t

LEMMA SplitRight ==
  ASSUME NEW x \in Texts, NEW y \in Texts, NEW t \in Texts,
         NEW a \in Nat, NEW b \in Nat, Split(t, x, y, a, b),
         NEW j \in Int, j >= 1, NEW k \in Int, k <= b,
         NEW p \in Int, p = a + 1 + j, NEW q \in Int, q = a + 1 + k
  PROVE  SameCut(t, p, q, y, j, k)
<1>1. Len(t) = a + 1 + b /\ \A i \in 1..b : t[a + 1 + i] = y[i]
  BY SplitText, SMTT(30) DEF Split, Lines
<1> DEFINE u == SubSeq(t, p, q)
           v == SubSeq(y, j, k)
<1>2. PICK d \in Int : d = k - j + 1
  OBVIOUS
<1>3. /\ u \in Texts /\ (d >= 1 => Len(u) = d) /\ (d < 1 => Len(u) = 0)
      /\ \A i \in 1..d : u[i] = t[p + i - 1]
  <2>1. PICK from \in Nat \ {0}, to \in Int, l \in Nat :
          from = a + 1 + j /\ to = a + 1 + k /\ l = Len(t)
    BY <1>1
  <2>2. to <= l /\ d = to - from + 1
    BY <1>1, <1>2, <2>1
  <2>3. p >= 1
    OBVIOUS
  <2> QED
    BY <2>1, <2>2, <2>3, CutText
<1>4. /\ v \in Texts /\ (d >= 1 => Len(v) = d) /\ (d < 1 => Len(v) = 0)
      /\ \A i \in 1..d : v[i] = y[j + i - 1]
  <2>1. b = Len(y)
    BY DEF Split
  <2> QED
    BY <1>2, <2>1, CutText
<1> HIDE DEF u, v
<1>5. ASSUME NEW i \in 1..d PROVE u[i] = v[i]
  <2>1. j + i - 1 \in 1..b /\ p + i - 1 = a + 1 + (j + i - 1)
    BY <1>2
  <2>2. u[i] = t[a + 1 + (j + i - 1)]
    BY <1>3, <2>1
  <2> QED
    BY <1>1, <1>4, <2>1, <2>2
<1>6. Len(u) = Len(v) /\ \A i \in 1..Len(u) : u[i] = v[i]
  BY <1>3, <1>4, <1>5
<1> QED
  BY <1>3, <1>4, <1>6, SameText DEF u, v, SameCut

LEMMA SplitLeft ==
  ASSUME NEW x \in Texts, NEW y \in Texts, NEW t \in Texts,
         NEW a \in Nat, NEW b \in Nat, Split(t, x, y, a, b),
         NEW i \in Int, i >= 1, NEW k \in Int, k <= a
  PROVE  SameCut(t, i, k, x, i, k)
<1>1. Len(t) = a + 1 + b /\ \A j \in 1..a : t[j] = x[j]
  BY SplitText, SMTT(30) DEF Split, Lines
<1> DEFINE u == SubSeq(t, i, k)
           v == SubSeq(x, i, k)
<1>2. PICK d \in Int : d = k - i + 1
  OBVIOUS
<1>3. /\ u \in Texts /\ (d >= 1 => Len(u) = d) /\ (d < 1 => Len(u) = 0)
      /\ \A j \in 1..d : u[j] = t[i + j - 1]
  <2>1. PICK l \in Nat : l = Len(t) /\ k <= l
    BY <1>1
  <2> QED
    BY <1>2, <2>1, CutText
<1>4. /\ v \in Texts /\ (d >= 1 => Len(v) = d) /\ (d < 1 => Len(v) = 0)
      /\ \A j \in 1..d : v[j] = x[i + j - 1]
  <2>1. a = Len(x)
    BY DEF Split
  <2> QED
    BY <1>2, <2>1, CutText
<1> HIDE DEF u, v
<1>5. ASSUME NEW j \in 1..d PROVE u[j] = v[j]
  <2>1. i + j - 1 \in 1..a
    BY <1>2
  <2> QED
    BY <1>1, <1>3, <1>4, <2>1
<1>6. Len(u) = Len(v) /\ \A j \in 1..Len(u) : u[j] = v[j]
  BY <1>3, <1>4, <1>5
<1> QED
  BY <1>3, <1>4, <1>6, SameText DEF u, v, SameCut

(* The line break is in no match. *)
LEMMA NoMatchAcross ==
  ASSUME NEW x \in Texts, NEW y \in Texts, NEW t \in Texts,
         NEW a \in Nat, NEW b \in Nat, Split(t, x, y, a, b),
         NEW old, Value(old), OneLine(old), NEW i \in 1..a + 1, i + Len(old) > a + 1
  PROVE  ~Match(t, old, i)
<1> SUFFICES ASSUME Match(t, old, i) PROVE FALSE
  OBVIOUS
<1>1. Len(t) = a + 1 + b /\ t[a + 1] = NewLine
  BY SplitText, SMTT(30) DEF Split, Lines
<1>2. PICK n \in Nat \ {0} : n = Len(old)
  BY EmptySeq DEF Texts, Value
<1>3. i + n <= (a + 1 + b) + 1 /\ SubSeq(t, i, i + n - 1) = old
  BY <1>1, <1>2 DEF Match, Fits
<1>4. PICK k \in 1..n : k = (a + 1) - i + 1
  <2>1. (a + 1) - i + 1 \in 1..n
    BY <1>2
  <2> QED
    BY <2>1
<1>5. \A q \in 1..n : SubSeq(t, i, i + n - 1)[q] = t[i + q - 1]
  <2>1. i \in Int /\ i + n - 1 \in Int /\ 1 <= i /\ i + n - 1 <= Len(t)
        /\ (i + n - 1) - i + 1 = n
    BY <1>1, <1>3
  <2> QED
    BY <2>1, SubTexts
<1>6. i + k - 1 = a + 1
  BY <1>4
<1>7. old[k] = NewLine
  BY <1>1, <1>3, <1>5, <1>6
<1>8. DOMAIN old = 1..n
  BY <1>2, LenProperties DEF Texts, Value
<1> QED
  BY <1>7, <1>8 DEF OneLine, ToSet

(* In either part a value is where it is in the whole. *)
LEMMA MatchRight ==
  ASSUME NEW x \in Texts, NEW y \in Texts, NEW t \in Texts,
         NEW a \in Nat, NEW b \in Nat, Split(t, x, y, a, b),
         NEW old, Value(old), NEW j \in 1..b, NEW p \in Int, p = a + 1 + j
  PROVE  Match(t, old, p) <=> Match(y, old, j)
<1>1. PICK n \in Nat \ {0} : n = Len(old)
  BY EmptySeq DEF Texts, Value
<1>2. Len(t) = a + 1 + b
  BY SplitText, SMTT(30) DEF Split, Lines
<1>3. Fits(t, old, p) <=> j + n <= b + 1
  BY <1>1, <1>2 DEF Fits
<1>4. Fits(y, old, j) <=> j + n <= b + 1
  BY <1>1 DEF Fits, Split
<1>5. ASSUME j + n <= b + 1 PROVE SubSeq(t, p, p + n - 1) = SubSeq(y, j, j + n - 1)
  <2>1. PICK k \in Int : k = j + n - 1
    OBVIOUS
  <2>2. PICK q \in Int : q = p + n - 1
    OBVIOUS
  <2>3. k <= b /\ q = a + 1 + k /\ j >= 1
    BY <1>5, <2>1, <2>2
  <2>4. SameCut(t, p, q, y, j, k)
    BY <2>3, SplitRight
  <2>5. SubSeq(t, p, q) = SubSeq(y, j, k)
    BY <2>4, Zenon DEF SameCut
  <2> QED
    BY <2>1, <2>2, <2>5, Zenon
<1> QED
  BY <1>1, <1>3, <1>4, <1>5 DEF Match

LEMMA MatchLeft ==
  ASSUME NEW x \in Texts, NEW y \in Texts, NEW t \in Texts,
         NEW a \in Nat, NEW b \in Nat, Split(t, x, y, a, b),
         NEW old, Value(old), OneLine(old), NEW i \in 1..a
  PROVE  Match(t, old, i) <=> Match(x, old, i)
<1>1. PICK n \in Nat \ {0} : n = Len(old)
  BY EmptySeq DEF Texts, Value
<1>2. Len(t) = a + 1 + b
  BY SplitText, SMTT(30) DEF Split, Lines
<1>3. CASE i + n > a + 1
  <2>1. ~Match(t, old, i)
    BY <1>1, <1>3, NoMatchAcross
  <2>2. ~Match(x, old, i)
    BY <1>1, <1>3 DEF Match, Fits, Split
  <2> QED
    BY <2>1, <2>2
<1>4. CASE i + n <= a + 1
  <2>1. Fits(t, old, i)
    BY <1>1, <1>2, <1>4 DEF Fits, Split
  <2>2. Fits(x, old, i)
    BY <1>1, <1>4 DEF Fits, Split
  <2>3. PICK k \in Int : k = i + n - 1
    OBVIOUS
  <2>4. k <= a /\ i >= 1
    BY <1>4, <2>3
  <2>5. SameCut(t, i, k, x, i, k)
    BY <2>4, SplitLeft
  <2>6. SubSeq(t, i, k) = SubSeq(x, i, k)
    BY <2>5, Zenon DEF SameCut
  <2>7. SubSeq(t, i, i + n - 1) = SubSeq(x, i, i + n - 1)
    BY <2>3, <2>6, Zenon
  <2> QED
    BY <1>1, <2>1, <2>2, <2>7 DEF Match
<1> QED
  BY <1>3, <1>4

(* Replacing from i on: a match becomes a tag, any other symbol stays, and   *)
(* nothing is made of the end.                                              *)
Goes(t, old, f) ==
    /\ \A i \in 1..Len(t) : Match(t, old, i) => f[i] = <<Tag>> \o f[i + Len(old)]
    /\ \A i \in 1..Len(t) : ~Match(t, old, i) => f[i] = <<t[i]>> \o f[i + 1]
    /\ f[Len(t) + 1] = <<>>

LEMMA ReplacedGoes ==
  ASSUME NEW t \in Texts, NEW old, Value(old)
  PROVE  \E f \in [1..Len(t) + Len(old) -> Texts] :
            Replaced(t, old, <<Tag>>) = f[1] /\ Goes(t, old, f)
<1>1. PICK n \in Nat \ {0} : n = Len(old)
  BY EmptySeq DEF Texts, Value
<1>2. PICK l \in Nat : l = Len(t)
  BY LenProperties DEF Texts
<1>3. PICK f \in [1..l + n -> Texts] :
            /\ Replaced(t, old, <<Tag>>) = f[1]
            /\ \A i \in 1..l + n : f[i] = From(t, old, f, i)
  BY <1>1, <1>2, ReplacedSteps DEF Value
<1>4. ASSUME NEW i \in 1..l + n, i + n > l + 1 PROVE f[i] = SubSeq(t, i, l)
  BY <1>1, <1>2, <1>3, <1>4 DEF From
<1>5. f[l + 1] = <<>>
  <2>1. l + 1 \in 1..l + n /\ (l + 1) + n > l + 1 /\ l < 1 + l
    OBVIOUS
  <2>2. f[l + 1] = SubSeq(t, l + 1, l)
    BY <1>4, <2>1
  <2>3. SubSeq(t, l + 1, l) \in Texts /\ Len(SubSeq(t, l + 1, l)) = 0
    <3>1. PICK d \in Int : d = l - (l + 1) + 1 /\ d < 1
      OBVIOUS
    <3>2. PICK m \in Nat \ {0} : m = l + 1
      OBVIOUS
    <3>3. d = l - m + 1 /\ l <= l
      BY <3>1, <3>2
    <3> QED
      BY <1>2, <3>1, <3>2, <3>3, CutText
  <2> QED
    BY <2>2, <2>3, EmptySeq DEF Texts
<1>6. ASSUME NEW i \in 1..l, Match(t, old, i) PROVE f[i] = <<Tag>> \o f[i + n]
  <2>1. i + n <= l + 1 /\ SubSeq(t, i, i + n - 1) = old
    BY <1>1, <1>2, <1>6 DEF Match, Fits
  <2>2. i \in 1..l + n /\ ~(i + n > l + 1)
    BY <2>1
  <2>3. f[i] = From(t, old, f, i)
    BY <1>3, <2>2
  <2> QED
    BY <1>1, <1>2, <2>1, <2>2, <2>3 DEF From
<1>7. ASSUME NEW i \in 1..l, ~Match(t, old, i) PROVE f[i] = <<t[i]>> \o f[i + 1]
  <2>1. CASE i + n <= l + 1
    <3>1. i \in 1..l + n /\ ~(i + n > l + 1)
      BY <2>1
    <3>2. SubSeq(t, i, i + n - 1) # old
      BY <1>1, <1>2, <1>7, <2>1 DEF Match, Fits
    <3> QED
      BY <1>1, <1>2, <1>3, <3>1, <3>2 DEF From
  <2>2. CASE i + n > l + 1
    <3>1. f[i] = SubSeq(t, i, l)
      BY <1>4, <2>2
    <3>2. PICK k \in 2..l + 1 : k = i + 1
      OBVIOUS
    <3>3. f[k] = SubSeq(t, k, l)
      <4>1. k \in 1..l + n /\ k + n > l + 1
        BY <2>2, <3>2
      <4> QED
        BY <1>4, <4>1
    <3> DEFINE u == SubSeq(t, i, l)
               v == SubSeq(t, k, l)
    <3>4. PICK d \in Nat \ {0} : d = l - i + 1
      OBVIOUS
    <3>5. u \in Texts /\ Len(u) = d /\ \A q \in 1..d : u[q] = t[i + q - 1]
      <4>1. i \in Nat \ {0} /\ l \in Int /\ l <= l /\ d >= 1
        OBVIOUS
      <4> QED
        BY <1>2, <3>4, <4>1, CutText
    <3>6. v \in Texts /\ Len(v) = d - 1 /\ \A q \in 1..d - 1 : v[q] = t[k + q - 1]
      <4>1. PICK e \in Int : e = l - k + 1 /\ e = d - 1
        BY <3>2, <3>4
      <4>2. k \in Nat \ {0} /\ l \in Int /\ l <= l
        OBVIOUS
      <4>3. v \in Texts /\ (e >= 1 => Len(v) = e) /\ (e < 1 => Len(v) = 0)
            /\ \A q \in 1..e : v[q] = t[k + q - 1]
        BY <1>2, <4>1, <4>2, CutText
      <4> HIDE DEF v
      <4> QED
        BY <3>4, <4>1, <4>3
    <3> HIDE DEF u, v
    <3> DEFINE w == <<t[i]>> \o v
    <3>7. w \in Texts /\ Len(w) = d /\ w[1] = t[i] /\ \A q \in 1..d - 1 : w[q + 1] = v[q]
      <4>1. i \in 1..Len(t)
        BY <1>2
      <4>2. t[i] \in Letters \cup {NewLine, Tag} /\ <<t[i]>> \in Texts
        BY <4>1, OneSymbol, ElementOfSeq DEF Texts
      <4>3. w \in Texts
        BY <3>6, <4>2, ConcatTexts
      <4>4. Len(w) = Len(v) + 1 /\ w[1] = t[i] /\ \A q \in 1..Len(v) : w[q + 1] = v[q]
        BY <3>6, <4>2, Prepended
      <4> HIDE DEF w
      <4> QED
        BY <3>6, <4>3, <4>4
    <3>8. ASSUME NEW q \in 1..d PROVE u[q] = w[q]
      <4>1. CASE q = 1
        <5>1. u[1] = t[i + 1 - 1] /\ i + 1 - 1 = i
          BY <3>5
        <5> QED
          BY <3>7, <4>1, <5>1
      <4>2. CASE q # 1
        <5>1. q - 1 \in 1..d - 1 /\ (q - 1) + 1 = q /\ k + (q - 1) - 1 = i + q - 1
          BY <3>2, <4>2
        <5>2. w[(q - 1) + 1] = v[q - 1] /\ v[q - 1] = t[k + (q - 1) - 1]
          BY <3>6, <3>7, <5>1
        <5> QED
          BY <3>5, <5>1, <5>2
      <4> QED
        BY <4>1, <4>2
    <3>9. u = w
      <4>1. Len(u) = Len(w) /\ \A q \in 1..Len(u) : u[q] = w[q]
        BY <3>5, <3>7, <3>8
      <4> HIDE DEF w
      <4> QED
        BY <3>5, <3>7, <4>1, SameText
    <3> QED
      BY <3>1, <3>2, <3>3, <3>9 DEF u, v
  <2> QED
    BY <2>1, <2>2
<1> QED
  BY <1>1, <1>2, <1>3, <1>5, <1>6, <1>7 DEF Goes

Made(t, old, f) == f \in [1..Len(t) + Len(old) -> Texts] /\ Goes(t, old, f)

(* After the line break, what is made of the text is made of its second part. *)
LEMMA RightSplits ==
  ASSUME NEW x \in Texts, NEW y \in Texts, NEW t \in Texts,
         NEW a \in Nat, NEW b \in Nat, Split(t, x, y, a, b),
         NEW old, Value(old), NEW f, Goes(t, old, f), NEW h, Goes(y, old, h)
  PROVE  f[a + 1 + 1] = h[1]
<1>1. PICK n \in Nat \ {0} : n = Len(old)
  BY EmptySeq DEF Texts, Value
<1>2. Len(t) = a + 1 + b /\ \A j \in 1..b : t[a + 1 + j] = y[j]
  BY SplitText, SMTT(30) DEF Split, Lines
<1> DEFINE S == {j \in 1..b + 1 : f[a + 1 + j] = h[j]}
<1>3. ASSUME NEW j \in 1..b + 1, \A k \in j + 1..b + 1 : k \in S PROVE j \in S
  <2>1. CASE j = b + 1
    <3>1. f[Len(t) + 1] = <<>> /\ h[Len(y) + 1] = <<>>
      BY DEF Goes
    <3>2. Len(t) + 1 = a + 1 + j /\ Len(y) + 1 = j
      BY <1>2, <2>1 DEF Split
    <3> QED
      BY <3>1, <3>2
  <2>2. CASE j # b + 1
    <3>1. j \in 1..b /\ j \in 1..Len(y) /\ a + 1 + j \in 1..Len(t) /\ t[a + 1 + j] = y[j]
      BY <1>2, <2>2 DEF Split
    <3>2. Match(t, old, a + 1 + j) <=> Match(y, old, j)
      <4>1. PICK p \in Int : p = a + 1 + j
        OBVIOUS
      <4>2. Match(t, old, p) <=> Match(y, old, j)
        BY <3>1, <4>1, MatchRight
      <4> QED
        BY <4>1, <4>2
    <3>3. CASE Match(y, old, j)
      <4>1. j + n \in j + 1..b + 1
        BY <1>1, <3>1, <3>3 DEF Match, Fits, Split
      <4>2. f[a + 1 + (j + n)] = h[j + n]
        BY <1>3, <4>1
      <4>3. f[a + 1 + j] = <<Tag>> \o f[(a + 1 + j) + n]
        BY <1>1, <3>1, <3>2, <3>3 DEF Goes
      <4>4. h[j] = <<Tag>> \o h[j + n]
        BY <1>1, <3>1, <3>3 DEF Goes
      <4>5. (a + 1 + j) + n = a + 1 + (j + n)
        OBVIOUS
      <4> QED
        BY <4>2, <4>3, <4>4, <4>5
    <3>4. CASE ~Match(y, old, j)
      <4>1. j + 1 \in j + 1..b + 1
        BY <3>1
      <4>2. f[a + 1 + (j + 1)] = h[j + 1]
        BY <1>3, <4>1
      <4>3. f[a + 1 + j] = <<t[a + 1 + j]>> \o f[(a + 1 + j) + 1]
        BY <3>1, <3>2, <3>4 DEF Goes
      <4>4. h[j] = <<y[j]>> \o h[j + 1]
        BY <3>1, <3>4 DEF Goes
      <4>5. (a + 1 + j) + 1 = a + 1 + (j + 1)
        OBVIOUS
      <4> QED
        BY <3>1, <4>2, <4>3, <4>4, <4>5
    <3> QED
      BY <3>3, <3>4
  <2> QED
    BY <2>1, <2>2
<1> HIDE DEF S
<1>4. PICK m \in Nat : m = b + 1 /\ 1 \in 1..m
  OBVIOUS
<1>5. \A j \in 1..m : (\A k \in j + 1..m : k \in S) => j \in S
  BY <1>3, <1>4
<1>6. \A j \in 1..m : j \in S
  BY <1>5, DownFrom
<1>7. 1 \in S
  BY <1>4, <1>6
<1> QED
  BY <1>7 DEF S

(* Up to the line break, it is what is made of the first part, and then the  *)
(* line break and what is made of the second.                               *)
LEMMA LeftSplits ==
  ASSUME NEW x \in Texts, NEW y \in Texts, NEW t \in Texts,
         NEW a \in Nat, NEW b \in Nat, Split(t, x, y, a, b), NEW n \in Nat \ {0},
         NEW old, Value(old), OneLine(old), Long(old, n),
         NEW f, Goes(t, old, f), NEW g, Made(x, old, g),
         NEW r \in Texts, Broken(r, f[a + 1 + 1])
  PROVE  Then(f[1], g[1], r)
<1>1. g \in [1..a + n -> Texts] /\ Goes(x, old, g)
  BY DEF Made, Split, Long
<1>2. Len(t) = a + 1 + b /\ t[a + 1] = NewLine /\ \A i \in 1..a : t[i] = x[i]
  BY SplitText, SMTT(30) DEF Split, Lines
<1> DEFINE S == {i \in 1..a + 1 : f[i] = g[i] \o r}
<1>3. ASSUME NEW i \in 1..a + 1, \A k \in i + 1..a + 1 : k \in S PROVE i \in S
  <2>1. CASE i = a + 1
    <3>1. ~Match(t, old, a + 1)
      <4>1. PICK c \in 1..a + 1 : c = a + 1 /\ c + n > a + 1
        OBVIOUS
      <4> QED
        BY <4>1, NoMatchAcross DEF Long
    <3>2. a + 1 \in 1..Len(t)
      BY <1>2
    <3>3. f[a + 1] = <<t[a + 1]>> \o f[(a + 1) + 1]
      BY <3>1, <3>2 DEF Goes
    <3>4. f[a + 1] = r
      BY <1>2, <3>3 DEF Broken
    <3>5. g[a + 1] = <<>>
      BY <1>1 DEF Goes, Split
    <3>6. <<>> \o r = r
      BY ConcatEmptySeq DEF Texts
    <3> QED
      BY <2>1, <3>4, <3>5, <3>6
  <2>2. CASE i # a + 1
    <3>1. i \in 1..a /\ i \in 1..Len(x) /\ i \in 1..Len(t) /\ t[i] = x[i]
      BY <1>2, <2>2 DEF Split
    <3>2. Match(t, old, i) <=> Match(x, old, i)
      BY <3>1, MatchLeft
    <3>3. CASE Match(x, old, i)
      <4>1. i + n \in i + 1..a + 1 /\ i + n \in 1..a + n
        BY <3>1, <3>3 DEF Match, Fits, Split, Long
      <4>2. f[i + n] = g[i + n] \o r /\ g[i + n] \in Texts
        BY <1>1, <1>3, <4>1
      <4>3. f[i] = <<Tag>> \o f[i + n]
        BY <3>1, <3>2, <3>3 DEF Goes, Long
      <4>4. g[i] = <<Tag>> \o g[i + n]
        BY <1>1, <3>1, <3>3 DEF Goes, Long
      <4>5. (<<Tag>> \o g[i + n]) \o r = <<Tag>> \o (g[i + n] \o r)
        <5>1. \A s, u, v \in Texts : (u \o s) \o v = u \o (s \o v)
          BY TextsAssociate, Zenon
        <5> QED
          BY <4>2, <5>1, SymbolTexts, ZenonT(30)
      <4> QED
        BY <4>2, <4>3, <4>4, <4>5
    <3>4. CASE ~Match(x, old, i)
      <4>1. i + 1 \in i + 1..a + 1 /\ i + 1 \in 1..a + n
        BY <3>1
      <4>2. f[i + 1] = g[i + 1] \o r /\ g[i + 1] \in Texts
        BY <1>1, <1>3, <4>1
      <4>3. f[i] = <<t[i]>> \o f[i + 1]
        BY <3>1, <3>2, <3>4 DEF Goes
      <4>4. g[i] = <<x[i]>> \o g[i + 1]
        BY <1>1, <3>1, <3>4 DEF Goes
      <4>5. <<x[i]>> \in Texts
        BY <3>1, OneSymbol
      <4>6. (<<x[i]>> \o g[i + 1]) \o r = <<x[i]>> \o (g[i + 1] \o r)
        BY <4>2, <4>5, TextsAssociate
      <4> QED
        BY <3>1, <4>2, <4>3, <4>4, <4>6
    <3> QED
      BY <3>3, <3>4
  <2> QED
    BY <2>1, <2>2
<1> HIDE DEF S
<1>4. PICK m \in Nat : m = a + 1 /\ 1 \in 1..m
  OBVIOUS
<1>5. \A i \in 1..m : (\A k \in i + 1..m : k \in S) => i \in S
  BY <1>3, <1>4
<1>6. \A i \in 1..m : i \in S
  BY <1>5, DownFrom
<1>7. 1 \in S
  BY <1>4, <1>6
<1> QED
  BY <1>7 DEF S, Then

(* A value within one line is replaced in each line apart. *)
LEMMA ReplacedSplits ==
  ASSUME NEW x \in Texts, NEW y \in Texts, NEW t \in Texts, Lines(t, x, y),
         NEW old, Value(old), OneLine(old)
  PROVE  Lines(Replaced(t, old, <<Tag>>), Replaced(x, old, <<Tag>>), Replaced(y, old, <<Tag>>))
<1>1. PICK n \in Nat \ {0} : n = Len(old)
  BY EmptySeq DEF Texts, Value
<1>2. PICK a \in Nat, b \in Nat : a = Len(x) /\ b = Len(y) /\ Split(t, x, y, a, b)
  BY LenProperties DEF Texts, Split
<1>3. PICK f : Replaced(t, old, <<Tag>>) = f[1] /\ Goes(t, old, f)
  BY ReplacedGoes
<1>4. PICK g \in [1..a + n -> Texts] : Replaced(x, old, <<Tag>>) = g[1] /\ Goes(x, old, g)
  BY <1>1, <1>2, ReplacedGoes
<1>5. PICK h \in [1..b + n -> Texts] : Replaced(y, old, <<Tag>>) = h[1] /\ Goes(y, old, h)
  BY <1>1, <1>2, ReplacedGoes
<1>6. g[1] \in Texts /\ h[1] \in Texts
  OBVIOUS
<1>7. PICK r \in Texts : Broken(r, h[1])
  BY <1>6, SymbolTexts, ConcatTexts DEF Broken
<1>8. f[a + 1 + 1] = h[1]
  BY <1>2, <1>3, <1>5, RightSplits
<1>9. Then(f[1], g[1], r)
  <2>1. Broken(r, f[a + 1 + 1])
    BY <1>7, <1>8, Zenon
  <2>2. Long(old, n) /\ Made(x, old, g)
    BY <1>1, <1>2, <1>4 DEF Long, Made
  <2>3. Split(t, x, y, a, b) /\ Goes(t, old, f)
    BY <1>2, <1>3
  <2> QED
    BY <2>1, <2>2, <2>3, LeftSplits
<1>10. (g[1] \o <<NewLine>>) \o h[1] = g[1] \o (<<NewLine>> \o h[1])
  <2>1. \A s, u, v \in Texts : (u \o s) \o v = u \o (s \o v)
    BY TextsAssociate, Zenon
  <2> QED
    BY <1>6, <2>1, SymbolTexts, ZenonT(30)
<1> QED
  BY <1>3, <1>4, <1>5, <1>7, <1>9, <1>10 DEF Lines, Broken, Then


LEMMA ReplacedEmpty ==
  ASSUME NEW t \in Texts, NEW old, Value(old)
  PROVE  Replaced(t, old, <<Tag>>) = <<>> <=> t = <<>>
<1>0. PICK n \in Nat \ {0} : n = Len(old)
  BY EmptySeq DEF Texts, Value
<1>1. PICK l \in Nat : l = Len(t)
  BY LenProperties DEF Texts
<1>2. PICK f \in [1..l + n -> Texts] : Replaced(t, old, <<Tag>>) = f[1] /\ Goes(t, old, f)
  BY <1>0, <1>1, ReplacedGoes
<1>3. CASE l = 0
  <2>1. t = <<>>
    BY <1>1, <1>3, EmptySeq DEF Texts
  <2>2. f[1] = <<>>
    BY <1>1, <1>2, <1>3 DEF Goes
  <2> QED
    BY <1>2, <2>1, <2>2
<1>4. CASE l # 0
  <2>1. t # <<>>
    BY <1>1, <1>4
  <2>2. 1 \in 1..Len(t) /\ 1 \in 1..l /\ 1 + n \in 1..l + n /\ 1 + 1 \in 1..l + n
    BY <1>1, <1>4
  <2>3. PICK s \in Texts, r \in Texts : Then(f[1], s, r) /\ Len(s) = 1
    <3>1. CASE Match(t, old, 1)
      <4>1. f[1] = <<Tag>> \o f[1 + n] /\ f[1 + n] \in Texts
        BY <1>0, <1>2, <2>2, <3>1 DEF Goes
      <4>2. <<Tag>> \in Texts /\ Len(<<Tag>>) = 1
        BY SymbolTexts
      <4>3. Then(f[1], <<Tag>>, f[1 + n])
        BY <4>1, Zenon DEF Then
      <4> QED
        BY <4>1, <4>2, <4>3
    <3>2. CASE ~Match(t, old, 1)
      <4>1. f[1] = <<t[1]>> \o f[1 + 1] /\ f[1 + 1] \in Texts
        BY <1>2, <2>2, <3>2 DEF Goes
      <4>2. <<t[1]>> \in Texts /\ Len(<<t[1]>>) = 1
        BY <2>2, OneSymbol
      <4>3. Then(f[1], <<t[1]>>, f[1 + 1])
        BY <4>1, Zenon DEF Then
      <4> QED
        BY <4>1, <4>2, <4>3
    <3> QED
      BY <3>1, <3>2
  <2>4. Len(s \o r) = Len(s) + Len(r) /\ Len(r) \in Nat
    BY ConcatTexts
  <2>5. Len(f[1]) # 0
    BY <2>3, <2>4 DEF Then
  <2> QED
    BY <1>2, <2>1, <2>5
<1> QED
  BY <1>3, <1>4

OneLined(originals) == \A k \in 1..Len(originals) : OneLine(originals[k])

(* Each line of a text is redacted apart. *)
LEMMA AppliedSplits ==
  ASSUME NEW x \in Texts, NEW y \in Texts, NEW t \in Texts, Lines(t, x, y),
         NEW originals, Values(originals), OneLined(originals)
  PROVE  Lines(ApplyReplacements(t, originals), ApplyReplacements(x, originals),
               ApplyReplacements(y, originals))
<1>1. PICK n \in Nat : n = Len(originals) /\ \A i \in 1..n : Value(originals[i]) /\ OneLine(originals[i])
  BY LenProperties DEF Values, OneLined
<1>2. PICK f \in [0..n -> Texts] :
            /\ f[0] = t /\ ApplyReplacements(t, originals) = f[n]
            /\ \A i \in 1..n : f[i] = Replaced(f[i - 1], originals[i], <<Tag>>)
  <2>1. PICK k : Applies(k, t, originals)
    BY AppliedSteps
  <2> QED
    BY <1>1, <2>1 DEF Applies
<1>3. PICK g \in [0..n -> Texts] :
            /\ g[0] = x /\ ApplyReplacements(x, originals) = g[n]
            /\ \A i \in 1..n : g[i] = Replaced(g[i - 1], originals[i], <<Tag>>)
  <2>1. PICK k : Applies(k, x, originals)
    BY AppliedSteps
  <2> QED
    BY <1>1, <2>1 DEF Applies
<1>4. PICK h \in [0..n -> Texts] :
            /\ h[0] = y /\ ApplyReplacements(y, originals) = h[n]
            /\ \A i \in 1..n : h[i] = Replaced(h[i - 1], originals[i], <<Tag>>)
  <2>1. PICK k : Applies(k, y, originals)
    BY AppliedSteps
  <2> QED
    BY <1>1, <2>1 DEF Applies
<1> DEFINE S == {i \in Nat : Lines(f[i], g[i], h[i])}
<1>5. 0 \in S
  BY <1>2, <1>3, <1>4
<1>6. ASSUME NEW i \in 1..n, i - 1 \in S PROVE i \in S
  <2>1. f[i - 1] \in Texts /\ g[i - 1] \in Texts /\ h[i - 1] \in Texts
    OBVIOUS
  <2>2. Lines(f[i - 1], g[i - 1], h[i - 1]) /\ Value(originals[i]) /\ OneLine(originals[i])
    BY <1>1, <1>6
  <2>3. Lines(Replaced(f[i - 1], originals[i], <<Tag>>), Replaced(g[i - 1], originals[i], <<Tag>>),
              Replaced(h[i - 1], originals[i], <<Tag>>))
    BY <2>1, <2>2, ReplacedSplits
  <2> QED
    BY <1>2, <1>3, <1>4, <2>3
<1> HIDE DEF S
<1>7. \A i \in 0..n : i \in S
  BY <1>5, <1>6, UpTo
<1>8. n \in S
  BY <1>7
<1>9. Lines(f[n], g[n], h[n])
  BY <1>8 DEF S
<1> QED
  BY <1>2, <1>3, <1>4, <1>9

LEMMA AppliedEmpty ==
  ASSUME NEW t \in Texts, NEW originals, Values(originals)
  PROVE  ApplyReplacements(t, originals) = <<>> <=> t = <<>>
<1>0. PICK n \in Nat : n = Len(originals)
  BY LenProperties DEF Values
<1>1. \A i \in 1..n : Value(originals[i])
  BY <1>0 DEF Values
<1>2. PICK f \in [0..n -> Texts] :
            /\ f[0] = t /\ ApplyReplacements(t, originals) = f[n]
            /\ \A i \in 1..n : f[i] = Replaced(f[i - 1], originals[i], <<Tag>>)
  <2>1. PICK k : Applies(k, t, originals)
    BY AppliedSteps
  <2> QED
    BY <1>0, <2>1 DEF Applies
<1> DEFINE S == {i \in Nat : f[i] = <<>> <=> t = <<>>}
<1>3. 0 \in S
  BY <1>2
<1>4. ASSUME NEW i \in 1..n, i - 1 \in S PROVE i \in S
  <2>1. f[i - 1] \in Texts /\ Value(originals[i]) /\ f[i] = Replaced(f[i - 1], originals[i], <<Tag>>)
    BY <1>1, <1>2
  <2>2. f[i] = <<>> <=> f[i - 1] = <<>>
    BY <2>1, ReplacedEmpty
  <2>3. f[i - 1] = <<>> <=> t = <<>>
    BY <1>4
  <2>4. f[i] = <<>> <=> t = <<>>
    BY <2>2, <2>3, Zenon
  <2> QED
    BY <2>4
<1> HIDE DEF S
<1>5. \A i \in 0..n : i \in S
  BY <1>3, <1>4, UpTo
<1>6. n \in S
  BY <1>5
<1>7. f[n] = <<>> <=> t = <<>>
  BY <1>6 DEF S
<1> QED
  BY <1>2, <1>7, Zenon

(* The texts, each redacted. *)
EachRedacted(texts, originals) == [i \in 1..Len(texts) |-> ApplyReplacements(texts[i], originals)]

LEMMA EachRedactedType ==
  ASSUME NEW texts \in Seq(Texts), NEW originals, Values(originals)
  PROVE  /\ EachRedacted(texts, originals) \in Seq(Texts)
         /\ Len(EachRedacted(texts, originals)) = Len(texts) /\ Len(texts) \in Nat
         /\ \A i \in 1..Len(texts) :
              EachRedacted(texts, originals)[i] = ApplyReplacements(texts[i], originals)
<1>1. PICK n \in Nat : n = Len(texts) /\ \A i \in 1..n : texts[i] \in Texts
  BY LenProperties, ElementOfSeq
<1>2. \A i \in 1..n : ApplyReplacements(texts[i], originals) \in Texts
  BY <1>1, AppliedType
<1>3. EachRedacted(texts, originals) = [i \in 1..n |-> ApplyReplacements(texts[i], originals)]
  BY <1>1 DEF EachRedacted
<1> QED
  BY <1>1, <1>2, <1>3

(* Redacting the texts and joining them is redacting what they join to. *)
LEMMA AppliedJoined ==
  ASSUME NEW texts \in Seq(Texts), NEW originals, Values(originals), OneLined(originals)
  PROVE  Joined(EachRedacted(texts, originals)) = ApplyReplacements(Joined(texts), originals)
<1> DEFINE image == EachRedacted(texts, originals)
<1>1. PICK n \in Nat : n = Len(texts) /\ \A i \in 1..n : texts[i] \in Texts
  BY LenProperties, ElementOfSeq
<1>2. /\ image \in Seq(Texts) /\ Len(image) = n
      /\ \A i \in 1..n : image[i] = ApplyReplacements(texts[i], originals)
  BY <1>1, EachRedactedType
<1> HIDE DEF image
<1>3. PICK f \in [0..n -> Texts] :
            /\ Joined(texts) = f[n]
            /\ \A i \in 0..n : f[i] = JoinedUpTo(texts, f, i)
  BY <1>1, JoinedSteps
<1>4. PICK g \in [0..n -> Texts] :
            /\ Joined(image) = g[n]
            /\ \A i \in 0..n : g[i] = JoinedUpTo(image, g, i)
  BY <1>2, JoinedSteps
<1> DEFINE S == {i \in Nat : g[i] = ApplyReplacements(f[i], originals)}
<1>5. 0 \in S
  <2>1. f[0] = <<>> /\ g[0] = <<>>
    BY <1>3, <1>4 DEF JoinedUpTo
  <2>2. ApplyReplacements(<<>>, originals) = <<>>
    BY AppliedEmpty, SymbolTexts
  <2> QED
    BY <2>1, <2>2
<1>6. ASSUME NEW i \in 1..n, i - 1 \in S PROVE i \in S
  <2>0. f[i] = JoinedUpTo(texts, f, i) /\ g[i] = JoinedUpTo(image, g, i) /\ i # 0
    BY <1>3, <1>4
  <2>1. CASE i = 1
    <3>1. f[i] = texts[i] /\ g[i] = image[i]
      BY <2>0, <2>1 DEF JoinedUpTo
    <3>2. g[i] = ApplyReplacements(f[i], originals)
      BY <1>2, <3>1
    <3> QED
      BY <3>2
  <2>2. CASE i # 1
    <3>1. Lines(f[i], f[i - 1], texts[i]) /\ Lines(g[i], g[i - 1], image[i])
      BY <2>0, <2>2 DEF JoinedUpTo, Lines
    <3>2. f[i] \in Texts /\ f[i - 1] \in Texts /\ texts[i] \in Texts
      BY <1>1
    <3>3. Lines(ApplyReplacements(f[i], originals), ApplyReplacements(f[i - 1], originals),
                ApplyReplacements(texts[i], originals))
      BY <3>1, <3>2, AppliedSplits
    <3>4. g[i - 1] = ApplyReplacements(f[i - 1], originals)
      BY <1>6
    <3>5. image[i] = ApplyReplacements(texts[i], originals)
      BY <1>2
    <3>6. Lines(ApplyReplacements(f[i], originals), g[i - 1], image[i])
      BY <3>3, <3>4, <3>5, Zenon
    <3>7. g[i] = ApplyReplacements(f[i], originals)
      BY <3>1, <3>6, Zenon DEF Lines
    <3> QED
      BY <3>7
  <2> QED
    BY <2>1, <2>2
<1> HIDE DEF S
<1>7. \A i \in 0..n : i \in S
  BY <1>5, <1>6, UpTo
<1>8. n \in S
  BY <1>7
<1>9. g[n] = ApplyReplacements(f[n], originals)
  BY <1>8 DEF S
<1> QED
  BY <1>3, <1>4, <1>9, Zenon DEF image


LEMMA SameTexts ==
  ASSUME NEW s \in Seq(Texts), NEW t \in Seq(Texts), NEW n \in Nat, n = Len(s), n = Len(t),
         \A i \in 1..n : s[i] = t[i]
  PROVE  s = t
  BY SeqEqual

(* Redaction and flattening commute: for the parts of a content field ...    *)
LEMMA PartTextsCommute ==
  ASSUME NEW parts \in Seq(Parts), NEW originals, Values(originals)
  PROVE  PartTexts(RedactedParts(parts, originals)) = EachRedacted(PartTexts(parts), originals)
<1> DEFINE red == RedactedParts(parts, originals)
           change == [p \in Parts |-> [p EXCEPT !.text = ApplyReplacements(@, originals)]]
<1>1. PICK n \in Nat : n = Len(parts) /\ \A i \in 1..n : parts[i] \in Parts
  BY LenProperties, ElementOfSeq
<1>2. PICK at \in SUBSET (1..n) : at = {i \in 1..n : parts[i].kind # "image"}
  OBVIOUS
<1>3. /\ red \in Seq(Parts) /\ Len(red) = n
      /\ \A i \in 1..n : red[i].kind = parts[i].kind
  BY <1>1, PartsRedacted
<1>4. ASSUME NEW i \in at PROVE red[i] = change[parts[i]]
  <2>1. i \in 1..n /\ parts[i].kind # "image" /\ parts[i] \in Parts
    BY <1>1, <1>2
  <2> QED
    BY <1>1, <2>1 DEF RedactedParts
<1>5. \A p \in Parts : change[p].text = ApplyReplacements(p.text, originals)
  BY DEF Parts
<1> HIDE DEF red, change
<1>6. /\ PartTexts(parts) = [k \in 1..Len(Chosen(parts, at)) |-> Chosen(parts, at)[k].text]
      /\ PartTexts(red) = [k \in 1..Len(Chosen(red, at)) |-> Chosen(red, at)[k].text]
  <2>1. at = {i \in 1..Len(parts) : parts[i].kind # "image"}
    BY <1>1, <1>2
  <2>2. at = {i \in 1..Len(red) : red[i].kind # "image"}
    BY <1>2, <1>3
  <2>3. PartTexts(parts) = [k \in 1..Len(Chosen(parts, at)) |-> Chosen(parts, at)[k].text]
    BY <2>1, Zenon DEF PartTexts
  <2>4. PartTexts(red) = [k \in 1..Len(Chosen(red, at)) |-> Chosen(red, at)[k].text]
    BY <2>2, Zenon DEF PartTexts
  <2> QED
    BY <2>3, <2>4
<1>7. Chosen(parts, at) \in Seq(Parts)
  BY <1>1, ChosenType
<1>8. PICK c \in Nat : /\ c = Len(Chosen(parts, at)) /\ c = Len(Chosen(red, at))
                       /\ \A k \in 1..c : Chosen(red, at)[k] = change[Chosen(parts, at)[k]]
  <2>1. ImageOf(Chosen(parts, at), Chosen(red, at), change)
    BY <1>4, ChosenOfImage
  <2> QED
    BY <2>1 DEF ImageOf
<1>9. \A k \in 1..c : Chosen(parts, at)[k] \in Parts
  BY <1>7, <1>8, ElementOfSeq
<1>10. PartTexts(parts) \in Seq(Texts) /\ PartTexts(red) \in Seq(Texts)
  BY <1>3, PartTextsType
<1>11. Len(PartTexts(parts)) = c /\ Len(PartTexts(red)) = c
  BY <1>6, <1>8
<1>12. ASSUME NEW k \in 1..c
       PROVE  PartTexts(red)[k] = EachRedacted(PartTexts(parts), originals)[k]
  <2>1. PartTexts(parts)[k] = Chosen(parts, at)[k].text /\ PartTexts(red)[k] = Chosen(red, at)[k].text
    BY <1>6, <1>8
  <2>2. PartTexts(red)[k] = ApplyReplacements(PartTexts(parts)[k], originals)
    BY <1>5, <1>8, <1>9, <2>1
  <2>3. EachRedacted(PartTexts(parts), originals)[k] = ApplyReplacements(PartTexts(parts)[k], originals)
    BY <1>10, <1>11, EachRedactedType
  <2> QED
    BY <2>2, <2>3
<1>13. /\ EachRedacted(PartTexts(parts), originals) \in Seq(Texts)
       /\ Len(EachRedacted(PartTexts(parts), originals)) = c
  BY <1>10, <1>11, EachRedactedType
<1> QED
  BY <1>10, <1>11, <1>12, <1>13, SameTexts DEF red

(* ... for a content field ... *)
LEMMA CoercedCommutes ==
  ASSUME NEW field \in Fields, NEW originals, Values(originals), OneLined(originals)
  PROVE  Coerced(RedactedField(field, originals)) = ApplyReplacements(Coerced(field), originals)
<1> DEFINE r == RedactedField(field, originals)
<1>0. field \in [shape: {"string", "list", "other", "absent"}, parts: Seq(Parts)]
  BY DEF Fields
<1>1. CASE field.shape \in {"string", "list"}
  <2>1. r = [field EXCEPT !.parts = RedactedParts(@, originals)]
    BY <1>1 DEF RedactedField
  <2>2. r.shape = field.shape /\ r.parts = RedactedParts(field.parts, originals)
    BY <1>0, <2>1
  <2> HIDE DEF r
  <2>3. CASE field.shape = "string"
    <3>1. 1 \in 1..Len(field.parts) /\ field.parts[1].kind = "bare"
      BY <2>3, FieldShape
    <3>2. /\ field.parts[1].text \in Texts
          /\ r.parts[1].kind # "image" => r.parts[1].text = ApplyReplacements(field.parts[1].text, originals)
          /\ r.parts[1].kind = field.parts[1].kind
      BY <1>0, <2>2, <3>1, PartsRedacted
    <3>3. r.parts[1].text = ApplyReplacements(field.parts[1].text, originals)
      BY <3>1, <3>2
    <3>4. Coerced(r) = r.parts[1].text /\ Coerced(field) = field.parts[1].text
      BY <2>2, <2>3 DEF Coerced
    <3> QED
      BY <3>3, <3>4, Zenon DEF r
  <2>4. CASE field.shape = "list"
    <3>1. Coerced(r) = Joined(PartTexts(r.parts)) /\ Coerced(field) = Joined(PartTexts(field.parts))
      BY <2>2, <2>4 DEF Coerced
    <3>2. PartTexts(r.parts) = EachRedacted(PartTexts(field.parts), originals)
      BY <1>0, <2>2, PartTextsCommute
    <3>3. PartTexts(field.parts) \in Seq(Texts)
      BY <1>0, PartTextsType
    <3>4. Joined(EachRedacted(PartTexts(field.parts), originals))
            = ApplyReplacements(Joined(PartTexts(field.parts)), originals)
      BY <3>3, AppliedJoined
    <3> QED
      BY <3>1, <3>2, <3>4, Zenon DEF r
  <2> QED
    BY <1>1, <2>3, <2>4 DEF r
<1>2. CASE field.shape \notin {"string", "list"}
  <2>1. r = field
    BY <1>2 DEF RedactedField
  <2>2. Coerced(field) = <<>>
    BY <1>2 DEF Coerced
  <2>3. ApplyReplacements(<<>>, originals) = <<>>
    BY AppliedEmpty, SymbolTexts
  <2> QED
    BY <2>1, <2>2, <2>3
<1> QED
  BY <1>1, <1>2

(* ... for a message ... *)
LEMMA MessageCommutes ==
  ASSUME NEW m \in Messages, NEW originals, Values(originals), OneLined(originals), m.object
  PROVE  Coerced(RedactedMessage(m, originals).content)
            = ApplyReplacements(Coerced(m.content), originals)
<1> DEFINE r == RedactedMessage(m, originals)
<1>1. m \in [object: BOOLEAN, content: Fields] /\ m.content \in Fields
  BY DEF Messages
<1>3. CASE m.content.shape = "absent"
  <2>1. r = [m EXCEPT !.content.shape = "other"]
    BY <1>3 DEF RedactedMessage
  <2>2. r.content = [m.content EXCEPT !.shape = "other"]
    BY <1>1, <2>1
  <2>3. r.content.shape = "other"
    BY <1>1, <2>2 DEF Fields
  <2>4. Coerced(r.content) = <<>> /\ Coerced(m.content) = <<>>
    BY <1>3, <2>3 DEF Coerced
  <2>5. ApplyReplacements(<<>>, originals) = <<>>
    BY AppliedEmpty, SymbolTexts
  <2> QED
    BY <2>4, <2>5
<1>4. CASE m.content.shape # "absent"
  <2>1. r = [m EXCEPT !.content = RedactedField(@, originals)]
    BY <1>4 DEF RedactedMessage
  <2>2. r.content = RedactedField(m.content, originals)
    BY <1>1, <2>1
  <2> QED
    BY <1>1, <2>2, CoercedCommutes
<1> QED
  BY <1>3, <1>4

(* ... for the texts that are not empty ... *)
LEMMA NonEmptyCommutes ==
  ASSUME NEW texts \in Seq(Texts), NEW originals, Values(originals)
  PROVE  NonEmpty(EachRedacted(texts, originals)) = EachRedacted(NonEmpty(texts), originals)
<1> DEFINE red == EachRedacted(texts, originals)
           change == [u \in Texts |-> ApplyReplacements(u, originals)]
<1>1. PICK n \in Nat : n = Len(texts) /\ \A i \in 1..n : texts[i] \in Texts
  BY LenProperties, ElementOfSeq
<1>2. /\ red \in Seq(Texts) /\ Len(red) = n
      /\ \A i \in 1..n : red[i] = ApplyReplacements(texts[i], originals)
  BY <1>1, EachRedactedType
<1> HIDE DEF red
<1>3. PICK at \in SUBSET (1..n) : at = {i \in 1..n : texts[i] # <<>>}
  OBVIOUS
<1>4. at = {i \in 1..n : red[i] # <<>>}
  <2>1. ASSUME NEW i \in 1..n PROVE red[i] # <<>> <=> texts[i] # <<>>
    <3>1. ApplyReplacements(texts[i], originals) = <<>> <=> texts[i] = <<>>
      BY <1>1, AppliedEmpty
    <3> QED
      BY <1>2, <3>1
  <2> QED
    BY <1>3, <2>1
<1>5. \A i \in at : red[i] = change[texts[i]]
  BY <1>1, <1>2
<1>6. \A u \in Texts : change[u] = ApplyReplacements(u, originals)
  OBVIOUS
<1> HIDE DEF change
<1>7. NonEmpty(texts) = Chosen(texts, at) /\ NonEmpty(red) = Chosen(red, at)
  <2>1. at = {i \in 1..Len(texts) : texts[i] # <<>>} /\ at = {i \in 1..Len(red) : red[i] # <<>>}
    BY <1>1, <1>2, <1>3, <1>4
  <2> QED
    BY <2>1, Zenon DEF NonEmpty
<1>8. PICK c \in Nat : /\ c = Len(Chosen(texts, at)) /\ c = Len(Chosen(red, at))
                       /\ \A k \in 1..c : Chosen(red, at)[k] = change[Chosen(texts, at)[k]]
  <2>1. ImageOf(Chosen(texts, at), Chosen(red, at), change)
    BY <1>5, ChosenOfImage
  <2> QED
    BY <2>1 DEF ImageOf
<1>9. Chosen(texts, at) \in Seq(Texts) /\ Chosen(red, at) \in Seq(Texts)
  BY <1>1, <1>2, ChosenType
<1>10. \A k \in 1..c : Chosen(texts, at)[k] \in Texts
  BY <1>8, <1>9, ElementOfSeq
<1>11. /\ EachRedacted(Chosen(texts, at), originals) \in Seq(Texts)
       /\ Len(EachRedacted(Chosen(texts, at), originals)) = c
       /\ \A k \in 1..c : EachRedacted(Chosen(texts, at), originals)[k]
                             = ApplyReplacements(Chosen(texts, at)[k], originals)
  <2>1. PICK chosen \in Seq(Texts) : chosen = Chosen(texts, at)
    BY <1>9
  <2>2. c = Len(chosen)
    BY <1>8, <2>1
  <2>3. /\ EachRedacted(chosen, originals) \in Seq(Texts)
        /\ Len(EachRedacted(chosen, originals)) = c
        /\ \A k \in 1..c : EachRedacted(chosen, originals)[k] = ApplyReplacements(chosen[k], originals)
    BY <2>2, EachRedactedType
  <2> QED
    BY <2>1, <2>3, Zenon
<1>12. \A k \in 1..c : Chosen(red, at)[k] = EachRedacted(Chosen(texts, at), originals)[k]
  BY <1>6, <1>8, <1>10, <1>11
<1>13. Chosen(red, at) = EachRedacted(Chosen(texts, at), originals)
  BY <1>8, <1>9, <1>11, <1>12, SameTexts
<1> QED
  BY <1>7, <1>13, Zenon DEF red

(* ... for the messages ... *)
LEMMA MessageTextsCommute ==
  ASSUME NEW messages \in Seq(Messages), NEW n \in Nat, n = Len(messages),
         NEW originals, Values(originals), OneLined(originals),
         NEW red, red = [i \in 1..n |-> RedactedMessage(messages[i], originals)]
  PROVE  MessageTexts(red) = EachRedacted(MessageTexts(messages), originals)
<1> DEFINE change == [m \in Messages |-> RedactedMessage(m, originals)]
<1>1. \A i \in 1..n : messages[i] \in Messages
  BY ElementOfSeq
<1>2. PICK at \in SUBSET (1..n) : at = {i \in 1..n : messages[i].object}
  OBVIOUS
<1>3. \A i \in 1..n : red[i] = RedactedMessage(messages[i], originals)
  OBVIOUS
<1>4. Len(red) = n
  OBVIOUS
<1>5. at = {i \in 1..n : red[i].object}
  <2>1. \A i \in 1..n : red[i].object = messages[i].object
    BY <1>1, <1>3, MessageKeepsSkeleton
  <2> QED
    BY <1>2, <2>1
<1>6. \A m \in Messages : change[m] = RedactedMessage(m, originals)
  OBVIOUS
<1> HIDE DEF change
<1>7. \A i \in at : red[i] = change[messages[i]]
  BY <1>1, <1>3, <1>6
<1> DEFINE from == Chosen(messages, at)
           to == Chosen(red, at)
           texts == [k \in 1..Len(from) |-> Coerced(from[k].content)]
           after == [k \in 1..Len(to) |-> Coerced(to[k].content)]
<1>8. MessageTexts(messages) = NonEmpty(texts) /\ MessageTexts(red) = NonEmpty(after)
  <2>1. at = {i \in 1..Len(messages) : messages[i].object} /\ at = {i \in 1..Len(red) : red[i].object}
    BY <1>2, <1>4, <1>5
  <2> QED
    BY <2>1, Zenon DEF MessageTexts
<1>9. /\ from \in Seq(Messages)
      /\ \A k \in 1..Len(from) : \E i \in at : from[k] = messages[i]
  BY ChosenType
<1>10. PICK c \in Nat : /\ c = Len(from) /\ c = Len(to)
                        /\ \A k \in 1..c : to[k] = change[from[k]]
  <2>1. ImageOf(from, to, change)
    BY <1>7, ChosenOfImage
  <2> HIDE DEF from, to
  <2> QED
    BY <2>1 DEF ImageOf
<1> HIDE DEF from, to
<1>11. ASSUME NEW k \in 1..c
       PROVE  /\ Coerced(from[k].content) \in Texts
              /\ Coerced(to[k].content) = ApplyReplacements(Coerced(from[k].content), originals)
  <2>1. PICK i \in at : from[k] = messages[i]
    BY <1>9, <1>10
  <2>2. from[k] \in Messages /\ from[k].object
    BY <1>1, <1>2, <2>1
  <2>3. to[k] = RedactedMessage(from[k], originals)
    BY <1>6, <1>10, <2>2
  <2>4. Coerced(RedactedMessage(from[k], originals).content)
           = ApplyReplacements(Coerced(from[k].content), originals)
    BY <2>2, MessageCommutes
  <2>5. from[k].content \in Fields
    BY <2>2 DEF Messages
  <2> QED
    BY <2>3, <2>4, <2>5, CoercedType
<1>12. texts = [k \in 1..c |-> Coerced(from[k].content)] /\ texts \in Seq(Texts) /\ Len(texts) = c
  BY <1>10, <1>11
<1>13. after = EachRedacted(texts, originals)
  <2>1. \A k \in 1..c : texts[k] = Coerced(from[k].content)
    BY <1>12
  <2>2. after = [k \in 1..c |-> Coerced(to[k].content)]
    BY <1>10
  <2>3. EachRedacted(texts, originals) = [k \in 1..c |-> ApplyReplacements(texts[k], originals)]
    BY <1>12, Zenon DEF EachRedacted
  <2> HIDE DEF texts, after
  <2>4. \A k \in 1..c : Coerced(to[k].content) = ApplyReplacements(texts[k], originals)
    BY <1>11, <2>1
  <2> QED
    BY <2>2, <2>3, <2>4
<1> HIDE DEF texts, after
<1>14. NonEmpty(EachRedacted(texts, originals)) = EachRedacted(NonEmpty(texts), originals)
  BY <1>12, NonEmptyCommutes
<1> QED
  BY <1>8, <1>13, <1>14, Zenon

LEMMA EachRedactedConcat ==
  ASSUME NEW s \in Seq(Texts), NEW t \in Seq(Texts), NEW originals, Values(originals)
  PROVE  EachRedacted(s \o t, originals) = EachRedacted(s, originals) \o EachRedacted(t, originals)
<1>1. PICK a \in Nat, b \in Nat : a = Len(s) /\ b = Len(t)
  BY LenProperties
<1> DEFINE whole == s \o t
           l == EachRedacted(s, originals)
           r == EachRedacted(t, originals)
           both == l \o r
           image == EachRedacted(whole, originals)
<1>2. /\ whole \in Seq(Texts) /\ Len(whole) = a + b
      /\ \A i \in 1..a + b : whole[i] = IF i <= a THEN s[i] ELSE t[i - a]
  BY <1>1, ConcatProperties
<1>3. /\ l \in Seq(Texts) /\ Len(l) = a /\ \A i \in 1..a : l[i] = ApplyReplacements(s[i], originals)
  BY <1>1, EachRedactedType
<1>4. /\ r \in Seq(Texts) /\ Len(r) = b /\ \A i \in 1..b : r[i] = ApplyReplacements(t[i], originals)
  BY <1>1, EachRedactedType
<1> HIDE DEF whole, l, r
<1>5. /\ image \in Seq(Texts) /\ Len(image) = a + b
      /\ \A i \in 1..a + b : image[i] = ApplyReplacements(whole[i], originals)
  BY <1>2, EachRedactedType
<1>6. /\ both \in Seq(Texts) /\ Len(both) = a + b
      /\ \A i \in 1..a + b : both[i] = IF i <= a THEN l[i] ELSE r[i - a]
  BY <1>3, <1>4, ConcatProperties
<1> HIDE DEF image, both
<1>7. ASSUME NEW i \in 1..a + b PROVE image[i] = both[i]
  <2>1. CASE i <= a
    <3>1. i \in 1..a
      BY <2>1
    <3> QED
      BY <1>2, <1>3, <1>5, <1>6, <2>1, <3>1
  <2>2. CASE ~(i <= a)
    <3>1. i - a \in 1..b
      BY <2>2
    <3> QED
      BY <1>2, <1>4, <1>5, <1>6, <2>2, <3>1
  <2> QED
    BY <2>1, <2>2
<1>8. image = both
  <2>1. PICK m \in Nat : m = a + b
    OBVIOUS
  <2> QED
    BY <1>5, <1>6, <1>7, <2>1, SameTexts
<1> QED
  BY <1>8, Zenon DEF image, both, whole, l, r

(* ... and for the body. *)
LEMMA ParsedCommutes ==
  ASSUME NEW from, NEW b, Body(b), NEW originals, Values(originals), OneLined(originals)
  PROVE  Parsed(from, Redacted(from, b, originals)) = ApplyReplacements(Parsed(from, b), originals)
<1> DEFINE r == Redacted(from, b, originals)
<1>1. PICK n \in Nat : n = Len(b.messages)
  BY LenProperties DEF Body
<1>2. /\ r.system = IF from = "anthropic" THEN RedactedField(b.system, originals) ELSE b.system
      /\ r.messages = [i \in 1..n |-> RedactedMessage(b.messages[i], originals)]
  BY <1>1 DEF Redacted
<1> HIDE DEF r
<1>3. MessageTexts(r.messages) = EachRedacted(MessageTexts(b.messages), originals)
  BY <1>1, <1>2, MessageTextsCommute DEF Body
<1> DEFINE first(c) == IF from = "anthropic" THEN NonEmpty(<<Coerced(c.system)>>) ELSE <<>>
<1>4. first(b) \in Seq(Texts)
  BY SystemTextsType DEF Body, Values
<1>5. first(r) = EachRedacted(first(b), originals)
  <2>1. CASE from = "anthropic"
    <3>1. Coerced(r.system) = ApplyReplacements(Coerced(b.system), originals)
      BY <1>2, <2>1, CoercedCommutes DEF Body
    <3>2. PICK c \in Texts : c = Coerced(b.system)
      BY CoercedType DEF Body
    <3>3. <<c>> \in Seq(Texts) /\ Len(<<c>>) = 1 /\ <<c>>[1] = c
      OBVIOUS
    <3>4. EachRedacted(<<c>>, originals) = <<ApplyReplacements(c, originals)>>
      BY <3>3 DEF EachRedacted
    <3>5. NonEmpty(EachRedacted(<<c>>, originals)) = EachRedacted(NonEmpty(<<c>>), originals)
      BY <3>3, NonEmptyCommutes
    <3>6. NonEmpty(<<ApplyReplacements(c, originals)>>) = EachRedacted(NonEmpty(<<c>>), originals)
      BY <3>4, <3>5, Zenon
    <3>7. NonEmpty(<<Coerced(r.system)>>) = EachRedacted(NonEmpty(<<Coerced(b.system)>>), originals)
      BY <3>1, <3>2, <3>6, Zenon
    <3> QED
      BY <2>1, <3>7, Zenon
  <2>2. CASE from # "anthropic"
    <3>1. EachRedacted(<<>>, originals) = <<>>
      BY DEF EachRedacted
    <3> QED
      BY <2>2, <3>1
  <2> QED
    BY <2>1, <2>2
<1> HIDE DEF first
<1>6. PICK s \in Seq(Texts), t \in Seq(Texts) : s = first(b) /\ t = MessageTexts(b.messages)
  BY <1>4, MessageTextsType DEF Body, Values
<1>7. s \o t \in Seq(Texts)
  BY ConcatProperties
<1>8. EachRedacted(s \o t, originals) = EachRedacted(s, originals) \o EachRedacted(t, originals)
  BY EachRedactedConcat
<1>9. Joined(EachRedacted(s \o t, originals)) = ApplyReplacements(Joined(s \o t), originals)
  BY <1>7, AppliedJoined
<1>10. Parsed(from, b) = Joined(s \o t)
  BY <1>6, Zenon DEF Parsed, first
<1>11. Parsed(from, r) = Joined(EachRedacted(s, originals) \o EachRedacted(t, originals))
  <2>1. Parsed(from, r) = Joined(first(r) \o MessageTexts(r.messages))
    BY Zenon DEF Parsed, first
  <2> QED
    BY <1>3, <1>5, <1>6, <2>1, Zenon
<1> QED
  BY <1>8, <1>9, <1>10, <1>11, Zenon DEF r

(* With nothing detected there is nothing to replace. *)
LEMMA AppliedNothing == ASSUME NEW t \in Texts PROVE ApplyReplacements(t, <<>>) = t
<1>1. Values(<<>>) /\ Len(<<>>) = 0
  BY DEF Values
<1>2. PICK o : o = <<>> /\ Values(o)
  BY <1>1
<1>3. PICK n \in Nat : n = Len(o) /\ n = 0
  BY <1>1, <1>2
<1>4. PICK f \in [0..n -> Texts] : f[0] = t /\ ApplyReplacements(t, o) = f[n]
  <2>1. PICK k : Applies(k, t, o)
    BY <1>2, AppliedSteps
  <2> QED
    BY <1>3, <2>1 DEF Applies
<1> QED
  BY <1>2, <1>3, <1>4

LEMMA CleanedIsScanned == TextInv => RedactedAsScanned
<1> SUFFICES ASSUME TextInv, Forwarded, \A i \in DOMAIN Detected : NewLine \notin ToSet(Detected[i])
             PROVE  content = ApplyReplacements(Parsed(provider, sent), Detected)
  BY DEF RedactedAsScanned
<1>0. Found /\ Cleaned /\ ContentIsTheBody
  BY DEF TextInv, LedgerInv, RedactionInv
<1>1. Values(Detected)
  BY <1>0, DetectedType
<1>2. OneLined(Detected)
  BY <1>1, LenProperties DEF OneLined, OneLine, Values
<1>3. content = Parsed(provider, body)
  BY <1>0 DEF ContentIsTheBody, Forwarded
<1>4. body = IF Detected = <<>> THEN sent ELSE Redacted(provider, sent, Detected)
  BY <1>0 DEF Cleaned, Forwarded
<1>5. CASE Detected = <<>>
  <2>1. Parsed(provider, sent) \in Texts
    BY <1>0, ParsedType DEF Found
  <2>2. ApplyReplacements(Parsed(provider, sent), <<>>) = Parsed(provider, sent)
    BY <2>1, AppliedNothing
  <2> QED
    BY <1>3, <1>4, <1>5, <2>2, Zenon
<1>6. CASE Detected # <<>>
  <2>1. Parsed(provider, Redacted(provider, sent, Detected))
           = ApplyReplacements(Parsed(provider, sent), Detected)
    BY <1>0, <1>1, <1>2, ParsedCommutes DEF Found
  <2> QED
    BY <1>3, <1>4, <1>6, <2>1, Zenon
<1> QED
  BY <1>5, <1>6

(* Redacting the fields and flattening them is redacting the flattened       *)
(* content: what the middlewares after pii_scan judge, and what is shipped,  *)
(* is what was scanned with every value in it replaced.                     *)
THEOREM RedactionIsAsScanned == Spec => []RedactedAsScanned
  BY CleanedIsScanned, TextsSafe, PTL
=============================================================================
