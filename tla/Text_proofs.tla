--------------------------------- MODULE Text_proofs ---------------------------
(***************************************************************************)
(* Proofs about the parts that take a text apart or keep one: AnsiFilter,  *)
(* for every sequence of bytes and every division into calls;              *)
(* ConfigTransfer, for any alphabet, any bounds, any checksum and every    *)
(* file; EventLog, for any capacity and any width of the counters. What    *)
(* their recursive functions compute is proved with Least: the equations   *)
(* of a function first, then its properties by induction.                  *)
(***************************************************************************)
EXTENDS AnsiFilter, ConfigTransfer, EventLog, Integers, WellFoundedInduction,
        SequenceTheorems, TLAPS

(* A set of natural numbers with a member has a least one: what stands in  *)
(* for induction, whose theorems of the library take an operator as a      *)
(* parameter.                                                              *)
LEMMA Least ==
  ASSUME NEW S, S \subseteq Nat, S # {}
  PROVE  \E x \in S : \A y \in S : x <= y
<1> DEFINE below == {pair \in Nat \X Nat : pair[1] < pair[2]}
<1>1. OpToRel(<, Nat) = below
  BY Zenon DEF OpToRel
<1>2. IsWellFoundedOn(below, Nat)
  BY ONLY NatLessThanWellFounded, <1>1, Zenon
<1> HIDE DEF below
<1>3. \E x \in S : \A y \in S : ~(<<y, x>> \in below)
  BY <1>2, WFMin
<1>4. ASSUME NEW x \in S, NEW y \in S, ~(<<y, x>> \in below) PROVE x <= y
  BY <1>4 DEF below
<1> QED  BY <1>3, <1>4

(* Induction on the natural numbers, over a set.                           *)
LEMMA ByInduction ==
  ASSUME NEW S, 0 \in S, \A n \in Nat : n \in S => n + 1 \in S
  PROVE  \A n \in Nat : n \in S
<1> SUFFICES ASSUME Nat \ S # {} PROVE FALSE
  OBVIOUS
<1>1. PICK x \in Nat \ S : \A y \in Nat \ S : x <= y
  <2>1. Nat \ S \subseteq Nat
    OBVIOUS
  <2> QED  BY <2>1, Least
<1>2. x # 0 /\ x - 1 \in Nat
  BY <1>1
<1>3. x - 1 \in S
  BY <1>1, <1>2
<1> QED  BY <1>1, <1>2, <1>3

(* And with all the smaller numbers as a hypothesis.                       *)
LEMMA ByStrongInduction ==
  ASSUME NEW S, \A n \in Nat : (\A k \in 0 .. n - 1 : k \in S) => n \in S
  PROVE  \A n \in Nat : n \in S
<1> SUFFICES ASSUME Nat \ S # {} PROVE FALSE
  OBVIOUS
<1>1. PICK x \in Nat \ S : \A y \in Nat \ S : x <= y
  <2>1. Nat \ S \subseteq Nat
    OBVIOUS
  <2> QED  BY <2>1, Least
<1>2. \A k \in 0 .. x - 1 : k \in S
  BY <1>1
<1> QED  BY <1>1, <1>2

(* A number has one remainder.                                             *)
LEMMA RemainderIsUnique ==
  ASSUME NEW w \in Nat \ {0}, NEW p \in Int, NEW q \in Int,
         NEW r \in 0 .. w - 1, NEW s \in 0 .. w - 1, w * p + r = w * q + s
  PROVE  r = s
<1>1. ASSUME NEW d \in Int, d >= 1 PROVE w * d >= w
  BY <1>1, Z3
<1>2. w * p - w * q = w * (p - q) /\ w * q - w * p = w * (q - p)
  BY Z3
<1>3. CASE p > q
  BY <1>1, <1>2, <1>3
<1>4. CASE p < q
  BY <1>1, <1>2, <1>4
<1> QED  BY <1>3, <1>4

(* And it is what the division of two numbers leaves.                      *)
LEMMA Division ==
  ASSUME NEW n \in Nat, NEW w \in Nat \ {0}
  PROVE  /\ n % w \in 0 .. w - 1 /\ n \div w \in Int
         /\ n = w * (n \div w) + (n % w)
  OBVIOUS

-----------------------------------------------------------------------------
(* AnsiFilter: the items of a stream with one byte more, then what each    *)
(* mode of the filter makes of that byte.                                  *)

(* The recursive function of Starts exists, so it is what it says.         *)
LEMMA StartsDefined ==
  ASSUME NEW s, Len(s) \in Nat
  PROVE  \A i : i \in Starts(s) <=>
           /\ i \in 1 .. Len(s) + 1
           /\ i = 1 \/ \E k \in Starts(s) : k < i /\ IsEnd(s, k, i - 1)
<1> DEFINE Solves(f, m) ==
             f = [i \in 1 .. m |-> i = 1 \/ \E k \in 1 .. i - 1 : IsEnd(s, k, i - 1) /\ f[k]]
           starts == CHOOSE f : Solves(f, Len(s) + 1)
<1>1. \E f : Solves(f, 0)
  <2>1. Solves([i \in 1 .. 0 |-> TRUE], 0)
    OBVIOUS
  <2> QED  BY <2>1
<1>2. ASSUME NEW m \in Nat, NEW f, Solves(f, m)
      PROVE  \E g : Solves(g, m + 1)
  <2> DEFINE new == m + 1 = 1 \/ \E k \in 1 .. m : IsEnd(s, k, m) /\ f[k]
             g == [i \in 1 .. m + 1 |-> IF i <= m THEN f[i] ELSE new]
  <2>1. \A k \in 1 .. m : g[k] = f[k]
    OBVIOUS
  <2>2. ASSUME NEW i \in 1 .. m
        PROVE  g[i] = (i = 1 \/ \E k \in 1 .. i - 1 : IsEnd(s, k, i - 1) /\ g[k])
    <3>1. f[i] = (i = 1 \/ \E k \in 1 .. i - 1 : IsEnd(s, k, i - 1) /\ f[k])
      BY <1>2
    <3>2. \A k \in 1 .. i - 1 : g[k] = f[k]
      BY <2>1
    <3> HIDE DEF g
    <3> QED  BY <2>1, <3>1, <3>2
  <2>3. g[m + 1] = (m + 1 = 1 \/ \E k \in 1 .. (m + 1) - 1 : IsEnd(s, k, (m + 1) - 1) /\ g[k])
    <3>1. g[m + 1] = new /\ (m + 1) - 1 = m
      OBVIOUS
    <3> HIDE DEF g
    <3> QED  BY <2>1, <3>1
  <2>4. Solves(g, m + 1)
    <3>1. \A i \in 1 .. m + 1 :
            g[i] = (i = 1 \/ \E k \in 1 .. i - 1 : IsEnd(s, k, i - 1) /\ g[k])
      <4> HIDE DEF g
      <4>1. ASSUME NEW i \in 1 .. m + 1
            PROVE  g[i] = (i = 1 \/ \E k \in 1 .. i - 1 : IsEnd(s, k, i - 1) /\ g[k])
        <5>1. CASE i \in 1 .. m
          BY <5>1, <2>2
        <5>2. CASE i = m + 1
          BY <5>2, <2>3, Zenon
        <5> QED  BY <5>1, <5>2
      <4> QED  BY <4>1
    <3> QED  BY <3>1, Zenon
  <2> QED  BY <2>4
<1>3. \E f : Solves(f, Len(s) + 1)
  <2> HIDE DEF Solves
  <2> DEFINE Unsolved == {m \in Nat : ~ \E f : Solves(f, m)}
  <2>1. CASE Unsolved # {}
    <3>1. PICK m \in Unsolved : \A y \in Unsolved : m <= y
      BY <2>1, Least
    <3>2. m # 0
      BY <3>1, <1>1
    <3>3. m - 1 \in Nat /\ m - 1 \notin Unsolved
      BY <3>1, <3>2
    <3>4. m \notin Unsolved
      BY <3>3, <1>2
    <3> QED  BY <3>1, <3>4
  <2>2. CASE Unsolved = {}
    <3>1. Len(s) + 1 \in Nat /\ Len(s) + 1 \notin Unsolved
      BY <2>2
    <3> QED  BY <3>1
  <2> QED  BY <2>1, <2>2
<1> HIDE DEF Solves
<1>4. Solves(starts, Len(s) + 1)
  BY <1>3, Zenon
<1> USE DEF Solves
<1>5. Starts(s) = {i \in 1 .. Len(s) + 1 : starts[i]}
  BY Zenon DEF Starts
<1>6. \A i \in 1 .. Len(s) + 1 :
        starts[i] <=> (i = 1 \/ \E k \in 1 .. i - 1 : IsEnd(s, k, i - 1) /\ starts[k])
  BY <1>4
<1> HIDE DEF starts
<1> QED  BY <1>5, <1>6

(* A byte more changes nothing of an item that ended before the last byte. *)
LEMMA ItemAppend ==
  ASSUME NEW s \in Seq(ByteClass), NEW b \in ByteClass,
         NEW i \in Nat, NEW j \in i .. Len(s), i >= 1
  PROVE  /\ Item(s, i, j) => Item(Append(s, b), i, j)
         /\ Item(Append(s, b), i, j) =>
              Item(s, i, j) \/ (i = Len(s) /\ s[i] = ESC /\ b = ESC)
         /\ j < Len(s) => (Item(Append(s, b), i, j) <=> Item(s, i, j))
<1> DEFINE t == Append(s, b)
<1>1. /\ Len(s) \in Nat /\ Len(t) = Len(s) + 1 /\ t[Len(s) + 1] = b
      /\ \A k \in 1 .. Len(s) : t[k] = s[k]
  OBVIOUS
<1> HIDE DEF t
<1>2. t[i] = s[i] /\ t[j] = s[j] /\ (j > i + 1 => t[j - 1] = s[j - 1])
      /\ (i < Len(s) => t[i + 1] = s[i + 1]) /\ (i = Len(s) => t[i + 1] = b)
  BY <1>1
<1>3. CASE i < Len(s)
  BY <1>1, <1>2, <1>3 DEF Item, OscEnds
<1>4. CASE i = Len(s)
  BY <1>1, <1>2, <1>4 DEF Item, OscEnds, ESC
<1> QED  BY <1>3, <1>4 DEF t

(* Item i of s is the one that has not ended.                              *)
Unended(s, i) ==
  /\ i \in Starts(s)
  /\ \A j \in i .. Len(s) : ~Item(s, i, j)
  /\ \A k \in Starts(s) : k # i => \E j \in k .. Len(s) : Item(s, k, j)

(* What a byte after s does to the items: the escape before it, if it is   *)
(* one itself, is an item of its own; or it is the end of item i; or none  *)
(* of the two.                                                             *)
TwoEscapes(s, i, b) == i = Len(s) /\ s[i] = ESC /\ b = ESC
EndsNow(s, i, b) == ~TwoEscapes(s, i, b) /\ Item(Append(s, b), i, Len(s) + 1)

(* Where an item of s ends, seen with one byte more.                       *)
LEMMA IsEndAppend ==
  ASSUME NEW s \in Seq(ByteClass), NEW b \in ByteClass,
         NEW i \in Nat, NEW j \in i .. Len(s), i >= 1
  PROVE  /\ j < Len(s) => (IsEnd(Append(s, b), i, j) <=> IsEnd(s, i, j))
         /\ IsEnd(Append(s, b), i, j) =>
              IsEnd(s, i, j) \/ (i = Len(s) /\ s[i] = ESC /\ b = ESC)
         /\ IsEnd(s, i, j) => IsEnd(Append(s, b), i, j)
<1>1. Len(s) \in Nat
  OBVIOUS
<1>2. \A k \in i .. j : k \in i .. Len(s)
  BY <1>1
<1>3. \A k \in i .. j - 1 : k \in i .. Len(s) /\ k < Len(s)
  BY <1>1
<1>4. \A k \in i .. j - 1 : Item(Append(s, b), i, k) <=> Item(s, i, k)
  BY <1>3, ItemAppend
<1> QED  BY <1>4, ItemAppend DEF IsEnd

(* The items of s start where they did.                                    *)
LEMMA StartsAppend ==
  ASSUME NEW s \in Seq(ByteClass), NEW b \in ByteClass
  PROVE  /\ Starts(s) \subseteq 1 .. Len(s) + 1
         /\ \A i \in 1 .. Len(s) : i \in Starts(Append(s, b)) <=> i \in Starts(s)
         /\ Len(s) + 1 \in Starts(s) => Len(s) + 1 \in Starts(Append(s, b))
<1> DEFINE t == Append(s, b)
           differ == {i \in 1 .. Len(s) : ~(i \in Starts(t) <=> i \in Starts(s))}
<1>1. Len(s) \in Nat /\ Len(t) = Len(s) + 1
  OBVIOUS
<1>2. \A i : i \in Starts(s) <=>
        /\ i \in 1 .. Len(s) + 1
        /\ i = 1 \/ \E k \in Starts(s) : k < i /\ IsEnd(s, k, i - 1)
  BY <1>1, StartsDefined
<1>3. \A i : i \in Starts(t) <=>
        /\ i \in 1 .. Len(s) + 2
        /\ i = 1 \/ \E k \in Starts(t) : k < i /\ IsEnd(t, k, i - 1)
  <2>1. Len(t) \in Nat /\ Len(t) + 1 = Len(s) + 2
    BY <1>1
  <2> HIDE DEF t
  <2> QED  BY <2>1, StartsDefined
<1>4. ASSUME NEW k \in 1 .. Len(s), NEW j \in k .. Len(s)
      PROVE  /\ j < Len(s) => (IsEnd(t, k, j) <=> IsEnd(s, k, j))
             /\ IsEnd(s, k, j) => IsEnd(t, k, j)
  <2>1. k \in Nat /\ k >= 1
    OBVIOUS
  <2> QED  BY <2>1, IsEndAppend
<1> HIDE DEF t
<1>5. differ = {}
  <2> SUFFICES ASSUME differ # {} PROVE FALSE
    OBVIOUS
  <2>1. differ \subseteq Nat
    BY <1>1
  <2>2. PICK i \in differ : \A y \in differ : i <= y
    BY <2>1, Least
  <2>3. i \in 1 .. Len(s) /\ ~(i \in Starts(t) <=> i \in Starts(s))
    OBVIOUS
  <2>4. \A k \in 1 .. Len(s) : k < i => (k \in Starts(t) <=> k \in Starts(s))
    BY <2>2, <1>1
  <2>5. \A k \in 1 .. Len(s) : k < i => (IsEnd(t, k, i - 1) <=> IsEnd(s, k, i - 1))
    <3>1. ASSUME NEW k \in 1 .. Len(s), k < i
          PROVE  i - 1 \in k .. Len(s) /\ i - 1 < Len(s)
      BY <3>1, <2>3, <1>1
    <3> QED  BY <3>1, <1>4
  <2>6. \A k : (k \in Starts(t) \/ k \in Starts(s)) /\ k < i => k \in 1 .. Len(s)
    BY <1>1, <1>2, <1>3, <2>3
  <2>7. i \in 1 .. Len(s) + 1 /\ i \in 1 .. Len(s) + 2
    BY <2>3, <1>1
  <2>8. (\E k \in Starts(t) : k < i /\ IsEnd(t, k, i - 1))
          <=> (\E k \in Starts(s) : k < i /\ IsEnd(s, k, i - 1))
    BY <2>4, <2>5, <2>6
  <2> QED  BY <1>2, <1>3, <2>3, <2>7, <2>8
<1>6. Len(s) + 1 \in Starts(s) => Len(s) + 1 \in Starts(t)
  <2> SUFFICES ASSUME Len(s) + 1 \in Starts(s) PROVE Len(s) + 1 \in Starts(t)
    OBVIOUS
  <2>1. Len(s) + 1 \in 1 .. Len(s) + 2 /\ (Len(s) + 1) - 1 = Len(s)
    BY <1>1
  <2>2. CASE Len(s) + 1 = 1
    BY <1>3, <2>1, <2>2
  <2>3. CASE \E k \in Starts(s) : k < Len(s) + 1 /\ IsEnd(s, k, Len(s))
    <3>1. PICK k \in Starts(s) : k < Len(s) + 1 /\ IsEnd(s, k, Len(s))
      BY <2>3
    <3>2. k \in 1 .. Len(s) /\ Len(s) \in k .. Len(s)
      BY <3>1, <1>1, <1>2
    <3>3. k \in Starts(t) /\ IsEnd(t, k, Len(s))
      BY <3>1, <3>2, <1>4, <1>5
    <3> QED  BY <3>1, <3>3, <2>1, <1>3
  <2> QED  BY <1>2, <2>1, <2>2, <2>3
<1> QED  BY <1>2, <1>5, <1>6 DEF t

(* An ESC that is the last byte of s is no item yet.                       *)
LEMMA LastEscape ==
  ASSUME NEW s, Len(s) \in Nat, NEW i, i = Len(s), s[i] = ESC
  PROVE  \A j : ~Item(s, i, j)
  BY DEF Item

(* With one byte more, the unended item is the only one to end.            *)
LEMMA EndsAppend ==
  ASSUME NEW s \in Seq(ByteClass), NEW b \in ByteClass, NEW i, Unended(s, i),
         NEW k \in Starts(s)
  PROVE  /\ \A j \in k .. Len(s) : IsEnd(Append(s, b), k, j) <=>
              IsEnd(s, k, j) \/ (k = i /\ TwoEscapes(s, i, b))
         /\ IsEnd(Append(s, b), k, Len(s) + 1) <=> k = i /\ EndsNow(s, i, b)
<1> DEFINE t == Append(s, b)
           n == Len(s)
<1>1. /\ n \in Nat /\ Len(t) = n + 1 /\ t[n + 1] = b
      /\ \A m \in 1 .. n : t[m] = s[m]
      /\ k \in 1 .. n + 1 /\ k \in Nat /\ k >= 1
  BY StartsAppend
<1>2. ASSUME NEW j \in k .. n
      PROVE  /\ Item(s, k, j) => Item(t, k, j)
             /\ Item(t, k, j) => Item(s, k, j) \/ (k = n /\ s[k] = ESC /\ b = ESC)
             /\ IsEnd(t, k, j) => IsEnd(s, k, j) \/ (k = n /\ s[k] = ESC /\ b = ESC)
             /\ IsEnd(s, k, j) => IsEnd(t, k, j)
  BY <1>1, ItemAppend, IsEndAppend
<1>3. CASE k # i
  <2>1. PICK e \in k .. n : Item(s, k, e)
    BY <1>3 DEF Unended
  <2>2. ~(k = n /\ s[k] = ESC)
    BY <2>1, <1>1, LastEscape
  <2>3. e \in k .. (n + 1) - 1 /\ Item(t, k, e)
    BY <2>1, <1>1, <1>2
  <2>4. ~IsEnd(t, k, n + 1)
    BY <2>3 DEF IsEnd
  <2> QED  BY <1>2, <1>3, <2>2, <2>4
<1>4. CASE k = i
  <2>1. \A j \in i .. n : ~Item(s, i, j)
    BY DEF Unended
  <2>2. \A j \in i .. n : IsEnd(t, i, j) => TwoEscapes(s, i, b)
    BY <1>2, <1>4, <2>1 DEF IsEnd, TwoEscapes
  <2>3. ASSUME TwoEscapes(s, i, b), NEW j \in i .. n
        PROVE  IsEnd(t, i, j)
    <3>1. i = n /\ j = n /\ n >= 1
      BY <2>3, <1>1, <1>4 DEF TwoEscapes
    <3>2. Item(t, n, n)
      BY <2>3, <3>1, <1>1 DEF TwoEscapes, Item
    <3>3. n .. n - 1 = {}
      BY <1>1
    <3> QED  BY <3>1, <3>2, <3>3 DEF IsEnd
  <2>4. IsEnd(t, i, n + 1) <=> EndsNow(s, i, b)
    <3>1. i .. (n + 1) - 1 = i .. n
      BY <1>1
    <3>2. CASE TwoEscapes(s, i, b)
      <4>1. n \in i .. n /\ Item(t, i, n)
        BY <3>2, <2>3, <1>1, <1>4 DEF TwoEscapes, IsEnd
      <4> QED  BY <3>1, <3>2, <4>1 DEF IsEnd, EndsNow
    <3>3. CASE ~TwoEscapes(s, i, b)
      <4>1. \A j \in i .. n : ~Item(t, i, j)
        BY <3>3, <2>1, <1>2, <1>4 DEF TwoEscapes
      <4> QED  BY <3>1, <3>3, <4>1 DEF IsEnd, EndsNow
    <3> QED  BY <3>2, <3>3
  <2> QED  BY <1>2, <1>4, <2>2, <2>3, <2>4
<1> QED  BY <1>3, <1>4

(* The item that has not ended after that byte.                            *)
NextItem(s, i, b) ==
  IF TwoEscapes(s, i, b) THEN Len(s) + 1 ELSE IF EndsNow(s, i, b) THEN Len(s) + 2 ELSE i

(* Its start is the only new one.                                          *)
LEMMA StartsAfter ==
  ASSUME NEW s \in Seq(ByteClass), NEW b \in ByteClass, NEW i, Unended(s, i)
  PROVE  \A m : m \in Starts(Append(s, b)) <=>
           \/ m \in Starts(s)
           \/ m = Len(s) + 1 /\ TwoEscapes(s, i, b)
           \/ m = Len(s) + 2 /\ EndsNow(s, i, b)
<1> DEFINE t == Append(s, b)
           n == Len(s)
<1>1. /\ n \in Nat /\ Len(t) = n + 1 /\ Len(t) \in Nat /\ t[n + 1] = b
  OBVIOUS
<1>2. /\ Starts(s) \subseteq 1 .. n + 1
      /\ \A m \in 1 .. n : m \in Starts(t) <=> m \in Starts(s)
      /\ n + 1 \in Starts(s) => n + 1 \in Starts(t)
  BY StartsAppend
<1>3. \A k \in Starts(s) :
        /\ \A j \in k .. n : IsEnd(t, k, j) <=>
             IsEnd(s, k, j) \/ (k = i /\ TwoEscapes(s, i, b))
        /\ IsEnd(t, k, n + 1) <=> k = i /\ EndsNow(s, i, b)
  BY EndsAppend
<1>4. TwoEscapes(s, i, b) => i = n /\ b = ESC
  BY DEF TwoEscapes
<1>5. i \in Starts(s)
  BY DEF Unended
<1> HIDE DEF t
<1>6. \A m : m \in Starts(t) <=>
        /\ m \in 1 .. n + 2
        /\ m = 1 \/ \E k \in Starts(t) : k < m /\ IsEnd(t, k, m - 1)
  <2>1. Len(t) + 1 = n + 2
    BY <1>1
  <2> QED  BY <1>1, <2>1, StartsDefined
<1>7. \A m : m \in Starts(s) <=>
        /\ m \in 1 .. n + 1
        /\ m = 1 \/ \E k \in Starts(s) : k < m /\ IsEnd(s, k, m - 1)
  BY <1>1, StartsDefined
<1>8. n + 1 \in Starts(t) <=> n + 1 \in Starts(s) \/ TwoEscapes(s, i, b)
  <2>1. (n + 1) - 1 = n /\ n + 1 \in 1 .. n + 2
    BY <1>1
  <2>2. ASSUME n + 1 \in Starts(t), n + 1 \notin Starts(s)
        PROVE  TwoEscapes(s, i, b)
    <3>1. n + 1 # 1
      BY <2>2, <1>1, <1>7
    <3>2. PICK k \in Starts(t) : k < n + 1 /\ IsEnd(t, k, n)
      BY <2>1, <2>2, <3>1, <1>6
    <3>3. k \in 1 .. n /\ k \in Starts(s) /\ n \in k .. n
      BY <3>2, <1>1, <1>2, <1>6
    <3>4. ~IsEnd(s, k, n)
      BY <2>1, <2>2, <3>2, <3>3, <1>1, <1>7
    <3> QED  BY <3>2, <3>3, <3>4, <1>3
  <2>3. ASSUME TwoEscapes(s, i, b)
        PROVE  n + 1 \in Starts(t)
    <3>1. i \in 1 .. n /\ n \in i .. n /\ i < n + 1 /\ i \in Starts(t)
      BY <2>3, <1>1, <1>2, <1>4, <1>5
    <3>2. IsEnd(t, i, n)
      BY <2>3, <3>1, <1>3, <1>5
    <3> QED  BY <2>1, <3>1, <3>2, <1>6
  <2> QED  BY <2>2, <2>3, <1>2
<1>9. n + 2 \in Starts(t) <=> EndsNow(s, i, b)
  <2>1. (n + 2) - 1 = n + 1 /\ n + 2 \in 1 .. n + 2 /\ n + 2 # 1
    BY <1>1
  <2>2. ASSUME n + 2 \in Starts(t)
        PROVE  EndsNow(s, i, b)
    <3>1. PICK k \in Starts(t) : k < n + 2 /\ IsEnd(t, k, n + 1)
      BY <2>1, <2>2, <1>6
    <3>2. k \in 1 .. n + 1
      BY <3>1, <1>1, <1>6
    <3>3. k \in Starts(s)
      <4>1. CASE k = n + 1 /\ TwoEscapes(s, i, b)
        BY <4>1, <3>1, <1>1, <1>4, LastEscape DEF IsEnd
      <4> QED  BY <4>1, <3>1, <3>2, <1>1, <1>2, <1>8
    <3> QED  BY <3>1, <3>3, <1>3
  <2>3. ASSUME EndsNow(s, i, b)
        PROVE  n + 2 \in Starts(t)
    <3>1. IsEnd(t, i, n + 1)
      BY <2>3, <1>3, <1>5
    <3>2. i \in Starts(t) /\ i < n + 2
      BY <1>1, <1>2, <1>5
    <3> QED  BY <2>1, <3>1, <3>2, <1>6
  <2> QED  BY <2>2, <2>3
<1>10. \A m : m \in Starts(t) => m \in 1 .. n \/ m = n + 1 \/ m = n + 2
  BY <1>1, <1>6
<1>11. n + 2 \notin Starts(s) /\ \A m \in Starts(s) : m \in 1 .. n \/ m = n + 1
  BY <1>1, <1>2
<1> QED  BY <1>1, <1>2, <1>8, <1>9, <1>10, <1>11 DEF t

(* And it has not ended.                                                   *)
LEMMA UnendedAfter ==
  ASSUME NEW s \in Seq(ByteClass), NEW b \in ByteClass, NEW i, Unended(s, i)
  PROVE  Unended(Append(s, b), NextItem(s, i, b))
<1> DEFINE t == Append(s, b)
           n == Len(s)
           next == NextItem(s, i, b)
<1>1. /\ n \in Nat /\ Len(t) = n + 1 /\ Len(t) \in Nat /\ t[n + 1] = b
  OBVIOUS
<1>2. /\ Starts(s) \subseteq 1 .. n + 1
      /\ \A m : m \in Starts(t) <=>
           \/ m \in Starts(s)
           \/ m = n + 1 /\ TwoEscapes(s, i, b)
           \/ m = n + 2 /\ EndsNow(s, i, b)
  BY StartsAppend, StartsAfter
<1>3. i \in Starts(s) /\ i \in 1 .. n + 1
  BY <1>2 DEF Unended
<1>4. \A k \in Starts(s) : \A j \in k .. n :
        /\ Item(s, k, j) => Item(t, k, j)
        /\ Item(t, k, j) => Item(s, k, j) \/ (k = n /\ s[k] = ESC /\ b = ESC)
  <2>1. \A k \in Starts(s) : k \in Nat /\ k >= 1
    BY <1>1, <1>2
  <2> QED  BY <2>1, ItemAppend
<1>5. \A k \in Starts(s) : k # i => \E j \in k .. n + 1 : Item(t, k, j)
  <2>1. \A k \in Starts(s) : \A j \in k .. n : j \in k .. n + 1
    BY <1>1, <1>2
  <2> QED  BY <2>1, <1>4 DEF Unended
<1>6. CASE TwoEscapes(s, i, b)
  <2>1. next = n + 1 /\ i = n /\ b = ESC /\ s[n] = ESC /\ ~EndsNow(s, i, b)
    BY <1>6 DEF NextItem, TwoEscapes, EndsNow
  <2>2. IsEnd(t, i, n)
    BY <2>1, <1>1, <1>3, <1>6, EndsAppend
  <2>3. Item(t, i, n) /\ n \in i .. n + 1
    BY <2>1, <2>2, <1>1 DEF IsEnd
  <2>4. \A j : ~Item(t, n + 1, j)
    BY <2>1, <1>1, LastEscape
  <2> QED  BY <1>1, <1>2, <1>5, <1>6, <2>1, <2>3, <2>4 DEF Unended
<1>7. CASE EndsNow(s, i, b)
  <2>1. next = n + 2 /\ ~TwoEscapes(s, i, b) /\ Item(t, i, n + 1)
    BY <1>7 DEF NextItem, EndsNow
  <2>2. n + 1 \in i .. n + 1 /\ n + 2 .. n + 1 = {}
    BY <1>1, <1>3
  <2> QED  BY <1>1, <1>2, <1>5, <1>7, <2>1, <2>2 DEF Unended
<1>8. CASE ~TwoEscapes(s, i, b) /\ ~EndsNow(s, i, b)
  <2>1. next = i /\ ~Item(t, i, n + 1)
    BY <1>8 DEF NextItem, EndsNow
  <2>2. ASSUME NEW j \in i .. n + 1
        PROVE  ~Item(t, i, j)
    <3>1. CASE j \in i .. n
      BY <3>1, <1>3, <1>4, <1>8 DEF Unended, TwoEscapes
    <3>2. CASE j = n + 1
      BY <3>2, <2>1
    <3> QED  BY <3>1, <3>2, <1>1, <1>3
  <2> QED  BY <1>1, <1>2, <1>3, <1>5, <1>8, <2>1, <2>2 DEF Unended
<1> QED  BY <1>6, <1>7, <1>8

(* What the byte adds to the visible bytes: all of an item that is shown,  *)
(* or nothing.                                                             *)
LEMMA VisibleAfter ==
  ASSUME NEW s \in Seq(ByteClass), NEW b \in ByteClass, NEW i, Unended(s, i)
  PROVE  Visible(Append(s, b)) =
           Visible(s) \union (IF EndsNow(s, i, b) /\ Shown(Append(s, b), i, Len(s) + 1)
                             THEN i .. Len(s) + 1 ELSE {})
<1> DEFINE t == Append(s, b)
           n == Len(s)
           new == IF EndsNow(s, i, b) /\ Shown(t, i, n + 1) THEN i .. n + 1 ELSE {}
<1>1. /\ n \in Nat /\ Len(t) = n + 1 /\ Len(t) \in Nat /\ t[n + 1] = b
      /\ \A m \in 1 .. n : t[m] = s[m]
  OBVIOUS
<1>2. /\ Starts(s) \subseteq 1 .. n + 1
      /\ \A m : m \in Starts(t) <=>
           \/ m \in Starts(s)
           \/ m = n + 1 /\ TwoEscapes(s, i, b)
           \/ m = n + 2 /\ EndsNow(s, i, b)
  BY StartsAppend, StartsAfter
<1>3. \A k \in Starts(s) :
        /\ \A j \in k .. n : IsEnd(t, k, j) <=>
             IsEnd(s, k, j) \/ (k = i /\ TwoEscapes(s, i, b))
        /\ IsEnd(t, k, n + 1) <=> k = i /\ EndsNow(s, i, b)
  BY EndsAppend
<1>4. i \in Starts(s) /\ i \in 1 .. n + 1
  BY <1>2 DEF Unended
<1>5. TwoEscapes(s, i, b) => i = n /\ b = ESC /\ s[n] = ESC
  BY DEF TwoEscapes
<1> HIDE DEF t
<1>6. \A p : p \in Visible(s) <=>
        p \in 1 .. n /\ \E k \in Starts(s), j \in p .. n :
                        k <= p /\ IsEnd(s, k, j) /\ Shown(s, k, j)
  BY DEF Visible
<1>7. \A p : p \in Visible(t) <=>
        p \in 1 .. n + 1 /\ \E k \in Starts(t), j \in p .. n + 1 :
                            k <= p /\ IsEnd(t, k, j) /\ Shown(t, k, j)
  BY <1>1 DEF Visible
<1>8. \A k \in 1 .. n : \A j \in k .. n : Shown(t, k, j) <=> Shown(s, k, j)
  <2> SUFFICES ASSUME NEW k \in 1 .. n, NEW j \in k .. n
               PROVE  Shown(t, k, j) <=> Shown(s, k, j)
    OBVIOUS
  <2>1. t[k] = s[k] /\ (k # j => t[k + 1] = s[k + 1])
    BY <1>1
  <2> QED  BY <2>1 DEF Shown
<1>9. ASSUME NEW p \in Visible(s)
      PROVE  p \in Visible(t)
  <2>1. p \in 1 .. n
    BY <1>6
  <2>2. PICK k \in Starts(s), j \in p .. n : k <= p /\ IsEnd(s, k, j) /\ Shown(s, k, j)
    BY <1>6
  <2>3. k \in 1 .. n /\ j \in k .. n /\ j \in p .. n + 1 /\ p \in 1 .. n + 1
    BY <2>1, <2>2, <1>1, <1>2
  <2> QED  BY <2>2, <2>3, <1>2, <1>3, <1>7, <1>8
<1>10. ASSUME NEW p \in new
       PROVE  p \in Visible(t)
  <2>1. EndsNow(s, i, b) /\ Shown(t, i, n + 1) /\ p \in i .. n + 1
    OBVIOUS
  <2>2. p \in 1 .. n + 1 /\ n + 1 \in p .. n + 1 /\ i <= p /\ i \in Starts(t)
    BY <2>1, <1>1, <1>2, <1>4
  <2> QED  BY <2>1, <2>2, <1>3, <1>4, <1>7
<1>11. ASSUME NEW p \in Visible(t)
       PROVE  p \in Visible(s) \/ p \in new
  <2>1. p \in 1 .. n + 1
    BY <1>7
  <2>2. PICK k \in Starts(t), j \in p .. n + 1 : k <= p /\ IsEnd(t, k, j) /\ Shown(t, k, j)
    BY <1>7
  <2>3. k \in Starts(s)
    <3>1. k # n + 2
      BY <2>1, <2>2, <1>1
    <3>2. CASE k = n + 1 /\ TwoEscapes(s, i, b)
      BY <3>2, <2>2, <1>1, <1>5, LastEscape DEF IsEnd
    <3> QED  BY <3>1, <3>2, <1>2
  <2>4. CASE j = n + 1
    <3>1. k = i /\ EndsNow(s, i, b)
      BY <2>2, <2>3, <2>4, <1>3
    <3> QED  BY <3>1, <2>1, <2>2, <2>4, <1>1, <1>4
  <2>5. CASE j # n + 1
    <3>1. j \in p .. n /\ j \in k .. n /\ k \in 1 .. n /\ p \in 1 .. n
      BY <2>1, <2>2, <2>3, <2>5, <1>1, <1>2
    <3>2. CASE k = i /\ TwoEscapes(s, i, b)
      <4>1. k = n /\ j = n /\ t[n] = ESC
        BY <3>1, <3>2, <1>1, <1>5
      <4> QED  BY <4>1, <2>2 DEF Shown, SafeText, ESC
    <3>3. CASE IsEnd(s, k, j)
      BY <3>1, <3>3, <2>2, <2>3, <1>6, <1>8
    <3> QED  BY <2>2, <2>3, <3>1, <3>2, <3>3, <1>3
  <2> QED  BY <2>4, <2>5
<1>12. Visible(t) = Visible(s) \union new
  BY <1>9, <1>10, <1>11
<1> QED  BY <1>12 DEF t

(* What the filter knows of the item that has not ended, which starts at i. *)
Kept(i) ==
  LET n == Len(stream) - i + 1
  IN  /\ sequence = [k \in 1 .. (IF n <= SeqMax THEN n ELSE SeqMax) |-> i + k - 1]
      /\ overlong \in BOOLEAN /\ (overlong <=> n > SeqMax)

(* Nothing is kept for later.                                              *)
NothingKept == sequence = <<>> /\ overlong = FALSE

(* The ESC that may end an OSC.                                            *)
EscLast(i) == stream[Len(stream)] = ESC /\ Len(stream) > i + 1

(* The mode tells which kind of item has not ended, and what of it is      *)
(* kept.                                                                   *)
ModeOK(i) ==
  LET n == Len(stream)
  IN  \/ mode = "TEXT" /\ i = n + 1 /\ NothingKept
      \/ mode = "ESC" /\ i = n /\ stream[i] = ESC /\ Kept(i)
      \/ mode = "CSI" /\ i < n /\ stream[i] = ESC /\ stream[i + 1] = "[" /\ Kept(i)
      \/ mode = "OSC" /\ i < n /\ stream[i] = ESC /\ stream[i + 1] = "]"
           /\ NothingKept /\ ~EscLast(i)
      \/ mode = "OSC_ESC" /\ i < n /\ stream[i] = ESC /\ stream[i + 1] = "]"
           /\ NothingKept /\ EscLast(i)

(* The types of the variables; the output is of the bytes so far.          *)
FilterTypes ==
  /\ stream \in Seq(ByteClass) /\ Len(stream) <= MaxBytes
  /\ taken \in 0 .. InMax /\ written \in 0 .. OutMax /\ cut \in BOOLEAN
  /\ out \in Seq(1 .. Len(stream))

(* With room enough, the output is what is visible of the stream.          *)
OutOK ==
  /\ Increasing(out)
  /\ ~cut => {out[k] : k \in 1 .. Len(out)} = Visible(stream)

(* The filter knows the item, and wrote only what came before it.          *)
Knows(i) ==
  /\ Unended(stream, i) /\ ModeOK(i)
  /\ \A k \in 1 .. Len(out) : out[k] < i

(* The invariant: the types, the output, and the item not ended.           *)
FilterIInv == FilterTypes /\ OutOK /\ \E i \in 1 .. Len(stream) + 1 : Knows(i)

(* What Emit adds to the output: the bytes, or as many as there is room    *)
(* for.                                                                    *)
LEMMA EmitAdds ==
  ASSUME FilterIInv, NEW i \in Nat, NEW m \in Nat,
         \A k \in 1 .. Len(out) : out[k] < i, i >= 1,
         NEW bytes, bytes = [k \in 1 .. m |-> i + k - 1],
         i + m - 1 <= Len(stream) + 1,
         Emit(bytes)
  PROVE  /\ written' \in 0 .. OutMax /\ cut' \in BOOLEAN
         /\ out' \in Seq(1 .. Len(stream) + 1) /\ Increasing(out')
         /\ \A k \in 1 .. Len(out') : out'[k] < i + m
         /\ ~cut' => ~cut /\ {out'[k] : k \in 1 .. Len(out')} =
                               {out[k] : k \in 1 .. Len(out)} \union (i .. i + m - 1)
<1> DEFINE room == OutMax - written
           n == IF m <= room THEN m ELSE room
           more == SubSeq(bytes, 1, n)
<1>0. /\ written \in 0 .. OutMax /\ OutMax \in Nat /\ cut \in BOOLEAN
      /\ out \in Seq(1 .. Len(stream)) /\ Increasing(out) /\ Len(stream) \in Nat
      /\ Len(out) \in Nat /\ \A k \in 1 .. Len(out) : out[k] \in 1 .. Len(stream)
  <2>1. /\ written \in 0 .. OutMax /\ cut \in BOOLEAN /\ Increasing(out)
        /\ out \in Seq(1 .. Len(stream)) /\ stream \in Seq(ByteClass)
    BY DEF FilterIInv, FilterTypes, OutOK
  <2>2. /\ Len(stream) \in Nat /\ Len(out) \in Nat
        /\ \A k \in 1 .. Len(out) : out[k] \in 1 .. Len(stream)
    BY <2>1
  <2> QED  BY <2>1, <2>2, FilterAssumption
<1>1. bytes \in Seq(Nat) /\ Len(bytes) = m /\ n \in 0 .. m /\ n \in Nat
  BY <1>0
<1>2. out' = out \o more /\ written' = written + n /\ cut' = (cut \/ n < m)
  BY <1>1 DEF Emit
<1>3. written + n \in 0 .. OutMax
  BY <1>0
<1> HIDE DEF n
<1>4. Len(more) = n /\ \A k \in 1 .. n : more[k] = i + k - 1
  BY <1>1
<1>5. \A k \in 1 .. n : more[k] \in 1 .. Len(stream) + 1
  BY <1>0, <1>1, <1>4
<1>6. more \in Seq(1 .. Len(stream) + 1)
  BY <1>1, <1>4, <1>5
<1>7. out \in Seq(1 .. Len(stream) + 1)
  BY <1>0
<1> HIDE DEF more
<1>8. /\ out' \in Seq(1 .. Len(stream) + 1) /\ Len(out') = Len(out) + n
      /\ \A k \in 1 .. Len(out) : out'[k] = out[k]
      /\ \A k \in 1 .. n : out'[Len(out) + k] = i + k - 1
  <2>1. /\ out \o more \in Seq(1 .. Len(stream) + 1) /\ Len(out \o more) = Len(out) + Len(more)
        /\ \A k \in 1 .. Len(out) : (out \o more)[k] = out[k]
        /\ \A k \in 1 .. Len(more) : (out \o more)[Len(out) + k] = more[k]
    BY <1>6, <1>7
  <2> QED  BY <2>1, <1>2, <1>4
<1>9. \A k \in 1 .. Len(out') :
        \/ k \in 1 .. Len(out) /\ out'[k] = out[k]
        \/ k - Len(out) \in 1 .. n /\ out'[k] = i + (k - Len(out)) - 1
  <2>1. ASSUME NEW k \in 1 .. Len(out'), k \notin 1 .. Len(out)
        PROVE  k - Len(out) \in 1 .. n /\ Len(out) + (k - Len(out)) = k
    BY <2>1, <1>0, <1>1, <1>8
  <2> QED  BY <2>1, <1>8
<1>10. Increasing(out')
  <2> SUFFICES ASSUME NEW k \in 1 .. Len(out'), NEW h \in 1 .. Len(out'), k < h
               PROVE  out'[k] < out'[h]
    BY DEF Increasing
  <2>1. CASE h \in 1 .. Len(out)
    <3>1. k \in 1 .. Len(out)
      BY <2>1, <1>0, <1>1, <1>8
    <3> QED  BY <2>1, <3>1, <1>0, <1>8 DEF Increasing
  <2>2. CASE h - Len(out) \in 1 .. n /\ out'[h] = i + (h - Len(out)) - 1
    <3>1. CASE k \in 1 .. Len(out)
      <4>1. out'[k] = out[k] /\ out[k] < i /\ out[k] \in Nat
        BY <3>1, <1>0, <1>8
      <4> QED  BY <4>1, <2>2
    <3>2. CASE k - Len(out) \in 1 .. n /\ out'[k] = i + (k - Len(out)) - 1
      BY <3>2, <2>2, <1>0, <1>1, <1>8
    <3> QED  BY <3>1, <3>2, <1>9
  <2> QED  BY <2>1, <2>2, <1>9
<1>11. \A k \in 1 .. Len(out') : out'[k] < i + m
  BY <1>0, <1>1, <1>9
<1>12. ASSUME ~cut'
       PROVE  ~cut /\ {out'[k] : k \in 1 .. Len(out')} =
                        {out[k] : k \in 1 .. Len(out)} \union (i .. i + m - 1)
  <2>1. ~cut /\ ~(n < m)
    BY <1>12, <1>2, Zenon
  <2>2. n = m
    BY <2>1, <1>1
  <2>3. ASSUME NEW q \in i .. i + m - 1
        PROVE  \E k \in 1 .. Len(out') : out'[k] = q
    <3>1. q - i + 1 \in 1 .. n /\ i + (q - i + 1) - 1 = q
      BY <2>2
    <3>2. Len(out) + (q - i + 1) \in 1 .. Len(out')
      BY <3>1, <1>0, <1>1, <1>8
    <3> QED  BY <3>1, <3>2, <1>8
  <2>4. \A k \in 1 .. Len(out) : k \in 1 .. Len(out')
    BY <1>0, <1>1, <1>8
  <2>5. \A k \in 1 .. Len(out') :
          \/ \E h \in 1 .. Len(out) : out'[k] = out[h]
          \/ out'[k] \in i .. i + m - 1
    <3>1. \A h \in 1 .. n : i + h - 1 \in i .. i + m - 1
      BY <2>2, <1>1
    <3> QED  BY <3>1, <1>9
  <2>6. \A k \in 1 .. Len(out) : \E h \in 1 .. Len(out') : out'[h] = out[k]
    BY <2>4, <1>8
  <2> DEFINE before == {out[k] : k \in 1 .. Len(out)}
             after == {out'[k] : k \in 1 .. Len(out')}
  <2>7. \A q \in after : q \in before \union (i .. i + m - 1)
    BY <2>5
  <2>8. \A q \in before \union (i .. i + m - 1) : q \in after
    BY <2>3, <2>6
  <2>9. after = before \union (i .. i + m - 1)
    <3> HIDE DEF before, after
    <3> QED  BY <2>7, <2>8
  <2> QED  BY <2>1, <2>9
<1> QED  BY <1>0, <1>2, <1>3, <1>8, <1>10, <1>11, <1>12

(* The item from i to the byte after the stream, as the filter writes it.  *)
Whole(i) == [k \in 1 .. Len(stream) - i + 2 |-> i + k - 1]

(* A step whose new mode fits the new item, and which writes what became   *)
(* visible, keeps the invariant.                                           *)
LEMMA StepOK ==
  ASSUME FilterIInv, NEW i \in 1 .. Len(stream) + 1, Knows(i), NEW b \in ByteClass,
         NEW next, next = NextItem(stream, i, b),
         stream' = Append(stream, b), Len(stream) < MaxBytes,
         taken < InMax, taken' = taken + 1,
         ModeOK(next)',
         \/ /\ EmitNothing
            /\ ~(EndsNow(stream, i, b) /\ Shown(stream', i, Len(stream) + 1))
         \/ /\ Emit(Whole(i))
            /\ EndsNow(stream, i, b) /\ Shown(stream', i, Len(stream) + 1)
  PROVE  FilterIInv'
<1> DEFINE n == Len(stream)
<1>1. /\ stream \in Seq(ByteClass) /\ n \in Nat /\ n + 1 <= MaxBytes
      /\ stream' \in Seq(ByteClass) /\ Len(stream') = n + 1
      /\ taken' \in 0 .. InMax
      /\ written \in 0 .. OutMax /\ cut \in BOOLEAN /\ out \in Seq(1 .. n)
  BY FilterAssumption DEF FilterIInv, FilterTypes
<1>2. Unended(stream, i) /\ \A k \in 1 .. Len(out) : out[k] < i
  BY DEF Knows
<1>3. Unended(stream', next)
  BY <1>1, <1>2, UnendedAfter
<1>4. next \in 1 .. Len(stream') + 1
  <2> DEFINE t == stream'
  <2>1. t \in Seq(ByteClass) /\ next \in Starts(t)
    BY <1>1, <1>3 DEF Unended
  <2> HIDE DEF t
  <2>2. next \in 1 .. Len(t) + 1
    BY <2>1, StartsDefined
  <2> QED  BY <2>2 DEF t
<1>5. Visible(stream') =
        Visible(stream) \union (IF EndsNow(stream, i, b) /\ Shown(stream', i, n + 1)
                                THEN i .. n + 1 ELSE {})
  BY <1>1, <1>2, VisibleAfter
<1>6. i <= next
  BY <1>1 DEF NextItem, TwoEscapes
<1>7. CASE EmitNothing /\ ~(EndsNow(stream, i, b) /\ Shown(stream', i, n + 1))
  <2>1. out' = out /\ written' = written /\ cut' = cut
    BY <1>7 DEF EmitNothing
  <2>2. Visible(stream') = Visible(stream)
    BY <1>5, <1>7
  <2>3. out \in Seq(1 .. n + 1)
    BY <1>1
  <2>4. FilterTypes'
    BY <1>1, <2>1, <2>3 DEF FilterTypes
  <2>5. OutOK'
    BY <2>1, <2>2 DEF FilterIInv, OutOK
  <2>6. \A k \in 1 .. Len(out') : out'[k] < next
    BY <2>1, <1>1, <1>2, <1>4, <1>6
  <2>7. Knows(next)'
    BY <1>3, <2>6 DEF Knows
  <2> QED  BY <2>4, <2>5, <2>7, <1>4 DEF FilterIInv
<1>8. CASE /\ Emit(Whole(i))
           /\ EndsNow(stream, i, b) /\ Shown(stream', i, n + 1)
  <2> DEFINE m == n - i + 2
             bytes == Whole(i)
  <2>1. /\ m \in Nat /\ i \in Nat /\ i >= 1 /\ i + m - 1 <= n + 1 /\ i + m - 1 = n + 1
        /\ i + m = n + 2 /\ bytes = [k \in 1 .. m |-> i + k - 1]
    BY <1>1 DEF Whole
  <2>2. next = n + 2
    BY <1>8 DEF NextItem, EndsNow
  <2> HIDE DEF m, bytes
  <2>3. /\ written' \in 0 .. OutMax /\ cut' \in BOOLEAN
        /\ out' \in Seq(1 .. n + 1) /\ Increasing(out')
        /\ \A k \in 1 .. Len(out') : out'[k] < i + m
        /\ ~cut' => ~cut /\ {out'[k] : k \in 1 .. Len(out')} =
                              {out[k] : k \in 1 .. Len(out)} \union (i .. i + m - 1)
    <3>1. Emit(bytes)
      BY <1>8 DEF bytes
    <3> QED  BY <3>1, <2>1, <1>2, EmitAdds
  <2>4. Visible(stream') = Visible(stream) \union (i .. n + 1)
    BY <1>5, <1>8
  <2>5. FilterTypes'
    BY <1>1, <2>3 DEF FilterTypes
  <2>6. OutOK'
    BY <2>1, <2>3, <2>4 DEF FilterIInv, OutOK
  <2>7. Knows(next)'
    BY <1>3, <2>1, <2>2, <2>3 DEF Knows
  <2> QED  BY <2>5, <2>6, <2>7, <1>4 DEF FilterIInv
<1> QED  BY <1>7, <1>8

(* A byte more for the sequence, while there is room for it.               *)
LEMMA KeptMore ==
  ASSUME stream \in Seq(ByteClass), NEW i \in 1 .. Len(stream), Kept(i)
  PROVE  LET n == Len(stream) + 1 - i + 1
             kept == Appended(Len(stream) + 1)
         IN  /\ kept.sequence = [k \in 1 .. (IF n <= SeqMax THEN n ELSE SeqMax) |-> i + k - 1]
             /\ kept.overlong \in BOOLEAN /\ (kept.overlong <=> n > SeqMax)
             /\ n <= SeqMax => kept.sequence = Whole(i)
<1> USE FilterAssumption
<1> DEFINE old == Len(stream) - i + 1
           size == IF old <= SeqMax THEN old ELSE SeqMax
           p == Len(stream) + 1
<1>1. /\ Len(stream) \in Nat /\ old \in Nat /\ old >= 1 /\ p = i + old
      /\ Len(stream) + 1 - i + 1 = old + 1 /\ Len(stream) - i + 2 = old + 1
      /\ size \in Nat /\ SeqMax \in Nat /\ i \in Nat
  OBVIOUS
<1>2. /\ sequence = [k \in 1 .. size |-> i + k - 1]
      /\ overlong \in BOOLEAN /\ (overlong <=> old > SeqMax)
  BY DEF Kept
<1> HIDE DEF old, p, size
<1>3. sequence \in Seq(Nat) /\ Len(sequence) = size
  BY <1>1, <1>2
<1>4. CASE old < SeqMax
  <2>1. size = old /\ Len(sequence) < SeqMax
    BY <1>1, <1>3, <1>4 DEF size
  <2>2. Append(sequence, p) = [k \in 1 .. old + 1 |-> i + k - 1]
    <3>1. \A k \in 1 .. old : sequence[k] = i + k - 1
      BY <1>1, <1>2, <2>1
    <3>2. Append(sequence, p) = [k \in 1 .. old + 1 |-> IF k <= old THEN sequence[k] ELSE p]
      BY <1>1, <1>3, <2>1
    <3>3. \A k \in 1 .. old + 1 : (IF k <= old THEN sequence[k] ELSE p) = i + k - 1
      BY <1>1, <3>1
    <3> QED  BY <3>2, <3>3
  <2>3. /\ Appended(p).sequence = Append(sequence, p)
        /\ Appended(p).overlong = overlong
    BY <2>1, Zenon DEF Appended
  <2>4. ~overlong /\ ~(old + 1 > SeqMax) /\ old + 1 <= SeqMax
    BY <1>1, <1>2, <1>4
  <2>5. Appended(p).overlong \in BOOLEAN /\ ~Appended(p).overlong
    BY <2>3, <2>4, <1>2, Zenon
  <2>6. Appended(p).sequence = [k \in 1 .. old + 1 |-> i + k - 1]
    BY <2>2, <2>3, Zenon
  <2> QED  BY <2>4, <2>5, <2>6, <1>1 DEF p, Whole
<1>5. CASE old >= SeqMax
  <2>1. size = SeqMax /\ ~(Len(sequence) < SeqMax)
    BY <1>1, <1>3, <1>5 DEF size
  <2>2. Appended(p).sequence = sequence /\ Appended(p).overlong = TRUE
    BY <2>1, Zenon DEF Appended
  <2>3. old + 1 > SeqMax /\ ~(old + 1 <= SeqMax)
    BY <1>1, <1>5
  <2> QED  BY <2>1, <2>2, <2>3, <1>1, <1>2 DEF p
<1> QED  BY <1>1, <1>4, <1>5

(* What a flush does: all of the item or nothing.                          *)
LEMMA FlushWrites ==
  ASSUME FilterIInv, NEW i \in 1 .. Len(stream), Kept(i), Flush(Appended(Len(stream) + 1))
  PROVE  /\ sequence' = <<>> /\ overlong' = FALSE
         /\ Len(stream) - i + 2 <= SeqMax => Emit(Whole(i))
         /\ ~(Len(stream) - i + 2 <= SeqMax) => EmitNothing
<1> USE FilterAssumption
<1> DEFINE p == Len(stream) + 1
           m == Len(stream) - i + 2
<1>1. /\ stream \in Seq(ByteClass) /\ Len(stream) \in Nat /\ m = Len(stream) + 1 - i + 1
      /\ written \in 0 .. OutMax /\ cut \in BOOLEAN /\ out \in Seq(1 .. Len(stream))
  BY DEF FilterIInv, FilterTypes
<1>2. /\ Appended(p).overlong \in BOOLEAN /\ (Appended(p).overlong <=> m > SeqMax)
      /\ m <= SeqMax => Appended(p).sequence = Whole(i)
  BY <1>1, KeptMore
<1>3. sequence' = <<>> /\ overlong' = FALSE
  BY DEF Flush, Keep
<1>4. Emit(IF Appended(p).overlong THEN <<>> ELSE Appended(p).sequence)
  BY DEF Flush
<1>5. CASE m <= SeqMax
  <2>1. ~Appended(p).overlong
    BY <1>1, <1>2, <1>5
  <2>2. (IF Appended(p).overlong THEN <<>> ELSE Appended(p).sequence) = Whole(i)
    BY <1>2, <1>5, <2>1
  <2>3. Emit(Whole(i))
    BY <1>4, <2>2
  <2> QED  BY <1>3, <1>5, <2>3
<1>6. CASE ~(m <= SeqMax)
  <2>1. Appended(p).overlong
    BY <1>1, <1>2, <1>6
  <2>2. Emit(<<>>)
    BY <1>4, <2>1
  <2>3. written' = written /\ (cut' <=> cut) /\ out' = out \o SubSeq(<<>>, 1, 0)
    <3>1. Len(<<>>) = 0 /\ 0 <= OutMax - written /\ written + 0 = written /\ ~(0 < 0)
      BY <1>1
    <3> QED  BY <2>2, <3>1, <1>1 DEF Emit
  <2>4. cut' = cut
    <3>1. cut' = (cut \/ (IF Len(<<>>) <= OutMax - written
                          THEN Len(<<>>) ELSE OutMax - written) < Len(<<>>))
      BY <2>2, Zenon DEF Emit
    <3>2. (IF Len(<<>>) <= OutMax - written
           THEN Len(<<>>) ELSE OutMax - written) < Len(<<>>) <=> FALSE
      BY <1>1
    <3> QED  BY <3>1, <3>2, <1>1, Zenon
  <2>5. out \o SubSeq(<<>>, 1, 0) = out
    BY <1>1
  <2> QED  BY <1>3, <1>6, <2>3, <2>4, <2>5 DEF EmitNothing
<1> QED  BY <1>5, <1>6

(* What every turn of the loop does.                                       *)
Turned(b) ==
  /\ stream' = Append(stream, b) /\ Len(stream) < MaxBytes
  /\ taken < InMax /\ taken' = taken + 1

(* What they have in common.                                               *)
LEMMA TurnFacts ==
  ASSUME FilterIInv, NEW b \in ByteClass, Turned(b)
  PROVE  /\ stream \in Seq(ByteClass) /\ Len(stream) \in Nat
         /\ Len(stream') = Len(stream) + 1 /\ stream'[Len(stream) + 1] = b
         /\ \A k \in 1 .. Len(stream) : stream'[k] = stream[k]
  BY DEF FilterIInv, FilterTypes, Turned

(* A turn in the mode TEXT.                                                *)
LEMMA TextStep ==
  ASSUME FilterIInv, NEW i \in 1 .. Len(stream) + 1, Knows(i), NEW b \in ByteClass,
         Turned(b), Text(b, Len(stream) + 1)
  PROVE  FilterIInv'
<1> USE FilterAssumption
<1> DEFINE n == Len(stream)
<1>1. /\ stream \in Seq(ByteClass) /\ n \in Nat
      /\ Len(stream') = n + 1 /\ stream'[n + 1] = b
      /\ \A k \in 1 .. n : stream'[k] = stream[k]
      /\ stream' = Append(stream, b)
  BY TurnFacts DEF Turned
<1>2. mode = "TEXT" /\ i = n + 1 /\ NothingKept
  BY <1>1 DEF Knows, ModeOK, Text
<1>3. ~TwoEscapes(stream, i, b)
  BY <1>1, <1>2 DEF TwoEscapes
<1>4. PICK next : next = NextItem(stream, i, b)
  OBVIOUS
<1>5. CASE b = ESC
  <2>1. ~EndsNow(stream, i, b)
    BY <1>1, <1>2, <1>5 DEF EndsNow, Item
  <2>2. next = n + 1
    BY <1>2, <1>3, <1>4, <2>1 DEF NextItem
  <2>3. sequence' = <<n + 1>> /\ overlong' = FALSE /\ mode' = "ESC" /\ EmitNothing
    BY <1>5 DEF Text, Keep
  <2>4. Kept(next)'
    <3>1. Len(stream') - next + 1 = 1 /\ ~(1 > SeqMax) /\ 1 <= SeqMax
      BY <1>1, <2>2
    <3>2. <<n + 1>> = [k \in 1 .. 1 |-> next + k - 1]
      BY <1>1, <2>2
    <3> QED  BY <3>1, <3>2, <2>3 DEF Kept
  <2>5. ModeOK(next)'
    BY <2>2, <2>3, <2>4, <1>1, <1>5 DEF ModeOK
  <2> QED  BY <2>1, <2>3, <2>5, <1>1, <1>4, StepOK DEF Turned
<1>6. CASE b # ESC
  <2>1. EndsNow(stream, i, b)
    BY <1>1, <1>2, <1>3, <1>6 DEF EndsNow, Item
  <2>2. next = n + 2
    BY <1>3, <1>4, <2>1 DEF NextItem
  <2>3. Shown(stream', i, n + 1) <=> b \in SafeText
    BY <1>1, <1>2 DEF Shown
  <2>4. mode' = "TEXT" /\ NothingKept'
    BY <1>2, <1>6 DEF Text, NothingKept
  <2>5. ModeOK(next)'
    BY <2>2, <2>4, <1>1 DEF ModeOK
  <2>6. CASE b \in SafeText
    <3>1. Emit(<<n + 1>>)
      BY <1>6, <2>6 DEF Text
    <3>2. <<n + 1>> = Whole(i)
      <4>1. Len(stream) - i + 2 = 1
        BY <1>1, <1>2
      <4> QED  BY <4>1, <1>1, <1>2 DEF Whole
    <3>3. Emit(Whole(i))
      BY <3>1, <3>2
    <3> QED  BY <2>1, <2>3, <2>5, <2>6, <3>3, <1>1, <1>4, StepOK DEF Turned
  <2>7. CASE b \notin SafeText
    <3>1. EmitNothing
      BY <1>6, <2>7 DEF Text
    <3> QED  BY <2>3, <2>5, <2>7, <3>1, <1>1, <1>4, StepOK DEF Turned
  <2> QED  BY <2>6, <2>7
<1> QED  BY <1>5, <1>6

(* A turn in the mode ESC.                                                 *)
LEMMA EscapeStep ==
  ASSUME FilterIInv, NEW i \in 1 .. Len(stream) + 1, Knows(i), NEW b \in ByteClass,
         Turned(b), Escape(b, Len(stream) + 1)
  PROVE  FilterIInv'
<1> USE FilterAssumption
<1> DEFINE n == Len(stream)
<1>1. /\ stream \in Seq(ByteClass) /\ n \in Nat
      /\ Len(stream') = n + 1 /\ stream'[n + 1] = b
      /\ \A k \in 1 .. n : stream'[k] = stream[k]
      /\ stream' = Append(stream, b)
  BY TurnFacts DEF Turned
<1>2. mode = "ESC" /\ i = n /\ stream[n] = ESC /\ Kept(n) /\ n >= 1
  BY <1>1 DEF Knows, ModeOK, Escape
<1>3. stream'[n] = ESC /\ stream'[i] = ESC /\ stream'[i + 1] = b
  BY <1>1, <1>2
<1>4. PICK next : next = NextItem(stream, i, b)
  OBVIOUS
<1>5. TwoEscapes(stream, i, b) <=> b = ESC
  BY <1>2 DEF TwoEscapes
<1>6. CASE b = "["
  <2>1. ~TwoEscapes(stream, i, b) /\ ~EndsNow(stream, i, b)
    BY <1>1, <1>2, <1>3, <1>5, <1>6 DEF EndsNow, Item, ESC
  <2>2. next = n
    BY <1>2, <1>4, <2>1 DEF NextItem
  <2>3. /\ mode' = "CSI" /\ EmitNothing
        /\ sequence' = Appended(n + 1).sequence /\ overlong' = Appended(n + 1).overlong
    BY <1>6 DEF Escape, Keep, ESC
  <2>4. Kept(next)'
    <3>1. n \in 1 .. Len(stream) /\ Len(stream') - n + 1 = Len(stream) + 1 - n + 1
      BY <1>1, <1>2
    <3> QED  BY <3>1, <2>2, <2>3, <1>1, <1>2, KeptMore DEF Kept
  <2>5. ModeOK(next)'
    BY <2>2, <2>3, <2>4, <1>1, <1>2, <1>3, <1>6 DEF ModeOK
  <2> QED  BY <2>1, <2>3, <2>5, <1>1, <1>4, StepOK DEF Turned
<1>7. CASE b = "]"
  <2>1. ~TwoEscapes(stream, i, b) /\ ~EndsNow(stream, i, b)
    BY <1>1, <1>2, <1>3, <1>5, <1>7 DEF EndsNow, Item, ESC
  <2>2. next = n
    BY <1>2, <1>4, <2>1 DEF NextItem
  <2>3. /\ mode' = "OSC" /\ EmitNothing /\ sequence' = <<>> /\ overlong' = FALSE
    BY <1>7 DEF Escape, Keep, ESC
  <2>4. NothingKept' /\ ~EscLast(next)'
    BY <2>2, <2>3, <1>1 DEF NothingKept, EscLast
  <2>5. ModeOK(next)'
    BY <2>2, <2>3, <2>4, <1>1, <1>2, <1>3, <1>7 DEF ModeOK
  <2> QED  BY <2>1, <2>3, <2>5, <1>1, <1>4, StepOK DEF Turned
<1>8. CASE b = ESC
  <2>1. TwoEscapes(stream, i, b) /\ ~EndsNow(stream, i, b)
    BY <1>5, <1>8 DEF EndsNow
  <2>2. next = n + 1
    BY <1>4, <2>1 DEF NextItem
  <2>3. mode' = "ESC" /\ EmitNothing /\ sequence' = <<n + 1>> /\ overlong' = FALSE
    BY <1>2, <1>8 DEF Escape, Keep, ESC
  <2>4. Kept(next)'
    <3>1. Len(stream') - next + 1 = 1 /\ ~(1 > SeqMax) /\ 1 <= SeqMax
      BY <1>1, <2>2
    <3>2. <<n + 1>> = [k \in 1 .. 1 |-> next + k - 1]
      BY <1>1, <2>2
    <3> QED  BY <3>1, <3>2, <2>3 DEF Kept
  <2>5. ModeOK(next)'
    BY <2>2, <2>3, <2>4, <1>1, <1>8 DEF ModeOK
  <2> QED  BY <2>1, <2>3, <2>5, <1>1, <1>4, StepOK DEF Turned
<1>9. CASE b \notin {"[", "]", ESC}
  <2>1. EndsNow(stream, i, b)
    BY <1>1, <1>2, <1>3, <1>5, <1>9 DEF EndsNow, Item
  <2>2. next = n + 2
    BY <1>4, <2>1 DEF NextItem, EndsNow
  <2>3. Shown(stream', i, n + 1)
    BY <1>1, <1>2, <1>3, <1>9 DEF Shown
  <2>4. mode' = "TEXT" /\ Flush(Appended(n + 1))
    BY <1>9 DEF Escape
  <2>5. NothingKept' /\ Emit(Whole(i))
    <3>1. i \in 1 .. Len(stream) /\ Len(stream) - i + 2 <= SeqMax /\ Kept(i)
      BY <1>1, <1>2
    <3> QED  BY <3>1, <2>4, FlushWrites DEF NothingKept
  <2>6. ModeOK(next)'
    BY <2>2, <2>4, <2>5, <1>1 DEF ModeOK
  <2> QED  BY <2>1, <2>3, <2>5, <2>6, <1>1, <1>4, StepOK DEF Turned
<1> QED  BY <1>6, <1>7, <1>8, <1>9

(* A turn in the mode CSI.                                                 *)
LEMMA CsiStep ==
  ASSUME FilterIInv, NEW i \in 1 .. Len(stream) + 1, Knows(i), NEW b \in ByteClass,
         Turned(b), Csi(b, Len(stream) + 1)
  PROVE  FilterIInv'
<1> USE FilterAssumption
<1> DEFINE n == Len(stream)
<1>1. /\ stream \in Seq(ByteClass) /\ n \in Nat
      /\ Len(stream') = n + 1 /\ stream'[n + 1] = b
      /\ \A k \in 1 .. n : stream'[k] = stream[k]
      /\ stream' = Append(stream, b)
  BY TurnFacts DEF Turned
<1>2. mode = "CSI" /\ i < n /\ stream[i] = ESC /\ stream[i + 1] = "[" /\ Kept(i)
  BY <1>1 DEF Knows, ModeOK, Csi
<1>3. /\ stream'[i] = ESC /\ stream'[i + 1] = "[" /\ i \in 1 .. Len(stream)
      /\ n + 1 > i + 1 /\ i < n + 1 /\ ~TwoEscapes(stream, i, b)
  BY <1>1, <1>2 DEF TwoEscapes
<1>4. PICK next : next = NextItem(stream, i, b)
  OBVIOUS
<1>5. EndsNow(stream, i, b) <=> b \in CsiFinal
  BY <1>1, <1>3 DEF EndsNow, Item, ESC
<1>6. CASE b \in CsiFinal
  <2>1. next = n + 2
    BY <1>3, <1>4, <1>5, <1>6 DEF NextItem
  <2>2. Shown(stream', i, n + 1) <=> n - i + 2 <= SeqMax
    <3>1. (n + 1) - i + 1 = n - i + 2 /\ i # n + 1
      BY <1>1, <1>3
    <3> QED  BY <3>1, <1>3 DEF Shown
  <2>3. mode' = "TEXT" /\ Flush(Appended(n + 1))
    BY <1>6 DEF Csi
  <2>4. /\ NothingKept'
        /\ n - i + 2 <= SeqMax => Emit(Whole(i))
        /\ ~(n - i + 2 <= SeqMax) => EmitNothing
    BY <2>3, <1>2, <1>3, FlushWrites DEF NothingKept
  <2>5. ModeOK(next)'
    BY <2>1, <2>3, <2>4, <1>1 DEF ModeOK
  <2> QED  BY <2>2, <2>4, <2>5, <1>1, <1>4, <1>5, <1>6, StepOK DEF Turned
<1>7. CASE b \notin CsiFinal
  <2>1. next = i
    BY <1>3, <1>4, <1>5, <1>7 DEF NextItem
  <2>2. /\ mode' = "CSI" /\ EmitNothing
        /\ sequence' = Appended(n + 1).sequence /\ overlong' = Appended(n + 1).overlong
    BY <1>2, <1>7 DEF Csi, Keep
  <2>3. Kept(next)'
    <3>1. Len(stream') - i + 1 = Len(stream) + 1 - i + 1
      BY <1>1
    <3> QED  BY <3>1, <2>1, <2>2, <1>1, <1>2, <1>3, KeptMore DEF Kept
  <2>4. ModeOK(next)'
    BY <2>1, <2>2, <2>3, <1>1, <1>3 DEF ModeOK
  <2> QED  BY <2>2, <2>4, <1>1, <1>4, <1>5, <1>7, StepOK DEF Turned
<1> QED  BY <1>6, <1>7

(* Both modes of an OSC: it ends without a byte shown, or goes on.         *)
LEMMA OscStep ==
  ASSUME FilterIInv, NEW i \in 1 .. Len(stream) + 1, Knows(i), NEW b \in ByteClass,
         Turned(b), Osc(b) \/ OscEsc(b)
  PROVE  FilterIInv'
<1> USE FilterAssumption
<1> DEFINE n == Len(stream)
<1>1. /\ stream \in Seq(ByteClass) /\ n \in Nat
      /\ Len(stream') = n + 1 /\ stream'[n + 1] = b
      /\ \A k \in 1 .. n : stream'[k] = stream[k]
      /\ stream' = Append(stream, b)
  BY TurnFacts DEF Turned
<1>2. /\ i < n /\ stream[i] = ESC /\ stream[i + 1] = "]" /\ NothingKept
      /\ (mode = "OSC" /\ ~EscLast(i)) \/ (mode = "OSC_ESC" /\ EscLast(i))
  BY <1>1 DEF Knows, ModeOK, Osc, OscEsc
<1>3. /\ stream'[i] = ESC /\ stream'[i + 1] = "]" /\ stream'[n] = stream[n]
      /\ n + 1 > i + 1 /\ i < n + 1 /\ i # n + 1 /\ ~TwoEscapes(stream, i, b)
  BY <1>1, <1>2 DEF TwoEscapes
<1>4. PICK next : next = NextItem(stream, i, b)
  OBVIOUS
<1>5. ~Shown(stream', i, n + 1)
  BY <1>3 DEF Shown
<1>6. EmitNothing /\ NothingKept'
  BY <1>2 DEF Osc, OscEsc, NothingKept
<1>7. OscEnds(stream', i, n + 1) <=> (b = BEL /\ ~EscLast(i)) \/ (b = "\\" /\ EscLast(i))
  <2>1. (n + 1) - 1 = n
    BY <1>1
  <2> QED  BY <2>1, <1>1, <1>3 DEF OscEnds, EscLast
<1>8. EndsNow(stream, i, b) <=> OscEnds(stream', i, n + 1)
  BY <1>1, <1>3 DEF EndsNow, Item, ESC
<1>9. EscLast(i)' <=> b = ESC
  BY <1>1, <1>3 DEF EscLast
<1>10. /\ mode = "OSC" => mode' = IF b = BEL THEN "TEXT" ELSE IF b = ESC THEN "OSC_ESC" ELSE "OSC"
       /\ mode = "OSC_ESC" =>
            mode' = IF b = "\\" THEN "TEXT" ELSE IF b = ESC THEN "OSC_ESC" ELSE "OSC"
  BY DEF Osc, OscEsc, ESC, BEL
<1>11. ModeOK(next)'
  <2>1. CASE EndsNow(stream, i, b)
    <3>1. next = n + 2
      BY <2>1, <1>3, <1>4 DEF NextItem
    <3>2. mode' = "TEXT"
      BY <2>1, <1>2, <1>7, <1>8, <1>10
    <3> QED  BY <3>1, <3>2, <1>1, <1>6 DEF ModeOK
  <2>2. CASE ~EndsNow(stream, i, b)
    <3>1. next = i
      BY <2>2, <1>3, <1>4 DEF NextItem
    <3>2. mode' = IF b = ESC THEN "OSC_ESC" ELSE "OSC"
      BY <2>2, <1>2, <1>7, <1>8, <1>10
    <3> QED  BY <3>1, <3>2, <1>1, <1>3, <1>6, <1>9 DEF ModeOK
  <2> QED  BY <2>1, <2>2
<1> QED  BY <1>1, <1>4, <1>5, <1>6, <1>11, StepOK DEF Turned

(* All the modes, and the ends of the calls.                               *)
LEMMA FilterInvariant == FilterSpec => []FilterIInv
<1> USE FilterAssumption
<1>1. FilterInit => FilterIInv
  <2> SUFFICES ASSUME FilterInit PROVE FilterIInv
    OBVIOUS
  <2>1. stream = <<>> /\ out = <<>> /\ Len(stream) = 0 /\ stream \in Seq(ByteClass)
    BY DEF FilterInit
  <2>2. \A m : m \in Starts(stream) <=> m = 1
    <3>1. Len(stream) \in Nat /\ 1 .. Len(stream) + 1 = {1}
      BY <2>1
    <3> QED  BY <3>1, StartsDefined
  <2>3. Unended(stream, 1)
    BY <2>1, <2>2 DEF Unended
  <2>4. Visible(stream) = {}
    BY <2>1 DEF Visible
  <2>5. OutOK
    BY <2>1, <2>4 DEF OutOK, Increasing
  <2>6. Knows(1)
    BY <2>1, <2>3 DEF FilterInit, Knows, ModeOK, NothingKept
  <2>7. FilterTypes
    <3>1. <<>> \in Seq(1 .. Len(stream))
      OBVIOUS
    <3>2. out \in Seq(1 .. Len(stream))
      BY <2>1, <3>1, Zenon
    <3>3. Len(stream) <= MaxBytes /\ taken \in 0 .. InMax /\ written \in 0 .. OutMax
      BY <2>1 DEF FilterInit
    <3>4. cut \in BOOLEAN
      BY DEF FilterInit
    <3> QED  BY <2>1, <3>2, <3>3, <3>4, Zenon DEF FilterTypes
  <2> QED  BY <2>1, <2>5, <2>6, <2>7 DEF FilterIInv
<1>2. FilterIInv /\ [FilterNext]_filterVars => FilterIInv'
  <2> SUFFICES ASSUME FilterIInv, [FilterNext]_filterVars PROVE FilterIInv'
    OBVIOUS
  <2>1. ASSUME NEW b \in ByteClass, Filter(b) PROVE FilterIInv'
    <3>1. Turned(b) /\ \/ Text(b, Len(stream) + 1) \/ Escape(b, Len(stream) + 1)
                       \/ Csi(b, Len(stream) + 1) \/ Osc(b) \/ OscEsc(b)
      BY <2>1 DEF Filter, Turned
    <3>2. PICK i \in 1 .. Len(stream) + 1 : Knows(i)
      BY DEF FilterIInv
    <3> QED  BY <3>1, <3>2, TextStep, EscapeStep, CsiStep, OscStep
  <2>2. CASE NextCall
    <3>1. UNCHANGED <<stream, mode, sequence, overlong, out, cut>>
      BY <2>2 DEF NextCall
    <3>2. FilterTypes'
      BY <2>2 DEF NextCall, FilterIInv, FilterTypes
    <3> QED  BY <3>1, <3>2 DEF FilterIInv, OutOK, Knows, ModeOK, Kept, NothingKept, EscLast
  <2>3. CASE UNCHANGED filterVars
    BY <2>3 DEF filterVars, FilterIInv, FilterTypes, OutOK, Knows, ModeOK, Kept,
                NothingKept, EscLast
  <2> QED  BY <2>1, <2>2, <2>3 DEF FilterNext
<1> QED  BY <1>1, <1>2, PTL DEF FilterSpec

(* In every mode, the bytes kept are the first ones of the unended item.   *)
LEMMA KeptIsOfItem ==
  ASSUME FilterIInv, NEW i \in 1 .. Len(stream) + 1, Knows(i)
  PROVE  \E size \in 0 .. SeqMax :
           /\ sequence = [k \in 1 .. size |-> i + k - 1]
           /\ i + size - 1 <= Len(stream)
           /\ overlong \in BOOLEAN
<1> USE FilterAssumption
<1>1. Len(stream) \in Nat
  BY DEF FilterIInv, FilterTypes
<1>2. CASE NothingKept
  <2>1. i + 0 - 1 <= Len(stream)
    BY <1>1
  <2>2. <<>> = [k \in 1 .. 0 |-> i + k - 1]
    <3> DEFINE none == [k \in 1 .. 0 |-> i + k - 1]
    <3>1. none \in Seq(Nat) /\ Len(none) = 0
      OBVIOUS
    <3> HIDE DEF none
    <3>2. none = <<>>
      BY <3>1
    <3> QED  BY <3>2 DEF none
  <2>3. sequence = [k \in 1 .. 0 |-> i + k - 1] /\ overlong \in BOOLEAN
    BY <2>2, <1>2, Zenon DEF NothingKept
  <2>4. 0 \in 0 .. SeqMax
    OBVIOUS
  <2> QED  BY <2>1, <2>3, <2>4, Zenon
<1>3. CASE Kept(i)
  <2> DEFINE n == Len(stream) - i + 1
             size == IF n <= SeqMax THEN n ELSE SeqMax
  <2>1. size \in 0 .. SeqMax /\ i + size - 1 <= Len(stream)
    BY <1>1
  <2>2. sequence = [k \in 1 .. size |-> i + k - 1] /\ overlong \in BOOLEAN
    BY <1>3 DEF Kept
  <2> QED  BY <2>1, <2>2
<1> QED  BY <1>2, <1>3 DEF Knows, ModeOK

(* The position in the stream, the kept sequence and the output are within *)
(* their bounds.                                                           *)
THEOREM FilterTypeCorrect == FilterSpec => []FilterTypeOK
<1> USE FilterAssumption
<1>1. FilterIInv => FilterTypeOK
  <2> SUFFICES ASSUME FilterIInv PROVE FilterTypeOK
    OBVIOUS
  <2>1. /\ stream \in Seq(ByteClass) /\ Len(stream) \in Nat /\ Len(stream) <= MaxBytes
        /\ taken \in 0 .. InMax /\ written \in 0 .. OutMax /\ cut \in BOOLEAN
        /\ out \in Seq(1 .. Len(stream))
    BY DEF FilterIInv, FilterTypes
  <2>2. PICK i \in 1 .. Len(stream) + 1 : Knows(i)
    BY DEF FilterIInv
  <2>3. PICK size \in 0 .. SeqMax :
           /\ sequence = [k \in 1 .. size |-> i + k - 1]
           /\ i + size - 1 <= Len(stream)
           /\ overlong \in BOOLEAN
    BY <2>2, KeptIsOfItem
  <2>4. \A k \in 1 .. size : i + k - 1 \in 1 .. MaxBytes
    BY <2>1, <2>3
  <2>5. sequence \in Seq(1 .. MaxBytes) /\ Len(sequence) <= SeqMax
    BY <2>3, <2>4
  <2>6. out \in Seq(1 .. MaxBytes)
    BY <2>1
  <2>7. mode \in {"TEXT", "ESC", "CSI", "OSC", "OSC_ESC"}
    BY <2>2 DEF Knows, ModeOK
  <2> QED  BY <2>1, <2>3, <2>5, <2>6, <2>7 DEF FilterTypeOK
<1> QED  BY <1>1, FilterInvariant, PTL

(* Wherever the reads cut the stream, the browsers get its visible items,  *)
(* each whole and in order.                                                *)
THEOREM CallsAreSeamless == FilterSpec => []CallsDoNotMatter
<1>1. FilterIInv => CallsDoNotMatter
  BY DEF FilterIInv, OutOK, CallsDoNotMatter, Positions
<1> QED  BY <1>1, FilterInvariant, PTL

(* What is kept comes after what is written.                               *)
LEMMA PassedIncreases ==
  ASSUME FilterIInv
  PROVE  Increasing(Passed)
<1> USE FilterAssumption
<1>1. /\ out \in Seq(1 .. Len(stream)) /\ Len(out) \in Nat /\ Increasing(out)
      /\ \A k \in 1 .. Len(out) : out[k] \in Nat
  BY DEF FilterIInv, FilterTypes, OutOK
<1>2. PICK i \in 1 .. Len(stream) + 1 : Knows(i)
  BY DEF FilterIInv
<1>3. i \in Nat /\ \A k \in 1 .. Len(out) : out[k] < i
  BY <1>2 DEF Knows
<1>4. PICK size \in 0 .. SeqMax : sequence = [k \in 1 .. size |-> i + k - 1]
  BY <1>2, KeptIsOfItem
<1>5. /\ sequence \in Seq(Nat) /\ Len(sequence) = size
      /\ \A k \in 1 .. size : sequence[k] = i + k - 1
  BY <1>3, <1>4
<1> DEFINE all == out \o sequence
<1>6. /\ Len(all) = Len(out) + size
      /\ \A k \in 1 .. Len(out) : all[k] = out[k]
      /\ \A k \in 1 .. size : all[Len(out) + k] = i + k - 1
  BY <1>1, <1>5
<1> HIDE DEF all
<1>7. \A k \in 1 .. Len(all) :
        \/ k \in 1 .. Len(out) /\ all[k] = out[k]
        \/ k - Len(out) \in 1 .. size /\ all[k] = i + (k - Len(out)) - 1
  <2>1. ASSUME NEW k \in 1 .. Len(all), k \notin 1 .. Len(out)
        PROVE  k - Len(out) \in 1 .. size /\ Len(out) + (k - Len(out)) = k
    BY <2>1, <1>1, <1>6
  <2> QED  BY <2>1, <1>6
<1>8. ASSUME NEW k \in 1 .. Len(all), NEW h \in 1 .. Len(all), k < h
      PROVE  all[k] < all[h]
  <2>1. CASE h \in 1 .. Len(out)
    <3>1. k \in 1 .. Len(out)
      BY <2>1, <1>1, <1>6, <1>8
    <3> QED  BY <3>1, <2>1, <1>1, <1>6, <1>8 DEF Increasing
  <2>2. CASE h - Len(out) \in 1 .. size /\ all[h] = i + (h - Len(out)) - 1
    <3>1. CASE k \in 1 .. Len(out)
      <4>1. all[k] = out[k] /\ out[k] < i /\ out[k] \in Nat
        BY <3>1, <1>1, <1>3, <1>6
      <4> QED  BY <4>1, <2>2, <1>3
    <3>2. CASE k - Len(out) \in 1 .. size /\ all[k] = i + (k - Len(out)) - 1
      BY <3>2, <2>2, <1>1, <1>3, <1>8
    <3> QED  BY <3>1, <3>2, <1>7
  <2> QED  BY <2>1, <2>2, <1>7
<1> QED  BY <1>8 DEF Passed, Increasing, all

(* The positions in one sequence after another.                            *)
LEMMA PositionsOfBoth ==
  ASSUME NEW s \in Seq(Nat), NEW t \in Seq(Nat)
  PROVE  s \o t \in Seq(Nat) /\ Positions(s \o t) = Positions(s) \cup Positions(t)
<1> DEFINE both == s \o t
<1>1. /\ Len(s) \in Nat /\ Len(t) \in Nat /\ both \in Seq(Nat)
      /\ Len(both) = Len(s) + Len(t)
      /\ \A k \in 1 .. Len(s) : both[k] = s[k]
      /\ \A k \in 1 .. Len(t) : both[Len(s) + k] = t[k]
  OBVIOUS
<1> HIDE DEF both
<1>2. ASSUME NEW x \in Positions(both) PROVE x \in Positions(s) \cup Positions(t)
  <2>1. PICK k \in 1 .. Len(both) : x = both[k]
    BY DEF Positions
  <2>2. CASE k <= Len(s)
    <3>1. k \in 1 .. Len(s) /\ both[k] = s[k]
      BY <2>2, <1>1
    <3> QED  BY <2>1, <3>1 DEF Positions
  <2>3. CASE k > Len(s)
    <3>1. k - Len(s) \in 1 .. Len(t) /\ Len(s) + (k - Len(s)) = k
      BY <2>3, <1>1
    <3> QED  BY <2>1, <3>1, <1>1 DEF Positions
  <2> QED  BY <2>2, <2>3, <1>1
<1>3. ASSUME NEW x \in Positions(s) PROVE x \in Positions(both)
  BY <1>1 DEF Positions
<1>4. ASSUME NEW x \in Positions(t) PROVE x \in Positions(both)
  <2>1. PICK k \in 1 .. Len(t) : x = t[k]
    BY DEF Positions
  <2>2. Len(s) + k \in 1 .. Len(both) /\ both[Len(s) + k] = x
    BY <2>1, <1>1
  <2> QED  BY <2>2 DEF Positions
<1> QED  BY <1>1, <1>2, <1>3, <1>4 DEF both

(* Only the bytes given are written,                                       *)
LEMMA EmitsOf ==
  ASSUME out \in Seq(Nat), written \in 0 .. OutMax, NEW bytes \in Seq(Nat), Emit(bytes)
  PROVE  out' \in Seq(Nat) /\ Positions(out') \subseteq Positions(out) \cup Positions(bytes)
<1> USE FilterAssumption
<1> DEFINE room == OutMax - written
           n == IF Len(bytes) <= room THEN Len(bytes) ELSE room
           part == SubSeq(bytes, 1, n)
<1>1. n \in 0 .. Len(bytes)
  OBVIOUS
<1>2. out' = out \o part
  BY DEF Emit
<1> HIDE DEF n
<1>3. part \in Seq(Nat) /\ Len(part) = n /\ \A k \in 1 .. n : part[k] = bytes[k]
  BY <1>1
<1>4. Positions(part) \subseteq Positions(bytes)
  BY <1>1, <1>3 DEF Positions
<1> HIDE DEF part
<1> QED  BY <1>2, <1>3, <1>4, PositionsOfBoth

(* and only the new byte is kept in addition.                              *)
LEMMA AppendsOf ==
  ASSUME sequence \in Seq(Nat), NEW p \in Nat
  PROVE  /\ Appended(p).sequence \in Seq(Nat)
         /\ Positions(Appended(p).sequence) \subseteq Positions(sequence) \cup {p}
<1>1. /\ Append(sequence, p) \in Seq(Nat)
      /\ Len(Append(sequence, p)) = Len(sequence) + 1
      /\ \A k \in 1 .. Len(sequence) + 1 :
           Append(sequence, p)[k] = IF k <= Len(sequence) THEN sequence[k] ELSE p
  OBVIOUS
<1>2. Positions(Append(sequence, p)) \subseteq Positions(sequence) \cup {p}
  <2> SUFFICES ASSUME NEW k \in 1 .. Len(sequence) + 1
               PROVE  Append(sequence, p)[k] \in Positions(sequence) \cup {p}
    BY <1>1 DEF Positions
  <2> QED  BY <1>1 DEF Positions
<1>3. Appended(p).sequence = Append(sequence, p) \/ Appended(p).sequence = sequence
  BY DEF Appended
<1> QED  BY <1>1, <1>2, <1>3

(* The sequences of one byte, and of none.                                 *)
LEMMA OnlyOne ==
  ASSUME NEW p \in Nat
  PROVE  /\ <<p>> \in Seq(Nat) /\ Positions(<<p>>) = {p}
         /\ <<>> \in Seq(Nat) /\ Positions(<<>>) = {}
  BY DEF Positions

(* No byte is shown twice, overtaken or brought back, also when the output *)
(* is too small.                                                           *)
THEOREM BytesKeepTheirOrder == FilterSpec => OrderKept
<1>1. ASSUME FilterIInv, FilterIInv', [FilterNext]_filterVars
      PROVE  [OnlyLeavesOut]_filterVars
  <2>1. /\ out \in Seq(1 .. Len(stream)) /\ written \in 0 .. OutMax
        /\ stream \in Seq(ByteClass) /\ Len(stream) \in Nat
    BY <1>1 DEF FilterIInv, FilterTypes
  <2>2. out \in Seq(Nat)
    BY <2>1
  <2>3. sequence \in Seq(Nat)
    <3>1. PICK i \in 1 .. Len(stream) + 1 : Knows(i)
      BY <1>1 DEF FilterIInv
    <3>2. PICK size \in 0 .. SeqMax : sequence = [k \in 1 .. size |-> i + k - 1]
      BY <1>1, <3>1, KeptIsOfItem
    <3> QED  BY <2>1, <3>2, FilterAssumption
  <2>4. Increasing(Passed')
    <3>1. Increasing(Passed)'
      BY <1>1, PassedIncreases, PTL
    <3> QED  BY <3>1 DEF Increasing
  <2>5. ASSUME NEW b \in ByteClass, Filter(b) PROVE OnlyLeavesOut
    <3> DEFINE p == Len(stream) + 1
               old == Positions(out) \cup Positions(sequence) \cup {p}
    <3>1. p \in Nat /\ Len(stream') = p
      BY <2>1, <2>5 DEF Filter
    <3>2. Text(b, p) \/ Escape(b, p) \/ Csi(b, p) \/ Osc(b) \/ OscEsc(b)
      BY <2>5 DEF Filter
    <3> HIDE DEF p
    <3>3. out' \in Seq(Nat) /\ Positions(out') \subseteq old
      <4>1. ASSUME Emit(<<p>>) PROVE out' \in Seq(Nat) /\ Positions(out') \subseteq old
        BY <4>1, <2>1, <2>2, <3>1, OnlyOne, EmitsOf
      <4>2. ASSUME Flush(Appended(p))
            PROVE  out' \in Seq(Nat) /\ Positions(out') \subseteq old
        <5>1. Emit(<<>>) \/ Emit(Appended(p).sequence)
          BY <4>2 DEF Flush
        <5> QED  BY <5>1, <2>1, <2>2, <2>3, <3>1, OnlyOne, AppendsOf, EmitsOf
      <4>3. Emit(<<p>>) \/ Flush(Appended(p)) \/ EmitNothing
        BY <3>2 DEF Text, Escape, Csi, Osc, OscEsc
      <4> QED  BY <2>2, <4>1, <4>2, <4>3 DEF EmitNothing
    <3>4. sequence' \in Seq(Nat) /\ Positions(sequence') \subseteq old
      <4>1. \/ sequence' = <<p>> \/ sequence' = <<>> \/ sequence' = sequence
            \/ sequence' = Appended(p).sequence
        BY <3>2 DEF Text, Escape, Csi, Osc, OscEsc, Keep, Flush
      <4> QED  BY <4>1, <2>3, <3>1, OnlyOne, AppendsOf
    <3>5. Positions(Passed') = Positions(out') \cup Positions(sequence')
      BY <3>3, <3>4, PositionsOfBoth DEF Passed
    <3>6. Positions(Passed) = Positions(out) \cup Positions(sequence)
      BY <2>2, <2>3, PositionsOfBoth DEF Passed
    <3> QED  BY <2>4, <3>1, <3>3, <3>4, <3>5, <3>6 DEF OnlyLeavesOut
  <2>6. ASSUME UNCHANGED <<out, sequence>> PROVE OnlyLeavesOut
    <3>1. Passed' = Passed
      BY <2>6 DEF Passed
    <3> QED  BY <2>4, <3>1 DEF OnlyLeavesOut
  <2>7. NextCall \/ UNCHANGED filterVars => UNCHANGED <<out, sequence>>
    BY DEF NextCall, filterVars
  <2> QED  BY <1>1, <2>5, <2>6, <2>7 DEF FilterNext
<1> QED  BY <1>1, FilterInvariant, PTL DEF FilterSpec, OrderKept

-----------------------------------------------------------------------------
(* ConfigTransfer: numbers and their digits, then the parser field by      *)
(* field.                                                                  *)

(* The digits, and what each is worth.                                     *)
LEMMA BaseIs == Base \in Nat /\ Base >= 2 /\ \A k \in 1 .. Base : Digits[k] \in DigitSet
  BY TransferAssumption DEF Base, DigitSet

(* Each digit has a worth of its own.                                      *)
LEMMA DigitIs ==
  /\ \A x \in DigitSet : Digit(x) \in 0 .. Base - 1 /\ Digits[Digit(x) + 1] = x
  /\ \A r \in 0 .. Base - 1 : Digits[r + 1] \in DigitSet /\ Digit(Digits[r + 1]) = r
<1>1. ASSUME NEW x \in DigitSet
      PROVE  Digit(x) \in 0 .. Base - 1 /\ Digits[Digit(x) + 1] = x
  <2> DEFINE k == CHOOSE k \in 1 .. Base : Digits[k] = x
  <2>1. \E l \in 1 .. Base : Digits[l] = x
    BY DEF DigitSet
  <2>2. k \in 1 .. Base /\ Digits[k] = x
    BY <2>1
  <2> HIDE DEF k
  <2>3. k - 1 \in 0 .. Base - 1 /\ (k - 1) + 1 = k
    BY <2>2, BaseIs
  <2> QED  BY <2>2, <2>3 DEF Digit, k
<1>2. ASSUME NEW r \in 0 .. Base - 1
      PROVE  Digits[r + 1] \in DigitSet /\ Digit(Digits[r + 1]) = r
  <2>1. r + 1 \in 1 .. Base
    BY BaseIs
  <2>2. Digits[r + 1] \in DigitSet
    BY <2>1, BaseIs
  <2> DEFINE l == Digit(Digits[r + 1]) + 1
  <2>3. l \in 1 .. Base /\ Digits[l] = Digits[r + 1]
    BY <2>2, <1>1, BaseIs
  <2>4. l = r + 1
    BY <2>1, <2>3, TransferAssumption
  <2>5. Digit(Digits[r + 1]) \in 0 .. Base - 1
    BY <2>2, <1>1
  <2> QED  BY <2>2, <2>4, <2>5, BaseIs
<1> QED  BY <1>1, <1>2

(* The two parts of a number when its last digit is taken off.             *)
LEMMA LastDigit ==
  ASSUME NEW q \in Nat, NEW r \in 0 .. Base - 1
  PROVE  /\ q * Base + r \in Nat
         /\ (q * Base + r) \div Base = q /\ (q * Base + r) % Base = r
         /\ q >= 1 => q * Base + r >= Base
         /\ q * Base + r = 0 => q = 0 /\ r = 0
<1> DEFINE n == q * Base + r
<1>0. Base \in Nat \ {0} /\ Base \in Int /\ Base >= 2
  BY BaseIs
<1>1. q * Base \in Nat /\ q * Base = Base * q /\ (q >= 1 => q * Base >= Base)
      /\ (q # 0 => q * Base # 0)
  <2>1. ASSUME q >= 1 PROVE q * Base >= Base
    BY <2>1, <1>0, Z3
  <2>2. q * Base \in Int
    BY <1>0
  <2>3. q * Base = Base * q
    BY <1>0, Z3
  <2>4. q = 0 => q * Base = 0
    BY <1>0
  <2> QED  BY <1>0, <2>1, <2>2, <2>3, <2>4
<1>2. n \in Nat /\ n = Base * q + r
  BY <1>0, <1>1
<1>3. n % Base \in 0 .. Base - 1 /\ n \div Base \in Int /\ n = Base * (n \div Base) + (n % Base)
  BY <1>0, <1>2, Division
<1> HIDE DEF n
<1>4. n % Base = r
  <2> DEFINE p == n \div Base
             s == n % Base
  <2>1. p \in Int /\ s \in 0 .. Base - 1 /\ Base * p + s = Base * q + r
    BY <1>2, <1>3
  <2> HIDE DEF p, s
  <2>2. s = r
    BY <2>1, <1>0, RemainderIsUnique
  <2> QED  BY <2>2 DEF s
<1>5. n \div Base = q
  <2> DEFINE p == n \div Base
  <2>1. p \in Int /\ Base * p = Base * q
    BY <1>0, <1>2, <1>3, <1>4
  <2> HIDE DEF p
  <2>2. p = q
    BY <2>1, <1>0, Z3
  <2> QED  BY <2>2 DEF p
<1> QED  BY <1>0, <1>1, <1>2, <1>4, <1>5 DEF n

(* And the other way: the number without its last digit.                   *)
LEMMA FirstDigits ==
  ASSUME NEW n \in Nat
  PROVE  /\ n % Base \in 0 .. Base - 1 /\ n = (n \div Base) * Base + (n % Base)
         /\ n >= Base => n \div Base \in 1 .. n - 1
         /\ n < Base => n % Base = n
<1> DEFINE q == n \div Base
           r == n % Base
<1>0. Base \in Nat \ {0} /\ Base \in Int /\ Base >= 2
  BY BaseIs
<1>1. r \in 0 .. Base - 1 /\ q \in Int /\ n = Base * q + r
  BY <1>0, Division
<1> HIDE DEF q, r
<1>2. Base * q = q * Base
  BY <1>0, <1>1, Z3
<1>3. ASSUME n >= Base PROVE q \in 1 .. n - 1
  <2>1. q >= 1
    <3>1. ASSUME q <= 0 PROVE Base * q <= 0
      BY <3>1, <1>0, <1>1, Z3
    <3> QED  BY <3>1, <1>0, <1>1, <1>3
  <2>2. Base * q >= 2 * q
    BY <2>1, <1>0, <1>1, Z3
  <2> QED  BY <2>1, <2>2, <1>0, <1>1
<1>4. ASSUME n < Base PROVE r = n
  <2>1. Base * 0 + n = Base * q + r
    BY <1>0, <1>1
  <2>2. n \in 0 .. Base - 1
    BY <1>4, <1>0
  <2> QED  BY <2>1, <2>2, <1>0, <1>1, RemainderIsUnique
<1> QED  BY <1>1, <1>2, <1>3, <1>4 DEF q, r

(* "%u" exists as the recursion says.                                      *)
Prints(p, n) ==
  p = [k \in 0 .. n |-> (IF k < Base THEN <<>> ELSE p[k \div Base]) \o <<Digits[(k % Base) + 1]>>]

(* By induction on the largest number of the function.                     *)
LEMMA PrintsExists == \A n \in Nat : \E p : Prints(p, n)
<1> DEFINE S == {n \in Nat : \E p : Prints(p, n)}
<1>1. ASSUME NEW n \in Nat, n = 0 \/ \E p : Prints(p, n - 1)
      PROVE  \E p : Prints(p, n)
  <2>1. PICK p : n = 0 \/ Prints(p, n - 1)
    BY <1>1
  <2> DEFINE last == (IF n < Base THEN <<>> ELSE p[n \div Base]) \o <<Digits[(n % Base) + 1]>>
             new == [k \in 0 .. n |-> IF k = n THEN last ELSE p[k]]
             step(f, k) == (IF k < Base THEN <<>> ELSE f[k \div Base]) \o <<Digits[(k % Base) + 1]>>
  <2>2. \A k \in 0 .. n - 1 : new[k] = p[k]
    OBVIOUS
  <2>3. new[n] = last
    OBVIOUS
  <2>4. ASSUME NEW k \in 0 .. n PROVE new[k] = step(new, k)
    <3> HIDE DEF new
    <3>1. CASE k < Base
      <4>1. step(new, k) = step(p, k)
        BY <3>1
      <4>2. CASE k = n
        BY <4>1, <4>2, <2>3
      <4>3. CASE k # n
        <5>1. k \in 0 .. n - 1 /\ n # 0
          BY <4>3
        <5>2. p[k] = step(p, k)
          BY <5>1, <2>1 DEF Prints
        <5> QED  BY <4>1, <5>1, <5>2, <2>2
      <4> QED  BY <4>2, <4>3
    <3>2. CASE ~(k < Base)
      <4>1. k \div Base \in 1 .. k - 1
        <5>1. k \in Nat /\ k >= Base
          BY <3>2, BaseIs
        <5> QED  BY <5>1, FirstDigits
      <4>2. k \div Base \in 0 .. n - 1
        BY <4>1
      <4>3. step(new, k) = step(p, k)
        BY <4>2, <2>2
      <4>4. CASE k = n
        BY <4>3, <4>4, <2>3
      <4>5. CASE k # n
        <5>1. k \in 0 .. n - 1 /\ n # 0
          BY <4>5
        <5>2. p[k] = step(p, k)
          BY <5>1, <2>1 DEF Prints
        <5> QED  BY <4>3, <5>1, <5>2, <2>2
      <4> QED  BY <4>4, <4>5
    <3> QED  BY <3>1, <3>2
  <2>5. Prints(new, n)
    <3>1. new = [k \in 0 .. n |-> new[k]]
      OBVIOUS
    <3> HIDE DEF new
    <3>2. [k \in 0 .. n |-> new[k]] = [k \in 0 .. n |-> step(new, k)]
      BY <2>4
    <3> QED  BY <3>1, <3>2 DEF Prints
  <2> QED  BY <2>5
<1>2. 0 \in S
  BY <1>1
<1>3. \A n \in Nat : n \in S => n + 1 \in S
  <2> SUFFICES ASSUME NEW n \in Nat, n \in S PROVE n + 1 \in S
    OBVIOUS
  <2>1. n + 1 \in Nat /\ (n + 1) - 1 = n
    OBVIOUS
  <2> QED  BY <2>1, <1>1
<1> HIDE DEF S
<1>4. \A n \in Nat : n \in S
  BY <1>2, <1>3, ByInduction
<1> QED  BY <1>4 DEF S

(* Functions for two largest numbers agree where both are defined.         *)
LEMMA PrintsAgree ==
  ASSUME NEW n \in Nat, NEW m \in 0 .. n, NEW p, NEW q, Prints(p, n), Prints(q, m)
  PROVE  p[m] = q[m]
<1> DEFINE S == {k \in Nat : k <= m => p[k] = q[k]}
<1>1. ASSUME NEW k \in Nat, \A l \in 0 .. k - 1 : l \in S, k <= m
      PROVE  p[k] = q[k]
  <2>1. k \in 0 .. n /\ k \in 0 .. m
    BY <1>1
  <2>2. p[k] = (IF k < Base THEN <<>> ELSE p[k \div Base]) \o <<Digits[(k % Base) + 1]>>
    BY <2>1 DEF Prints
  <2>3. q[k] = (IF k < Base THEN <<>> ELSE q[k \div Base]) \o <<Digits[(k % Base) + 1]>>
    BY <2>1 DEF Prints
  <2>4. ~(k < Base) => p[k \div Base] = q[k \div Base]
    <3> SUFFICES ASSUME ~(k < Base) PROVE p[k \div Base] = q[k \div Base]
      OBVIOUS
    <3>1. k \div Base \in 1 .. k - 1
      <4>1. k >= Base
        BY BaseIs
      <4> QED  BY <4>1, FirstDigits
    <3> QED  BY <3>1, <1>1
  <2> QED  BY <2>2, <2>3, <2>4
<1>2. \A k \in Nat : (\A l \in 0 .. k - 1 : l \in S) => k \in S
  BY <1>1
<1> HIDE DEF S
<1>3. \A k \in Nat : k \in S
  BY <1>2, ByStrongInduction
<1> QED  BY <1>3 DEF S

(* The equation of Printed: the digits of a tenth, then the last one.      *)
LEMMA PrintedIs ==
  ASSUME NEW n \in Nat
  PROVE  Printed(n) = (IF n < Base THEN <<>> ELSE Printed(n \div Base)) \o <<Digits[(n % Base) + 1]>>
<1>1. \A m \in Nat : \E p : Prints(p, m) /\ Printed(m) = p[m]
  <2> SUFFICES ASSUME NEW m \in Nat PROVE \E p : Prints(p, m) /\ Printed(m) = p[m]
    OBVIOUS
  <2> DEFINE p == CHOOSE p : Prints(p, m)
  <2>1. Prints(p, m)
    BY PrintsExists, Zenon
  <2>2. Printed(m) = p[m]
    BY Zenon DEF Printed, Prints
  <2> QED  BY <2>1, <2>2, Zenon
<1>2. PICK p : Prints(p, n) /\ Printed(n) = p[n]
  BY <1>1
<1>3. p[n] = (IF n < Base THEN <<>> ELSE p[n \div Base]) \o <<Digits[(n % Base) + 1]>>
  <2>1. n \in 0 .. n
    OBVIOUS
  <2> QED  BY <2>1, <1>2 DEF Prints
<1>4. ~(n < Base) => p[n \div Base] = Printed(n \div Base)
  <2> SUFFICES ASSUME ~(n < Base) PROVE p[n \div Base] = Printed(n \div Base)
    OBVIOUS
  <2>1. n \div Base \in 0 .. n /\ n \div Base \in Nat
    BY FirstDigits, BaseIs
  <2>2. PICK q : Prints(q, n \div Base) /\ Printed(n \div Base) = q[n \div Base]
    BY <2>1, <1>1
  <2> QED  BY <2>1, <2>2, <1>2, PrintsAgree
<1> QED  BY <1>2, <1>3, <1>4

(* And so does the value of a string of digits.                            *)
Reads(v, d, n) ==
  v = [k \in 0 .. n |-> IF k = 0 THEN 0 ELSE v[k - 1] * Base + Digit(d[k])]

(* By induction on the number of digits.                                   *)
LEMMA ReadsExists == \A d : \A n \in Nat : \E v : Reads(v, d, n)
<1> SUFFICES ASSUME NEW d PROVE \A n \in Nat : \E v : Reads(v, d, n)
  OBVIOUS
<1> DEFINE S == {n \in Nat : \E v : Reads(v, d, n)}
<1>1. 0 \in S
  <2> DEFINE v == [k \in 0 .. 0 |-> 0]
  <2>1. v[0] = 0
    OBVIOUS
  <2>2. \A k \in 0 .. 0 : k = 0
    OBVIOUS
  <2> HIDE DEF v
  <2>3. Reads([k \in 0 .. 0 |-> 0], d, 0)
    BY <2>2 DEF Reads
  <2> QED  BY <2>3
<1>2. ASSUME NEW n \in Nat, n \in S PROVE n + 1 \in S
  <2>1. PICK v : Reads(v, d, n)
    BY <1>2
  <2> DEFINE last == v[n] * Base + Digit(d[n + 1])
             new == [k \in 0 .. n + 1 |-> IF k = n + 1 THEN last ELSE v[k]]
             step(f, k) == IF k = 0 THEN 0 ELSE f[k - 1] * Base + Digit(d[k])
  <2>2. new[n + 1] = last /\ \A k \in 0 .. n : new[k] = v[k]
    OBVIOUS
  <2>3. ASSUME NEW k \in 0 .. n + 1 PROVE new[k] = step(new, k)
    <3> HIDE DEF new
    <3>1. CASE k = n + 1
      <4>1. k # 0 /\ k - 1 = n /\ n \in 0 .. n
        BY <3>1
      <4> QED  BY <4>1, <3>1, <2>2
    <3>2. CASE k # n + 1
      <4>1. k \in 0 .. n /\ (k # 0 => k - 1 \in 0 .. n)
        BY <3>2
      <4>2. v[k] = step(v, k)
        BY <4>1, <2>1 DEF Reads
      <4> QED  BY <4>1, <4>2, <2>2
    <3> QED  BY <3>1, <3>2
  <2>4. Reads(new, d, n + 1)
    <3>1. new = [k \in 0 .. n + 1 |-> new[k]]
      OBVIOUS
    <3> HIDE DEF new
    <3>2. [k \in 0 .. n + 1 |-> new[k]] = [k \in 0 .. n + 1 |-> step(new, k)]
      BY <2>3
    <3> QED  BY <3>1, <3>2 DEF Reads
  <2> QED  BY <2>4
<1> HIDE DEF S
<1>3. \A n \in Nat : n \in S
  BY <1>1, <1>2, ByInduction
<1> QED  BY <1>3 DEF S

(* So the value of a string is the last of the values of its beginnings.   *)
LEMMA ValueIs ==
  ASSUME NEW d, Len(d) \in Nat
  PROVE  \E v : Reads(v, d, Len(d)) /\ Value(d) = v[Len(d)]
<1> DEFINE v == CHOOSE v : Reads(v, d, Len(d))
<1>1. Reads(v, d, Len(d))
  BY ReadsExists, Zenon
<1>2. Value(d) = v[Len(d)]
  BY Zenon DEF Value, Reads
<1> QED  BY <1>1, <1>2, Zenon

(* The equations of Value.                                                 *)
LEMMA ValueOfNone == Value(<<>>) = 0
<1>1. PICK v : Reads(v, <<>>, Len(<<>>)) /\ Value(<<>>) = v[Len(<<>>)]
  <2>1. Len(<<>>) \in Nat
    OBVIOUS
  <2> QED  BY <2>1, ValueIs
<1>2. Len(<<>>) = 0 /\ 0 \in 0 .. 0
  OBVIOUS
<1> QED  BY <1>1, <1>2 DEF Reads

LEMMA ValueOfMore ==
  ASSUME NEW d \in Seq(DigitSet), NEW x \in DigitSet
  PROVE  Value(Append(d, x)) = Value(d) * Base + Digit(x)
<1> DEFINE n == Len(d)
           e == Append(d, x)
<1>1. n \in Nat /\ Len(e) = n + 1 /\ e[n + 1] = x /\ \A k \in 1 .. n : e[k] = d[k]
  OBVIOUS
<1> HIDE DEF e
<1>2. PICK v : Reads(v, d, n) /\ Value(d) = v[n]
  BY <1>1, ValueIs
<1>3. PICK w : Reads(w, e, n + 1) /\ Value(e) = w[n + 1]
  <2>1. Len(e) \in Nat
    BY <1>1
  <2>2. \E w : Reads(w, e, Len(e)) /\ Value(e) = w[Len(e)]
    BY <2>1, ValueIs
  <2> QED  BY <2>2, <1>1
<1> DEFINE S == {k \in Nat : k <= n => v[k] = w[k]}
<1>4. 0 \in S
  <2>1. 0 \in 0 .. n /\ 0 \in 0 .. n + 1
    BY <1>1
  <2> QED  BY <2>1, <1>2, <1>3 DEF Reads
<1>5. ASSUME NEW k \in Nat, k \in S PROVE k + 1 \in S
  <2> SUFFICES ASSUME k + 1 <= n PROVE v[k + 1] = w[k + 1]
    OBVIOUS
  <2>1. k + 1 \in 0 .. n /\ k + 1 \in 0 .. n + 1 /\ k + 1 \in 1 .. n /\ k + 1 # 0 /\ (k + 1) - 1 = k
    BY <1>1
  <2>2. v[k + 1] = v[k] * Base + Digit(d[k + 1])
    BY <2>1, <1>2 DEF Reads
  <2>3. w[k + 1] = w[k] * Base + Digit(e[k + 1])
    BY <2>1, <1>3 DEF Reads
  <2>4. v[k] = w[k]
    BY <1>5, <2>1
  <2> QED  BY <2>1, <2>2, <2>3, <2>4, <1>1
<1> HIDE DEF S
<1>6. \A k \in Nat : k \in S
  BY <1>4, <1>5, ByInduction
<1>7. v[n] = w[n]
  BY <1>1, <1>6 DEF S
<1>8. w[n + 1] = w[n] * Base + Digit(e[n + 1])
  <2>1. n + 1 \in 0 .. n + 1 /\ n + 1 # 0 /\ (n + 1) - 1 = n
    BY <1>1
  <2> QED  BY <2>1, <1>3 DEF Reads
<1> QED  BY <1>1, <1>2, <1>3, <1>7, <1>8 DEF e

(* A text in two parts.                                                    *)
LEMMA InTwoParts ==
  ASSUME NEW S, NEW text \in Seq(S), NEW n \in 0 .. Len(text)
  PROVE  /\ SubSeq(text, 1, n) \in Seq(S) /\ Len(SubSeq(text, 1, n)) = n
         /\ \A k \in 1 .. n : SubSeq(text, 1, n)[k] = text[k]
         /\ From(text, n + 1) \in Seq(S) /\ Len(From(text, n + 1)) = Len(text) - n
         /\ \A k \in 1 .. Len(text) - n : From(text, n + 1)[k] = text[n + k]
         /\ text = SubSeq(text, 1, n) \o From(text, n + 1)
<1> DEFINE m == Len(text)
           left == SubSeq(text, 1, n)
           right == SubSeq(text, n + 1, m)
<1>1. m \in Nat /\ n \in Nat /\ n <= m /\ \A k \in 1 .. m : text[k] \in S
  BY ElementOfSeq
<1>2. /\ left \in Seq(S) /\ Len(left) = n /\ \A k \in 1 .. n : left[k] = text[k]
  <2>1. \A k \in 1 .. n : text[k] \in S
    BY <1>1
  <2>2. /\ left \in Seq(S) /\ Len(left) = IF 1 <= n THEN n - 1 + 1 ELSE 0
        /\ \A k \in 1 .. n - 1 + 1 : left[k] = text[1 + k - 1]
    BY <1>1, <2>1, SubSeqProperties
  <2>3. ASSUME NEW k \in 1 .. n PROVE left[k] = text[k]
    <3>1. k \in 1 .. n - 1 + 1 /\ 1 + k - 1 = k
      BY <1>1
    <3> QED  BY <3>1, <2>2
  <2> HIDE DEF left
  <2>4. Len(left) = n
    BY <2>2, <1>1
  <2> QED  BY <2>2, <2>3, <2>4
<1>3. /\ right \in Seq(S) /\ Len(right) = m - n /\ \A k \in 1 .. m - n : right[k] = text[n + k]
  <2>1. \A k \in n + 1 .. m : text[k] \in S
    BY <1>1
  <2>2. /\ right \in Seq(S) /\ Len(right) = IF n + 1 <= m THEN m - (n + 1) + 1 ELSE 0
        /\ \A k \in 1 .. m - (n + 1) + 1 : right[k] = text[n + 1 + k - 1]
    BY <1>1, <2>1, SubSeqProperties
  <2>3. ASSUME NEW k \in 1 .. m - n PROVE right[k] = text[n + k]
    <3>1. k \in 1 .. m - (n + 1) + 1 /\ n + 1 + k - 1 = n + k
      BY <1>1
    <3> QED  BY <3>1, <2>2
  <2> HIDE DEF right
  <2>4. Len(right) = m - n
    BY <2>2, <1>1
  <2> QED  BY <2>2, <2>3, <2>4
<1> HIDE DEF left, right
<1>4. text = left \o right
  <2> DEFINE both == left \o right
  <2>1. both \in Seq(S) /\ Len(both) = m
        /\ \A k \in 1 .. m : both[k] = IF k <= n THEN left[k] ELSE right[k - n]
    <3>1. /\ left \o right \in Seq(S) /\ Len(left \o right) = Len(left) + Len(right)
          /\ \A k \in 1 .. Len(left) + Len(right) :
               (left \o right)[k] = IF k <= Len(left) THEN left[k] ELSE right[k - Len(left)]
      BY <1>2, <1>3, ConcatProperties
    <3>2. Len(left) + Len(right) = m
      BY <1>1, <1>2, <1>3
    <3> QED  BY <3>1, <3>2, <1>2
  <2> HIDE DEF both
  <2>2. ASSUME NEW k \in 1 .. m PROVE both[k] = text[k]
    <3>1. CASE k <= n
      <4>1. k \in 1 .. n
        BY <3>1, <1>1
      <4> QED  BY <3>1, <4>1, <2>1, <1>2
    <3>2. CASE ~(k <= n)
      <4>1. k - n \in 1 .. m - n /\ n + (k - n) = k
        BY <3>2, <1>1
      <4> QED  BY <3>2, <4>1, <2>1, <1>3
    <3> QED  BY <3>1, <3>2
  <2>3. text = both
    BY <2>1, <2>2, SeqEqual
  <2> QED  BY <2>3 DEF both
<1> QED  BY <1>2, <1>3, <1>4 DEF left, right, From

(* A string without its last digit.                                        *)
LEMMA WithoutLast ==
  ASSUME NEW d \in Seq(DigitSet), d # <<>>
  PROVE  LET front == SubSeq(d, 1, Len(d) - 1)
         IN  /\ front \in Seq(DigitSet) /\ Len(front) = Len(d) - 1
             /\ d[Len(d)] \in DigitSet /\ d = Append(front, d[Len(d)])
             /\ Len(d) # 1 => front # <<>> /\ front[1] = d[1]
<1> DEFINE n == Len(d)
           front == SubSeq(d, 1, n - 1)
<1>1. n \in Nat /\ n >= 1 /\ \A k \in 1 .. n : d[k] \in DigitSet
  BY EmptySeq, ElementOfSeq
<1>3. /\ front \in Seq(DigitSet) /\ Len(front) = n - 1
      /\ \A k \in 1 .. n - 1 : front[k] = d[k]
  <2>1. n - 1 \in 0 .. Len(d)
    BY <1>1
  <2> QED  BY <2>1, InTwoParts
<1> HIDE DEF front
<1>4. d[n] \in DigitSet
  BY <1>1
<1>5. d = Append(front, d[n])
  <2> DEFINE e == Append(front, d[n])
  <2>1. e \in Seq(DigitSet) /\ Len(e) = n /\ \A k \in 1 .. n : e[k] = d[k]
    BY <1>1, <1>3, <1>4
  <2> HIDE DEF e
  <2>2. e = d
    BY <2>1, SeqEqual
  <2> QED  BY <2>2 DEF e
<1>6. n # 1 => front # <<>> /\ front[1] = d[1]
  BY <1>1, <1>3
<1> QED  BY <1>3, <1>4, <1>5, <1>6 DEF front

(* A value is a natural number.                                            *)
LEMMA ValueIsNumber ==
  \A d \in Seq(DigitSet) : Value(d) \in Nat
<1> DEFINE S == {n \in Nat : \A d \in Seq(DigitSet) : Len(d) = n => Value(d) \in Nat}
<1>1. 0 \in S
  <2> SUFFICES ASSUME NEW d \in Seq(DigitSet), Len(d) = 0 PROVE Value(d) \in Nat
    OBVIOUS
  <2>1. d = <<>>
    BY EmptySeq
  <2> QED  BY <2>1, ValueOfNone
<1>2. ASSUME NEW n \in Nat, n \in S PROVE n + 1 \in S
  <2> SUFFICES ASSUME NEW d \in Seq(DigitSet), Len(d) = n + 1 PROVE Value(d) \in Nat
    OBVIOUS
  <2> DEFINE front == SubSeq(d, 1, Len(d) - 1)
             x == d[Len(d)]
  <2>1. d # <<>>
    BY EmptySeq
  <2>2. front \in Seq(DigitSet) /\ Len(front) = n /\ x \in DigitSet /\ d = Append(front, x)
    <3>1. (n + 1) - 1 = n
      OBVIOUS
    <3> QED  BY <2>1, <3>1, WithoutLast
  <2> HIDE DEF front, x
  <2>3. Value(front) \in Nat
    BY <1>2, <2>2
  <2>4. Digit(x) \in 0 .. Base - 1
    BY <2>2, DigitIs
  <2> QED  BY <2>2, <2>3, <2>4, ValueOfMore, LastDigit
<1> HIDE DEF S
<1>3. \A n \in Nat : n \in S
  BY <1>1, <1>2, ByInduction
<1> QED  BY <1>3 DEF S

(* What export prints, and all that import takes for a number.             *)
Canonical(d) == d \in Seq(DigitSet) /\ d # <<>> /\ (d[1] = Digits[1] => Len(d) = 1)

(* A digit is worth itself.                                                *)
LEMMA ValueOfDigit ==
  ASSUME NEW r \in 0 .. Base - 1
  PROVE  Value(<<Digits[r + 1]>>) = r
<1>1. Digits[r + 1] \in DigitSet /\ Digit(Digits[r + 1]) = r /\ Base \in Nat
  BY DigitIs, BaseIs
<1>2. <<Digits[r + 1]>> = Append(<<>>, Digits[r + 1]) /\ <<>> \in Seq(DigitSet)
  OBVIOUS
<1>3. Value(<<Digits[r + 1]>>) = 0 * Base + r
  BY <1>1, <1>2, ValueOfMore, ValueOfNone
<1> QED  BY <1>1, <1>3

(* What is printed is read back, and has no zero in front.                 *)
LEMMA PrintedReadsBack ==
  \A n \in Nat : /\ Canonical(Printed(n)) /\ Value(Printed(n)) = n
                 /\ n # 0 => Printed(n)[1] # Digits[1]
<1> DEFINE S == {n \in Nat : /\ Canonical(Printed(n)) /\ Value(Printed(n)) = n
                             /\ n # 0 => Printed(n)[1] # Digits[1]}
<1>1. ASSUME NEW n \in Nat, \A k \in 0 .. n - 1 : k \in S
      PROVE  n \in S
  <2> DEFINE q == n \div Base
             r == n % Base
             x == Digits[r + 1]
  <2>1. /\ r \in 0 .. Base - 1 /\ n = q * Base + r
        /\ n >= Base => q \in 1 .. n - 1
        /\ n < Base => r = n
    BY FirstDigits
  <2>2. Base \in Nat /\ Base >= 2 /\ x \in DigitSet /\ Digit(x) = r
    BY <2>1, BaseIs, DigitIs
  <2>3. Printed(n) = (IF n < Base THEN <<>> ELSE Printed(q)) \o <<x>>
    BY PrintedIs
  <2>4. r # 0 => x # Digits[1]
    <3>1. r + 1 \in 1 .. Base /\ 1 \in 1 .. Base
      BY <2>1, <2>2
    <3>2. \A k, l \in 1 .. Base : Digits[k] = Digits[l] => k = l
      BY TransferAssumption
    <3>3. r # 0 => r + 1 # 1
      BY <2>1, <2>2
    <3> HIDE DEF r
    <3> QED  BY <3>1, <3>2, <3>3
  <2> HIDE DEF q, r
  <2>5. CASE n < Base
    <3>1. Printed(n) = <<x>>
      BY <2>3, <2>5
    <3>2. Value(Printed(n)) = n
      BY <3>1, <2>1, <2>5, ValueOfDigit
    <3>3. Canonical(Printed(n)) /\ Printed(n)[1] = x
      BY <3>1, <2>2 DEF Canonical
    <3> QED  BY <3>2, <3>3, <2>1, <2>4, <2>5
  <2>6. CASE ~(n < Base)
    <3>1. q \in 0 .. n - 1 /\ q # 0 /\ q \in Nat
      BY <2>1, <2>2, <2>6
    <3> DEFINE p == Printed(q)
    <3>2. Canonical(p) /\ Value(p) = q /\ p[1] # Digits[1]
      BY <3>1, <1>1
    <3>3. Printed(n) = p \o <<x>>
      BY <2>3, <2>6
    <3> HIDE DEF p, x
    <3>4. p \in Seq(DigitSet) /\ Len(p) \in Nat /\ Len(p) >= 1
      BY <3>2, EmptySeq DEF Canonical
    <3>5. p \o <<x>> = Append(p, x)
      BY <3>4, <2>2
    <3>6. Append(p, x) \in Seq(DigitSet) /\ Append(p, x) # <<>> /\ Append(p, x)[1] = p[1]
      BY <3>4, <2>2
    <3>7. Value(Append(p, x)) = n
      BY <3>2, <3>4, <2>1, <2>2, ValueOfMore
    <3> QED  BY <3>2, <3>3, <3>5, <3>6, <3>7 DEF Canonical
  <2> QED  BY <2>5, <2>6
<1> HIDE DEF S
<1>2. \A n \in Nat : n \in S
  BY <1>1, ByStrongInduction
<1> QED  BY <1>2 DEF S

(* A text without a zero in front is the only one of its number.           *)
LEMMA ValuePrintsBack ==
  \A d : Canonical(d) => Printed(Value(d)) = d
<1> DEFINE S == {n \in Nat : \A d : Canonical(d) /\ Len(d) = n + 1 => Printed(Value(d)) = d}
<1>1. 0 \in S
  <2> SUFFICES ASSUME NEW d, Canonical(d), Len(d) = 0 + 1 PROVE Printed(Value(d)) = d
    OBVIOUS
  <2> DEFINE r == Digit(d[1])
  <2>1. d \in Seq(DigitSet) /\ d = <<d[1]>> /\ d[1] \in DigitSet
    BY DEF Canonical
  <2>2. r \in 0 .. Base - 1 /\ Digits[r + 1] = d[1]
    BY <2>1, DigitIs
  <2>3. Value(d) = r
    <3>1. Value(<<Digits[r + 1]>>) = r
      BY <2>2, ValueOfDigit
    <3> QED  BY <2>1, <2>2, <3>1
  <2> HIDE DEF r
  <2>4. r \in Nat /\ r < Base
    BY <2>2, BaseIs
  <2>5. Printed(r) = <<>> \o <<Digits[r + 1]>>
    <3>1. r % Base = r
      BY <2>4, FirstDigits
    <3> QED  BY <2>4, <3>1, PrintedIs
  <2> QED  BY <2>1, <2>2, <2>3, <2>5
<1>2. ASSUME NEW n \in Nat, n \in S PROVE n + 1 \in S
  <2> SUFFICES ASSUME NEW d, Canonical(d), Len(d) = (n + 1) + 1 PROVE Printed(Value(d)) = d
    OBVIOUS
  <2> DEFINE front == SubSeq(d, 1, Len(d) - 1)
             x == d[Len(d)]
             r == Digit(x)
             q == Value(front)
  <2>1. d \in Seq(DigitSet) /\ d # <<>> /\ d[1] # Digits[1]
    <3>1. Len(d) # 1
      OBVIOUS
    <3> QED  BY <3>1 DEF Canonical
  <2>2. /\ front \in Seq(DigitSet) /\ Len(front) = n + 1 /\ x \in DigitSet
        /\ d = Append(front, x) /\ front # <<>> /\ front[1] = d[1]
    <3>1. ((n + 1) + 1) - 1 = n + 1 /\ Len(d) # 1
      OBVIOUS
    <3> QED  BY <2>1, <3>1, WithoutLast
  <2> HIDE DEF front, x
  <2>3. Canonical(front)
    BY <2>1, <2>2 DEF Canonical
  <2>4. Printed(q) = front /\ q \in Nat
    BY <1>2, <2>2, <2>3, ValueIsNumber
  <2>5. r \in 0 .. Base - 1 /\ Digits[r + 1] = x /\ Base \in Nat /\ Base >= 2
    BY <2>2, DigitIs, BaseIs
  <2>6. q # 0
    <3> SUFFICES ASSUME q = 0 PROVE FALSE
      OBVIOUS
    <3>1. Printed(0) = front
      BY <2>4
    <3>2. Printed(0) = <<>> \o <<Digits[1]>>
      <4>1. 0 < Base /\ 0 % Base = 0 /\ 0 + 1 = 1
        BY <2>5, FirstDigits
      <4>2. Printed(0) = (IF 0 < Base THEN <<>> ELSE Printed(0 \div Base))
                            \o <<Digits[(0 % Base) + 1]>>
        BY PrintedIs
      <4> QED  BY <4>1, <4>2
    <3>3. front[1] = Digits[1]
      BY <3>1, <3>2
    <3> QED  BY <3>3, <2>1, <2>2
  <2>7. Value(d) = q * Base + r
    BY <2>2, ValueOfMore
  <2> HIDE DEF q, r
  <2>8. /\ Value(d) \in Nat /\ Value(d) \div Base = q /\ Value(d) % Base = r
        /\ ~(Value(d) < Base)
    BY <2>4, <2>5, <2>6, <2>7, LastDigit
  <2>9. Printed(Value(d)) = Printed(q) \o <<x>>
    BY <2>5, <2>8, PrintedIs
  <2>10. front \o <<x>> = Append(front, x)
    BY <2>2
  <2> QED  BY <2>2, <2>4, <2>9, <2>10
<1> HIDE DEF S
<1>3. \A n \in Nat : n \in S
  BY <1>1, <1>2, ByInduction
<1> SUFFICES ASSUME NEW d, Canonical(d) PROVE Printed(Value(d)) = d
  OBVIOUS
<1>4. Len(d) \in Nat \ {0}
  BY EmptySeq DEF Canonical
<1>5. Len(d) - 1 \in Nat /\ Len(d) = (Len(d) - 1) + 1
  BY <1>4
<1>6. Len(d) - 1 \in S
  BY <1>3, <1>5
<1> QED  BY <1>5, <1>6 DEF S

-----------------------------------------------------------------------------
(* A span ends where the symbols stop being of the set.                    *)
LEMMA SpanIs ==
  ASSUME NEW S, NEW text \in Seq(S), NEW set
  PROVE  /\ Span(text, set) \in 0 .. Len(text)
         /\ \A k \in 1 .. Span(text, set) : text[k] \in set
         /\ \/ Span(text, set) = Len(text)
            \/ text[Span(text, set) + 1] \notin set
<1> DEFINE Ends == {n \in 0 .. Len(text) : n = Len(text) \/ text[n + 1] \notin set}
           IsSpan(n) == /\ \A k \in 1 .. n : text[k] \in set
                        /\ n = Len(text) \/ text[n + 1] \notin set
<1>1. Len(text) \in Nat
  OBVIOUS
<1>2. PICK n \in Ends : \A m \in Ends : n <= m
  <2>1. Ends \subseteq Nat /\ Len(text) \in Ends
    BY <1>1
  <2> HIDE DEF Ends
  <2> QED  BY <2>1, Least
<1>3. ASSUME NEW k \in 1 .. n PROVE text[k] \in set
  <2>1. k - 1 \in 0 .. Len(text) /\ k - 1 # Len(text) /\ (k - 1) + 1 = k /\ ~(n <= k - 1)
    BY <1>1, <1>2
  <2>2. k - 1 \notin Ends
    BY <2>1, <1>2
  <2> QED  BY <2>1, <2>2
<1>4. n \in 0 .. Len(text) /\ IsSpan(n)
  BY <1>2, <1>3
<1> HIDE DEF IsSpan
<1>5. \E m \in 0 .. Len(text) : IsSpan(m)
  BY <1>4
<1>6. Span(text, set) = CHOOSE m \in 0 .. Len(text) : IsSpan(m)
  BY DEF Span, IsSpan
<1>7. Span(text, set) \in 0 .. Len(text) /\ IsSpan(Span(text, set))
  BY <1>5, <1>6
<1> QED  BY <1>7 DEF IsSpan

(* Nowhere else.                                                           *)
LEMMA SpanIsUnique ==
  ASSUME NEW S, NEW text \in Seq(S), NEW set, NEW n \in 0 .. Len(text),
         \A k \in 1 .. n : text[k] \in set,
         n = Len(text) \/ text[n + 1] \notin set
  PROVE  Span(text, set) = n
<1> DEFINE m == Span(text, set)
<1>1. /\ m \in 0 .. Len(text) /\ \A k \in 1 .. m : text[k] \in set
      /\ m = Len(text) \/ text[m + 1] \notin set
  BY SpanIs
<1> HIDE DEF m
<1>2. Len(text) \in Nat
  OBVIOUS
<1>3. CASE m < n
  <2>1. m + 1 \in 1 .. n /\ m # Len(text)
    BY <1>1, <1>2, <1>3
  <2> QED  BY <2>1, <1>1
<1>4. CASE n < m
  <2>1. n + 1 \in 1 .. m /\ n # Len(text)
    BY <1>1, <1>2, <1>4
  <2> QED  BY <2>1, <1>1
<1> QED  BY <1>1, <1>2, <1>3, <1>4 DEF m

(* And the parts of one that is put together.                              *)
LEMMA OfTwoParts ==
  ASSUME NEW S, NEW left \in Seq(S), NEW right \in Seq(S)
  PROVE  LET text == left \o right
         IN  /\ text \in Seq(S) /\ Len(text) = Len(left) + Len(right)
             /\ \A k \in 1 .. Len(left) : text[k] = left[k]
             /\ \A k \in 1 .. Len(right) : text[Len(left) + k] = right[k]
             /\ SubSeq(text, 1, Len(left)) = left
             /\ From(text, Len(left) + 1) = right
<1> DEFINE text == left \o right
           n == Len(left)
<1>1. n \in Nat /\ Len(right) \in Nat
  OBVIOUS
<1>2. /\ text \in Seq(S) /\ Len(text) = n + Len(right)
      /\ \A k \in 1 .. n + Len(right) : text[k] = IF k <= n THEN left[k] ELSE right[k - n]
  BY ConcatProperties
<1> HIDE DEF text
<1>3. \A k \in 1 .. n : text[k] = left[k]
  BY <1>1, <1>2
<1>4. ASSUME NEW k \in 1 .. Len(right) PROVE text[n + k] = right[k]
  <2>1. n + k \in 1 .. n + Len(right) /\ ~(n + k <= n) /\ (n + k) - n = k
    BY <1>1
  <2> QED  BY <2>1, <1>2
<1>5. n \in 0 .. Len(text) /\ Len(text) - n = Len(right)
  BY <1>1, <1>2
<1>6. /\ SubSeq(text, 1, n) \in Seq(S) /\ Len(SubSeq(text, 1, n)) = n
      /\ \A k \in 1 .. n : SubSeq(text, 1, n)[k] = text[k]
      /\ From(text, n + 1) \in Seq(S) /\ Len(From(text, n + 1)) = Len(right)
      /\ \A k \in 1 .. Len(right) : From(text, n + 1)[k] = text[n + k]
  <2>1. /\ SubSeq(text, 1, n) \in Seq(S) /\ Len(SubSeq(text, 1, n)) = n
        /\ \A k \in 1 .. n : SubSeq(text, 1, n)[k] = text[k]
        /\ From(text, n + 1) \in Seq(S) /\ Len(From(text, n + 1)) = Len(text) - n
        /\ \A k \in 1 .. Len(text) - n : From(text, n + 1)[k] = text[n + k]
    BY <1>2, <1>5, InTwoParts
  <2> QED  BY <2>1, <1>5
<1>7. SubSeq(text, 1, n) = left
  BY <1>3, <1>6, SeqEqual
<1>8. From(text, n + 1) = right
  BY <1>4, <1>6, SeqEqual
<1> QED  BY <1>2, <1>3, <1>4, <1>7, <1>8 DEF text

-----------------------------------------------------------------------------
(* Digits, quotes and literals are different symbols.                      *)
LEMMA SymbolsDiffer ==
  /\ Safe \subseteq Symbols /\ DigitSet \subseteq Safe /\ Keys \subseteq Symbols
  /\ "quote" \in Symbols /\ "quote" \notin Safe /\ "failed" \notin Symbols
  /\ "unsafe" \notin Safe /\ Keys \cap DigitSet = {} /\ "quote" \notin DigitSet
  /\ Sums \subseteq Safe /\ "v1" \in Safe /\ "failed" \notin DigitSet
  /\ \A key \in Keys : key # "failed" /\ key # "quote"
  BY TransferAssumption DEF Safe, Symbols, Keys

(* A text is its first symbol and the rest.                                *)
LEMMA FirstSymbol ==
  ASSUME NEW S, NEW text \in Seq(S), text # <<>>
  PROVE  /\ From(text, 2) \in Seq(S) /\ text = <<text[1]>> \o From(text, 2)
         /\ text[1] \in S
         /\ Len(From(text, 2)) = Len(text) - 1
         /\ \A k \in 1 .. Len(text) - 1 : From(text, 2)[k] = text[1 + k]
<1>1. 1 \in 0 .. Len(text) /\ 1 \in 1 .. Len(text)
  BY EmptySeq
<1>2. /\ SubSeq(text, 1, 1) \in Seq(S) /\ Len(SubSeq(text, 1, 1)) = 1
      /\ \A k \in 1 .. 1 : SubSeq(text, 1, 1)[k] = text[k]
      /\ From(text, 1 + 1) \in Seq(S) /\ Len(From(text, 1 + 1)) = Len(text) - 1
      /\ \A k \in 1 .. Len(text) - 1 : From(text, 1 + 1)[k] = text[1 + k]
      /\ text = SubSeq(text, 1, 1) \o From(text, 1 + 1)
  BY <1>1, InTwoParts
<1>3. text[1] \in S
  BY <1>1, ElementOfSeq
<1>4. SubSeq(text, 1, 1) = <<text[1]>>
  <2>1. <<text[1]>> \in Seq(S) /\ Len(<<text[1]>>) = 1 /\ <<text[1]>>[1] = text[1]
    BY <1>3
  <2>2. \A k \in 1 .. 1 : k = 1
    OBVIOUS
  <2>3. \A k \in 1 .. 1 : SubSeq(text, 1, 1)[k] = <<text[1]>>[k]
    BY <1>2, <2>1, <2>2
  <2> QED  BY <1>2, <2>1, <2>3, SeqEqual
<1>5. 1 + 1 = 2
  OBVIOUS
<1> QED  BY <1>2, <1>3, <1>4, <1>5

(* What is before the rest the parser goes on with: the literal,           *)
LEMMA LiteralTaken ==
  ASSUME NEW text \in Seq(Symbols), NEW symbol, AfterLiteral(text, symbol) # Failed
  PROVE  /\ AfterLiteral(text, symbol) \in Seq(Symbols)
         /\ text = <<symbol>> \o AfterLiteral(text, symbol)
<1>1. text # <<>> /\ text[1] = symbol /\ AfterLiteral(text, symbol) = From(text, 2)
  BY Zenon DEF AfterLiteral
<1> QED  BY <1>1, FirstSymbol

(* a quoted string of the allowed length,                                  *)
LEMMA StringTaken ==
  ASSUME NEW text \in Seq(Symbols), NEW max \in Nat, AfterString(text, max) # Failed
  PROVE  /\ AfterString(text, max) \in Seq(Symbols)
         /\ StringAt(text) \in Seq(Safe) /\ Len(StringAt(text)) <= max
         /\ text = Quoted(StringAt(text), AfterString(text, max))
<1> DEFINE inside == From(text, 2)
           n == Span(inside, Safe)
           tail == From(inside, n + 1)
<1>1. /\ text # <<>> /\ text[1] = "quote" /\ n <= max
      /\ n < Len(inside) /\ inside[n + 1] = "quote"
      /\ AfterString(text, max) = From(inside, n + 2)
  BY Zenon DEF AfterString
<1>2. StringAt(text) = SubSeq(inside, 1, n)
  BY DEF StringAt
<1>3. inside \in Seq(Symbols) /\ text = <<"quote">> \o inside
  BY <1>1, FirstSymbol
<1> HIDE DEF inside
<1>4. n \in 0 .. Len(inside) /\ \A k \in 1 .. n : inside[k] \in Safe
  BY <1>3, SpanIs
<1> HIDE DEF n
<1>5. /\ SubSeq(inside, 1, n) \in Seq(Symbols) /\ Len(SubSeq(inside, 1, n)) = n
      /\ \A k \in 1 .. n : SubSeq(inside, 1, n)[k] = inside[k]
      /\ tail \in Seq(Symbols) /\ Len(tail) = Len(inside) - n
      /\ \A k \in 1 .. Len(inside) - n : tail[k] = inside[n + k]
      /\ inside = SubSeq(inside, 1, n) \o tail
  BY <1>3, <1>4, InTwoParts
<1>6. Len(inside) \in Nat
  BY <1>3
<1>7. tail # <<>> /\ tail[1] = "quote"
  <2>1. 1 \in 1 .. Len(inside) - n
    BY <1>1, <1>4, <1>6
  <2>2. tail[1] = inside[n + 1]
    BY <2>1, <1>5
  <2> QED  BY <2>1, <2>2, <1>1, <1>5, EmptySeq
<1>8. tail = <<"quote">> \o From(tail, 2) /\ From(tail, 2) \in Seq(Symbols)
  BY <1>5, <1>7, FirstSymbol
<1>9. From(tail, 2) = From(inside, n + 2)
  <2>1. /\ From(tail, 2) \in Seq(Symbols) /\ Len(From(tail, 2)) = Len(tail) - 1
        /\ \A k \in 1 .. Len(tail) - 1 : From(tail, 2)[k] = tail[1 + k]
    BY <1>5, <1>7, FirstSymbol
  <2> DEFINE m == n + 1
  <2>2. /\ From(inside, m + 1) \in Seq(Symbols) /\ Len(From(inside, m + 1)) = Len(inside) - m
        /\ \A k \in 1 .. Len(inside) - m : From(inside, m + 1)[k] = inside[m + k]
    <3>1. m \in 0 .. Len(inside)
      BY <1>1, <1>4, <1>6
    <3> HIDE DEF m
    <3> QED  BY <3>1, <1>3, InTwoParts
  <2>3. Len(tail) - 1 = Len(inside) - m
    BY <1>4, <1>5, <1>6
  <2>4. ASSUME NEW k \in 1 .. Len(inside) - m
        PROVE  From(tail, 2)[k] = From(inside, m + 1)[k]
    <3>1. 1 + k \in 1 .. Len(inside) - n /\ n + (1 + k) = m + k
      BY <1>4, <1>6
    <3> HIDE DEF tail, m
    <3>2. tail[1 + k] = inside[m + k]
      BY <3>1, <1>5
    <3> QED  BY <3>2, <2>1, <2>2, <2>3
  <2>5. m + 1 = n + 2
    BY <1>4
  <2> HIDE DEF tail, m
  <2>6. From(tail, 2) = From(inside, m + 1)
    BY <2>1, <2>2, <2>3, <2>4, SeqEqual
  <2> QED  BY <2>5, <2>6
<1> HIDE DEF tail
<1>10. SubSeq(inside, 1, n) \in Seq(Safe)
  <2> DEFINE v == SubSeq(inside, 1, n)
  <2>1. v \in [1 .. n -> Symbols] /\ \A k \in 1 .. n : v[k] \in Safe
    BY <1>4, <1>5, LenProperties
  <2> HIDE DEF v
  <2>2. v \in [1 .. n -> Safe]
    BY <2>1
  <2>3. v \in Seq(Safe)
    BY <2>2, <1>4, SeqDef
  <2> QED  BY <2>3 DEF v
<1> QED  BY <1>1, <1>2, <1>3, <1>5, <1>8, <1>9, <1>10 DEF Quoted

(* and the digits of a number, as the exporter prints it.                  *)
LEMMA NumberTaken ==
  ASSUME NEW text \in Seq(Symbols), AfterNumber(text) # Failed
  PROVE  /\ AfterNumber(text) \in Seq(Symbols)
         /\ NumberAt(text) \in 0 .. NumberMax
         /\ text = Printed(NumberAt(text)) \o AfterNumber(text)
<1> DEFINE n == Span(text, DigitSet)
           d == SubSeq(text, 1, n)
<1>1. DigitsAt(text) = d
  BY DEF DigitsAt
<1>2. n \in 0 .. Len(text) /\ \A k \in 1 .. n : text[k] \in DigitSet
  BY SpanIs
<1> HIDE DEF n
<1>3. /\ d \in Seq(Symbols) /\ Len(d) = n
      /\ \A k \in 1 .. n : d[k] = text[k]
      /\ From(text, n + 1) \in Seq(Symbols)
      /\ text = d \o From(text, n + 1)
  BY <1>2, InTwoParts
<1> HIDE DEF d
<1>4. d \in Seq(DigitSet)
  <2>1. d \in [1 .. n -> Symbols] /\ \A k \in 1 .. n : d[k] \in DigitSet
    BY <1>2, <1>3, LenProperties
  <2>2. d \in [1 .. n -> DigitSet]
    BY <2>1
  <2> QED  BY <2>2, <1>2, SeqDef
<1>5. /\ d # <<>> /\ Value(d) <= NumberMax /\ (text[1] = Digits[1] => Len(d) = 1)
      /\ AfterNumber(text) = From(text, n + 1) /\ NumberAt(text) = Value(d)
  BY <1>1, <1>3, Zenon DEF AfterNumber, NumberAt
<1>6. d[1] = text[1]
  <2>1. 1 \in 1 .. n
    BY <1>3, <1>5, EmptySeq
  <2> QED  BY <2>1, <1>3
<1>7. Canonical(d)
  BY <1>4, <1>5, <1>6 DEF Canonical
<1>8. Printed(Value(d)) = d /\ Value(d) \in Nat
  BY <1>4, <1>7, ValuePrintsBack, ValueIsNumber
<1>9. Value(d) \in 0 .. NumberMax
  BY <1>5, <1>8, TransferAssumption
<1> QED  BY <1>3, <1>5, <1>8, <1>9

(* A parser that failed does not recover.                                  *)
LEMMA FailureStays ==
  /\ \A symbol : symbol # "failed" => AfterLiteral(Failed, symbol) = Failed
  /\ \A max : AfterString(Failed, max) = Failed
  /\ AfterNumber(Failed) = Failed
<1>1. Failed[1] = "failed" /\ Failed \in Seq({"failed"}) /\ Len(Failed) = 1
  BY DEF Failed
<1>2. Span(Failed, DigitSet) = 0
  <2>1. 0 \in 0 .. Len(Failed) /\ Failed[0 + 1] \notin DigitSet /\ \A k \in 1 .. 0 : FALSE
    BY <1>1, SymbolsDiffer
  <2> QED  BY <1>1, <2>1, SpanIsUnique
<1>3. DigitsAt(Failed) = <<>>
  <2>1. SubSeq(Failed, 1, 0) = <<>>
    BY SubSeqEmpty
  <2> QED  BY <1>2, <2>1 DEF DigitsAt
<1>4. AfterNumber(Failed) = Failed
  BY <1>3, Zenon DEF AfterNumber
<1>5. ASSUME NEW symbol, symbol # "failed" PROVE AfterLiteral(Failed, symbol) = Failed
  BY <1>1, <1>5, Zenon DEF AfterLiteral
<1>6. ASSUME NEW max PROVE AfterString(Failed, max) = Failed
  <2>1. Failed[1] # "quote"
    BY <1>1
  <2> QED  BY <2>1, Zenon DEF AfterString
<1> QED  BY <1>4, <1>5, <1>6

(* The other way round: what was put together is taken apart.              *)
LEMMA LiteralRead ==
  ASSUME NEW rest \in Seq(Symbols), NEW symbol \in Symbols
  PROVE  /\ AfterLiteral(<<symbol>> \o rest, symbol) = rest
         /\ <<symbol>> \o rest \in Seq(Symbols)
         /\ (<<symbol>> \o rest)[1] = symbol /\ <<symbol>> \o rest # <<>>
         /\ From(<<symbol>> \o rest, 2) = rest
<1> DEFINE text == <<symbol>> \o rest
<1>1. <<symbol>> \in Seq(Symbols) /\ Len(<<symbol>>) = 1 /\ <<symbol>>[1] = symbol
  OBVIOUS
<1>2. /\ text \in Seq(Symbols) /\ Len(text) = 1 + Len(rest)
      /\ \A k \in 1 .. 1 : text[k] = <<symbol>>[k]
      /\ From(text, 1 + 1) = rest
  <2> DEFINE one == <<symbol>>
             n == Len(one)
  <2>1. one \in Seq(Symbols) /\ n = 1
    BY <1>1
  <2> HIDE DEF one
  <2>2. /\ text \in Seq(Symbols) /\ Len(text) = n + Len(rest)
        /\ \A k \in 1 .. n : text[k] = one[k]
        /\ From(text, n + 1) = rest
    BY <2>1, OfTwoParts DEF one
  <2> HIDE DEF n, text
  <2> QED  BY <2>1, <2>2, Zenon DEF one
<1> HIDE DEF text
<1>3. text[1] = symbol /\ From(text, 2) = rest
  BY <1>1, <1>2
<1>4. text # <<>>
  BY <1>2, EmptySeq
<1> QED  BY <1>2, <1>3, <1>4 DEF text, AfterLiteral

(* A string that is safe and not too long is read back,                    *)
LEMMA StringRead ==
  ASSUME NEW v \in Seq(Safe), NEW rest \in Seq(Symbols), NEW max \in Nat, Len(v) <= max
  PROVE  /\ AfterString(Quoted(v, rest), max) = rest
         /\ StringAt(Quoted(v, rest)) = v
         /\ Quoted(v, rest) \in Seq(Symbols)
<1> DEFINE tail == <<"quote">> \o rest
           inside == v \o tail
           text == <<"quote">> \o inside
           n == Len(v)
<1>1. "quote" \in Symbols /\ "quote" \notin Safe /\ Safe \subseteq Symbols
  BY SymbolsDiffer
<1>2. v \in Seq(Symbols) /\ n \in Nat
  BY <1>1, SeqMonotonic
<1>3. tail \in Seq(Symbols) /\ tail[1] = "quote" /\ tail # <<>> /\ From(tail, 2) = rest
  BY <1>1, LiteralRead
<1>4. Len(tail) \in Nat /\ Len(tail) >= 1
  BY <1>3, EmptySeq
<1> HIDE DEF tail
<1>5. /\ inside \in Seq(Symbols) /\ Len(inside) = n + Len(tail)
      /\ \A k \in 1 .. n : inside[k] = v[k]
      /\ \A k \in 1 .. Len(tail) : inside[n + k] = tail[k]
      /\ SubSeq(inside, 1, n) = v
      /\ From(inside, n + 1) = tail
  BY <1>2, <1>3, OfTwoParts
<1> HIDE DEF inside
<1>6. text \in Seq(Symbols) /\ text[1] = "quote" /\ text # <<>> /\ From(text, 2) = inside
  BY <1>1, <1>5, LiteralRead
<1>7. inside[n + 1] = "quote" /\ n < Len(inside) /\ n \in 0 .. Len(inside)
  BY <1>2, <1>3, <1>4, <1>5
<1>8. Span(inside, Safe) = n
  <2>1. \A k \in 1 .. n : inside[k] \in Safe
    BY <1>5, ElementOfSeq
  <2> QED  BY <2>1, <1>1, <1>5, <1>7, SpanIsUnique
<1>9. From(inside, n + 2) = rest
  <2> DEFINE m == n + 1
  <2>1. /\ From(inside, m + 1) \in Seq(Symbols) /\ Len(From(inside, m + 1)) = Len(inside) - m
        /\ \A k \in 1 .. Len(inside) - m : From(inside, m + 1)[k] = inside[m + k]
    <3>1. m \in 0 .. Len(inside)
      BY <1>2, <1>4, <1>5
    <3> HIDE DEF m
    <3> QED  BY <3>1, <1>5, InTwoParts
  <2>2. /\ From(tail, 2) \in Seq(Symbols) /\ Len(From(tail, 2)) = Len(tail) - 1
        /\ \A k \in 1 .. Len(tail) - 1 : From(tail, 2)[k] = tail[1 + k]
    BY <1>3, FirstSymbol
  <2>3. Len(tail) - 1 = Len(inside) - m
    BY <1>2, <1>4, <1>5
  <2>4. ASSUME NEW k \in 1 .. Len(inside) - m
        PROVE  From(inside, m + 1)[k] = From(tail, 2)[k]
    <3>1. 1 + k \in 1 .. Len(tail) /\ n + (1 + k) = m + k
      BY <1>2, <1>4, <2>3
    <3> HIDE DEF m
    <3>2. inside[m + k] = tail[1 + k]
      BY <3>1, <1>5
    <3> QED  BY <3>2, <2>1, <2>2, <2>3
  <2>5. m + 1 = n + 2
    BY <1>2
  <2> HIDE DEF m
  <2>6. From(inside, m + 1) = From(tail, 2)
    BY <2>1, <2>2, <2>3, <2>4, SeqEqual
  <2> QED  BY <2>5, <2>6, <1>3
<1>10. Quoted(v, rest) = text
  BY DEF Quoted, text, inside, tail
<1> HIDE DEF text
<1>11. AfterString(text, max) = rest
  BY <1>6, <1>7, <1>8, <1>9 DEF AfterString
<1>12. StringAt(text) = v
  BY <1>5, <1>6, <1>8 DEF StringAt
<1> QED  BY <1>6, <1>10, <1>11, <1>12

(* and so is a number.                                                     *)
LEMMA NumberRead ==
  ASSUME NEW number \in 0 .. NumberMax, NEW rest \in Seq(Symbols),
         rest # <<>>, rest[1] \notin DigitSet
  PROVE  LET text == Printed(number) \o rest
         IN  /\ AfterNumber(text) = rest /\ NumberAt(text) = number
             /\ text \in Seq(Symbols)
<1> DEFINE d == Printed(number)
           text == d \o rest
           n == Len(d)
<1>1. number \in Nat /\ number <= NumberMax
  BY TransferAssumption
<1>2. Canonical(d) /\ Value(d) = number
  BY <1>1, PrintedReadsBack
<1> HIDE DEF d
<1>3. d \in Seq(DigitSet) /\ n \in Nat /\ n >= 1 /\ d # <<>>
  BY <1>2, EmptySeq DEF Canonical
<1>4. d \in Seq(Symbols)
  <2>1. DigitSet \subseteq Symbols
    BY SymbolsDiffer
  <2> QED  BY <2>1, <1>3, SeqMonotonic
<1>5. /\ text \in Seq(Symbols) /\ Len(text) = n + Len(rest)
      /\ \A k \in 1 .. n : text[k] = d[k]
      /\ \A k \in 1 .. Len(rest) : text[n + k] = rest[k]
      /\ SubSeq(text, 1, n) = d
      /\ From(text, n + 1) = rest
  BY <1>4, OfTwoParts
<1> HIDE DEF text
<1>6. Len(rest) \in Nat /\ Len(rest) >= 1
  BY EmptySeq
<1>7. Span(text, DigitSet) = n
  <2>1. \A k \in 1 .. n : text[k] \in DigitSet
    BY <1>3, <1>5, ElementOfSeq
  <2>2. text[n + 1] \notin DigitSet /\ n \in 0 .. Len(text)
    BY <1>3, <1>5, <1>6
  <2> QED  BY <2>1, <2>2, <1>5, SpanIsUnique
<1>8. DigitsAt(text) = d /\ NumberAt(text) = number
  BY <1>2, <1>5, <1>7 DEF DigitsAt, NumberAt
<1>9. text[1] = Digits[1] => n = 1
  <2>1. text[1] = d[1]
    BY <1>3, <1>5
  <2> QED  BY <2>1, <1>2 DEF Canonical
<1>10. AfterNumber(text) = rest
  <2>1. /\ DigitsAt(text) # <<>> /\ NumberAt(text) <= NumberMax
        /\ (text[1] = Digits[1] => Len(DigitsAt(text)) = 1)
        /\ From(text, Len(DigitsAt(text)) + 1) = rest
    BY <1>1, <1>3, <1>5, <1>8, <1>9
  <2> QED  BY <2>1, Zenon DEF AfterNumber
<1> QED  BY <1>5, <1>8, <1>10 DEF text, d

-----------------------------------------------------------------------------
(* The fields of the settings.                                             *)
LEMMA SettingsAre ==
  ASSUME NEW s \in Settings
  PROVE  /\ s.ssid \in Seq(Safe \union {"unsafe"}) /\ Len(s.ssid) \in 1 .. NameMax
         /\ s.channel \in 1 .. ChannelMax /\ s.channel \in 0 .. NumberMax
         /\ s.brightness \in 0 .. NumberMax
         /\ s = [ssid |-> s.ssid, channel |-> s.channel, brightness |-> s.brightness]
         /\ Checksum(s) \in Words /\ HexText[Checksum(s)] \in Sums
         /\ HexWord[HexText[Checksum(s)]] = Checksum(s)
         /\ ExportSafe(s.ssid) => s.ssid \in Seq(Safe)
<1>1. /\ s.ssid \in UNION {[1 .. n -> Safe \union {"unsafe"}] : n \in 1 .. NameMax}
      /\ s.channel \in 1 .. ChannelMax /\ s.brightness \in 0 .. NumberMax
      /\ s = [ssid |-> s.ssid, channel |-> s.channel, brightness |-> s.brightness]
  BY DEF Settings
<1>2. PICK n \in 1 .. NameMax : s.ssid \in [1 .. n -> Safe \union {"unsafe"}]
  BY <1>1
<1>3. n \in Nat /\ s.channel \in 0 .. NumberMax
  BY <1>1, TransferAssumption
<1>4. s.ssid \in Seq(Safe \union {"unsafe"}) /\ Len(s.ssid) = n
  BY <1>2, <1>3, SeqDef
<1>5. /\ Checksum(s) \in Words /\ HexText[Checksum(s)] \in Sums
      /\ HexWord[HexText[Checksum(s)]] = Checksum(s)
  BY TransferAssumption DEF Checksum
<1>6. ASSUME ExportSafe(s.ssid) PROVE s.ssid \in Seq(Safe)
  <2>1. \A k \in 1 .. n : s.ssid[k] \in Safe
    BY <1>2, <1>4, <1>6 DEF ExportSafe
  <2>2. s.ssid \in [1 .. n -> Safe]
    BY <2>1, <1>2
  <2> QED  BY <2>2, <1>3, SeqDef
<1> QED  BY <1>1, <1>3, <1>4, <1>5, <1>6

(* The parts of a text that export writes, from the last one to the first. *)
Part6(s, sum) == <<"checksum">> \o Quoted(<<sum>>, <<"end">>)
(* from the brightness,                                                    *)
Part5(s, sum) == <<"brightness">> \o (Printed(s.brightness) \o Part6(s, sum))
(* from the channel,                                                       *)
Part4(s, sum) == <<"channel">> \o (Printed(s.channel) \o Part5(s, sum))
(* and from the name.                                                      *)
Part3(s, sum) == <<"ssid">> \o Quoted(s.ssid, Part4(s, sum))

(* The file in these parts.                                                *)
LEMMA WrittenParts ==
  ASSUME NEW s, NEW sum
  PROVE  Written(s, sum) = <<"schema">> \o Quoted(<<"v1">>, Part3(s, sum))
  BY Zenon DEF Written, Part3, Part4, Part5, Part6

(* The parser reads what the exporter wrote, field by field.               *)
LEMMA WrittenRead ==
  ASSUME NEW s \in Settings, ExportSafe(s.ssid), NEW sum \in Sums
  PROVE  /\ Written(s, sum) \in Seq(Symbols) /\ Written(s, sum) # <<>>
         /\ LET schema == AfterLiteral(Written(s, sum), "schema")
                ssid == AfterLiteral(AfterString(schema, SchemaMax), "ssid")
                channel == AfterLiteral(AfterString(ssid, NameMax), "channel")
                brightness == AfterLiteral(AfterNumber(channel), "brightness")
                checksum == AfterLiteral(AfterNumber(brightness), "checksum")
                end == AfterLiteral(AfterString(checksum, 1), "end")
            IN  /\ end = <<>> /\ StringAt(schema) = <<"v1">>
                /\ StringAt(ssid) = s.ssid /\ NumberAt(channel) = s.channel
                /\ NumberAt(brightness) = s.brightness
                /\ StringAt(checksum) = <<sum>>
<1>1. /\ {"schema", "ssid", "channel", "brightness", "checksum", "end"} \subseteq Symbols
      /\ "v1" \in Safe /\ sum \in Safe /\ SchemaMax \in Nat /\ NameMax \in Nat
      /\ \A key \in Keys : key \notin DigitSet
  BY SymbolsDiffer, SettingsAre, TransferAssumption DEF Keys, SchemaMax
<1>2. <<"end">> \o <<>> = <<"end">> /\ <<>> \in Seq(Symbols)
  OBVIOUS
<1>3. <<"end">> \in Seq(Symbols) /\ AfterLiteral(<<"end">>, "end") = <<>>
  BY <1>1, <1>2, LiteralRead
<1> DEFINE q6 == Quoted(<<sum>>, <<"end">>)
           q5 == Printed(s.brightness) \o Part6(s, sum)
           q4 == Printed(s.channel) \o Part5(s, sum)
           q3 == Quoted(s.ssid, Part4(s, sum))
           q2 == Quoted(<<"v1">>, Part3(s, sum))
<1>4. /\ AfterString(q6, 1) = <<"end">> /\ StringAt(q6) = <<sum>> /\ q6 \in Seq(Symbols)
  <2>1. <<sum>> \in Seq(Safe) /\ Len(<<sum>>) <= 1
    BY <1>1
  <2> QED  BY <2>1, <1>3, StringRead
<1>5. /\ AfterLiteral(Part6(s, sum), "checksum") = q6 /\ Part6(s, sum) \in Seq(Symbols)
      /\ Part6(s, sum) # <<>> /\ Part6(s, sum)[1] \notin DigitSet
  <2>1. Part6(s, sum) = <<"checksum">> \o q6
    BY Zenon DEF Part6
  <2>2. "checksum" \in Symbols /\ "checksum" \notin DigitSet
    BY <1>1 DEF Keys
  <2> HIDE DEF q6
  <2> QED  BY <2>1, <2>2, <1>4, LiteralRead
<1> HIDE DEF q6
<1>6. AfterNumber(q5) = Part6(s, sum) /\ NumberAt(q5) = s.brightness /\ q5 \in Seq(Symbols)
  BY <1>5, SettingsAre, NumberRead
<1>7. /\ AfterLiteral(Part5(s, sum), "brightness") = q5 /\ Part5(s, sum) \in Seq(Symbols)
      /\ Part5(s, sum) # <<>> /\ Part5(s, sum)[1] \notin DigitSet
  <2>1. Part5(s, sum) = <<"brightness">> \o q5
    BY Zenon DEF Part5
  <2>2. "brightness" \in Symbols /\ "brightness" \notin DigitSet
    BY <1>1 DEF Keys
  <2> HIDE DEF q5
  <2> QED  BY <2>1, <2>2, <1>6, LiteralRead
<1> HIDE DEF q5
<1>8. AfterNumber(q4) = Part5(s, sum) /\ NumberAt(q4) = s.channel /\ q4 \in Seq(Symbols)
  BY <1>7, SettingsAre, NumberRead
<1>9. AfterLiteral(Part4(s, sum), "channel") = q4 /\ Part4(s, sum) \in Seq(Symbols)
  <2>1. Part4(s, sum) = <<"channel">> \o q4
    BY Zenon DEF Part4
  <2> HIDE DEF q4
  <2> QED  BY <2>1, <1>1, <1>8, LiteralRead
<1> HIDE DEF q4
<1>10. AfterString(q3, NameMax) = Part4(s, sum) /\ StringAt(q3) = s.ssid /\ q3 \in Seq(Symbols)
  <2>1. s.ssid \in Seq(Safe) /\ Len(s.ssid) <= NameMax
    BY <1>1, SettingsAre
  <2> QED  BY <2>1, <1>1, <1>9, StringRead
<1>11. AfterLiteral(Part3(s, sum), "ssid") = q3 /\ Part3(s, sum) \in Seq(Symbols)
  <2>1. Part3(s, sum) = <<"ssid">> \o q3
    BY Zenon DEF Part3
  <2> HIDE DEF q3
  <2> QED  BY <2>1, <1>1, <1>10, LiteralRead
<1> HIDE DEF q3
<1>12. AfterString(q2, SchemaMax) = Part3(s, sum) /\ StringAt(q2) = <<"v1">> /\ q2 \in Seq(Symbols)
  <2>1. <<"v1">> \in Seq(Safe) /\ Len(<<"v1">>) <= SchemaMax
    BY <1>1 DEF SchemaMax
  <2> QED  BY <2>1, <1>1, <1>11, StringRead
<1> HIDE DEF q2
<1>13. AfterLiteral(Written(s, sum), "schema") = q2 /\ Written(s, sum) \in Seq(Symbols) /\ Written(s, sum) # <<>>
  <2>1. Written(s, sum) = <<"schema">> \o q2
    BY WrittenParts DEF q2
  <2> QED  BY <2>1, <1>1, <1>12, LiteralRead
<1> QED  BY <1>3, <1>4, <1>5, <1>6, <1>7, <1>8, <1>9, <1>10, <1>11, <1>12, <1>13, Zenon

(* What export writes is read as the settings it was written from.         *)
LEMMA ParsedExport ==
  ASSUME NEW s \in Settings, ExportSafe(s.ssid), NEW sum \in Sums,
         HexWord[sum] = Checksum(s), file = Written(s, sum)
  PROVE  Parsed = [result |-> "ok", settings |-> s]
<1> DEFINE schema == AfterLiteral(file, "schema")
           ssid == AfterLiteral(AfterString(schema, SchemaMax), "ssid")
           channel == AfterLiteral(AfterString(ssid, NameMax), "channel")
           brightness == AfterLiteral(AfterNumber(channel), "brightness")
           checksum == AfterLiteral(AfterNumber(brightness), "checksum")
           end == AfterLiteral(AfterString(checksum, 1), "end")
           read == [ssid |-> StringAt(ssid), channel |-> NumberAt(channel),
                    brightness |-> NumberAt(brightness)]
           result == IF end # <<>> THEN "parse"
                     ELSE IF StringAt(schema) # <<"v1">> THEN "schema"
                     ELSE IF ~ExportSafe(read.ssid) \/ read.channel \notin 1 .. ChannelMax
                            THEN "unsafe value"
                     ELSE IF ~Matches(StringAt(checksum), read) THEN "checksum"
                     ELSE "ok"
<1>1. Parsed = [result |-> result, settings |-> IF result = "ok" THEN read ELSE device]
  BY Zenon DEF Parsed
<1>2. /\ end = <<>> /\ StringAt(schema) = <<"v1">>
      /\ StringAt(ssid) = s.ssid /\ NumberAt(channel) = s.channel
      /\ NumberAt(brightness) = s.brightness
      /\ StringAt(checksum) = <<sum>>
  BY WrittenRead
<1> HIDE DEF schema, ssid, channel, brightness, checksum, end
<1>3. read = s
  BY <1>2, SettingsAre
<1>4. s.channel \in 1 .. ChannelMax /\ Matches(StringAt(checksum), s)
  BY <1>2, SettingsAre DEF Matches
<1> HIDE DEF read
<1>5. result = "ok"
  BY <1>2, <1>3, <1>4
<1> HIDE DEF result
<1> QED  BY <1>1, <1>3, <1>5

(* The same of the checksum in small letters.                              *)
LEMMA ParsedJson ==
  ASSUME NEW s \in Settings, ExportSafe(s.ssid), file = Json(s)
  PROVE  Parsed = [result |-> "ok", settings |-> s]
<1> DEFINE sum == HexText[Checksum(s)]
<1>1. sum \in Sums /\ HexWord[sum] = Checksum(s) /\ file = Written(s, sum)
  BY SettingsAre DEF Json
<1> HIDE DEF sum
<1> QED  BY <1>1, ParsedExport

(* And a text that is accepted is one that export writes, but for capital  *)
(* letters in the checksum.                                                *)
LEMMA ParsedAccepts ==
  ASSUME file \in Seq(Symbols), Parsed.result = "ok"
  PROVE  /\ Parsed.settings \in Settings
         /\ ExportSafe(Parsed.settings.ssid)
         /\ \E sum \in Sums : /\ HexWord[sum] = Checksum(Parsed.settings)
                             /\ file = Written(Parsed.settings, sum)
<1> DEFINE schema == AfterLiteral(file, "schema")
           afterSchema == AfterString(schema, SchemaMax)
           ssid == AfterLiteral(afterSchema, "ssid")
           afterSsid == AfterString(ssid, NameMax)
           channel == AfterLiteral(afterSsid, "channel")
           afterChannel == AfterNumber(channel)
           brightness == AfterLiteral(afterChannel, "brightness")
           afterBrightness == AfterNumber(brightness)
           checksum == AfterLiteral(afterBrightness, "checksum")
           afterChecksum == AfterString(checksum, 1)
           end == AfterLiteral(afterChecksum, "end")
           read == [ssid |-> StringAt(ssid), channel |-> NumberAt(channel),
                    brightness |-> NumberAt(brightness)]
           result == IF end # <<>> THEN "parse"
                     ELSE IF StringAt(schema) # <<"v1">> THEN "schema"
                     ELSE IF ~ExportSafe(read.ssid) \/ read.channel \notin 1 .. ChannelMax
                            THEN "unsafe value"
                     ELSE IF ~Matches(StringAt(checksum), read) THEN "checksum"
                     ELSE "ok"
<1>1. Parsed = [result |-> result, settings |-> IF result = "ok" THEN read ELSE device]
  BY Zenon DEF Parsed
<1> HIDE DEF end
<1>2. /\ result = "ok" /\ Parsed.settings = read
  <2> HIDE DEF result, read
  <2> QED  BY <1>1
<1>3. /\ end = <<>> /\ StringAt(schema) = <<"v1">> /\ ExportSafe(read.ssid)
      /\ read.channel \in 1 .. ChannelMax /\ Matches(StringAt(checksum), read)
  <2> HIDE DEF schema, checksum, read
  <2> QED  BY <1>2
<1> HIDE DEF schema, afterSchema, ssid, afterSsid, channel, afterChannel, brightness,
             afterBrightness, checksum, afterChecksum, result
<1>4. /\ \A symbol : symbol # "failed" => AfterLiteral(Failed, symbol) = Failed
      /\ \A max : AfterString(Failed, max) = Failed
      /\ AfterNumber(Failed) = Failed
      /\ SchemaMax \in Nat /\ NameMax \in Nat /\ 1 \in Nat
  BY FailureStays, TransferAssumption DEF SchemaMax
<1>5. end # Failed
  BY <1>3 DEF Failed
<1>6. afterChecksum # Failed
  BY <1>4, <1>5 DEF end
<1>7. checksum # Failed
  BY <1>4, <1>6 DEF afterChecksum
<1>8. afterBrightness # Failed
  BY <1>4, <1>7 DEF checksum
<1>9. brightness # Failed
  BY <1>4, <1>8 DEF afterBrightness
<1>10. afterChannel # Failed
  BY <1>4, <1>9 DEF brightness
<1>11. channel # Failed
  BY <1>4, <1>10 DEF afterChannel
<1>12. afterSsid # Failed
  BY <1>4, <1>11 DEF channel
<1>13. ssid # Failed
  BY <1>4, <1>12 DEF afterSsid
<1>14. afterSchema # Failed
  BY <1>4, <1>13 DEF ssid
<1>15. schema # Failed
  BY <1>4, <1>14 DEF afterSchema
<1>16. schema \in Seq(Symbols) /\ file = <<"schema">> \o schema
  BY <1>15, LiteralTaken DEF schema
<1>17. afterSchema \in Seq(Symbols) /\ schema = Quoted(StringAt(schema), afterSchema)
  BY <1>4, <1>14, <1>16, StringTaken DEF afterSchema
<1>18. ssid \in Seq(Symbols) /\ afterSchema = <<"ssid">> \o ssid
  BY <1>13, <1>17, LiteralTaken DEF ssid
<1>19. /\ afterSsid \in Seq(Symbols) /\ ssid = Quoted(StringAt(ssid), afterSsid)
       /\ StringAt(ssid) \in Seq(Safe) /\ Len(StringAt(ssid)) <= NameMax
  BY <1>4, <1>12, <1>18, StringTaken DEF afterSsid
<1>20. channel \in Seq(Symbols) /\ afterSsid = <<"channel">> \o channel
  BY <1>11, <1>19, LiteralTaken DEF channel
<1>21. /\ afterChannel \in Seq(Symbols) /\ channel = Printed(NumberAt(channel)) \o afterChannel
  BY <1>10, <1>20, NumberTaken DEF afterChannel
<1>22. brightness \in Seq(Symbols) /\ afterChannel = <<"brightness">> \o brightness
  BY <1>9, <1>21, LiteralTaken DEF brightness
<1>23. /\ afterBrightness \in Seq(Symbols) /\ NumberAt(brightness) \in 0 .. NumberMax
       /\ brightness = Printed(NumberAt(brightness)) \o afterBrightness
  BY <1>8, <1>22, NumberTaken DEF afterBrightness
<1>24. checksum \in Seq(Symbols) /\ afterBrightness = <<"checksum">> \o checksum
  BY <1>7, <1>23, LiteralTaken DEF checksum
<1>25. /\ afterChecksum \in Seq(Symbols)
       /\ checksum = Quoted(StringAt(checksum), afterChecksum)
  BY <1>4, <1>6, <1>24, StringTaken DEF afterChecksum
<1>26. afterChecksum = <<"end">>
  <2>1. afterChecksum = <<"end">> \o end
    BY <1>5, <1>25, LiteralTaken DEF end
  <2>2. <<"end">> \o <<>> = <<"end">>
    OBVIOUS
  <2> QED  BY <2>1, <2>2, <1>3
<1>27. read.ssid = StringAt(ssid) /\ read.channel = NumberAt(channel)
       /\ read.brightness = NumberAt(brightness)
  OBVIOUS
<1>28. read \in Settings
  <2> DEFINE name == StringAt(ssid)
  <2>1. name # <<>> /\ name \in Seq(Safe) /\ Len(name) <= NameMax
    BY <1>3, <1>19, <1>27 DEF ExportSafe
  <2> HIDE DEF name
  <2>2. Len(name) \in 1 .. NameMax /\ name \in [1 .. Len(name) -> Safe]
    BY <2>1, <1>4, EmptySeq, LenProperties
  <2>3. name \in [1 .. Len(name) -> Safe \union {"unsafe"}]
    BY <2>2
  <2>4. name \in UNION {[1 .. n -> Safe \union {"unsafe"}] : n \in 1 .. NameMax}
    BY <2>2, <2>3
  <2> QED  BY <2>4, <1>3, <1>23, <1>27 DEF name, Settings
<1> HIDE DEF read
<1>s. PICK sum \in Sums : StringAt(checksum) = <<sum>> /\ HexWord[sum] = Checksum(read)
  BY <1>3 DEF Matches
<1>29. /\ checksum = Quoted(<<sum>>, <<"end">>)
       /\ afterBrightness = Part6(read, sum)
       /\ afterChannel = Part5(read, sum)
       /\ afterSsid = Part4(read, sum)
       /\ afterSchema = Part3(read, sum)
  <2>1. checksum = Quoted(<<sum>>, <<"end">>)
    BY <1>s, <1>25, <1>26
  <2>2. afterBrightness = Part6(read, sum)
    BY <2>1, <1>24, Zenon DEF Part6
  <2>3. afterChannel = Part5(read, sum)
    BY <2>2, <1>22, <1>23, <1>27, Zenon DEF Part5
  <2>4. afterSsid = Part4(read, sum)
    BY <2>3, <1>20, <1>21, <1>27, Zenon DEF Part4
  <2>5. afterSchema = Part3(read, sum)
    BY <2>4, <1>18, <1>19, <1>27, Zenon DEF Part3
  <2> QED  BY <2>1, <2>2, <2>3, <2>4, <2>5
<1>30. file = Written(read, sum)
  <2>1. schema = Quoted(<<"v1">>, Part3(read, sum))
    BY <1>3, <1>17, <1>29
  <2> QED  BY <2>1, <1>16, WrittenParts
<1> QED  BY <1>2, <1>3, <1>28, <1>s, <1>30

-----------------------------------------------------------------------------
(* The property is inductive once an export is known to come from a name   *)
(* that is safe.                                                           *)
TransferIInv ==
  /\ TransferTypeOK
  /\ file # <<>> => ExportSafe(origin.ssid)
  /\ ImportInvertsExport

(* Each step of the user and of the device keeps it.                       *)
LEMMA TransferInvariant == TransferSpec => []TransferIInv
<1>1. TransferInit => TransferIInv
  <2> SUFFICES ASSUME TransferInit PROVE TransferIInv
    OBVIOUS
  <2>1. device \in Settings
    <3>1. PICK n \in 1 .. NameMax : device.ssid \in [1 .. n -> Safe \union {"unsafe"}]
      BY TransferAssumption DEF TransferInit
    <3>2. device.ssid \in UNION {[1 .. m -> Safe \union {"unsafe"}] : m \in 1 .. NameMax}
      BY <3>1
    <3> QED  BY <3>2 DEF TransferInit, Settings
  <2>2. origin \in Settings /\ file = <<>> /\ outcome = "none" /\ edits = 0
    BY <2>1 DEF TransferInit
  <2>3. file \in Seq(Symbols) /\ edits \in 0 .. MaxEdits
    BY <2>2, TransferAssumption
  <2> QED  BY <2>1, <2>2, <2>3 DEF TransferIInv, TransferTypeOK, ImportInvertsExport
<1>2. TransferIInv /\ [TransferNext]_transferVars => TransferIInv'
  <2> SUFFICES ASSUME TransferIInv, [TransferNext]_transferVars PROVE TransferIInv'
    OBVIOUS
  <2>0. /\ device \in Settings /\ origin \in Settings /\ file \in Seq(Symbols)
        /\ edits \in 0 .. MaxEdits /\ (file # <<>> => ExportSafe(origin.ssid))
        /\ MaxEdits \in Nat
    BY TransferAssumption DEF TransferIInv, TransferTypeOK
  <2>1. CASE Export
    <3>1. Json(device) \in Seq(Symbols)
      BY <2>0, <2>1, SettingsAre, WrittenRead DEF Export, Json
    <3>2. /\ file' \in Seq(Symbols) /\ device' = device /\ origin' = device
          /\ edits' = 0 /\ outcome' = "none" /\ ExportSafe(device.ssid)
      BY <2>1, <3>1 DEF Export
    <3>3. ExportSafe(origin'.ssid) /\ edits' \in 0 .. MaxEdits
      BY <2>0, <3>2
    <3> QED  BY <2>0, <3>2, <3>3 DEF TransferIInv, TransferTypeOK, ImportInvertsExport
  <2>2. CASE ExportRefused
    BY <2>0, <2>2 DEF ExportRefused, TransferIInv, TransferTypeOK, ImportInvertsExport
  <2>3. CASE Carry
    <3>1. OtherDevice \in Settings
      BY TransferAssumption
    <3> QED  BY <2>0, <2>3, <3>1 DEF Carry, TransferIInv, TransferTypeOK, ImportInvertsExport
  <2>4. CASE Edit
    <3>1. PICK i \in 0 .. Len(file), old \in {0, 1}, new \in {<<>>} \union {<<s>> : s \in Symbols} :
            /\ i + old <= Len(file)
            /\ file' = SubSeq(file, 1, i) \o new \o SubSeq(file, i + old + 1, Len(file))
      BY <2>4 DEF Edit
    <3>2. SubSeq(file, 1, i) \in Seq(Symbols)
      BY <2>0, InTwoParts
    <3>3. SubSeq(file, i + old + 1, Len(file)) \in Seq(Symbols)
      <4> DEFINE n == i + old
      <4>1. n \in 0 .. Len(file)
        BY <3>1
      <4> HIDE DEF n
      <4>2. From(file, n + 1) \in Seq(Symbols)
        BY <4>1, <2>0, InTwoParts
      <4> QED  BY <4>2 DEF From, n
    <3>4. new \in Seq(Symbols)
      <4>1. <<>> \in Seq(Symbols) /\ \A s \in Symbols : <<s>> \in Seq(Symbols)
        OBVIOUS
      <4> QED  BY <3>1, <4>1
    <3> DEFINE left == SubSeq(file, 1, i)
               right == SubSeq(file, i + old + 1, Len(file))
    <3> HIDE DEF left, right
    <3>5. left \in Seq(Symbols) /\ right \in Seq(Symbols) /\ file' = left \o new \o right
      BY <3>1, <3>2, <3>3 DEF left, right
    <3>6. (left \o new) \o right \in Seq(Symbols)
      BY <3>4, <3>5, ConcatProperties
    <3>7. edits' \in 0 .. MaxEdits
      BY <2>0, <2>4 DEF Edit
    <3>8. file # <<>> /\ outcome' = "none" /\ device' = device /\ origin' = origin
      BY <2>4 DEF Edit
    <3> QED  BY <2>0, <3>5, <3>6, <3>7, <3>8 DEF TransferIInv, TransferTypeOK, ImportInvertsExport
  <2>5. CASE Import
    <3>1. /\ file # <<>> /\ outcome' = Parsed.result /\ device' = Parsed.settings
          /\ origin' = origin /\ file' = file /\ edits' = edits
      BY <2>5 DEF Import
    <3>2. CASE Parsed.result = "ok"
      <4>1. PICK sum \in Sums :
              /\ device' \in Settings /\ ExportSafe(device'.ssid)
              /\ HexWord[sum] = Checksum(device') /\ file = Written(device', sum)
        BY <3>1, <3>2, <2>0, ParsedAccepts
      <4>2. file = Json(origin) => device' = origin
        BY <2>0, <3>1, ParsedJson
      <4>3. TransferTypeOK' /\ ExportSafe(origin'.ssid)
        BY <2>0, <3>1, <3>2, <4>1 DEF TransferTypeOK
      <4>4. ImportInvertsExport'
        BY <3>1, <3>2, <4>1, <4>2 DEF ImportInvertsExport, Json, Written, Checksum
      <4> QED  BY <4>3, <4>4 DEF TransferIInv
    <3>3. CASE Parsed.result # "ok"
      <4>1. /\ Parsed.settings = device
            /\ Parsed.result \in {"parse", "schema", "unsafe value", "checksum"}
        BY <3>3 DEF Parsed
      <4>2. ASSUME ExportSafe(device.ssid), NEW sum \in Sums, HexWord[sum] = Checksum(device)
            PROVE  file # Written(device, sum)
        BY <2>0, <3>3, <4>2, ParsedExport
      <4>3. file # Json(origin)
        BY <2>0, <3>1, <3>3, ParsedJson
      <4>4. TransferTypeOK' /\ ExportSafe(origin'.ssid)
        BY <2>0, <3>1, <4>1 DEF TransferTypeOK
      <4>5. /\ outcome' # "ok" /\ device' = device
            /\ ~(ExportSafe(device'.ssid) /\ \E sum \in Sums :
                    HexWord[sum] = Checksum(device') /\ file' = Written(device', sum))
        BY <3>1, <3>3, <4>1, <4>2
      <4>6. ImportInvertsExport'
        BY <3>1, <4>3, <4>5 DEF ImportInvertsExport, Json, Written, Checksum
      <4> QED  BY <4>4, <4>6 DEF TransferIInv
    <3> QED  BY <3>2, <3>3
  <2>6. CASE UNCHANGED transferVars
    BY <2>6 DEF transferVars, TransferIInv, TransferTypeOK, ImportInvertsExport
  <2> QED  BY <2>1, <2>2, <2>3, <2>4, <2>5, <2>6 DEF TransferNext
<1> QED  BY <1>1, <1>2, PTL DEF TransferSpec

(* The device has settings it accepts, whatever file it was given.         *)
THEOREM TransferTypeCorrect == TransferSpec => []TransferTypeOK
<1>1. TransferIInv => TransferTypeOK
  BY DEF TransferIInv
<1> QED  BY <1>1, TransferInvariant, PTL

(* A file is accepted only if it is, symbol for symbol, the export of the  *)
(* settings the device has then, but for capital letters in the checksum;  *)
(* the untouched export of a device restores it.                           *)
THEOREM ImportsAreExports == TransferSpec => []ImportInvertsExport
<1>1. TransferIInv => ImportInvertsExport
  BY DEF TransferIInv
<1> QED  BY <1>1, TransferInvariant, PTL

-----------------------------------------------------------------------------
(* EventLog: the ring against the whole history.                           *)

(* A counter that wraps counts on.                                         *)
LEMMA WrapsInto ==
  ASSUME NEW w \in Nat \ {0}, NEW n \in Nat, NEW k \in Nat
  PROVE  ((n % w) + k) % w = (n + k) % w
<1> DEFINE r == n % w
           p == n \div w
           q == (r + k) \div w
<1>1. r \in Nat /\ p \in Int /\ n = w * p + r
  BY Division
<1>2. /\ (r + k) % w \in 0 .. w - 1 /\ q \in Int
      /\ r + k = w * q + ((r + k) % w)
  BY <1>1, Division
<1>3. /\ (n + k) % w \in 0 .. w - 1 /\ (n + k) \div w \in Int
      /\ n + k = w * ((n + k) \div w) + ((n + k) % w)
  <2>1. n + k \in Nat
    OBVIOUS
  <2> QED  BY <2>1, Division
<1> HIDE DEF r, p, q
<1>4. w * p + w * q = w * (p + q)
  BY <1>1, <1>2, Z3
<1>5. w * (p + q) + ((r + k) % w) = w * ((n + k) \div w) + ((n + k) % w)
  BY <1>1, <1>2, <1>3, <1>4
<1>6. (r + k) % w = (n + k) % w
  <2>1. p + q \in Int
    BY <1>1, <1>2
  <2> QED  BY <2>1, <1>2, <1>3, <1>5, RemainderIsUnique
<1> QED  BY <1>6 DEF r

(* The slot the ring goes on to.                                           *)
LEMMA SlotWraps ==
  ASSUME NEW k \in 0 .. 2 * LogCapacity - 1
  PROVE  Slot(k) = IF k < LogCapacity THEN k ELSE k - LogCapacity
  BY LogAssumption DEF Slot

(* A slot holds a numbered message or nothing.                             *)
Entry == (Numbers \X Messages) \union {<<>>}

(* The ring holds the latest events of the history, the oldest first; the  *)
(* counters are those of the history.                                      *)
LogOK ==
  LET total == Len(logHistory)
  IN  /\ log.count = IF total < LogCapacity THEN total ELSE LogCapacity
      /\ log.sequence = Wrapped(total) /\ log.written = Wrapped(total)
      /\ log.droppedOldest = Wrapped(total - log.count)
      /\ \A i \in 1 .. log.count :
           log.entries[Slot(log.start + i - 1)] =
             <<Wrapped(total - log.count + i), logHistory[total - log.count + i]>>

(* The invariant.                                                          *)
LogIInv == LogTypeOK /\ LogOK

(* A start without a log has an empty history.                             *)
LEMMA EmptyLogOK ==
  ASSUME log = EmptyLog, logHistory = <<>>, webLog \in BOOLEAN
  PROVE  LogIInv
<1> USE LogAssumption DEF EmptyLog
<1>1. 0 \in Slots /\ 0 \in Numbers /\ Wrapped(0) = 0
  BY DEF Slots, Numbers, Wrapped
<1>2. LogTypeOK
  BY <1>1 DEF LogTypeOK
<1>3. LogOK
  BY <1>1 DEF LogOK
<1> QED  BY <1>2, <1>3 DEF LogIInv

(* Slots from the start of the ring on.                                    *)
LEMMA SlotOf ==
  ASSUME NEW s \in Slots, NEW k \in 0 .. LogCapacity
  PROVE  /\ Slot(s + k) \in Slots
         /\ Slot(s + k) = IF s + k < LogCapacity THEN s + k ELSE s + k - LogCapacity
<1>1. s + k \in 0 .. 2 * LogCapacity - 1 /\ LogCapacity \in Nat \ {0}
  BY LogAssumption DEF Slots
<1>2. Slot(s + k) = IF s + k < LogCapacity THEN s + k ELSE s + k - LogCapacity
  BY <1>1, SlotWraps DEF Slots
<1> QED  BY <1>1, <1>2 DEF Slots

(* An event takes the slot of the oldest one once the ring is full.        *)
LEMMA AppendEventIInv ==
  ASSUME LogIInv, NEW message \in Messages, AppendEvent(message)
  PROVE  LogIInv'
<1> USE LogAssumption
<1> DEFINE total == Len(logHistory)
           entry == <<Wrapped(total + 1), message>>
<1>t. /\ log \in [entries : [Slots -> Entry], start : Slots, count : 0 .. LogCapacity,
                  sequence : Numbers, written : Numbers, droppedOldest : Numbers]
      /\ logHistory \in Seq(Messages) /\ webLog \in BOOLEAN
  BY DEF LogIInv, LogTypeOK, Entry
<1>0. /\ log.entries \in [Slots -> Entry] /\ log.start \in Slots
      /\ log.count \in 0 .. LogCapacity /\ total \in Nat
      /\ LogCapacity \in Nat \ {0} /\ LogWord \in Nat \ {0}
  BY <1>t
<1>1. /\ logHistory' = Append(logHistory, message) /\ webLog' = webLog
      /\ logHistory' \in Seq(Messages) /\ Len(logHistory') = total + 1
      /\ \A i \in 1 .. total : logHistory'[i] = logHistory[i]
      /\ logHistory'[total + 1] = message
  BY <1>t DEF AppendEvent
<1>2. \A n \in Nat : Wrapped(n) \in Numbers /\ Wrapped(Wrapped(n) + 1) = Wrapped(n + 1)
  BY WrapsInto, Division DEF Wrapped, Numbers
<1>3. /\ log.sequence = Wrapped(total) /\ log.written = Wrapped(total)
      /\ log.count = IF total < LogCapacity THEN total ELSE LogCapacity
      /\ log.droppedOldest = Wrapped(total - log.count)
      /\ \A i \in 1 .. log.count :
           log.entries[Slot(log.start + i - 1)] =
             <<Wrapped(total - log.count + i), logHistory[total - log.count + i]>>
  BY DEF LogIInv, LogOK
<1>4. /\ Wrapped(log.sequence + 1) = Wrapped(total + 1)
      /\ Wrapped(log.written + 1) = Wrapped(total + 1)
      /\ entry \in Entry
  BY <1>0, <1>2, <1>3 DEF Entry
<1>5. log' = [Placed(entry) EXCEPT !.sequence = Wrapped(total + 1),
                                   !.written = Wrapped(total + 1)]
  <2>1. log' = [Placed(<<Wrapped(log.sequence + 1), message>>) EXCEPT
                  !.sequence = Wrapped(log.sequence + 1), !.written = Wrapped(@ + 1)]
    BY DEF AppendEvent
  <2>2. Placed(entry).written = log.written
    BY <1>t DEF Placed
  <2> QED  BY <2>1, <2>2, <1>4
<1>6. CASE log.count < LogCapacity
  <2> DEFINE place == Slot(log.start + log.count)
             entries == [log.entries EXCEPT ![place] = entry]
  <2>1. Placed(entry) = [log EXCEPT !.entries[place] = entry, !.count = @ + 1]
    BY <1>6 DEF Placed
  <2>2. log' = [entries |-> entries, start |-> log.start, count |-> log.count + 1,
                sequence |-> Wrapped(total + 1), written |-> Wrapped(total + 1),
                droppedOldest |-> log.droppedOldest]
    BY <1>t, <1>5, <2>1
  <2>3. place \in Slots /\ entries \in [Slots -> Entry] /\ log.count + 1 \in 0 .. LogCapacity
    BY <1>0, <1>4, <1>6, SlotOf
  <2>4. LogTypeOK'
    BY <1>t, <1>0, <1>1, <1>2, <2>2, <2>3 DEF LogTypeOK, Entry
  <2>5. total = log.count /\ log.droppedOldest = Wrapped(0)
    BY <1>0, <1>3, <1>6
  <2>6. ASSUME NEW i \in 1 .. log.count + 1
        PROVE  entries[Slot(log.start + i - 1)] =
                 <<Wrapped(i), logHistory'[i]>>
    <3>1. i - 1 \in 0 .. LogCapacity /\ log.start + i - 1 = log.start + (i - 1)
      BY <1>0, <1>6 DEF Slots
    <3>2. Slot(log.start + i - 1) \in Slots
      BY <1>0, <3>1, SlotOf
    <3>3. CASE i = log.count + 1
      BY <3>3, <3>1, <1>0, <1>1, <2>3, <2>5
    <3>4. CASE i \in 1 .. log.count
      <4>1. Slot(log.start + i - 1) # place
        <5>1. Slot(log.start + (i - 1)) =
                IF log.start + (i - 1) < LogCapacity THEN log.start + (i - 1)
                ELSE log.start + (i - 1) - LogCapacity
          BY <3>1, <1>0, SlotOf
        <5>2. place = IF log.start + log.count < LogCapacity THEN log.start + log.count
                      ELSE log.start + log.count - LogCapacity
          BY <1>0, SlotOf
        <5> QED  BY <5>1, <5>2, <3>1, <3>4, <1>0, <1>6 DEF Slots
      <4>2. entries[Slot(log.start + i - 1)] = <<Wrapped(i), logHistory[i]>>
        <5>1. total - log.count + i = i
          BY <1>0, <2>5, <3>4
        <5>2. log.entries[Slot(log.start + i - 1)] = <<Wrapped(i), logHistory[i]>>
          BY <5>1, <3>4, <1>3
        <5> QED  BY <5>2, <3>2, <4>1, <1>0
      <4> QED  BY <4>2, <3>4, <2>5, <1>1
    <3> QED  BY <3>3, <3>4, <1>0
  <2>7. LogOK'
    <3> HIDE DEF entries, place
    <3>1. total + 1 - (log.count + 1) = 0 /\ \A i \in 1 .. log.count + 1 : 0 + i = i
      BY <2>5, <1>0
    <3>2. /\ log'.count = total + 1 /\ log'.start = log.start /\ log'.entries = entries
          /\ log'.sequence = Wrapped(total + 1) /\ log'.written = Wrapped(total + 1)
          /\ log'.droppedOldest = Wrapped(0)
      BY <2>2, <2>5
    <3>3. ASSUME NEW i \in 1 .. log'.count
          PROVE  log'.entries[Slot(log'.start + i - 1)] =
                   <<Wrapped(total + 1 - log'.count + i), logHistory'[total + 1 - log'.count + i]>>
      BY <2>5, <2>6, <3>1, <3>2
    <3>4. /\ log'.count = IF total + 1 < LogCapacity THEN total + 1 ELSE LogCapacity
          /\ total + 1 - log'.count = 0
      BY <1>0, <1>6, <2>5, <3>2
    <3> QED  BY <1>1, <3>2, <3>3, <3>4 DEF LogOK
  <2> QED  BY <2>4, <2>7 DEF LogIInv
<1>7. CASE log.count = LogCapacity
  <2> DEFINE entries == [log.entries EXCEPT ![log.start] = entry]
             first == Slot(log.start + 1)
  <2>1. Placed(entry) = [log EXCEPT !.entries[log.start] = entry, !.start = NextOldest(@),
                                    !.droppedOldest = Wrapped(@ + 1)]
    BY <1>7, <1>0 DEF Placed
  <2>2. log' = [entries |-> entries, start |-> first, count |-> log.count,
                sequence |-> Wrapped(total + 1), written |-> Wrapped(total + 1),
                droppedOldest |-> Wrapped(log.droppedOldest + 1)]
    BY <1>t, <1>5, <2>1 DEF NextOldest
  <2>3. /\ entries \in [Slots -> Entry] /\ first \in Slots
        /\ first = IF log.start + 1 < LogCapacity THEN log.start + 1 ELSE 0
    <3>1. 1 \in 0 .. LogCapacity
      BY <1>0
    <3>2. /\ first \in Slots
          /\ first = IF log.start + 1 < LogCapacity THEN log.start + 1
                     ELSE log.start + 1 - LogCapacity
      BY <3>1, <1>0, SlotOf
    <3>3. log.start + 1 <= LogCapacity
      BY <1>0 DEF Slots
    <3> QED  BY <3>2, <3>3, <1>0, <1>4 DEF Slots
  <2>4. Wrapped(log.droppedOldest + 1) = Wrapped(total + 1 - LogCapacity)
        /\ total >= LogCapacity
    <3>1. total - LogCapacity \in Nat
      BY <1>0, <1>3, <1>7
    <3>2. total - LogCapacity + 1 = total + 1 - LogCapacity
      BY <1>0
    <3> QED  BY <1>0, <1>2, <1>3, <1>7, <3>1, <3>2
  <2>5. LogTypeOK'
    <3>1. Wrapped(total + 1 - LogCapacity) \in Numbers
      BY <1>0, <1>2, <2>4
    <3> QED  BY <1>t, <1>0, <1>1, <1>2, <2>2, <2>3, <2>4, <3>1 DEF LogTypeOK, Entry
  <2>6. ASSUME NEW i \in 1 .. LogCapacity
        PROVE  entries[Slot(first + i - 1)] =
                 <<Wrapped(total + 1 - LogCapacity + i), logHistory'[total + 1 - LogCapacity + i]>>
    <3>1. i - 1 \in 0 .. LogCapacity /\ first + i - 1 = first + (i - 1)
      BY <1>0, <2>3 DEF Slots
    <3>2. Slot(first + i - 1) = Slot(log.start + i)
      <4>1. Slot(first + (i - 1)) =
              IF first + (i - 1) < LogCapacity THEN first + (i - 1) ELSE first + (i - 1) - LogCapacity
        BY <2>3, <3>1, SlotOf
      <4>2. Slot(log.start + i) =
              IF log.start + i < LogCapacity THEN log.start + i ELSE log.start + i - LogCapacity
        BY <1>0, SlotOf
      <4> QED  BY <4>1, <4>2, <3>1, <2>3, <1>0 DEF Slots
    <3>3. Slot(log.start + i) \in Slots
      BY <1>0, SlotOf
    <3>4. CASE i = LogCapacity
      <4>1. Slot(log.start + i) = log.start
        BY <3>4, <1>0, SlotOf DEF Slots
      <4>2. total + 1 - LogCapacity + i = total + 1
        BY <3>4, <1>0
      <4> QED  BY <3>2, <4>1, <4>2, <1>0, <1>1
    <3>5. CASE i < LogCapacity
      <4>1. Slot(log.start + i) # log.start
        BY <3>5, <1>0, SlotOf DEF Slots
      <4>2. i + 1 \in 1 .. log.count /\ log.start + (i + 1) - 1 = log.start + i
        BY <3>5, <1>0, <1>7 DEF Slots
      <4>3. log.entries[Slot(log.start + i)] =
              <<Wrapped(total - log.count + (i + 1)), logHistory[total - log.count + (i + 1)]>>
        BY <4>2, <1>3
      <4>4. /\ total - log.count + (i + 1) = total + 1 - LogCapacity + i
            /\ total + 1 - LogCapacity + i \in 1 .. total
        BY <3>5, <1>0, <1>7, <2>4
      <4> QED  BY <3>2, <3>3, <4>1, <4>3, <4>4, <1>0, <1>1
    <3> QED  BY <3>4, <3>5, <1>0
  <2>7. LogOK'
    <3> HIDE DEF entries, first
    <3>2. /\ log'.count = LogCapacity /\ log'.start = first /\ log'.entries = entries
          /\ log'.sequence = Wrapped(total + 1) /\ log'.written = Wrapped(total + 1)
          /\ log'.droppedOldest = Wrapped(total + 1 - log'.count)
      BY <2>2, <2>4, <1>7
    <3>3. ASSUME NEW i \in 1 .. log'.count
          PROVE  log'.entries[Slot(log'.start + i - 1)] =
                   <<Wrapped(total + 1 - log'.count + i), logHistory'[total + 1 - log'.count + i]>>
      BY <2>6, <3>2
    <3>4. log'.count = IF total + 1 < LogCapacity THEN total + 1 ELSE LogCapacity
      BY <1>0, <2>4, <3>2
    <3> HIDE DEF total
    <3>5. Len(logHistory') = total + 1 /\ total \in Nat /\ log'.count \in Nat
      BY <1>0, <1>1, <3>2
    <3>6. log'.count = IF Len(logHistory') < LogCapacity THEN Len(logHistory') ELSE LogCapacity
      BY <3>4, <3>5
    <3>7. log'.sequence = Wrapped(Len(logHistory')) /\ log'.written = Wrapped(Len(logHistory'))
      BY <3>2, <3>5
    <3>8. log'.droppedOldest = Wrapped(Len(logHistory') - log'.count)
      BY <3>2, <3>5
    <3>9. \A i \in 1 .. log'.count :
            log'.entries[Slot(log'.start + i - 1)] =
              <<Wrapped(Len(logHistory') - log'.count + i),
                logHistory'[Len(logHistory') - log'.count + i]>>
      BY <3>3, <3>5
    <3> QED  BY <3>6, <3>7, <3>8, <3>9 DEF LogOK
  <2> QED  BY <2>5, <2>7 DEF LogIInv
<1> QED  BY <1>6, <1>7, <1>0

(* The other steps: the log is read, restarted and switched.               *)
LEMMA LogInvariant == LogSpec => []LogIInv
<1>1. LogInit => LogIInv
  BY EmptyLogOK DEF LogInit
<1>2. ASSUME LogIInv, [LogNext]_logVars PROVE LogIInv'
  <2>1. CASE InitLogAgain
    <3>1. log' = EmptyLog /\ logHistory' = <<>> /\ webLog' \in BOOLEAN
      BY <2>1 DEF InitLogAgain
    <3>2. (log = EmptyLog /\ logHistory = <<>> /\ webLog \in BOOLEAN => LogIInv)'
      BY EmptyLogOK, PTL
    <3> QED  BY <3>1, <3>2
  <2>2. CASE UNCHANGED logVars
    BY <1>2, <2>2 DEF logVars, LogIInv, LogTypeOK, LogOK
  <2> QED  BY <1>2, <2>1, <2>2, AppendEventIInv DEF LogNext
<1> QED  BY <1>1, <1>2, PTL DEF LogSpec

(* The ring, its counters and its entries keep their types when the        *)
(* numbers wrap.                                                           *)
THEOREM LogTypeCorrect == LogSpec => []LogTypeOK
<1>1. LogIInv => LogTypeOK
  BY DEF LogIInv
<1> QED  BY <1>1, LogInvariant, PTL

(* However long the history is, the ring holds its latest events in order, *)
(* with their numbers, and the counters account for the others.            *)
THEOREM LatestEventsKept == LogSpec => []LogKeepsLatest
<1>1. ASSUME LogIInv PROVE LogKeepsLatest
  <2> USE LogAssumption
  <2> DEFINE total == Len(logHistory)
  <2>0. /\ log.count \in 0 .. LogCapacity /\ total \in Nat /\ log.start \in Slots
        /\ log.count = IF total < LogCapacity THEN total ELSE LogCapacity
        /\ log.written = Wrapped(total)
        /\ log.droppedOldest = Wrapped(total - log.count)
    BY <1>1 DEF LogIInv, LogTypeOK, LogOK
  <2>1. Wrapped(log.droppedOldest + log.count) = log.written
    <3>1. total - log.count \in Nat /\ (total - log.count) + log.count = total
      BY <2>0
    <3>2. (((total - log.count) % LogWord) + log.count) % LogWord =
            (total - log.count + log.count) % LogWord
      BY <3>1, <2>0, WrapsInto
    <3> QED  BY <3>1, <3>2, <2>0 DEF Wrapped
  <2>2. ASSUME NEW max \in 1 .. LogCapacity
        PROVE  LET n == IF total < max THEN total ELSE max
               IN  LogSnapshot(max) =
                     [i \in 1 .. n |-> <<Wrapped(total - n + i), logHistory[total - n + i]>>]
    <3> DEFINE n == IF log.count < max THEN log.count ELSE max
    <3>1. n = (IF total < max THEN total ELSE max) /\ n \in Nat /\ n <= log.count
      BY <2>0
    <3>2. ASSUME NEW i \in 1 .. n
          PROVE  log.entries[Slot(log.start + log.count - n + i - 1)] =
                   <<Wrapped(total - n + i), logHistory[total - n + i]>>
      <4>1. /\ log.count - n + i \in 1 .. log.count
            /\ log.start + (log.count - n + i) - 1 = log.start + log.count - n + i - 1
            /\ total - log.count + (log.count - n + i) = total - n + i
        <5> HIDE DEF n, total
        <5> QED  BY <3>1, <2>0 DEF Slots
      <4>2. log.entries[Slot(log.start + (log.count - n + i) - 1)] =
              <<Wrapped(total - log.count + (log.count - n + i)),
                logHistory[total - log.count + (log.count - n + i)]>>
        BY <4>1, <1>1 DEF LogIInv, LogOK
      <4> QED  BY <4>1, <4>2
    <3>3. LogSnapshot(max) = [i \in 1 .. n |-> <<Wrapped(total - n + i), logHistory[total - n + i]>>]
      BY <3>2 DEF LogSnapshot
    <3> QED  BY <3>1, <3>3
  <2> QED  BY <2>0, <2>1, <2>2 DEF LogKeepsLatest
<1> QED  BY <1>1, LogInvariant, PTL
=============================================================================
