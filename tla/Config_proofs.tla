---------------------------- MODULE Config_proofs ----------------------------
(***************************************************************************)
(* The start-up for every set of configuration files: keys, addresses and  *)
(* the hand-over to the server, for equipment lists of any length.         *)
(***************************************************************************)
EXTENDS Config, FiniteSetTheorems, FunctionTheorems, SequenceTheorems, WellFoundedInduction, TLAPS

(***************************************************************************)
(* Keys.                                                                   *)
(***************************************************************************)

KeyShape(key, S) ==
  key = [name |-> key.name, numbers |-> key.numbers] /\ key.numbers \in Seq(S)

\* Numbering a key appends one number, or none for the first.
LEMMA NumberedFact ==
  ASSUME NEW S, NEW base, KeyShape(base, S), Nat \subseteq S, NEW n \in Nat
  PROVE  /\ Numbered(base, n) = [name |-> base.name,
                                 numbers |-> IF n = 1 THEN base.numbers ELSE Append(base.numbers, n)]
         /\ Numbered(base, 1) = base
<1>1. Numbered(base, n).name = base.name
  BY DEF Numbered, KeyShape
<1>2. \A e : [base EXCEPT !.numbers = e] = [name |-> base.name, numbers |-> e]
  BY DEF KeyShape
<1>3. Numbered(base, n) = [name |-> base.name,
                           numbers |-> IF n = 1 THEN base.numbers ELSE Append(base.numbers, n)]
  BY <1>2 DEF Numbered
<1>4. Numbered(base, 1) = [name |-> base.name, numbers |-> base.numbers]
  BY <1>2 DEF Numbered
<1> QED
  BY <1>3, <1>4 DEF KeyShape

\* Different numbers make different keys.
LEMMA NumberedDiffers ==
  ASSUME NEW S, NEW base, KeyShape(base, S), Nat \subseteq S,
         NEW n \in Nat, NEW m \in Nat, Numbered(base, n) = Numbered(base, m)
  PROVE  n = m
<1> DEFINE s == base.numbers
           Num(k) == IF k = 1 THEN s ELSE Append(s, k)
<1>1. s \in Seq(S)
  BY DEF KeyShape
<1>2. ASSUME NEW k \in Nat
      PROVE  /\ Numbered(base, k).numbers = Num(k)
             /\ k # 1 => Len(Num(k)) = Len(s) + 1 /\ Num(k)[Len(s) + 1] = k
  <2>1. Numbered(base, k).numbers = Num(k)
    <3>1. Numbered(base, k) = [name |-> base.name, numbers |-> Num(k)]
      BY NumberedFact
    <3> QED
      BY <3>1
  <2>2. Len(Append(s, k)) = Len(s) + 1 /\ Append(s, k)[Len(s) + 1] = k
    BY <1>1, AppendProperties
  <2> QED
    BY <2>1, <2>2
<1>3. Num(n) = Num(m)
  BY <1>2
<1>4. Len(s) \in Nat
  BY <1>1, LenProperties
<1> HIDE DEF s
<1>5. n = 1 /\ m # 1 => FALSE
  BY <1>2, <1>3, <1>4
<1>6. m = 1 /\ n # 1 => FALSE
  BY <1>2, <1>3, <1>4
<1>7. n # 1 /\ m # 1 => n = m
  <2> HIDE DEF Num
  <2> QED
    BY <1>2, <1>3
<1> QED
  BY <1>5, <1>6, <1>7

\* A set of numbers that is not empty has a least one.
LEMMA LeastNatural ==
  ASSUME NEW T, T \subseteq Nat, T # {}
  PROVE  \E m \in T : \A k \in T : m <= k
<1>1. \E m \in T : \A k \in T : ~ (<<k, m>> \in OpToRel(<, Nat))
  BY NatLessThanWellFounded, WFMin
<1>2. \A k, m \in Nat : k < m => <<k, m>> \in OpToRel(<, Nat)
  BY Zenon DEF OpToRel
<1>3. \E m \in T : \A k \in T : ~ (k < m)
  BY <1>1, <1>2, Zenon
<1> QED
  BY <1>3

\* Among more numbers than there are keys one is free, and the first free one is
\* what _generated_equipment_key stops at: its loop ends, with a new key.
LEMMA FreeKeyFact ==
  ASSUME NEW S, NEW base, KeyShape(base, S), Nat \subseteq S, NEW used, IsFiniteSet(used)
  PROVE  /\ FreeKey(base, used) \notin used
         /\ \E n \in Nat : FreeKey(base, used) = Numbered(base, n)
         /\ base \notin used => FreeKey(base, used) = base
<1> DEFINE c == Cardinality(used)
           T == {n \in 1..(c + 1) : Numbered(base, n) \notin used}
           First(n) == /\ Numbered(base, n) \notin used
                       /\ \A m \in 1..(n - 1) : Numbered(base, m) \in used
           first == CHOOSE n \in 1..(c + 1) : First(n)
<1>1. c \in Nat
  BY FS_CardinalityType
<1>2. T # {}
  <2> SUFFICES ASSUME T = {} PROVE FALSE
    OBVIOUS
  <2> DEFINE f == [n \in 1..(c + 1) |-> Numbered(base, n)]
  <2>1. f \in [1..(c + 1) -> used]
    OBVIOUS
  <2>2. IsFiniteSet(1..(c + 1)) /\ Cardinality(1..(c + 1)) = c + 1
    BY <1>1, FS_Interval
  <2>3. c < Cardinality(1..(c + 1))
    BY <1>1, <2>2
  <2>4. \E x, y \in 1..(c + 1) : x # y /\ f[x] = f[y]
    <3> DEFINE U == 1..(c + 1)
    <3>1. IsFiniteSet(U) /\ Cardinality(used) < Cardinality(U) /\ f \in [U -> used]
      BY <2>1, <2>2, <2>3
    <3> HIDE DEF f, U
    <3>2. \E x, y \in U : x # y /\ f[x] = f[y]
      BY <3>1, FS_PigeonHole
    <3> QED
      BY <3>2 DEF U
  <2>5. PICK x, y \in 1..(c + 1) : x # y /\ Numbered(base, x) = Numbered(base, y)
    BY <2>4
  <2>6. x \in Nat /\ y \in Nat
    BY <1>1
  <2> QED
    BY <2>5, <2>6, NumberedDiffers
<1>3. PICK m \in T : \A k \in T : m <= k
  <2>1. T \subseteq Nat
    BY <1>1
  <2> HIDE DEF T
  <2> QED
    BY <1>2, <2>1, LeastNatural
<1>4. m \in 1..(c + 1) /\ First(m)
  <2>1. \A k \in 1..(m - 1) : k \in 1..(c + 1) /\ ~(m <= k)
    BY <1>1, <1>3
  <2> QED
    BY <1>3, <2>1
<1>5. first \in 1..(c + 1) /\ First(first)
  <2> HIDE DEF First
  <2> QED
    BY <1>4
<1>6. FreeKey(base, used) = Numbered(base, first)
  BY Zenon DEF FreeKey
<1>7. first \in Nat
  BY <1>1, <1>5
<1>8. ASSUME base \notin used PROVE first = 1
  <2>1. Numbered(base, 1) \notin used
    BY <1>8, NumberedFact
  <2>2. ~(1 \in 1..(first - 1))
    BY <1>5, <2>1
  <2> HIDE DEF first
  <2> QED
    BY <1>5, <1>7, <2>2
<1>9. Numbered(base, 1) = base
  BY NumberedFact
<1> HIDE DEF first
<1> QED
  BY <1>5, <1>6, <1>7, <1>8, <1>9

(***************************************************************************)
(* The instances of a list.                                                *)
(***************************************************************************)

KeysOf(made) == {made[i].key : i \in DOMAIN made}
Joined(made, item) == Append(made, Instance(item, KeysOf(made)))

Highest(s) == CHOOSE x \in s : \A y \in s : x >= y

\* h[s] are the instances of the entries of items at the positions s.
Builder(h, items) ==
  /\ h = [s \in SUBSET (DOMAIN items) |-> h[s]]
  /\ \A s \in SUBSET (DOMAIN items) :
       h[s] = IF s = {} THEN <<>> ELSE Joined(h[s \ {Highest(s)}], items[Highest(s)])

\* A set of positions has a last one.
LEMMA HighestFact ==
  ASSUME NEW n \in Nat, NEW s \in SUBSET (1..n), s # {}
  PROVE  Highest(s) \in s /\ \A y \in s : Highest(s) >= y
<1> DEFINE T == {n - x : x \in s}
<1>0. \A x \in s : x \in Nat /\ x <= n /\ n - x \in Nat
  <2>1. \A x \in 1..n : x \in Nat /\ x <= n /\ n - x \in Nat
    OBVIOUS
  <2> QED
    BY <2>1
<1>1. T \subseteq Nat /\ T # {}
  BY <1>0
<1>2. PICK m \in T : \A k \in T : m <= k
  <2> HIDE DEF T
  <2> QED
    BY <1>1, LeastNatural
<1>3. PICK x \in s : m = n - x
  BY <1>2
<1>4. ASSUME NEW y \in s PROVE x >= y
  <2>1. n - y \in T
    OBVIOUS
  <2>2. x \in Nat /\ y \in Nat /\ n - x <= n - y
    BY <1>0, <1>2, <1>3, <2>1
  <2> QED
    BY <2>2
<1>5. \E z \in s : \A y \in s : z >= y
  BY <1>3, <1>4
<1> QED
  BY <1>5, Zenon DEF Highest

\* What the recursion of FoldLeft defines exists: a least size that has no such
\* function would follow from the one before.
LEMMA BuilderExists ==
  ASSUME NEW items, NEW n \in Nat, DOMAIN items = 1..n
  PROVE  \E h : Builder(h, items)
<1> DEFINE S == DOMAIN items
           Upto(h, k) == \A s \in SUBSET S : Cardinality(s) <= k =>
                            h[s] = IF s = {} THEN <<>> ELSE Joined(h[s \ {Highest(s)}], items[Highest(s)])
           T == {k \in Nat : ~ \E h : h = [s \in SUBSET S |-> h[s]] /\ Upto(h, k)}
<1>0. IsFiniteSet(S)
  BY FS_Interval
<1>1. ASSUME NEW s \in SUBSET S
      PROVE  /\ Cardinality(s) \in Nat /\ Cardinality(s) <= Cardinality(S)
             /\ s \ {Highest(s)} \in SUBSET S
             /\ s # {} => Cardinality(s \ {Highest(s)}) = Cardinality(s) - 1 /\ Cardinality(s) > 0
  <2>1. IsFiniteSet(s) /\ Cardinality(s) <= Cardinality(S)
    BY <1>0, FS_Subset
  <2>2. Cardinality(s) \in Nat /\ (Cardinality(s) = 0 <=> s = {})
    BY <2>1, FS_CardinalityType, FS_EmptySet
  <2>3. s # {} => Cardinality(s \ {Highest(s)}) = Cardinality(s) - 1
    BY <2>1, FS_RemoveElement, HighestFact
  <2> QED
    BY <2>1, <2>2, <2>3
<1>2. Cardinality(S) \in Nat
  BY <1>0, FS_CardinalityType
<1> HIDE DEF S
<1>3. T = {}
  <2> SUFFICES ASSUME T # {} PROVE FALSE
    OBVIOUS
  <2>0. T \subseteq Nat
    OBVIOUS
  <2>1. PICK m \in T : \A k \in T : m <= k
    <3> HIDE DEF T
    <3> QED
      BY <2>0, LeastNatural
  <2>2. CASE m = 0
    <3> DEFINE h == [s \in SUBSET S |-> <<>>]
    <3>1. Upto(h, 0)
      <4>1. \A s \in SUBSET S : Cardinality(s) <= 0 => s = {}
        <5> SUFFICES ASSUME NEW s \in SUBSET S, s # {} PROVE ~(Cardinality(s) <= 0)
          OBVIOUS
        <5>1. Cardinality(s) \in Nat /\ Cardinality(s) > 0
          BY <1>1
        <5> QED
          BY <5>1
      <4> QED
        BY <4>1
    <3>2. h = [s \in SUBSET S |-> h[s]]
      OBVIOUS
    <3> QED
      BY <2>1, <2>2, <3>1, <3>2
  <2>3. CASE m # 0
    <3>1. m - 1 \in Nat /\ m - 1 \notin T
      <4>1. m \in Nat /\ m - 1 \in Nat /\ ~(m <= m - 1)
        BY <2>0, <2>1, <2>3
      <4> HIDE DEF T
      <4> QED
        BY <2>1, <4>1
    <3>2. PICK g : g = [s \in SUBSET S |-> g[s]] /\ Upto(g, m - 1)
      BY <3>1
    <3> DEFINE h == [s \in SUBSET S |-> IF Cardinality(s) <= m - 1 THEN g[s]
                                        ELSE Joined(g[s \ {Highest(s)}], items[Highest(s)])]
    <3>3. ASSUME NEW s \in SUBSET S, Cardinality(s) <= m
          PROVE  h[s] = IF s = {} THEN <<>> ELSE Joined(h[s \ {Highest(s)}], items[Highest(s)])
      <4>1. CASE s = {}
        <5>1. Cardinality(s) <= m - 1
          BY <1>1, <3>1, <4>1, FS_EmptySet
        <5>2. h[s] = g[s]
          BY <5>1
        <5> QED
          BY <3>2, <4>1, <5>1, <5>2
      <4>2. CASE s # {}
        <5> DEFINE t == s \ {Highest(s)}
        <5>1. t \in SUBSET S /\ Cardinality(t) <= m - 1
          BY <1>1, <3>1, <3>3, <4>2
        <5>2. h[t] = g[t]
          BY <5>1
        <5>3. h[s] = Joined(g[t], items[Highest(s)])
          BY <3>2, <4>2
        <5> HIDE DEF h
        <5> QED
          BY <4>2, <5>2, <5>3
      <4> QED
        BY <4>1, <4>2
    <3>4. h = [s \in SUBSET S |-> h[s]]
      OBVIOUS
    <3> HIDE DEF h
    <3>5. Upto(h, m)
      BY <3>3
    <3> QED
      BY <2>1, <3>4, <3>5
  <2> QED
    BY <2>2, <2>3
<1>4. PICK h : h = [s \in SUBSET S |-> h[s]] /\ Upto(h, Cardinality(S))
  BY <1>2, <1>3
<1>5. Builder(h, items)
  BY <1>1, <1>4 DEF Builder, S
<1> QED
  BY <1>5

\* Equipment is what such a function gives for the whole list.
LEMMA EquipmentBuilder ==
  ASSUME NEW items, NEW n \in Nat, DOMAIN items = 1..n
  PROVE  \E h : Builder(h, items) /\ Equipment(items) = h[DOMAIN items]
<1> DEFINE S == DOMAIN items
           h == CHOOSE h : h = [s \in SUBSET S |-> IF s = {} THEN <<>>
                    ELSE Joined(h[s \ {Highest(s)}], items[Highest(s)])]
<1>1. PICK g : Builder(g, items)
  BY BuilderExists
<1>2. g = [s \in SUBSET S |-> IF s = {} THEN <<>> ELSE Joined(g[s \ {Highest(s)}], items[Highest(s)])]
  BY <1>1 DEF Builder
<1>3. h = [s \in SUBSET S |-> IF s = {} THEN <<>> ELSE Joined(h[s \ {Highest(s)}], items[Highest(s)])]
  BY <1>2, Zenon
<1>4. Equipment(items) = h[S]
  BY Zenon DEF Equipment, FoldLeft, MapThenFoldSet, Joined, KeysOf, Highest, Max
<1> HIDE DEF h
<1>5. Builder(h, items)
  BY <1>3 DEF Builder
<1> QED
  BY <1>4, <1>5

IsList(s, n) == s \in Seq(ToSet(s)) /\ Len(s) = n /\ DOMAIN s = 1..n

\* t is the list s of n elements with x behind it.
Longer(t, s, n, x) ==
  /\ IsList(t, n + 1)
  /\ \A i \in 1..n : t[i] = s[i]
  /\ t[n + 1] = x

\* A list is longer by one element when it is appended.
LEMMA AppendFact ==
  ASSUME NEW n \in Nat, NEW s, IsList(s, n), NEW x
  PROVE  Longer(Append(s, x), s, n, x)
<1> DEFINE S == ToSet(s) \cup {x}
           t == Append(s, x)
<1>1. s \in Seq(S)
  <2>1. s \in Seq(ToSet(s))
    BY DEF IsList
  <2>2. ToSet(s) \subseteq S
    OBVIOUS
  <2> HIDE DEF S
  <2> QED
    BY <2>1, <2>2, SeqMonotonic
<1>2. x \in S /\ Len(s) = n
  BY DEF IsList
<1> HIDE DEF S
<1>3. /\ t \in Seq(S) /\ Len(t) = n + 1
      /\ \A i \in 1..n : t[i] = s[i]
      /\ t[n + 1] = x
  BY <1>1, <1>2, AppendProperties
<1> HIDE DEF t
<1>4. DOMAIN t = 1..(n + 1)
  BY <1>3, LenProperties
<1>5. S = ToSet(t)
  <2>1. ToSet(s) = {s[i] : i \in 1..n}
    BY DEF ToSet, IsList
  <2>2. ToSet(t) = {t[i] : i \in 1..(n + 1)}
    BY <1>4 DEF ToSet
  <2>3. \A i : i \in 1..(n + 1) <=> i \in 1..n \/ i = n + 1
    OBVIOUS
  <2> QED
    BY <1>3, <2>1, <2>2, <2>3 DEF S
<1> QED
  BY <1>3, <1>4, <1>5 DEF Longer, IsList, t

\* Every entry is instantiated with the keys of those before it in use.
Made(items, n, made) ==
  /\ IsList(made, n)
  /\ \A i \in 1..n : made[i] = Instance(items[i], {made[j].key : j \in 1..(i - 1)})

\* The parser instantiates the entries one after the other, whatever their number.
LEMMA EquipmentMade ==
  ASSUME NEW items, NEW n \in Nat, DOMAIN items = 1..n
  PROVE  Made(items, n, Equipment(items))
<1>1. PICK h : Builder(h, items) /\ Equipment(items) = h[1..n]
  BY EquipmentBuilder
<1> DEFINE T == {k \in 0..n : ~Made(items, k, h[1..k])}
<1>2. T = {}
  <2> SUFFICES ASSUME T # {} PROVE FALSE
    OBVIOUS
  <2>1. PICK m \in T : \A k \in T : m <= k
    <3>1. T \subseteq Nat
      OBVIOUS
    <3> HIDE DEF T
    <3> QED
      BY <3>1, LeastNatural
  <2>2. CASE m = 0
    <3>1. h[1..0] = <<>>
      <4>1. 1..0 = {} /\ {} \in SUBSET (DOMAIN items)
        OBVIOUS
      <4> QED
        BY <1>1, <4>1 DEF Builder
    <3>2. IsList(<<>>, 0)
      <4>1. <<>> \in Seq(ToSet(<<>>)) /\ Len(<<>>) = 0
        BY EmptySeq
      <4> QED
        BY <4>1, LenProperties DEF IsList
    <3>3. Made(items, 0, <<>>)
      BY <3>2 DEF Made
    <3> QED
      BY <2>1, <2>2, <3>1, <3>3
  <2>3. CASE m # 0
    <3> DEFINE k == m - 1
               s == h[1..k]
               x == Instance(items[m], KeysOf(s))
    <3>1. m \in 1..n /\ k \in 0..n /\ k \notin T /\ k + 1 = m
      <4>1. m \in 1..n /\ k \in 0..n /\ k + 1 = m /\ ~(m <= k)
        BY <2>1, <2>3
      <4> HIDE DEF T, k
      <4> QED
        BY <2>1, <4>1
    <3>2. Made(items, k, s)
      BY <3>1
    <3>3. h[1..m] = Append(s, x)
      <4>1. 1..m \in SUBSET (DOMAIN items) /\ 1..m # {}
        <5> HIDE DEF k, T
        <5>1. m \in 1..m /\ \A j \in 1..m : j \in 1..n
          BY <3>1
        <5> QED
          BY <5>1
      <4>2. Highest(1..m) = m
        <5>1. Highest(1..m) \in 1..m /\ \A y \in 1..m : Highest(1..m) >= y
          BY <4>1, HighestFact
        <5>2. m \in 1..m
          BY <3>1
        <5> QED
          BY <3>1, <5>1, <5>2
      <4>3. (1..m) \ {m} = 1..k
        BY <3>1
      <4>4. h[1..m] = Joined(h[(1..m) \ {Highest(1..m)}], items[Highest(1..m)])
        BY <1>1, <4>1 DEF Builder
      <4> QED
        BY <4>2, <4>3, <4>4, Zenon DEF Joined
    <3> DEFINE t == Append(s, x)
    <3> HIDE DEF T, k, s
    <3>4. /\ IsList(t, m)
          /\ \A i \in 1..k : t[i] = s[i]
          /\ t[m] = x
      <4>1. IsList(s, k) /\ k \in Nat
        BY <3>1, <3>2 DEF Made
      <4> HIDE DEF x, t
      <4>2. Longer(Append(s, x), s, k, x)
        BY <4>1, AppendFact, Zenon
      <4> QED
        BY <3>1, <4>2 DEF Longer, t
    <3> HIDE DEF t
    <3>5. ASSUME NEW i \in 1..m PROVE t[i] = Instance(items[i], {t[j].key : j \in 1..(i - 1)})
      <4>1. \A j \in 1..(i - 1) : j \in 1..k
        BY <3>1
      <4>2. {t[j].key : j \in 1..(i - 1)} = {s[j].key : j \in 1..(i - 1)}
        BY <3>4, <4>1
      <4>3. CASE i = m
        <5>1. DOMAIN s = 1..k /\ i - 1 = k
          BY <3>1, <3>2, <4>3 DEF Made, IsList
        <5>2. KeysOf(s) = {s[j].key : j \in 1..(i - 1)}
          BY <5>1 DEF KeysOf
        <5> QED
          BY <3>4, <4>2, <4>3, <5>2
      <4>4. CASE i # m
        <5>1. i \in 1..k
          BY <3>1, <4>4
        <5>2. s[i] = Instance(items[i], {s[j].key : j \in 1..(i - 1)})
          BY <3>2, <5>1 DEF Made
        <5> QED
          BY <3>4, <4>2, <5>1, <5>2
      <4> QED
        BY <4>3, <4>4
    <3>6. Made(items, m, t)
      BY <3>4, <3>5 DEF Made
    <3>7. ~Made(items, m, h[1..m])
      BY <2>1 DEF T
    <3> QED
      BY <3>3, <3>6, <3>7 DEF t
  <2> QED
    BY <2>2, <2>3
<1>3. n \in 0..n
  OBVIOUS
<1> QED
  BY <1>1, <1>2, <1>3

\* There is one way only to instantiate a list of entries.
LEMMA MadeOnce ==
  ASSUME NEW items, NEW n \in Nat, NEW made, Made(items, n, made), NEW also, Made(items, n, also)
  PROVE  made = also
<1> DEFINE T == {k \in 1..n : made[k] # also[k]}
<1>1. T = {}
  <2> SUFFICES ASSUME T # {} PROVE FALSE
    OBVIOUS
  <2>1. PICK m \in T : \A k \in T : m <= k
    <3>1. T \subseteq Nat
      OBVIOUS
    <3> HIDE DEF T
    <3> QED
      BY <3>1, LeastNatural
  <2>2. ASSUME NEW j \in 1..(m - 1) PROVE made[j] = also[j]
    <3>1. j \in 1..n /\ ~(m <= j)
      BY <2>1
    <3> QED
      BY <2>1, <3>1
  <2>3. {made[j].key : j \in 1..(m - 1)} = {also[j].key : j \in 1..(m - 1)}
    BY <2>2
  <2>4. made[m] = also[m]
    BY <2>1, <2>3 DEF Made
  <2> QED
    BY <2>1, <2>4
<1>2. \A i \in 1..n : made[i] = also[i]
  BY <1>1
<1> DEFINE S == ToSet(made) \cup ToSet(also)
<1>3. made \in Seq(S) /\ also \in Seq(S) /\ Len(made) = n /\ Len(also) = n
  <2>1. ToSet(made) \subseteq S /\ ToSet(also) \subseteq S
    OBVIOUS
  <2> HIDE DEF S
  <2> QED
    BY <2>1, SeqMonotonic DEF Made, IsList
<1> HIDE DEF S
<1> QED
  BY <1>2, <1>3, SeqEqual

(***************************************************************************)
(* Instances.                                                              *)
(***************************************************************************)

ParamsShape(params) ==
  params = [cab |-> params.cab, side |-> params.side, rest |-> params.rest] /\ AtMostOne(params.cab)

InstanceShape(e) ==
  /\ e = [type |-> e.type, key |-> e.key, params |-> e.params, enabled |-> e.enabled]
  /\ ParamsShape(e.params) /\ e.enabled \in BOOLEAN
  /\ \E n \in Nat : e.key = Numbered(BaseKey(e.type, e.params), n)

\* The number that a cab gives its key.
LEMMA OneNumber == \A c : SetToSeq({c}) = <<c>>
<1> TAKE c
<1>1. Cardinality({c}) = 1
  BY FS_Singleton
<1> DEFINE f == CHOOSE f \in [1..1 -> {c}] : IsInjective(f)
<1>2. SetToSeq({c}) = f
  BY <1>1, Zenon DEF SetToSeq
<1>3. \E g \in [1..1 -> {c}] : IsInjective(g)
  <2> DEFINE g == [i \in 1..1 |-> c]
  <2>1. g \in [1..1 -> {c}]
    OBVIOUS
  <2>2. IsInjective(g)
    BY DEF IsInjective
  <2> QED
    BY <2>1, <2>2
<1>4. f \in [1..1 -> {c}]
  BY <1>3
<1> HIDE DEF f
<1>5. f = <<c>>
  BY <1>4
<1> QED
  BY <1>2, <1>5

\* The first key for the parameters of an instance carries its cab, or nothing.
LEMMA BaseKeyFact ==
  ASSUME NEW type, NEW params, AtMostOne(params.cab)
  PROVE  /\ KeyShape(BaseKey(type, params), Nat \cup params.cab)
         /\ \A c \in params.cab : BaseKey(type, params).numbers = <<c>>
         /\ params.cab = {} => BaseKey(type, params).numbers = <<>>
<1> DEFINE S == Nat \cup params.cab
<1>1. CASE params.cab = {}
  <2>1. <<>> \in Seq(S)
    OBVIOUS
  <2>2. \E name : BaseKey(type, params) = [name |-> name, numbers |-> <<>>]
    BY <1>1, Zenon DEF BaseKey
  <2> HIDE DEF S
  <2> QED
    BY <1>1, <2>1, <2>2 DEF KeyShape, S
<1>2. CASE params.cab # {}
  <2>1. PICK c : c \in params.cab
    BY <1>2
  <2>2. params.cab = {c}
    BY <2>1 DEF AtMostOne
  <2>3. BaseKey(type, params) = [name |-> <<type>>, numbers |-> <<c>>]
    BY <1>2, <2>2, OneNumber, Zenon DEF BaseKey
  <2>4. <<c>> \in Seq(S)
    BY <2>1
  <2> QED
    BY <1>2, <2>2, <2>3, <2>4 DEF KeyShape
<1> QED
  BY <1>1, <1>2

\* A generated key is new, and it is the first one where that was free.
LEMMA GeneratedKeyFact ==
  ASSUME NEW type, NEW params, AtMostOne(params.cab), NEW used, IsFiniteSet(used)
  PROVE  /\ GeneratedKey(type, params, used) \notin used
         /\ \E n \in Nat : GeneratedKey(type, params, used) = Numbered(BaseKey(type, params), n)
         /\ BaseKey(type, params) \notin used
              => GeneratedKey(type, params, used) = BaseKey(type, params)
<1> DEFINE base == BaseKey(type, params)
           S == Nat \cup params.cab
<1>1. KeyShape(base, S) /\ Nat \subseteq S
  BY BaseKeyFact
<1> HIDE DEF base, S
<1>2. /\ FreeKey(base, used) \notin used
      /\ \E n \in Nat : FreeKey(base, used) = Numbered(base, n)
      /\ base \notin used => FreeKey(base, used) = base
  BY <1>1, FreeKeyFact
<1> QED
  BY <1>2 DEF GeneratedKey, base

\* An instance keeps its entry's type and parameters.
LEMMA InstanceFact ==
  ASSUME NEW item, AtMostOne(item.cab), AtMostOne(item.params.cab), NEW used, IsFiniteSet(used)
  PROVE  /\ InstanceShape(Instance(item, used))
         /\ Instance(item, used).key \notin used
<1> DEFINE params == ParamsOf(item)
           e == Instance(item, used)
           key == GeneratedKey(item.type, params, used)
           on == item.enabled = "yes"
<1>1. ParamsShape(params)
  <2>1. params = [cab |-> IF item.cab # {} THEN item.cab ELSE item.params.cab,
                  side |-> IF item.side # {} THEN item.side ELSE item.params.side,
                  rest |-> item.params.rest]
    BY DEF ParamsOf
  <2> HIDE DEF params
  <2> QED
    BY <2>1 DEF ParamsShape
<1>2. e = [type |-> item.type, key |-> key, params |-> params, enabled |-> on]
  BY Zenon DEF Instance
<1>3. /\ key \notin used
      /\ \E n \in Nat : key = Numbered(BaseKey(item.type, params), n)
  <2>1. AtMostOne(params.cab)
    BY <1>1 DEF ParamsShape
  <2> HIDE DEF params
  <2> QED
    BY <2>1, GeneratedKeyFact
<1>4. on \in BOOLEAN
  OBVIOUS
<1> HIDE DEF key, params, on
<1>5. e.type = item.type /\ e.key = key /\ e.params = params /\ e.enabled = on
  BY <1>2
<1> HIDE DEF e
<1>6. InstanceShape(e)
  BY <1>1, <1>2, <1>3, <1>4, <1>5 DEF InstanceShape
<1> QED
  BY <1>3, <1>5, <1>6 DEF e

\* Finitely many positions have finitely many keys.
LEMMA KeysFinite ==
  ASSUME NEW made, NEW k \in Int
  PROVE  IsFiniteSet({made[j].key : j \in 1..k})
<1> DEFINE f == [j \in 1..k |-> made[j].key]
           S == 1..k
           T == {made[j].key : j \in 1..k}
<1>1. IsFiniteSet(S)
  BY FS_Interval
<1>2. f \in Surjection(S, T)
  BY DEF Surjection
<1> HIDE DEF f, S, T
<1>3. IsFiniteSet(T)
  BY <1>1, <1>2, FS_Surjection
<1> QED
  BY <1>3 DEF T

\* What the server and the command read off an equipment list.
Fitted(equipment, n) ==
  /\ IsList(equipment, n)
  /\ \A i \in 1..n : InstanceShape(equipment[i])
  /\ \A i \in 1..n : equipment[i].key =
       GeneratedKey(equipment[i].type, equipment[i].params, {equipment[j].key : j \in 1..(i - 1)})

\* So is the equipment of a list of entries.
LEMMA EquipmentFitted ==
  ASSUME NEW items, NEW n \in Nat, DOMAIN items = 1..n,
         \A item \in ToSet(items) : AtMostOne(item.cab) /\ AtMostOne(item.params.cab)
  PROVE  Fitted(Equipment(items), n)
<1> DEFINE made == Equipment(items)
<1>1. Made(items, n, made)
  BY EquipmentMade
<1> HIDE DEF made
<1>2. ASSUME NEW i \in 1..n
      PROVE  /\ InstanceShape(made[i])
             /\ made[i].key = GeneratedKey(made[i].type, made[i].params, {made[j].key : j \in 1..(i - 1)})
  <2> DEFINE used == {made[j].key : j \in 1..(i - 1)}
  <2>1. made[i] = Instance(items[i], used)
    BY <1>1 DEF Made
  <2>2. IsFiniteSet(used)
    <3>1. i - 1 \in Int
      OBVIOUS
    <3>2. \A k \in Int : IsFiniteSet({made[j].key : j \in 1..k})
      BY KeysFinite
    <3> QED
      BY <3>1, <3>2
  <2>3. AtMostOne(items[i].cab) /\ AtMostOne(items[i].params.cab)
    BY DEF ToSet
  <2> HIDE DEF used
  <2>4. InstanceShape(Instance(items[i], used))
    BY <2>2, <2>3, InstanceFact
  <2>5. Instance(items[i], used) =
          [type |-> items[i].type, key |-> GeneratedKey(items[i].type, ParamsOf(items[i]), used),
           params |-> ParamsOf(items[i]), enabled |-> items[i].enabled = "yes"]
    BY Zenon DEF Instance
  <2>6. made[i].key = GeneratedKey(made[i].type, made[i].params, used)
    BY <2>1, <2>5
  <2> QED
    BY <2>1, <2>4, <2>6 DEF used
<1>3. IsList(made, n)
  BY <1>1 DEF Made
<1> QED
  BY <1>2, <1>3 DEF Fitted, made

\* A fitted list has a key of its own for each instance.
LEMMA FittedDiffers ==
  ASSUME NEW n \in Nat, NEW equipment, Fitted(equipment, n)
  PROVE  DistinctBy(equipment, LAMBDA instance : instance.key)
<1>1. ASSUME NEW i \in 1..n, NEW j \in 1..n, j < i PROVE equipment[i].key # equipment[j].key
  <2> DEFINE used == {equipment[k].key : k \in 1..(i - 1)}
  <2>1. IsFiniteSet(used)
    <3>1. i - 1 \in Int
      OBVIOUS
    <3>2. \A m \in Int : IsFiniteSet({equipment[k].key : k \in 1..m})
      BY KeysFinite
    <3> QED
      BY <3>1, <3>2
  <2>2. equipment[i].key = GeneratedKey(equipment[i].type, equipment[i].params, used)
    BY DEF Fitted
  <2>3. AtMostOne(equipment[i].params.cab)
    BY DEF Fitted, InstanceShape, ParamsShape
  <2>4. equipment[j].key \in used
    BY <1>1
  <2> HIDE DEF used
  <2>5. equipment[i].key \notin used
    BY <2>1, <2>2, <2>3, GeneratedKeyFact
  <2> QED
    BY <2>4, <2>5
<1>2. DOMAIN equipment = 1..n
  BY DEF Fitted, IsList
<1>3. \A i, j \in 1..n : equipment[i].key = equipment[j].key => i = j
  <2> SUFFICES ASSUME NEW i \in 1..n, NEW j \in 1..n, equipment[i].key = equipment[j].key, i # j
               PROVE  FALSE
    OBVIOUS
  <2>1. j < i \/ i < j
    OBVIOUS
  <2> QED
    BY <1>1, <2>1
<1> QED
  BY <1>2, <1>3 DEF DistinctBy

(***************************************************************************)
(* The hand-over.                                                          *)
(***************************************************************************)

\* A fitted list is fitted again from what it is serialized to.
LEMMA FittedAgain ==
  ASSUME NEW n \in Nat, NEW equipment, Fitted(equipment, n)
  PROVE  Equipment([i \in DOMAIN equipment |-> ItemData(equipment[i])]) = equipment
<1> DEFINE items == [i \in DOMAIN equipment |-> ItemData(equipment[i])]
<1>1. DOMAIN equipment = 1..n
  BY DEF Fitted, IsList
<1>2. DOMAIN items = 1..n
  BY <1>1
<1>3. ASSUME NEW i \in 1..n
      PROVE  equipment[i] = Instance(items[i], {equipment[j].key : j \in 1..(i - 1)})
  <2> DEFINE e == equipment[i]
             used == {equipment[j].key : j \in 1..(i - 1)}
             item == ItemData(e)
             params == ParamsOf(item)
             on == item.enabled = "yes"
  <2>1. InstanceShape(e) /\ e.key = GeneratedKey(e.type, e.params, used)
    BY DEF Fitted
  <2>2. items[i] = item
    BY <1>1
  <2> HIDE DEF used, e, items
  <2>3. item = [type |-> e.type, key |-> FALSE, enabled |-> IF e.enabled THEN "yes" ELSE "no",
                cab |-> e.params.cab, side |-> {},
                params |-> [cab |-> {}, side |-> e.params.side, rest |-> e.params.rest]]
    BY Zenon DEF ItemData
  <2>4. params = [cab |-> IF item.cab # {} THEN item.cab ELSE item.params.cab,
                  side |-> IF item.side # {} THEN item.side ELSE item.params.side,
                  rest |-> item.params.rest]
    BY Zenon DEF ParamsOf
  <2> HIDE DEF item, params
  <2>5. item.type = e.type /\ item.cab = e.params.cab /\ item.side = {}
        /\ item.params.cab = {} /\ item.params.side = e.params.side /\ item.params.rest = e.params.rest
        /\ item.enabled = IF e.enabled THEN "yes" ELSE "no"
    BY <2>3
  <2>6. params = e.params
    BY <2>1, <2>4, <2>5 DEF InstanceShape, ParamsShape
  <2>7. on = e.enabled
    BY <2>1, <2>5 DEF InstanceShape
  <2>8. Instance(item, used) = [type |-> item.type, key |-> GeneratedKey(item.type, params, used),
                                params |-> params, enabled |-> on]
    BY Zenon DEF Instance, params
  <2>9. Instance(item, used) = [type |-> e.type, key |-> e.key, params |-> e.params, enabled |-> e.enabled]
    BY <2>1, <2>5, <2>6, <2>7, <2>8
  <2> QED
    BY <2>1, <2>2, <2>9 DEF InstanceShape, e, used
<1> HIDE DEF items
<1>4. Made(items, n, equipment)
  BY <1>3 DEF Made, Fitted
<1>5. Made(items, n, Equipment(items))
  BY <1>2, EquipmentMade
<1> QED
  BY <1>4, <1>5, MadeOnce DEF items

\* An instance of the standard fit, with the first key of its kind.
Standard(e) == InstanceShape(e) /\ e.key = BaseKey(e.type, e.params)

\* An instance with its first key that is switched on.
LEMMA StandardInstance ==
  ASSUME NEW type, NEW key, NEW cab, AtMostOne(cab), NEW side,
         key = BaseKey(type, [cab |-> cab, side |-> side, rest |-> "none"])
  PROVE  Standard([type |-> type, enabled |-> TRUE, key |-> key,
                   params |-> [cab |-> cab, side |-> side, rest |-> "none"]])
<1> DEFINE params == [cab |-> cab, side |-> side, rest |-> "none"]
           e == [type |-> type, enabled |-> TRUE, key |-> key, params |-> params]
<1>1. ParamsShape(params) /\ AtMostOne(params.cab)
  BY DEF ParamsShape
<1>2. key = Numbered(BaseKey(type, params), 1)
  <2> HIDE DEF params
  <2>1. KeyShape(BaseKey(type, params), Nat \cup params.cab)
    BY <1>1, BaseKeyFact
  <2>2. Nat \subseteq Nat \cup params.cab /\ 1 \in Nat
    OBVIOUS
  <2>3. Numbered(BaseKey(type, params), 1) = BaseKey(type, params)
    BY <2>1, <2>2, NumberedFact
  <2> QED
    BY <2>3 DEF params
<1>3. key = BaseKey(type, params)
  OBVIOUS
<1> HIDE DEF params
<1>4. e.type = type /\ e.enabled = TRUE /\ e.key = key /\ e.params = params
      /\ e = [type |-> e.type, key |-> e.key, params |-> e.params, enabled |-> e.enabled]
  OBVIOUS
<1> HIDE DEF e
<1>5. Standard(e)
  BY <1>1, <1>2, <1>3, <1>4 DEF Standard, InstanceShape
<1> QED
  BY <1>5 DEF e, params

\* A sequence over any set is a list.
LEMMA ListFact ==
  ASSUME NEW S, NEW s \in Seq(S)
  PROVE  Len(s) \in Nat /\ IsList(s, Len(s))
<1>1. Len(s) \in Nat /\ DOMAIN s = 1..Len(s) /\ s \in [1..Len(s) -> S]
  BY LenProperties
<1>2. s \in [1..Len(s) -> ToSet(s)]
  BY <1>1 DEF ToSet
<1>3. s \in Seq(ToSet(s))
  BY <1>1, <1>2
<1> QED
  BY <1>1, <1>3 DEF IsList

\* What a door and an instance of a cab are in the standard fit.
LEMMA StandardParts ==
  /\ \A side : Standard([type |-> "door", enabled |-> TRUE,
                         key |-> [name |-> <<side, "door">>, numbers |-> <<>>],
                         params |-> [cab |-> {}, side |-> {side}, rest |-> "none"]])
  /\ \A type, c : Standard([type |-> type, enabled |-> TRUE,
                            key |-> [name |-> <<type>>, numbers |-> <<c>>],
                            params |-> [cab |-> {c}, side |-> {}, rest |-> "none"]])
<1>1. ASSUME NEW side
      PROVE  BaseKey("door", [cab |-> {}, side |-> {side}, rest |-> "none"]) =
               [name |-> <<side, "door">>, numbers |-> <<>>]
  <2>1. BaseKey("door", [cab |-> {}, side |-> {side}, rest |-> "none"]) =
          [name |-> SetToSeq({side}) \o <<"door">>, numbers |-> <<>>]
    BY DEF BaseKey
  <2>2. <<side>> \o <<"door">> = <<side, "door">>
    <3> DEFINE S == {side, "door"}
               both == <<side>> \o <<"door">>
    <3>1. <<side>> \in Seq(S) /\ <<"door">> \in Seq(S) /\ <<side, "door">> \in Seq(S)
      OBVIOUS
    <3>2. Len(<<side>>) = 1 /\ Len(<<"door">>) = 1 /\ Len(<<side, "door">>) = 2
      OBVIOUS
    <3> HIDE DEF S
    <3>3. /\ both \in Seq(S) /\ Len(both) = 2
          /\ both[1] = side /\ both[2] = "door"
      BY <3>1, <3>2, ConcatProperties
    <3> HIDE DEF both
    <3>4. both = <<side, "door">>
      BY <3>1, <3>2, <3>3, SeqEqual
    <3> QED
      BY <3>4 DEF both
  <2> QED
    BY <2>1, <2>2, OneNumber
<1>2. ASSUME NEW type, NEW c
      PROVE  BaseKey(type, [cab |-> {c}, side |-> {}, rest |-> "none"]) =
               [name |-> <<type>>, numbers |-> <<c>>]
  BY OneNumber DEF BaseKey
<1>3. AtMostOne({}) /\ \A c : AtMostOne({c})
  BY DEF AtMostOne
<1>4. ASSUME NEW side
      PROVE  Standard([type |-> "door", enabled |-> TRUE,
                       key |-> [name |-> <<side, "door">>, numbers |-> <<>>],
                       params |-> [cab |-> {}, side |-> {side}, rest |-> "none"]])
  BY <1>1, <1>3, StandardInstance
<1>5. ASSUME NEW type, NEW c
      PROVE  Standard([type |-> type, enabled |-> TRUE,
                       key |-> [name |-> <<type>>, numbers |-> <<c>>],
                       params |-> [cab |-> {c}, side |-> {}, rest |-> "none"]])
  BY <1>2, <1>3, StandardInstance
<1> QED
  BY <1>4, <1>5

\* The fit without an equipment list: two doors and three instances per cab.
LEMMA StandardFitFact ==
  ASSUME NEW ids, NEW k \in Nat, DOMAIN ids = 1..k
  PROVE  \E S : StandardFit(ids) \in Seq(S) /\ \A e \in S : Standard(e)
<1> DEFINE Door(side) ==
             [type |-> "door", enabled |-> TRUE, key |-> [name |-> <<side, "door">>, numbers |-> <<>>],
              params |-> [cab |-> {}, side |-> {side}, rest |-> "none"]]
           PerCab(type) ==
             [i \in DOMAIN ids |->
               [type |-> type, enabled |-> TRUE, key |-> [name |-> <<type>>, numbers |-> <<ids[i]>>],
                params |-> [cab |-> {ids[i]}, side |-> {}, rest |-> "none"]]]
           Every == {Door("left"), Door("right")} \cup ToSet(PerCab("btm"))
                    \cup ToSet(PerCab("driving_system")) \cup ToSet(PerCab("stcs_atp_duo"))
           doors == <<Door("left"), Door("right")>>
<1>1. ASSUME NEW type
      PROVE  \A e \in ToSet(PerCab(type)) : Standard(e)
  <2>1. \A i \in 1..k : Standard(PerCab(type)[i])
    BY StandardParts
  <2> QED
    BY <2>1 DEF ToSet
<1>2. PerCab("btm") \in Seq(Every) /\ PerCab("driving_system") \in Seq(Every)
      /\ PerCab("stcs_atp_duo") \in Seq(Every)
  <2>1. ASSUME NEW type, ToSet(PerCab(type)) \subseteq Every
        PROVE  PerCab(type) \in Seq(Every)
    <3> HIDE DEF Every
    <3>1. PerCab(type) \in [1..k -> Every]
      BY <2>1 DEF ToSet
    <3> QED
      BY <3>1
  <2>2. \A type \in {"btm", "driving_system", "stcs_atp_duo"} : ToSet(PerCab(type)) \subseteq Every
    <3> HIDE DEF PerCab, Door
    <3> QED
      OBVIOUS
  <2> HIDE DEF Every, PerCab
  <2> QED
    BY <2>1, <2>2
<1>3. doors \in Seq(Every)
  <2>1. Door("left") \in Every /\ Door("right") \in Every
    <3> HIDE DEF PerCab, Door
    <3> QED
      OBVIOUS
  <2> HIDE DEF Every, Door
  <2> QED
    BY <2>1
<1>4. StandardFit(ids) = doors \o PerCab("btm") \o PerCab("driving_system") \o PerCab("stcs_atp_duo")
  BY Zenon DEF StandardFit
<1>5. \A e \in Every : Standard(e)
  <2>1. Standard(Door("left")) /\ Standard(Door("right"))
    BY StandardParts
  <2> HIDE DEF PerCab, Door
  <2> QED
    BY <1>1, <2>1
<1> HIDE DEF Every, doors, PerCab
<1>6. \A s, t \in Seq(Every) : s \o t \in Seq(Every)
  BY ConcatProperties
<1>7. doors \o PerCab("btm") \o PerCab("driving_system") \o PerCab("stcs_atp_duo") \in Seq(Every)
  BY <1>2, <1>3, <1>6
<1> QED
  BY <1>4, <1>5, <1>7

\* The standard fit is fitted if its keys are distinct, which the parser checks.
LEMMA StandardFitted ==
  ASSUME NEW ids, NEW k \in Nat, DOMAIN ids = 1..k,
         DistinctBy(StandardFit(ids), LAMBDA instance : instance.key)
  PROVE  \E n \in Nat : Fitted(StandardFit(ids), n)
<1> DEFINE fit == StandardFit(ids)
           n == Len(fit)
<1>1. PICK S : fit \in Seq(S) /\ \A e \in S : Standard(e)
  BY StandardFitFact
<1> HIDE DEF fit
<1>2. n \in Nat /\ IsList(fit, n)
  BY <1>1, ListFact
<1>3. \A i, j \in 1..n : fit[i].key = fit[j].key => i = j
  BY <1>2 DEF DistinctBy, IsList, fit
<1>4. \A i \in 1..n : Standard(fit[i])
  BY <1>1, <1>2, ElementOfSeq
<1> HIDE DEF n
<1>5. ASSUME NEW i \in 1..n
      PROVE  fit[i].key = GeneratedKey(fit[i].type, fit[i].params, {fit[j].key : j \in 1..(i - 1)})
  <2> DEFINE used == {fit[j].key : j \in 1..(i - 1)}
             base == BaseKey(fit[i].type, fit[i].params)
  <2>1. fit[i].key = base /\ AtMostOne(fit[i].params.cab)
    BY <1>4 DEF Standard, InstanceShape, ParamsShape
  <2>2. IsFiniteSet(used)
    <3>1. i - 1 \in Int
      OBVIOUS
    <3>2. \A m \in Int : IsFiniteSet({fit[j].key : j \in 1..m})
      BY KeysFinite
    <3> QED
      BY <3>1, <3>2
  <2>3. fit[i].key \notin used
    <3>1. \A j \in 1..(i - 1) : j \in 1..n /\ j # i
      BY <1>2
    <3> QED
      BY <1>3, <3>1
  <2> HIDE DEF used
  <2>4. GeneratedKey(fit[i].type, fit[i].params, used) = base
    BY <2>1, <2>2, <2>3, GeneratedKeyFact
  <2> QED
    BY <2>1, <2>4 DEF used
<1>6. Fitted(fit, n)
  BY <1>2, <1>4, <1>5 DEF Fitted, Standard
<1> QED
  BY <1>2, <1>6 DEF fit

\* The standard fit names each cab once in a type, since its keys are distinct.
LEMMA StandardNamed ==
  ASSUME NEW ids, NEW k \in Nat, DOMAIN ids = 1..k,
         DistinctBy(StandardFit(ids), LAMBDA instance : instance.key)
  PROVE  CabsNamedOnce(StandardFit(ids))
<1> DEFINE fit == StandardFit(ids)
<1>1. PICK S : fit \in Seq(S) /\ \A e \in S : Standard(e)
  BY StandardFitFact
<1>2. \A i, j \in DOMAIN fit : fit[i].key = fit[j].key => i = j
  BY DEF DistinctBy
<1> HIDE DEF fit
<1>3. \A i \in DOMAIN fit : Standard(fit[i])
  BY <1>1, LenProperties, ElementOfSeq
<1>4. ASSUME NEW i \in DOMAIN fit, NEW j \in DOMAIN fit, fit[i].type = fit[j].type,
             NEW cab \in fit[i].params.cab \cap fit[j].params.cab
      PROVE  i = j
  <2>1. fit[i].params.cab = {cab} /\ fit[j].params.cab = {cab}
    BY <1>3, <1>4 DEF Standard, InstanceShape, ParamsShape, AtMostOne
  <2>2. fit[i].key = [name |-> <<fit[i].type>>, numbers |-> SetToSeq({cab})]
    BY <1>3, <2>1 DEF Standard, BaseKey
  <2>3. fit[j].key = [name |-> <<fit[i].type>>, numbers |-> SetToSeq({cab})]
    BY <1>3, <1>4, <2>1 DEF Standard, BaseKey
  <2> QED
    BY <1>2, <2>2, <2>3
<1>5. CabsNamedOnce(fit)
  BY <1>4 DEF CabsNamedOnce, Enabled
<1> QED
  BY <1>5 DEF fit

\* An accepted train has a fitted equipment list, its own or the standard one.
LEMMA TrainFitted ==
  ASSUME NEW f \in Files, TrainAccepted(f.train)
  PROVE  \E n \in Nat : Fitted(TrainOf(f.train).equipment, n)
<1> DEFINE cabs == f.train.cabs
           ids == Ids(cabs)
           given == CHOOSE items \in f.train.equipment : TRUE
           fit == IF f.train.equipment = {} THEN StandardFit(ids) ELSE Equipment(given)
<1>1. TrainOf(f.train).equipment = fit
  BY Zenon DEF TrainOf
<1>2. CASE f.train.equipment = {}
  <2>1. DistinctBy(TrainOf(f.train).equipment, LAMBDA instance : instance.key)
    BY Zenon DEF TrainAccepted, TrainConfigAccepted
  <2>2. Len(cabs) \in Nat /\ DOMAIN cabs = 1..Len(cabs)
    BY FilesAssumption, LenProperties
  <2>3. DOMAIN ids = 1..Len(cabs)
    BY <2>2 DEF Ids
  <2>4. fit = StandardFit(ids)
    BY <1>2
  <2> HIDE DEF fit, ids
  <2>5. DistinctBy(StandardFit(ids), LAMBDA instance : instance.key)
    BY <1>1, <2>1, <2>4
  <2>6. \E n \in Nat : Fitted(StandardFit(ids), n)
    BY <2>2, <2>3, <2>5, StandardFitted
  <2> QED
    BY <1>1, <2>4, <2>6
<1>3. CASE f.train.equipment # {}
  <2>1. given \in f.train.equipment
    BY <1>3
  <2>2. /\ given \in Seq(ToSet(given))
        /\ \A item \in ToSet(given) : AtMostOne(item.cab) /\ AtMostOne(item.params.cab)
    BY <2>1, FilesAssumption
  <2>3. fit = Equipment(given)
    BY <1>3
  <2> HIDE DEF given, fit
  <2>4. Len(given) \in Nat /\ DOMAIN given = 1..Len(given)
    BY <2>2, LenProperties
  <2>5. Fitted(Equipment(given), Len(given))
    BY <2>2, <2>4, EquipmentFitted
  <2> QED
    BY <1>1, <2>3, <2>4, <2>5
<1> QED
  BY <1>2, <1>3

\* The parts of a train that the checks look at, as they are serialized.
Serialized(data, t, u) ==
  /\ ~u.unknown /\ u.train_id = data.train_id
  /\ u.equipment = {[i \in DOMAIN t.equipment |-> ItemData(t.equipment[i])]}
  /\ DOMAIN u.cabs = DOMAIN data.cabs /\ DOMAIN data.cabs # {}
  /\ \A i \in DOMAIN data.cabs : /\ u.cabs[i].cab_id = data.cabs[i].cab_id
                                 /\ u.cabs[i].facing \in {"forward", "backward"}
                                 /\ u.cabs[i].key_inserted \in {"yes", "no"}
  /\ Cardinality(ActiveOf(u.cabs)) = 1
  /\ t.cab_ids = Ids(data.cabs) /\ Ids(u.cabs) = Ids(data.cabs)

\* The cabs of an accepted train, its active cab, its keys and its facings are
\* read off again from what it is serialized to, and so is its equipment.
LEMMA TrainAgain ==
  ASSUME NEW f \in Files, TrainAccepted(f.train)
  PROVE  /\ TrainOf(TrainData(TrainOf(f.train))) = TrainOf(f.train)
         /\ Serialized(f.train, TrainOf(f.train), TrainData(TrainOf(f.train)))
<1> DEFINE data == f.train
           D == DOMAIN data.cabs
           ids == Ids(data.cabs)
           a == CHOOSE i \in ActiveOf(data.cabs) : TRUE
           keys == {ids[i] : i \in {j \in DOMAIN ids : data.cabs[j].key_inserted = "yes"}}
           facings == [i \in DOMAIN ids |-> IF data.cabs[i].facing = "forward" THEN 1 ELSE -1]
           t == TrainOf(data)
           equipment == t.equipment
           cabs == [i \in DOMAIN ids |->
                     [cab_id |-> ids[i], active |-> ids[i] = ids[a],
                      facing |-> IF facings[i] = 1 THEN "forward" ELSE "backward",
                      key_inserted |-> IF ids[i] \in keys THEN "yes" ELSE "no"]]
           items == [i \in DOMAIN equipment |-> ItemData(equipment[i])]
           u == TrainData(t)
<1>1. t = [train_id |-> data.train_id, cab_ids |-> ids, active |-> ids[a], key_cabs |-> keys,
           facings |-> facings, physics |-> data.physics, equipment |-> equipment]
  <2>1. \E fit : t = [train_id |-> data.train_id, cab_ids |-> ids, active |-> ids[a], key_cabs |-> keys,
                      facings |-> facings, physics |-> data.physics, equipment |-> fit]
    BY Zenon DEF TrainOf
  <2> HIDE DEF t, ids, a, keys, facings
  <2> QED
    BY <2>1
<1>2. a \in D /\ D = DOMAIN ids /\ \A i \in D : ids[i] = data.cabs[i].cab_id
  <2>1. ActiveOf(data.cabs) # {}
    <3>1. Cardinality(ActiveOf(data.cabs)) = 1
      BY Zenon DEF TrainAccepted
    <3> QED
      BY <3>1, FS_EmptySet
  <2>2. a \in ActiveOf(data.cabs)
    BY <2>1
  <2> HIDE DEF a
  <2> QED
    BY <2>2 DEF ActiveOf, Ids
<1>3. \A i, j \in D : ids[i] = ids[j] => i = j
  <2>1. DistinctBy(data.cabs, LAMBDA cab : cab.cab_id)
    BY Zenon DEF TrainAccepted
  <2> QED
    BY <1>2, <2>1 DEF DistinctBy
<1>4. u = [unknown |-> FALSE, train_id |-> data.train_id, physics |-> data.physics, cabs |-> cabs,
           equipment |-> {items}]
  <2> HIDE DEF t, ids, a, keys, facings
  <2>1. t.train_id = data.train_id /\ t.cab_ids = ids /\ t.active = ids[a] /\ t.key_cabs = keys
        /\ t.facings = facings /\ t.physics = data.physics
    BY <1>1
  <2>2. u = [unknown |-> FALSE, train_id |-> t.train_id, physics |-> t.physics,
             cabs |-> [i \in DOMAIN t.cab_ids |->
                        [cab_id |-> t.cab_ids[i], active |-> t.cab_ids[i] = t.active,
                         facing |-> IF t.facings[i] = 1 THEN "forward" ELSE "backward",
                         key_inserted |-> IF t.cab_ids[i] \in t.key_cabs THEN "yes" ELSE "no"]],
             equipment |-> {items}]
    BY Zenon DEF TrainData
  <2> QED
    BY <2>1, <2>2, Zenon
<1> DEFINE newIds == Ids(u.cabs)
           newA == CHOOSE i \in ActiveOf(u.cabs) : TRUE
           newKeys == {newIds[i] : i \in {j \in DOMAIN newIds : u.cabs[j].key_inserted = "yes"}}
           newFacings == [i \in DOMAIN newIds |-> IF u.cabs[i].facing = "forward" THEN 1 ELSE -1]
<1> HIDE DEF t, u, ids, a, keys, items
<1>5. u.cabs = cabs /\ u.train_id = data.train_id /\ u.physics = data.physics /\ u.equipment = {items}
  BY <1>4
<1>6. newIds = ids
  <2>1. newIds = [i \in D |-> ids[i]]
    BY <1>2, <1>5 DEF Ids
  <2>2. ids = [i \in D |-> ids[i]]
    BY <1>2 DEF ids, Ids
  <2> QED
    BY <2>1, <2>2
<1>13. ActiveOf(u.cabs) = {a}
  <2>1. ASSUME NEW i \in D PROVE u.cabs[i].active <=> i = a
    <3> DEFINE on == ids[i] = ids[a]
    <3>1. u.cabs[i] = [cab_id |-> ids[i], active |-> on,
                       facing |-> IF facings[i] = 1 THEN "forward" ELSE "backward",
                       key_inserted |-> IF ids[i] \in keys THEN "yes" ELSE "no"]
      BY <1>2, <1>5, Zenon
    <3>2. on <=> i = a
      BY <1>2, <1>3
    <3> HIDE DEF on
    <3>3. u.cabs[i].active = on
      BY <3>1
    <3> QED
      BY <3>2, <3>3
  <2>2. DOMAIN u.cabs = D
    BY <1>2, <1>5
  <2> QED
    BY <1>2, <2>1, <2>2 DEF ActiveOf
<1>7. newIds[newA] = ids[a]
  <2>1. newA = a
    BY <1>13
  <2> QED
    BY <1>6, <2>1
<1>8. newKeys = keys
  <2>1. \A j \in D : u.cabs[j].key_inserted = "yes" <=> ids[j] \in keys
    BY <1>2, <1>5
  <2>2. newKeys = {ids[i] : i \in {j \in D : ids[j] \in keys}}
    BY <1>2, <1>6, <2>1
  <2>3. \A x \in keys : \E j \in D : x = ids[j]
    BY <1>2 DEF keys
  <2> QED
    BY <2>2, <2>3
<1>9. newFacings = facings
  <2>1. \A i \in D : u.cabs[i].facing = "forward" <=> facings[i] = 1
    BY <1>2, <1>5
  <2>2. \A i \in D : facings[i] \in {1, -1}
    BY <1>2
  <2>3. newFacings = [i \in D |-> IF facings[i] = 1 THEN 1 ELSE -1]
    BY <1>2, <1>6, <2>1
  <2>4. facings = [i \in D |-> facings[i]]
    BY <1>2
  <2> HIDE DEF facings, newFacings
  <2>5. \A i \in D : facings[i] = IF facings[i] = 1 THEN 1 ELSE -1
    BY <2>2
  <2> QED
    BY <2>3, <2>4, <2>5
<1>10. Equipment(items) = equipment
  <2>1. PICK n \in Nat : Fitted(equipment, n)
    BY TrainFitted DEF t
  <2> HIDE DEF equipment
  <2> QED
    BY <2>1, FittedAgain DEF items
<1>11. TrainOf(u) = [train_id |-> u.train_id, cab_ids |-> newIds, active |-> newIds[newA],
                     key_cabs |-> newKeys, facings |-> newFacings, physics |-> u.physics,
                     equipment |-> equipment]
  <2>1. u.equipment # {} /\ (CHOOSE list \in u.equipment : TRUE) = items
    BY <1>5
  <2>2. TrainOf(u) = [train_id |-> u.train_id, cab_ids |-> newIds, active |-> newIds[newA],
                      key_cabs |-> newKeys, facings |-> newFacings, physics |-> u.physics,
                      equipment |-> IF u.equipment = {} THEN StandardFit(newIds)
                                    ELSE Equipment(CHOOSE list \in u.equipment : TRUE)]
    BY Zenon DEF TrainOf
  <2> HIDE DEF newIds, newA, newKeys, newFacings, equipment
  <2> QED
    BY <1>10, <2>1, <2>2
<1>14. Serialized(data, t, u)
  <2>1. ~u.unknown /\ u.train_id = data.train_id /\ u.equipment = {items}
    BY <1>4, <1>5
  <2>2. /\ DOMAIN u.cabs = D /\ D # {}
        /\ \A i \in D : /\ u.cabs[i].cab_id = data.cabs[i].cab_id
                         /\ u.cabs[i].facing \in {"forward", "backward"}
                         /\ u.cabs[i].key_inserted \in {"yes", "no"}
    BY <1>2, <1>5
  <2>3. Cardinality(ActiveOf(u.cabs)) = 1
    BY <1>13, FS_Singleton
  <2>4. t.cab_ids = Ids(data.cabs) /\ Ids(u.cabs) = Ids(data.cabs)
    BY <1>1, <1>6 DEF ids
  <2> QED
    BY <2>1, <2>2, <2>3, <2>4 DEF Serialized, items
<1> HIDE DEF newIds, newA, newKeys, newFacings, facings, equipment
<1>12. TrainOf(u) = t
  BY <1>1, <1>5, <1>6, <1>7, <1>8, <1>9, <1>11
<1> QED
  BY <1>12, <1>14 DEF t, u

\* The parser accepts again what it accepted and what was then serialized, unless an
\* instance names a foreign cab.
LEMMA TrainAcceptedAgain ==
  ASSUME NEW f \in Files, TrainAccepted(f.train)
  PROVE  TrainAccepted(TrainData(TrainOf(f.train))) <=> ~NamesForeignCab(TrainOf(f.train))
<1> DEFINE data == f.train
           t == TrainOf(data)
           u == TrainData(t)
           ids == Ids(data.cabs)
           equipment == t.equipment
           items == [i \in DOMAIN equipment |-> ItemData(equipment[i])]
<1>1. TrainOf(u) = t /\ Serialized(data, t, u)
  BY TrainAgain
<1>2. /\ data.train_id # "" /\ \A i \in DOMAIN data.cabs : CabAccepted(data.cabs[i])
      /\ DistinctBy(data.cabs, LAMBDA cab : cab.cab_id)
      /\ TrainConfigAccepted(t)
  BY Zenon DEF TrainAccepted
<1>3. PICK n \in Nat : Fitted(equipment, n)
  BY TrainFitted
<1>4. CabsNamedOnce(equipment)
  <2>1. CASE data.equipment = {}
    <3>1. equipment = StandardFit(ids)
      <4> DEFINE given == CHOOSE list \in data.equipment : TRUE
                 fit == IF data.equipment = {} THEN StandardFit(ids) ELSE Equipment(given)
      <4>1. equipment = fit
        BY Zenon DEF TrainOf
      <4> QED
        BY <2>1, <4>1
    <3>2. Len(data.cabs) \in Nat /\ DOMAIN ids = 1..Len(data.cabs)
      BY FilesAssumption, LenProperties DEF Ids
    <3>3. DistinctBy(equipment, LAMBDA instance : instance.key)
      BY <1>3, FittedDiffers
    <3> HIDE DEF ids, equipment
    <3> QED
      BY <3>1, <3>2, <3>3, StandardNamed
  <2>2. CASE data.equipment # {}
    <3> DEFINE given == CHOOSE list \in data.equipment : TRUE
               fit == IF data.equipment = {} THEN StandardFit(ids) ELSE Equipment(given)
    <3>1. equipment = fit
      BY Zenon DEF TrainOf
    <3>2. given \in data.equipment /\ fit = Equipment(given)
      BY <2>2
    <3>3. CabsNamedOnce(Equipment(given))
      BY <3>2, Zenon DEF TrainAccepted
    <3> QED
      BY <3>1, <3>2, <3>3
  <2> QED
    BY <2>1, <2>2
<1>5. \A i \in DOMAIN equipment : equipment[i].type # ""
  BY <1>2, TypesAssumption DEF TrainConfigAccepted
<1> HIDE DEF equipment, t, u, ids
<1>6. DOMAIN equipment = 1..n /\ Equipment(items) = equipment
  BY <1>3, FittedAgain DEF Fitted, IsList
<1>7. u.equipment = {items} /\ Ids(u.cabs) = ids /\ t.cab_ids = ids
  BY <1>1 DEF Serialized, equipment, ids
<1>8. \A cab \in ToSet(ids) : 1 <= cab /\ cab <= MaxCab
  BY <1>2 DEF CabAccepted, ids, Ids, ToSet
<1>9. ASSUME NEW i \in DOMAIN equipment
      PROVE  ItemAccepted(items[i], ToSet(ids)) <=> equipment[i].params.cab \subseteq ToSet(ids)
  <2>1. items[i] = [type |-> equipment[i].type, key |-> FALSE,
                    enabled |-> IF equipment[i].enabled THEN "yes" ELSE "no",
                    cab |-> equipment[i].params.cab, side |-> {},
                    params |-> [cab |-> {}, side |-> equipment[i].params.side,
                                rest |-> equipment[i].params.rest]]
    BY Zenon DEF ItemData
  <2> HIDE DEF items
  <2>2. PICK item : item = items[i]
    OBVIOUS
  <2>3. PICK e : e = equipment[i]
    OBVIOUS
  <2>4. item.type = e.type
    BY <2>1, <2>2, <2>3
  <2>5. ~item.key
    BY <2>1, <2>2, <2>3
  <2>6. item.enabled = IF e.enabled THEN "yes" ELSE "no"
    BY <2>1, <2>2, <2>3
  <2>7. item.side = {}
    BY <2>1, <2>2, <2>3
  <2>8. item.params = [cab |-> {}, side |-> e.params.side, rest |-> e.params.rest]
    BY <2>1, <2>2, <2>3
  <2>9. item.cab = e.params.cab /\ item.params.cab = {}
    BY <2>1, <2>2, <2>3, <2>8
  <2>10. item.type # ""
    BY <1>5, <2>3, <2>4, Zenon
  <2>11. item.enabled \in {"yes", "no"}
    BY <2>6
  <2> QED
    BY <1>8, <2>2, <2>3, <2>5, <2>7, <2>9, <2>10, <2>11, Zenon DEF ItemAccepted
<1>10. (\A i \in DOMAIN items : ItemAccepted(items[i], ToSet(ids))) <=> ~NamesForeignCab(t)
  <2>1. NamesForeignCab(t) <=>
          \E i \in DOMAIN equipment : ~(equipment[i].params.cab \subseteq ToSet(ids))
    BY <1>7 DEF NamesForeignCab, equipment
  <2>2. DOMAIN items = DOMAIN equipment
    OBVIOUS
  <2> HIDE DEF items
  <2> QED
    BY <1>9, <2>1, <2>2
<1>11. /\ ~u.unknown /\ u.train_id # "" /\ u.cabs # <<>>
       /\ \A i \in DOMAIN u.cabs : CabAccepted(u.cabs[i])
       /\ Cardinality(ActiveOf(u.cabs)) = 1
  <2>1. ~u.unknown /\ u.train_id # "" /\ Cardinality(ActiveOf(u.cabs)) = 1
    BY <1>1, <1>2 DEF Serialized
  <2>2. u.cabs # <<>>
    BY <1>1 DEF Serialized
  <2>3. ASSUME NEW i \in DOMAIN u.cabs
        PROVE  CabAccepted(u.cabs[i])
    <3>1. CabAccepted(data.cabs[i])
      BY <1>1, <1>2 DEF Serialized
    <3> QED
      BY <1>1, <3>1 DEF Serialized, CabAccepted
  <2> QED
    BY <2>1, <2>2, <2>3
<1>12. DistinctBy(u.cabs, LAMBDA cab : cab.cab_id)
  <2>1. \A i, j \in DOMAIN data.cabs : data.cabs[i].cab_id = data.cabs[j].cab_id => i = j
    BY <1>2 DEF DistinctBy
  <2>2. \A i, j \in DOMAIN u.cabs : u.cabs[i].cab_id = u.cabs[j].cab_id => i = j
    BY <1>1, <2>1 DEF Serialized
  <2> QED
    BY <2>2 DEF DistinctBy
<1>13. TrainAccepted(u) <=>
         /\ \A i \in DOMAIN items : ItemAccepted(items[i], ToSet(ids))
         /\ CabsNamedOnce(Equipment(items))
  <2> HIDE DEF items
  <2>1. (\A list \in u.equipment :
           /\ \A i \in DOMAIN list : ItemAccepted(list[i], ToSet(Ids(u.cabs)))
           /\ CabsNamedOnce(Equipment(list)))
        <=> /\ \A i \in DOMAIN items : ItemAccepted(items[i], ToSet(ids))
            /\ CabsNamedOnce(Equipment(items))
    BY <1>7
  <2> QED
    BY <1>1, <1>2, <1>11, <1>12, <2>1, Zenon DEF TrainAccepted
<1>14. TrainAccepted(u) <=> ~NamesForeignCab(t)
  BY <1>4, <1>6, <1>10, <1>13
<1> QED
  BY <1>14 DEF t, u

\* A configuration that was parsed, and what it is made of.
LEMMA ParsedFact ==
  ASSUME NEW f, NEW c \in Parsed(f)
  PROVE  /\ TrainAccepted(f.train) /\ Parsed(f) = {c}
         /\ c = [train |-> TrainOf(f.train),
                 endpoints |-> IF f.atp = {} THEN <<>> ELSE CHOOSE entries \in f.atp : TRUE]
<1> DEFINE endpoints == IF f.atp = {} THEN <<>> ELSE CHOOSE entries \in f.atp : TRUE
<1>1. TrainAccepted(f.train) /\ Parsed(f) = {[train |-> TrainOf(f.train), endpoints |-> endpoints]}
  BY Zenon DEF Parsed
<1> HIDE DEF endpoints
<1>2. c = [train |-> TrainOf(f.train), endpoints |-> endpoints]
  BY <1>1
<1> QED
  BY <1>1, <1>2 DEF endpoints

\* The server reads what the command validated, and refuses it exactly if an
\* instance names a foreign cab.
LEMMA ParsedAgain ==
  ASSUME NEW f \in Files, NEW c \in Parsed(f)
  PROVE  Parsed(ConfigData(c)) = IF NamesForeignCab(c.train) THEN {} ELSE {c}
<1> DEFINE g == ConfigData(c)
           endpoints == IF f.atp = {} THEN <<>> ELSE CHOOSE entries \in f.atp : TRUE
           again == IF g.atp = {} THEN <<>> ELSE CHOOSE entries \in g.atp : TRUE
<1>1. TrainAccepted(f.train) /\ c = [train |-> TrainOf(f.train), endpoints |-> endpoints]
  BY ParsedFact
<1>9. \A i \in DOMAIN endpoints : EndpointAccepted(endpoints[i])
  <2>1. CASE f.atp = {}
    <3>1. endpoints = <<>> /\ DOMAIN <<>> = {}
      BY <2>1
    <3> QED
      BY <3>1
  <2>2. CASE f.atp # {}
    <3>1. endpoints \in f.atp
      BY <2>2
    <3>2. \A entries \in f.atp : \A i \in DOMAIN entries : EndpointAccepted(entries[i])
      BY Zenon DEF Parsed
    <3> QED
      BY <3>1, <3>2
  <2> QED
    BY <2>1, <2>2
<1> HIDE DEF endpoints
<1>2. c.train = TrainOf(f.train) /\ c.endpoints = endpoints
  BY <1>1
<1>3. /\ TrainOf(TrainData(c.train)) = c.train
      /\ TrainAccepted(TrainData(c.train)) <=> ~NamesForeignCab(c.train)
  BY <1>1, <1>2, TrainAgain, TrainAcceptedAgain
<1>4. /\ g.wrapped /\ g.train = TrainData(c.train)
      /\ g.atp = IF c.endpoints = <<>> THEN {} ELSE {c.endpoints}
  BY DEF ConfigData
<1> HIDE DEF g
<1>6. again = c.endpoints
  BY <1>4
<1>7. \A entries \in g.atp : \A i \in DOMAIN entries : EndpointAccepted(entries[i])
  BY <1>2, <1>4, <1>9
<1>5. Parsed(g) = IF TrainAccepted(g.train) THEN {[train |-> TrainOf(g.train), endpoints |-> again]}
                  ELSE {}
  BY <1>4, <1>7, Zenon DEF Parsed
<1> HIDE DEF again
<1>8. c = [train |-> c.train, endpoints |-> c.endpoints]
  BY <1>1, <1>2
<1>10. Parsed(g) = IF NamesForeignCab(c.train) THEN {} ELSE {c}
  BY <1>3, <1>4, <1>5, <1>6, <1>8
<1> QED
  BY <1>10 DEF g

(***************************************************************************)
(* The start-up.                                                           *)
(***************************************************************************)

\* Each step hands on what the one before it has left, or refuses it.
ConfigInv ==
  /\ file \in Files
  /\ stage = "started" => loaded = {}
  /\ loaded \subseteq Parsed(file)
  /\ stage = "server runs" => environ = {ConfigData(config) : config \in loaded}
  /\ decoded \subseteq loaded /\ HandoffFaithful
  /\ stage \in {"decoded", "serving"} => decoded # {}
  /\ stage = "serving" =>
       \E config \in decoded :
         /\ Builds(config.train.equipment)
         /\ installed = {Built(config.train.equipment[i]) : i \in Enabled(config.train.equipment)}

\* The start-up begins with nothing parsed.
LEMMA ConfigInvInit == Init => ConfigInv
BY DEF Init, ConfigInv, HandoffFaithful, Handed

\* Every step of the start-up keeps the invariant.
LEMMA ConfigInvStep == ConfigInv /\ [Next]_vars => ConfigInv'
<1> SUFFICES ASSUME ConfigInv, [Next]_vars PROVE ConfigInv'
  OBVIOUS
<1>1. CASE LoadConfigFile
  <2>1. /\ stage' \in {"refused by the command", "loaded"} /\ loaded' = Parsed(file)
        /\ UNCHANGED <<file, environ, decoded, installed>> /\ loaded = {}
    BY <1>1 DEF LoadConfigFile, ConfigInv
  <2>2. decoded = {}
    BY <2>1 DEF ConfigInv
  <2> QED
    BY <2>1, <2>2 DEF ConfigInv, HandoffFaithful, Handed
<1>2. CASE RunServer
  BY <1>2 DEF RunServer, ConfigInv, HandoffFaithful, Handed
<1>3. CASE DecodeConfig
  <2>1. /\ stage' = IF decoded' = {} THEN "refused by the server" ELSE "decoded"
        /\ decoded' = UNION {Parsed(f) : f \in environ}
        /\ UNCHANGED <<file, loaded, environ, installed>>
        /\ environ = {ConfigData(config) : config \in loaded}
    BY <1>3 DEF DecodeConfig, ConfigInv
  <2>2. ASSUME NEW config \in loaded
        PROVE  Parsed(ConfigData(config)) = IF NamesForeignCab(config.train) THEN {} ELSE {config}
    <3>1. file \in Files /\ config \in Parsed(file)
      BY DEF ConfigInv
    <3> QED
      BY <3>1, ParsedAgain
  <2>3. decoded' = {config \in loaded : ~NamesForeignCab(config.train)}
    <3>1. decoded' = UNION {Parsed(ConfigData(config)) : config \in loaded}
      BY <2>1
    <3> QED
      BY <2>2, <3>1
  <2> QED
    BY <2>1, <2>3 DEF ConfigInv, HandoffFaithful, Handed
<1>4. CASE BuildTrain
  <2>1. UNCHANGED <<file, loaded, environ, decoded>> /\ stage = "decoded"
    BY <1>4 DEF BuildTrain
  <2>2. PICK config \in decoded :
          LET equipment == config.train.equipment
          IN  IF Builds(equipment)
              THEN /\ stage' = "serving"
                   /\ installed' = {Built(equipment[i]) : i \in Enabled(equipment)}
              ELSE stage' = "refused by the server" /\ UNCHANGED installed
    BY <1>4 DEF BuildTrain
  <2>3. CASE Builds(config.train.equipment)
    BY <2>1, <2>2, <2>3 DEF ConfigInv, HandoffFaithful, Handed
  <2>4. CASE ~Builds(config.train.equipment)
    BY <2>1, <2>2, <2>4 DEF ConfigInv, HandoffFaithful, Handed
  <2> QED
    BY <2>3, <2>4
<1>5. CASE UNCHANGED vars
  BY <1>5 DEF vars, ConfigInv, HandoffFaithful, Handed
<1> QED
  BY <1>1, <1>2, <1>3, <1>4, <1>5 DEF Next

\* At each stage of the start-up, what is parsed, handed over and built comes from
\* the one file (__main__.py, bootstrap.py).
THEOREM ConfigInvariance == Spec => []ConfigInv
BY ConfigInvInit, ConfigInvStep, PTL DEF Spec

\* _generated_equipment_key never gives a key twice, for equipment lists of any
\* length and with any repetitions.
THEOREM EveryKeyOnce == Spec => []KeysAreDistinct
<1>1. ConfigInv => KeysAreDistinct
  <2> SUFFICES ASSUME file \in Files, NEW items \in file.train.equipment
               PROVE  DistinctBy(Equipment(items), LAMBDA e : e.key)
    BY DEF ConfigInv, KeysAreDistinct
  <2>1. /\ items \in Seq(ToSet(items))
        /\ \A item \in ToSet(items) : AtMostOne(item.cab) /\ AtMostOne(item.params.cab)
    BY FilesAssumption
  <2>2. Len(items) \in Nat /\ DOMAIN items = 1..Len(items)
    BY <2>1, LenProperties
  <2> QED
    BY <2>1, <2>2, EquipmentFitted, FittedDiffers
<1> QED
  BY <1>1, ConfigInvariance, PTL

\* For every file: of what the command validated, encode_config and decode_config hand
\* the server exactly what names no foreign cab, unchanged and with generated keys that
\* come out the same again, and the rest is refused.
THEOREM HandedOver == Spec => []HandoffFaithful
<1>1. ConfigInv => HandoffFaithful
  BY DEF ConfigInv
<1> QED
  BY <1>1, ConfigInvariance, PTL

\* Train.__init__ installs at most one instance of a type per cab.
THEOREM OneInstancePerAddress == Spec => []AddressesUnique
<1>1. ConfigInv => AddressesUnique
  <2> SUFFICES ASSUME ConfigInv, stage = "serving", NEW e \in installed, NEW f \in installed,
                      e.cab # {}, e.type = f.type, e.cab = f.cab
               PROVE  e = f
    BY DEF AddressesUnique
  <2>1. PICK config \in decoded :
          /\ Builds(config.train.equipment)
          /\ installed = {Built(config.train.equipment[i]) : i \in Enabled(config.train.equipment)}
    BY DEF ConfigInv
  <2> DEFINE equipment == config.train.equipment
  <2>2. PICK i \in Enabled(equipment) : e = Built(equipment[i])
    BY <2>1
  <2>3. PICK j \in Enabled(equipment) : f = Built(equipment[j])
    BY <2>1
  <2> HIDE DEF equipment
  <2>4. /\ equipment[i].type = equipment[j].type
        /\ CabOf(equipment[i]) = CabOf(equipment[j]) /\ CabOf(equipment[i]) # {}
    BY <2>2, <2>3 DEF Built
  <2>5. CabsAddressedOnce(equipment)
    BY <2>1 DEF Builds, equipment
  <2>6. i = j
    BY <2>4, <2>5 DEF CabsAddressedOnce
  <2> QED
    BY <2>2, <2>3, <2>6
<1> QED
  BY <1>1, ConfigInvariance, PTL

\* The key of an instance and the cab it is for.
LEMMA KeyAndCab ==
  ASSUME NEW e, InstanceShape(e), CabOf(e) # {}
  PROVE  e.key.numbers # <<>> /\ {e.key.numbers[1]} = CabOf(e)
<1> DEFINE base == BaseKey(e.type, e.params)
           S == Nat \cup e.params.cab
<1>1. PICK n \in Nat : e.key = Numbered(base, n)
  BY DEF InstanceShape
<1>2. AtMostOne(e.params.cab)
  BY DEF InstanceShape, ParamsShape
<1>3. /\ KeyShape(base, S) /\ Nat \subseteq S
      /\ \A c \in e.params.cab : base.numbers = <<c>>
      /\ e.params.cab = {} => base.numbers = <<>>
  BY <1>2, BaseKeyFact
<1> HIDE DEF base, S
<1>4. e.key.numbers = IF n = 1 THEN base.numbers ELSE Append(base.numbers, n)
  <2>1. e.key = [name |-> base.name, numbers |-> IF n = 1 THEN base.numbers ELSE Append(base.numbers, n)]
    BY <1>1, <1>3, NumberedFact
  <2> QED
    BY <2>1
<1>5. CASE e.params.cab # {}
  <2>1. PICK c : e.params.cab = {c}
    BY <1>2, <1>5 DEF AtMostOne
  <2>2. CabOf(e) = {c}
    BY <1>5, <2>1 DEF CabOf
  <2>3. base.numbers = <<c>>
    BY <1>3, <2>1
  <2>4. Append(<<c>>, n) # <<>> /\ Append(<<c>>, n)[1] = c
    <3> DEFINE T == Nat \cup {c}
    <3>1. <<c>> \in Seq(T) /\ n \in T /\ Len(<<c>>) = 1 /\ <<c>>[1] = c
      OBVIOUS
    <3> HIDE DEF T
    <3> QED
      BY <3>1, AppendProperties
  <2>5. e.key.numbers # <<>> /\ e.key.numbers[1] = c
    BY <1>4, <2>3, <2>4
  <2> QED
    BY <2>2, <2>5
<1>6. CASE e.params.cab = {}
  <2>1. CabOf(e) = ToSet(e.key.numbers)
    BY <1>6 DEF CabOf
  <2>2. base.numbers = <<>>
    BY <1>3, <1>6
  <2>3. Append(<<>>, n) = <<n>>
    OBVIOUS
  <2>4. e.key.numbers = <<>> \/ e.key.numbers = <<n>>
    BY <1>4, <2>2, <2>3
  <2>5. ToSet(<<>>) = {} /\ ToSet(<<n>>) = {n}
    BY DEF ToSet
  <2> QED
    BY <2>1, <2>4, <2>5
<1> QED
  BY <1>5, <1>6

\* The cab that _cab_id_from_key reads off a generated key, or that the
\* parameters give, is the first number of the key.
THEOREM KeysFindTheirCab == Spec => []KeysNameTheirCab
<1>1. ConfigInv => KeysNameTheirCab
  <2> SUFFICES ASSUME ConfigInv, stage = "serving", NEW e \in installed, e.cab # {}
               PROVE  e.key.numbers # <<>> /\ {e.key.numbers[1]} = e.cab
    BY DEF KeysNameTheirCab
  <2>1. PICK config \in decoded :
          installed = {Built(config.train.equipment[i]) : i \in Enabled(config.train.equipment)}
    BY DEF ConfigInv
  <2> DEFINE equipment == config.train.equipment
  <2>2. PICK i \in Enabled(equipment) : e = Built(equipment[i])
    BY <2>1
  <2>3. file \in Files /\ config \in Parsed(file)
    BY DEF ConfigInv
  <2>4. TrainAccepted(file.train) /\ equipment = TrainOf(file.train).equipment
    <3>1. /\ TrainAccepted(file.train)
          /\ config = [train |-> TrainOf(file.train),
                       endpoints |-> IF file.atp = {} THEN <<>> ELSE CHOOSE entries \in file.atp : TRUE]
      BY <2>3, ParsedFact
    <3>2. config.train = TrainOf(file.train)
      BY <3>1
    <3> QED
      BY <3>1, <3>2
  <2> HIDE DEF equipment
  <2>5. PICK n \in Nat : Fitted(equipment, n)
    BY <2>3, <2>4, TrainFitted
  <2>6. InstanceShape(equipment[i])
    BY <2>5 DEF Fitted, IsList, Enabled
  <2>7. e.key = equipment[i].key /\ e.cab = CabOf(equipment[i])
    BY <2>2 DEF Built
  <2> QED
    BY <2>6, <2>7, KeyAndCab
<1> QED
  BY <1>1, ConfigInvariance, PTL

=============================================================================
