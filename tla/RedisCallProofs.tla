------------------------ MODULE RedisCallProofs ------------------------
(***************************************************************************)
(* Proofs about CommandFormat: for every length, every format and every     *)
(* arguments.  Inductions go over a set of numbers, by the least-number     *)
(* principle; the functions that CommandFormat defines recursively are      *)
(* first shown to exist.                                                    *)
(***************************************************************************)
EXTENDS RedisCall, TLAPS, SequenceTheorems, WellFoundedInduction

LEMMA LeastNumber ==
  ASSUME NEW T, T \subseteq Nat, T # {}
  PROVE  \E n \in T : \A m \in T : n <= m
<1>1. IsWellFoundedOn(OpToRel(<, Nat), Nat)
  BY NatLessThanWellFounded
<1>2. PICK n \in T : \A m \in T : ~ (<<m, n>> \in OpToRel(<, Nat))
  BY <1>1, WFMin
<1>3. \A m \in T : ~ (m < n)
  BY <1>2 DEF OpToRel
<1> QED BY <1>3

\* Induction on numbers, with a set for the property.
LEMMA NumberInduction ==
  ASSUME NEW T, 0 \in T, \A n \in Nat : n \in T => n + 1 \in T
  PROVE  Nat \subseteq T
<1> DEFINE Left == Nat \ T
<1>1. SUFFICES ASSUME Left # {} PROVE FALSE
  OBVIOUS
<1>2. PICK n \in Left : \A m \in Left : n <= m
  <2> HIDE DEF Left
  <2>1. Left \subseteq Nat
    BY DEF Left
  <2> QED BY <1>1, <2>1, LeastNumber
<1>3. n # 0 /\ n - 1 \in Nat /\ n - 1 \notin Left
  BY <1>2
<1> QED BY <1>2, <1>3

LEMMA StrongInduction ==
  ASSUME NEW T, \A n \in Nat : (\A m \in Nat : m < n => m \in T) => n \in T
  PROVE  Nat \subseteq T
<1> DEFINE Left == Nat \ T
<1>1. SUFFICES ASSUME Left # {} PROVE FALSE
  OBVIOUS
<1>2. PICK n \in Left : \A m \in Left : n <= m
  <2> HIDE DEF Left
  <2>1. Left \subseteq Nat
    BY DEF Left
  <2> QED BY <1>1, <2>1, LeastNumber
<1>3. n \in Nat /\ n \notin T /\ \A m \in Nat : m \notin T => n <= m
  BY <1>2
<1>4. ASSUME NEW m \in Nat, m < n PROVE m \in T
  BY <1>3, <1>4
<1> QED BY <1>3, <1>4

-----------------------------------------------------------------------------
(* Recursion over 0..n, one element of a sequence after the other. *)

\* g starts with z and goes on by Go.
Iterates(A, z, n, Go, g) ==
  g \in [0..n -> A] /\ g[0] = z /\ \A i \in 1..n : g[i] = Go[<<g[i - 1], i>>]

LEMMA IterationIsDefined ==
  ASSUME NEW A, NEW z \in A, NEW n \in Nat, NEW Go \in [A \X (1..n) -> A]
  PROVE  \E g : Iterates(A, z, n, Go, g)
<1> DEFINE Upto(g, k) == g[0] = z /\ \A i \in 1..k : g[i] = Go[<<g[i - 1], i>>]
           T == {k \in Nat : k <= n => \E g \in [0..k -> A] : Upto(g, k)}
<1>1. 0 \in T
  <2>1. [i \in 0..0 |-> z] \in [0..0 -> A] /\ Upto([i \in 0..0 |-> z], 0)
    OBVIOUS
  <2> QED BY <2>1
<1>2. ASSUME NEW k \in Nat, k \in T PROVE k + 1 \in T
  <2>1. SUFFICES ASSUME k + 1 <= n
                 PROVE  \E h \in [0..(k + 1) -> A] : Upto(h, k + 1)
    OBVIOUS
  <2>2. PICK g \in [0..k -> A] : Upto(g, k)
    BY <1>2, <2>1
  <2> DEFINE h == [i \in 0..(k + 1) |-> IF i <= k THEN g[i] ELSE Go[<<g[k], k + 1>>]]
  <2>3. Go[<<g[k], k + 1>>] \in A
    BY <2>1
  <2>4. h \in [0..(k + 1) -> A]
    BY <2>3
  <2>5. h[0] = z
    BY <2>2
  <2>6. ASSUME NEW i \in 1..(k + 1) PROVE h[i] = Go[<<h[i - 1], i>>]
    <3>1. h[i - 1] = g[i - 1]
      OBVIOUS
    <3>2. CASE i <= k
      BY <2>2, <3>1, <3>2
    <3>3. CASE i = k + 1
      <4>1. h[k + 1] = Go[<<g[k], k + 1>>] /\ (k + 1) - 1 = k
        OBVIOUS
      <4>2. h[(k + 1) - 1] = g[k]
        BY <4>1
      <4> QED BY <4>1, <4>2, <3>3
    <3> QED BY <3>2, <3>3
  <2> HIDE DEF h
  <2> QED BY <2>4, <2>5, <2>6
<1> HIDE DEF T
<1>3. n \in T
  BY <1>1, <1>2, NumberInduction
<1> QED BY <1>3 DEF T, Iterates

\* Two functions go on alike: where they agree they agree at the next number.
GoOnAlike(n, g, h) == \A i \in 1..n : g[i - 1] = h[i - 1] => g[i] = h[i]

\* Two functions that start and go on alike are alike.
LEMMA IterationIsUnique ==
  ASSUME NEW n \in Nat, NEW g, NEW h, g[0] = h[0], GoOnAlike(n, g, h)
  PROVE  \A i \in 0..n : g[i] = h[i]
<1>0. \A i \in 1..n : g[i - 1] = h[i - 1] => g[i] = h[i]
  BY DEF GoOnAlike
<1> DEFINE T == {k \in Nat : k <= n => g[k] = h[k]}
<1>1. 0 \in T
  OBVIOUS
<1>2. ASSUME NEW k \in Nat, k \in T PROVE k + 1 \in T
  <2>1. SUFFICES ASSUME k + 1 <= n PROVE g[k + 1] = h[k + 1]
    OBVIOUS
  <2>2. g[(k + 1) - 1] = h[(k + 1) - 1]
    BY <1>2, <2>1
  <2>3. k + 1 \in 1..n
    BY <2>1
  <2> QED BY <1>0, <2>2, <2>3
<1> HIDE DEF T
<1>3. Nat \subseteq T
  BY <1>1, <1>2, NumberInduction
<1> QED BY <1>3 DEF T

-----------------------------------------------------------------------------
(* Recursion that goes on by a smaller number. *)

\* One step of it, for w: base below Lim, and f of d[w] from there.
Descend(Lim, base, step, d, f, w) == IF w < Lim THEN base[w] ELSE step + f[d[w]]

LEMMA DescendIsNat ==
  ASSUME NEW Lim \in Nat \ {0}, NEW base \in [Nat -> Nat], NEW step \in Nat,
         NEW d, NEW w \in Nat, NEW f, w >= Lim => f[d[w]] \in Nat
  PROVE  Descend(Lim, base, step, d, f, w) \in Nat
<1>1. CASE w < Lim
  BY <1>1 DEF Descend
<1>2. CASE w >= Lim
  BY <1>2 DEF Descend
<1> QED BY <1>1, <1>2

LEMMA DescendReads ==
  ASSUME NEW Lim, NEW base, NEW step, NEW d, NEW w, NEW f, NEW g,
         ~ (w < Lim) => f[d[w]] = g[d[w]]
  PROVE  Descend(Lim, base, step, d, f, w) = Descend(Lim, base, step, d, g, w)
  BY DEF Descend

LEMMA LessIsAtMost == \A a, b \in Nat : a < b => a <= b
  OBVIOUS

LEMMA DescentIsDefined ==
  ASSUME NEW Lim \in Nat \ {0}, NEW base \in [Nat -> Nat], NEW step \in Nat,
         NEW d \in [Nat -> Nat]
  PROVE  (\A v \in Nat : v >= Lim => d[v] < v)
           => \E f \in [Nat -> Nat] : \A w \in Nat : f[w] = Descend(Lim, base, step, d, f, w)
<1>s. SUFFICES ASSUME \A v \in Nat : v >= Lim => d[v] < v
               PROVE  \E f \in [Nat -> Nat] :
                        \A w \in Nat : f[w] = Descend(Lim, base, step, d, f, w)
  OBVIOUS
<1> DEFINE N(f, w)    == Descend(Lim, base, step, d, f, w)
           Upto(g, n) == g \in [0..n -> Nat] /\ \A w \in 0..n : g[w] = N(g, w)
           T          == {n \in Nat : \E g : Upto(g, n)}
<1>0. \A w \in Nat : w >= Lim => d[w] \in Nat /\ d[w] < w
  BY <1>s
<1>a. ASSUME NEW f, NEW w \in Nat, w >= Lim => f[d[w]] \in Nat PROVE N(f, w) \in Nat
  BY <1>a, DescendIsNat
<1>b. ASSUME NEW f, NEW g, NEW w \in Nat, w >= Lim => f[d[w]] = g[d[w]]
      PROVE  N(f, w) = N(g, w)
  <2>1. ~ (w < Lim) => w >= Lim
    OBVIOUS
  <2>2. ~ (w < Lim) => f[d[w]] = g[d[w]]
    BY <1>b, <2>1
  <2> QED BY <2>2, DescendReads, Zenon
<1> HIDE DEF N
<1>1. 0 \in T
  <2> DEFINE e == <<>>
             g == [w \in 0..0 |-> N(e, 0)]
  <2>1. ~ (0 >= Lim)
    OBVIOUS
  <2>2. N(e, 0) \in Nat /\ N(e, 0) = N(g, 0)
    BY <2>1, <1>a, <1>b
  <2>3. Upto(g, 0)
    <3> HIDE DEF e
    <3>1. g[0] = N(e, 0) /\ g \in [0..0 -> Nat]
      BY <2>2
    <3> HIDE DEF g
    <3>2. \A w \in 0..0 : w = 0
      OBVIOUS
    <3> QED BY <2>2, <3>1, <3>2
  <2> QED BY <2>3
<1>2. ASSUME NEW n \in Nat, n \in T PROVE n + 1 \in T
  <2>1. PICK g : Upto(g, n)
    BY <1>2
  <2> DEFINE x == N(g, n + 1)
  <2> HIDE DEF x
  <2> DEFINE h == [w \in 0..(n + 1) |-> IF w <= n THEN g[w] ELSE x]
  <2>2. ASSUME NEW w \in 0..(n + 1) PROVE w >= Lim => d[w] \in 0..n
    BY <1>0
  <2>3. x \in Nat
    <3>1. n + 1 \in Nat /\ n + 1 \in 0..(n + 1)
      OBVIOUS
    <3>2. \A v \in 0..n : g[v] \in Nat
      BY <2>1
    <3>3. n + 1 >= Lim => g[d[n + 1]] \in Nat
      BY <3>1, <3>2, <2>2
    <3> QED BY <3>1, <3>3, <1>a DEF x
  <2>4. h \in [0..(n + 1) -> Nat]
    <3>1. \A v \in 0..n : g[v] \in Nat
      BY <2>1
    <3>2. \A v \in 0..(n + 1) : (IF v <= n THEN g[v] ELSE x) \in Nat
      <4> TAKE v \in 0..(n + 1)
      <4>1. v <= n => v \in 0..n
        OBVIOUS
      <4> QED BY <3>1, <4>1, <2>3
    <3> QED BY <3>2
  <2>5. h[n + 1] = x /\ \A w \in 0..n : h[w] = g[w]
    OBVIOUS
  <2> HIDE DEF h
  <2>6. ASSUME NEW w \in 0..(n + 1) PROVE N(h, w) = N(g, w)
    <3>1. w >= Lim => h[d[w]] = g[d[w]]
      BY <2>2, <2>5
    <3> QED BY <3>1, <1>b
  <2>7. ASSUME NEW w \in 0..(n + 1) PROVE h[w] = N(h, w)
    <3>1. CASE w \in 0..n
      BY <2>1, <2>5, <2>6, <3>1
    <3>2. CASE w = n + 1
      BY <2>5, <2>6, <3>2 DEF x
    <3> QED BY <3>1, <3>2
  <2>8. Upto(h, n + 1)
    BY <2>4, <2>7
  <2> HIDE DEF Upto
  <2> QED BY <2>8
<1>3. ASSUME NEW m \in Nat, NEW n \in Nat, NEW g, NEW h, Upto(g, m), Upto(h, n),
             NEW w \in Nat, w <= m, w <= n
      PROVE  g[w] = h[w]
  <2> DEFINE Alike == {v \in Nat : v <= w => g[v] = h[v]}
  <2>1. ASSUME NEW v \in Nat, \A u \in Nat : u < v => u \in Alike
        PROVE  v \in Alike
    <3>1. SUFFICES ASSUME v <= w PROVE g[v] = h[v]
      OBVIOUS
    <3>2. v >= Lim => d[v] \in Nat /\ d[v] < v
      BY <1>0
    <3>3. \A u \in Nat : u < v => u <= w
      BY <3>1
    <3>4. v >= Lim => g[d[v]] = h[d[v]]
      BY <2>1, <3>2, <3>3
    <3>5. N(g, v) = N(h, v)
      BY <3>4, <1>b
    <3>6. w <= m /\ w <= n
      BY <1>3
    <3>7. v \in 0..m /\ v \in 0..n
      BY <3>1, <3>6
    <3>8. g[v] = N(g, v) /\ h[v] = N(h, v)
      BY <1>3, <3>7
    <3> QED BY <3>5, <3>8
  <2> HIDE DEF Alike
  <2>2. w \in Alike
    BY <2>1, StrongInduction
  <2>3. w <= w
    OBVIOUS
  <2> QED BY <2>2, <2>3 DEF Alike
<1> DEFINE Some(n) == CHOOSE g : Upto(g, n)
           f       == [w \in Nat |-> Some(w)[w]]
<1>4. ASSUME NEW n \in Nat PROVE Upto(Some(n), n)
  <2> HIDE DEF T
  <2>1. n \in T
    BY <1>1, <1>2, NumberInduction
  <2> HIDE DEF Upto
  <2>2. \E g : Upto(g, n)
    BY <2>1 DEF T
  <2> QED BY <2>2
<1> HIDE DEF Some
<1>c. ASSUME NEW m \in Nat, NEW n \in Nat, m <= n PROVE Some(m)[m] = Some(n)[m]
  <2>1. Upto(Some(m), m) /\ Upto(Some(n), n)
    BY <1>4
  <2>2. m <= m
    OBVIOUS
  <2> HIDE DEF Upto
  <2> QED BY <2>1, <2>2, <1>c, <1>3
<1>5. ASSUME NEW w \in Nat PROVE f[w] \in Nat /\ f[w] = N(f, w)
  <2>1. Upto(Some(w), w)
    BY <1>4
  <2>2. w \in 0..w
    OBVIOUS
  <2>3. Some(w)[w] \in Nat /\ Some(w)[w] = N(Some(w), w)
    BY <2>1, <2>2
  <2>4. f[w] = Some(w)[w] /\ \A v \in Nat : f[v] = Some(v)[v]
    OBVIOUS
  <2> HIDE DEF f
  <2>5. w >= Lim => f[d[w]] = Some(w)[d[w]]
    <3> SUFFICES ASSUME w >= Lim PROVE f[d[w]] = Some(w)[d[w]]
      OBVIOUS
    <3>1. d[w] \in Nat /\ d[w] < w
      BY <1>0
    <3>2. d[w] <= w
      BY <3>1, LessIsAtMost, Zenon
    <3>3. f[d[w]] = Some(d[w])[d[w]]
      BY <2>4, <3>1
    <3>4. Some(d[w])[d[w]] = Some(w)[d[w]]
      BY <3>1, <3>2, <1>c, Zenon
    <3> QED BY <3>3, <3>4
  <2>6. N(f, w) = N(Some(w), w)
    BY <2>5, <1>b
  <2> QED BY <2>3, <2>4, <2>6
<1>6. f \in [Nat -> Nat]
  BY <1>5
<1> HIDE DEF f
<1> QED BY <1>5, <1>6 DEF N

-----------------------------------------------------------------------------
(* The number of digits. *)

\* The passes of countDigits' loop end.
LEMMA CountDigitsIsDefined ==
  /\ CountDigits \in [Nat -> Nat]
  /\ \A v \in Nat : CountDigits[v] = IF v < 10000 THEN 1 + Below10000(v)
                                     ELSE 4 + CountDigits[v \div 10000]
<1> DEFINE base == [v \in Nat |-> 1 + Below10000(v)]
           d    == [v \in Nat |-> v \div 10000]
<1>1. base \in [Nat -> Nat]
  BY DEF Below10000
<1>2. d \in [Nat -> Nat] /\ \A v \in Nat : v >= 10000 => d[v] < v
  OBVIOUS
<1>3. \A v \in Nat : d[v] = v \div 10000
  OBVIOUS
<1>4. \A v \in Nat : base[v] = 1 + Below10000(v)
  OBVIOUS
<1> HIDE DEF base, d
<1>5. PICK f \in [Nat -> Nat] : \A v \in Nat : f[v] = Descend(10000, base, 4, d, f, v)
  <2> DEFINE Lim == 10000
             step == 4
  <2>1. Lim \in Nat \ {0} /\ step \in Nat
    OBVIOUS
  <2>2. \A v \in Nat : v >= Lim => d[v] < v
    BY <1>2
  <2>3. d \in [Nat -> Nat]
    BY <1>2
  <2> HIDE DEF Lim, step
  <2>4. \E f \in [Nat -> Nat] : \A v \in Nat : f[v] = Descend(Lim, base, step, d, f, v)
    BY <1>1, <2>1, <2>2, <2>3, DescentIsDefined, Zenon
  <2> QED BY <2>4 DEF Lim, step
<1>6. \A v \in Nat : f[v] = IF v < 10000 THEN 1 + Below10000(v) ELSE 4 + f[v \div 10000]
  <2> TAKE v \in Nat
  <2>1. f[v] = Descend(10000, base, 4, d, f, v)
    BY <1>5
  <2> QED BY <1>3, <1>4, <2>1 DEF Descend
<1> DEFINE Is(g) == g = [v \in Nat |-> IF v < 10000 THEN 1 + Below10000(v)
                                       ELSE 4 + g[v \div 10000]]
<1>7. Is(f)
  BY <1>5, <1>6
<1>8. CountDigits = CHOOSE g : Is(g)
  BY DEF CountDigits
<1>9. Is(CountDigits)
  <2> HIDE DEF Is
  <2> QED BY <1>7, <1>8
<1>10. \A v \in Nat : CountDigits[v] = IF v < 10000 THEN 1 + Below10000(v)
                                       ELSE 4 + CountDigits[v \div 10000]
  BY <1>9
<1> DEFINE T == {v \in Nat : CountDigits[v] \in Nat}
<1>11. ASSUME NEW v \in Nat, \A u \in Nat : u < v => u \in T PROVE v \in T
  <2>1. CASE v < 10000
    <3>1. Below10000(v) \in Nat
      BY DEF Below10000
    <3> QED BY <2>1, <3>1, <1>10
  <2>2. CASE v >= 10000
    <3>1. v \div 10000 \in Nat /\ v \div 10000 < v
      BY <2>2
    <3>2. CountDigits[v \div 10000] \in Nat
      BY <3>1, <1>11
    <3>3. CountDigits[v] = 4 + CountDigits[v \div 10000]
      BY <2>2, <1>10
    <3> QED BY <3>2, <3>3
  <2> QED BY <2>1, <2>2
<1>12. \A v \in Nat : CountDigits[v] \in Nat
  <2> HIDE DEF T
  <2>1. Nat \subseteq T
    BY <1>11, StrongInduction
  <2> QED BY <2>1 DEF T
<1>13. CountDigits \in [Nat -> Nat]
  <2> HIDE DEF Is
  <2>1. CountDigits = [v \in Nat |-> CountDigits[v]]
    BY <1>9 DEF Is
  <2> QED BY <2>1, <1>12
<1> QED BY <1>10, <1>13

LEMMA PrintedIsDefined ==
  /\ Printed \in [Nat -> Nat]
  /\ \A v \in Nat : Printed[v] = IF v < 10 THEN 1 ELSE 1 + Printed[v \div 10]
<1> DEFINE base == [v \in Nat |-> 1]
           d    == [v \in Nat |-> v \div 10]
<1>1. base \in [Nat -> Nat]
  OBVIOUS
<1>2. d \in [Nat -> Nat] /\ \A v \in Nat : v >= 10 => d[v] < v
  OBVIOUS
<1>3. \A v \in Nat : d[v] = v \div 10
  OBVIOUS
<1>4. \A v \in Nat : base[v] = 1
  OBVIOUS
<1> HIDE DEF base, d
<1>5. PICK f \in [Nat -> Nat] : \A v \in Nat : f[v] = Descend(10, base, 1, d, f, v)
  <2> DEFINE Lim == 10
             step == 1
  <2>1. Lim \in Nat \ {0} /\ step \in Nat
    OBVIOUS
  <2>2. \A v \in Nat : v >= Lim => d[v] < v
    BY <1>2
  <2>3. d \in [Nat -> Nat]
    BY <1>2
  <2> HIDE DEF Lim, step
  <2>4. \E f \in [Nat -> Nat] : \A v \in Nat : f[v] = Descend(Lim, base, step, d, f, v)
    BY <1>1, <2>1, <2>2, <2>3, DescentIsDefined, Zenon
  <2> QED BY <2>4 DEF Lim, step
<1>6. \A v \in Nat : f[v] = IF v < 10 THEN 1 ELSE 1 + f[v \div 10]
  <2> TAKE v \in Nat
  <2>1. f[v] = Descend(10, base, 1, d, f, v)
    BY <1>5
  <2> QED BY <1>3, <1>4, <2>1 DEF Descend
<1> DEFINE Is(g) == g = [v \in Nat |-> IF v < 10 THEN 1 ELSE 1 + g[v \div 10]]
<1>7. Is(f)
  BY <1>5, <1>6
<1>8. Printed = CHOOSE g : Is(g)
  BY DEF Printed
<1>9. Is(Printed)
  <2> HIDE DEF Is
  <2> QED BY <1>7, <1>8
<1>10. \A v \in Nat : Printed[v] = IF v < 10 THEN 1 ELSE 1 + Printed[v \div 10]
  BY <1>9
<1> DEFINE T == {v \in Nat : Printed[v] \in Nat}
<1>11. ASSUME NEW v \in Nat, \A u \in Nat : u < v => u \in T PROVE v \in T
  <2>1. CASE v < 10
    BY <2>1, <1>10
  <2>2. CASE v >= 10
    <3>1. v \div 10 \in Nat /\ v \div 10 < v
      BY <2>2
    <3>2. Printed[v \div 10] \in Nat
      BY <3>1, <1>11
    <3>3. Printed[v] = 1 + Printed[v \div 10]
      BY <2>2, <1>10
    <3> QED BY <3>2, <3>3
  <2> QED BY <2>1, <2>2
<1>12. \A v \in Nat : Printed[v] \in Nat
  <2> HIDE DEF T
  <2>1. Nat \subseteq T
    BY <1>11, StrongInduction
  <2> QED BY <2>1 DEF T
<1>13. Printed \in [Nat -> Nat]
  <2> HIDE DEF Is
  <2>1. Printed = [v \in Nat |-> Printed[v]]
    BY <1>9 DEF Is
  <2> QED BY <2>1, <1>12
<1> QED BY <1>10, <1>13

\* connection.cpp:22-32: countDigits, which takes four digits at a time, counts
\* as many digits as the number is printed with, for every number.
THEOREM DigitsAreCounted == \A v \in Nat : CountDigits[v] = Printed[v]
<1> DEFINE T == {v \in Nat : CountDigits[v] = Printed[v]}
<1>1. ASSUME NEW v \in Nat, \A u \in Nat : u < v => u \in T PROVE v \in T
  <2> DEFINE a == v \div 10
             b == a \div 10
             c == b \div 10
             e == c \div 10
  <2>1. a \in Nat /\ b \in Nat /\ c \in Nat /\ e \in Nat
    OBVIOUS
  <2>2. /\ v >= 10 => (v < 100 <=> a < 10)
        /\ v >= 100 => a >= 10 /\ (v < 1000 <=> b < 10)
        /\ v >= 1000 => a >= 10 /\ b >= 10 /\ (v < 10000 <=> c < 10)
        /\ v >= 10000 => a >= 10 /\ b >= 10 /\ c >= 10 /\ e < v /\ e = v \div 10000
    OBVIOUS
  <2>3. /\ Printed[v] = IF v < 10 THEN 1 ELSE 1 + Printed[a]
        /\ Printed[a] = IF a < 10 THEN 1 ELSE 1 + Printed[b]
        /\ Printed[b] = IF b < 10 THEN 1 ELSE 1 + Printed[c]
        /\ Printed[c] = IF c < 10 THEN 1 ELSE 1 + Printed[e]
    BY <2>1, PrintedIsDefined
  <2>4. CountDigits[v] = IF v < 10000 THEN 1 + Below10000(v)
                         ELSE 4 + CountDigits[v \div 10000]
    BY CountDigitsIsDefined
  <2>5. Printed[e] \in Nat
    BY <2>1, PrintedIsDefined
  <2>6. v >= 10000 => CountDigits[e] = Printed[e]
    BY <1>1, <2>1, <2>2
  <2>7. e = v \div 10000
    OBVIOUS
  <2> HIDE DEF a, b, c, e
  <2>b. /\ v < 10 => Below10000(v) = 0
        /\ v >= 10 /\ v < 100 => Below10000(v) = 1
        /\ v >= 100 /\ v < 1000 => Below10000(v) = 2
        /\ v >= 1000 => Below10000(v) = 3
    BY DEF Below10000
  <2>8. CASE v < 10
    <3>1. Printed[v] = 1
      BY <2>8, <2>3
    <3>2. CountDigits[v] = 1
      BY <2>8, <2>4, <2>b
    <3> QED BY <3>1, <3>2
  <2>9. CASE v >= 10 /\ v < 100
    <3>1. Printed[v] = 2
      BY <2>9, <2>2, <2>3
    <3>2. CountDigits[v] = 2
      BY <2>9, <2>4, <2>b
    <3> QED BY <3>1, <3>2
  <2>10. CASE v >= 100 /\ v < 1000
    <3>1. Printed[v] = 3
      BY <2>10, <2>2, <2>3
    <3>2. CountDigits[v] = 3
      BY <2>10, <2>4, <2>b
    <3> QED BY <3>1, <3>2
  <2>11. CASE v >= 1000 /\ v < 10000
    <3>1. Printed[v] = 4
      BY <2>11, <2>2, <2>3
    <3>2. CountDigits[v] = 4
      BY <2>11, <2>4, <2>b
    <3> QED BY <3>1, <3>2
  <2>12. CASE v >= 10000
    <3>1. Printed[v] = 4 + Printed[e]
      BY <2>12, <2>2, <2>3, <2>5
    <3>2. CountDigits[v] = 4 + CountDigits[e]
      BY <2>12, <2>4, <2>7
    <3> QED BY <2>6, <2>12, <3>1, <3>2
  <2> QED BY <2>8, <2>9, <2>10, <2>11, <2>12
<1> HIDE DEF T
<1>2. Nat \subseteq T
  BY <1>1, StrongInduction
<1> QED BY <1>2 DEF T

-----------------------------------------------------------------------------
(* Texts: sequences of what has a length. *)

LEMMA TextLengthIsDefined ==
  ASSUME NEW P, \A p \in P : p.len \in Nat, NEW text \in Seq(P)
  PROVE  \E g \in [0..Len(text) -> Nat] :
           /\ g[0] = 0
           /\ \A i \in 1..Len(text) : g[i] = g[i - 1] + text[i].len
           /\ TextLength(text) = g[Len(text)]
<1> DEFINE n == Len(text)
           Go == [x \in Nat \X (1..n) |-> x[1] + text[x[2]].len]
           Is(g) == g = [i \in 0..n |-> IF i = 0 THEN 0 ELSE g[i - 1] + text[i].len]
<1>1. n \in Nat /\ \A i \in 1..n : text[i].len \in Nat
  OBVIOUS
<1>2. Go \in [Nat \X (1..n) -> Nat]
  BY <1>1
<1>3. ASSUME NEW a \in Nat, NEW i \in 1..n PROVE Go[<<a, i>>] = a + text[i].len
  OBVIOUS
<1>4. TextLength(text) = (CHOOSE g : Is(g))[n]
  BY DEF TextLength
<1> HIDE DEF n, Go
<1>5. PICK f : f \in [0..n -> Nat] /\ f[0] = 0 /\ \A i \in 1..n : f[i] = Go[<<f[i - 1], i>>]
  <2>1. 0 \in Nat
    OBVIOUS
  <2>2. \E f : Iterates(Nat, 0, n, Go, f)
    BY <1>1, <1>2, <2>1, IterationIsDefined
  <2> QED BY <2>2 DEF Iterates
<1>6. \A i \in 1..n : f[i] = f[i - 1] + text[i].len
  <2> TAKE i \in 1..n
  <2>1. f[i - 1] \in Nat
    BY <1>1, <1>5
  <2> QED BY <1>3, <1>5, <2>1
<1>7. Is(f)
  <2>1. ASSUME NEW i \in 0..n
        PROVE  f[i] = IF i = 0 THEN 0 ELSE f[i - 1] + text[i].len
    <3>1. i # 0 => i \in 1..n
      BY <1>1
    <3> QED BY <1>5, <1>6, <3>1
  <2>2. f = [i \in 0..n |-> f[i]]
    BY <1>5
  <2> QED BY <2>1, <2>2
<1> DEFINE g == CHOOSE g : Is(g)
<1>8. Is(g)
  <2> HIDE DEF Is
  <2> QED BY <1>7
<1>9. TextLength(text) = g[n]
  BY <1>4
<1> HIDE DEF g
<1>10. g[0] = 0 /\ \A i \in 1..n : g[i] = g[i - 1] + text[i].len
  BY <1>1, <1>8
<1>11. \A i \in 0..n : g[i] = f[i]
  <2>1. ASSUME NEW i \in 1..n, g[i - 1] = f[i - 1] PROVE g[i] = f[i]
    BY <2>1, <1>6, <1>10
  <2>2. g[0] = f[0]
    BY <1>5, <1>10
  <2>3. GoOnAlike(n, g, f)
    BY <2>1 DEF GoOnAlike
  <2> QED BY <1>1, <2>2, <2>3, IterationIsUnique
<1>12. TextLength(text) = f[n]
  BY <1>1, <1>9, <1>11
<1> QED BY <1>5, <1>6, <1>12 DEF n

LEMMA TextLengthIsNat ==
  ASSUME NEW P, \A p \in P : p.len \in Nat, NEW text \in Seq(P)
  PROVE  TextLength(text) \in Nat
<1>1. PICK g \in [0..Len(text) -> Nat] : TextLength(text) = g[Len(text)]
  BY TextLengthIsDefined
<1> QED BY <1>1

LEMMA TextLengthOfEmpty == TextLength(<<>>) = 0
<1>1. \A p \in {} : p.len \in Nat
  OBVIOUS
<1>2. <<>> \in Seq({}) /\ Len(<<>>) = 0
  OBVIOUS
<1>3. PICK g : g[0] = 0 /\ TextLength(<<>>) = g[Len(<<>>)]
  BY <1>1, <1>2, TextLengthIsDefined
<1> QED BY <1>2, <1>3

LEMMA TextLengthOfAppend ==
  ASSUME NEW P, \A p \in P : p.len \in Nat, NEW text \in Seq(P), NEW p \in P
  PROVE  TextLength(Append(text, p)) = TextLength(text) + p.len
<1> DEFINE n == Len(text)
           longer == Append(text, p)
<1>1. /\ n \in Nat /\ longer \in Seq(P) /\ Len(longer) = n + 1
      /\ longer[n + 1] = p /\ \A i \in 1..n : longer[i] = text[i]
  OBVIOUS
<1>2. PICK f :
        /\ f[0] = 0
        /\ \A i \in 1..n : f[i] = f[i - 1] + text[i].len
        /\ TextLength(text) = f[n]
  BY TextLengthIsDefined
<1> HIDE DEF n, longer
<1>3. PICK g :
        /\ g[0] = 0
        /\ \A i \in 1..(n + 1) : g[i] = g[i - 1] + longer[i].len
        /\ TextLength(longer) = g[n + 1]
  <2>1. \E g \in [0..Len(longer) -> Nat] :
          /\ g[0] = 0
          /\ \A i \in 1..Len(longer) : g[i] = g[i - 1] + longer[i].len
          /\ TextLength(longer) = g[Len(longer)]
    BY <1>1, TextLengthIsDefined
  <2> QED BY <1>1, <2>1
<1>4. ASSUME NEW i \in 1..n, g[i - 1] = f[i - 1] PROVE g[i] = f[i]
  <2>1. i \in 1..(n + 1) /\ longer[i] = text[i]
    BY <1>1
  <2> QED BY <1>2, <1>3, <1>4, <2>1
<1>5. g[0] = f[0]
  BY <1>2, <1>3
<1>6. \A i \in 0..n : g[i] = f[i]
  <2>1. n \in Nat
    BY <1>1
  <2>2. GoOnAlike(n, g, f)
    BY <1>4 DEF GoOnAlike
  <2> QED BY <2>1, <2>2, <1>5, IterationIsUnique
<1>7. g[n] = f[n] /\ n + 1 \in 1..(n + 1) /\ (n + 1) - 1 = n
  BY <1>1, <1>6
<1>8. g[n + 1] = g[n] + longer[n + 1].len
  BY <1>3, <1>7
<1> QED BY <1>1, <1>2, <1>3, <1>7, <1>8 DEF longer

-----------------------------------------------------------------------------
(* The scan, over pieces P. *)

ScanState(P) == [rest : Seq(P), cur : Seq(P), touched : BOOLEAN,
                 argv : Seq(Seq(P)), totlen : Nat, err : BOOLEAN]

Pieces(P) == Word \in P /\ \A p \in P : p.len \in Nat

Bulks(argv) == [j \in DOMAIN argv |-> BulkPiece(argv[j])]

LEMMA BulkLenIsCounted ==
  ASSUME NEW len \in Nat
  PROVE  BulkLen(len) \in Nat /\ BulkLen(len) = 1 + Printed[len] + 2 + len + 2
<1>1. CountDigits[len] \in Nat /\ CountDigits[len] = Printed[len]
  BY CountDigitsIsDefined, DigitsAreCounted
<1> QED BY <1>1 DEF BulkLen

LEMMA BulksAre ==
  ASSUME NEW Q, NEW Lim, \A q \in Q : BulkPiece(q) \in Lim, NEW argv \in Seq(Q)
  PROVE  /\ Bulks(argv) \in Seq(Lim) /\ Len(Bulks(argv)) = Len(argv)
         /\ \A j \in 1..Len(argv) : Bulks(argv)[j] = BulkPiece(argv[j])
<1> DEFINE n == Len(argv)
<1>1. n \in Nat /\ DOMAIN argv = 1..n /\ \A j \in 1..n : argv[j] \in Q
  OBVIOUS
<1> HIDE DEF n
<1>2. Bulks(argv) = [j \in 1..n |-> BulkPiece(argv[j])]
  BY <1>1 DEF Bulks
<1>3. \A j \in 1..n : BulkPiece(argv[j]) \in Lim
  BY <1>1
<1> QED BY <1>1, <1>2, <1>3 DEF n

LEMMA BulksOfAppend ==
  ASSUME NEW Q, NEW Lim, \A q \in Q : BulkPiece(q) \in Lim,
         NEW argv \in Seq(Q), NEW arg \in Q
  PROVE  /\ Bulks(argv) \in Seq(Lim)
         /\ Bulks(Append(argv, arg)) = Append(Bulks(argv), BulkPiece(arg))
<1> DEFINE n    == Len(argv)
           more == Append(argv, arg)
           b    == Bulks(argv)
           x    == BulkPiece(arg)
<1>1. /\ more \in Seq(Q) /\ Len(more) = n + 1 /\ n \in Nat /\ more[n + 1] = arg
      /\ \A j \in 1..n : more[j] = argv[j]
  OBVIOUS
<1>2. /\ b \in Seq(Lim) /\ Len(b) = n
      /\ \A j \in 1..n : b[j] = BulkPiece(argv[j])
  BY BulksAre
<1> HIDE DEF n, more, b
<1>3. /\ Bulks(more) \in Seq(Lim) /\ Len(Bulks(more)) = n + 1
      /\ \A j \in 1..(n + 1) : Bulks(more)[j] = BulkPiece(more[j])
  <2>1. /\ Bulks(more) \in Seq(Lim) /\ Len(Bulks(more)) = Len(more)
        /\ \A j \in 1..Len(more) : Bulks(more)[j] = BulkPiece(more[j])
    BY <1>1, BulksAre
  <2> QED BY <1>1, <2>1
<1>4. x \in Lim
  OBVIOUS
<1>5. /\ Append(b, x) \in Seq(Lim) /\ Len(Append(b, x)) = n + 1
      /\ \A j \in 1..n : Append(b, x)[j] = b[j]
      /\ Append(b, x)[n + 1] = x
  <2> HIDE DEF x
  <2> QED BY <1>2, <1>4
<1>6. \A j \in 1..(n + 1) : j \in 1..n \/ j = n + 1
  BY <1>1
<1>7. \A j \in 1..(n + 1) : Bulks(more)[j] = Append(b, x)[j]
  BY <1>1, <1>2, <1>3, <1>5, <1>6
<1> HIDE DEF x
<1>8. Bulks(more) = Append(b, x)
  BY <1>3, <1>5, <1>7, SeqEqual
<1> QED BY <1>2, <1>8 DEF b, more, x

\* What redisvFormatCommand adds to totlen for an argument is what it writes.
LEMMA PushIsCounted ==
  ASSUME NEW P, Pieces(P), NEW s \in ScanState(P),
         s.totlen = TextLength(Bulks(s.argv))
  PROVE  /\ PushArg(s) \in ScanState(P)
         /\ PushArg(s).totlen = TextLength(Bulks(PushArg(s).argv))
<1> DEFINE len  == TextLength(s.cur)
           Lim    == [of : {"bulk"}, len : Nat]
           more == Append(s.argv, s.cur)
<1>1. s.cur \in Seq(P) /\ s.argv \in Seq(Seq(P)) /\ s.totlen \in Nat
  BY DEF ScanState
<1>2. \A text \in Seq(P) : TextLength(text) \in Nat
  BY TextLengthIsNat DEF Pieces
<1>3. len \in Nat
  BY <1>1, <1>2
<1>4. BulkLen(len) \in Nat /\ BulkLen(len) = 1 + Printed[len] + 2 + len + 2
  BY <1>3, BulkLenIsCounted
<1>5. \A text \in Seq(P) : BulkPiece(text) \in Lim
  <2> TAKE text \in Seq(P)
  <2>1. TextLength(text) \in Nat
    BY <1>2
  <2>2. Printed[TextLength(text)] \in Nat
    BY <2>1, PrintedIsDefined
  <2> QED BY <2>1, <2>2 DEF BulkPiece
<1>6. BulkPiece(s.cur).len = BulkLen(len)
  BY <1>4 DEF BulkPiece
<1>7. /\ Bulks(s.argv) \in Seq(Lim)
      /\ Bulks(more) = Append(Bulks(s.argv), BulkPiece(s.cur))
  <2> HIDE DEF Lim
  <2> QED BY <1>1, <1>5, BulksOfAppend
<1>9. TextLength(Bulks(more)) = TextLength(Bulks(s.argv)) + BulkLen(len)
  <2>1. \A p \in Lim : p.len \in Nat
    OBVIOUS
  <2>2. BulkPiece(s.cur) \in Lim
    BY <1>1, <1>5
  <2> HIDE DEF Lim, len, more
  <2> QED BY <1>6, <1>7, <2>1, <2>2, TextLengthOfAppend
<1>10. PushArg(s) = [s EXCEPT !.argv = more, !.totlen = s.totlen + BulkLen(len),
                              !.cur = <<>>, !.touched = FALSE]
  BY DEF PushArg
<1>11. more \in Seq(Seq(P)) /\ <<>> \in Seq(P) /\ s.totlen + BulkLen(len) \in Nat
  BY <1>1, <1>4
<1> HIDE DEF more, len
<1>12. PushArg(s) \in ScanState(P)
  BY <1>10, <1>11 DEF ScanState
<1>13. PushArg(s).argv = more /\ PushArg(s).totlen = s.totlen + BulkLen(len)
  BY <1>10 DEF ScanState
<1> QED BY <1>9, <1>12, <1>13

LEMMA TokenIsCounted ==
  ASSUME NEW P, Pieces(P), NEW token, NEW s \in ScanState(P),
         s.totlen = TextLength(Bulks(s.argv))
  PROVE  /\ ScanToken(s, token) \in ScanState(P)
         /\ ScanToken(s, token).totlen = TextLength(Bulks(ScanToken(s, token).argv))
<1> DEFINE t == ScanToken(s, token)
<1>1. /\ s.rest \in Seq(P) /\ s.cur \in Seq(P) /\ s.touched \in BOOLEAN
      /\ s.argv \in Seq(Seq(P)) /\ s.totlen \in Nat /\ s.err \in BOOLEAN
  BY DEF ScanState
<1>2. CASE s.err
  BY <1>2 DEF ScanToken
<1>3. CASE ~s.err /\ token = " "
  <2>1. t = IF s.touched THEN PushArg(s) ELSE s
    BY <1>3 DEF ScanToken, Conversions
  <2> QED BY <2>1, PushIsCounted
<1>4. CASE ~s.err /\ token = "word"
  <2>1. t = [s EXCEPT !.cur = Append(s.cur, Word), !.touched = TRUE]
    BY <1>4 DEF ScanToken, Conversions
  <2>2. Append(s.cur, Word) \in Seq(P)
    BY <1>1 DEF Pieces
  <2>3. t \in ScanState(P)
    BY <2>1, <2>2 DEF ScanState
  <2>4. t.totlen = s.totlen /\ t.argv = s.argv
    BY <2>1 DEF ScanState
  <2> QED BY <2>3, <2>4
<1>5. CASE ~s.err /\ token \in Conversions /\ s.rest # <<>>
  <2> DEFINE c == IF Head(s.rest).len > 0 THEN Append(s.cur, Head(s.rest)) ELSE s.cur
             r == Tail(s.rest)
  <2>1. t = [s EXCEPT !.cur = c, !.rest = r, !.touched = TRUE]
    BY <1>5 DEF ScanToken, Conversions
  <2>2. c \in Seq(P) /\ r \in Seq(P)
    BY <1>1, <1>5
  <2> HIDE DEF c, r
  <2>3. t \in ScanState(P)
    BY <2>1, <2>2 DEF ScanState
  <2>4. t.totlen = s.totlen /\ t.argv = s.argv
    BY <2>1 DEF ScanState
  <2> QED BY <2>3, <2>4
<1>6. CASE /\ ~s.err /\ token \notin {" ", "word"}
           /\ ~(token \in Conversions /\ s.rest # <<>>)
  <2>1. t = [s EXCEPT !.err = TRUE]
    BY <1>6 DEF ScanToken
  <2>2. t \in ScanState(P)
    BY <2>1 DEF ScanState
  <2>3. t.totlen = s.totlen /\ t.argv = s.argv
    BY <2>1 DEF ScanState
  <2> QED BY <2>2, <2>3
<1> QED BY <1>2, <1>3, <1>4, <1>5, <1>6

\* The states of the scan: totlen has been counted as argv will be written.
Counted(P) == {s \in ScanState(P) : s.totlen = TextLength(Bulks(s.argv))}

LEMMA EmptyScanIsCounted ==
  ASSUME NEW P, NEW args \in Seq(P)
  PROVE  EmptyScan(args) \in Counted(P)
<1> DEFINE s == EmptyScan(args)
<1>1. s.argv = <<>> /\ s.totlen = 0
  BY DEF EmptyScan
<1>2. s \in ScanState(P)
  <2>1. <<>> \in Seq(P) /\ <<>> \in Seq(Seq(P)) /\ 0 \in Nat
    OBVIOUS
  <2> QED BY <2>1, Zenon DEF ScanState, EmptyScan
<1>3. Bulks(<<>>) = <<>>
  BY DEF Bulks
<1>4. s.totlen = TextLength(Bulks(s.argv))
  BY <1>1, <1>3, TextLengthOfEmpty
<1> QED BY <1>2, <1>4 DEF Counted

\* The loop is its tokens' passes one after the other.
Scans(P, format, args, g) ==
  /\ g \in [0..Len(format) -> Counted(P)]
  /\ g[0] = EmptyScan(args)
  /\ \A i \in 1..Len(format) : g[i] = ScanToken(g[i - 1], format[i])
  /\ Scan(format, args) = g[Len(format)]

LEMMA ScanIsDefined ==
  ASSUME NEW P, Pieces(P), NEW Token, NEW format \in Seq(Token), NEW args \in Seq(P)
  PROVE  \E g : Scans(P, format, args, g)
<1> DEFINE n == Len(format)
           z == EmptyScan(args)
           A == Counted(P)
           Go == [x \in A \X (1..n) |-> ScanToken(x[1], format[x[2]])]
           Is(g) == g = [i \in 0..n |-> IF i = 0 THEN z ELSE ScanToken(g[i - 1], format[i])]
<1>1. n \in Nat
  OBVIOUS
<1>2. z \in A
  BY EmptyScanIsCounted
<1>3. ASSUME NEW s \in A, NEW token PROVE ScanToken(s, token) \in A
  BY TokenIsCounted DEF Counted
<1>4. Scan(format, args) = (CHOOSE g : Is(g))[n]
  BY DEF Scan
<1> HIDE DEF A, n, z
<1>5. Go \in [A \X (1..n) -> A]
  <2>1. \A x \in A \X (1..n) : ScanToken(x[1], format[x[2]]) \in A
    <3> TAKE x \in A \X (1..n)
    <3>1. x[1] \in A
      OBVIOUS
    <3> QED BY <3>1, <1>3
  <2> QED BY <2>1
<1>6. ASSUME NEW s \in A, NEW i \in 1..n PROVE Go[<<s, i>>] = ScanToken(s, format[i])
  OBVIOUS
<1> HIDE DEF Go
<1>7. PICK f : f \in [0..n -> A] /\ f[0] = z /\ \A i \in 1..n : f[i] = Go[<<f[i - 1], i>>]
  <2>1. \E f : Iterates(A, z, n, Go, f)
    BY <1>1, <1>2, <1>5, IterationIsDefined
  <2> QED BY <2>1 DEF Iterates
<1>8. \A i \in 1..n : f[i] = ScanToken(f[i - 1], format[i])
  <2> TAKE i \in 1..n
  <2>1. i - 1 \in 0..n
    BY <1>1
  <2>2. f[i - 1] \in A
    BY <1>7, <2>1
  <2> QED BY <1>6, <1>7, <2>2
<1>9. Is(f)
  <2>1. ASSUME NEW i \in 0..n
        PROVE  f[i] = IF i = 0 THEN z ELSE ScanToken(f[i - 1], format[i])
    <3>1. i # 0 => i \in 1..n
      BY <1>1
    <3> QED BY <1>7, <1>8, <3>1
  <2>2. f = [i \in 0..n |-> f[i]]
    BY <1>7
  <2> QED BY <2>1, <2>2
<1> DEFINE g == CHOOSE g : Is(g)
<1>10. Is(g)
  <2> HIDE DEF Is
  <2> QED BY <1>9
<1>11. Scan(format, args) = g[n]
  BY <1>4
<1> HIDE DEF g
<1>12. g[0] = z /\ \A i \in 1..n : g[i] = ScanToken(g[i - 1], format[i])
  BY <1>1, <1>10
<1>13. \A i \in 0..n : g[i] = f[i]
  <2>1. ASSUME NEW i \in 1..n, g[i - 1] = f[i - 1] PROVE g[i] = f[i]
    BY <2>1, <1>8, <1>12
  <2>2. g[0] = f[0]
    BY <1>7, <1>12
  <2>3. GoOnAlike(n, g, f)
    BY <2>1 DEF GoOnAlike
  <2> QED BY <1>1, <2>2, <2>3, IterationIsUnique
<1>14. Scan(format, args) = f[n]
  BY <1>1, <1>11, <1>13
<1> QED BY <1>7, <1>8, <1>14 DEF Scans, n, A, z

\* connection.cpp:240-252: for every format, whatever its letters, spaces and
\* conversions, and for every arguments, redisvFormatCommand writes as many bytes
\* as it counted and allocated: its assert(pos == totlen).
THEOREM BytesAreCounted ==
  ASSUME NEW Token, NEW format \in Seq(Token),
         NEW Name, NEW args \in Seq([of : Name, len : Nat])
  PROVE  FormatCommand(format, args).pos = FormatCommand(format, args).totlen
<1> DEFINE P == [of : Name \cup {"word"}, len : Nat]
           scanned == Scan(format, args)
           s == IF scanned.touched THEN PushArg(scanned) ELSE scanned
<1>1. Pieces(P)
  BY WordBytesAssumption DEF Pieces, Word
<1>2. args \in Seq(P)
  <2>1. [of : Name, len : Nat] \subseteq P
    OBVIOUS
  <2> QED BY <2>1, SeqMonotonic
<1> HIDE DEF P
<1>3. scanned \in Counted(P)
  <2>0. PICK g : Scans(P, format, args, g)
    BY <1>1, <1>2, ScanIsDefined
  <2>1. g \in [0..Len(format) -> Counted(P)] /\ scanned = g[Len(format)]
    BY <2>0 DEF Scans
  <2>2. Len(format) \in 0..Len(format)
    OBVIOUS
  <2> QED BY <2>1, <2>2
<1> HIDE DEF scanned
<1>4. s \in Counted(P)
  BY <1>1, <1>3, PushIsCounted DEF Counted
<1>5. FormatCommand(format, args)
        = [argv |-> s.argv, err |-> s.err,
           totlen |-> s.totlen + 1 + CountDigits[Len(s.argv)] + 2,
           pos |-> 1 + Printed[Len(s.argv)] + 2 + TextLength(Bulks(s.argv))]
  BY DEF FormatCommand, Bulks, scanned
<1> HIDE DEF s
<1>6. s.argv \in Seq(Seq(P)) /\ s.totlen \in Nat /\ s.totlen = TextLength(Bulks(s.argv))
  BY <1>4 DEF Counted, ScanState
<1>7. Len(s.argv) \in Nat
  BY <1>6
<1>8. CountDigits[Len(s.argv)] = Printed[Len(s.argv)] /\ Printed[Len(s.argv)] \in Nat
  BY <1>7, DigitsAreCounted, PrintedIsDefined
<1>9. /\ FormatCommand(format, args).totlen = s.totlen + 1 + CountDigits[Len(s.argv)] + 2
      /\ FormatCommand(format, args).pos
           = 1 + Printed[Len(s.argv)] + 2 + TextLength(Bulks(s.argv))
  BY <1>5
<1>10. \A a, d \in Nat : 1 + d + 2 + a = a + 1 + d + 2
  OBVIOUS
<1>11. 1 + Printed[Len(s.argv)] + 2 + s.totlen = s.totlen + 1 + Printed[Len(s.argv)] + 2
  BY <1>6, <1>8, <1>10, Zenon
<1> QED BY <1>6, <1>8, <1>9, <1>11, Zenon

-----------------------------------------------------------------------------
(* The arguments: which of them each word of a format takes. *)

Takes(word) == IF word \in Conversions THEN 1 ELSE 0

LEMMA TakenIsDefined ==
  ASSUME NEW words
  PROVE  /\ Taken(words, 0) = 0
         /\ \A k \in Nat : /\ Taken(words, k) \in Nat
                           /\ Taken(words, k + 1) = Taken(words, k) + Takes(words[k + 1])
<1> DEFINE Is(f, k) == f = [i \in 0..k |-> IF i = 0 THEN 0
                                           ELSE f[i - 1] + Takes(words[i])]
<1>1. \A w : Takes(w) \in Nat
  BY DEF Takes
<1>2. ASSUME NEW k \in Nat PROVE Taken(words, k) = (CHOOSE f : Is(f, k))[k]
  BY DEF Taken, Takes
<1>3. ASSUME NEW n \in Nat
      PROVE  \E f : /\ f \in [0..n -> Nat] /\ f[0] = 0
                    /\ \A i \in 1..n : f[i] = f[i - 1] + Takes(words[i])
  <2> DEFINE Go == [x \in Nat \X (1..n) |-> x[1] + Takes(words[x[2]])]
  <2>1. Go \in [Nat \X (1..n) -> Nat]
    BY <1>1
  <2>2. ASSUME NEW a \in Nat, NEW i \in 1..n PROVE Go[<<a, i>>] = a + Takes(words[i])
    OBVIOUS
  <2> HIDE DEF Go
  <2>3. PICK f : f \in [0..n -> Nat] /\ f[0] = 0 /\ \A i \in 1..n : f[i] = Go[<<f[i - 1], i>>]
    <3>1. 0 \in Nat
      OBVIOUS
    <3>2. \E f : Iterates(Nat, 0, n, Go, f)
      BY <2>1, <3>1, IterationIsDefined
    <3> QED BY <3>2 DEF Iterates
  <2>4. \A i \in 1..n : f[i] = f[i - 1] + Takes(words[i])
    <3> TAKE i \in 1..n
    <3>1. i - 1 \in 0..n
      OBVIOUS
    <3>2. f[i - 1] \in Nat
      BY <2>3, <3>1
    <3> QED BY <2>2, <2>3, <3>2
  <2> QED BY <2>3, <2>4
<1>4. ASSUME NEW n \in Nat, NEW f, f \in [0..n -> Nat], f[0] = 0,
             \A i \in 1..n : f[i] = f[i - 1] + Takes(words[i]),
             NEW k \in 0..n
      PROVE  Taken(words, k) = f[k]
  <2> DEFINE h == [i \in 0..k |-> f[i]]
             g == CHOOSE g : Is(g, k)
  <2>1. \A i \in 0..k : i \in 0..n /\ (i # 0 => i \in 1..n /\ i - 1 \in 0..k)
    OBVIOUS
  <2>2. Is(h, k)
    <3>1. ASSUME NEW i \in 0..k
          PROVE  f[i] = IF i = 0 THEN 0 ELSE h[i - 1] + Takes(words[i])
      <4>1. CASE i = 0
        BY <1>4, <4>1
      <4>2. CASE i # 0
        <5>1. i \in 1..n /\ i - 1 \in 0..k
          BY <2>1, <4>2
        <5>2. h[i - 1] = f[i - 1]
          BY <5>1
        <5> HIDE DEF h
        <5> QED BY <1>4, <4>2, <5>1, <5>2
      <4> QED BY <4>1, <4>2
    <3> QED BY <3>1
  <2>3. Is(g, k)
    <3> HIDE DEF Is, h
    <3> QED BY <2>2
  <2>4. k \in Nat /\ Taken(words, k) = g[k]
    BY <1>2
  <2> HIDE DEF g, h
  <2>5. g[0] = 0 /\ \A i \in 1..k : g[i] = g[i - 1] + Takes(words[i])
    BY <2>3, <2>4
  <2>6. \A i \in 0..k : g[i] = f[i]
    <3>1. ASSUME NEW i \in 1..k, g[i - 1] = f[i - 1] PROVE g[i] = f[i]
      <4>1. i \in 1..n
        OBVIOUS
      <4>2. f[i] = f[i - 1] + Takes(words[i])
        BY <1>4, <4>1
      <4> QED BY <2>5, <3>1, <4>2
    <3>2. g[0] = f[0]
      BY <1>4, <2>5
    <3>3. GoOnAlike(k, g, f)
      BY <3>1 DEF GoOnAlike
    <3> QED BY <2>4, <3>2, <3>3, IterationIsUnique
  <2> QED BY <2>4, <2>6
<1> HIDE DEF Is
<1>5. ASSUME NEW k \in Nat
      PROVE  /\ Taken(words, k) \in Nat
             /\ Taken(words, k + 1) = Taken(words, k) + Takes(words[k + 1])
  <2>1. k + 1 \in Nat
    OBVIOUS
  <2>2. PICK f : /\ f \in [0..(k + 1) -> Nat] /\ f[0] = 0
                 /\ \A i \in 1..(k + 1) : f[i] = f[i - 1] + Takes(words[i])
    BY <1>3, <2>1
  <2>3. k \in 0..(k + 1) /\ k + 1 \in 0..(k + 1) /\ k + 1 \in 1..(k + 1) /\ (k + 1) - 1 = k
    OBVIOUS
  <2>4. Taken(words, k) = f[k] /\ Taken(words, k + 1) = f[k + 1]
    BY <1>4, <2>1, <2>2, <2>3
  <2>5. f[k + 1] = f[k] + Takes(words[k + 1])
    BY <2>2, <2>3
  <2> QED BY <2>2, <2>3, <2>4, <2>5
<1>6. Taken(words, 0) = 0
  <2>1. 0 \in Nat /\ 0 \in 0..0
    OBVIOUS
  <2>2. PICK f : /\ f \in [0..0 -> Nat] /\ f[0] = 0
                 /\ \A i \in 1..0 : f[i] = f[i - 1] + Takes(words[i])
    BY <1>3, <2>1
  <2>3. Taken(words, 0) = f[0]
    BY <1>4, <2>1, <2>2
  <2> QED BY <2>2, <2>3
<1> QED BY <1>5, <1>6

LEMMA TakenGrows ==
  ASSUME NEW words, NEW k \in Nat, NEW n \in Nat, k <= n
  PROVE  Taken(words, k) <= Taken(words, n)
<1> DEFINE T == {m \in Nat : k <= m => Taken(words, k) <= Taken(words, m)}
<1>1. \A m \in Nat : Taken(words, m) \in Nat /\ Takes(words[m + 1]) \in Nat
  BY TakenIsDefined DEF Takes
<1>2. ASSUME NEW m \in Nat, m \in T PROVE m + 1 \in T
  <2>1. SUFFICES ASSUME k <= m + 1 PROVE Taken(words, k) <= Taken(words, m + 1)
    OBVIOUS
  <2>2. CASE k = m + 1
    <3>1. Taken(words, k) \in Nat
      BY <1>1
    <3> QED BY <2>2, <3>1
  <2>3. CASE k <= m
    <3>1. Taken(words, k) <= Taken(words, m)
      BY <1>2, <2>3
    <3>2. Taken(words, m + 1) = Taken(words, m) + Takes(words[m + 1])
      BY TakenIsDefined
    <3> QED BY <1>1, <3>1, <3>2
  <2> QED BY <2>1, <2>2, <2>3
<1>3. 0 \in T
  <2>1. k <= 0 => k = 0
    OBVIOUS
  <2>2. Taken(words, 0) \in Nat
    BY <1>1
  <2> QED BY <2>1, <2>2
<1> HIDE DEF T
<1>4. n \in T
  BY <1>2, <1>3, NumberInduction
<1> QED BY <1>4 DEF T

-----------------------------------------------------------------------------
(* A command has one argument for each word of its format. *)

\* The first k elements of q, and those after them.
First(q, k) == SubSeq(q, 1, k)
After(q, k) == SubSeq(q, k + 1, Len(q))

LEMMA FirstAndAfter ==
  ASSUME NEW Set, NEW q \in Seq(Set), NEW k \in 0..(Len(q) - 1)
  PROVE  /\ First(q, k + 1) = Append(First(q, k), q[k + 1])
         /\ After(q, k) # <<>> /\ Head(After(q, k)) = q[k + 1]
         /\ Tail(After(q, k)) = After(q, k + 1)
<1>1. k + 1 \in 1..Len(q) /\ q[k + 1] \in Set /\ Len(q) \in Nat
  OBVIOUS
<1>2. /\ First(q, k) \in Seq(Set) /\ Len(First(q, k)) = k
      /\ \A i \in 1..k : First(q, k)[i] = q[i]
  BY SubSeqProperties DEF First
<1>3. /\ First(q, k + 1) \in Seq(Set) /\ Len(First(q, k + 1)) = k + 1
      /\ \A i \in 1..(k + 1) : First(q, k + 1)[i] = q[i]
  BY SubSeqProperties DEF First
<1>4. /\ Append(First(q, k), q[k + 1]) \in Seq(Set)
      /\ Len(Append(First(q, k), q[k + 1])) = k + 1
      /\ \A i \in 1..(k + 1) : Append(First(q, k), q[k + 1])[i] = q[i]
  BY <1>1, <1>2
<1>5. First(q, k + 1) = Append(First(q, k), q[k + 1])
  BY <1>3, <1>4, SeqEqual
<1>6. /\ After(q, k) \in Seq(Set) /\ Len(After(q, k)) = Len(q) - k
      /\ \A i \in 1..(Len(q) - k) : After(q, k)[i] = q[k + i]
  BY <1>1, SubSeqProperties DEF After
<1>7. /\ After(q, k + 1) \in Seq(Set) /\ Len(After(q, k + 1)) = Len(q) - k - 1
      /\ \A i \in 1..(Len(q) - k - 1) : After(q, k + 1)[i] = q[k + 1 + i]
  BY <1>1, SubSeqProperties DEF After
<1>8. After(q, k) # <<>> /\ Head(After(q, k)) = q[k + 1]
  BY <1>1, <1>6
<1>9. /\ Tail(After(q, k)) \in Seq(Set) /\ Len(Tail(After(q, k))) = Len(q) - k - 1
      /\ \A i \in 1..(Len(q) - k - 1) : Tail(After(q, k))[i] = After(q, k)[i + 1]
  BY <1>1, <1>6, <1>8
<1>10. \A i \in 1..(Len(q) - k - 1) : Tail(After(q, k))[i] = After(q, k + 1)[i]
  BY <1>1, <1>6, <1>7, <1>9
<1>11. Tail(After(q, k)) = After(q, k + 1)
  BY <1>7, <1>9, <1>10, SeqEqual
<1> QED BY <1>5, <1>8, <1>11

\* A format of words and conversions, and an argument for each conversion.
IsCommand(P, words, args) ==
  /\ Pieces(P)
  /\ words \in Seq(Conversions \cup {"word"})
  /\ args \in Seq(P) /\ Len(args) = Taken(words, Len(words))

\* What the scan has read: the first j words, and whether the j-th is pushed.
Pushed(s, words, args, j) ==
  /\ ~s.err /\ ~s.touched
  /\ s.cur = <<>> /\ s.rest = After(args, Taken(words, j))
  /\ s.argv = First(WordsWritten(words, args), j)

Within(s, words, args, j) ==
  /\ ~s.err /\ s.touched
  /\ s.cur = WordsWritten(words, args)[j] /\ s.rest = After(args, Taken(words, j))
  /\ s.argv = First(WordsWritten(words, args), j - 1)

\* The arguments suffice for the first j words.
LEMMA ArgsSuffice ==
  ASSUME NEW P, NEW words, NEW args, IsCommand(P, words, args),
         NEW j \in 0..(Len(words) - 1)
  PROVE  /\ Len(words) \in Nat /\ j + 1 \in 1..Len(words)
         /\ words[j + 1] \in Conversions \cup {"word"}
         /\ Taken(words, j) \in Nat
         /\ words[j + 1] = "word" => Taken(words, j + 1) = Taken(words, j)
         /\ words[j + 1] \in Conversions =>
              /\ Taken(words, j + 1) = Taken(words, j) + 1
              /\ Taken(words, j) \in 0..(Len(args) - 1)
<1>1. Len(words) \in Nat /\ j \in Nat /\ j + 1 \in Nat /\ j + 1 \in 1..Len(words)
  BY DEF IsCommand
<1>2. words[j + 1] \in Conversions \cup {"word"}
  BY <1>1 DEF IsCommand
<1>3. /\ Taken(words, j) \in Nat
      /\ Taken(words, j + 1) = Taken(words, j) + Takes(words[j + 1])
  BY <1>1, TakenIsDefined
<1>4. Taken(words, j + 1) <= Len(args)
  <2>1. j + 1 <= Len(words)
    BY <1>1
  <2> QED BY <1>1, <2>1, TakenGrows DEF IsCommand
<1>5. words[j + 1] = "word" => Takes(words[j + 1]) = 0
  BY DEF Takes, Conversions
<1>6. words[j + 1] \in Conversions => Takes(words[j + 1]) = 1
  BY DEF Takes
<1>7. words[j + 1] = "word" => Taken(words, j + 1) = Taken(words, j)
  BY <1>3, <1>5
<1>8. words[j + 1] \in Conversions => Taken(words, j + 1) = Taken(words, j) + 1
  BY <1>3, <1>6
<1>9. Len(args) \in Nat
  BY DEF IsCommand
<1>10. words[j + 1] \in Conversions => Taken(words, j) \in 0..(Len(args) - 1)
  BY <1>3, <1>4, <1>8, <1>9
<1> QED BY <1>1, <1>2, <1>3, <1>7, <1>8, <1>10

LEMMA WordsAreWritten ==
  ASSUME NEW P, NEW words, NEW args, IsCommand(P, words, args)
  PROVE  /\ WordsWritten(words, args) \in Seq(Seq(P))
         /\ Len(WordsWritten(words, args)) = Len(words)
<1> DEFINE n == Len(words)
           Of(j) == IF words[j] = "word" THEN <<Word>>
                    ELSE IF args[Taken(words, j)].len = 0 THEN <<>>
                    ELSE <<args[Taken(words, j)]>>
<1>1. n \in Nat /\ DOMAIN words = 1..n
  BY DEF IsCommand
<1>2. ASSUME NEW j \in 1..n PROVE Of(j) \in Seq(P)
  <2>1. j - 1 \in 0..(n - 1) /\ (j - 1) + 1 = j
    BY <1>1
  <2>2. /\ words[j] \in Conversions \cup {"word"}
        /\ words[j] \in Conversions => /\ Taken(words, j) = Taken(words, j - 1) + 1
                                       /\ Taken(words, j - 1) \in 0..(Len(args) - 1)
    BY <2>1, ArgsSuffice
  <2>3. <<Word>> \in Seq(P) /\ <<>> \in Seq(P)
    BY DEF IsCommand, Pieces
  <2>4. CASE words[j] = "word"
    BY <2>3, <2>4
  <2>5. CASE words[j] \in Conversions
    <3>1. Len(args) \in Nat /\ args \in Seq(P)
      BY DEF IsCommand
    <3>2. Taken(words, j) \in 1..Len(args)
      BY <2>2, <2>5, <3>1
    <3>3. args[Taken(words, j)] \in P
      BY <3>1, <3>2
    <3>4. <<args[Taken(words, j)]>> \in Seq(P)
      BY <3>3
    <3> QED BY <2>3, <3>4
  <2> QED BY <2>2, <2>4, <2>5
<1>3. WordsWritten(words, args) = [j \in 1..n |-> Of(j)]
  BY <1>1 DEF WordsWritten
<1> HIDE DEF Of, n
<1> QED BY <1>1, <1>2, <1>3 DEF n

LEMMA WrittenWord ==
  ASSUME NEW P, NEW words, NEW args, IsCommand(P, words, args),
         NEW j \in 1..Len(words)
  PROVE  /\ words[j] = "word" => WordsWritten(words, args)[j] = <<Word>>
         /\ words[j] # "word" =>
              WordsWritten(words, args)[j] = IF args[Taken(words, j)].len = 0 THEN <<>>
                                             ELSE <<args[Taken(words, j)]>>
<1>1. j \in DOMAIN words
  BY DEF IsCommand
<1> QED BY <1>1, Zenon DEF WordsWritten

\* A word of letters is copied, a conversion takes the next argument: an empty
\* one leaves the word empty but touched.
LEMMA WordIsRead ==
  ASSUME NEW P, NEW words, NEW args, IsCommand(P, words, args),
         NEW j \in 0..(Len(words) - 1), NEW s \in Counted(P), Pushed(s, words, args, j)
  PROVE  Within(ScanToken(s, words[j + 1]), words, args, j + 1)
<1> DEFINE w == words[j + 1]
           t == ScanToken(s, w)
           ww == WordsWritten(words, args)
           a == args[Taken(words, j) + 1]
<1>1. s \in ScanState(P) /\ j \in Nat /\ (j + 1) - 1 = j
  BY DEF Counted
<1>2. /\ ~s.err /\ s.cur = <<>> /\ s.rest = After(args, Taken(words, j))
      /\ s.argv = First(ww, j)
  BY DEF Pushed
<1>3. /\ j + 1 \in 1..Len(words)
      /\ w \in Conversions \cup {"word"}
      /\ w = "word" => Taken(words, j + 1) = Taken(words, j)
      /\ w \in Conversions => /\ Taken(words, j + 1) = Taken(words, j) + 1
                              /\ Taken(words, j) \in 0..(Len(args) - 1)
  BY ArgsSuffice
<1>4. /\ w = "word" => ww[j + 1] = <<Word>>
      /\ w # "word" => ww[j + 1] = IF args[Taken(words, j + 1)].len = 0 THEN <<>>
                                   ELSE <<args[Taken(words, j + 1)]>>
  BY <1>3, WrittenWord
<1> HIDE DEF w, ww
<1>5. CASE w = "word"
  <2>1. t = [s EXCEPT !.cur = Append(s.cur, Word), !.touched = TRUE]
    BY <1>2, <1>5 DEF ScanToken, Conversions
  <2>2. /\ t.err = s.err /\ t.touched = TRUE /\ t.cur = Append(s.cur, Word)
        /\ t.rest = s.rest /\ t.argv = s.argv
    BY <1>1, <2>1 DEF ScanState
  <2>3. Append(s.cur, Word) = <<Word>>
    BY <1>2
  <2> HIDE DEF t
  <2>4. Within(t, words, args, j + 1)
    BY <1>1, <1>2, <1>3, <1>4, <1>5, <2>2, <2>3 DEF Within, ww
  <2> QED BY <2>4 DEF t, w
<1>6. CASE w \in Conversions
  <2>1. /\ After(args, Taken(words, j)) # <<>>
        /\ Head(After(args, Taken(words, j))) = a
        /\ Tail(After(args, Taken(words, j))) = After(args, Taken(words, j) + 1)
    <3>1. args \in Seq(P)
      BY DEF IsCommand
    <3> QED BY <1>3, <1>6, <3>1, FirstAndAfter
  <2>2. s.rest # <<>> /\ Head(s.rest) = a /\ Tail(s.rest) = After(args, Taken(words, j + 1))
    BY <1>2, <1>3, <1>6, <2>1
  <2> DEFINE c == IF a.len > 0 THEN Append(s.cur, a) ELSE s.cur
  <2>3. t = [s EXCEPT !.cur = c, !.rest = Tail(s.rest), !.touched = TRUE]
    BY <1>2, <1>6, <2>2 DEF ScanToken, Conversions
  <2>4. c = ww[j + 1]
    <3>1. a = args[Taken(words, j + 1)]
      BY <1>3, <1>6
    <3>2. a.len \in Nat
      <4>1. Taken(words, j) + 1 \in 1..Len(args)
        BY <1>3, <1>6 DEF IsCommand
      <4>2. a \in P
        BY <4>1 DEF IsCommand
      <4> QED BY <4>2 DEF IsCommand, Pieces
    <3>3. w # "word"
      BY <1>6 DEF Conversions
    <3>4. Append(s.cur, a) = <<a>>
      BY <1>2
    <3>5. a.len > 0 <=> a.len # 0
      BY <3>2
    <3> HIDE DEF a
    <3> QED BY <1>2, <1>4, <3>1, <3>3, <3>4, <3>5
  <2> HIDE DEF c
  <2>5. /\ t.err = s.err /\ t.touched = TRUE /\ t.cur = c
        /\ t.rest = Tail(s.rest) /\ t.argv = s.argv
    BY <1>1, <2>3 DEF ScanState
  <2> HIDE DEF t
  <2>6. Within(t, words, args, j + 1)
    BY <1>1, <1>2, <2>2, <2>4, <2>5 DEF Within, ww
  <2> QED BY <2>6 DEF t, w
<1> QED BY <1>3, <1>5, <1>6

LEMMA WordIsPushed ==
  ASSUME NEW P, NEW words, NEW args, IsCommand(P, words, args),
         NEW j \in 0..(Len(words) - 1), NEW s \in Counted(P), Within(s, words, args, j + 1)
  PROVE  Pushed(PushArg(s), words, args, j + 1)
<1> DEFINE ww == WordsWritten(words, args)
           t == PushArg(s)
<1>1. s \in ScanState(P) /\ j \in Nat /\ (j + 1) - 1 = j
  BY DEF Counted
<1>2. /\ ~s.err /\ s.cur = ww[j + 1] /\ s.rest = After(args, Taken(words, j + 1))
      /\ s.argv = First(ww, j)
  BY <1>1 DEF Within
<1>3. ww \in Seq(Seq(P)) /\ Len(ww) = Len(words)
  BY WordsAreWritten
<1> HIDE DEF ww
<1>4. First(ww, j + 1) = Append(First(ww, j), ww[j + 1])
  BY <1>3, FirstAndAfter
<1>5. /\ t.err = s.err /\ t.touched = FALSE /\ t.cur = <<>>
      /\ t.rest = s.rest /\ t.argv = Append(s.argv, s.cur)
  BY <1>1 DEF ScanState, PushArg
<1> HIDE DEF t
<1>6. Pushed(t, words, args, j + 1)
  BY <1>2, <1>4, <1>5 DEF Pushed, ww
<1> QED BY <1>6 DEF t

\* Where the words and the spaces of a format of n words are.
LEMMA WordPositions ==
  ASSUME NEW n \in Nat, n # 0, NEW j \in 0..(n - 1)
  PROVE  /\ 2 * j + 1 \in 1..(2 * n - 1) /\ 2 * j + 1 \in 0..(2 * n - 1)
         /\ 2 * j \in 0..(2 * n - 1) /\ (2 * j + 1) - 1 = 2 * j
  OBVIOUS

LEMMA SpacePositions ==
  ASSUME NEW n \in Nat, NEW j \in 0..(n - 2)
  PROVE  /\ j \in 0..(n - 1) /\ j + 1 \in 1..(n - 1)
         /\ 2 * (j + 1) \in 1..(2 * n - 1) /\ 2 * (j + 1) - 1 = 2 * j + 1
  OBVIOUS

LEMMA LastPosition == \A n \in Nat : 2 * (n - 1) + 1 = 2 * n - 1 /\ (n - 1) + 1 = n
  OBVIOUS

LEMMA SpacedTokens ==
  ASSUME NEW words \in Seq(Conversions \cup {"word"}), Len(words) # 0
  PROVE  /\ Spaced(words) \in Seq(Conversions \cup {"word", " "})
         /\ Len(Spaced(words)) = 2 * Len(words) - 1
         /\ \A j \in 0..(Len(words) - 1) :
              2 * j + 1 \in 1..Len(Spaced(words)) /\ Spaced(words)[2 * j + 1] = words[j + 1]
         /\ \A j \in 1..(Len(words) - 1) :
              2 * j \in 1..Len(Spaced(words)) /\ Spaced(words)[2 * j] = " "
<1> DEFINE n == Len(words)
           T == Conversions \cup {"word", " "}
           of(i) == IF i % 2 = 1 THEN words[(i + 1) \div 2] ELSE " "
<1>1. n \in Nat /\ n >= 1 /\ 2 * n - 1 \in Nat
  OBVIOUS
<1>2. \A i \in 1..n : words[i] \in T
  <2> DEFINE Set == Conversions \cup {"word"}
  <2>1. words \in Seq(Set) /\ Set \subseteq T
    OBVIOUS
  <2> HIDE DEF Set, T
  <2> QED BY <2>1
<1>3. Spaced(words) = [i \in 1..(2 * n - 1) |-> of(i)]
  BY DEF Spaced
<1> HIDE DEF n, T
<1>4. \A i \in 1..(2 * n - 1) : of(i) \in T
  <2> TAKE i \in 1..(2 * n - 1)
  <2>1. (i + 1) \div 2 \in 1..n
    BY <1>1
  <2>2. " " \in T
    BY DEF T
  <2> QED BY <1>2, <2>1, <2>2
<1> HIDE DEF of
<1>5. /\ Spaced(words) \in Seq(T) /\ Len(Spaced(words)) = 2 * n - 1
      /\ \A i \in 1..(2 * n - 1) : Spaced(words)[i] = of(i)
  BY <1>1, <1>3, <1>4
<1>6. ASSUME NEW j \in 0..(n - 1)
      PROVE  2 * j + 1 \in 1..(2 * n - 1) /\ of(2 * j + 1) = words[j + 1]
  <2>1. (2 * j + 1) % 2 = 1 /\ ((2 * j + 1) + 1) \div 2 = j + 1 /\ 2 * j + 1 \in 1..(2 * n - 1)
    BY <1>1
  <2> QED BY <2>1 DEF of
<1>7. ASSUME NEW j \in 1..(n - 1)
      PROVE  2 * j \in 1..(2 * n - 1) /\ of(2 * j) = " "
  <2>1. (2 * j) % 2 # 1 /\ 2 * j \in 1..(2 * n - 1)
    BY <1>1
  <2> QED BY <2>1 DEF of
<1>8. /\ \A j \in 0..(n - 1) :
            2 * j + 1 \in 1..(2 * n - 1) /\ Spaced(words)[2 * j + 1] = words[j + 1]
      /\ \A j \in 1..(n - 1) : 2 * j \in 1..(2 * n - 1) /\ Spaced(words)[2 * j] = " "
  <2>1. ASSUME NEW j \in 0..(n - 1)
        PROVE  2 * j + 1 \in 1..(2 * n - 1) /\ Spaced(words)[2 * j + 1] = words[j + 1]
    <3>1. 2 * j + 1 \in 1..(2 * n - 1) /\ of(2 * j + 1) = words[j + 1]
      BY <1>6
    <3> QED BY <1>5, <3>1, Zenon
  <2>2. ASSUME NEW j \in 1..(n - 1)
        PROVE  2 * j \in 1..(2 * n - 1) /\ Spaced(words)[2 * j] = " "
    <3>1. 2 * j \in 1..(2 * n - 1) /\ of(2 * j) = " "
      BY <1>7
    <3> QED BY <1>5, <3>1, Zenon
  <2> QED BY <2>1, <2>2, Zenon
<1>9. /\ \A j \in 0..(n - 1) :
            2 * j + 1 \in 1..Len(Spaced(words)) /\ Spaced(words)[2 * j + 1] = words[j + 1]
      /\ \A j \in 1..(n - 1) : 2 * j \in 1..Len(Spaced(words)) /\ Spaced(words)[2 * j] = " "
  BY <1>5, <1>8, Zenon
<1> QED BY <1>5, <1>9, Zenon DEF n, T

\* connection.cpp:59-223: for every format of words and conversions, and for
\* every arguments, empty ones included, the command has one argument for each
\* word, in order, each made of the word's own value, and as many bytes as were
\* counted.
THEOREM CommandsAreExact ==
  ASSUME NEW Name, NEW words \in Seq(Conversions \cup {"word"}),
         NEW args \in Seq([of : Name, len : Nat]), Len(args) = Taken(words, Len(words))
  PROVE  Exact(FormatCommand(Spaced(words), args), words, args)
<1> DEFINE P == [of : Name \cup {"word"}, len : Nat]
           n == Len(words)
           ww == WordsWritten(words, args)
           format == Spaced(words)
           scanned == Scan(format, args)
           s == IF scanned.touched THEN PushArg(scanned) ELSE scanned
<1>1. IsCommand(P, words, args)
  <2>1. Pieces(P)
    BY WordBytesAssumption DEF Pieces, Word
  <2>2. [of : Name, len : Nat] \subseteq P
    OBVIOUS
  <2>3. args \in Seq(P)
    BY <2>2, SeqMonotonic
  <2> QED BY <2>1, <2>3 DEF IsCommand
<1> HIDE DEF P
<1>2. /\ FormatCommand(format, args).argv = s.argv
      /\ FormatCommand(format, args).err = s.err
  BY DEF FormatCommand
<1>3. ww \in Seq(Seq(P)) /\ Len(ww) = n /\ n \in Nat
  BY <1>1, WordsAreWritten
<1>4. \E Token : format \in Seq(Token)
  <2>1. CASE n = 0
    <3>1. format = <<>>
      BY <2>1 DEF Spaced
    <3> QED BY <3>1
  <2>2. CASE n # 0
    BY <2>2, SpacedTokens
  <2> QED BY <2>1, <2>2
<1>5. FormatCommand(format, args).pos = FormatCommand(format, args).totlen
  <2>1. PICK Token : format \in Seq(Token)
    BY <1>4
  <2> HIDE DEF format
  <2> QED BY <2>1, BytesAreCounted
<1>6. ~s.err /\ s.argv = ww
  <2>1. PICK g : Scans(P, format, args, g)
    <3>1. PICK Token : format \in Seq(Token)
      BY <1>4
    <3> HIDE DEF format
    <3> QED BY <1>1, <3>1, ScanIsDefined DEF IsCommand
  <2>2. /\ g \in [0..Len(format) -> Counted(P)] /\ g[0] = EmptyScan(args)
        /\ \A i \in 1..Len(format) : g[i] = ScanToken(g[i - 1], format[i])
        /\ scanned = g[Len(format)]
    BY <2>1 DEF Scans
  <2>3. Pushed(g[0], words, args, 0)
    <3>1. Taken(words, 0) = 0
      BY TakenIsDefined
    <3>2. After(args, 0) = args
      BY DEF After
    <3>3. First(ww, 0) = <<>>
      BY <1>3 DEF First
    <3> HIDE DEF ww
    <3> QED BY <2>2, <3>1, <3>2, <3>3 DEF Pushed, EmptyScan, ww
  <2>4. CASE n = 0
    <3>1. Len(format) = 0
      BY <2>4 DEF Spaced
    <3>2. scanned = g[0]
      BY <2>2, <3>1
    <3>3. First(ww, 0) = ww
      BY <1>3, <2>4 DEF First
    <3> HIDE DEF ww, scanned
    <3>4. ~scanned.touched /\ ~scanned.err /\ scanned.argv = ww
      BY <2>3, <3>2, <3>3 DEF Pushed, ww
    <3> QED BY <3>4
  <2>5. CASE n # 0
    <3> DEFINE T == {j \in Nat : j <= n - 1 => Within(g[2 * j + 1], words, args, j + 1)}
    <3>1. /\ Len(format) = 2 * n - 1
          /\ \A j \in 0..(n - 1) :
               2 * j + 1 \in 1..Len(format) /\ format[2 * j + 1] = words[j + 1]
          /\ \A j \in 1..(n - 1) : 2 * j \in 1..Len(format) /\ format[2 * j] = " "
      BY <2>5, SpacedTokens
    <3> HIDE DEF format, scanned
    <3>2. \A i \in 0..Len(format) : g[i] \in Counted(P)
      BY <2>2
    <3>3. ASSUME NEW j \in 0..(n - 1), Pushed(g[2 * j], words, args, j)
          PROVE  Within(g[2 * j + 1], words, args, j + 1)
      <4>1. 2 * j \in 0..Len(format) /\ (2 * j + 1) - 1 = 2 * j /\ 2 * j + 1 \in 1..Len(format)
        BY <1>3, <2>5, <3>1, WordPositions, Zenon
      <4>2. g[2 * j] \in Counted(P)
        BY <3>2, <4>1
      <4>3. g[2 * j + 1] = ScanToken(g[2 * j], words[j + 1])
        BY <2>2, <3>1, <4>1
      <4>4. Within(ScanToken(g[2 * j], words[j + 1]), words, args, j + 1)
        BY <1>1, <3>3, <4>2, WordIsRead
      <4> QED BY <4>3, <4>4
    <3>4. ASSUME NEW j \in 0..(n - 1), Within(g[2 * j + 1], words, args, j + 1)
          PROVE  /\ g[2 * j + 1] \in Counted(P)
                 /\ Pushed(PushArg(g[2 * j + 1]), words, args, j + 1)
      <4>1. 2 * j + 1 \in 0..Len(format)
        BY <1>3, <2>5, <3>1, WordPositions, Zenon
      <4>2. g[2 * j + 1] \in Counted(P)
        BY <3>2, <4>1
      <4> QED BY <1>1, <3>4, <4>2, WordIsPushed
    <3>5. ASSUME NEW j \in 0..(n - 2), Within(g[2 * j + 1], words, args, j + 1)
          PROVE  Pushed(g[2 * (j + 1)], words, args, j + 1)
      <4>1. /\ j \in 0..(n - 1) /\ j + 1 \in 1..(n - 1)
            /\ 2 * (j + 1) \in 1..Len(format) /\ 2 * (j + 1) - 1 = 2 * j + 1
        BY <1>3, <3>1, SpacePositions, Zenon
      <4>2. g[2 * (j + 1)] = ScanToken(g[2 * j + 1], " ")
        BY <2>2, <3>1, <4>1
      <4>3. g[2 * j + 1].touched /\ ~g[2 * j + 1].err
        BY <3>5 DEF Within
      <4>4. ScanToken(g[2 * j + 1], " ") = PushArg(g[2 * j + 1])
        BY <4>3 DEF ScanToken, Conversions
      <4> QED BY <3>4, <3>5, <4>1, <4>2, <4>4
    <3>6. 0 \in T
      <4>1. 2 * 0 = 0 /\ 0 \in 0..(n - 1)
        BY <1>3, <2>5
      <4> QED BY <2>3, <3>3, <4>1
    <3>7. ASSUME NEW j \in Nat, j \in T PROVE j + 1 \in T
      <4>1. SUFFICES ASSUME j + 1 <= n - 1
                     PROVE  Within(g[2 * (j + 1) + 1], words, args, (j + 1) + 1)
        OBVIOUS
      <4>2. j \in 0..(n - 2) /\ j <= n - 1 /\ j + 1 \in 0..(n - 1)
        BY <1>3, <4>1
      <4>3. Within(g[2 * j + 1], words, args, j + 1)
        BY <3>7, <4>2
      <4>4. Pushed(g[2 * (j + 1)], words, args, j + 1)
        BY <3>5, <4>2, <4>3
      <4> QED BY <3>3, <4>2, <4>4
    <3>8. Within(scanned, words, args, n) /\ Pushed(PushArg(scanned), words, args, n)
      <4> HIDE DEF T
      <4>1. Nat \subseteq T
        BY <3>6, <3>7, NumberInduction
      <4>2. n - 1 \in Nat /\ n - 1 <= n - 1 /\ n - 1 \in 0..(n - 1)
        BY <1>3, <2>5
      <4>3. Within(g[2 * (n - 1) + 1], words, args, (n - 1) + 1)
        BY <4>1, <4>2 DEF T
      <4>4. Pushed(PushArg(g[2 * (n - 1) + 1]), words, args, (n - 1) + 1)
        BY <3>4, <4>2, <4>3
      <4>5. 2 * (n - 1) + 1 = Len(format) /\ (n - 1) + 1 = n
        BY <1>3, <3>1, LastPosition, Zenon
      <4> HIDE DEF n
      <4> QED BY <2>2, <4>3, <4>4, <4>5
    <3>9. First(ww, n) = ww
      <4>1. /\ First(ww, n) \in Seq(Seq(P)) /\ Len(First(ww, n)) = n
            /\ \A i \in 1..n : First(ww, n)[i] = ww[i]
        <5> HIDE DEF ww, n
        <5> QED BY <1>3, SubSeqProperties DEF First
      <4> HIDE DEF ww, n
      <4> QED BY <1>3, <4>1, SeqEqual
    <3>10. s = PushArg(scanned)
      BY <3>8 DEF Within
    <3> HIDE DEF s, n
    <3> QED BY <3>8, <3>9, <3>10 DEF Pushed
  <2> QED BY <2>4, <2>5
<1> HIDE DEF s, format
<1>7. ~FormatCommand(format, args).err /\ FormatCommand(format, args).argv = ww
  BY <1>2, <1>6
<1> QED BY <1>5, <1>7 DEF Exact, format

-----------------------------------------------------------------------------
(* What RedisReply and RedisCall define by heights: each function is one     *)
(* level of a recursion after the other.                                     *)

LoopPass(pb, path, new, freed, outcomes, prev, j) ==
  IF j = 0 THEN {new}
  ELSE UNION {{WithElement(sofar, j, o, freed[sofar.reply][path])
               : o \in outcomes[pb.element[j]][Append(path, j)]}
              : sofar \in prev}

PicksPass(sets, prev, n) ==
  IF n = 0 THEN {<<>>} ELSE UNION {{Append(c, x) : x \in sets[n]} : c \in prev}

CopiedStep(below, h) ==
  [r \in Trees[h] |->
     [r EXCEPT !.element = IF IsArray(r) THEN [j \in DOMAIN @ |-> below[@[j]]] ELSE <<>>]]

FreedStep(below, h) ==
  [r \in Trees[h] |-> [path \in Paths |->
     IF r = Null THEN {}
     ELSE {<<path, "node">>}
          \cup (IF r.type \in StringTypes THEN {<<path, "str">>} ELSE {})
          \cup (IF IsArray(r) /\ r.element # <<>>
                THEN {<<path, "element">>}
                     \cup UNION {below[r.element[j]][Append(path, j)]
                                 : j \in DOMAIN r.element}
                ELSE {})]]

NodesStep(below, h) ==
  [r \in Trees[h] |-> {r} \cup UNION {below[r.element[j]] : j \in DOMAIN r.element}]

ConvertedStep(below, h) ==
  [pb \in Trees[h] |-> [path \in Paths |->
     LET kept == [reply |-> Created(pb), heap |-> FreedAt[h][Created(pb)][path]]
         null == [reply |-> Null, heap |-> {}]
     IN  IF pb.type \in StringTypes THEN {kept}
         ELSE IF IsArray(pb) THEN WithElements(pb, path, kept, FreedAt[h], below)
         ELSE {kept, null}]]

TypesStep(below, n) ==
  IF n = 0 THEN {} ELSE {T \in [k : Kinds, of : Seq(below)] : WellFormed(T)}

ParseStep(below, n) == [T \in Types[n] |-> [r \in Replies |-> ParseAs(below, T, r)]]

EncodingsStep(below, n) ==
  [T \in Types[n] |-> [max \in Int |-> EncodingsAs(below, T, max)]]

\* One level, or one pass of PbToReply's loop, of each of them.
Level(what, below, h) ==
  CASE what[1] = "Trees" ->
         IF h = 0 THEN {}
         ELSE [type : ReplyTypes, str : Strings, integer : Int, element : Seq(below)]
    [] what[1] = "Copied"    -> CopiedStep(below, h)
    [] what[1] = "FreedAt"   -> FreedStep(below, h)
    [] what[1] = "NodesAt"   -> NodesStep(below, h)
    [] what[1] = "Converted" -> ConvertedStep(below, h)
    [] what[1] = "Types"       -> TypesStep(below, h)
    [] what[1] = "ParseAt"     -> ParseStep(below, h)
    [] what[1] = "EncodingsAt" -> EncodingsStep(below, h)
    [] what[1] = "picks"       -> PicksPass(what[2], below, h)
    [] what[1] = "loop"      -> LoopPass(what[2], what[3], what[4], what[5], what[6], below, h)

\* The lowest level does not look below it.
LowestLevel(what) == \A a, b : Level(what, a, 0) = Level(what, b, 0)

\* f is the recursion's levels for the numbers of D.
Levels(what, D, f) == f = [h \in D |-> Level(what, f[h - 1], h)]

LEMMA LevelsUpTo ==
  ASSUME NEW what, LowestLevel(what), NEW n \in Nat
  PROVE  \E f : Levels(what, 0..n, f)
<1> DEFINE T == {k \in Nat : \E f : Levels(what, 0..k, f)}
<1>1. 0 \in T
  <2> DEFINE f == [h \in 0..0 |-> Level(what, 0, 0)]
  <2>1. \A h \in 0..0 : h = 0
    OBVIOUS
  <2>2. f = [h \in 0..0 |-> Level(what, f[h - 1], h)]
    <3>1. \A h \in 0..0 : Level(what, 0, 0) = Level(what, f[h - 1], h)
      BY <2>1 DEF LowestLevel
    <3> QED BY <3>1
  <2> HIDE DEF f
  <2> QED BY <2>2 DEF Levels
<1>2. ASSUME NEW k \in Nat, k \in T PROVE k + 1 \in T
  <2>1. PICK g : Levels(what, 0..k, g)
    BY <1>2
  <2>2. \A h \in 0..k : g[h] = Level(what, g[h - 1], h)
    BY <2>1 DEF Levels
  <2> DEFINE f == [h \in 0..(k + 1) |-> IF h <= k THEN g[h] ELSE Level(what, g[k], k + 1)]
  <2>3. ASSUME NEW h \in 0..(k + 1) PROVE f[h] = Level(what, f[h - 1], h)
    <3>1. CASE h = 0
      <4>1. f[0] = g[0]
        OBVIOUS
      <4>2. g[0] = Level(what, g[0 - 1], 0)
        BY <2>2
      <4> HIDE DEF f
      <4> QED BY <3>1, <4>1, <4>2 DEF LowestLevel
    <3>2. CASE h \in 1..k
      <4>1. f[h] = g[h] /\ f[h - 1] = g[h - 1] /\ h \in 0..k
        BY <3>2
      <4> HIDE DEF f
      <4> QED BY <2>2, <4>1
    <3>3. CASE h = k + 1
      <4>1. f[k + 1] = Level(what, g[k], k + 1) /\ f[k] = g[k] /\ (k + 1) - 1 = k
        OBVIOUS
      <4> HIDE DEF f
      <4> QED BY <3>3, <4>1
    <3> QED BY <3>1, <3>2, <3>3
  <2>4. f = [h \in 0..(k + 1) |-> f[h]]
    OBVIOUS
  <2>5. Levels(what, 0..(k + 1), f)
    <3> HIDE DEF f
    <3> QED BY <2>3, <2>4 DEF Levels
  <2> QED BY <2>5
<1> HIDE DEF T
<1>3. n \in T
  BY <1>1, <1>2, NumberInduction
<1> QED BY <1>3 DEF T

LEMMA LevelsAreUnique ==
  ASSUME NEW what, LowestLevel(what), NEW n \in Nat, NEW m \in Nat, n <= m,
         NEW f, Levels(what, 0..n, f), NEW g, Levels(what, 0..m, g)
  PROVE  f[n] = g[n]
<1>1. /\ \A h \in 0..n : f[h] = Level(what, f[h - 1], h)
      /\ \A h \in 0..n : g[h] = Level(what, g[h - 1], h)
  BY DEF Levels
<1>2. f[0] = g[0]
  BY <1>1 DEF LowestLevel
<1>3. GoOnAlike(n, f, g)
  BY <1>1 DEF GoOnAlike
<1> QED BY <1>2, <1>3, IterationIsUnique

LEMMA LevelsAreDefined ==
  ASSUME NEW what, LowestLevel(what)
  PROVE  \E f : Levels(what, Nat, f)
<1> DEFINE g(n) == CHOOSE f : Levels(what, 0..n, f)
           f == [n \in Nat |-> g(n)[n]]
<1>1. \A n \in Nat : Levels(what, 0..n, g(n))
  BY LevelsUpTo
<1> HIDE DEF g
<1>2. ASSUME NEW n \in Nat PROVE f[n] = Level(what, f[n - 1], n)
  <2>1. g(n)[n] = Level(what, g(n)[n - 1], n)
    BY <1>1 DEF Levels
  <2>2. f[n] = g(n)[n]
    OBVIOUS
  <2>3. CASE n = 0
    <3> HIDE DEF f
    <3> QED BY <2>1, <2>2, <2>3 DEF LowestLevel
  <2>4. CASE n # 0
    <3>1. n - 1 \in Nat /\ n - 1 <= n
      BY <2>4
    <3>2. g(n - 1)[n - 1] = g(n)[n - 1]
      BY <1>1, <3>1, LevelsAreUnique
    <3>3. f[n - 1] = g(n - 1)[n - 1]
      BY <3>1
    <3> HIDE DEF f
    <3> QED BY <2>1, <2>2, <3>2, <3>3
  <2> QED BY <2>3, <2>4
<1>3. f = [n \in Nat |-> f[n]]
  OBVIOUS
<1> HIDE DEF f
<1> QED BY <1>2, <1>3 DEF Levels

LEMMA TreesAreDefined ==
  /\ Trees[0] = {}
  /\ \A h \in Nat \ {0} :
       Trees[h] = [type : ReplyTypes, str : Strings, integer : Int, element : Seq(Trees[h - 1])]
<1> DEFINE what == <<"Trees">>
           Is(f) == f = [h \in Nat |-> IF h = 0 THEN {}
                                       ELSE [type : ReplyTypes, str : Strings, integer : Int,
                                             element : Seq(f[h - 1])]]
<1>1. ASSUME NEW below, NEW h
      PROVE  Level(what, below, h) =
               IF h = 0 THEN {}
               ELSE [type : ReplyTypes, str : Strings, integer : Int, element : Seq(below)]
  BY DEF Level
<1>2. LowestLevel(what)
  BY <1>1 DEF LowestLevel
<1>3. \E f : Is(f)
  <2>1. PICK f : Levels(what, Nat, f)
    BY <1>2, LevelsAreDefined
  <2> HIDE DEF what
  <2>2. Is(f)
    BY <1>1, <2>1 DEF Levels
  <2> QED BY <2>2
<1>4. Trees = CHOOSE f : Is(f)
  BY DEF Trees
<1>5. Is(Trees)
  <2> HIDE DEF Is
  <2> QED BY <1>3, <1>4
<1> QED BY <1>5

LEMMA CopiedIsDefined == \A h \in Nat : Copied[h] = CopiedStep(Copied[h - 1], h)
<1> DEFINE what == <<"Copied">>
           Is(f) == f = [h \in Nat |-> CopiedStep(f[h - 1], h)]
<1>1. ASSUME NEW below, NEW h PROVE Level(what, below, h) = CopiedStep(below, h)
  BY DEF Level
<1>2. LowestLevel(what)
  <2>1. \A a, b : CopiedStep(a, 0) = CopiedStep(b, 0)
    BY TreesAreDefined DEF CopiedStep
  <2> HIDE DEF what
  <2> QED BY <1>1, <2>1 DEF LowestLevel
<1>3. \E f : Is(f)
  <2>1. PICK f : Levels(what, Nat, f)
    BY <1>2, LevelsAreDefined
  <2> HIDE DEF what
  <2>2. Is(f)
    BY <1>1, <2>1 DEF Levels
  <2> QED BY <2>2
<1>4. Copied = CHOOSE f : Is(f)
  BY DEF Copied, CopiedStep
<1>5. Is(Copied)
  <2> HIDE DEF Is
  <2> QED BY <1>3, <1>4
<1> QED BY <1>5

LEMMA FreedAtIsDefined == \A h \in Nat : FreedAt[h] = FreedStep(FreedAt[h - 1], h)
<1> DEFINE what == <<"FreedAt">>
           Is(f) == f = [h \in Nat |-> FreedStep(f[h - 1], h)]
<1>1. ASSUME NEW below, NEW h PROVE Level(what, below, h) = FreedStep(below, h)
  BY DEF Level
<1>2. LowestLevel(what)
  <2>1. \A a, b : FreedStep(a, 0) = FreedStep(b, 0)
    BY TreesAreDefined DEF FreedStep
  <2> HIDE DEF what
  <2> QED BY <1>1, <2>1 DEF LowestLevel
<1>3. \E f : Is(f)
  <2>1. PICK f : Levels(what, Nat, f)
    BY <1>2, LevelsAreDefined
  <2> HIDE DEF what
  <2>2. Is(f)
    BY <1>1, <2>1 DEF Levels
  <2> QED BY <2>2
<1>4. FreedAt = CHOOSE f : Is(f)
  BY DEF FreedAt, FreedStep
<1>5. Is(FreedAt)
  <2> HIDE DEF Is
  <2> QED BY <1>3, <1>4
<1> QED BY <1>5

LEMMA NodesAtIsDefined == \A h \in Nat : NodesAt[h] = NodesStep(NodesAt[h - 1], h)
<1> DEFINE what == <<"NodesAt">>
           Is(f) == f = [h \in Nat |-> NodesStep(f[h - 1], h)]
<1>1. ASSUME NEW below, NEW h PROVE Level(what, below, h) = NodesStep(below, h)
  BY DEF Level
<1>2. LowestLevel(what)
  <2>1. \A a, b : NodesStep(a, 0) = NodesStep(b, 0)
    BY TreesAreDefined DEF NodesStep
  <2> HIDE DEF what
  <2> QED BY <1>1, <2>1 DEF LowestLevel
<1>3. \E f : Is(f)
  <2>1. PICK f : Levels(what, Nat, f)
    BY <1>2, LevelsAreDefined
  <2> HIDE DEF what
  <2>2. Is(f)
    BY <1>1, <2>1 DEF Levels
  <2> QED BY <2>2
<1>4. NodesAt = CHOOSE f : Is(f)
  BY DEF NodesAt, NodesStep
<1>5. Is(NodesAt)
  <2> HIDE DEF Is
  <2> QED BY <1>3, <1>4
<1> QED BY <1>5

LEMMA ConvertedIsDefined == \A h \in Nat : Converted[h] = ConvertedStep(Converted[h - 1], h)
<1> DEFINE what == <<"Converted">>
           Is(f) == f = [h \in Nat |-> ConvertedStep(f[h - 1], h)]
<1>1. ASSUME NEW below, NEW h PROVE Level(what, below, h) = ConvertedStep(below, h)
  BY DEF Level
<1>2. LowestLevel(what)
  <2>1. \A a, b : ConvertedStep(a, 0) = ConvertedStep(b, 0)
    BY TreesAreDefined DEF ConvertedStep
  <2> HIDE DEF what
  <2> QED BY <1>1, <2>1 DEF LowestLevel
<1>3. \E f : Is(f)
  <2>1. PICK f : Levels(what, Nat, f)
    BY <1>2, LevelsAreDefined
  <2> HIDE DEF what
  <2>2. Is(f)
    BY <1>1, <2>1 DEF Levels
  <2> QED BY <2>2
<1>4. Converted = CHOOSE f : Is(f)
  BY DEF Converted, ConvertedStep
<1>5. Is(Converted)
  <2> HIDE DEF Is
  <2> QED BY <1>3, <1>4
<1> QED BY <1>5

-----------------------------------------------------------------------------
(* Replies and what is allocated for them. *)

\* PbToReply may take what was on the stack for a failure somewhere in r.
Unassigned(h, r) == \E node \in NodesAt[h][r] : node.type \notin StringTypes \cup {"ARRAY"}

LEMMA TreeParts ==
  ASSUME NEW h \in Nat, NEW r \in Trees[h]
  PROVE  /\ h # 0 /\ h - 1 \in Nat
         /\ r \in [type : ReplyTypes, str : Strings, integer : Int, element : Seq(Trees[h - 1])]
         /\ r.element \in Seq(Trees[h - 1])
         /\ DOMAIN r.element = 1..Len(r.element) /\ Len(r.element) \in Nat
         /\ \A j \in 1..Len(r.element) : r.element[j] \in Trees[h - 1]
<1>1. h # 0 /\ h - 1 \in Nat
  BY TreesAreDefined
<1>2. r \in [type : ReplyTypes, str : Strings, integer : Int, element : Seq(Trees[h - 1])]
  BY <1>1, TreesAreDefined
<1>3. r.element \in Seq(Trees[h - 1])
  BY <1>2
<1> QED BY <1>1, <1>2, <1>3

LEMMA NodeIsTree ==
  ASSUME NEW h \in Nat \ {0}, NEW type \in ReplyTypes, NEW str \in Strings, NEW integer \in Int,
         NEW element \in Seq(Trees[h - 1])
  PROVE  /\ Node(type, str, integer, element) \in Trees[h]
         /\ Node(type, str, integer, element).type = type
<1>1. Node(type, str, integer, element)
        \in [type : ReplyTypes, str : Strings, integer : Int, element : Seq(Trees[h - 1])]
  BY DEF Node
<1>2. Node(type, str, integer, element).type = type
  BY DEF Node
<1> QED BY <1>1, <1>2, TreesAreDefined

LEMMA NullsType == Null.type = "nullptr"
BY DEF Null, Node

LEMMA NullIsTree == \A h \in Nat \ {0} : Null \in Trees[h]
<1>1. ASSUME NEW h \in Nat \ {0} PROVE Null \in Trees[h]
  <2>1. "nullptr" \in ReplyTypes
    BY DEF ReplyTypes
  <2>2. <<>> \in Seq(Trees[h - 1]) /\ 0 \in Int
    OBVIOUS
  <2>3. NoText \in Strings
    BY DEF Strings
  <2> QED BY <2>1, <2>2, <2>3, NodeIsTree DEF Null
<1> QED BY <1>1

LEMMA UnassignedParts ==
  ASSUME NEW h \in Nat, NEW r \in Trees[h]
  PROVE  Unassigned(h, r) <=>
           \/ r.type \notin StringTypes \cup {"ARRAY"}
           \/ \E j \in DOMAIN r.element : Unassigned(h - 1, r.element[j])
<1>1. NodesAt[h][r] = {r} \cup UNION {NodesAt[h - 1][r.element[j]] : j \in DOMAIN r.element}
  BY NodesAtIsDefined DEF NodesStep
<1> QED BY <1>1 DEF Unassigned

\* The parts of what is freed of a reply.
StringFreed(r, path) == IF r.type \in StringTypes THEN {<<path, "str">>} ELSE {}

BelowFreed(h, r, path) ==
  UNION {FreedAt[h - 1][r.element[j]][Append(path, j)] : j \in DOMAIN r.element}

ElementsFreed(h, r, path) ==
  IF IsArray(r) /\ r.element # <<>> THEN {<<path, "element">>} \cup BelowFreed(h, r, path)
  ELSE {}

LEMMA FreedParts ==
  ASSUME NEW h \in Nat, NEW r \in Trees[h], NEW path \in Paths
  PROVE  FreedAt[h][r][path] =
           IF r = Null THEN {}
           ELSE {<<path, "node">>} \cup StringFreed(r, path) \cup ElementsFreed(h, r, path)
<1> DEFINE below == FreedAt[h - 1]
<1>1. FreedAt[h] = FreedStep(below, h)
  BY FreedAtIsDefined
<1> HIDE DEF below
<1>2. FreedAt[h][r][path] =
        IF r = Null THEN {}
        ELSE {<<path, "node">>}
             \cup (IF r.type \in StringTypes THEN {<<path, "str">>} ELSE {})
             \cup (IF IsArray(r) /\ r.element # <<>>
                   THEN {<<path, "element">>}
                        \cup UNION {below[r.element[j]][Append(path, j)] : j \in DOMAIN r.element}
                   ELSE {})
  BY <1>1 DEF FreedStep
<1> QED BY <1>2 DEF below, StringFreed, ElementsFreed, BelowFreed

LEMMA FreedOfArray ==
  ASSUME NEW h \in Nat, NEW r \in Trees[h], r.type = "ARRAY", r.element # <<>>,
         NEW path \in Paths
  PROVE  FreedAt[h][r][path] = {<<path, "node">>, <<path, "element">>} \cup BelowFreed(h, r, path)
<1>1. r # Null
  BY NullsType
<1>2. FreedAt[h][r][path] =
        {<<path, "node">>} \cup StringFreed(r, path) \cup ElementsFreed(h, r, path)
  BY <1>1, FreedParts
<1>3. StringFreed(r, path) = {}
  BY DEF StringFreed, StringTypes
<1>4. ElementsFreed(h, r, path) = {<<path, "element">>} \cup BelowFreed(h, r, path)
  BY DEF ElementsFreed, IsArray
<1> QED BY <1>2, <1>3, <1>4

LEMMA NothingIsFreed ==
  ASSUME NEW h \in Nat \ {0}, NEW path \in Paths PROVE FreedAt[h][Null][path] = {}
BY NullIsTree, FreedParts

\* ReplyToPb makes a message of a reply, with no node that PbToReply might drop
\* but the reply's.
LEMMA MessagesAreTrees ==
  \A h \in Nat : \A r \in Trees[h] :
    /\ Copied[h][r] \in Trees[h]
    /\ Unassigned(h, Copied[h][r]) => Unassigned(h, r)
<1> DEFINE T == {h \in Nat : \A r \in Trees[h] :
                   /\ Copied[h][r] \in Trees[h]
                   /\ Unassigned(h, Copied[h][r]) => Unassigned(h, r)}
<1>1. 0 \in T
  BY TreesAreDefined
<1>2. ASSUME NEW k \in Nat, k \in T PROVE k + 1 \in T
  <2> DEFINE h == k + 1
  <2>1. h \in Nat \ {0} /\ h - 1 = k
    OBVIOUS
  <2>2. ASSUME NEW r \in Trees[h]
        PROVE  /\ Copied[h][r] \in Trees[h]
               /\ Unassigned(h, Copied[h][r]) => Unassigned(h, r)
    <3> DEFINE c == Copied[h][r]
               elements == IF IsArray(r) THEN [j \in DOMAIN r.element |-> Copied[k][r.element[j]]]
                           ELSE <<>>
    <3> HIDE DEF h
    <3>1. c = [r EXCEPT !.element = elements]
      <4> DEFINE below == Copied[k]
      <4>1. Copied[h] = CopiedStep(below, h)
        BY <2>1, CopiedIsDefined
      <4> HIDE DEF below
      <4>2. c = [r EXCEPT !.element = IF IsArray(r) THEN [j \in DOMAIN r.element |-> below[r.element[j]]]
                                      ELSE <<>>]
        BY <4>1 DEF CopiedStep
      <4> QED BY <4>2 DEF below
    <3>2. /\ r \in [type : ReplyTypes, str : Strings, integer : Int, element : Seq(Trees[k])]
          /\ DOMAIN r.element = 1..Len(r.element) /\ Len(r.element) \in Nat
          /\ \A j \in 1..Len(r.element) : r.element[j] \in Trees[k]
      BY <2>1, TreeParts
    <3>3. \A j \in 1..Len(r.element) :
            /\ Copied[k][r.element[j]] \in Trees[k]
            /\ Unassigned(k, Copied[k][r.element[j]]) => Unassigned(k, r.element[j])
      BY <1>2, <3>2
    <3>4. elements \in Seq(Trees[k])
      <4>1. CASE IsArray(r)
        <5>1. elements = [j \in 1..Len(r.element) |-> Copied[k][r.element[j]]]
          BY <3>2, <4>1
        <5>2. [j \in 1..Len(r.element) |-> Copied[k][r.element[j]]] \in [1..Len(r.element) -> Trees[k]]
          BY <3>3
        <5> HIDE DEF elements
        <5> QED BY <3>2, <5>1, <5>2
      <4>2. CASE ~IsArray(r)
        BY <4>2
      <4> QED BY <4>1, <4>2
    <3>5. c \in [type : ReplyTypes, str : Strings, integer : Int, element : Seq(Trees[k])]
      <4> HIDE DEF c, elements
      <4> QED BY <3>1, <3>2, <3>4
    <3>6. c \in Trees[h]
      BY <2>1, <3>5, TreesAreDefined
    <3>7. c.type = r.type /\ c.element = elements
      <4> HIDE DEF c, elements
      <4> QED BY <3>1, <3>2
    <3>8. \A j \in DOMAIN elements :
            j \in DOMAIN r.element /\ elements[j] = Copied[k][r.element[j]]
      OBVIOUS
    <3> HIDE DEF c, elements
    <3>9. ASSUME Unassigned(h, c) PROVE Unassigned(h, r)
      <4>1. CASE c.type \notin StringTypes \cup {"ARRAY"}
        BY <2>1, <3>7, <4>1, UnassignedParts
      <4>2. CASE \E j \in DOMAIN c.element : Unassigned(k, c.element[j])
        <5>1. PICK j \in DOMAIN elements : Unassigned(k, elements[j])
          BY <3>7, <4>2
        <5>2. j \in DOMAIN r.element /\ Unassigned(k, r.element[j])
          BY <3>2, <3>3, <3>8, <5>1
        <5> QED BY <2>1, <5>2, UnassignedParts
      <4> QED BY <2>1, <3>6, <3>9, <4>1, <4>2, UnassignedParts
    <3> QED BY <3>6, <3>9 DEF c
  <2> HIDE DEF h
  <2>3. \A r \in Trees[h] : /\ Copied[h][r] \in Trees[h]
                            /\ Unassigned(h, Copied[h][r]) => Unassigned(h, r)
    BY <2>2
  <2> QED BY <2>1, <2>3 DEF h
<1> HIDE DEF T
<1>3. Nat \subseteq T
  BY <1>1, <1>2, NumberInduction
<1> QED BY <1>3 DEF T

\* What one outcome of PbToReply promises: what is allocated is what freeing
\* the reply frees, and there is no reply only where one might be dropped.
Sound(h, pb, path, o) ==
  /\ o.reply \in Trees[h]
  /\ o.heap = FreedAt[h][o.reply][path]
  /\ o.reply = Null => Unassigned(h, pb)

LEMMA CreatedIsTree ==
  ASSUME NEW h \in Nat, NEW pb \in Trees[h]
  PROVE  Created(pb) \in Trees[h] /\ Created(pb).type = pb.type
<1> DEFINE E == Seq(Trees[h - 1])
           R == [type : ReplyTypes, str : Strings, integer : Int, element : E]
<1>0. Trees[h] = R
  BY TreesAreDefined
<1>1. /\ h \in Nat \ {0}
      /\ pb \in [type : ReplyTypes, str : Strings, integer : Int, element : Seq(Trees[h - 1])]
      /\ DOMAIN pb.element = 1..Len(pb.element) /\ Len(pb.element) \in Nat
      /\ \A j \in 1..Len(pb.element) : pb.element[j] \in Trees[h - 1]
  BY TreeParts
<1>2. pb.type \in ReplyTypes /\ pb.str \in Strings /\ pb.integer \in Int
  BY <1>1
<1>3. NoText \in Strings /\ 0 \in Int /\ <<>> \in E
  BY DEF Strings
<1>4. [j \in DOMAIN pb.element |-> Null] \in E
  <2>1. ASSUME NEW j \in 1..Len(pb.element) PROVE Null \in Trees[h - 1]
    <3>1. h - 1 # 0
      <4> SUFFICES ASSUME h - 1 = 0 PROVE FALSE
        OBVIOUS
      <4>1. Trees[h - 1] = {} /\ pb.element[j] \in Trees[h - 1]
        BY <1>1, TreesAreDefined
      <4> QED BY <4>1
    <3> DEFINE k == h - 1
    <3>2. k \in Nat \ {0}
      BY <1>1, <3>1
    <3> HIDE DEF k
    <3>3. Null \in Trees[k]
      BY <3>2, NullIsTree
    <3> QED BY <3>3 DEF k
  <2>2. [j \in 1..Len(pb.element) |-> Null] \in [1..Len(pb.element) -> Trees[h - 1]]
    BY <2>1
  <2> DEFINE D == DOMAIN pb.element
             n == Len(pb.element)
             below == Trees[h - 1]
  <2>3. D = 1..n /\ n \in Nat /\ [j \in 1..n |-> Null] \in [1..n -> below]
    BY <1>1, <2>2
  <2> HIDE DEF D, n, below
  <2>4. [j \in D |-> Null] \in Seq(below)
    BY <2>3
  <2> QED BY <2>4 DEF D, below
<1> HIDE DEF E
<1>5. CASE pb.type \in StringTypes
  <2>1. Created(pb) = Node(pb.type, pb.str, 0, <<>>)
    BY <1>5 DEF Created, StringTypes
  <2>2. Created(pb) \in R
    BY <1>2, <1>3, <2>1 DEF Node
  <2>3. Created(pb).type = pb.type
    BY <2>1 DEF Node
  <2> QED BY <1>0, <2>2, <2>3
<1>6. CASE pb.type = "INTEGER"
  <2>1. Created(pb) = Node(pb.type, NoText, pb.integer, <<>>)
    BY <1>6 DEF Created, StringTypes
  <2>2. Created(pb) \in R
    BY <1>2, <1>3, <2>1 DEF Node
  <2>3. Created(pb).type = pb.type
    BY <2>1 DEF Node
  <2> QED BY <1>0, <2>2, <2>3
<1>7. CASE pb.type = "ARRAY"
  <2>1. Created(pb) = Node(pb.type, NoText, 0, [j \in DOMAIN pb.element |-> Null])
    BY <1>7 DEF Created, StringTypes
  <2>2. Created(pb) \in R
    BY <1>2, <1>3, <1>4, <2>1 DEF Node
  <2>3. Created(pb).type = pb.type
    BY <2>1 DEF Node
  <2> QED BY <1>0, <2>2, <2>3
<1>8. CASE pb.type \notin StringTypes /\ pb.type # "INTEGER" /\ pb.type # "ARRAY"
  <2>1. Created(pb) = Node(pb.type, NoText, 0, <<>>)
    BY <1>8 DEF Created, StringTypes
  <2>2. Created(pb) \in R
    BY <1>2, <1>3, <2>1 DEF Node
  <2>3. Created(pb).type = pb.type
    BY <2>1 DEF Node
  <2> QED BY <1>0, <2>2, <2>3
<1> QED BY <1>5, <1>6, <1>7, <1>8

\* The loop's outcomes after j passes: no reply, or an array whose elements
\* from the j-th on are not there yet.
LoopInv(h, pb, path, j, sofar) ==
  /\ Sound(h, pb, path, sofar)
  /\ sofar.reply # Null =>
       /\ sofar.reply.type = "ARRAY"
       /\ Len(sofar.reply.element) = Len(pb.element)
       /\ \A i \in (j + 1)..Len(pb.element) : sofar.reply.element[i] = Null

LEMMA PassIsSound ==
  ASSUME NEW h \in Nat, NEW pb \in Trees[h], NEW path \in Paths,
         NEW j \in 1..Len(pb.element),
         NEW sofar, LoopInv(h, pb, path, j - 1, sofar),
         NEW o, Sound(h - 1, pb.element[j], Append(path, j), o)
  PROVE  LoopInv(h, pb, path, j, WithElement(sofar, j, o, FreedAt[h][sofar.reply][path]))
<1> DEFINE r == sofar.reply
           new == [r EXCEPT !.element[j] = o.reply]
           n == Len(pb.element)
           after == WithElement(sofar, j, o, FreedAt[h][r][path])
<1>1. /\ h \in Nat \ {0} /\ h - 1 \in Nat /\ n \in Nat
      /\ pb.element[j] \in Trees[h - 1] /\ DOMAIN pb.element = 1..n
  BY TreeParts
<1>2. h - 1 \in Nat \ {0}
  BY <1>1, TreesAreDefined
<1>3. CASE r = Null
  <2>1. after = sofar
    BY <1>3 DEF WithElement
  <2> QED BY <1>3, <2>1 DEF LoopInv
<1>4. CASE r # Null /\ o.reply = Null
  <2>1. after = [reply |-> Null, heap |-> sofar.heap \ FreedAt[h][r][path]]
    BY <1>4 DEF WithElement
  <2>2. after.reply = Null /\ after.heap = {}
    BY <2>1 DEF LoopInv, Sound
  <2>3. Unassigned(h, pb)
    BY <1>1, <1>4, UnassignedParts DEF Sound
  <2> QED BY <1>1, <2>2, <2>3, NullIsTree, NothingIsFreed DEF LoopInv, Sound
<1>5. CASE r # Null /\ o.reply # Null
  <2>1. after.reply = new /\ after.heap = sofar.heap \cup o.heap
    BY <1>5 DEF WithElement
  <2>2. /\ r \in Trees[h] /\ sofar.heap = FreedAt[h][r][path]
        /\ r.type = "ARRAY" /\ Len(r.element) = n
        /\ \A i \in j..n : r.element[i] = Null
    BY <1>1, <1>5 DEF LoopInv, Sound
  <2>3. o.reply \in Trees[h - 1] /\ o.heap = FreedAt[h - 1][o.reply][Append(path, j)]
    BY DEF Sound
  <2>4. /\ r \in [type : ReplyTypes, str : Strings, integer : Int, element : Seq(Trees[h - 1])]
        /\ DOMAIN r.element = 1..n
        /\ r.element \in Seq(Trees[h - 1])
    BY <2>2, TreeParts
  <2> DEFINE element == [r.element EXCEPT ![j] = o.reply]
  <2>5. /\ element \in Seq(Trees[h - 1]) /\ Len(element) = n /\ DOMAIN element = 1..n
        /\ element[j] = o.reply
        /\ \A i \in 1..n : i # j => element[i] = r.element[i]
    BY <1>1, <2>2, <2>3, <2>4
  <2>6. /\ new \in [type : ReplyTypes, str : Strings, integer : Int, element : Seq(Trees[h - 1])]
        /\ new.type = "ARRAY" /\ new.element = element
    BY <2>2, <2>4, <2>5
  <2>7. new \in Trees[h]
    BY <1>1, <2>6, TreesAreDefined
  <2>8. new # Null
    BY <2>6, NullsType
  <2> HIDE DEF new, element, r, after
  <2>9. path \in Paths /\ Append(path, j) \in Paths
    BY DEF Paths
  <2>10. r.element # <<>> /\ element # <<>>
    BY <2>2, <2>4, <2>5
  <2> DEFINE below(e) == UNION {FreedAt[h - 1][e[i]][Append(path, i)] : i \in 1..n}
             own == {<<path, "node">>, <<path, "element">>}
  <2>11. FreedAt[h][r][path] = own \cup below(r.element)
    <3>1. FreedAt[h][r][path] =
            own \cup UNION {FreedAt[h - 1][r.element[i]][Append(path, i)] : i \in DOMAIN r.element}
      BY <2>2, <2>10, FreedOfArray DEF BelowFreed
    <3> QED BY <2>4, <3>1
  <2>12. FreedAt[h][new][path] = own \cup below(element)
    <3>1. FreedAt[h][new][path] =
            own \cup UNION {FreedAt[h - 1][new.element[i]][Append(path, i)] : i \in DOMAIN new.element}
      BY <2>6, <2>7, <2>10, FreedOfArray DEF BelowFreed
    <3> QED BY <2>5, <2>6, <3>1
  <2>13. below(element) = below(r.element) \cup FreedAt[h - 1][o.reply][Append(path, j)]
    <3>1. FreedAt[h - 1][r.element[j]][Append(path, j)] = {}
      BY <1>1, <1>2, <2>2, <2>9, NothingIsFreed
    <3> QED BY <2>5, <3>1
  <2>14. after.heap = FreedAt[h][new][path]
    <3> HIDE DEF below, own
    <3> QED BY <2>1, <2>2, <2>3, <2>11, <2>12, <2>13
  <2>15. \A i \in (j + 1)..n : element[i] = Null
    BY <1>1, <2>2, <2>5
  <2> QED BY <2>1, <2>5, <2>6, <2>7, <2>8, <2>14, <2>15 DEF LoopInv, Sound, after, r
<1> QED BY <1>3, <1>4, <1>5

\* The loop over an array's elements, pass by pass.
LEMMA LoopIsDefined ==
  ASSUME NEW pb, Len(pb.element) \in Nat, NEW path, NEW new, NEW freed, NEW outcomes
  PROVE  \E g : /\ \A j \in 0..Len(pb.element) :
                     g[j] = LoopPass(pb, path, new, freed, outcomes, g[j - 1], j)
                /\ WithElements(pb, path, new, freed, outcomes) = g[Len(pb.element)]
<1> DEFINE n == Len(pb.element)
           what == <<"loop", pb, path, new, freed, outcomes>>
           Is(f) == f = [j \in 0..n |->
                           IF j = 0 THEN {new}
                           ELSE UNION {{WithElement(sofar, j, o, freed[sofar.reply][path])
                                        : o \in outcomes[pb.element[j]][Append(path, j)]}
                                       : sofar \in f[j - 1]}]
           g == CHOOSE f : Is(f)
<1>1. n \in Nat
  OBVIOUS
<1>2. ASSUME NEW prev, NEW j
      PROVE  Level(what, prev, j) = LoopPass(pb, path, new, freed, outcomes, prev, j)
  BY DEF Level
<1>3. LowestLevel(what)
  <2>1. \A a, b : LoopPass(pb, path, new, freed, outcomes, a, 0)
                   = LoopPass(pb, path, new, freed, outcomes, b, 0)
    BY DEF LoopPass
  <2> HIDE DEF what
  <2> QED BY <1>2, <2>1 DEF LowestLevel
<1>4. WithElements(pb, path, new, freed, outcomes) = g[n]
  BY Zenon DEF WithElements
<1> HIDE DEF n
<1>5. \E f : Is(f)
  <2>1. PICK f : Levels(what, 0..n, f)
    <3> HIDE DEF what
    <3> QED BY <1>1, <1>3, LevelsUpTo
  <2> HIDE DEF what
  <2>2. f = [j \in 0..n |-> LoopPass(pb, path, new, freed, outcomes, f[j - 1], j)]
    BY <1>2, <2>1 DEF Levels
  <2>3. Is(f)
    BY <2>2 DEF LoopPass
  <2> QED BY <2>3
<1>6. Is(g)
  <2> HIDE DEF Is
  <2> QED BY <1>5
<1> HIDE DEF g
<1>7. \A j \in 0..n : g[j] = LoopPass(pb, path, new, freed, outcomes, g[j - 1], j)
  BY <1>6 DEF LoopPass
<1> QED BY <1>4, <1>7 DEF n

\* PbToReply's outcomes, of every message: an array whose element is dropped
\* is freed whole, and nothing else is left allocated.
LEMMA OutcomesAreSound ==
  \A h \in Nat : \A pb \in Trees[h], path \in Paths :
    \A o \in Converted[h][pb][path] : Sound(h, pb, path, o)
<1> DEFINE T == {h \in Nat : \A pb \in Trees[h], path \in Paths :
                   \A o \in Converted[h][pb][path] : Sound(h, pb, path, o)}
<1>1. 0 \in T
  BY TreesAreDefined
<1>2. ASSUME NEW k \in Nat, k \in T PROVE k + 1 \in T
  <2> DEFINE h == k + 1
  <2>1. h \in Nat \ {0} /\ h - 1 = k
    OBVIOUS
  <2>2. ASSUME NEW pb \in Trees[k + 1], NEW path \in Paths, NEW o \in Converted[k + 1][pb][path]
        PROVE  Sound(k + 1, pb, path, o)
    <3> DEFINE new == Created(pb)
               kept == [reply |-> new, heap |-> FreedAt[h][new][path]]
               null == [reply |-> Null, heap |-> {}]
    <3>1. pb \in Trees[h] /\ o \in Converted[h][pb][path]
      OBVIOUS
    <3> HIDE DEF h
    <3>2. new \in Trees[h] /\ new.type = pb.type
      BY <2>1, <3>1, CreatedIsTree
    <3>3. kept.reply = new /\ kept.heap = FreedAt[h][new][path]
      OBVIOUS
    <3> HIDE DEF kept, new
    <3>4. pb.type \notin StringTypes \cup {"ARRAY"} => Unassigned(h, pb)
      BY <2>1, <3>1, UnassignedParts
    <3>5. Sound(h, pb, path, kept)
      <4>1. new = Null => pb.type = "nullptr"
        BY <3>2, NullsType
      <4> QED BY <3>2, <3>3, <3>4, <4>1 DEF Sound, StringTypes
    <3>6. Converted[h][pb][path] =
             IF pb.type \in StringTypes THEN {kept}
             ELSE IF IsArray(pb) THEN WithElements(pb, path, kept, FreedAt[h], Converted[k])
             ELSE {kept, null}
      <4> DEFINE below == Converted[k]
      <4>1. Converted[h] = ConvertedStep(below, h)
        BY <2>1, ConvertedIsDefined
      <4> HIDE DEF below
      <4>2. Converted[h][pb][path] =
              IF pb.type \in StringTypes THEN {kept}
              ELSE IF IsArray(pb) THEN WithElements(pb, path, kept, FreedAt[h], below)
              ELSE {kept, null}
        BY <3>1, <4>1 DEF ConvertedStep, kept, new
      <4> QED BY <4>2 DEF below
    <3>7. CASE ~IsArray(pb)
      <4>1. ASSUME o = null, pb.type \notin StringTypes PROVE Sound(h, pb, path, o)
        <5>1. Unassigned(h, pb)
          BY <3>4, <3>7, <4>1 DEF IsArray
        <5>2. o.reply = Null /\ o.heap = {}
          BY <4>1
        <5> QED BY <2>1, <5>1, <5>2, NullIsTree, NothingIsFreed DEF Sound
      <4> HIDE DEF null
      <4>2. o = kept \/ (o = null /\ pb.type \notin StringTypes)
        BY <3>1, <3>6, <3>7
      <4>3. Sound(h, pb, path, o)
        BY <3>5, <4>1, <4>2
      <4> QED BY <4>3 DEF h
    <3>8. CASE IsArray(pb)
      <4> DEFINE n == Len(pb.element)
      <4>1. PICK g :
              /\ \A j \in 0..n : g[j] = LoopPass(pb, path, kept, FreedAt[h], Converted[k], g[j - 1], j)
              /\ Converted[h][pb][path] = g[n]
        <5>1. n \in Nat
          BY <2>1, <3>1, TreeParts
        <5>2. Converted[h][pb][path] = WithElements(pb, path, kept, FreedAt[h], Converted[k])
          BY <3>6, <3>8 DEF IsArray, StringTypes
        <5> QED BY <5>1, <5>2, LoopIsDefined
      <4>2. n \in Nat /\ \A j \in 1..n : pb.element[j] \in Trees[k]
        BY <2>1, <3>1, TreeParts
      <4> DEFINE M == {j \in Nat : j <= n => \A sofar \in g[j] : LoopInv(h, pb, path, j, sofar)}
      <4>3. 0 \in M
        <5>1. g[0] = {kept}
          <6>1. 0 \in 0..n
            BY <4>2
          <6>2. g[0] = LoopPass(pb, path, kept, FreedAt[h], Converted[k], g[0 - 1], 0)
            BY <4>1, <6>1
          <6> QED BY <6>2 DEF LoopPass
        <5>2. new = Node(pb.type, NoText, 0, [j \in DOMAIN pb.element |-> Null])
          BY <3>8 DEF new, Created, StringTypes, IsArray
        <5>3. new.element = [j \in DOMAIN pb.element |-> Null]
          BY <5>2 DEF Node
        <5>4. DOMAIN pb.element = 1..n
          BY <2>1, <3>1, TreeParts
        <5> HIDE DEF n
        <5>5. Len(new.element) = n /\ \A i \in 1..n : new.element[i] = Null
          BY <4>2, <5>3, <5>4
        <5>6. \A i \in (0 + 1)..n : new.element[i] = Null
          BY <5>5
        <5>7. LoopInv(h, pb, path, 0, kept)
          BY <3>2, <3>3, <3>5, <3>8, <5>5, <5>6 DEF LoopInv, IsArray, n
        <5> QED BY <5>1, <5>7
      <4>4. ASSUME NEW j \in Nat, j \in M PROVE j + 1 \in M
        <5>1. SUFFICES ASSUME j + 1 <= n, NEW after \in g[j + 1]
                       PROVE  LoopInv(h, pb, path, j + 1, after)
          OBVIOUS
        <5>2. j + 1 \in 1..n /\ j + 1 \in 0..n /\ j <= n /\ (j + 1) - 1 = j /\ j + 1 # 0
          BY <4>2, <5>1
        <5>3. g[j + 1] = UNION {{WithElement(sofar, j + 1, e, FreedAt[h][sofar.reply][path])
                                 : e \in Converted[k][pb.element[j + 1]][Append(path, j + 1)]}
                                : sofar \in g[j]}
          BY <4>1, <5>2 DEF LoopPass
        <5>4. PICK sofar \in g[j], e \in Converted[k][pb.element[j + 1]][Append(path, j + 1)] :
                after = WithElement(sofar, j + 1, e, FreedAt[h][sofar.reply][path])
          BY <5>1, <5>3
        <5>5. LoopInv(h, pb, path, (j + 1) - 1, sofar)
          BY <4>4, <5>2, <5>4
        <5>6. Append(path, j + 1) \in Paths
          BY DEF Paths
        <5>7. Sound(h - 1, pb.element[j + 1], Append(path, j + 1), e)
          BY <1>2, <2>1, <4>2, <5>2, <5>4, <5>6
        <5> QED BY <2>1, <3>1, <5>2, <5>4, <5>5, <5>7, PassIsSound
      <4> HIDE DEF M
      <4>5. n \in M
        BY <4>2, <4>3, <4>4, NumberInduction
      <4>6. LoopInv(h, pb, path, n, o)
        BY <3>1, <4>1, <4>2, <4>5 DEF M
      <4> QED BY <4>6 DEF LoopInv, h
    <3> QED BY <3>7, <3>8
  <2> QED BY <2>2
<1> HIDE DEF T
<1>3. Nat \subseteq T
  BY <1>1, <1>2, NumberInduction
<1> QED BY <1>3 DEF T

\* A reply on its way from the proxy to the caller.
LEMMA AnswersAreSound ==
  ASSUME NEW r \in Replies, NEW o \in PbToReply(ReplyToPb(r))
  PROVE  /\ o.reply \in Replies
         /\ o.heap = Freed(o.reply)
         /\ o.reply = Null => HasUnassigned(r)
<1> DEFINE pb == Copied[Height][r]
<1>1. /\ Height \in Nat /\ r \in Trees[Height] /\ <<>> \in Paths
      /\ o \in Converted[Height][pb][<<>>]
  BY HeightAssumption DEF Replies, Paths, PbToReply, ReplyToPb
<1>2. pb \in Trees[Height] /\ (Unassigned(Height, pb) => Unassigned(Height, r))
  BY <1>1, MessagesAreTrees
<1> HIDE DEF pb
<1>3. Sound(Height, pb, <<>>, o)
  BY <1>1, <1>2, OutcomesAreSound
<1> QED BY <1>2, <1>3 DEF Sound, Replies, Freed, HasUnassigned, Unassigned

-----------------------------------------------------------------------------
(* The calls of a transaction. *)

LEMMA FormatsAreWords ==
  ASSUME NEW section \in Sections, NEW words \in section.formats
  PROVE  words \in Seq(Conversions \cup {"word"})
<1> DEFINE Token == Conversions \cup {"word"}
<1>1. W \in Token /\ B \in Token /\ I \in Token /\ S \in Token /\ F \in Token
  BY DEF W, B, I, S, F, Conversions
<1> HIDE DEF Token
<1>2. ServerFormats \subseteq Seq(Token)
  BY <1>1 DEF ServerFormats
<1>3. KeyFormats \subseteq Seq(Token)
  BY <1>1 DEF KeyFormats
<1>4. StringFormats \subseteq Seq(Token)
  BY <1>1 DEF StringFormats
<1>5. ListFormats \subseteq Seq(Token)
  BY <1>1 DEF ListFormats
<1>6. HashFormats \subseteq Seq(Token)
  BY <1>1 DEF HashFormats
<1>7. SetFormats \subseteq Seq(Token)
  BY <1>1 DEF SetFormats
<1>8. SortedSetFormats \subseteq Seq(Token)
  BY <1>1 DEF SortedSetFormats
<1>9. LogAndGeoFormats \subseteq Seq(Token)
  BY <1>1 DEF LogAndGeoFormats
<1>10. ScriptFormats \subseteq Seq(Token)
  BY <1>1 DEF ScriptFormats
<1>11. StreamFormats \subseteq Seq(Token)
  BY <1>1 DEF StreamFormats
<1>12. section.formats \in {ServerFormats, KeyFormats, StringFormats, ListFormats, HashFormats,
                            SetFormats, SortedSetFormats, LogAndGeoFormats, ScriptFormats,
                            StreamFormats}
  BY DEF Sections
<1>13. section.formats \subseteq Seq(Token)
  BY <1>2, <1>3, <1>4, <1>5, <1>6, <1>7, <1>8, <1>9, <1>10, <1>11, <1>12
<1> QED BY <1>13 DEF Token

\* Whoever holds the reply, it is a reply, and what is allocated is what
\* freeing it frees; before the answer and after the call there is none.
Owned ==
  /\ pc \in {"idle", "built", "waiting", "answered", "received", "rewritten", "done", "crashed"}
  /\ held \in Replies
  /\ pc = "answered" => reply_ \in Replies /\ held = Null /\ heap = Freed(reply_)
  /\ pc \in {"received", "rewritten"} => heap = Freed(held)
  /\ pc \in {"idle", "built", "waiting", "done", "crashed"} => held = Null /\ heap = {}
  /\ ~twice

\* A reply that is missing was dropped for an unassigned variable.
DroppedNeedsUnassigned ==
  pc = "crashed" \/ (pc = "answered" /\ reply_ = Null) =>
    answer.whose # "none" /\ HasUnassigned(answer.reply)

CallInv == CommandIsExact /\ Owned /\ DroppedNeedsUnassigned

LEMMA NothingFreed == Null \in Replies /\ Freed(Null) = {}
<1>1. <<>> \in Paths
  BY DEF Paths
<1> QED BY <1>1, HeightAssumption, NullIsTree, NothingIsFreed DEF Replies, Freed

LEMMA CallInit == Init => CallInv
BY NothingFreed DEF Init, CallInv, CommandIsExact, Owned, DroppedNeedsUnassigned

LEMMA FormatKeeps ==
  ASSUME CallInv, NEW section \in Sections, NEW words \in section.formats, Format(words)
  PROVE  CallInv'
<1> USE DEF CallInv
<1> DEFINE n == Taken(words, Len(words))
<1>1. words \in Seq(Conversions \cup {"word"}) /\ Len(words) \in Nat
  <2>1. words \in Seq(Conversions \cup {"word"})
    BY FormatsAreWords
  <2> QED BY <2>1
<1>2. n \in Nat
  BY <1>1, TakenIsDefined
<1>3. PICK lens \in [1..n -> Lengths] :
        LET args == [j \in DOMAIN lens |-> [of |-> j, len |-> lens[j]]]
        IN  /\ call' = [NoCall EXCEPT !.words = words, !.args = args]
            /\ built' = FormatCommand(Spaced(words), args)
  BY DEF Format
<1> DEFINE args == [j \in 1..n |-> [of |-> j, len |-> lens[j]]]
<1>4. /\ call' = [NoCall EXCEPT !.words = words, !.args = args]
      /\ built' = FormatCommand(Spaced(words), args)
  BY <1>3
<1>5. args \in Seq([of : Nat, len : Nat]) /\ Len(args) = n
  <2> HIDE DEF n
  <2>1. \A j \in 1..n : lens[j] \in Nat
    BY <1>3, LengthsAssumption
  <2>2. args \in [1..n -> [of : Nat, len : Nat]]
    BY <1>2, <2>1
  <2> QED BY <1>2, <2>2
<1> HIDE DEF args
<1>6. Exact(built', words, args)
  BY <1>1, <1>4, <1>5, CommandsAreExact
<1>7. call'.words = words /\ call'.args = args
  BY <1>4 DEF NoCall
<1>8. CommandIsExact'
  BY <1>6, <1>7 DEF CommandIsExact
<1>9. pc = "idle" /\ pc' = "built" /\ UNCHANGED <<answer, reply_, held, heap, twice, result>>
  BY DEF Format, Begin
<1>10. Owned' /\ DroppedNeedsUnassigned'
  BY <1>9 DEF Owned, DroppedNeedsUnassigned
<1> QED BY <1>8, <1>10

LEMMA SendKeeps ==
  ASSUME CallInv, NEW section, NEW wants, SendFormatted(section, wants) \/ SendArgv(wants)
  PROVE  CallInv'
<1> USE DEF CallInv
<1>1. CASE SendFormatted(section, wants)
  <2>1. ~built.err
    BY <1>1 DEF SendFormatted, CommandIsExact, Exact
  <2> QED BY <1>1, <2>1 DEF SendFormatted, CommandIsExact, Owned, DroppedNeedsUnassigned
<1>2. CASE SendArgv(wants)
  BY <1>2 DEF SendArgv, Begin, CommandIsExact, Owned, DroppedNeedsUnassigned
<1> QED BY <1>1, <1>2

LEMMA NoReplyIsReply == NoReply \in Replies
<1>1. "none" \in ReplyTypes /\ NoText \in Strings /\ 0 \in Int /\ <<>> \in Seq(Trees[Height - 1])
  BY DEF ReplyTypes, Strings
<1> QED BY <1>1, HeightAssumption, NodeIsTree DEF NoReply, Replies

LEMMA ReturnedIsReply == \A r \in Replies : Returned(r) \in Replies
BY NoReplyIsReply DEF Returned

LEMMA AnswerKeeps ==
  ASSUME CallInv, NEW whose \in {"own", "other"}, NEW m, Answer(whose, m)
  PROVE  CallInv'
<1> USE DEF CallInv
<1>1. PICK o \in PbToReply(ReplyToPb(Returned(m.reply))) :
        reply_' = o.reply /\ heap' = heap \cup o.heap
  BY DEF Answer
<1>2. Returned(m.reply) \in Replies
  BY ReturnedIsReply DEF Answer
<1>3. /\ o.reply \in Replies /\ o.heap = Freed(o.reply)
      /\ o.reply = Null => HasUnassigned(Returned(m.reply))
  BY <1>1, <1>2, AnswersAreSound
<1>4. /\ pc = "waiting" /\ pc' = "answered" /\ UNCHANGED <<held, twice>>
      /\ answer'.whose = whose /\ answer'.reply = Returned(m.reply)
  BY DEF Answer
<1>5. Owned'
  BY <1>1, <1>3, <1>4 DEF Owned
<1>6. DroppedNeedsUnassigned'
  BY <1>1, <1>3, <1>4 DEF DroppedNeedsUnassigned
<1>7. CommandIsExact'
  BY <1>4 DEF CommandIsExact
<1> QED BY <1>5, <1>6, <1>7

LEMMA RecvKeeps == CallInv /\ Recv => CallInv'
<1> SUFFICES ASSUME CallInv, Recv PROVE CallInv'
  OBVIOUS
<1>1. Unset \notin Replies
  <2>1. Unset.type = "uninitialised"
    BY DEF Unset, Node
  <2>2. \A r \in Replies : r.type \in ReplyTypes
    BY HeightAssumption, TreeParts DEF Replies
  <2> QED BY <2>1, <2>2 DEF ReplyTypes, StringTypes
<1>2. /\ pc = "answered" /\ held' = reply_ /\ UNCHANGED <<answer, heap, twice>>
      /\ pc' = IF reply_ \in {Null, Unset} THEN "crashed" ELSE "received"
  BY DEF Recv
<1>3. Owned'
  BY <1>1, <1>2, NothingFreed DEF CallInv, Owned
<1>4. DroppedNeedsUnassigned'
  BY <1>1, <1>2 DEF CallInv, Owned, DroppedNeedsUnassigned
<1>5. CommandIsExact'
  BY <1>2 DEF CommandIsExact
<1> QED BY <1>3, <1>4, <1>5 DEF CallInv

LEMMA FreedOfLeafAt ==
  ASSUME NEW h \in Nat, NEW r \in Trees[h], ~IsArray(r) \/ r.element = <<>>, r.type # "nullptr",
         NEW path \in Paths
  PROVE  FreedAt[h][r][path] = {<<path, "node">>} \cup StringFreed(r, path)
<1>1. r # Null
  BY NullsType
<1>2. FreedAt[h][r][path] =
        {<<path, "node">>} \cup StringFreed(r, path) \cup ElementsFreed(h, r, path)
  BY <1>1, FreedParts
<1>3. ElementsFreed(h, r, path) = {}
  BY DEF ElementsFreed
<1> QED BY <1>2, <1>3

LEMMA FreedOfLeaf ==
  ASSUME NEW r \in Replies, ~IsArray(r) \/ r.element = <<>>, r.type # "nullptr"
  PROVE  Freed(r) = {<<<<>>, "node">>} \cup StringFreed(r, <<>>)
<1>1. <<>> \in Paths /\ Height \in Nat /\ r \in Trees[Height]
  BY HeightAssumption DEF Paths, Replies
<1> QED BY <1>1, FreedOfLeafAt DEF Freed

LEMMA ReplyParts ==
  ASSUME NEW r \in Replies
  PROVE  r \in [type : ReplyTypes, str : Strings, integer : Int, element : Seq(Trees[Height - 1])]
BY HeightAssumption, TreeParts DEF Replies

\* A rewritten reply of another type keeps its string and its elements.
LEMMA RetypedIsReply ==
  ASSUME NEW r \in Replies, NEW type \in ReplyTypes, NEW integer \in Int
  PROVE  /\ Node(type, r.str, integer, r.element) \in Replies
         /\ Node(type, r.str, integer, r.element).type = type
<1>1. r.str \in Strings /\ r.element \in Seq(Trees[Height - 1])
  BY ReplyParts
<1> QED BY <1>1, HeightAssumption, NodeIsTree DEF Replies

LEMMA RewriteKeeps == CallInv /\ Rewrite => CallInv'
<1> SUFFICES ASSUME CallInv, Rewrite PROVE CallInv'
  OBVIOUS
<1>1. /\ pc = "received" /\ pc' = "rewritten"
      /\ held \in Replies /\ heap = Freed(held) /\ ~twice
  BY DEF CallInv, Owned, Rewrite
<1>2. "INTEGER" \in ReplyTypes /\ "NIL" \in ReplyTypes /\ 0 \in Int /\ 1 \in Int
  BY DEF ReplyTypes
<1> DEFINE node == <<<<>>, "node">>
           str == <<<<>>, "str">>
<1>3. ASSUME NEW type \in {"INTEGER", "NIL"}, NEW integer \in Int
      PROVE  LET r == Node(type, held.str, integer, held.element)
             IN  r \in Replies /\ Freed(r) = {node}
  <2> DEFINE r == Node(type, held.str, integer, held.element)
  <2>1. r \in Replies /\ r.type = type
    BY <1>1, <1>2, RetypedIsReply
  <2>2. ~IsArray(r) /\ r.type # "nullptr" /\ r.type \notin StringTypes
    BY <2>1 DEF IsArray, StringTypes
  <2> HIDE DEF r
  <2>3. r \in Replies /\ Freed(r) = {node}
    BY <2>1, <2>2, FreedOfLeaf DEF StringFreed
  <2> QED BY <2>3 DEF r
<1>4. held' \in Replies /\ heap' = Freed(held') /\ ~twice'
  <2>1. CASE call.wants.how = "set" /\ IsNil(held)
    <3>1. ParseVoid(held) # Unit
      BY <2>1 DEF ParseVoid, IsNil, Thrown, Unit, Value
    <3>2. held' = Node("INTEGER", held.str, 0, held.element)
      BY <2>1, <3>1 DEF Rewrite, RewriteSet
    <3>3. heap' = heap \ {} /\ twice' = (twice \/ ~({} \subseteq heap))
      BY <2>1, <3>1 DEF Rewrite, Free
    <3>4. ~IsArray(held) /\ held.type # "nullptr" /\ held.type \notin StringTypes
      BY <2>1 DEF IsNil, IsArray, StringTypes
    <3>5. Freed(held) = {node}
      BY <1>1, <3>4, FreedOfLeaf DEF StringFreed
    <3> QED BY <1>1, <1>2, <1>3, <3>2, <3>3, <3>5
  <2>2. CASE call.wants.how = "set" /\ ParseVoid(held) = Unit
    <3>1. held.type = "STATUS"
      BY <2>2 DEF ParseVoid, Thrown, Unit, Value
    <3>2. held' = Node("INTEGER", held.str, 1, held.element)
      BY <2>2, <3>1 DEF Rewrite, RewriteSet, IsNil
    <3>3. heap' = heap \ {str} /\ twice' = (twice \/ ~({str} \subseteq heap))
      BY <2>2 DEF Rewrite, Free
    <3>4. ~IsArray(held) /\ held.type # "nullptr" /\ held.type \in StringTypes
      BY <3>1 DEF IsArray, StringTypes
    <3>5. Freed(held) = {node, str}
      BY <1>1, <3>4, FreedOfLeaf DEF StringFreed
    <3>6. node # str
      OBVIOUS
    <3> HIDE DEF node, str
    <3>7. heap' = {node} /\ ~twice'
      BY <1>1, <3>3, <3>5, <3>6
    <3> QED BY <1>2, <1>3, <3>2, <3>7
  <2>3. CASE call.wants.how = "set" /\ ~IsNil(held) /\ ParseVoid(held) # Unit
    <3>1. held' = held /\ heap' = heap \ {} /\ twice' = (twice \/ ~({} \subseteq heap))
      BY <2>3 DEF Rewrite, RewriteSet, Free
    <3> QED BY <1>1, <3>1
  <2>4. CASE call.wants.how # "set" /\ IsArray(held) /\ held.element = <<>>
    <3>1. held' = [held EXCEPT !.type = "NIL"] /\ heap' = heap /\ twice' = twice
      BY <2>4 DEF Rewrite, RewriteGeoradius
    <3>2. held' = Node("NIL", held.str, held.integer, held.element) /\ held.integer \in Int
      BY <1>1, <3>1, ReplyParts DEF Node
    <3>3. held.type # "nullptr" /\ held.type \notin StringTypes
      BY <2>4 DEF IsArray, StringTypes
    <3>4. Freed(held) = {node}
      BY <1>1, <2>4, <3>3, FreedOfLeaf DEF StringFreed
    <3> QED BY <1>1, <1>3, <3>1, <3>2, <3>4
  <2>5. CASE call.wants.how # "set" /\ ~(IsArray(held) /\ held.element = <<>>)
    <3>1. held' = held /\ heap' = heap /\ twice' = twice
      BY <2>5 DEF Rewrite, RewriteGeoradius
    <3> QED BY <1>1, <3>1
  <2> QED BY <2>1, <2>2, <2>3, <2>4, <2>5
<1>5. Owned'
  BY <1>1, <1>4 DEF Owned
<1>6. CommandIsExact' /\ DroppedNeedsUnassigned'
  BY <1>1 DEF CommandIsExact, DroppedNeedsUnassigned
<1> QED BY <1>5, <1>6 DEF CallInv

LEMMA EndKeeps == CallInv /\ (AnswerTimesOut \/ Return \/ GoOn) => CallInv'
<1> SUFFICES ASSUME CallInv, AnswerTimesOut \/ Return \/ GoOn PROVE CallInv'
  OBVIOUS
<1> USE DEF CallInv
<1>1. CASE AnswerTimesOut
  BY <1>1 DEF AnswerTimesOut, CommandIsExact, Owned, DroppedNeedsUnassigned
<1>2. CASE Return
  <2>1. pc \in {"received", "rewritten"} /\ pc' = "done" /\ held' = Null
    BY <1>2 DEF Return
  <2>2. heap' = heap \ Freed(held) /\ twice' = (twice \/ ~(Freed(held) \subseteq heap))
    BY <1>2 DEF Return, Free
  <2>3. heap' = {} /\ ~twice'
    BY <2>1, <2>2 DEF Owned
  <2> QED BY <2>1, <2>3, NothingFreed DEF CommandIsExact, Owned, DroppedNeedsUnassigned
<1>3. CASE GoOn
  BY <1>3 DEF GoOn, CommandIsExact, Owned, DroppedNeedsUnassigned
<1> QED BY <1>1, <1>2, <1>3

LEMMA StepKeeps == CallInv /\ [Next]_vars => CallInv'
<1> SUFFICES ASSUME CallInv, [Next]_vars PROVE CallInv'
  OBVIOUS
<1>1. ASSUME NEW section \in Sections, NEW words \in section.formats, Format(words) PROVE CallInv'
  BY <1>1, FormatKeeps
<1>2. ASSUME NEW section \in Sections, NEW wants \in section.results,
             SendFormatted(section, wants) \/ SendArgv(wants)
      PROVE  CallInv'
  BY <1>2, SendKeeps
<1>3. ASSUME NEW m, Answer("own", m) \/ Answer("other", m) PROVE CallInv'
  BY <1>3, AnswerKeeps
<1>4. CASE UNCHANGED vars
  BY <1>4 DEF vars, CallInv, CommandIsExact, Owned, DroppedNeedsUnassigned
<1> QED BY <1>1, <1>2, <1>3, <1>4, RecvKeeps, RewriteKeeps, EndKeeps DEF Next

\* The invariant of a transaction's calls of Redis().
THEOREM CallInvariance == Spec => []CallInv
<1>1. Init => CallInv
  BY CallInit
<1>2. CallInv /\ [Next]_vars => CallInv'
  BY StepKeeps
<1> QED BY <1>1, <1>2, PTL DEF Spec

\* Every command a transaction sends by a format has one argument per word of the
\* format, whatever the lengths, and redisvFormatCommand's assert(pos == totlen) holds.
THEOREM CommandsStayExact == Spec => []CommandIsExact
<1>1. CallInv => CommandIsExact
  BY DEF CallInv
<1> QED BY <1>1, CallInvariance, PTL

\* A method of Redis dereferences no reply at all only when PbToReply took an
\* unassigned variable for a failure.
THEOREM CrashesNeedUnassigned == Spec => []CrashNeedsUnassigned
<1>1. CallInv => CrashNeedsUnassigned
  BY DEF CallInv, DroppedNeedsUnassigned, CrashNeedsUnassigned
<1> QED BY <1>1, CallInvariance, PTL

\* Replies of any height and width are freed whole and once, by PbToReply when it
\* drops one, by the rewriters and by the methods' ends and exceptions.
THEOREM RepliesStayFreedOnce == Spec => []RepliesAreFreedOnce
<1>1. CallInv => RepliesAreFreedOnce
  BY DEF CallInv, Owned, RepliesAreFreedOnce
<1> QED BY <1>1, CallInvariance, PTL

LEMMA TypesIsDefined == \A n \in Nat : Types[n] = TypesStep(Types[n - 1], n)
<1> DEFINE what == <<"Types">>
           Is(f) == f = [n \in Nat |-> TypesStep(f[n - 1], n)]
<1>1. ASSUME NEW below, NEW n PROVE Level(what, below, n) = TypesStep(below, n)
  BY DEF Level
<1>2. LowestLevel(what)
  <2>1. \A a, b : TypesStep(a, 0) = TypesStep(b, 0)
    BY DEF TypesStep
  <2> HIDE DEF what
  <2> QED BY <1>1, <2>1 DEF LowestLevel
<1>3. \E f : Is(f)
  <2>1. PICK f : Levels(what, Nat, f)
    BY <1>2, LevelsAreDefined
  <2> HIDE DEF what
  <2>2. Is(f)
    BY <1>1, <2>1 DEF Levels
  <2> QED BY <2>2
<1>4. Types = CHOOSE f : Is(f)
  BY DEF Types, TypesStep
<1>5. Is(Types)
  <2> HIDE DEF Is
  <2> QED BY <1>3, <1>4
<1> QED BY <1>5

LEMMA TypeParts ==
  ASSUME NEW n \in Nat, NEW T \in Types[n]
  PROVE  /\ n # 0 /\ n - 1 \in Nat
         /\ T \in [k : Kinds, of : Seq(Types[n - 1])] /\ WellFormed(T)
         /\ T.of \in Seq(Types[n - 1])
         /\ DOMAIN T.of = 1..Len(T.of) /\ Len(T.of) \in Nat
         /\ \A j \in 1..Len(T.of) : T.of[j] \in Types[n - 1]
<1>1. Types[n] = TypesStep(Types[n - 1], n)
  BY TypesIsDefined
<1>2. n # 0 /\ n - 1 \in Nat
  BY <1>1 DEF TypesStep
<1>3. T \in [k : Kinds, of : Seq(Types[n - 1])] /\ WellFormed(T)
  BY <1>1, <1>2 DEF TypesStep
<1>4. T.of \in Seq(Types[n - 1])
  BY <1>3
<1> QED BY <1>2, <1>3, <1>4

LEMMA ParseAtIsDefined == \A n \in Nat : ParseAt[n] = ParseStep(ParseAt[n - 1], n)
<1> DEFINE what == <<"ParseAt">>
           Is(f) == f = [n \in Nat |-> ParseStep(f[n - 1], n)]
<1>1. ASSUME NEW below, NEW n PROVE Level(what, below, n) = ParseStep(below, n)
  BY DEF Level
<1>2. LowestLevel(what)
  <2>1. \A a, b : ParseStep(a, 0) = ParseStep(b, 0)
    BY TypesIsDefined, TypeParts DEF ParseStep
  <2> HIDE DEF what
  <2> QED BY <1>1, <2>1 DEF LowestLevel
<1>3. \E f : Is(f)
  <2>1. PICK f : Levels(what, Nat, f)
    BY <1>2, LevelsAreDefined
  <2> HIDE DEF what
  <2>2. Is(f)
    BY <1>1, <2>1 DEF Levels
  <2> QED BY <2>2
<1>4. ParseAt = CHOOSE f : Is(f)
  BY DEF ParseAt, ParseStep
<1>5. Is(ParseAt)
  <2> HIDE DEF Is
  <2> QED BY <1>3, <1>4
<1> QED BY <1>5

LEMMA EncodingsAtIsDefined == \A n \in Nat : EncodingsAt[n] = EncodingsStep(EncodingsAt[n - 1], n)
<1> DEFINE what == <<"EncodingsAt">>
           Is(f) == f = [n \in Nat |-> EncodingsStep(f[n - 1], n)]
<1>1. ASSUME NEW below, NEW n PROVE Level(what, below, n) = EncodingsStep(below, n)
  BY DEF Level
<1>2. LowestLevel(what)
  <2>1. \A a, b : EncodingsStep(a, 0) = EncodingsStep(b, 0)
    BY TypesIsDefined, TypeParts DEF EncodingsStep
  <2> HIDE DEF what
  <2> QED BY <1>1, <2>1 DEF LowestLevel
<1>3. \E f : Is(f)
  <2>1. PICK f : Levels(what, Nat, f)
    BY <1>2, LevelsAreDefined
  <2> HIDE DEF what
  <2>2. Is(f)
    BY <1>1, <2>1 DEF Levels
  <2> QED BY <2>2
<1>4. EncodingsAt = CHOOSE f : Is(f)
  BY DEF EncodingsAt, EncodingsStep
<1>5. Is(EncodingsAt)
  <2> HIDE DEF Is
  <2> QED BY <1>3, <1>4
<1> QED BY <1>5

LEMMA SeqGrows ==
  ASSUME NEW A, NEW D, A \subseteq D, NEW s \in Seq(A) PROVE s \in Seq(D)
<1>1. Len(s) \in Nat /\ s \in [1..Len(s) -> A]
  OBVIOUS
<1>2. s \in [1..Len(s) -> D]
  BY <1>1
<1> QED BY <1>1, <1>2

\* A reply of a height is one of every greater height, a type of a rank of every
\* greater rank.
LEMMA TreesGrow == \A h \in Nat : Trees[h] \subseteq Trees[h + 1]
<1> DEFINE M == {h \in Nat : Trees[h] \subseteq Trees[h + 1]}
<1>1. 0 \in M
  BY TreesAreDefined
<1>2. ASSUME NEW k \in Nat, k \in M PROVE k + 1 \in M
  <2> DEFINE h == k + 1
             up == h + 1
  <2>1. /\ h \in Nat \ {0} /\ h - 1 = k /\ up \in Nat \ {0} /\ up - 1 = h
        /\ Trees[k] \subseteq Trees[h]
    BY <1>2
  <2> HIDE DEF h, up
  <2>2. ASSUME NEW r \in Trees[h] PROVE r \in Trees[up]
    <3>1. r \in [type : ReplyTypes, str : Strings, integer : Int, element : Seq(Trees[k])]
      BY <2>1, TreesAreDefined
    <3>2. r.element \in Seq(Trees[h])
      BY <2>1, <3>1, SeqGrows
    <3>3. r \in [type : ReplyTypes, str : Strings, integer : Int, element : Seq(Trees[h])]
      BY <3>1, <3>2
    <3> QED BY <2>1, <3>3, TreesAreDefined
  <2> QED BY <2>1, <2>2 DEF h, up
<1> HIDE DEF M
<1>3. Nat \subseteq M
  BY <1>1, <1>2, NumberInduction
<1> QED BY <1>3 DEF M

LEMMA TypesGrow == \A n \in Nat : Types[n] \subseteq Types[n + 1]
<1> DEFINE M == {n \in Nat : Types[n] \subseteq Types[n + 1]}
<1>1. 0 \in M
  BY TypeParts
<1>2. ASSUME NEW k \in Nat, k \in M PROVE k + 1 \in M
  <2> DEFINE n == k + 1
             up == n + 1
  <2>1. /\ n \in Nat \ {0} /\ n - 1 = k /\ up \in Nat \ {0} /\ up - 1 = n
        /\ Types[k] \subseteq Types[n]
    BY <1>2
  <2> HIDE DEF n, up
  <2>2. ASSUME NEW T \in Types[n] PROVE T \in Types[up]
    <3>1. T \in [k : Kinds, of : Seq(Types[k])] /\ WellFormed(T)
      BY <2>1, TypeParts
    <3>2. T.of \in Seq(Types[n])
      BY <2>1, <3>1, SeqGrows
    <3>3. T \in [k : Kinds, of : Seq(Types[n])]
      BY <3>1, <3>2
    <3>4. Types[up] = TypesStep(Types[n], up)
      BY <2>1, TypesIsDefined
    <3> QED BY <2>1, <3>1, <3>3, <3>4 DEF TypesStep
  <2> QED BY <2>1, <2>2 DEF n, up
<1> HIDE DEF M
<1>3. Nat \subseteq M
  BY <1>1, <1>2, NumberInduction
<1> QED BY <1>3 DEF M

LEMMA ElementsAreReplies ==
  ASSUME NEW r \in Replies
  PROVE  /\ DOMAIN r.element = 1..Len(r.element) /\ Len(r.element) \in Nat
         /\ r.element \in Seq(Replies)
         /\ \A j \in 1..Len(r.element) : r.element[j] \in Trees[Height - 1] /\ r.element[j] \in Replies
<1> DEFINE k == Height - 1
<1>1. /\ k \in Nat /\ k + 1 = Height /\ r.element \in Seq(Trees[k])
      /\ DOMAIN r.element = 1..Len(r.element) /\ Len(r.element) \in Nat
      /\ \A j \in 1..Len(r.element) : r.element[j] \in Trees[k]
  BY HeightAssumption, TreeParts DEF Replies
<1> HIDE DEF k
<1>2. Trees[k] \subseteq Replies
  BY <1>1, TreesGrow DEF Replies
<1>3. r.element \in Seq(Replies)
  BY <1>1, <1>2, SeqGrows
<1> QED BY <1>1, <1>2, <1>3 DEF k

LEMMA ParseParts ==
  ASSUME NEW n \in Nat, NEW T \in Types[n], NEW r \in Replies
  PROVE  ParseAt[n][T][r] = ParseAs(ParseAt[n - 1], T, r)
<1> DEFINE below == ParseAt[n - 1]
<1>1. ParseAt[n] = ParseStep(below, n)
  BY ParseAtIsDefined
<1> HIDE DEF below
<1>2. ParseAt[n][T][r] = ParseAs(below, T, r)
  BY <1>1 DEF ParseStep
<1> QED BY <1>2 DEF below

LEMMA EncodingParts ==
  ASSUME NEW n \in Nat, NEW T \in Types[n], NEW max \in Int
  PROVE  EncodingsAt[n][T][max] = EncodingsAs(EncodingsAt[n - 1], T, max)
<1> DEFINE below == EncodingsAt[n - 1]
<1>1. EncodingsAt[n] = EncodingsStep(below, n)
  BY EncodingsAtIsDefined
<1> HIDE DEF below
<1>2. EncodingsAt[n][T][max] = EncodingsAs(below, T, max)
  BY <1>1 DEF EncodingsStep
<1> QED BY <1>2 DEF below

-----------------------------------------------------------------------------
(* What comes through both conversions is unchanged, if it comes through.    *)

LEMMA CopiedParts ==
  ASSUME NEW h \in Nat, NEW r \in Trees[h]
  PROVE  Copied[h][r] =
           [r EXCEPT !.element = IF IsArray(r) THEN [j \in DOMAIN r.element |-> Copied[h - 1][r.element[j]]]
                                 ELSE <<>>]
<1> DEFINE below == Copied[h - 1]
<1>1. Copied[h] = CopiedStep(below, h)
  BY CopiedIsDefined
<1> HIDE DEF below
<1>2. Copied[h][r] = [r EXCEPT !.element = IF IsArray(r) THEN [j \in DOMAIN r.element |-> below[r.element[j]]]
                                           ELSE <<>>]
  BY <1>1 DEF CopiedStep
<1> QED BY <1>2 DEF below

Kept(h, pb, path) == [reply |-> Created(pb), heap |-> FreedAt[h][Created(pb)][path]]

LEMMA ConvertedParts ==
  ASSUME NEW h \in Nat, NEW pb \in Trees[h], NEW path \in Paths
  PROVE  Converted[h][pb][path] =
           IF pb.type \in StringTypes THEN {Kept(h, pb, path)}
           ELSE IF IsArray(pb)
                THEN WithElements(pb, path, Kept(h, pb, path), FreedAt[h], Converted[h - 1])
           ELSE {Kept(h, pb, path), [reply |-> Null, heap |-> {}]}
<1> DEFINE below == Converted[h - 1]
<1>1. Converted[h] = ConvertedStep(below, h)
  BY ConvertedIsDefined
<1> HIDE DEF below
<1>2. Converted[h][pb][path] =
        IF pb.type \in StringTypes THEN {Kept(h, pb, path)}
        ELSE IF IsArray(pb) THEN WithElements(pb, path, Kept(h, pb, path), FreedAt[h], below)
        ELSE {Kept(h, pb, path), [reply |-> Null, heap |-> {}]}
  BY <1>1 DEF ConvertedStep, Kept
<1> QED BY <1>2 DEF below

\* A reply of the proxy either arrives as it was or not at all.
Survives(h, r) ==
  \A path \in Paths : \A o \in Converted[h][Copied[h][r]][path] : o.reply \in {Null, r}

LEMMA LeafSurvives ==
  ASSUME NEW h \in Nat, NEW r \in Trees[h], ~IsArray(r), r.element = <<>>, Created(r) = r
  PROVE  Survives(h, r)
<1>1. r \in [type : ReplyTypes, str : Strings, integer : Int, element : Seq(Trees[h - 1])]
  BY TreeParts
<1>2. Copied[h][r] = [r EXCEPT !.element = <<>>]
  BY CopiedParts
<1>3. Copied[h][r] = r
  BY <1>1, <1>2
<1>4. ASSUME NEW path \in Paths, NEW o \in Converted[h][r][path] PROVE o.reply \in {Null, r}
  <2> DEFINE null == [reply |-> Null, heap |-> {}]
  <2>1. Converted[h][r][path] = IF r.type \in StringTypes THEN {Kept(h, r, path)}
                                ELSE {Kept(h, r, path), null}
    BY ConvertedParts
  <2>2. Kept(h, r, path).reply = r
    BY DEF Kept
  <2>3. null.reply = Null
    OBVIOUS
  <2> HIDE DEF null
  <2> QED BY <1>4, <2>1, <2>2, <2>3
<1> QED BY <1>3, <1>4 DEF Survives

\* What the loop over the elements has come to after j of them.
Built(e, j) == Node("ARRAY", NoText, 0, [i \in DOMAIN e |-> IF i <= j THEN e[i] ELSE Null])

LEMMA ArraySurvives ==
  ASSUME NEW h \in Nat, NEW e, ArrayNode(e) \in Trees[h],
         \A j \in DOMAIN e : Survives(h - 1, e[j])
  PROVE  Survives(h, ArrayNode(e))
<1> DEFINE r == ArrayNode(e)
           n == Len(e)
           pb == Copied[h][r]
<1>1. r.type = "ARRAY" /\ r.element = e /\ r.str = NoText /\ r.integer = 0 /\ IsArray(r)
  BY DEF ArrayNode, Node, IsArray
<1> HIDE DEF r
<1>2. /\ h - 1 \in Nat /\ DOMAIN e = 1..n /\ n \in Nat /\ e \in Seq(Trees[h - 1])
      /\ r \in [type : ReplyTypes, str : Strings, integer : Int, element : Seq(Trees[h - 1])]
      /\ \A j \in 1..n : e[j] \in Trees[h - 1]
  BY <1>1, TreeParts DEF r
<1> HIDE DEF n
<1>3. pb \in Trees[h]
  BY MessagesAreTrees DEF r
<1>4. pb = [r EXCEPT !.element = [j \in 1..n |-> Copied[h - 1][e[j]]]]
  <2>1. pb = [r EXCEPT !.element = IF IsArray(r) THEN [j \in DOMAIN r.element |-> Copied[h - 1][r.element[j]]]
                                   ELSE <<>>]
    BY CopiedParts DEF r
  <2> HIDE DEF pb
  <2> QED BY <1>1, <1>2, <2>1
<1> HIDE DEF pb
<1>5. /\ pb.type = "ARRAY" /\ DOMAIN pb.element = 1..n /\ Len(pb.element) = n
      /\ \A j \in 1..n : pb.element[j] = Copied[h - 1][e[j]]
  <2>1. pb.type = "ARRAY" /\ pb.element = [j \in 1..n |-> Copied[h - 1][e[j]]]
    BY <1>1, <1>2, <1>4
  <2> QED BY <1>2, <2>1
<1>6. Created(pb) = Built(e, 0)
  <2>1. Created(pb) = Node("ARRAY", NoText, 0, [j \in DOMAIN pb.element |-> Null])
    BY <1>5 DEF Created, StringTypes
  <2>2. \A i \in 1..n : ~(i <= 0)
    BY <1>2
  <2>3. [j \in DOMAIN pb.element |-> Null] = [i \in DOMAIN e |-> IF i <= 0 THEN e[i] ELSE Null]
    BY <1>2, <1>5, <2>2
  <2> QED BY <2>1, <2>3 DEF Built
<1>7. Built(e, n) = r
  <2>1. [i \in DOMAIN e |-> IF i <= n THEN e[i] ELSE Null] = e
    BY <1>2
  <2> QED BY <2>1 DEF Built, r, ArrayNode
<1>8. ASSUME NEW j \in 1..n, NEW sofar, sofar.reply \in {Null, Built(e, j - 1)},
             NEW o, o.reply \in {Null, e[j]}, NEW freed
      PROVE  WithElement(sofar, j, o, freed).reply \in {Null, Built(e, j)}
  <2>1. CASE sofar.reply = Null \/ o.reply = Null
    BY <2>1 DEF WithElement
  <2>2. CASE sofar.reply # Null /\ o.reply # Null
    <3>1. WithElement(sofar, j, o, freed).reply = [Built(e, j - 1) EXCEPT !.element[j] = e[j]]
      BY <1>8, <2>2 DEF WithElement
    <3> DEFINE old == [i \in DOMAIN e |-> IF i <= j - 1 THEN e[i] ELSE Null]
               new == [i \in DOMAIN e |-> IF i <= j THEN e[i] ELSE Null]
    <3>2. [old EXCEPT ![j] = e[j]] = new
      <4>1. \A i \in 1..n : i # j => (i <= j - 1 <=> i <= j)
        BY <1>2
      <4>2. \A i \in DOMAIN e : [old EXCEPT ![j] = e[j]][i] = new[i]
        BY <1>2, <4>1
      <4> QED BY <4>2
    <3> HIDE DEF old, new
    <3>3. [Node("ARRAY", NoText, 0, old) EXCEPT !.element[j] = e[j]]
            = Node("ARRAY", NoText, 0, [old EXCEPT ![j] = e[j]])
      BY DEF Node
    <3> QED BY <3>1, <3>2, <3>3 DEF Built, old, new
  <2> QED BY <2>1, <2>2
<1>9. ASSUME NEW path \in Paths, NEW o \in Converted[h][pb][path] PROVE o.reply \in {Null, r}
  <2> DEFINE kept == Kept(h, pb, path)
  <2>1. kept.reply = Built(e, 0)
    BY <1>6 DEF Kept
  <2>2. Converted[h][pb][path] = WithElements(pb, path, kept, FreedAt[h], Converted[h - 1])
    BY <1>3, <1>5, ConvertedParts DEF StringTypes, IsArray
  <2> HIDE DEF kept
  <2>3. PICK g :
          /\ \A j \in 0..n : g[j] = LoopPass(pb, path, kept, FreedAt[h], Converted[h - 1], g[j - 1], j)
          /\ Converted[h][pb][path] = g[n]
    <3>1. Len(pb.element) = n /\ n \in Nat
      BY <1>2, <1>5
    <3>2. \E g : /\ \A j \in 0..Len(pb.element) :
                       g[j] = LoopPass(pb, path, kept, FreedAt[h], Converted[h - 1], g[j - 1], j)
                 /\ WithElements(pb, path, kept, FreedAt[h], Converted[h - 1]) = g[Len(pb.element)]
      <4> DEFINE freed == FreedAt[h]
                 outcomes == Converted[h - 1]
      <4> HIDE DEF freed, outcomes
      <4>1. \E g : /\ \A j \in 0..Len(pb.element) :
                         g[j] = LoopPass(pb, path, kept, freed, outcomes, g[j - 1], j)
                   /\ WithElements(pb, path, kept, freed, outcomes) = g[Len(pb.element)]
        <5>1. Len(pb.element) \in Nat
          BY <3>1
        <5> HIDE DEF pb, r
        <5> QED BY <5>1, LoopIsDefined
      <4> QED BY <4>1 DEF freed, outcomes
    <3> QED BY <2>2, <3>1, <3>2
  <2> DEFINE M == {j \in Nat : j <= n => \A sofar \in g[j] : sofar.reply \in {Null, Built(e, j)}}
  <2>4. 0 \in M
    <3>1. 0 \in 0..n
      BY <1>2
    <3>2. g[0] = {kept}
      BY <2>3, <3>1 DEF LoopPass
    <3> QED BY <2>1, <3>2
  <2>5. ASSUME NEW j \in Nat, j \in M PROVE j + 1 \in M
    <3>1. SUFFICES ASSUME j + 1 <= n, NEW after \in g[j + 1]
                   PROVE  after.reply \in {Null, Built(e, j + 1)}
      OBVIOUS
    <3>2. j + 1 \in 1..n /\ j + 1 \in 0..n /\ j <= n /\ (j + 1) - 1 = j /\ j + 1 # 0
      <4>1. n \in Nat /\ j + 1 <= n
        BY <1>2, <3>1
      <4> HIDE DEF M
      <4> QED BY <4>1
    <3>3. g[j + 1] = UNION {{WithElement(sofar, j + 1, o1, FreedAt[h][sofar.reply][path])
                             : o1 \in Converted[h - 1][pb.element[j + 1]][Append(path, j + 1)]}
                            : sofar \in g[j]}
      BY <2>3, <3>2 DEF LoopPass
    <3>4. PICK sofar \in g[j], o1 \in Converted[h - 1][pb.element[j + 1]][Append(path, j + 1)] :
            after = WithElement(sofar, j + 1, o1, FreedAt[h][sofar.reply][path])
      BY <3>1, <3>3
    <3>5. sofar.reply \in {Null, Built(e, (j + 1) - 1)}
      BY <2>5, <3>2, <3>4
    <3>6. Append(path, j + 1) \in Paths
      BY DEF Paths
    <3>7. Survives(h - 1, e[j + 1]) /\ pb.element[j + 1] = Copied[h - 1][e[j + 1]]
      BY <1>2, <1>5, <3>2
    <3>8. o1.reply \in {Null, e[j + 1]}
      BY <3>4, <3>6, <3>7 DEF Survives
    <3> QED BY <1>8, <3>2, <3>4, <3>5, <3>8
  <2> HIDE DEF M
  <2>6. n \in M
    BY <1>2, <2>4, <2>5, NumberInduction
  <2> QED BY <1>2, <1>7, <1>9, <2>3, <2>6 DEF M
<1> QED BY <1>9 DEF Survives, pb, r

-----------------------------------------------------------------------------
(* A parser reads what Redis writes for the values of its type.              *)

LEMMA ValuesAreNotThrown ==
  /\ \A s : Str(s) # Thrown
  /\ \A n : Num(n) # Thrown
  /\ \A e : Seq_(e) # Thrown
  /\ NoValue # Thrown /\ Unit # Thrown
<1>1. Thrown.k = "exception" /\ NoValue.k = "none" /\ Unit.k = "void"
  BY DEF Thrown, NoValue, Unit, Value
<1>2. \A s : Str(s).k = "string"
  BY DEF Str, Value
<1>3. \A n : Num(n).k = "number"
  BY DEF Num, Value
<1>4. \A e : Seq_(e).k = "list"
  BY DEF Seq_, Value
<1> QED BY <1>1, <1>2, <1>3, <1>4

LEMMA GatherKeeps ==
  ASSUME NEW e, \A j \in DOMAIN e : e[j] # Thrown PROVE Gather(e) = Seq_(e)
BY DEF Gather

\* The sequences that Picks makes take each element from its set.
LEMMA PicksAreOfSets ==
  ASSUME NEW sets, Len(sets) \in Nat, DOMAIN sets = 1..Len(sets), NEW c \in Picks(sets)
  PROVE  DOMAIN c = 1..Len(sets) /\ \A j \in 1..Len(sets) : c[j] \in sets[j]
<1> DEFINE n == Len(sets)
           what == <<"picks", sets>>
           Is(f) == f = [j \in 0..n |->
                           IF j = 0 THEN {<<>>}
                           ELSE UNION {{Append(b, x) : x \in sets[j]} : b \in f[j - 1]}]
           g == CHOOSE f : Is(f)
<1>1. n \in Nat
  OBVIOUS
<1>2. ASSUME NEW prev, NEW j PROVE Level(what, prev, j) = PicksPass(sets, prev, j)
  BY DEF Level
<1>3. LowestLevel(what)
  <2>1. \A a, b : PicksPass(sets, a, 0) = PicksPass(sets, b, 0)
    BY DEF PicksPass
  <2> HIDE DEF what
  <2> QED BY <1>2, <2>1 DEF LowestLevel
<1>4. Picks(sets) = g[n]
  BY Zenon DEF Picks
<1>5. DOMAIN sets = 1..n
  OBVIOUS
<1> HIDE DEF n
<1>6. \E f : Is(f)
  <2>1. PICK f : Levels(what, 0..n, f)
    <3> HIDE DEF what
    <3> QED BY <1>1, <1>3, LevelsUpTo
  <2> HIDE DEF what
  <2>2. f = [j \in 0..n |-> PicksPass(sets, f[j - 1], j)]
    BY <1>2, <2>1 DEF Levels
  <2>3. Is(f)
    BY <2>2 DEF PicksPass
  <2> QED BY <2>3
<1>7. Is(g)
  <2> HIDE DEF Is
  <2> QED BY <1>6
<1> HIDE DEF g
<1>8. \A j \in 0..n : g[j] = PicksPass(sets, g[j - 1], j)
  BY <1>7 DEF PicksPass
<1> DEFINE U == UNION {sets[j] : j \in 1..n}
           OfSets(j, b) == b \in Seq(U) /\ Len(b) = j /\ \A i \in 1..j : b[i] \in sets[i]
           Upto(j) == j <= n => \A b \in g[j] : OfSets(j, b)
           M == {j \in Nat : Upto(j)}
<1>9. Upto(0)
  <2>1. g[0] = {<<>>}
    <3>1. 0 \in 0..n
      BY <1>1
    <3>2. g[0] = PicksPass(sets, g[0 - 1], 0)
      BY <1>8, <3>1
    <3> QED BY <3>2 DEF PicksPass
  <2> QED BY <2>1
<1>10. ASSUME NEW j \in Nat, Upto(j) PROVE Upto(j + 1)
  <2>1. SUFFICES ASSUME j + 1 <= n, NEW b \in g[j + 1] PROVE OfSets(j + 1, b)
    OBVIOUS
  <2>2. j + 1 \in 1..n /\ j + 1 \in 0..n /\ j <= n /\ (j + 1) - 1 = j /\ j + 1 # 0
    BY <1>1, <2>1
  <2>3. g[j + 1] = UNION {{Append(a, x) : x \in sets[j + 1]} : a \in g[j]}
    BY <1>8, <2>2 DEF PicksPass
  <2>4. PICK a \in g[j], x \in sets[j + 1] : b = Append(a, x)
    BY <2>1, <2>3
  <2>5. OfSets(j, a)
    BY <1>10, <2>2
  <2>6. x \in U
    BY <2>2
  <2> HIDE DEF U
  <2>7. b \in Seq(U) /\ Len(b) = j + 1 /\ b[j + 1] = x /\ \A i \in 1..j : b[i] = a[i]
    BY <2>4, <2>5, <2>6
  <2> QED BY <2>4, <2>5, <2>7
<1> HIDE DEF Upto
<1>11. n \in M
  <2>1. 0 \in M /\ \A j \in Nat : j \in M => j + 1 \in M
    BY <1>9, <1>10
  <2> HIDE DEF M
  <2> QED BY <1>1, <2>1, NumberInduction
<1>12. OfSets(n, c)
  BY <1>1, <1>4, <1>11 DEF Upto
<1>13. DOMAIN c = 1..n
  <2> HIDE DEF U
  <2> QED BY <1>1, <1>12
<1> QED BY <1>12, <1>13 DEF n

\* The reply of an encoding comes through the conversions and is parsed into
\* its value; nil is no value, and the reply of a scalar no array.
Comes(m) == \A h \in Nat : m.reply \in Trees[h] => Survives(h, m.reply)

Good(n, T, m) ==
  /\ Comes(m)
  /\ m.reply \in Replies => ParseAt[n][T][m.reply] = m.value
  /\ m.value # Thrown
  /\ IsNil(m.reply) => m.value = NoValue
  /\ T.k \in Scalars => ~IsArray(m.reply)

LEMMA MeansParts == \A v, r : Means(v, r).value = v /\ Means(v, r).reply = r
BY DEF Means

LEMMA LeavesCome ==
  /\ \A type \in StringTypes : \A s, v : Comes(Means(v, TextNode(type, s)))
  /\ \A n, v : Comes(Means(v, NumberNode(n)))
  /\ \A v : Comes(Means(v, NilNode)) /\ Comes(Means(v, NoReply))
<1>1. \A type \in StringTypes : \A s : LET r == TextNode(type, s)
                                   IN  ~IsArray(r) /\ r.element = <<>> /\ Created(r) = r
  BY DEF TextNode, Node, IsArray, Created, StringTypes
<1>2. \A n : LET r == NumberNode(n) IN ~IsArray(r) /\ r.element = <<>> /\ Created(r) = r
  BY DEF NumberNode, Node, IsArray, Created, StringTypes
<1>3. /\ ~IsArray(NilNode) /\ NilNode.element = <<>> /\ Created(NilNode) = NilNode
      /\ ~IsArray(NoReply) /\ NoReply.element = <<>> /\ Created(NoReply) = NoReply
  BY DEF NilNode, NoReply, Node, IsArray, Created, StringTypes
<1> QED BY <1>1, <1>2, <1>3, LeafSurvives, MeansParts DEF Comes

LEMMA ListedParts ==
  ASSUME NEW c
  PROVE  /\ Listed(c).value = Seq_([j \in DOMAIN c |-> c[j].value])
         /\ Listed(c).reply = ArrayNode([j \in DOMAIN c |-> c[j].reply])
BY MeansParts DEF Listed

LEMMA ArrayParts ==
  ASSUME NEW e
  PROVE  /\ ArrayNode(e).element = e /\ IsArray(ArrayNode(e)) /\ ~IsNil(ArrayNode(e))
         /\ ArrayNode(e).type = "ARRAY"
BY DEF ArrayNode, Node, IsArray, IsNil

\* An array of what comes through comes through.
LEMMA ArraysCome ==
  ASSUME NEW c, NEW v, \A j \in DOMAIN c : Comes(c[j])
  PROVE  Comes(Means(v, ArrayNode([j \in DOMAIN c |-> c[j].reply])))
<1> DEFINE e == [j \in DOMAIN c |-> c[j].reply]
<1>1. DOMAIN e = DOMAIN c /\ \A j \in DOMAIN c : e[j] = c[j].reply
  OBVIOUS
<1> HIDE DEF e
<1>2. ASSUME NEW h \in Nat, ArrayNode(e) \in Trees[h] PROVE Survives(h, ArrayNode(e))
  <2>1. h - 1 \in Nat /\ \A j \in DOMAIN e : e[j] \in Trees[h - 1]
    BY <1>2, ArrayParts, TreeParts
  <2>2. \A j \in DOMAIN e : Survives(h - 1, e[j])
    BY <1>1, <2>1 DEF Comes
  <2> QED BY <1>2, <2>2, ArraySurvives
<1> QED BY <1>2, MeansParts DEF Comes, e

AllGood(n) == \A T \in Types[n], max \in Int : \A m \in EncodingsAt[n][T][max] : Good(n, T, m)

\* t is a tuple of encodings of the types T is made of.
IsTuple(n, T, t, c) ==
  /\ t = Listed(c) /\ DOMAIN c = 1..Len(T.of)
  /\ \A j \in 1..Len(T.of) : Good(n - 1, T.of[j], c[j])

LEMMA TuplesAreOfTypes ==
  ASSUME NEW n \in Nat, NEW T \in Types[n], NEW max \in Int, AllGood(n - 1),
         NEW t \in Tuples(EncodingsAt[n - 1], T, max)
  PROVE  \E c : IsTuple(n, T, t, c)
<1> DEFINE below == EncodingsAt[n - 1]
           sets == [j \in DOMAIN T.of |-> below[T.of[j]][max]]
<1>1. /\ DOMAIN T.of = 1..Len(T.of) /\ Len(T.of) \in Nat
      /\ \A j \in 1..Len(T.of) : T.of[j] \in Types[n - 1]
  BY TypeParts
<1>2. PICK c \in Picks(sets) : t = Listed(c)
  BY DEF Tuples
<1>3. \A j \in 1..Len(T.of) : \A m : m \in below[T.of[j]][max] => Good(n - 1, T.of[j], m)
  BY <1>1 DEF AllGood
<1> HIDE DEF below
<1>4. Len(sets) = Len(T.of) /\ DOMAIN sets = 1..Len(T.of)
  BY <1>1
<1>5. \A j \in 1..Len(T.of) : sets[j] = below[T.of[j]][max]
  BY <1>1
<1> HIDE DEF sets
<1>6. DOMAIN c = 1..Len(T.of) /\ \A j \in 1..Len(T.of) : c[j] \in sets[j]
  BY <1>1, <1>2, <1>4, PicksAreOfSets
<1> QED BY <1>2, <1>3, <1>5, <1>6 DEF IsTuple

LEMMA TupleIsRead ==
  ASSUME NEW n \in Nat, NEW T \in Types[n], NEW t, NEW c, IsTuple(n, T, t, c)
  PROVE  /\ Comes(t)
         /\ t.value = Seq_([j \in 1..Len(T.of) |-> c[j].value])
         /\ t.reply = ArrayNode([j \in 1..Len(T.of) |-> c[j].reply])
         /\ t.reply \in Replies => ParseTuple(ParseAt[n - 1], T, t.reply) = t.value
<1> DEFINE k == Len(T.of)
           e == [j \in 1..k |-> c[j].reply]
           v == [j \in 1..k |-> c[j].value]
           below == ParseAt[n - 1]
<1>1. k \in Nat
  BY TypeParts
<1>2. t = Listed(c) /\ DOMAIN c = 1..k /\ \A j \in 1..k : Good(n - 1, T.of[j], c[j])
  BY DEF IsTuple
<1> HIDE DEF k
<1>3. t.value = Seq_(v) /\ t.reply = ArrayNode(e)
  <2>1. /\ Listed(c).value = Seq_([j \in DOMAIN c |-> c[j].value])
        /\ Listed(c).reply = ArrayNode([j \in DOMAIN c |-> c[j].reply])
    BY ListedParts
  <2>2. DOMAIN c = 1..k /\ t = Listed(c)
    BY <1>2
  <2> QED BY <2>1, <2>2
<1>4. Comes(t)
  <2>1. Comes(Means(t.value, ArrayNode([j \in DOMAIN c |-> c[j].reply])))
    BY <1>2, ArraysCome DEF Good
  <2> QED BY <1>2, <1>3, <2>1, MeansParts DEF Comes
<1>5. Len(e) = k /\ DOMAIN e = 1..k /\ \A j \in 1..k : e[j] = c[j].reply
  BY <1>1
<1>6. DOMAIN v = 1..k /\ \A j \in 1..k : v[j] = c[j].value
  OBVIOUS
<1> HIDE DEF e
<1>7. ASSUME t.reply \in Replies PROVE ParseTuple(below, T, t.reply) = t.value
  <2>1. \A j \in 1..k : e[j] \in Replies
    BY <1>3, <1>5, <1>7, ArrayParts, ElementsAreReplies
  <2>2. \A j \in 1..k : below[T.of[j]][e[j]] = v[j] /\ v[j] # Thrown
    BY <1>2, <1>5, <1>6, <2>1 DEF Good
  <2> HIDE DEF below, v
  <2>3. ParseTuple(below, T, t.reply) = ParseEach(below, T, e)
    BY <1>3, <1>5, ArrayParts DEF ParseTuple, k
  <2>4. [j \in DOMAIN e |-> below[T.of[j]][e[j]]] = [j \in 1..k |-> v[j]]
    BY <1>5, <2>2
  <2>5. [j \in 1..k |-> v[j]] = v
    BY <1>6 DEF v
  <2>6. ParseEach(below, T, e) = Seq_(v)
    BY <1>6, <2>2, <2>4, <2>5, GatherKeeps DEF ParseEach
  <2> QED BY <1>3, <2>3, <2>6
<1> QED BY <1>3, <1>4, <1>7 DEF k, e

LEMMA UpToParts ==
  ASSUME NEW max \in Int, NEW set, NEW c \in UpTo(max, set)
  PROVE  \E k \in Nat : DOMAIN c = 1..k /\ \A j \in 1..k : c[j] \in set
BY DEF UpTo

LEMMA ListsAreGood ==
  ASSUME NEW n \in Nat, NEW T \in Types[n], T.k = "array",
         NEW c, NEW k \in Nat, DOMAIN c = 1..k,
         \A j \in 1..k : Good(n - 1, T.of[1], c[j])
  PROVE  Good(n, T, Listed(c))
<1> DEFINE e == [j \in DOMAIN c |-> c[j].reply]
           v == [j \in DOMAIN c |-> c[j].value]
           below == ParseAt[n - 1]
           r == Listed(c).reply
<1>1. r = ArrayNode(e) /\ Listed(c).value = Seq_(v)
  BY ListedParts
<1>2. DOMAIN e = 1..k /\ DOMAIN v = 1..k /\ \A j \in 1..k : e[j] = c[j].reply /\ v[j] = c[j].value
  OBVIOUS
<1>3. Comes(Listed(c))
  <2>1. Comes(Means(Listed(c).value, ArrayNode(e)))
    BY ArraysCome DEF Good
  <2> QED BY <1>1, <2>1, MeansParts DEF Comes
<1> HIDE DEF e, r
<1>4. ASSUME r \in Replies PROVE ParseAt[n][T][r] = Seq_(v)
  <2>1. \A j \in 1..k : e[j] \in Replies
    BY <1>1, <1>2, <1>4, ArrayParts, ElementsAreReplies
  <2>2. \A j \in 1..k : below[T.of[1]][e[j]] = v[j] /\ v[j] # Thrown
    BY <1>2, <2>1 DEF Good
  <2>3. ParseAt[n][T][r] = ParseAs(below, T, r)
    BY <1>4, ParseParts
  <2> HIDE DEF below, v
  <2>4. ParseAs(below, T, r) = ParseAll(below, T, e)
    BY <1>1, ArrayParts DEF ParseAs
  <2>5. [j \in DOMAIN e |-> below[T.of[1]][e[j]]] = [j \in 1..k |-> v[j]]
    BY <1>2, <2>2
  <2>6. [j \in 1..k |-> v[j]] = v
    BY <1>2 DEF v
  <2>7. ParseAll(below, T, e) = Seq_(v)
    BY <1>2, <2>2, <2>5, <2>6, GatherKeeps DEF ParseAll
  <2> QED BY <2>3, <2>4, <2>7
<1>5. T.k \notin Scalars
  BY DEF Scalars
<1> HIDE DEF v
<1> QED BY <1>1, <1>3, <1>4, <1>5, ArrayParts, ValuesAreNotThrown DEF Good, r

\* The key-value pairs of an output, one array each.
LEMMA NestedPairsAreGood ==
  ASSUME NEW n \in Nat, NEW T \in Types[n], T.k = "pairs",
         NEW c, NEW k \in Nat, DOMAIN c = 1..k,
         \A i \in 1..k : \E p : IsTuple(n, T, c[i], p)
  PROVE  Good(n, T, Listed(c))
<1> DEFINE e == [j \in DOMAIN c |-> c[j].reply]
           v == [j \in DOMAIN c |-> c[j].value]
           below == ParseAt[n - 1]
           r == Listed(c).reply
<1>1. r = ArrayNode(e) /\ Listed(c).value = Seq_(v)
  BY ListedParts
<1>2. DOMAIN e = 1..k /\ DOMAIN v = 1..k /\ \A j \in 1..k : e[j] = c[j].reply /\ v[j] = c[j].value
  OBVIOUS
<1>3. \A j \in 1..k : /\ Comes(c[j]) /\ IsArray(c[j].reply) /\ c[j].value # Thrown
                      /\ c[j].reply \in Replies => ParseTuple(below, T, c[j].reply) = c[j].value
  <2>1. ASSUME NEW j \in 1..k
        PROVE  /\ Comes(c[j]) /\ IsArray(c[j].reply) /\ c[j].value # Thrown
               /\ c[j].reply \in Replies => ParseTuple(below, T, c[j].reply) = c[j].value
    <3>1. PICK p : IsTuple(n, T, c[j], p)
      OBVIOUS
    <3>2. /\ Comes(c[j])
          /\ c[j].value = Seq_([i \in 1..Len(T.of) |-> p[i].value])
          /\ c[j].reply = ArrayNode([i \in 1..Len(T.of) |-> p[i].reply])
          /\ c[j].reply \in Replies => ParseTuple(below, T, c[j].reply) = c[j].value
      BY <3>1, TupleIsRead
    <3> QED BY <3>2, ArrayParts, ValuesAreNotThrown
  <2> QED BY <2>1
<1>4. Comes(Listed(c))
  <2>1. Comes(Means(Listed(c).value, ArrayNode(e)))
    BY <1>3, ArraysCome
  <2> QED BY <1>1, <2>1, MeansParts DEF Comes
<1> HIDE DEF e, r
<1>5. ASSUME r \in Replies PROVE ParseAt[n][T][r] = Seq_(v)
  <2>1. \A j \in 1..k : e[j] \in Replies
    BY <1>1, <1>2, <1>5, ArrayParts, ElementsAreReplies
  <2>2. \A j \in 1..k : ParseTuple(below, T, e[j]) = v[j] /\ v[j] # Thrown
    BY <1>2, <1>3, <2>1
  <2>3. ParseAt[n][T][r] = ParseAs(below, T, r)
    BY <1>5, ParseParts
  <2> HIDE DEF below, v
  <2>4. ~IsFlat(r)
    <3>1. ASSUME e # <<>> PROVE IsArray(e[1])
      <4>1. e \in Seq(Replies)
        BY <1>1, <1>5, ArrayParts, ElementsAreReplies
      <4>2. 1 \in 1..k
        BY <1>2, <3>1, <4>1
      <4> QED BY <1>2, <1>3, <4>2
    <3> QED BY <1>1, <3>1, ArrayParts DEF IsFlat
  <2>5. ParseAs(below, T, r) = ParsePairs(below, T, r)
    BY DEF ParseAs
  <2>6. ParsePairs(below, T, r) = Gather([j \in DOMAIN e |-> ParseTuple(below, T, e[j])])
    BY <1>1, <2>4, ArrayParts DEF ParsePairs
  <2>7. [j \in DOMAIN e |-> ParseTuple(below, T, e[j])] = [j \in 1..k |-> v[j]]
    BY <1>2, <2>2
  <2>8. [j \in 1..k |-> v[j]] = v
    BY <1>2 DEF v
  <2>9. Gather(v) = Seq_(v)
    BY <1>2, <2>2, GatherKeeps
  <2> QED BY <2>3, <2>5, <2>6, <2>7, <2>8, <2>9
<1>6. T.k \notin Scalars
  BY DEF Scalars
<1> HIDE DEF v
<1> QED BY <1>1, <1>4, <1>5, <1>6, ArrayParts, ValuesAreNotThrown DEF Good, r

\* Where the j-th of k pairs lies among their elements.
LEMMA PairBounds ==
  ASSUME NEW k \in Nat, NEW j \in 1..k, NEW size, size = 2 * k
  PROVE  /\ 2 * j - 1 \in 1 .. size + 1 /\ 2 * j \in (2 * j - 1) - 1 .. size
         /\ 2 * j - (2 * j - 1) + 1 = 2
OBVIOUS

\* The key-value pairs of an output, one element after the other.
LEMMA FlatPairsAreGood ==
  ASSUME NEW n \in Nat, NEW T \in Types[n], T.k = "pairs",
         NEW c, NEW k \in Nat, DOMAIN c = 1..k,
         \A i \in 1..k : \E p : IsTuple(n, T, c[i], p),
         NEW m, m.value = Seq_([j \in DOMAIN c |-> c[j].value]),
         m.reply = ArrayNode([j \in 1 .. 2 * k |->
                                c[(j + 1) \div 2].reply.element[IF j % 2 = 1 THEN 1 ELSE 2]])
  PROVE  Good(n, T, m)
<1> DEFINE v == [j \in DOMAIN c |-> c[j].value]
           below == ParseAt[n - 1]
           r == m.reply
           of(i) == CHOOSE p : IsTuple(n, T, c[i], p)
           at(j) == of((j + 1) \div 2)[IF j % 2 = 1 THEN 1 ELSE 2]
           e == [j \in 1 .. 2 * k |-> c[(j + 1) \div 2].reply.element[IF j % 2 = 1 THEN 1 ELSE 2]]
<1>1. Len(T.of) = 2 /\ T.of[1].k \in Scalars
  BY TypeParts DEF WellFormed
<1>2. \A i \in 1..k : IsTuple(n, T, c[i], of(i))
  OBVIOUS
<1> HIDE DEF of
<1>3. \A i \in 1..k : /\ Good(n - 1, T.of[1], of(i)[1]) /\ Good(n - 1, T.of[2], of(i)[2])
                      /\ c[i].value = Seq_([j \in 1..2 |-> of(i)[j].value])
                      /\ c[i].reply = ArrayNode([j \in 1..2 |-> of(i)[j].reply])
  <2>1. ASSUME NEW i \in 1..k
        PROVE  /\ Good(n - 1, T.of[1], of(i)[1]) /\ Good(n - 1, T.of[2], of(i)[2])
               /\ c[i].value = Seq_([j \in 1..2 |-> of(i)[j].value])
               /\ c[i].reply = ArrayNode([j \in 1..2 |-> of(i)[j].reply])
    <3>1. IsTuple(n, T, c[i], of(i))
      BY <1>2
    <3>2. 1 \in 1..Len(T.of) /\ 2 \in 1..Len(T.of) /\ 1..Len(T.of) = 1..2
      BY <1>1
    <3>3. Good(n - 1, T.of[1], of(i)[1]) /\ Good(n - 1, T.of[2], of(i)[2])
      BY <3>1, <3>2 DEF IsTuple
    <3>4. /\ c[i].value = Seq_([j \in 1..Len(T.of) |-> of(i)[j].value])
          /\ c[i].reply = ArrayNode([j \in 1..Len(T.of) |-> of(i)[j].reply])
      <4> DEFINE p == of(i)
                 t == c[i]
      <4>1. IsTuple(n, T, t, p)
        BY <3>1
      <4> HIDE DEF p, t
      <4>2. /\ t.value = Seq_([j \in 1..Len(T.of) |-> p[j].value])
            /\ t.reply = ArrayNode([j \in 1..Len(T.of) |-> p[j].reply])
        BY <4>1, TupleIsRead
      <4> QED BY <4>2 DEF p, t
    <3> QED BY <1>1, <3>3, <3>4
  <2> QED BY <2>1
<1>4. ASSUME NEW j \in 1 .. 2 * k
      PROVE  /\ (j + 1) \div 2 \in 1..k
             /\ e[j] = at(j).reply /\ Comes(at(j))
  <2> DEFINE i == (j + 1) \div 2
             x == IF j % 2 = 1 THEN 1 ELSE 2
  <2>1. i \in 1..k /\ x \in 1..2
    OBVIOUS
  <2>2. e[j] = c[i].reply.element[x] /\ at(j) = of(i)[x]
    OBVIOUS
  <2> HIDE DEF i, x, e, at
  <2>3. c[i].reply.element = [y \in 1..2 |-> of(i)[y].reply]
    BY <1>3, <2>1, ArrayParts
  <2>4. c[i].reply.element[x] = of(i)[x].reply
    BY <2>1, <2>3
  <2>5. Comes(of(i)[x])
    <3>1. Comes(of(i)[1]) /\ Comes(of(i)[2])
      BY <1>3, <2>1 DEF Good
    <3>2. x = 1 \/ x = 2
      BY <2>1
    <3> QED BY <3>1, <3>2
  <2> QED BY <2>1, <2>2, <2>4, <2>5 DEF i
<1> HIDE DEF at
<1>5. r = ArrayNode(e) /\ DOMAIN e = 1 .. 2 * k /\ Len(e) = 2 * k
  OBVIOUS
<1> HIDE DEF e, r
<1>6. Comes(m)
  <2> DEFINE d == [j \in 1 .. 2 * k |-> at(j)]
  <2>1. DOMAIN d = 1 .. 2 * k /\ \A j \in DOMAIN d : Comes(d[j]) /\ e[j] = d[j].reply
    BY <1>4
  <2> HIDE DEF d
  <2>2. [j \in DOMAIN d |-> d[j].reply] = e
    <3>1. e = [j \in DOMAIN e |-> e[j]]
      BY DEF e
    <3> QED BY <1>5, <2>1, <3>1
  <2>3. Comes(Means(m.value, ArrayNode(e)))
    BY <2>1, <2>2, ArraysCome
  <2> QED BY <1>5, <2>3, MeansParts DEF Comes, r
<1>7. ASSUME r \in Replies PROVE ParseAt[n][T][r] = Seq_(v)
  <2>1. e \in Seq(Replies) /\ \A j \in 1 .. 2 * k : e[j] \in Replies
    BY <1>5, <1>7, ArrayParts, ElementsAreReplies
  <2>2. ParseAt[n][T][r] = ParseAs(below, T, r)
    BY <1>7, ParseParts
  <2>3. ParseAs(below, T, r) = ParsePairs(below, T, r)
    BY DEF ParseAs
  <2>4. ASSUME NEW j \in 1..k
        PROVE  /\ e[2 * j - 1] = of(j)[1].reply /\ e[2 * j] = of(j)[2].reply
               /\ e[2 * j - 1] \in Replies /\ e[2 * j] \in Replies
    <3>1. /\ 2 * j - 1 \in 1 .. 2 * k /\ ((2 * j - 1) + 1) \div 2 = j /\ (2 * j - 1) % 2 = 1
          /\ 2 * j \in 1 .. 2 * k /\ (2 * j + 1) \div 2 = j /\ (2 * j) % 2 = 0
      OBVIOUS
    <3>2. at(2 * j - 1) = of(j)[1] /\ at(2 * j) = of(j)[2]
      BY <3>1 DEF at
    <3> QED BY <1>4, <2>1, <3>1, <3>2
  <2>5. ASSUME NEW j \in 1..k
        PROVE  /\ ParseEach(below, T, SubSeq(e, 2 * j - 1, 2 * j)) = v[j]
               /\ v[j] # Thrown
    <3> DEFINE s == SubSeq(e, 2 * j - 1, 2 * j)
               w == [x \in 1..2 |-> of(j)[x].value]
    <3>1. DOMAIN s = 1..2 /\ s[1] = e[2 * j - 1] /\ s[2] = e[2 * j]
      <4>1. /\ 2 * j - 1 \in 1 .. Len(e) + 1 /\ 2 * j \in (2 * j - 1) - 1 .. Len(e)
            /\ 2 * j - (2 * j - 1) + 1 = 2
        <5> DEFINE size == Len(e)
        <5>1. size = 2 * k
          BY <1>5
        <5> HIDE DEF size
        <5> QED BY <5>1, PairBounds DEF size
      <4>2. /\ s \in Seq(Replies) /\ Len(s) = 2
            /\ \A i \in 1 .. 2 : s[i] = e[(2 * j - 1) + i - 1]
        BY <2>1, <4>1, SubSeqProperties
      <4> HIDE DEF s
      <4>3. DOMAIN s = 1..2
        BY <4>2
      <4>4. s[1] = e[(2 * j - 1) + 1 - 1] /\ s[2] = e[(2 * j - 1) + 2 - 1]
        BY <4>2
      <4>5. (2 * j - 1) + 1 - 1 = 2 * j - 1 /\ (2 * j - 1) + 2 - 1 = 2 * j
        OBVIOUS
      <4> QED BY <4>3, <4>4, <4>5
    <3> HIDE DEF s
    <3>2. /\ below[T.of[1]][s[1]] = of(j)[1].value /\ of(j)[1].value # Thrown
          /\ below[T.of[2]][s[2]] = of(j)[2].value /\ of(j)[2].value # Thrown
      <4>1. s[1] = of(j)[1].reply /\ s[1] \in Replies /\ s[2] = of(j)[2].reply /\ s[2] \in Replies
        BY <2>4, <3>1
      <4>2. Good(n - 1, T.of[1], of(j)[1]) /\ Good(n - 1, T.of[2], of(j)[2])
        BY <1>3
      <4> QED BY <4>1, <4>2 DEF Good
    <3>3. w[1] = of(j)[1].value /\ w[2] = of(j)[2].value /\ DOMAIN w = 1..2
      OBVIOUS
    <3>4. v[j] = Seq_(w)
      BY <1>3
    <3> HIDE DEF w, below, v
    <3>5. \A x \in 1..2 : below[T.of[x]][s[x]] = w[x] /\ w[x] # Thrown
      BY <3>2, <3>3
    <3>6. [x \in DOMAIN s |-> below[T.of[x]][s[x]]] = [x \in 1..2 |-> w[x]]
      BY <3>1, <3>5
    <3>7. [x \in 1..2 |-> w[x]] = w
      BY DEF w
    <3>8. ParseEach(below, T, s) = Seq_(w)
      BY <3>3, <3>5, <3>6, <3>7, GatherKeeps DEF ParseEach
    <3> QED BY <3>4, <3>8, ValuesAreNotThrown DEF s
  <2>6. DOMAIN v = 1..k /\ v = [j \in 1..k |-> v[j]]
    OBVIOUS
  <2> HIDE DEF below, v
  <2>7. Gather(v) = Seq_(v)
    BY <2>5, <2>6, GatherKeeps
  <2>8. ParsePairs(below, T, r) = Gather(v)
    <3>1. CASE k = 0
      <4>1. e = <<>>
        BY <1>5, <2>1, <3>1
      <4>2. ~IsFlat(r)
        BY <1>5, <4>1, ArrayParts DEF IsFlat
      <4>3. ParsePairs(below, T, r) = Gather([j \in DOMAIN e |-> ParseTuple(below, T, e[j])])
        BY <1>5, <4>2, ArrayParts DEF ParsePairs
      <4>4. DOMAIN e = {} /\ DOMAIN v = {}
        BY <1>5, <2>6, <3>1
      <4>5. [j \in DOMAIN e |-> ParseTuple(below, T, e[j])] = v
        BY <2>6, <4>4
      <4> QED BY <4>3, <4>5
    <3>2. CASE k # 0
      <4>1. 1 \in 1..k /\ 2 * 1 - 1 = 1
        BY <3>2
      <4>2. e[1] = of(1)[1].reply
        BY <2>4, <4>1
      <4>3. ~IsArray(e[1])
        BY <1>1, <1>3, <4>1, <4>2 DEF Good
      <4>4. e # <<>>
        BY <1>5, <2>1, <3>2
      <4>5. IsFlat(r)
        BY <1>5, <4>3, <4>4, ArrayParts DEF IsFlat
      <4>6. (2 * k) % 2 = 0 /\ (2 * k) \div 2 = k
        OBVIOUS
      <4>7. ParsePairs(below, T, r) =
              Gather([j \in 1..k |-> ParseEach(below, T, SubSeq(e, 2 * j - 1, 2 * j))])
        <5> DEFINE size == Len(r.element)
        <5>1. r.element = e /\ IsArray(r)
          BY <1>5, ArrayParts
        <5>2. size % 2 = 0 /\ size \div 2 = k
          BY <1>5, <4>6, <5>1
        <5> HIDE DEF size
        <5>3. ParsePairs(below, T, r) =
                Gather([j \in 1 .. size \div 2 |->
                          ParseEach(below, T, SubSeq(r.element, 2 * j - 1, 2 * j))])
          BY <4>5, <5>1, <5>2 DEF ParsePairs, size
        <5> QED BY <5>1, <5>2, <5>3
      <4>8. [j \in 1..k |-> ParseEach(below, T, SubSeq(e, 2 * j - 1, 2 * j))] = [j \in 1..k |-> v[j]]
        BY <2>5
      <4> QED BY <2>6, <4>7, <4>8
    <3> QED BY <3>1, <3>2
  <2> QED BY <2>2, <2>3, <2>7, <2>8
<1>8. T.k \notin Scalars
  BY DEF Scalars
<1> HIDE DEF v
<1>9. m.value = Seq_(v)
  BY DEF v
<1> QED BY <1>5, <1>6, <1>7, <1>8, <1>9, ArrayParts, ValuesAreNotThrown DEF Good, r

\* Scalars, which are of no other type.
LEMMA ScalarsAreGood ==
  ASSUME NEW n \in Nat, NEW T \in Types[n], T.k \in Scalars, NEW max \in Int,
         NEW m \in EncodingsAt[n][T][max]
  PROVE  Good(n, T, m)
<1> DEFINE below == ParseAt[n - 1]
           enc == EncodingsAt[n - 1]
           r == m.reply
<1>1. m \in EncodingsAs(enc, T, max)
  BY EncodingParts
<1>2. r \in Replies => ParseAt[n][T][r] = ParseAs(below, T, r)
  BY ParseParts
<1> HIDE DEF below, enc
<1>3. SUFFICES /\ Comes(m) /\ ParseAs(below, T, r) = m.value
               /\ m.value # Thrown /\ ~IsNil(r) /\ ~IsArray(r)
  BY <1>2 DEF Good
<1>4. \A type, s : LET x == TextNode(type, s) IN x.type = type /\ x.str = s
  BY DEF TextNode, Node
<1>5. \A i : LET x == NumberNode(i) IN x.type = "INTEGER" /\ x.integer = i
  BY DEF NumberNode, Node
<1>6. CASE T.k = "status"
  <2>1. PICK t \in Texts : m = Means(Str(t), TextNode("STATUS", t))
    BY <1>1, <1>6 DEF EncodingsAs
  <2>2. r = TextNode("STATUS", t) /\ m.value = Str(t) /\ r.type = "STATUS" /\ r.str = t
    BY <1>4, <2>1, MeansParts
  <2>3. ParseAs(below, T, r) = ParseText(r, {"STATUS"})
    BY <1>6 DEF ParseAs
  <2>4. ParseText(r, {"STATUS"}) = Str(t)
    BY <2>2 DEF ParseText
  <2>5. Comes(m)
    BY <2>1, LeavesCome DEF StringTypes
  <2> QED BY <2>2, <2>3, <2>4, <2>5, ValuesAreNotThrown DEF IsNil, IsArray
<1>7. CASE T.k = "string"
  <2>1. PICK t \in Texts : m = Means(Str(t), TextNode("STRING", t))
    BY <1>1, <1>7 DEF EncodingsAs
  <2>2. r = TextNode("STRING", t) /\ m.value = Str(t) /\ r.type = "STRING" /\ r.str = t
    BY <1>4, <2>1, MeansParts
  <2>3. ParseAs(below, T, r) = ParseText(r, {"STRING", "STATUS"})
    BY <1>7 DEF ParseAs
  <2>4. ParseText(r, {"STRING", "STATUS"}) = Str(t)
    BY <2>2 DEF ParseText
  <2>5. Comes(m)
    BY <2>1, LeavesCome DEF StringTypes
  <2> QED BY <2>2, <2>3, <2>4, <2>5, ValuesAreNotThrown DEF IsNil, IsArray
<1>8. CASE T.k = "void"
  <2>1. m = Means(Unit, TextNode("STATUS", "OK"))
    BY <1>1, <1>8 DEF EncodingsAs
  <2>2. r = TextNode("STATUS", "OK") /\ m.value = Unit /\ r.type = "STATUS" /\ r.str = "OK"
    BY <1>4, <2>1, MeansParts
  <2>3. ParseAs(below, T, r) = ParseVoid(r)
    BY <1>8 DEF ParseAs
  <2>4. ParseVoid(r) = Unit
    BY <2>2 DEF ParseVoid
  <2>5. Comes(m)
    BY <2>1, LeavesCome DEF StringTypes
  <2> QED BY <2>2, <2>3, <2>4, <2>5, ValuesAreNotThrown DEF IsNil, IsArray
<1>9. CASE T.k = "number"
  <2>1. PICK i \in Numbers : m = Means(Num(i), NumberNode(i))
    BY <1>1, <1>9 DEF EncodingsAs
  <2>2. r = NumberNode(i) /\ m.value = Num(i) /\ r.type = "INTEGER" /\ r.integer = i
    BY <1>5, <2>1, MeansParts
  <2>3. ParseAs(below, T, r) = ParseNumber(r)
    BY <1>9 DEF ParseAs
  <2>4. ParseNumber(r) = Num(i)
    BY <2>2 DEF ParseNumber
  <2>5. Comes(m)
    BY <2>1, LeavesCome
  <2> QED BY <2>2, <2>3, <2>4, <2>5, ValuesAreNotThrown DEF IsNil, IsArray
<1>10. CASE T.k = "double"
  <2>1. PICK t \in DOMAIN Numeric : m = Means(Num(Numeric[t]), TextNode("STRING", t))
    BY <1>1, <1>10 DEF EncodingsAs
  <2>2. r = TextNode("STRING", t) /\ m.value = Num(Numeric[t]) /\ r.type = "STRING" /\ r.str = t
    BY <1>4, <2>1, MeansParts
  <2>3. ParseAs(below, T, r) = ParseDecimal(r)
    BY <1>10 DEF ParseAs
  <2>4. ParseText(r, {"STRING", "STATUS"}) = Str(t)
    BY <2>2 DEF ParseText
  <2>5. Str(t) # Thrown /\ Str(t).s = t
    BY ValuesAreNotThrown DEF Str, Value
  <2>6. ParseDecimal(r) = Num(Numeric[t])
    BY <2>4, <2>5 DEF ParseDecimal
  <2>7. Comes(m)
    BY <2>1, LeavesCome DEF StringTypes
  <2> QED BY <2>2, <2>3, <2>6, <2>7, ValuesAreNotThrown DEF IsNil, IsArray
<1>11. CASE T.k = "bool"
  <2>1. PICK b \in {0, 1} : m = Means(Num(b), NumberNode(b))
    BY <1>1, <1>11 DEF EncodingsAs
  <2>2. r = NumberNode(b) /\ m.value = Num(b) /\ r.type = "INTEGER" /\ r.integer = b
    BY <1>5, <2>1, MeansParts
  <2>3. ParseAs(below, T, r) = ParseBool(r)
    BY <1>11 DEF ParseAs
  <2>4. ParseBool(r) = Num(b)
    BY <2>2 DEF ParseBool, ParseNumber
  <2>5. Comes(m)
    BY <2>1, LeavesCome
  <2> QED BY <2>2, <2>3, <2>4, <2>5, ValuesAreNotThrown DEF IsNil, IsArray
<1> QED BY <1>6, <1>7, <1>8, <1>9, <1>10, <1>11 DEF Scalars

LEMMA OptionalsAreGood ==
  ASSUME NEW n \in Nat, NEW T \in Types[n], T.k = "optional", NEW max \in Int,
         AllGood(n - 1), NEW m \in EncodingsAt[n][T][max]
  PROVE  Good(n, T, m)
<1> DEFINE below == ParseAt[n - 1]
           enc == EncodingsAt[n - 1]
           r == m.reply
<1>1. m \in EncodingsAs(enc, T, max)
  BY EncodingParts
<1>2. r \in Replies => ParseAt[n][T][r] = ParseAs(below, T, r)
  BY ParseParts
<1>3. T.of[1] \in Types[n - 1]
  BY TypeParts DEF WellFormed
<1>4. \A x \in enc[T.of[1]][max] : Good(n - 1, T.of[1], x)
  BY <1>3 DEF AllGood
<1>5. \A x : x \in Replies /\ ~IsNil(x) => ParseAs(below, T, x) = below[T.of[1]][x]
  BY DEF ParseAs
<1>6. \A x : IsNil(x) => ParseAs(below, T, x) = NoValue
  BY DEF ParseAs
<1>7. T.k \notin Scalars
  BY DEF Scalars
<1>8. m = Means(NoValue, NilNode) \/ m \in enc[T.of[1]][max]
  BY <1>1 DEF EncodingsAs
<1>9. CASE m = Means(NoValue, NilNode)
  <2>1. m.value = NoValue /\ IsNil(r)
    BY <1>9, MeansParts DEF NilNode, Node, IsNil
  <2>2. Comes(m)
    BY <1>9, LeavesCome
  <2> QED BY <1>2, <1>6, <1>7, <2>1, <2>2, ValuesAreNotThrown DEF Good
<1>10. CASE m \in enc[T.of[1]][max]
  <2>1. Good(n - 1, T.of[1], m)
    BY <1>4, <1>10
  <2> HIDE DEF enc
  <2> QED BY <1>2, <1>5, <1>6, <1>7, <2>1 DEF Good
<1> QED BY <1>8, <1>9, <1>10

LEMMA TuplesAreGood ==
  ASSUME NEW n \in Nat, NEW T \in Types[n], T.k = "tuple", NEW t, NEW c, IsTuple(n, T, t, c)
  PROVE  Good(n, T, t)
<1> DEFINE below == ParseAt[n - 1]
           r == t.reply
<1>1. /\ Comes(t)
      /\ t.value = Seq_([j \in 1..Len(T.of) |-> c[j].value])
      /\ r = ArrayNode([j \in 1..Len(T.of) |-> c[j].reply])
      /\ r \in Replies => ParseTuple(below, T, r) = t.value
  BY TupleIsRead
<1>2. r \in Replies => ParseAt[n][T][r] = ParseAs(below, T, r)
  BY ParseParts
<1>3. ParseAs(below, T, r) = ParseTuple(below, T, r)
  BY DEF ParseAs
<1>4. IsArray(r) /\ ~IsNil(r) /\ t.value # Thrown /\ T.k \notin Scalars
  BY <1>1, ArrayParts, ValuesAreNotThrown DEF Scalars
<1> HIDE DEF below
<1> QED BY <1>1, <1>2, <1>3, <1>4 DEF Good

\* Every encoding of a value of any type is good.
LEMMA EncodingsAreGood == \A n \in Nat : AllGood(n)
<1> DEFINE M == {n \in Nat : AllGood(n)}
<1>1. 0 \in M
  <2>1. \A T \in Types[0] : FALSE
    BY TypeParts
  <2> QED BY <2>1 DEF AllGood
<1>2. ASSUME NEW k \in Nat, k \in M PROVE k + 1 \in M
  <2> DEFINE n == k + 1
  <2>1. n \in Nat /\ n - 1 = k /\ AllGood(k)
    BY <1>2
  <2> HIDE DEF n
  <2>2. ASSUME NEW T \in Types[n], NEW max \in Int, NEW m \in EncodingsAt[n][T][max]
        PROVE  Good(n, T, m)
    <3> DEFINE enc == EncodingsAt[n - 1]
    <3>1. m \in EncodingsAs(enc, T, max)
      BY <2>1, <2>2, EncodingParts
    <3>2. max - 1 \in Int
      BY <2>2
    <3>3. T.k \in Kinds /\ (T.k = "array" => T.of[1] \in Types[n - 1])
      BY <2>1, TypeParts DEF WellFormed
    <3>4. \A i \in Int : \A t \in Tuples(enc, T, i) : \E p : IsTuple(n, T, t, p)
      BY <2>1, TuplesAreOfTypes
    <3>5. T.k = "array" => \A x \in enc[T.of[1]][max - 1] : Good(n - 1, T.of[1], x)
      BY <2>1, <3>2, <3>3 DEF AllGood
    <3> HIDE DEF enc
    <3>6. CASE T.k \in Scalars
      BY <2>1, <2>2, <3>6, ScalarsAreGood
    <3>7. CASE T.k = "optional"
      BY <2>1, <2>2, <3>7, OptionalsAreGood
    <3>8. CASE T.k = "tuple"
      <4>1. m \in Tuples(enc, T, max)
        BY <3>1, <3>8 DEF EncodingsAs
      <4> QED BY <2>1, <3>4, <3>8, <4>1, TuplesAreGood
    <3>9. CASE T.k = "array"
      <4>1. PICK c \in UpTo(max, enc[T.of[1]][max - 1]) : m = Listed(c)
        BY <3>1, <3>9 DEF EncodingsAs
      <4>2. PICK i \in Nat : DOMAIN c = 1..i /\ \A j \in 1..i : c[j] \in enc[T.of[1]][max - 1]
        BY <4>1, UpToParts
      <4>3. \A j \in 1..i : Good(n - 1, T.of[1], c[j])
        BY <3>5, <3>9, <4>2
      <4> QED BY <2>1, <3>9, <4>1, <4>2, <4>3, ListsAreGood
    <3>10. CASE T.k = "pairs"
      <4>1. PICK c \in UpTo(max, Tuples(enc, T, max - 1)) : m \in Paired(c)
        BY <3>1, <3>10 DEF EncodingsAs
      <4>2. PICK i \in Nat : DOMAIN c = 1..i /\ \A j \in 1..i : c[j] \in Tuples(enc, T, max - 1)
        BY <4>1, UpToParts
      <4>3. \A j \in 1..i : \E p : IsTuple(n, T, c[j], p)
        BY <3>2, <3>4, <4>2
      <4>4. CASE m = Listed(c)
        BY <2>1, <3>10, <4>2, <4>3, <4>4, NestedPairsAreGood
      <4>5. CASE m # Listed(c)
        <5>1. Len(c) = i
          BY <4>2
        <5>2. m = [Listed(c) EXCEPT !.reply =
                     ArrayNode([j \in 1 .. 2 * Len(c) |->
                                  c[(j + 1) \div 2].reply.element[IF j % 2 = 1 THEN 1 ELSE 2]])]
          BY <4>1, <4>5 DEF Paired
        <5>3. /\ m.value = Seq_([j \in DOMAIN c |-> c[j].value])
              /\ m.reply = ArrayNode([j \in 1 .. 2 * i |->
                             c[(j + 1) \div 2].reply.element[IF j % 2 = 1 THEN 1 ELSE 2]])
          BY <5>1, <5>2 DEF Listed, Means
        <5> QED BY <2>1, <3>10, <4>2, <4>3, <5>3, FlatPairsAreGood
      <4> QED BY <4>4, <4>5
    <3> QED BY <3>3, <3>6, <3>7, <3>8, <3>9, <3>10 DEF Kinds
  <2> QED BY <2>1, <2>2 DEF AllGood, n
<1> HIDE DEF M
<1>3. Nat \subseteq M
  BY <1>1, <1>2, NumberInduction
<1> QED BY <1>3 DEF M

-----------------------------------------------------------------------------
(* The result a method gives for an answer. *)

\* The fields of an answer without reply are of no type a result has.
Nothing(r) == r.type = "none" /\ r.element = <<>>

LEMMA NothingThrows ==
  ASSUME NEW r \in Replies, Nothing(r)
  PROVE  \A n \in Nat : \A T \in Types[n] : ParseAt[n][T][r] = Thrown
<1> DEFINE M == {n \in Nat : \A T \in Types[n] : ParseAt[n][T][r] = Thrown}
<1>1. 0 \in M
  <2>1. \A T \in Types[0] : FALSE
    BY TypeParts
  <2> QED BY <2>1
<1>2. ASSUME NEW k \in Nat, k \in M PROVE k + 1 \in M
  <2> DEFINE n == k + 1
  <2>1. n \in Nat /\ n - 1 = k /\ \A T \in Types[k] : ParseAt[k][T][r] = Thrown
    BY <1>2
  <2> HIDE DEF n
  <2>2. ASSUME NEW T \in Types[n] PROVE ParseAt[n][T][r] = Thrown
    <3> DEFINE below == ParseAt[k]
    <3>1. ParseAt[n][T][r] = ParseAs(below, T, r)
      BY <2>1, <2>2, ParseParts
    <3>2. T.k \in Kinds /\ (T.k = "optional" => below[T.of[1]][r] = Thrown)
      <4>1. T.k \in Kinds /\ (T.k = "optional" => T.of[1] \in Types[n - 1])
        BY <2>1, <2>2, TypeParts DEF WellFormed
      <4> QED BY <2>1, <4>1
    <3>3. ~IsArray(r) /\ ~IsNil(r) /\ r.type \notin {"STATUS", "STRING", "INTEGER"}
      BY DEF Nothing, IsArray, IsNil
    <3> HIDE DEF below
    <3>4. CASE T.k \in {"status", "string", "void"}
      BY <3>1, <3>3, <3>4 DEF ParseAs, ParseText, ParseVoid
    <3>5. CASE T.k \in {"number", "double", "bool"}
      <4>1. ParseNumber(r) = Thrown /\ ParseDecimal(r) = Thrown
        BY <3>3 DEF ParseNumber, ParseDecimal, ParseText
      <4>2. ParseBool(r) = Thrown
        BY <4>1, ValuesAreNotThrown DEF ParseBool
      <4> QED BY <3>1, <3>5, <4>1, <4>2 DEF ParseAs
    <3>6. CASE T.k \in {"optional", "tuple", "array", "pairs"}
      BY <3>1, <3>2, <3>3, <3>6 DEF ParseAs, ParseTuple, ParsePairs
    <3> QED BY <3>2, <3>4, <3>5, <3>6 DEF Kinds, Scalars
  <2> QED BY <2>1, <2>2 DEF n
<1> HIDE DEF M
<1>3. Nat \subseteq M
  BY <1>1, <1>2, NumberInduction
<1> QED BY <1>3 DEF M

\* The result types of the front end, by the methods that take them.
SoundWants(wants) ==
  /\ wants.T \in Types[Rank]
  /\ wants.how \in {"parse", "set", "georadius", "nonnil", "scan", "pending"}
  /\ wants.how = "set" => wants.T = Ty("bool")
  /\ wants.how = "georadius" => wants.T = Opt(Number)
  /\ wants.how = "nonnil" => wants.T.k = "array"
  /\ wants.how = "pending" => wants.T.k = "pairs"

LEMMA TypesAreMade ==
  ASSUME NEW n \in Nat
  PROVE  /\ \A k \in Scalars : Ty(k) \in Types[n + 1]
         /\ \A T \in Types[n] : Opt(T) \in Types[n + 1] /\ Out(T) \in Types[n + 1]
         /\ \A Ts \in Seq(Types[n]) : Tuple(Ts) \in Types[n + 1]
         /\ \A T, U \in Types[n] : T.k \in Scalars => OutPairs(T, U) \in Types[n + 1]
<1> DEFINE below == Types[n]
<1>1. Types[n + 1] = {T \in [k : Kinds, of : Seq(below)] : WellFormed(T)}
  <2>1. Types[n + 1] = TypesStep(Types[(n + 1) - 1], n + 1)
    BY TypesIsDefined
  <2>2. (n + 1) - 1 = n /\ n + 1 # 0
    OBVIOUS
  <2> QED BY <2>1, <2>2 DEF TypesStep
<1> HIDE DEF below
<1>2. \A k \in Scalars : Ty(k) \in Types[n + 1]
  BY <1>1 DEF Ty, WellFormed, Kinds, Scalars
<1>3. \A T \in below : Opt(T) \in Types[n + 1] /\ Out(T) \in Types[n + 1]
  BY <1>1 DEF Opt, Out, WellFormed, Kinds
<1>4. \A Ts \in Seq(below) : Tuple(Ts) \in Types[n + 1]
  BY <1>1 DEF Tuple, WellFormed, Kinds
<1>5. \A T, U \in below : T.k \in Scalars => OutPairs(T, U) \in Types[n + 1]
  BY <1>1 DEF OutPairs, WellFormed, Kinds
<1> QED BY <1>2, <1>3, <1>4, <1>5 DEF below

\* The types of rank 6, by which of them are of lower ranks.
LEMMA RanksGrow ==
  /\ Types[1] \subseteq Types[2] /\ Types[2] \subseteq Types[3] /\ Types[3] \subseteq Types[4]
  /\ Types[4] \subseteq Types[5] /\ Types[5] \subseteq Types[6]
<1>1. \A n \in Nat : Types[n] \subseteq Types[n + 1]
  BY TypesGrow
<1>2. /\ Types[1] \subseteq Types[1 + 1] /\ Types[2] \subseteq Types[2 + 1] /\ Types[3] \subseteq Types[3 + 1]
      /\ Types[4] \subseteq Types[4 + 1] /\ Types[5] \subseteq Types[5 + 1]
  BY <1>1
<1> QED BY <1>2

LEMMA ScalarTypes ==
  /\ \A k \in Scalars : Ty(k) \in Types[1]
  /\ \A T \in {String, Number, Double} : T.k \in Scalars
<1>1. \A k \in Scalars : Ty(k) \in Types[0 + 1]
  BY TypesAreMade
<1> QED BY <1>1 DEF String, Number, Double, Ty, Scalars

LEMMA ShortSequences ==
  ASSUME NEW set, NEW a \in set, NEW b \in set
  PROVE  /\ <<a, b>> \in Seq(set)
         /\ \A c, d \in set : <<a, b, c>> \in Seq(set) /\ <<a, b, c, d>> \in Seq(set)
OBVIOUS

LEMMA OptionalTypes ==
  \A n \in 1..5 : \A T \in Types[n] : Opt(T) \in Types[6] /\ Out(T) \in Types[6]
<1>1. \A n \in Nat : \A T \in Types[n] : Opt(T) \in Types[n + 1] /\ Out(T) \in Types[n + 1]
  BY TypesAreMade
<1>2. \A n \in 1..5 : Types[n] \subseteq Types[5]
  BY RanksGrow
<1>3. 5 + 1 = 6
  OBVIOUS
<1> QED BY <1>1, <1>2, <1>3

\* The types of keys, of fields and of entries.
LEMMA TypesOfResults ==
  /\ \A k \in Scalars : Ty(k) \in Types[6]
  /\ \A T \in {String, Number, Double} : Opt(T) \in Types[6] /\ Out(T) \in Types[6]
  /\ Out(Ty("bool")) \in Types[6] /\ Out(Opt(String)) \in Types[6]
  /\ Fields \in Types[6] /\ Scores \in Types[6]
  /\ \A T, U \in {String, Double} :
       Opt(Tuple(<<T, U>>)) \in Types[6] /\ Out(Opt(Tuple(<<T, U>>))) \in Types[6]
  /\ Opt(Tuple(<<String, String, Double>>)) \in Types[6]
  /\ Out(Tuple(<<String, String, Number, Number>>)) \in Types[6]
  /\ Out(Entry) \in Types[6] /\ Out(Tuple(<<String, Out(Entry)>>)) \in Types[6]
<1>1. \A k \in Scalars : Ty(k) \in Types[1]
  BY ScalarTypes
<1>2. String \in Types[1] /\ Number \in Types[1] /\ Double \in Types[1] /\ Ty("bool") \in Types[1]
  BY <1>1 DEF String, Number, Double, Scalars
<1>3. \A n \in 1..5 : \A Ts \in Seq(Types[n]) : Tuple(Ts) \in Types[n + 1]
  BY TypesAreMade
<1>4. /\ 1 \in 1..5 /\ 2 \in 1..5 /\ 3 \in 1..5 /\ 4 \in 1..5 /\ 5 \in 1..5
      /\ 1 + 1 = 2 /\ 2 + 1 = 3 /\ 3 + 1 = 4 /\ 4 + 1 = 5
  OBVIOUS
<1>5. Opt(String) \in Types[2]
  <2>1. \A T \in Types[1] : Opt(T) \in Types[1 + 1]
    BY TypesAreMade
  <2> QED BY <1>2, <1>4, <2>1
<1>6. Fields \in Types[2] /\ Scores \in Types[2]
  <2>1. \A T, U \in Types[1] : T.k \in Scalars => OutPairs(T, U) \in Types[1 + 1]
    BY TypesAreMade
  <2>2. String.k \in Scalars
    BY ScalarTypes
  <2> QED BY <1>2, <1>4, <2>1, <2>2 DEF Fields, Scores
<1>7. \A T, U \in {String, Double} : Tuple(<<T, U>>) \in Types[2]
  <2>1. \A T, U \in {String, Double} : <<T, U>> \in Seq(Types[1])
    BY <1>2, ShortSequences
  <2> QED BY <1>3, <1>4, <2>1
<1>8. Opt(Tuple(<<String, String>>)) \in Types[3] /\ \A T, U \in {String, Double} : Opt(Tuple(<<T, U>>)) \in Types[3]
  <2>1. \A T \in Types[2] : Opt(T) \in Types[2 + 1]
    BY TypesAreMade
  <2> QED BY <1>4, <1>7, <2>1
<1>9. Tuple(<<String, String, Double>>) \in Types[2] /\ Tuple(<<String, String, Number, Number>>) \in Types[2]
  <2>1. <<String, String, Double>> \in Seq(Types[1]) /\ <<String, String, Number, Number>> \in Seq(Types[1])
    BY <1>2, ShortSequences
  <2> QED BY <1>3, <1>4, <2>1
<1>10. Entry \in Types[3]
  <2>1. <<String, Fields>> \in Seq(Types[2])
    <3>1. String \in Types[2]
      BY <1>2, RanksGrow
    <3> QED BY <1>6, <3>1, ShortSequences
  <2> QED BY <1>3, <1>4, <2>1 DEF Entry
<1>11. Tuple(<<String, Out(Entry)>>) \in Types[5]
  <2>1. \A T \in Types[3] : Out(T) \in Types[3 + 1]
    BY TypesAreMade
  <2>2. Out(Entry) \in Types[4] /\ String \in Types[4]
    BY <1>2, <1>4, <1>10, <2>1, RanksGrow
  <2>3. <<String, Out(Entry)>> \in Seq(Types[4])
    BY <2>2, ShortSequences
  <2> QED BY <1>3, <1>4, <2>3
<1>12. \A n \in 1..5 : \A T \in Types[n] : Opt(T) \in Types[6] /\ Out(T) \in Types[6]
  BY OptionalTypes
<1>13. \A T \in {String, Number, Double} : Opt(T) \in Types[6] /\ Out(T) \in Types[6]
  BY <1>2, <1>4, <1>12
<1>14. \A T, U \in {String, Double} :
         Opt(Tuple(<<T, U>>)) \in Types[6] /\ Out(Opt(Tuple(<<T, U>>))) \in Types[6]
  BY <1>4, <1>7, <1>8, <1>12
<1>15. /\ \A k \in Scalars : Ty(k) \in Types[6]
       /\ Fields \in Types[6] /\ Scores \in Types[6]
  BY <1>1, <1>6, RanksGrow
<1>16. /\ Out(Ty("bool")) \in Types[6] /\ Out(Opt(String)) \in Types[6]
       /\ Opt(Tuple(<<String, String, Double>>)) \in Types[6]
       /\ Out(Tuple(<<String, String, Number, Number>>)) \in Types[6]
       /\ Out(Entry) \in Types[6] /\ Out(Tuple(<<String, Out(Entry)>>)) \in Types[6]
  BY <1>2, <1>4, <1>5, <1>9, <1>10, <1>11, <1>12
<1> QED BY <1>13, <1>14, <1>15, <1>16

LEMMA WantsAreSound ==
  ASSUME NEW T \in Types[Rank]
  PROVE  /\ \A how \in {"parse", "scan"} : SoundWants([how |-> how, T |-> T])
         /\ T = Ty("bool") => SoundWants([how |-> "set", T |-> T])
         /\ T = Opt(Number) => SoundWants([how |-> "georadius", T |-> T])
         /\ T.k = "array" => SoundWants([how |-> "nonnil", T |-> T])
         /\ T.k = "pairs" => SoundWants([how |-> "pending", T |-> T])
BY DEF SoundWants

LEMMA SectionsAreSound ==
  ASSUME NEW section \in Sections, NEW wants \in section.results
  PROVE  SoundWants(wants)
<1> DEFINE Known == Types[6]
           AllSound(set) == \A w \in set : SoundWants(w)
<1>1. Rank = 6
  BY DEF Rank
<1>2. \A Ts \in SUBSET Known : AllSound(Parsed(Ts)) /\ AllSound(By("scan", Ts))
  BY <1>1, WantsAreSound DEF Parsed, By
<1>3. /\ Ty("void") \in Known /\ Ty("status") \in Known /\ Ty("bool") \in Known
      /\ String \in Known /\ Number \in Known /\ Double \in Known
  BY TypesOfResults DEF String, Number, Double, Scalars
<1>4. /\ Opt(String) \in Known /\ Opt(Number) \in Known /\ Opt(Double) \in Known
      /\ Out(String) \in Known /\ Out(Opt(String)) \in Known /\ Out(Ty("bool")) \in Known
      /\ Fields \in Known /\ Scores \in Known
      /\ Opt(Tuple(<<String, String>>)) \in Known /\ Opt(Tuple(<<String, Double>>)) \in Known
      /\ Opt(Tuple(<<String, String, Double>>)) \in Known
      /\ Out(Opt(Tuple(<<Double, Double>>))) \in Known
      /\ Out(Tuple(<<String, String, Number, Number>>)) \in Known
      /\ Out(Entry) \in Known /\ Out(Tuple(<<String, Out(Entry)>>)) \in Known
  BY TypesOfResults
<1> HIDE DEF Known
<1>5. AllSound(By("set", {Ty("bool")})) /\ AllSound(By("georadius", {Opt(Number)}))
  BY <1>1, <1>3, <1>4, WantsAreSound DEF By, Known
<1>6. AllSound(By("nonnil", {Out(Tuple(<<String, Out(Entry)>>))}))
  <2>1. Out(Tuple(<<String, Out(Entry)>>)).k = "array"
    BY DEF Out
  <2> QED BY <1>1, <1>4, <2>1, WantsAreSound DEF By, Known
<1>7. AllSound(By("pending", {OutPairs(String, String)}))
  <2>1. Fields.k = "pairs" /\ OutPairs(String, String) = Fields
    BY DEF Fields, OutPairs
  <2> QED BY <1>1, <1>4, <2>1, WantsAreSound DEF By, Known
<1> HIDE DEF AllSound
<1>8. \A a, b : AllSound(a) /\ AllSound(b) => AllSound(a \cup b)
  BY DEF AllSound
<1>9. AllSound(ServerResults)
  BY <1>2, <1>3 DEF ServerResults
<1>10. AllSound(KeyResults) /\ AllSound(KeyOutputs)
  BY <1>2, <1>3, <1>4, <1>8 DEF KeyResults, KeyOutputs
<1>11. AllSound(StringResults) /\ AllSound(StringOutputs)
  BY <1>2, <1>3, <1>4, <1>5, <1>8 DEF StringResults, StringOutputs
<1>12. AllSound(ListResults) /\ AllSound(ListOutputs)
  BY <1>2, <1>3, <1>4 DEF ListResults, ListOutputs
<1>13. AllSound(HashResults) /\ AllSound(HashOutputs)
  BY <1>2, <1>3, <1>4, <1>8 DEF HashResults, HashOutputs
<1>14. AllSound(SetResults) /\ AllSound(SetOutputs)
  BY <1>2, <1>3, <1>4, <1>8 DEF SetResults, SetOutputs
<1>15. AllSound(SortedSetResults) /\ AllSound(SortedSetOutputs)
  BY <1>2, <1>3, <1>4, <1>8 DEF SortedSetResults, SortedSetOutputs
<1>16. AllSound(LogAndGeoResults) /\ AllSound(GeoOutputs)
  BY <1>2, <1>3, <1>4, <1>5, <1>8 DEF LogAndGeoResults, GeoOutputs
<1>17. AllSound(ScriptResults) /\ AllSound(ScriptOutputs)
  BY <1>2, <1>3, <1>4 DEF ScriptResults, ScriptOutputs
<1>18. AllSound(StreamResults) /\ AllSound(StreamOutputs)
  BY <1>2, <1>3, <1>4, <1>6, <1>7, <1>8 DEF StreamResults, StreamOutputs
<1>19. section.results \in {ServerResults, KeyResults \cup KeyOutputs, StringResults \cup StringOutputs,
                            ListResults \cup ListOutputs, HashResults \cup HashOutputs,
                            SetResults \cup SetOutputs, SortedSetResults \cup SortedSetOutputs,
                            LogAndGeoResults \cup GeoOutputs, ScriptResults \cup ScriptOutputs,
                            StreamResults \cup StreamOutputs}
  BY DEF Sections
<1>20. AllSound(section.results)
  BY <1>8, <1>9, <1>10, <1>11, <1>12, <1>13, <1>14, <1>15, <1>16, <1>17, <1>18, <1>19
<1> QED BY <1>20 DEF AllSound

\* What a method has parsed when it ends, of the reply it was given.
Rewritten(how, r) ==
  CASE how = "set" -> RewriteSet(r)
    [] how = "georadius" -> RewriteGeoradius(r)
    [] OTHER -> r

Given(wants, r) ==
  CASE wants.how = "scan"    -> ParseScan(wants.T, r)
    [] wants.how = "pending" -> ParsePending(wants.T, r)
    [] wants.how = "nonnil" /\ IsNil(r) -> Seq_(<<>>)
    [] OTHER -> Parse(wants.T, r)

\* A cursor cut to an int.
Cut(got, value) ==
  /\ got.k = "list" /\ got.e[2] = value.e[2] /\ value.e[1].n >= IntLimit
  /\ \E wraps \in 1 .. value.e[1].n : value.e[1].n = got.e[1].n + wraps * (2 * IntLimit)

Reads(wants, r, value) ==
  \/ Given(wants, Rewritten(wants.how, r)) = value
  \/ wants.how = "scan" /\ Cut(Given(wants, Rewritten(wants.how, r)), value)

\* A reply comes through the conversions, and the method gives its value.
IsRead(wants, m) ==
  Comes(m) /\ (m.reply \in Replies => Reads(wants, m.reply, m.value))

\* What the method gives for an answer: its value, or an exception if it has no reply.
Right(wants, r, value) ==
  IF r = NoReply THEN Given(wants, Rewritten(wants.how, r)) = Thrown
  ELSE Reads(wants, r, value)

\* What the proxy returns of a reply comes through the conversions and is right.
AnsweredRight(wants, m) ==
  LET r == Returned(m.reply)
  IN  /\ \A h \in Nat : r \in Trees[h] => Survives(h, r)
      /\ r \in Replies => Right(wants, r, m.value)

LEMMA NothingIsThrown ==
  ASSUME NEW wants, SoundWants(wants)
  PROVE  Given(wants, Rewritten(wants.how, NoReply)) = Thrown
<1> DEFINE r == NoReply
<1>1. Nothing(r) /\ r \in Replies
  BY NoReplyIsReply DEF Nothing, NoReply, Node
<1> HIDE DEF r
<1>2. ~IsArray(r) /\ ~IsNil(r) /\ ParseVoid(r) = Thrown /\ Len(r.element) # 2
  BY <1>1 DEF Nothing, IsArray, IsNil, ParseVoid
<1>3. Rewritten(wants.how, r) = r
  BY <1>2, ValuesAreNotThrown DEF Rewritten, RewriteSet, RewriteGeoradius
<1>4. Parse(wants.T, r) = Thrown
  BY <1>1, NothingThrows DEF Parse, SoundWants, Rank
<1>5. ParseScan(wants.T, r) = Thrown /\ ParsePending(wants.T, r) = Thrown
  BY <1>2 DEF ParseScan, ParsePending
<1>6. Given(wants, Rewritten(wants.how, r)) = Thrown
  BY <1>2, <1>3, <1>4, <1>5 DEF Given
<1> QED BY <1>6 DEF r

\* It is enough to look at the replies that the proxy returns.
LEMMA ReturnedIsRight ==
  ASSUME NEW wants, SoundWants(wants), NEW m,
         m.reply.type \notin {"ERROR", "NIL"} => IsRead(wants, m)
  PROVE  AnsweredRight(wants, m)
<1> DEFINE r == Returned(m.reply)
<1>1. CASE m.reply.type \in {"ERROR", "NIL"}
  <2>1. r = NoReply
    BY <1>1 DEF Returned
  <2>2. \A h \in Nat : NoReply \in Trees[h] => Survives(h, NoReply)
    BY LeavesCome, MeansParts DEF Comes
  <2> QED BY <2>1, <2>2, NothingIsThrown DEF AnsweredRight, Right
<1>2. CASE m.reply.type \notin {"ERROR", "NIL"}
  <2>1. r = m.reply
    BY <1>2 DEF Returned
  <2> QED BY <1>2, <2>1, NothingIsThrown DEF AnsweredRight, Right, IsRead, Comes
<1> QED BY <1>1, <1>2

LEMMA FailuresAreRight ==
  ASSUME NEW wants, SoundWants(wants), NEW m \in {Failure, Means(Thrown, NoReply)}
  PROVE  AnsweredRight(wants, m)
<1>1. CASE m = Failure
  <2>1. m.reply.type = "ERROR"
    BY <1>1, MeansParts DEF Failure, TextNode, Node
  <2> QED BY <2>1, ReturnedIsRight
<1>2. CASE m = Means(Thrown, NoReply)
  <2>1. m.value = Thrown /\ m.reply = NoReply /\ Comes(m)
    BY <1>2, MeansParts, LeavesCome
  <2>2. IsRead(wants, m)
    BY <2>1, NothingIsThrown DEF IsRead, Reads
  <2> QED BY <2>2, ReturnedIsRight
<1> QED BY <1>1, <1>2

\* What Redis writes for a value is good, and not nil for the output of a command.
LEMMA PlainIsGood ==
  ASSUME NEW T \in Types[Rank], NEW max \in Int, NEW m \in Encodings(T, max)
  PROVE  /\ Comes(m) /\ m.value # Thrown
         /\ m.reply \in Replies => Parse(T, m.reply) = m.value
         /\ IsNil(m.reply) => m.value = NoValue
         /\ T.k \in {"array", "pairs"} => ~IsNil(m.reply)
<1> DEFINE enc == EncodingsAt[Rank - 1]
<1>1. Rank \in Nat
  BY DEF Rank
<1>2. Good(Rank, T, m)
  BY <1>1, EncodingsAreGood DEF AllGood, Encodings
<1>3. m \in EncodingsAs(enc, T, max)
  BY <1>1, EncodingParts DEF Encodings
<1> HIDE DEF enc
<1>4. ASSUME T.k = "array" PROVE ~IsNil(m.reply)
  <2>1. PICK c : m = Listed(c)
    BY <1>3, <1>4 DEF EncodingsAs
  <2>2. \E e : m.reply = ArrayNode(e)
    BY <2>1, ListedParts
  <2> QED BY <2>2, ArrayParts
<1>5. ASSUME T.k = "pairs" PROVE ~IsNil(m.reply)
  <2>1. PICK c : m \in Paired(c)
    BY <1>3, <1>5 DEF EncodingsAs
  <2>2. \E e : m.reply = ArrayNode(e)
    BY <2>1, ListedParts DEF Paired, Listed, Means
  <2> QED BY <2>2, ArrayParts
<1> QED BY <1>2, <1>4, <1>5 DEF Good, Parse

LEMMA ParsedIsRead ==
  ASSUME NEW wants, SoundWants(wants), wants.how = "parse", NEW m \in Answers(wants)
  PROVE  IsRead(wants, m)
<1>1. m \in Encodings(wants.T, MaxElements) /\ wants.T \in Types[Rank]
  BY DEF Answers, SoundWants
<1>2. Comes(m) /\ (m.reply \in Replies => Parse(wants.T, m.reply) = m.value)
  BY <1>1, PlainIsGood, MaxElementsAssumption
<1>3. \A r : Given(wants, Rewritten(wants.how, r)) = Parse(wants.T, r)
  BY DEF Given, Rewritten
<1> QED BY <1>2, <1>3 DEF IsRead, Reads

LEMMA SetIsRead ==
  ASSUME NEW wants, SoundWants(wants), wants.how = "set", NEW m \in Answers(wants),
         ~IsNil(m.reply)
  PROVE  IsRead(wants, m)
<1> DEFINE T == Ty("bool")
           below == ParseAt[Rank - 1]
<1>1. wants.T = T /\ T \in Types[Rank] /\ Rank \in Nat
  BY DEF SoundWants, Rank
<1>2. \A r : Given(wants, Rewritten(wants.how, r)) = Parse(T, RewriteSet(r))
  BY <1>1 DEF Given, Rewritten
<1>3. \A r \in Replies : Parse(T, r) = ParseBool(r)
  <2>1. \A r \in Replies : Parse(T, r) = ParseAs(below, T, r)
    BY <1>1, ParseParts DEF Parse
  <2> HIDE DEF below
  <2> QED BY <2>1 DEF ParseAs, Ty
<1> HIDE DEF T
<1>4. \A r \in Replies, i \in {0, 1} :
        LET new == Node("INTEGER", r.str, i, r.element) IN new \in Replies /\ ParseBool(new) = Num(i)
  <2>1. ASSUME NEW r \in Replies, NEW i \in {0, 1}
        PROVE  LET new == Node("INTEGER", r.str, i, r.element) IN new \in Replies /\ ParseBool(new) = Num(i)
    <3> DEFINE new == Node("INTEGER", r.str, i, r.element)
    <3>1. new \in Replies
      <4>1. "INTEGER" \in ReplyTypes /\ i \in Int
        BY DEF ReplyTypes
      <4> QED BY <4>1, RetypedIsReply
    <3>2. new.type = "INTEGER" /\ new.integer = i
      BY DEF Node
    <3> HIDE DEF new
    <3>3. ParseBool(new) = Num(i)
      BY <3>2 DEF ParseBool, ParseNumber
    <3> QED BY <3>1, <3>3 DEF new
  <2> QED BY <2>1
<1>5. m = Means(Num(1), TextNode("STATUS", "OK"))
  BY MeansParts DEF Answers, IsNil, NilNode, Node
<1>6. m.value = Num(1) /\ m.reply.type = "STATUS" /\ m.reply.str = "OK"
  BY <1>5, MeansParts DEF TextNode, Node
<1>7. RewriteSet(m.reply) = Node("INTEGER", m.reply.str, 1, m.reply.element)
  BY <1>6 DEF RewriteSet, IsNil, ParseVoid
<1>8. Comes(m)
  BY <1>5, LeavesCome DEF StringTypes
<1>9. ASSUME m.reply \in Replies PROVE Given(wants, Rewritten(wants.how, m.reply)) = Num(1)
  <2> DEFINE r == m.reply
             new == Node("INTEGER", r.str, 1, r.element)
  <2>1. new \in Replies /\ ParseBool(new) = Num(1)
    BY <1>4, <1>9
  <2> HIDE DEF new
  <2>2. Given(wants, Rewritten(wants.how, r)) = Parse(T, new)
    BY <1>2, <1>7 DEF new
  <2> QED BY <1>3, <2>1, <2>2
<1> QED BY <1>6, <1>8, <1>9 DEF IsRead, Reads

LEMMA GeoradiusIsRead ==
  ASSUME NEW wants, SoundWants(wants), wants.how = "georadius", NEW m \in Answers(wants)
  PROVE  IsRead(wants, m)
<1> DEFINE T == Opt(Number)
           below == ParseAt[Rank - 1]
<1>1. wants.T = T /\ T \in Types[Rank] /\ Rank \in Nat
  BY DEF SoundWants, Rank
<1>2. \A r : Given(wants, Rewritten(wants.how, r)) = Parse(T, RewriteGeoradius(r))
  BY <1>1 DEF Given, Rewritten
<1>3. T.k = "optional" /\ T.of[1] = Number
  BY DEF Opt
<1>4. \A r \in Replies : IsNil(r) => Parse(T, r) = NoValue
  <2>1. \A r \in Replies : Parse(T, r) = ParseAs(below, T, r)
    BY <1>1, ParseParts DEF Parse
  <2> HIDE DEF below, T
  <2> QED BY <1>3, <2>1 DEF ParseAs
<1>5. \/ m = Means(NoValue, ArrayNode(<<>>))
      \/ m \in Encodings(T, MaxElements) /\ ~IsNil(m.reply)
  BY <1>1 DEF Answers
<1>6. CASE m = Means(NoValue, ArrayNode(<<>>))
  <2>1. m.value = NoValue /\ m.reply = ArrayNode(<<>>)
    BY <1>6, MeansParts
  <2>2. RewriteGeoradius(m.reply) = Node("NIL", m.reply.str, m.reply.integer, m.reply.element)
    BY <2>1 DEF RewriteGeoradius, ArrayNode, Node, IsArray
  <2>3. Comes(m)
    <3> DEFINE c == <<>>
    <3>1. DOMAIN c = {} /\ [j \in DOMAIN c |-> c[j].reply] = <<>>
      OBVIOUS
    <3> HIDE DEF c
    <3>2. Comes(Means(NoValue, ArrayNode([j \in DOMAIN c |-> c[j].reply])))
      BY <3>1, ArraysCome
    <3> QED BY <1>6, <3>1, <3>2
  <2>4. ASSUME m.reply \in Replies PROVE Given(wants, Rewritten(wants.how, m.reply)) = NoValue
    <3> DEFINE new == Node("NIL", m.reply.str, m.reply.integer, m.reply.element)
    <3>1. m.reply.integer \in Int
      BY <2>4, ReplyParts
    <3>2. new \in Replies /\ new.type = "NIL"
      BY <2>4, <3>1, RetypedIsReply DEF ReplyTypes
    <3> HIDE DEF new, T
    <3>3. Given(wants, Rewritten(wants.how, m.reply)) = Parse(T, new)
      BY <1>2, <2>2 DEF new
    <3> QED BY <1>4, <3>2, <3>3 DEF IsNil
  <2> QED BY <2>1, <2>3, <2>4 DEF IsRead, Reads
<1>7. CASE m \in Encodings(T, MaxElements) /\ ~IsNil(m.reply)
  <2> DEFINE enc == EncodingsAt[Rank - 1]
  <2>1. m \in EncodingsAs(enc, T, MaxElements)
    BY <1>1, <1>7, EncodingParts, MaxElementsAssumption DEF Encodings
  <2>2. m \in enc[Number][MaxElements]
    <3>1. m # Means(NoValue, NilNode)
      BY <1>7, MeansParts DEF NilNode, Node, IsNil
    <3> HIDE DEF enc, T
    <3> QED BY <1>3, <2>1, <3>1 DEF EncodingsAs
  <2>3. Good(Rank - 1, Number, m)
    <3>1. T.of[1] \in Types[Rank - 1] /\ Rank - 1 \in Nat
      BY <1>1, <1>3, TypeParts DEF WellFormed, Rank
    <3> QED BY <1>3, <2>2, <3>1, EncodingsAreGood, MaxElementsAssumption DEF AllGood
  <2>4. ~IsArray(m.reply)
    BY <2>3, ScalarTypes DEF Good
  <2>5. RewriteGeoradius(m.reply) = m.reply
    BY <2>4 DEF RewriteGeoradius
  <2> HIDE DEF T
  <2>6. Comes(m) /\ (m.reply \in Replies => Parse(T, m.reply) = m.value)
    BY <1>1, <1>7, PlainIsGood, MaxElementsAssumption
  <2> QED BY <1>2, <2>5, <2>6 DEF IsRead, Reads
<1> QED BY <1>5, <1>6, <1>7

LEMMA NonnilIsRead ==
  ASSUME NEW wants, SoundWants(wants), wants.how = "nonnil", NEW m \in Answers(wants),
         ~IsNil(m.reply)
  PROVE  IsRead(wants, m)
<1>1. wants.T \in Types[Rank]
  BY DEF SoundWants
<1>2. m \in Encodings(wants.T, MaxElements)
  BY MeansParts DEF Answers, NilNode, Node, IsNil
<1>3. Given(wants, Rewritten(wants.how, m.reply)) = Parse(wants.T, m.reply)
  BY DEF Given, Rewritten
<1>4. Comes(m) /\ (m.reply \in Replies => Parse(wants.T, m.reply) = m.value)
  BY <1>1, <1>2, PlainIsGood, MaxElementsAssumption
<1> QED BY <1>3, <1>4 DEF IsRead, Reads

\* What is left of a number assigned to an int, and how far it is from it.
LEMMA CutNumbers ==
  ASSUME NEW n \in Nat
  PROVE  \/ AsInt(n) = n
         \/ n >= IntLimit /\ \E wraps \in 1..n : n = AsInt(n) + wraps * (2 * IntLimit)
<1> DEFINE d == 2 * IntLimit
           q == n \div d
           m == n % d
<1>1. IntLimit \in Nat /\ IntLimit >= 1
  BY IntLimitAssumption
<1>2. d \in Nat /\ d >= 2 /\ d = IntLimit + IntLimit
  BY <1>1
<1>3. AsInt(n) = IF m >= IntLimit THEN m - d ELSE m
  BY DEF AsInt
<1> HIDE DEF d
<1>4. q \in Nat /\ m \in 0 .. d - 1 /\ n = d * q + m
  BY <1>2
<1> HIDE DEF q, m
<1>5. d * q >= 2 * q
  BY <1>2, <1>4
<1>6. CASE m < IntLimit /\ q = 0
  BY <1>1, <1>2, <1>3, <1>4, <1>6
<1>7. CASE m < IntLimit /\ q # 0
  <2>1. d * q >= d
    BY <1>2, <1>4, <1>7
  <2>2. n >= IntLimit /\ q \in 1..n
    BY <1>1, <1>2, <1>4, <1>5, <1>7, <2>1
  <2>3. n = AsInt(n) + q * d
    BY <1>1, <1>2, <1>3, <1>4, <1>7
  <2> QED BY <2>2, <2>3 DEF d
<1>8. CASE m >= IntLimit
  <2>1. d * (q + 1) = d * q + d /\ q + 1 \in Nat
    BY <1>2, <1>4
  <2>2. n >= IntLimit /\ q + 1 \in 1..n
    <3> DEFINE p == d * q
    <3>1. p \in Nat
      BY <1>2, <1>4
    <3>2. p >= 2 * q /\ n = p + m
      BY <1>4, <1>5
    <3> HIDE DEF p
    <3> QED BY <1>1, <1>2, <1>4, <1>8, <3>1, <3>2
  <2>3. n = AsInt(n) + (q + 1) * d
    <3> DEFINE p == d * q
    <3>1. p \in Nat /\ n = p + m /\ (q + 1) * d = p + d
      BY <1>2, <1>4
    <3> HIDE DEF p
    <3> QED BY <1>1, <1>2, <1>3, <1>4, <1>8, <3>1
  <2> QED BY <2>2, <2>3 DEF d
<1> QED BY <1>1, <1>2, <1>4, <1>6, <1>7, <1>8

\* An array of what is written for the elements of a result, one from each set.
LEMMA PickedParts ==
  ASSUME NEW sets, NEW k \in Nat, Len(sets) = k, DOMAIN sets = 1..k,
         \A j \in 1..k : \A x \in sets[j] : Comes(x),
         NEW c \in Picks(sets)
  PROVE  /\ Comes(Listed(c)) /\ IsArray(Listed(c).reply) /\ Len(Listed(c).reply.element) = k
         /\ Listed(c).value = Seq_([j \in 1..k |-> c[j].value])
         /\ \A j \in 1..k : c[j] \in sets[j] /\ Listed(c).reply.element[j] = c[j].reply
         /\ Listed(c).reply \in Replies => \A j \in 1..k : c[j].reply \in Replies
<1> DEFINE r == [j \in DOMAIN c |-> c[j].reply]
<1>1. DOMAIN c = 1..k /\ \A j \in 1..k : c[j] \in sets[j]
  BY PicksAreOfSets
<1>2. Listed(c).value = Seq_([j \in 1..k |-> c[j].value]) /\ Listed(c).reply = ArrayNode(r)
  BY <1>1, ListedParts
<1>3. Comes(Listed(c))
  <2>1. Comes(Means(Listed(c).value, ArrayNode(r)))
    BY <1>1, ArraysCome
  <2> QED BY <1>2, <2>1, MeansParts DEF Comes
<1>4. DOMAIN r = 1..k /\ Len(r) = k /\ \A j \in 1..k : r[j] = c[j].reply
  BY <1>1
<1> HIDE DEF r
<1>5. Listed(c).reply.element = r /\ IsArray(Listed(c).reply)
  BY <1>2, ArrayParts
<1>6. Listed(c).reply \in Replies => \A j \in 1..k : c[j].reply \in Replies
  BY <1>4, <1>5, ElementsAreReplies
<1> QED BY <1>1, <1>2, <1>3, <1>4, <1>5, <1>6

LEMMA CursorParts ==
  ASSUME NEW m \in Cursors
  PROVE  /\ Comes(m)
         /\ \E n \in Nat : m.value = Num(n) /\ ParseDecimal(m.reply) = Num(n)
<1> DEFINE enc == EncodingsAt[Rank - 1]
<1>1. m \in Encodings(Double, 0) /\ m.value.n >= 0 /\ Rank \in Nat
  BY DEF Cursors, Rank
<1>2. Double \in Types[Rank] /\ Double.k = "double"
  BY TypesOfResults DEF Rank, Double, Scalars, Ty
<1>3. m \in EncodingsAs(enc, Double, 0)
  BY <1>1, <1>2, EncodingParts DEF Encodings
<1>4. PICK t \in DOMAIN Numeric : m = Means(Num(Numeric[t]), TextNode("STRING", t))
  BY <1>2, <1>3 DEF EncodingsAs
<1>5. m.value = Num(Numeric[t]) /\ m.reply.type = "STRING" /\ m.reply.str = t
  BY <1>4, MeansParts DEF TextNode, Node
<1>6. m.value.n = Numeric[t]
  BY <1>5 DEF Num, Value
<1>7. Numeric[t] \in Nat
  BY <1>1, <1>6, NumericAssumption
<1>8. Str(t) # Thrown /\ Str(t).s = t
  BY ValuesAreNotThrown DEF Str, Value
<1>9. ParseDecimal(m.reply) = Num(Numeric[t])
  BY <1>5, <1>8 DEF ParseDecimal, ParseText
<1>10. Comes(m)
  BY <1>1, <1>2, PlainIsGood
<1> QED BY <1>5, <1>7, <1>9, <1>10

LEMMA ScanIsRead ==
  ASSUME NEW wants, SoundWants(wants), wants.how = "scan", NEW m \in Answers(wants)
  PROVE  IsRead(wants, m)
<1> DEFINE T == wants.T
           r == m.reply
           plain == Encodings(T, MaxElements)
           sets == <<Cursors, plain>>
<1>1. T \in Types[Rank]
  BY DEF SoundWants
<1>2. \A x \in plain : Comes(x) /\ x.value # Thrown /\ (x.reply \in Replies => Parse(T, x.reply) = x.value)
  BY <1>1, PlainIsGood, MaxElementsAssumption
<1>3. PICK c \in Picks(sets) : m = Listed(c)
  BY DEF Answers
<1> HIDE DEF plain
<1>4. Len(sets) = 2 /\ DOMAIN sets = 1..2 /\ sets[1] = Cursors /\ sets[2] = plain
  OBVIOUS
<1>5. \A j \in 1..2 : \A x \in sets[j] : Comes(x)
  BY <1>2, <1>4, CursorParts
<1> HIDE DEF sets
<1>6. /\ Comes(m) /\ IsArray(r) /\ Len(r.element) = 2
      /\ m.value = Seq_([j \in 1..2 |-> c[j].value])
      /\ \A j \in 1..2 : c[j] \in sets[j] /\ r.element[j] = c[j].reply
      /\ r \in Replies => \A j \in 1..2 : c[j].reply \in Replies
  <2>1. /\ Comes(Listed(c)) /\ IsArray(Listed(c).reply) /\ Len(Listed(c).reply.element) = 2
        /\ Listed(c).value = Seq_([j \in 1..2 |-> c[j].value])
        /\ \A j \in 1..2 : c[j] \in sets[j] /\ Listed(c).reply.element[j] = c[j].reply
        /\ Listed(c).reply \in Replies => \A j \in 1..2 : c[j].reply \in Replies
    BY <1>4, <1>5, PickedParts
  <2> QED BY <1>3, <2>1
<1>7. PICK n \in Nat : c[1].value = Num(n) /\ ParseDecimal(c[1].reply) = Num(n)
  BY <1>4, <1>6, CursorParts
<1>8. c[2] \in plain /\ r.element[1] = c[1].reply /\ r.element[2] = c[2].reply
  BY <1>4, <1>6
<1>9. m.value = Seq_(<<Num(n), c[2].value>>)
  BY <1>6, <1>7
<1>10. ASSUME r \in Replies PROVE Reads(wants, r, m.value)
  <2> DEFINE got == Seq_(<<Num(AsInt(n)), c[2].value>>)
  <2>1. Parse(T, r.element[2]) = c[2].value /\ c[2].value # Thrown
    BY <1>2, <1>6, <1>8, <1>10
  <2>2. ParseDecimal(r.element[1]) = Num(n) /\ Num(n) # Thrown /\ Num(n).n = n /\ Num(AsInt(n)) # Thrown
    BY <1>7, <1>8, ValuesAreNotThrown DEF Num, Value
  <2> HIDE DEF r, T
  <2>3. ParseScan(T, r) = Gather(<<Num(AsInt(n)), c[2].value>>)
    BY <1>6, <2>1, <2>2 DEF ParseScan
  <2>4. Gather(<<Num(AsInt(n)), c[2].value>>) = got
    BY <2>1, <2>2, GatherKeeps
  <2>5. Given(wants, Rewritten(wants.how, r)) = got
    BY <2>3, <2>4 DEF Given, Rewritten, T
  <2>6. CASE AsInt(n) = n
    BY <1>9, <2>5, <2>6 DEF Reads
  <2>7. CASE n >= IntLimit /\ \E wraps \in 1..n : n = AsInt(n) + wraps * (2 * IntLimit)
    <3>1. got.k = "list" /\ got.e[2] = c[2].value /\ got.e[1].n = AsInt(n)
      BY DEF Seq_, Num, Value
    <3>2. m.value.e[2] = c[2].value /\ m.value.e[1].n = n
      BY <1>9 DEF Seq_, Num, Value
    <3> HIDE DEF got
    <3>3. Cut(got, m.value)
      BY <2>7, <3>1, <3>2 DEF Cut
    <3> QED BY <2>5, <3>3 DEF Reads
  <2> QED BY <2>6, <2>7, CutNumbers
<1> QED BY <1>6, <1>10 DEF IsRead

LEMMA PendingIsRead ==
  ASSUME NEW wants, SoundWants(wants), wants.how = "pending", NEW m \in Answers(wants)
  PROVE  IsRead(wants, m)
<1> DEFINE T == wants.T
           id == Opt(String)
           r == m.reply
           plain == Encodings(T, MaxElements)
           ids == Encodings(id, 0)
           entries == plain \cup {Means(Seq_(<<>>), NilNode)}
           sets == <<Encodings(Number, 0), ids, ids, entries>>
<1>1. T \in Types[Rank] /\ T.k = "pairs" /\ id \in Types[Rank] /\ Number \in Types[Rank]
  BY TypesOfResults DEF SoundWants, Rank, Number, Scalars
<1>2. \A x \in plain : /\ Comes(x) /\ x.value # Thrown /\ ~IsNil(x.reply)
                       /\ x.reply \in Replies => Parse(T, x.reply) = x.value
  BY <1>1, PlainIsGood, MaxElementsAssumption
<1>3. \A x \in entries : /\ Comes(x) /\ x.value # Thrown
                         /\ x.reply \in Replies =>
                              (IF IsNil(x.reply) THEN Seq_(<<>>) ELSE Parse(T, x.reply)) = x.value
  <2> DEFINE nil == Means(Seq_(<<>>), NilNode)
  <2>1. Comes(nil) /\ nil.value = Seq_(<<>>) /\ IsNil(nil.reply) /\ nil.value # Thrown
    BY LeavesCome, ValuesAreNotThrown DEF Means, NilNode, Node, IsNil
  <2> HIDE DEF plain, nil
  <2> QED BY <1>2, <2>1 DEF nil
<1>4. \A x \in ids : /\ Comes(x) /\ x.value # Thrown
                     /\ x.reply \in Replies => Parse(id, x.reply) = x.value
  BY <1>1, PlainIsGood
<1>5. \A x \in Encodings(Number, 0) : /\ Comes(x) /\ x.value # Thrown
                                      /\ x.reply \in Replies => ParseNumber(x.reply) = x.value
  <2> DEFINE below == ParseAt[Rank - 1]
  <2>1. \A x \in Replies : Parse(Number, x) = ParseAs(below, Number, x)
    BY <1>1, ParseParts DEF Parse, Rank
  <2> HIDE DEF below
  <2>2. \A x \in Replies : Parse(Number, x) = ParseNumber(x)
    BY <2>1 DEF ParseAs, Number, Ty
  <2> QED BY <1>1, <2>2, PlainIsGood
<1>6. PICK c \in Picks(sets) : m = Listed(c)
  BY DEF Answers
<1> HIDE DEF ids, entries
<1>7. /\ Len(sets) = 4 /\ DOMAIN sets = 1..4 /\ sets[1] = Encodings(Number, 0)
      /\ sets[2] = ids /\ sets[3] = ids /\ sets[4] = entries
  OBVIOUS
<1>8. \A j \in 1..4 : \A x \in sets[j] : Comes(x) /\ x.value # Thrown
  BY <1>3, <1>4, <1>5, <1>7
<1> HIDE DEF sets
<1>9. /\ Comes(m) /\ IsArray(r) /\ Len(r.element) = 4
      /\ m.value = Seq_([j \in 1..4 |-> c[j].value])
      /\ \A j \in 1..4 : c[j] \in sets[j] /\ r.element[j] = c[j].reply
      /\ r \in Replies => \A j \in 1..4 : c[j].reply \in Replies
  <2>1. /\ Comes(Listed(c)) /\ IsArray(Listed(c).reply) /\ Len(Listed(c).reply.element) = 4
        /\ Listed(c).value = Seq_([j \in 1..4 |-> c[j].value])
        /\ \A j \in 1..4 : c[j] \in sets[j] /\ Listed(c).reply.element[j] = c[j].reply
        /\ Listed(c).reply \in Replies => \A j \in 1..4 : c[j].reply \in Replies
    BY <1>7, <1>8, PickedParts
  <2> QED BY <1>6, <2>1
<1>10. ASSUME r \in Replies PROVE Given(wants, Rewritten(wants.how, r)) = m.value
  <2> DEFINE e == r.element
             v == <<c[1].value, c[2].value, c[3].value, c[4].value>>
  <2>1. /\ ParseNumber(e[1]) = c[1].value /\ Parse(id, e[2]) = c[2].value
        /\ Parse(id, e[3]) = c[3].value
        /\ (IF IsNil(e[4]) THEN Seq_(<<>>) ELSE Parse(T, e[4])) = c[4].value
    BY <1>3, <1>4, <1>5, <1>7, <1>9, <1>10
  <2>2. id = [k |-> "optional", of |-> <<[k |-> "string", of |-> <<>>]>>]
    BY DEF Opt, String, Ty
  <2> HIDE DEF id, T
  <2>3. ParsePending(T, r) = Gather(v)
    BY <1>9, <2>1, <2>2 DEF ParsePending
  <2>4. \A j \in DOMAIN v : v[j] # Thrown
    BY <1>8, <1>9
  <2>5. m.value = Seq_(v)
    <3>1. [j \in 1..4 |-> c[j].value] = v
      OBVIOUS
    <3> QED BY <1>9, <3>1
  <2> HIDE DEF v
  <2>6. Gather(v) = Seq_(v)
    BY <2>4, GatherKeeps
  <2> QED BY <2>3, <2>5, <2>6 DEF Given, Rewritten, T
<1> QED BY <1>9, <1>10 DEF IsRead, Reads

LEMMA AnswersAreRight ==
  ASSUME NEW wants, SoundWants(wants), NEW m \in Answers(wants) \cup {Failure, Means(Thrown, NoReply)}
  PROVE  AnsweredRight(wants, m)
<1>1. CASE m \in {Failure, Means(Thrown, NoReply)}
  BY <1>1, FailuresAreRight
<1>2. CASE m \in Answers(wants)
  <2>1. ~IsNil(m.reply) => IsRead(wants, m)
    BY <1>2, ParsedIsRead, SetIsRead, GeoradiusIsRead, NonnilIsRead, ScanIsRead, PendingIsRead
       DEF SoundWants
  <2> QED BY <2>1, ReturnedIsRight DEF IsNil
<1> QED BY <1>1, <1>2

\* From the answer on, the method gives what is right for it: the reply it receives
\* is the one the proxy answered with, and what it has rewritten is what a rewrite of
\* it is.
ResultInv ==
  /\ pc \in {"idle", "built", "waiting", "answered", "received", "rewritten", "done", "crashed"}
  /\ pc \in {"idle", "built", "waiting"} => answer = NoAnswer
  /\ pc = "waiting" => SoundWants(call.wants)
  /\ pc \in {"answered", "received", "rewritten"} /\ answer.whose = "own" =>
       /\ Right(call.wants, answer.reply, answer.value)
       /\ pc = "answered" => reply_ \in {Null, answer.reply}
       /\ pc = "received" => held = answer.reply
       /\ pc = "rewritten" => held = Rewritten(call.wants.how, answer.reply)
  /\ ResultIsReply

LEMMA ResultInit == Init => ResultInv
BY DEF Init, ResultInv, ResultIsReply, NoAnswer

LEMMA ResultBegins ==
  ASSUME ResultInv, NEW section \in Sections,
         \/ \E words \in section.formats : Format(words)
         \/ \E wants \in section.results : SendFormatted(section, wants) \/ SendArgv(wants)
  PROVE  ResultInv'
<1>1. CASE \E words \in section.formats : Format(words)
  BY <1>1 DEF Format, Begin, ResultInv, ResultIsReply
<1>2. ASSUME NEW wants \in section.results, SendFormatted(section, wants) \/ SendArgv(wants)
      PROVE  ResultInv'
  <2>1. SoundWants(wants)
    BY SectionsAreSound
  <2>2. call' = [NoCall EXCEPT !.wants = wants] /\ UNCHANGED answer
    BY <1>2 DEF SendFormatted, SendArgv
  <2>3. call'.wants = wants
    BY <2>2 DEF NoCall
  <2>4. pc \in {"idle", "built"} /\ pc' \in {"answered", "waiting"}
    BY <1>2 DEF SendFormatted, SendArgv, Begin
  <2>5. answer'.whose # "own" /\ answer' = NoAnswer
    BY <2>2, <2>4 DEF ResultInv, NoAnswer
  <2> QED BY <2>1, <2>3, <2>4, <2>5 DEF ResultInv, ResultIsReply
<1> QED BY <1>1, <1>2

LEMMA ResultOfOwnAnswer ==
  ASSUME ResultInv, NEW m \in Answers(call.wants) \cup {Failure, Means(Thrown, NoReply)},
         Answer("own", m)
  PROVE  ResultInv'
<1> DEFINE r == Returned(m.reply)
<1>1. /\ pc = "waiting" /\ pc' = "answered" /\ m.reply \in Replies /\ UNCHANGED call
      /\ answer' = [whose |-> "own", reply |-> r, value |-> m.value]
      /\ \E o \in PbToReply(ReplyToPb(r)) : reply_' = o.reply
  BY DEF Answer
<1>2. AnsweredRight(call.wants, m)
  <2>1. SoundWants(call.wants)
    BY <1>1 DEF ResultInv
  <2> QED BY <2>1, AnswersAreRight
<1>3. r \in Replies
  BY <1>1, ReturnedIsReply
<1>4. Right(call.wants, r, m.value)
  BY <1>2, <1>3 DEF AnsweredRight
<1>5. Survives(Height, r)
  BY <1>2, <1>3, HeightAssumption DEF AnsweredRight, Replies
<1> HIDE DEF r
<1>6. reply_' \in {Null, r}
  <2>1. <<>> \in Paths
    BY DEF Paths
  <2> QED BY <1>1, <1>5, <2>1 DEF Survives, PbToReply, ReplyToPb
<1>7. answer'.reply = r /\ answer'.value = m.value
  BY <1>1
<1>8. Right(call.wants, answer.reply, answer.value)'
  BY <1>1, <1>4, <1>7 DEF Right, Reads, Given, Rewritten
<1> QED BY <1>1, <1>6, <1>7, <1>8 DEF ResultInv, ResultIsReply

LEMMA ResultOfOther ==
  ASSUME ResultInv, NEW m, Answer("other", m)
  PROVE  ResultInv'
BY DEF Answer, ResultInv, ResultIsReply

LEMMA ResultReceived == ResultInv /\ (Recv \/ Rewrite) => ResultInv'
<1> SUFFICES ASSUME ResultInv, Recv \/ Rewrite PROVE ResultInv'
  OBVIOUS
<1>1. /\ pc' \in {"received", "rewritten", "crashed"} /\ UNCHANGED <<answer, call>>
      /\ pc \in {"answered", "received"}
  BY DEF Recv, Rewrite
<1>2. Right(call.wants, answer.reply, answer.value) <=> Right(call.wants, answer.reply, answer.value)'
  BY <1>1 DEF Right, Reads, Given, Rewritten
<1>3. pc' = "received" /\ answer.whose = "own" => held' = answer.reply
  BY DEF Recv, Rewrite, ResultInv
<1>4. pc' = "rewritten" /\ answer.whose = "own" => held' = Rewritten(call.wants.how, answer.reply)
  BY DEF Recv, Rewrite, ResultInv, Rewritten
<1> QED BY <1>1, <1>2, <1>3, <1>4 DEF ResultInv, ResultIsReply, Rewritten

LEMMA ResultReturned == ResultInv /\ Return => ResultInv'
<1> SUFFICES ASSUME ResultInv, Return PROVE ResultInv'
  OBVIOUS
<1>1. /\ pc \in {"received", "rewritten"} /\ pc' = "done" /\ UNCHANGED <<answer, call>>
      /\ pc = "received" => call.wants.how \notin {"set", "georadius"}
      /\ result' = Given(call.wants, held)
  BY DEF Return, Given
<1>2. ASSUME answer.whose = "own"
      PROVE  IF answer.reply = NoReply THEN result' = Thrown
             ELSE result' = answer.value \/ CursorCut(result', answer.value)
  <2>1. Right(call.wants, answer.reply, answer.value) /\ held = Rewritten(call.wants.how, answer.reply)
    BY <1>1, <1>2 DEF ResultInv, Rewritten
  <2> QED BY <1>1, <2>1 DEF Right, Reads, Cut, CursorCut
<1>3. ResultIsReply'
  BY <1>1, <1>2 DEF ResultIsReply, CursorCut
<1> QED BY <1>1, <1>3 DEF ResultInv

LEMMA ResultStep == ResultInv /\ [Next]_vars => ResultInv'
<1> SUFFICES ASSUME ResultInv, [Next]_vars PROVE ResultInv'
  OBVIOUS
<1>1. CASE AnswerTimesOut
  BY <1>1 DEF AnswerTimesOut, ResultInv, ResultIsReply, NoAnswer
<1>2. CASE GoOn
  BY <1>2 DEF GoOn, ResultInv, ResultIsReply
<1>3. CASE UNCHANGED vars
  BY <1>3 DEF vars, ResultInv, ResultIsReply, CursorCut, Right, Reads, Given, Rewritten
<1> QED BY <1>1, <1>2, <1>3, ResultBegins, ResultOfOwnAnswer, ResultOfOther, ResultReceived,
           ResultReturned DEF Next

\* A call returns what Redis' reply stands for, for replies of every height and
\* width and for every result type of the front end: but a cursor too large for an
\* int is cut, and a call whose answer has no reply, which is how the proxy answers
\* for nil, for an error and for a command it could not send, ends in an exception.
THEOREM ResultsStayReplies == Spec => []ResultIsReply
<1>1. Init => ResultInv
  BY ResultInit
<1>2. ResultInv /\ [Next]_vars => ResultInv'
  BY ResultStep
<1>3. ResultInv => ResultIsReply
  BY DEF ResultInv
<1> QED BY <1>1, <1>2, <1>3, PTL DEF Spec
=============================================================================
