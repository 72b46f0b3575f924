---------------------------- MODULE GzMemberProofs ---------------------------
(***************************************************************************)
(* Theorems about a .gz member from its writer to its reader (module       *)
(* GzMember): for every input, cut into any chunks, every size of the hash *)
(* table and of the ring, and every timeout and clock, what uzlib_compress *)
(* writes and what arrives of it whole expands to a part of the input, and *)
(* in the end to all of it; and a byte is only given up after the timeout. *)
(*                                                                         *)
(* A road is a set of places of the stream where a block, a symbol, an empty*)
(* block or the trailer begins, each of which leads to the next one. The   *)
(* writer only ever adds to a road, whatever it finds in the hash table; and*)
(* the reader, whose state says where on the road it is, cannot leave it.  *)
(* The fixed codes are told apart by what they mean, not by enumeration.   *)
(***************************************************************************)
EXTENDS GzMember, FiniteSetTheorems, WellFoundedInduction, TLAPS

-----------------------------------------------------------------------------
(***************************************************************************)
(* Numbers: induction over them, and what a recursion over them defines.   *)
(***************************************************************************)
\* A set of naturals that is not empty has a least one.
LEMMA LeastOfNat ==
  ASSUME NEW S \in SUBSET Nat, S # {}
  PROVE  \E x \in S : \A y \in S : x <= y
<1> DEFINE R == OpToRel(<, Nat)
<1>1. PICK x \in S : \A y \in S : ~(<<y, x>> \in R)
  <2> HIDE DEF R
  <2>1. IsWellFoundedOn(R, Nat)
    BY NatLessThanWellFounded DEF R
  <2> QED
    BY <2>1, WFMin
<1>2. \A y \in S : <<y, x>> \in R <=> y < x
  BY DEF OpToRel
<1>3. \A y \in S : ~(y < x)
  BY <1>1, <1>2, Zenon
<1>4. \A y \in S : x <= y
  BY <1>3
<1> QED
  BY <1>4

\* What holds of 0, and of the successor of what it holds of, holds of every natural.
LEMMA Induction ==
  ASSUME NEW S, 0 \in S, \A n \in Nat : n \in S => n + 1 \in S
  PROVE  Nat \subseteq S
<1> DEFINE T == {n \in Nat : n \notin S}
<1>1. SUFFICES ASSUME T # {} PROVE FALSE
  OBVIOUS
<1>2. PICK x \in T : \A y \in T : x <= y
  BY <1>1, LeastOfNat
<1>3. x - 1 \in Nat /\ x - 1 \notin T
  BY <1>2
<1> QED
  BY <1>3

\* Of a recursion over D, which is 0..n or Nat: its steps, and the values that they lead to
\* from the first one. (Names for the provers, which do not match function sets.)
Steps(D, S) == [D \ {0} -> [S -> S]]
Leads(f, D, S, first, step) ==
  f \in [D -> S] /\ f[0] = first /\ \A k \in D \ {0} : f[k] = step[k][f[k - 1]]

\* A recursion over the numbers up to n defines a function.
LEMMA Recursion ==
  ASSUME NEW S, NEW n \in Nat, NEW first \in S, NEW step \in Steps(0..n, S)
  PROVE  \E f : Leads(f, 0..n, S, first, step)
<1> USE DEF Steps, Leads
<1> DEFINE Upto(m, f) == Leads(f, 0..m, S, first, step)
           T == {m \in Nat : m <= n => \E f : Upto(m, f)}
<1>1. 0 \in T
  <2> Upto(0, [k \in 0..0 |-> first])
    OBVIOUS
  <2> QED
    OBVIOUS
<1>2. ASSUME NEW m \in Nat, m \in T PROVE m + 1 \in T
  <2>1. SUFFICES ASSUME m + 1 <= n PROVE \E f : Upto(m + 1, f)
    OBVIOUS
  <2>2. PICK f : Upto(m, f)
    BY <1>2, <2>1
  <2> DEFINE h == [k \in 0..m+1 |-> IF k <= m THEN f[k] ELSE step[m + 1][f[m]]]
  <2>3. step[m + 1] \in [S -> S] /\ f[m] \in S
    BY <2>1, <2>2
  <2>4. h \in [0..m+1 -> S]
    BY <2>2, <2>3
  <2>5. ASSUME NEW k \in 1..m+1 PROVE h[k] = step[k][h[k - 1]]
    <3>1. k - 1 \in 0..m /\ h[k - 1] = f[k - 1]
      OBVIOUS
    <3>2. CASE k = m + 1
      BY <3>1, <3>2
    <3>3. CASE k <= m
      <4>1. h[k] = f[k] /\ f[k] = step[k][f[k - 1]]
        BY <3>3, <2>2
      <4> QED
        BY <4>1, <3>1
    <3> QED
      BY <3>2, <3>3
  <2>6. h[0] = first
    BY <2>2
  <2>7. Upto(m + 1, h)
    <3> HIDE DEF h
    <3> QED
      BY <2>4, <2>5, <2>6
  <2> QED
    <3> HIDE DEF h, Upto
    <3> QED
      BY <2>7
<1>3. Nat \subseteq T
  <2> HIDE DEF T
  <2> QED
    BY <1>1, <1>2, Induction
<1>4. PICK f : Upto(n, f)
  BY <1>3
<1> QED
  BY <1>4

\* A number that is so many times n, and r less than n, has the rest r.
LEMMA ModUnique ==
  ASSUME NEW q \in Nat, NEW n \in Nat \ {0}, NEW r \in 0..n-1
  PROVE  (q * n + r) % n = r
OBVIOUS

-----------------------------------------------------------------------------
(***************************************************************************)
(* Numbers and their bits.                                                 *)
(***************************************************************************)
Bit == {0, 1}

\* What a sequence holds.
LEMMA ElementOf ==
  ASSUME NEW S, NEW s \in Seq(S), NEW i \in 1..Len(s)
  PROVE  s[i] \in S
OBVIOUS

\* Two sequences, one after the other.
LEMMA Cat ==
  ASSUME NEW S, NEW u \in Seq(S), NEW v \in Seq(S)
  PROVE  /\ u \o v \in Seq(S) /\ Len(u \o v) = Len(u) + Len(v)
         /\ \A i \in 1..Len(u) : (u \o v)[i] = u[i]
         /\ \A i \in 1..Len(v) : (u \o v)[Len(u) + i] = v[i]
OBVIOUS

\* A part of a sequence.
LEMMA Part ==
  ASSUME NEW S, NEW s \in Seq(S), NEW i \in 1..Len(s)+1, NEW j \in i-1..Len(s)
  PROVE  /\ SubSeq(s, i, j) \in Seq(S) /\ Len(SubSeq(s, i, j)) = j - i + 1
         /\ \A x \in 1..j-i+1 : SubSeq(s, i, j)[x] = s[i + x - 1]
OBVIOUS

\* Two sequences of the same length and elements are the same.
LEMMA SameSeq ==
  ASSUME NEW S, NEW u \in Seq(S), NEW v \in Seq(S), Len(u) = Len(v), \A i \in 1..Len(u) : u[i] = v[i]
  PROVE  u = v
OBVIOUS

\* What does as the definition of a recursion says is what the recursion leads to.
LEMMA Follows ==
  ASSUME NEW S, NEW n \in Nat, NEW first \in S, NEW step \in Steps(0..n, S),
         NEW h, h = [k \in 0..n |-> h[k]], h[0] = first,
         \A k \in 1..n : h[k - 1] \in S => h[k] = step[k][h[k - 1]]
  PROVE  Leads(h, 0..n, S, first, step)
<1> DEFINE T == {k \in Nat : k <= n => h[k] \in S}
<1>1. 0 \in T
  OBVIOUS
<1>2. ASSUME NEW k \in Nat, k \in T PROVE k + 1 \in T
  <2>1. SUFFICES ASSUME k + 1 <= n PROVE h[k + 1] \in S
    OBVIOUS
  <2>2. k + 1 \in 1..n /\ (k + 1) - 1 = k /\ h[k] \in S /\ k + 1 \in (0..n) \ {0}
    BY <1>2, <2>1
  <2>3. h[k + 1] = step[k + 1][h[k]]
    BY <2>2
  <2>4. step[k + 1] \in [S -> S]
    BY <2>2 DEF Steps
  <2> QED
    BY <2>2, <2>3, <2>4
<1>3. Nat \subseteq T
  <2> HIDE DEF T
  <2> QED
    BY <1>1, <1>2, Induction
<1>4. \A k \in 0..n : h[k] \in S
  BY <1>3
<1>5. h \in [0..n -> S]
  BY <1>4
<1>6. \A k \in (0..n) \ {0} : h[k] = step[k][h[k - 1]]
  <2> TAKE k \in (0..n) \ {0}
  <2>1. k \in 1..n /\ h[k - 1] \in S
    BY <1>4
  <2> QED
    BY <2>1
<1> QED
  BY <1>5, <1>6 DEF Leads

\* A number, halved so many times.
HalvesOf(v, n, f) == [i \in 0..n |-> IF i = 0 THEN v ELSE f[i - 1] \div 2]
Halves(v, n) == CHOOSE half : half = HalvesOf(v, n, half)
HalfSteps(n) == [i \in (0..n) \ {0} |-> [x \in Nat |-> x \div 2]]

\* Halving a number again and again is a recursion.
LEMMA HalvesLead ==
  ASSUME NEW v \in Nat, NEW n \in Nat
  PROVE  Leads(Halves(v, n), 0..n, Nat, v, HalfSteps(n))
<1>1. HalfSteps(n) \in Steps(0..n, Nat)
  BY DEF Steps, HalfSteps
<1>2. PICK f : Leads(f, 0..n, Nat, v, HalfSteps(n))
  BY <1>1, Recursion
<1>3. f = HalvesOf(v, n, f)
  <2>1. f \in [0..n -> Nat] /\ f[0] = v
    BY <1>2 DEF Leads
  <2>2. ASSUME NEW k \in 1..n PROVE f[k] = f[k - 1] \div 2
    <3>1. k \in (0..n) \ {0} /\ f[k - 1] \in Nat
      BY <2>1
    <3>2. f[k] = HalfSteps(n)[k][f[k - 1]]
      BY <1>2, <3>1 DEF Leads
    <3> QED
      BY <3>1, <3>2 DEF HalfSteps
  <2> QED
    BY <2>1, <2>2 DEF HalvesOf
<1> DEFINE h == Halves(v, n)
<1>4. h = HalvesOf(v, n, h)
  BY <1>3 DEF Halves
<1> HIDE DEF h
<1>5. h = [k \in 0..n |-> h[k]] /\ h[0] = v
  BY <1>4 DEF HalvesOf
<1>7. \A k \in 1..n : h[k] = h[k - 1] \div 2
  BY <1>4 DEF HalvesOf
<1>6. ASSUME NEW k \in 1..n, h[k - 1] \in Nat PROVE h[k] = HalfSteps(n)[k][h[k - 1]]
  <2>1. k \in (0..n) \ {0} /\ h[k] = h[k - 1] \div 2
    BY <1>7
  <2>2. HalfSteps(n)[k] = [x \in Nat |-> x \div 2]
    BY <2>1 DEF HalfSteps
  <2> QED
    BY <1>6, <2>1, <2>2
<1> QED
  BY <1>1, <1>5, <1>6, Follows DEF h

\* And it does what it says.
LEMMA HalvesAre ==
  ASSUME NEW v \in Nat, NEW n \in Nat
  PROVE  /\ Halves(v, n) \in [0..n -> Nat] /\ Halves(v, n)[0] = v
         /\ \A k \in 1..n : Halves(v, n)[k] = Halves(v, n)[k - 1] \div 2
<1> DEFINE h == Halves(v, n)
<1> HIDE DEF h
<1>1. Leads(h, 0..n, Nat, v, HalfSteps(n))
  BY HalvesLead DEF h
<1>2. h \in [0..n -> Nat] /\ h[0] = v
  BY <1>1 DEF Leads
<1>3. ASSUME NEW k \in 1..n PROVE h[k] = h[k - 1] \div 2
  <2>1. k \in (0..n) \ {0} /\ h[k - 1] \in Nat
    BY <1>2
  <2>2. h[k] = HalfSteps(n)[k][h[k - 1]]
    BY <1>1, <2>1 DEF Leads
  <2> QED
    BY <2>1, <2>2 DEF HalfSteps
<1> QED
  BY <1>2, <1>3 DEF h

\* The bits of a number are the rests of its halves.
LEMMA BitsAre ==
  ASSUME NEW v \in Nat, NEW n \in Nat
  PROVE  /\ Bits(v, n) \in Seq(Bit) /\ Len(Bits(v, n)) = n
         /\ \A i \in 1..n : Bits(v, n)[i] = Halves(v, n)[i - 1] % 2
<1> DEFINE h == Halves(v, n)
<1>1. Bits(v, n) = [i \in 1..n |-> h[i - 1] % 2]
  BY DEF Bits, Halves, HalvesOf
<1> HIDE DEF h
<1>2. h \in [0..n -> Nat]
  BY HalvesAre DEF h
<1>3. \A i \in 1..n : h[i - 1] % 2 \in Bit
  <2> TAKE i \in 1..n
  <2>1. h[i - 1] \in Nat
    BY <1>2
  <2> QED
    BY <2>1 DEF Bit
<1>4. [i \in 1..n |-> h[i - 1] % 2] \in Seq(Bit)
  BY <1>3
<1> QED
  BY <1>1, <1>4 DEF h

\* The value of a sequence of bits, from its highest bit on.
HighsOf(b, f) ==
  [i \in 0..Len(b) |-> IF i = 0 THEN 0 ELSE 2 * f[i - 1] + b[Len(b) - i + 1]]
Highs(b) == CHOOSE high : high = HighsOf(b, high)
HighSteps(b) == [i \in (0..Len(b)) \ {0} |-> [x \in Nat |-> 2 * x + b[Len(b) - i + 1]]]

\* Reading a word from its high end, a bit at a time.
LEMMA HighsAre ==
  ASSUME NEW b \in Seq(Bit)
  PROVE  /\ Highs(b) \in [0..Len(b) -> Nat] /\ Highs(b)[0] = 0 /\ Value(b) = Highs(b)[Len(b)]
         /\ \A k \in 1..Len(b) : Highs(b)[k] = 2 * Highs(b)[k - 1] + b[Len(b) - k + 1]
<1> DEFINE n == Len(b)
<1>1. n \in Nat /\ \A i \in 1..n : b[i] \in Nat
  <2>1. \A i \in 1..n : b[i] \in Bit
    OBVIOUS
  <2> QED
    BY <2>1 DEF Bit
<1>2. \A i \in 1..n : b[n - i + 1] \in Nat
  BY <1>1
<1>3. HighSteps(b) \in Steps(0..n, Nat)
  <2>1. ASSUME NEW i \in (0..n) \ {0} PROVE [x \in Nat |-> 2 * x + b[n - i + 1]] \in [Nat -> Nat]
    <3>1. b[n - i + 1] \in Nat
      BY <1>2
    <3> QED
      BY <3>1
  <2> HIDE DEF n
  <2>2. [i \in (0..n) \ {0} |-> [x \in Nat |-> 2 * x + b[n - i + 1]]] \in [(0..n) \ {0} -> [Nat -> Nat]]
    BY <2>1
  <2> QED
    BY <2>2 DEF Steps, HighSteps, n
<1> HIDE DEF n
<1>4. PICK f : Leads(f, 0..n, Nat, 0, HighSteps(b))
  BY <1>1, <1>3, Recursion
<1>5. \A k \in 1..n : \A x \in Nat : HighSteps(b)[k][x] = 2 * x + b[n - k + 1]
  <2> TAKE k \in 1..n
  <2>1. k \in (0..n) \ {0}
    BY <1>1
  <2>2. HighSteps(b)[k] = [x \in Nat |-> 2 * x + b[n - k + 1]]
    BY <2>1 DEF HighSteps, n
  <2> QED
    BY <2>2
<1>6. f = HighsOf(b, f)
  <2>1. f \in [0..n -> Nat] /\ f[0] = 0
    BY <1>4 DEF Leads
  <2>2. ASSUME NEW k \in 1..n PROVE f[k] = 2 * f[k - 1] + b[n - k + 1]
    <3>1. k \in (0..n) \ {0} /\ f[k - 1] \in Nat
      BY <1>1, <2>1
    <3>2. f[k] = HighSteps(b)[k][f[k - 1]]
      BY <1>4, <3>1 DEF Leads
    <3> QED
      BY <1>5, <3>1, <3>2
  <2> QED
    BY <2>1, <2>2 DEF HighsOf, n
<1> DEFINE h == Highs(b)
<1>7. h = HighsOf(b, h)
  BY <1>6 DEF Highs
<1> HIDE DEF h
<1>8. h = [k \in 0..n |-> h[k]] /\ h[0] = 0
  BY <1>1, <1>7 DEF HighsOf, n
<1>13. \A k \in 1..n : h[k] = 2 * h[k - 1] + b[n - k + 1]
  BY <1>1, <1>7 DEF HighsOf, n
<1>9. \A k \in 1..n : h[k - 1] \in Nat => h[k] = HighSteps(b)[k][h[k - 1]]
  BY <1>5, <1>13
<1>10. Leads(h, 0..n, Nat, 0, HighSteps(b))
  BY <1>1, <1>3, <1>8, <1>9, Follows
<1>11. Value(b) = h[n]
  BY DEF Value, Highs, HighsOf, h, n
<1>12. h \in [0..n -> Nat]
  BY <1>10 DEF Leads
<1> QED
  BY <1>8, <1>11, <1>12, <1>13 DEF h, n

\* What a word says is a natural.
LEMMA ValueIsNat ==
  ASSUME NEW b \in Seq(Bit)
  PROVE  Value(b) \in Nat
<1>1. Highs(b) \in [0..Len(b) -> Nat] /\ Value(b) = Highs(b)[Len(b)] /\ Len(b) \in 0..Len(b)
  BY HighsAre
<1> QED
  BY <1>1

\* A number that n halves make nothing of is read back from its n bits.
LEMMA ValueOfBits ==
  ASSUME NEW v \in Nat, NEW n \in Nat, Halves(v, n)[n] = 0
  PROVE  Value(Bits(v, n)) = v
<1> DEFINE half == Halves(v, n)
           b == Bits(v, n)
           high == Highs(b)
<1>1. half \in [0..n -> Nat] /\ half[0] = v /\ half[n] = 0
      /\ \A k \in 1..n : half[k] = half[k - 1] \div 2
  BY HalvesAre
<1>2. b \in Seq(Bit) /\ Len(b) = n /\ \A i \in 1..n : b[i] = half[i - 1] % 2
  BY BitsAre
<1>3. high[0] = 0 /\ Value(b) = high[n]
      /\ \A k \in 1..n : high[k] = 2 * high[k - 1] + b[n - k + 1]
  BY <1>2, HighsAre
<1> HIDE DEF half, b, high
<1> DEFINE T == {k \in Nat : k <= n => high[k] = half[n - k]}
<1>4. 0 \in T
  BY <1>1, <1>3
<1>5. ASSUME NEW k \in Nat, k \in T PROVE k + 1 \in T
  <2>1. SUFFICES ASSUME k + 1 <= n PROVE high[k + 1] = half[n - (k + 1)]
    OBVIOUS
  <2>2. k + 1 \in 1..n /\ n - k \in 1..n /\ high[k] = half[n - k]
    BY <1>5, <2>1
  <2>3. high[k + 1] = 2 * high[k] + b[n - k]
    BY <1>3, <2>2
  <2>4. half[n - k] = half[n - k - 1] \div 2 /\ b[n - k] = half[n - k - 1] % 2
    BY <1>1, <1>2, <2>2
  <2>5. half[n - k - 1] \in Nat
    BY <1>1, <2>2
  <2> QED
    BY <2>2, <2>3, <2>4, <2>5
<1>6. Nat \subseteq T
  <2> HIDE DEF T
  <2> QED
    BY <1>4, <1>5, Induction
<1> QED
  BY <1>1, <1>3, <1>6 DEF b

\* The powers of two.
Powers == <<
  2, 4, 8, 16, 32, 64, 128, 256, 512, 1024, 2048, 4096, 8192, 16384, 32768, 65536, 131072,
  262144, 524288, 1048576, 2097152, 4194304, 8388608, 16777216, 33554432, 67108864, 134217728,
  268435456, 536870912, 1073741824, 2147483648, 4294967296 >>

\* The table of the powers of two.
LEMMA PowersDouble ==
  /\ Powers[1] = 2 /\ \A k \in 1..32 : Powers[k] \in Nat
  /\ \A k \in 2..32 : Powers[k] = 2 * Powers[k - 1]
BY DEF Powers

\* A word of n bits says less than 2^n.
LEMMA ValueIsSmall ==
  ASSUME NEW b \in Seq(Bit), Len(b) \in 1..32
  PROVE  Value(b) < Powers[Len(b)]
<1> DEFINE n == Len(b)
           high == Highs(b)
<1>1. high \in [0..n -> Nat] /\ high[0] = 0 /\ Value(b) = high[n] /\ n \in 1..32
  BY HighsAre
<1>2. \A k \in 1..n : high[k] = 2 * high[k - 1] + b[n - k + 1]
  BY HighsAre
<1>3. \A i \in 1..n : b[i] \in 0..1
  BY ElementOf DEF Bit
<1> HIDE DEF n, high
<1>4. ASSUME NEW k \in 0..n-1 PROVE high[k] \in Nat /\ high[k + 1] <= 2 * high[k] + 1
  <2>1. k + 1 \in 1..n /\ (k + 1) - 1 = k /\ n - (k + 1) + 1 \in 1..n
    BY <1>1
  <2>2. high[k + 1] = 2 * high[k] + b[n - (k + 1) + 1]
    BY <1>2, <2>1
  <2>3. b[n - (k + 1) + 1] \in 0..1 /\ high[k] \in Nat
    BY <1>1, <1>3, <2>1
  <2> QED
    BY <2>2, <2>3
<1> DEFINE T == {k \in Nat : k + 1 <= n => high[k + 1] < Powers[k + 1]}
<1>5. 0 \in T
  <2>1. 0 \in 0..n-1 /\ high[0] = 0 /\ Powers[1] = 2 /\ 0 + 1 = 1
    BY <1>1, PowersDouble
  <2>2. high[0 + 1] <= 1
    BY <1>1, <1>4, <2>1
  <2> QED
    BY <1>1, <2>1, <2>2
<1>6. ASSUME NEW k \in Nat, k \in T PROVE k + 1 \in T
  <2>1. SUFFICES ASSUME (k + 1) + 1 <= n PROVE high[(k + 1) + 1] < Powers[(k + 1) + 1]
    OBVIOUS
  <2>2. k + 1 \in 0..n-1 /\ k + 1 \in 1..32 /\ (k + 1) + 1 \in 2..32 /\ ((k + 1) + 1) - 1 = k + 1
    BY <1>1, <2>1
  <2>3. high[(k + 1) + 1] <= 2 * high[k + 1] + 1 /\ high[k + 1] \in Nat
    BY <1>4, <2>2
  <2>4. Powers[(k + 1) + 1] = 2 * Powers[k + 1] /\ Powers[k + 1] \in Nat
    BY <2>2, PowersDouble
  <2>5. high[k + 1] < Powers[k + 1]
    BY <1>1, <1>6, <2>1, <2>2
  <2>6. high[(k + 1) + 1] \in Nat
    BY <1>1, <2>1
  <2> QED
    BY <2>3, <2>4, <2>5, <2>6
<1>7. Nat \subseteq T
  <2> HIDE DEF T
  <2> QED
    BY <1>5, <1>6, Induction
<1>8. n - 1 \in T /\ (n - 1) + 1 = n
  <2> HIDE DEF T
  <2> QED
    BY <1>1, <1>7
<1> QED
  BY <1>1, <1>8 DEF n

\* Bits are read back from their value.
LEMMA BitsOfValue ==
  ASSUME NEW b \in Seq(Bit)
  PROVE  Bits(Value(b), Len(b)) = b
<1> DEFINE n == Len(b)
           high == Highs(b)
           half == Halves(Value(b), n)
           bits1 == Bits(Value(b), n)
<1>1. high \in [0..n -> Nat] /\ Value(b) = high[n] /\ n \in Nat
      /\ \A k \in 1..n : high[k] = 2 * high[k - 1] + b[n - k + 1]
  BY HighsAre
<1>2. Value(b) \in Nat
  BY ValueIsNat
<1> HIDE DEF n
<1>3. half[0] = Value(b) /\ \A k \in 1..n : half[k] = half[k - 1] \div 2
  BY <1>1, <1>2, HalvesAre
<1>4. bits1 \in Seq(Bit) /\ Len(bits1) = n /\ \A i \in 1..n : bits1[i] = half[i - 1] % 2
  BY <1>1, <1>2, BitsAre
<1>5. \A i \in 1..n : b[i] \in 0..1
  BY DEF Bit, n
<1> HIDE DEF high, half, bits1
<1>6. ASSUME NEW k \in 1..n PROVE high[k] \div 2 = high[k - 1] /\ high[k] % 2 = b[n - k + 1]
  <2>1. high[k - 1] \in Nat /\ b[n - k + 1] \in 0..1 /\ high[k] = 2 * high[k - 1] + b[n - k + 1]
    BY <1>1, <1>5
  <2> QED
    BY <2>1
<1> DEFINE T == {k \in Nat : k <= n => half[k] = high[n - k]}
<1>7. 0 \in T
  BY <1>1, <1>3
<1>8. ASSUME NEW k \in Nat, k \in T PROVE k + 1 \in T
  <2>1. SUFFICES ASSUME k + 1 <= n PROVE half[k + 1] = high[n - (k + 1)]
    OBVIOUS
  <2>2. k + 1 \in 1..n /\ n - k \in 1..n /\ half[k] = high[n - k]
    BY <1>1, <1>8, <2>1
  <2>3. half[k + 1] = half[k] \div 2
    BY <1>3, <2>2
  <2>4. high[n - k] \div 2 = high[(n - k) - 1]
    BY <1>6, <2>2
  <2> QED
    BY <1>1, <2>2, <2>3, <2>4
<1>9. Nat \subseteq T
  <2> HIDE DEF T
  <2> QED
    BY <1>7, <1>8, Induction
<1>10. \A i \in 1..n : bits1[i] = b[i]
  <2> TAKE i \in 1..n
  <2>1. i - 1 \in Nat /\ i - 1 <= n /\ n - (i - 1) \in 1..n /\ n - (n - (i - 1)) + 1 = i
    BY <1>1
  <2>2. half[i - 1] = high[n - (i - 1)] /\ high[n - (i - 1)] % 2 = b[i]
    BY <1>6, <1>9, <2>1
  <2> QED
    BY <1>4, <2>2
<1>11. Len(bits1) = Len(b)
  BY <1>4 DEF n
<1> QED
  BY <1>4, <1>10, <1>11 DEF bits1, n

\* Nothing is left of a number of n bits after n halves.
LEMMA HalvesEnd ==
  ASSUME NEW n \in 1..32, NEW v \in Nat, v < Powers[n]
  PROVE  Halves(v, n)[n] = 0
<1> DEFINE half == Halves(v, n)
<1>1. n \in Nat
  OBVIOUS
<1>2. half \in [0..n -> Nat] /\ half[0] = v /\ \A k \in 1..n : half[k] = half[k - 1] \div 2
  BY <1>1, HalvesAre
<1> HIDE DEF half
<1> DEFINE T == {k \in Nat : k < n => half[k] < Powers[n - k]}
<1>3. 0 \in T
  <2>1. Powers[n] \in Nat /\ n - 0 = n
    BY PowersDouble
  <2> QED
    BY <1>2, <2>1
<1>4. ASSUME NEW k \in Nat, k \in T PROVE k + 1 \in T
  <2>1. SUFFICES ASSUME k + 1 < n PROVE half[k + 1] < Powers[n - (k + 1)]
    OBVIOUS
  <2>2. n - k \in 2..32 /\ k + 1 \in 1..n /\ half[k] < Powers[n - k]
    BY <1>4, <2>1
  <2>3. half[k] \in Nat /\ half[k + 1] = half[k] \div 2
    BY <1>2, <2>2
  <2>4. Powers[n - k] = 2 * Powers[n - (k + 1)] /\ Powers[n - (k + 1)] \in Nat
    <3>1. n - (k + 1) = (n - k) - 1 /\ n - (k + 1) \in 1..32
      BY <2>2
    <3> QED
      BY <2>2, <3>1, PowersDouble
  <2> QED
    BY <2>2, <2>3, <2>4
<1>5. Nat \subseteq T
  <2> HIDE DEF T
  <2> QED
    BY <1>3, <1>4, Induction
<1>6. half[n - 1] < 2 /\ half[n] = half[n - 1] \div 2 /\ half[n - 1] \in Nat
  <2>1. n - 1 \in T /\ n - (n - 1) = 1 /\ n - 1 \in 0..n /\ n - 1 < n
    BY <1>5
  <2>2. half[n - 1] < Powers[1] /\ Powers[1] = 2
    BY <2>1, PowersDouble
  <2> QED
    BY <1>2, <2>1, <2>2
<1> QED
  BY <1>6 DEF half

\* A number that fits in n bits is what its n bits say.
LEMMA ValueOfFew ==
  ASSUME NEW n \in 1..32, NEW v \in Nat, v < Powers[n]
  PROVE  Value(Bits(v, n)) = v
<1>1. n \in Nat
  OBVIOUS
<1> QED
  BY <1>1, HalvesEnd, ValueOfBits

\* A byte, of its bits, and back.
LEMMA BitsOfByte ==
  ASSUME NEW byte \in Byte
  PROVE  Bits(byte, 8) \in Seq(Bit) /\ Len(Bits(byte, 8)) = 8 /\ Value(Bits(byte, 8)) = byte
<1>1. 8 \in 1..32 /\ byte < Powers[8] /\ byte \in Nat
  BY DEF Powers, Byte
<1> QED
  BY <1>1, ValueOfFew, BitsAre

\* What fewer than 32 bits do not hold: the size of the data.
LEMMA ValueOfWord ==
  ASSUME NEW v \in Nat, v \div 65536 < 65536
  PROVE  Value(Bits(v, 32)) = v
<1>1. v < 4294967296
  BY SMT
<1>2. 32 \in 1..32 /\ Powers[32] = 4294967296
  BY SMT DEF Powers
<1>3. v < Powers[32]
  BY <1>1, <1>2, SMT
<1> QED
  BY <1>2, <1>3, ValueOfFew, SMT

-----------------------------------------------------------------------------
(***************************************************************************)
(* Bytes as a stream of bits.                                              *)
(***************************************************************************)
Flat(m) == [i \in 1..8 * Len(m) |-> Bits(m[((i - 1) \div 8) + 1], 8)[((i - 1) % 8) + 1]]

\* The bits of a sequence of bytes.
LEMMA FlatIs ==
  ASSUME NEW m \in Seq(Byte)
  PROVE  /\ Flat(m) \in Seq(Bit) /\ Len(Flat(m)) = 8 * Len(m)
         /\ \A k \in 0..Len(m)-1, j \in 1..8 : Flat(m)[8 * k + j] = Bits(m[k + 1], 8)[j]
<1> DEFINE n == Len(m)
           B(k) == Bits(m[k + 1], 8)
<1>1. n \in Nat
  OBVIOUS
<1>2. \A k \in 0..n-1 : B(k) \in Seq(Bit) /\ Len(B(k)) = 8
  <2> TAKE k \in 0..n-1
  <2>1. m[k + 1] \in Byte
    OBVIOUS
  <2> QED
    BY <2>1, BitsOfByte
<1>3. Flat(m) = [i \in 1..8 * n |-> B((i - 1) \div 8)[((i - 1) % 8) + 1]]
  BY DEF Flat
<1> HIDE DEF n, B
<1>4. ASSUME NEW i \in 1..8 * n PROVE B((i - 1) \div 8)[((i - 1) % 8) + 1] \in Bit
  <2>1. (i - 1) \div 8 \in 0..n-1 /\ ((i - 1) % 8) + 1 \in 1..8
    BY <1>1
  <2> DEFINE k == (i - 1) \div 8
             j == ((i - 1) % 8) + 1
  <2> HIDE DEF k, j
  <2>2. B(k) \in Seq(Bit) /\ Len(B(k)) = 8 /\ j \in 1..8
    BY <1>2, <2>1 DEF k, j
  <2>3. B(k)[j] \in Bit
    BY <2>2, ElementOf
  <2> QED
    BY <2>3 DEF k, j
<1>5. ASSUME NEW k \in 0..n-1, NEW j \in 1..8 PROVE Flat(m)[8 * k + j] = B(k)[j]
  <2>1. 8 * k + j \in 1..8 * n /\ ((8 * k + j) - 1) \div 8 = k /\ (((8 * k + j) - 1) % 8) + 1 = j
    BY <1>1
  <2> QED
    BY <1>3, <2>1
<1>6. 8 * n \in Nat
  BY <1>1
<1>7. Flat(m) \in Seq(Bit) /\ Len(Flat(m)) = 8 * n
  <2> DEFINE L == 8 * n
             g(i) == B((i - 1) \div 8)[((i - 1) % 8) + 1]
  <2>1. \A i \in 1..L : g(i) \in Bit
    BY <1>4
  <2> HIDE DEF L, g
  <2>2. [i \in 1..L |-> g(i)] \in Seq(Bit) /\ Len([i \in 1..L |-> g(i)]) = L
    BY <1>6, <2>1 DEF L
  <2> QED
    BY <1>3, <2>2 DEF L, g
<1> QED
  BY <1>5, <1>7 DEF n, B

\* Place k of the stream is in byte (k - 1) \div 8.
LEMMA Places ==
  ASSUME NEW n \in Nat, NEW i \in 1..8 * n
  PROVE  \E k \in 0..n-1, j \in 1..8 : i = 8 * k + j
<1> DEFINE k == (i - 1) \div 8
           j == ((i - 1) % 8) + 1
<1>1. k \in 0..n-1 /\ j \in 1..8 /\ i = 8 * k + j
  OBVIOUS
<1> HIDE DEF k, j
<1> QED
  BY <1>1

\* The bits of two sequences of bytes, one after the other.
LEMMA FlatCat ==
  ASSUME NEW m \in Seq(Byte), NEW x \in Seq(Byte)
  PROVE  Flat(m \o x) = Flat(m) \o Flat(x)
<1> DEFINE n == Len(m)
           r == Len(x)
           f == Flat(m)
           g == Flat(x)
           h == Flat(m \o x)
<1>1. n \in Nat /\ r \in Nat /\ m \o x \in Seq(Byte) /\ Len(m \o x) = n + r
  OBVIOUS
<1>2. f \in Seq(Bit) /\ Len(f) = 8 * n
      /\ \A k \in 0..n-1, j \in 1..8 : f[8 * k + j] = Bits(m[k + 1], 8)[j]
  BY FlatIs
<1>3. g \in Seq(Bit) /\ Len(g) = 8 * r
      /\ \A k \in 0..r-1, j \in 1..8 : g[8 * k + j] = Bits(x[k + 1], 8)[j]
  BY FlatIs
<1>4. h \in Seq(Bit) /\ Len(h) = 8 * Len(m \o x)
      /\ \A k \in 0..Len(m \o x)-1, j \in 1..8 : h[8 * k + j] = Bits((m \o x)[k + 1], 8)[j]
  BY <1>1, FlatIs
<1>5. \A k \in 0..n-1 : (m \o x)[k + 1] = m[k + 1]
  OBVIOUS
<1>6. \A k \in 0..r-1 : (m \o x)[n + k + 1] = x[k + 1]
  OBVIOUS
<1> HIDE DEF n, r, f, g, h
<1>11. /\ f \o g \in Seq(Bit) /\ Len(f \o g) = 8 * n + 8 * r
       /\ \A i \in 1..8 * n : (f \o g)[i] = f[i]
       /\ \A i \in 1..8 * r : (f \o g)[8 * n + i] = g[i]
  <2>1. f \in Seq(Bit) /\ g \in Seq(Bit)
    BY <1>2, <1>3, Zenon
  <2>3. Len(f) = 8 * n /\ Len(g) = 8 * r
    BY <1>2, <1>3, Zenon
  <2>2. /\ f \o g \in Seq(Bit) /\ Len(f \o g) = Len(f) + Len(g)
        /\ \A i \in 1..Len(f) : (f \o g)[i] = f[i]
        /\ \A i \in 1..Len(g) : (f \o g)[Len(f) + i] = g[i]
    BY <2>1, Cat
  <2> QED
    BY <2>2, <2>3, Zenon
<1>7. ASSUME NEW i \in 1..8 * n PROVE h[i] = (f \o g)[i]
  <2>1. PICK k \in 0..n-1, j \in 1..8 : i = 8 * k + j
    BY <1>1, Places
  <2>2. h[8 * k + j] = Bits((m \o x)[k + 1], 8)[j]
    <3>1. k \in 0..Len(m \o x)-1
      BY <1>1
    <3> QED
      BY <1>4, <3>1
  <2>3. f[8 * k + j] = Bits(m[k + 1], 8)[j]
    BY <1>2
  <2>4. h[i] = f[i]
    BY <1>5, <2>1, <2>2, <2>3
  <2>5. (f \o g)[i] = f[i]
    BY <1>11
  <2> QED
    BY <2>4, <2>5
<1>8. ASSUME NEW i \in 1..8 * r PROVE h[8 * n + i] = (f \o g)[8 * n + i]
  <2>1. PICK k \in 0..r-1, j \in 1..8 : i = 8 * k + j
    BY <1>1, Places
  <2>2. n + k \in 0..Len(m \o x)-1 /\ 8 * (n + k) + j = 8 * n + i /\ (n + k) + 1 = n + k + 1
    BY <1>1, <2>1
  <2>3. h[8 * n + i] = Bits((m \o x)[n + k + 1], 8)[j]
    BY <1>4, <2>2
  <2>4. g[8 * k + j] = Bits(x[k + 1], 8)[j]
    BY <1>3
  <2>5. h[8 * n + i] = g[i]
    BY <1>6, <2>1, <2>3, <2>4
  <2>6. (f \o g)[8 * n + i] = g[i]
    BY <1>11
  <2> QED
    BY <2>5, <2>6
<1>9. h \in Seq(Bit) /\ Len(h) = Len(f \o g) /\ Len(f \o g) = 8 * n + 8 * r /\ f \o g \in Seq(Bit)
  <2>1. h \in Seq(Bit) /\ Len(h) = 8 * Len(m \o x)
    BY <1>4, Zenon
  <2> QED
    BY <1>1, <1>11, <2>1
<1>10. \A i \in 1..Len(h) : h[i] = (f \o g)[i]
  <2> TAKE i \in 1..Len(h)
  <2>1. CASE i <= 8 * n
    <3>1. i \in 1..8 * n
      BY <1>1, <1>9, <2>1
    <3> QED
      BY <1>7, <3>1
  <2>2. CASE i > 8 * n
    <3>1. i - 8 * n \in 1..8 * r /\ 8 * n + (i - 8 * n) = i
      BY <1>1, <1>9, <2>2
    <3> QED
      BY <1>8, <3>1
  <2>3. i <= 8 * n \/ i > 8 * n
    <3>1. i \in Nat
      OBVIOUS
    <3> QED
      BY <1>1, <3>1
  <2> QED
    BY <2>1, <2>2, <2>3, Zenon
<1>12. h = f \o g
  BY <1>9, <1>10
<1> QED
  BY <1>12 DEF f, g, h

\* The whole bytes of a sequence of bits.
Packed(b, n) == [i \in 1..n |-> Value(SubSeq(b, 8 * i - 7, 8 * i))]

\* Bits packed into bytes come apart again.
LEMMA FlatOfPacked ==
  ASSUME NEW b \in Seq(Bit), NEW n \in Nat, 8 * n <= Len(b)
  PROVE  Packed(b, n) \in Seq(Byte) /\ Len(Packed(b, n)) = n
         /\ Flat(Packed(b, n)) = SubSeq(b, 1, 8 * n)
<1> DEFINE m == Packed(b, n)
           part(i) == SubSeq(b, 8 * i - 7, 8 * i)
<1>1. ASSUME NEW i \in 1..n
      PROVE  /\ part(i) \in Seq(Bit) /\ Len(part(i)) = 8
             /\ \A j \in 1..8 : part(i)[j] = b[8 * (i - 1) + j]
  <2>1. 8 * i - 7 \in 1..Len(b) /\ 8 * i \in 1..Len(b) /\ 8 * i - (8 * i - 7) + 1 = 8
    OBVIOUS
  <2>2. \A j \in 1..8 : (8 * i - 7) + j - 1 = 8 * (i - 1) + j
    OBVIOUS
  <2> DEFINE u == 8 * i - 7
             w == 8 * i
  <2> HIDE DEF u, w
  <2>3. u \in 1..Len(b) /\ w \in 1..Len(b) /\ w - u + 1 = 8
    BY <2>1 DEF u, w
  <2>4. SubSeq(b, u, w) \in Seq(Bit) /\ Len(SubSeq(b, u, w)) = 8
        /\ \A j \in 1..8 : SubSeq(b, u, w)[j] = b[u + j - 1]
    BY <2>3
  <2> QED
    BY <2>2, <2>4 DEF u, w
<1>2. ASSUME NEW i \in 1..n PROVE Value(part(i)) \in Byte /\ Bits(Value(part(i)), 8) = part(i)
  <2>1. part(i) \in Seq(Bit) /\ Len(part(i)) = 8
    BY <1>1
  <2> HIDE DEF part
  <2>2. Bits(Value(part(i)), 8) = part(i)
    BY <2>1, BitsOfValue
  <2>3. Powers[8] = 256 /\ Len(part(i)) \in 1..32
    BY <2>1 DEF Powers
  <2>4. Value(part(i)) \in Nat /\ Value(part(i)) < Powers[8]
    BY <2>1, <2>3, ValueIsNat, ValueIsSmall
  <2> QED
    <3>1. Value(part(i)) \in Byte
      <4> DEFINE v == Value(part(i))
      <4> HIDE DEF v
      <4>1. v \in Nat /\ v < 256
        BY <2>3, <2>4 DEF v
      <4>2. v \in Byte
        BY <4>1 DEF Byte
      <4> QED
        BY <4>2 DEF v
    <3> QED
      BY <2>2, <3>1, Zenon
<1>3. m = [i \in 1..n |-> Value(part(i))]
  BY DEF Packed
<1> HIDE DEF part, m
<1>4. m \in Seq(Byte) /\ Len(m) = n /\ \A i \in 1..n : m[i] = Value(part(i))
  BY <1>2, <1>3
<1>5. Flat(m) \in Seq(Bit) /\ Len(Flat(m)) = 8 * n
      /\ \A k \in 0..n-1, j \in 1..8 : Flat(m)[8 * k + j] = Bits(m[k + 1], 8)[j]
  BY <1>4, FlatIs
<1> DEFINE s == SubSeq(b, 1, 8 * n)
<1>6. s \in Seq(Bit) /\ Len(s) = 8 * n /\ \A i \in 1..8 * n : s[i] = b[i]
  OBVIOUS
<1> HIDE DEF s
<1>7. ASSUME NEW i \in 1..8 * n PROVE Flat(m)[i] = s[i]
  <2>1. PICK k \in 0..n-1, j \in 1..8 : i = 8 * k + j
    BY Places
  <2>2. k + 1 \in 1..n /\ (k + 1) - 1 = k
    OBVIOUS
  <2>3. Flat(m)[8 * k + j] = Bits(m[k + 1], 8)[j]
    BY <1>5
  <2>4. Bits(m[k + 1], 8) = part(k + 1)
    BY <1>2, <1>4, <2>2
  <2>5. part(k + 1)[j] = b[8 * k + j]
    BY <1>1, <2>2
  <2> QED
    BY <1>6, <2>1, <2>3, <2>4, <2>5
<1>8. Flat(m) = s
  BY <1>5, <1>6, <1>7
<1> QED
  BY <1>4, <1>8 DEF m, s

\* At place p of a stream (the places before it are p) is this word.
Spells(s, p, w) == p + Len(w) <= Len(s) /\ \A i \in 1..Len(w) : s[p + i] = w[i]

\* Two words, one after the other.
LEMMA SpellsBoth ==
  ASSUME NEW s \in Seq(Bit), NEW p \in Nat, NEW u \in Seq(Bit), NEW w \in Seq(Bit)
  PROVE  Spells(s, p, u \o w) <=> Spells(s, p, u) /\ Spells(s, p + Len(u), w)
<1> DEFINE a == Len(u)
           b == Len(w)
<1>1. a \in Nat /\ b \in Nat /\ Len(u \o w) = a + b /\ Len(s) \in Nat
  BY Cat
<1>2. \A i \in 1..a : (u \o w)[i] = u[i]
  BY Cat
<1>3. \A i \in 1..b : (u \o w)[a + i] = w[i]
  BY Cat
<1> HIDE DEF a, b
<1>4. ASSUME Spells(s, p, u \o w) PROVE Spells(s, p, u) /\ Spells(s, p + Len(u), w)
  <2>1. p + (a + b) <= Len(s) /\ \A i \in 1..a + b : s[p + i] = (u \o w)[i]
    BY <1>1, <1>4 DEF Spells
  <2>2. ASSUME NEW i \in 1..a PROVE s[p + i] = u[i]
    <3>1. i \in 1..a + b
      BY <1>1
    <3> QED
      BY <1>2, <2>1, <3>1
  <2>3. ASSUME NEW i \in 1..b PROVE s[(p + a) + i] = w[i]
    <3>1. a + i \in 1..a + b /\ p + (a + i) = (p + a) + i
      BY <1>1
    <3> QED
      BY <1>3, <2>1, <3>1
  <2>4. p + a <= Len(s) /\ (p + a) + b <= Len(s)
    BY <1>1, <2>1
  <2> QED
    BY <2>2, <2>3, <2>4 DEF Spells, a, b
<1>5. ASSUME Spells(s, p, u), Spells(s, p + Len(u), w) PROVE Spells(s, p, u \o w)
  <2>1. (p + a) + b <= Len(s)
    BY <1>5 DEF Spells, a, b
  <2>2. \A i \in 1..a : s[p + i] = u[i]
    BY <1>5 DEF Spells, a
  <2>3. \A i \in 1..b : s[(p + a) + i] = w[i]
    BY <1>5 DEF Spells, a, b
  <2>4. ASSUME NEW i \in 1..a + b PROVE s[p + i] = (u \o w)[i]
    <3>1. CASE i <= a
      <4>1. i \in 1..a
        BY <1>1, <3>1
      <4> QED
        BY <1>2, <2>2, <4>1
    <3>2. CASE i > a
      <4>1. i - a \in 1..b /\ a + (i - a) = i /\ (p + a) + (i - a) = p + i
        BY <1>1, <3>2
      <4> QED
        BY <1>3, <2>3, <4>1
    <3>3. i <= a \/ i > a
      BY <1>1
    <3> QED
      BY <3>1, <3>2, <3>3, Zenon
  <2>5. p + (a + b) <= Len(s)
    BY <1>1, <2>1
  <2> QED
    BY <1>1, <2>4, <2>5 DEF Spells
<1> QED
  BY <1>4, <1>5, Zenon

\* What a stream spells, it still does when it goes on.
LEMMA SpellsOn ==
  ASSUME NEW s \in Seq(Bit), NEW t \in Seq(Bit), Spells(t, 0, s), NEW p \in Nat, NEW w \in Seq(Bit),
         Spells(s, p, w)
  PROVE  Spells(t, p, w)
<1>1. Len(s) \in Nat /\ Len(t) \in Nat /\ Len(w) \in Nat /\ Len(s) <= Len(t) /\ p + Len(w) <= Len(s)
  BY DEF Spells
<1>2. \A i \in 1..Len(s) : t[i] = s[i]
  BY DEF Spells
<1>3. \A i \in 1..Len(w) : s[p + i] = w[i]
  BY DEF Spells
<1>4. ASSUME NEW i \in 1..Len(w) PROVE t[p + i] = w[i]
  <2>1. p + i \in 1..Len(s)
    BY <1>1
  <2> QED
    BY <1>2, <1>3, <2>1
<1> QED
  BY <1>1, <1>4 DEF Spells

\* A stream spells what it is made of.
LEMMA SpellsItself ==
  ASSUME NEW s \in Seq(Bit), NEW u \in Seq(Bit)
  PROVE  Spells(s \o u, 0, s) /\ Spells(s \o u, Len(s), u)
<1>1. s \o u \in Seq(Bit) /\ Len(s \o u) = Len(s) + Len(u) /\ Len(s) \in Nat /\ Len(u) \in Nat
  BY Cat
<1>2. \A i \in 1..Len(s) : (s \o u)[i] = s[i]
  BY Cat
<1>3. \A i \in 1..Len(u) : (s \o u)[Len(s) + i] = u[i]
  BY Cat
<1>4. Spells(s \o u, 0, s)
  BY <1>1, <1>2 DEF Spells
<1> QED
  BY <1>1, <1>3, <1>4 DEF Spells

\* OutBits keeps every bit: those of the whole bytes are in the member, the others wait.
LEMMA OutBitsKeepsAll ==
  ASSUME NEW pending \in Seq(Bit), NEW w \in Seq(Bit), NEW bytes \in Seq(Byte),
         member \in Seq(Byte), OutBits(pending, w, bytes)
  PROVE  \E k \in Nat, u \in Seq(Bit) :
           /\ member' \in Seq(Byte) /\ outbits' \in Seq(Bit)
           /\ pending \o w = u \o outbits' /\ Len(u) = 8 * k /\ Len(outbits') < 8
           /\ Flat(member') = (Flat(member) \o u) \o Flat(bytes)
           /\ Spells(member', 0, member) /\ Len(member') = Len(member) + k + Len(bytes)
<1> DEFINE all == pending \o w
           k == Len(all) \div 8
           u == SubSeq(all, 1, 8 * k)
           v == SubSeq(all, 8 * k + 1, Len(all))
           body == Packed(all, k)
<1>1. all \in Seq(Bit) /\ Len(all) \in Nat
  BY Cat
<1>2. member' = (member \o body) \o bytes /\ outbits' = v
  BY DEF OutBits, Packed
<1> HIDE DEF all
<1>3. k \in Nat /\ 8 * k <= Len(all) /\ Len(all) < 8 * k + 8
  BY <1>1
<1> HIDE DEF k
<1>4. u \in Seq(Bit) /\ Len(u) = 8 * k /\ \A i \in 1..8 * k : u[i] = all[i]
  BY <1>1, <1>3
<1>5. v \in Seq(Bit) /\ Len(v) = Len(all) - 8 * k /\ \A i \in 1..Len(all) - 8 * k : v[i] = all[8 * k + i]
  <2>1. 8 * k + 1 \in 1..Len(all)+1 /\ Len(all) \in (8 * k + 1)-1..Len(all)
    BY <1>1, <1>3
  <2> DEFINE i == 8 * k + 1
             j == Len(all)
  <2> HIDE DEF i, j
  <2>2. SubSeq(all, i, j) \in Seq(Bit) /\ Len(SubSeq(all, i, j)) = j - i + 1
        /\ \A x \in 1..j-i+1 : SubSeq(all, i, j)[x] = all[i + x - 1]
    BY <1>1, <2>1, Part DEF i, j
  <2>3. j - i + 1 = Len(all) - 8 * k /\ \A x \in 1..j-i+1 : i + x - 1 = 8 * k + x
    BY <1>1, <1>3 DEF i, j
  <2>4. v = SubSeq(all, i, j)
    BY DEF i, j
  <2> QED
    BY <2>2, <2>3, <2>4
<1>6. body \in Seq(Byte) /\ Len(body) = k /\ Flat(body) = u
  BY <1>1, <1>3, FlatOfPacked
<1> HIDE DEF u, v, body
<1>7. u \o v = all
  <2> DEFINE both == u \o v
  <2>1. both \in Seq(Bit) /\ Len(both) = Len(u) + Len(v)
        /\ (\A i \in 1..Len(u) : both[i] = u[i]) /\ \A i \in 1..Len(v) : both[Len(u) + i] = v[i]
    <3>1. u \in Seq(Bit) /\ v \in Seq(Bit)
      BY <1>4, <1>5, Zenon
    <3> QED
      BY <3>1, Cat
  <2> HIDE DEF both
  <2>2. Len(both) = Len(all)
    BY <1>1, <1>3, <1>4, <1>5, <2>1
  <2>3. ASSUME NEW i \in 1..Len(all) PROVE both[i] = all[i]
    <3>1. CASE i <= 8 * k
      <4>1. i \in 1..8 * k /\ i \in 1..Len(u)
        BY <1>3, <1>4, <3>1
      <4> QED
        BY <1>4, <2>1, <4>1
    <3>2. CASE i > 8 * k
      <4>1. i - 8 * k \in 1..Len(all) - 8 * k /\ 8 * k + (i - 8 * k) = i
        BY <1>1, <1>3, <3>2
      <4>2. i - 8 * k \in 1..Len(v) /\ Len(u) + (i - 8 * k) = i
        BY <1>4, <1>5, <4>1
      <4>3. both[i] = v[i - 8 * k]
        BY <2>1, <4>2
      <4> QED
        BY <1>5, <4>1, <4>3
    <3>3. i <= 8 * k \/ i > 8 * k
      BY <1>1, <1>3
    <3> QED
      BY <3>1, <3>2, <3>3, Zenon
  <2>4. both = all
    <3>1. both \in Seq(Bit) /\ all \in Seq(Bit)
      BY <1>1, <2>1, Zenon
    <3>2. \A i \in 1..Len(both) : both[i] = all[i]
      BY <2>2, <2>3
    <3> QED
      BY <2>2, <3>1, <3>2, SameSeq
  <2> QED
    BY <2>4 DEF both
<1>8. Len(v) < 8
  BY <1>1, <1>3, <1>5
<1>9. member \o body \in Seq(Byte) /\ member' \in Seq(Byte)
  BY <1>2, <1>6, Cat
<1>10. Flat(member') = (Flat(member) \o u) \o Flat(bytes)
  <2>1. Flat(member \o body) = Flat(member) \o u
    BY <1>6, FlatCat
  <2>2. Flat((member \o body) \o bytes) = Flat(member \o body) \o Flat(bytes)
    BY <1>9, FlatCat
  <2> QED
    BY <1>2, <2>1, <2>2, Zenon
<1>11. Len(member') = Len(member) + k + Len(bytes) /\ Spells(member', 0, member)
  <2> DEFINE mb == member \o body
  <2>1. mb \in Seq(Byte) /\ Len(mb) = Len(member) + k /\ \A i \in 1..Len(member) : mb[i] = member[i]
    BY <1>6, Cat
  <2> HIDE DEF mb
  <2>2. Len(mb \o bytes) = Len(mb) + Len(bytes) /\ \A i \in 1..Len(mb) : (mb \o bytes)[i] = mb[i]
    BY <2>1, Cat
  <2>3. member' = mb \o bytes
    BY <1>2 DEF mb
  <2>4. Len(member) \in Nat /\ Len(bytes) \in Nat
    OBVIOUS
  <2>5. Len(member') = Len(member) + k + Len(bytes)
    BY <2>1, <2>2, <2>3
  <2>6. \A i \in 1..Len(member) : member'[0 + i] = member[i]
    BY <1>3, <2>1, <2>2, <2>3, <2>4
  <2> QED
    BY <1>3, <2>4, <2>5, <2>6 DEF Spells
<1>12. pending \o w = u \o outbits' /\ outbits' \in Seq(Bit) /\ Len(outbits') < 8
  BY <1>2, <1>5, <1>7, <1>8 DEF all
<1> QED
  BY <1>3, <1>4, <1>9, <1>10, <1>11, <1>12

\* What is held of a stream and is as long as a word of it begins with that word; the rest
\* is what comes after it.
LEMMA WordIsRead ==
  ASSUME NEW s \in Seq(Bit), NEW p \in Nat, NEW b \in Seq(Bit), NEW w \in Seq(Bit),
         Spells(s, p, b), Spells(s, p, w), Len(w) <= Len(b)
  PROVE  /\ SubSeq(b, 1, Len(w)) = w /\ ReadBits(b, Len(w)) = Value(w)
         /\ \A i \in 1..Len(w) : b[i] = w[i]
         /\ Drop(b, Len(w)) \in Seq(Bit) /\ Len(Drop(b, Len(w))) = Len(b) - Len(w)
         /\ Spells(s, p + Len(w), Drop(b, Len(w)))
<1> DEFINE n == Len(w)
           len == Len(b)
           rest == SubSeq(b, n + 1, len)
           front == SubSeq(b, 1, n)
<1>1. n \in Nat /\ len \in Nat /\ n <= len
  OBVIOUS
<1>2. p + len <= Len(s) /\ (\A i \in 1..len : s[p + i] = b[i]) /\ \A i \in 1..n : s[p + i] = w[i]
  BY DEF Spells
<1>3. 1 \in 1..Len(b)+1 /\ n \in 1-1..Len(b) /\ n + 1 \in 1..Len(b)+1 /\ len \in (n + 1)-1..Len(b)
  OBVIOUS
<1>7. b \in Seq(Bit) /\ w \in Seq(Bit) /\ Len(w) = n /\ Len(b) = len
  OBVIOUS
<1> HIDE DEF n, len
<1>4. front \in Seq(Bit) /\ Len(front) = n /\ \A x \in 1..n : front[x] = b[x]
  BY <1>1, <1>3, Part
<1>5. rest \in Seq(Bit) /\ Len(rest) = len - n /\ \A x \in 1..len-n : rest[x] = b[n + x]
  <2>1. rest \in Seq(Bit) /\ Len(rest) = len - (n + 1) + 1
        /\ \A x \in 1..len - (n + 1) + 1 : rest[x] = b[(n + 1) + x - 1]
    BY <1>3, Part
  <2>2. len - (n + 1) + 1 = len - n /\ \A x \in 1..len-n : (n + 1) + x - 1 = n + x
    BY <1>1
  <2> QED
    BY <2>1, <2>2
<1> HIDE DEF front, rest
<1>6. \A i \in 1..n : b[i] = w[i]
  BY <1>1, <1>2
<1>8. front = w
  BY <1>4, <1>6, <1>7, SameSeq
<1>9. Spells(s, p + n, rest)
  <2>1. (p + n) + Len(rest) <= Len(s)
    BY <1>1, <1>2, <1>5
  <2>2. ASSUME NEW i \in 1..Len(rest) PROVE s[(p + n) + i] = rest[i]
    <3>1. i \in 1..len-n /\ n + i \in 1..len /\ (p + n) + i = p + (n + i)
      BY <1>1, <1>5
    <3> QED
      BY <1>2, <1>5, <3>1
  <2> QED
    BY <2>1, <2>2 DEF Spells
<1> QED
  BY <1>5, <1>6, <1>8, <1>9 DEF ReadBits, Drop, n, len, rest, front

\* What is held stays a part of the stream with the next byte of it.
LEMMA ByteIsTaken ==
  ASSUME NEW m \in Seq(Byte), NEW n \in 0..Len(m)-1, NEW b \in Seq(Bit), Len(b) <= 8 * n,
         Spells(Flat(m), 8 * n - Len(b), b)
  PROVE  /\ b \o Bits(m[n + 1], 8) \in Seq(Bit) /\ Len(b \o Bits(m[n + 1], 8)) = Len(b) + 8
         /\ Spells(Flat(m), 8 * n - Len(b), b \o Bits(m[n + 1], 8))
<1> DEFINE u == Bits(m[n + 1], 8)
           p == 8 * n - Len(b)
<1>1. m[n + 1] \in Byte
  OBVIOUS
<1>2. u \in Seq(Bit) /\ Len(u) = 8
  BY <1>1, BitsOfByte
<1>3. Flat(m) \in Seq(Bit) /\ Len(Flat(m)) = 8 * Len(m) /\ \A j \in 1..8 : Flat(m)[8 * n + j] = u[j]
  BY FlatIs
<1>4. p \in Nat /\ p + Len(b) = 8 * n
  OBVIOUS
<1> HIDE DEF u
<1>5. Spells(Flat(m), 8 * n, u)
  BY <1>2, <1>3 DEF Spells
<1> HIDE DEF p
<1>6. Spells(Flat(m), p, b)
  BY DEF p
<1>7. Spells(Flat(m), p + Len(b), u)
  BY <1>4, <1>5
<1>8. Spells(Flat(m), p, b \o u)
  BY <1>2, <1>3, <1>4, <1>6, <1>7, SpellsBoth
<1>9. b \o u \in Seq(Bit) /\ Len(b \o u) = Len(b) + 8
  <2>1. u \in Seq(Bit)
    BY <1>2
  <2>2. b \o u \in Seq(Bit) /\ Len(b \o u) = Len(b) + Len(u)
    BY <2>1, Cat
  <2> QED
    BY <1>2, <2>2
<1> QED
  BY <1>8, <1>9 DEF u, p

-----------------------------------------------------------------------------
(***************************************************************************)
(* The fixed codes, and what tinf_decode_symbol makes of them.             *)
(***************************************************************************)
\* The code of a value has its highest bit first.
LEMMA CodeIs ==
  ASSUME NEW v \in Nat, NEW n \in Nat
  PROVE  /\ Code(v, n) \in Seq(Bit) /\ Len(Code(v, n)) = n
         /\ \A i \in 1..n : Code(v, n)[i] = Halves(v, n)[n - i] % 2
<1> DEFINE b == Bits(v, n)
           half == Halves(v, n)
<1>1. b \in Seq(Bit) /\ Len(b) = n /\ \A i \in 1..n : b[i] = half[i - 1] % 2
  BY BitsAre
<1>2. Code(v, n) = [i \in 1..n |-> b[n + 1 - i]]
  BY DEF Code
<1> HIDE DEF b, half
<1>3. ASSUME NEW i \in 1..n PROVE b[n + 1 - i] \in Bit /\ b[n + 1 - i] = half[n - i] % 2
  <2>1. n + 1 - i \in 1..n /\ (n + 1 - i) - 1 = n - i
    OBVIOUS
  <2>2. b[n + 1 - i] \in Bit
    BY <1>1, <2>1, ElementOf
  <2> QED
    BY <1>1, <2>1, <2>2
<1> QED
  BY <1>2, <1>3 DEF half

\* A table of a tree.
Tables == [1..15 -> Nat]

CurOf(b, t, n, f) == [k \in 0..n |-> IF k = 0 THEN 0 ELSE 2 * f[k - 1] + b[k] - t.table[k]]
CurSteps(b, t, n) == [k \in (0..n) \ {0} |-> [x \in Int |-> 2 * x + b[k] - t.table[k]]]

CurBy(b, t, n, c) ==
  /\ c \in [0..n -> Int] /\ c[0] = 0 /\ Cur(b, t, n) = c[n]
  /\ \A k \in 1..n : c[k] = 2 * c[k - 1] + b[k] - t.table[k]

\* cur of tinf_decode_symbol, a bit at a time.
LEMMA CurIs ==
  ASSUME NEW b \in Seq(Bit), NEW t, t.table \in Tables, NEW n \in 0..15, n <= Len(b)
  PROVE  \E c : CurBy(b, t, n, c)
<1>1. \A k \in 1..n : b[k] \in Int /\ t.table[k] \in Int
  <2> TAKE k \in 1..n
  <2>1. b[k] \in Bit
    BY ElementOf
  <2>2. t.table[k] \in Nat
    <3> DEFINE tab == t.table
    <3>1. tab \in [1..15 -> Nat]
      BY DEF Tables
    <3> HIDE DEF tab
    <3>2. k \in 1..15
      OBVIOUS
    <3>3. tab[k] \in Nat
      BY <3>1, <3>2
    <3> QED
      BY <3>3 DEF tab
  <2> QED
    BY <2>1, <2>2 DEF Bit
<1>2. \A k \in 1..n, x \in Int : 2 * x + b[k] - t.table[k] \in Int
  BY <1>1
<1>3. CurSteps(b, t, n) \in Steps(0..n, Int)
  <2>1. ASSUME NEW k \in (0..n) \ {0} PROVE [x \in Int |-> 2 * x + b[k] - t.table[k]] \in [Int -> Int]
    <3>1. k \in 1..n
      OBVIOUS
    <3> QED
      BY <1>2, <3>1
  <2> QED
    BY <2>1 DEF Steps, CurSteps
<1>4. n \in Nat /\ 0 \in Int
  OBVIOUS
<1>5. PICK f : Leads(f, 0..n, Int, 0, CurSteps(b, t, n))
  BY <1>3, <1>4, Recursion
<1>6. \A k \in 1..n : \A x \in Int : CurSteps(b, t, n)[k][x] = 2 * x + b[k] - t.table[k]
  <2> TAKE k \in 1..n
  <2>1. k \in (0..n) \ {0}
    OBVIOUS
  <2>2. CurSteps(b, t, n)[k] = [x \in Int |-> 2 * x + b[k] - t.table[k]]
    BY <2>1 DEF CurSteps
  <2> QED
    BY <2>2
<1>7. f \in [0..n -> Int] /\ f[0] = 0
  BY <1>5 DEF Leads
<1>8. ASSUME NEW k \in 1..n PROVE f[k] = 2 * f[k - 1] + b[k] - t.table[k]
  <2>1. k \in (0..n) \ {0} /\ f[k - 1] \in Int
    BY <1>4, <1>7
  <2>2. f[k] = CurSteps(b, t, n)[k][f[k - 1]]
    BY <1>5, <2>1 DEF Leads
  <2> QED
    BY <1>6, <2>1, <2>2
<1>9. f = CurOf(b, t, n, f)
  BY <1>7, <1>8 DEF CurOf
<1> DEFINE c == CHOOSE g : g = CurOf(b, t, n, g)
<1>10. c = CurOf(b, t, n, c)
  BY <1>9
<1>11. Cur(b, t, n) = c[n]
  BY DEF Cur, CurOf
<1> HIDE DEF c
<1>12. c = [k \in 0..n |-> c[k]] /\ c[0] = 0
  BY <1>10 DEF CurOf
<1>13. \A k \in 1..n : c[k] = 2 * c[k - 1] + b[k] - t.table[k]
  BY <1>10 DEF CurOf
<1>14. \A k \in 1..n : c[k - 1] \in Int => c[k] = CurSteps(b, t, n)[k][c[k - 1]]
  BY <1>6, <1>13
<1>15. Leads(c, 0..n, Int, 0, CurSteps(b, t, n))
  BY <1>3, <1>4, <1>12, <1>14, Follows
<1>16. c \in [0..n -> Int]
  BY <1>15 DEF Leads
<1> QED
  BY <1>11, <1>12, <1>13, <1>16 DEF CurBy

\* What the bits are from k on does not matter for k of them.
LEMMA CurStep ==
  ASSUME NEW b \in Seq(Bit), NEW t, t.table \in Tables, NEW n \in 0..15, n <= Len(b)
  PROVE  /\ Cur(b, t, n) \in Int
         /\ n = 0 => Cur(b, t, n) = 0
         /\ n < 15 /\ n < Len(b) => Cur(b, t, n + 1) = 2 * Cur(b, t, n) + b[n + 1] - t.table[n + 1]
<1>0. PICK c : CurBy(b, t, n, c)
  BY CurIs
<1>1. /\ c \in [0..n -> Int] /\ c[0] = 0 /\ Cur(b, t, n) = c[n]
      /\ \A k \in 1..n : c[k] = 2 * c[k - 1] + b[k] - t.table[k]
  BY <1>0 DEF CurBy
<1>2. Cur(b, t, n) \in Int /\ (n = 0 => Cur(b, t, n) = 0)
  BY <1>1
<1>3. ASSUME n < 15, n < Len(b)
      PROVE  Cur(b, t, n + 1) = 2 * Cur(b, t, n) + b[n + 1] - t.table[n + 1]
  <2>1. n + 1 \in 0..15 /\ n + 1 <= Len(b)
    BY <1>3
  <2>0. PICK d : CurBy(b, t, n + 1, d)
    BY <2>1, CurIs
  <2>2. /\ d \in [0..n+1 -> Int] /\ d[0] = 0 /\ Cur(b, t, n + 1) = d[n + 1]
        /\ \A k \in 1..n+1 : d[k] = 2 * d[k - 1] + b[k] - t.table[k]
    BY <2>0 DEF CurBy
  <2> DEFINE T == {k \in Nat : k <= n => d[k] = c[k]}
  <2>3. 0 \in T
    BY <1>1, <2>2
  <2>4. ASSUME NEW k \in Nat, k \in T PROVE k + 1 \in T
    <3>1. SUFFICES ASSUME k + 1 <= n PROVE d[k + 1] = c[k + 1]
      OBVIOUS
    <3>2. k + 1 \in 1..n /\ k + 1 \in 1..n+1 /\ (k + 1) - 1 = k /\ d[k] = c[k]
      BY <2>4, <3>1
    <3>3. c[k + 1] = 2 * c[k] + b[k + 1] - t.table[k + 1]
      BY <1>1, <3>2
    <3>4. d[k + 1] = 2 * d[k] + b[k + 1] - t.table[k + 1]
      BY <2>2, <3>2
    <3> QED
      BY <3>2, <3>3, <3>4
  <2>5. Nat \subseteq T
    <3> HIDE DEF T
    <3> QED
      BY <2>3, <2>4, Induction
  <2>6. d[n] = c[n] /\ n + 1 \in 1..n+1 /\ (n + 1) - 1 = n
    BY <2>5
  <2>7. d[n + 1] = 2 * d[n] + b[n + 1] - t.table[n + 1]
    BY <2>2, <2>6
  <2> QED
    BY <1>1, <2>2, <2>6, <2>7
<1> QED
  BY <1>2, <1>3

\* Of a code of as many bits as they are: cur is what is read of it, less the codes of fewer
\* bits.
Shorter(t, L, off) ==
  off \in [0..L -> Int] /\ off[0] = 0 /\ \A k \in 1..L : off[k] = 2 * off[k - 1] + t.table[k]
\* Bits begin with a word, or are the beginning of it.
Begins(b, w) == \A i \in 1..Len(b) : i <= Len(w) => b[i] = w[i]

CurIsLess(b, t, v, L, off) ==
  \A k \in 0..L : k <= Len(b) => Cur(b, t, k) = Halves(v, L)[L - k] - off[k]

\* cur is what was read of the code, less the codes of fewer bits.
LEMMA CurOfCode ==
  ASSUME NEW b \in Seq(Bit), NEW t, t.table \in Tables, NEW L \in 1..15, NEW v \in Nat, v < Powers[L],
         NEW off, Shorter(t, L, off), Begins(b, Code(v, L))
  PROVE  CurIsLess(b, t, v, L, off)
<1> DEFINE half == Halves(v, L)
           cur(k) == Cur(b, t, k)
           T == {k \in Nat : k <= L /\ k <= Len(b) => cur(k) = half[L - k] - off[k]}
<1>5. Len(b) \in Nat /\ L \in Nat
  OBVIOUS
<1>1. half \in [0..L -> Nat]
  BY <1>5, HalvesAre
<1>2. half[L] = 0
  BY HalvesEnd
<1>3. \A k \in 1..L : half[k] = half[k - 1] \div 2
  BY <1>5, HalvesAre
<1>4. \A i \in 1..L : Code(v, L)[i] = half[L - i] % 2
  BY <1>5, CodeIs
<1>6. ASSUME NEW n \in 0..15, n <= Len(b)
      PROVE  /\ cur(n) \in Int /\ (n = 0 => cur(n) = 0)
             /\ n < 15 /\ n < Len(b) => cur(n + 1) = 2 * cur(n) + b[n + 1] - t.table[n + 1]
  BY <1>6, CurStep
<1> HIDE DEF half, cur
<1>7. 0 \in T
  <2>1. 0 \in 0..15 /\ 0 <= Len(b) /\ L - 0 = L
    BY <1>5
  <2>2. cur(0) = 0
    BY <1>6, <2>1
  <2>3. off[0] = 0
    BY DEF Shorter
  <2> QED
    BY <1>2, <2>1, <2>2, <2>3
<1>8. ASSUME NEW k \in Nat, k \in T PROVE k + 1 \in T
  <2>1. SUFFICES ASSUME k + 1 <= L, k + 1 <= Len(b) PROVE cur(k + 1) = half[L - (k + 1)] - off[k + 1]
    OBVIOUS
  <2>11. k \in 0..15 /\ k <= Len(b) /\ k < 15 /\ k < Len(b) /\ k + 1 \in 1..Len(b)
    BY <1>5, <2>1
  <2>2. k + 1 \in 1..L /\ (k + 1) - 1 = k /\ k <= L
        /\ L - k \in 1..L /\ (L - k) - 1 = L - (k + 1) /\ L - (k + 1) \in 0..L
    BY <1>5, <2>1
  <2>3. cur(k + 1) = 2 * cur(k) + b[k + 1] - t.table[k + 1]
    BY <1>6, <2>11
  <2>4. cur(k) = half[L - k] - off[k]
    BY <1>8, <2>2, <2>11
  <2>5. b[k + 1] = half[L - (k + 1)] % 2
    <3>1. Len(Code(v, L)) = L
      BY <1>5, CodeIs
    <3>2. b[k + 1] = Code(v, L)[k + 1]
      BY <2>1, <2>11, <3>1 DEF Begins
    <3> QED
      BY <1>4, <2>2, <3>2
  <2>6. half[L - k] = half[L - (k + 1)] \div 2
    BY <1>3, <2>2
  <2>7. off[k + 1] = 2 * off[k] + t.table[k + 1] /\ off[k] \in Int /\ off[k + 1] \in Int
    <3>1. k \in 0..L /\ k + 1 \in 0..L
      BY <2>2
    <3> QED
      BY <2>2, <3>1 DEF Shorter
  <2>8. half[L - (k + 1)] \in Nat
    BY <1>1, <2>2
  <2>9. t.table[k + 1] \in Nat
    <3> DEFINE tab == t.table
    <3>1. tab \in [1..15 -> Nat]
      BY DEF Tables
    <3> HIDE DEF tab
    <3>2. k + 1 \in 1..15
      BY <2>2
    <3>3. tab[k + 1] \in Nat
      BY <3>1, <3>2
    <3> QED
      BY <3>3 DEF tab
  <2>10. cur(k + 1)
           = 2 * ((half[L - (k + 1)] \div 2) - off[k]) + (half[L - (k + 1)] % 2) - t.table[k + 1]
    BY <2>3, <2>4, <2>5, <2>6, Zenon
  <2> DEFINE x == t.table[k + 1]
             o == off[k]
             h == half[L - (k + 1)]
  <2>12. x \in Nat /\ o \in Int /\ h \in Nat
    BY <2>7, <2>8, <2>9, Zenon
  <2> HIDE DEF x, o, h
  <2>13. 2 * ((h \div 2) - o) + (h % 2) - x = h - (2 * o + x)
    BY <2>12
  <2> QED
    BY <2>7, <2>10, <2>13, Zenon DEF x, o, h
<1>9. Nat \subseteq T
  <2> HIDE DEF T
  <2> QED
    BY <1>7, <1>8, Induction
<1>10. ASSUME NEW k \in 0..L, k <= Len(b) PROVE cur(k) = half[L - k] - off[k]
  BY <1>9, <1>10
<1> QED
  BY <1>10 DEF half, cur, CurIsLess

\* Past the end of a code cur is negative.
LEMMA CurStaysBelow ==
  ASSUME NEW b \in Seq(Bit), NEW t, t.table \in Tables, NEW n \in 0..15, n <= Len(b),
         Cur(b, t, n) < 0
  PROVE  \A m \in n..15 : m <= Len(b) => Cur(b, t, m) < 0
<1> DEFINE cur(k) == Cur(b, t, k)
           T == {k \in Nat : n + k <= 15 /\ n + k <= Len(b) => cur(n + k) < 0}
<1>1. Len(b) \in Nat /\ n \in Nat /\ cur(n) < 0
  OBVIOUS
<1>2. ASSUME NEW k \in 0..15, k <= Len(b), k < 15, k < Len(b)
      PROVE  /\ cur(k) \in Int /\ b[k + 1] \in 0..1 /\ t.table[k + 1] \in Nat
             /\ cur(k + 1) = 2 * cur(k) + b[k + 1] - t.table[k + 1]
  <2>1. b[k + 1] \in 0..1
    <3>1. k + 1 \in 1..Len(b)
      BY <1>1, <1>2
    <3>2. b[k + 1] \in Bit
      BY <3>1, ElementOf
    <3> QED
      BY <3>2 DEF Bit
  <2>2. t.table[k + 1] \in Nat
    <3> DEFINE tab == t.table
    <3>1. tab \in [1..15 -> Nat]
      BY DEF Tables
    <3> HIDE DEF tab
    <3>2. k + 1 \in 1..15
      BY <1>2
    <3>3. tab[k + 1] \in Nat
      BY <3>1, <3>2
    <3> QED
      BY <3>3 DEF tab
  <2>3. Cur(b, t, k) \in Int /\ Cur(b, t, k + 1) = 2 * Cur(b, t, k) + b[k + 1] - t.table[k + 1]
    BY <1>2, CurStep
  <2> QED
    BY <2>1, <2>2, <2>3
<1> HIDE DEF cur
<1>3. 0 \in T
  <2>1. n + 0 = n
    BY <1>1
  <2> QED
    BY <1>1, <2>1
<1>4. ASSUME NEW k \in Nat, k \in T PROVE k + 1 \in T
  <2>1. SUFFICES ASSUME n + (k + 1) <= 15, n + (k + 1) <= Len(b) PROVE cur(n + (k + 1)) < 0
    OBVIOUS
  <2> DEFINE j == n + k
  <2>2. j \in 0..15 /\ j <= Len(b) /\ j < 15 /\ j < Len(b) /\ n + (k + 1) = j + 1
    BY <1>1, <2>1
  <2>3. cur(j) < 0
    BY <1>4, <2>2
  <2> HIDE DEF j
  <2>4. /\ cur(j) \in Int /\ b[j + 1] \in 0..1 /\ t.table[j + 1] \in Nat
        /\ cur(j + 1) = 2 * cur(j) + b[j + 1] - t.table[j + 1]
    BY <1>2, <2>2
  <2>5. cur(j + 1) < 0
    BY <2>3, <2>4
  <2> QED
    BY <2>2, <2>5
<1>5. Nat \subseteq T
  <2> HIDE DEF T
  <2> QED
    BY <1>3, <1>4, Induction
<1>6. ASSUME NEW m \in n..15, m <= Len(b) PROVE cur(m) < 0
  <2>1. m - n \in Nat /\ n + (m - n) = m /\ m <= 15
    BY <1>1
  <2>2. m - n \in T
    BY <1>5, <2>1, Zenon
  <2> QED
    BY <1>6, <2>1, <2>2
<1> QED
  BY <1>6 DEF cur

\* One bit less than a code has, or all there are: no more than fifteen.
LEMMA LeastOfTwo ==
  ASSUME NEW L \in 1..15, NEW n \in Nat
  PROVE  (IF L <= n THEN L - 1 ELSE n) \in 0..15
OBVIOUS

\* The length of a code is counted from where cur turns negative.
LEMMA LengthOfCode ==
  ASSUME NEW b \in Seq(Bit), NEW t, t.table \in Tables, NEW L \in 1..15,
         \A k \in 0..L-1 : k <= Len(b) => Cur(b, t, k) >= 0,
         L <= Len(b) => Cur(b, t, L) < 0
  PROVE  CodeLength(b, t) = IF L <= Len(b) THEN L ELSE Len(b) + 1
<1> DEFINE m == IF L <= Len(b) THEN L - 1 ELSE Len(b)
           S == {n \in 0..15 : n <= Len(b) /\ Cur(b, t, n) >= 0}
<1>1. Len(b) \in Nat /\ L \in Nat /\ L <= 15
  OBVIOUS
<1>2. ASSUME NEW n \in 0..15, n <= Len(b) PROVE Cur(b, t, n) \in Int
  BY <1>2, CurStep
<1>3. ASSUME NEW n \in 0..15 PROVE n \in S <=> n <= m
  <2>1. CASE n <= L - 1
    <3>1. n \in 0..L-1
      BY <1>1, <2>1
    <3>2. n <= Len(b) => Cur(b, t, n) >= 0
      BY <3>1
    <3> QED
      BY <1>1, <2>1, <3>2
  <2>2. CASE n >= L /\ n <= Len(b)
    <3>1. L \in 0..15 /\ L <= Len(b) /\ Cur(b, t, L) < 0 /\ n \in L..15
      BY <1>1, <2>2
    <3>2. Cur(b, t, n) < 0 /\ Cur(b, t, n) \in Int
      BY <1>2, <2>2, <3>1, CurStaysBelow
    <3> QED
      BY <1>1, <2>2, <3>2
  <2>3. CASE n >= L /\ ~(n <= Len(b))
    BY <1>1, <2>3
  <2> QED
    BY <1>1, <2>1, <2>2, <2>3
<1>4. m \in 0..15
  BY <1>1, LeastOfTwo
<1>5. S = 0..m
  <2>1. S \subseteq 0..15
    OBVIOUS
  <2> HIDE DEF S, m
  <2>2. \A n \in 0..15 : n \in S <=> n \in 0..m
    BY <1>3, <1>4
  <2>3. 0..m \subseteq 0..15
    BY <1>4
  <2> QED
    BY <2>1, <2>2, <2>3, Zenon
<1>6. Cardinality(0..m) = m + 1
  <2> HIDE DEF m
  <2>1. 0 \in Int /\ m \in Int /\ ~(0 > m)
    BY <1>4
  <2>2. Cardinality(0..m) = m - 0 + 1
    BY <2>1, FS_Interval
  <2> QED
    BY <1>4, <2>2
<1>7. CodeLength(b, t) = m + 1
  <2>1. CodeLength(b, t) = Cardinality(S)
    BY DEF CodeLength
  <2> HIDE DEF S, m
  <2> QED
    BY <1>5, <1>6, <2>1
<1> QED
  BY <1>1, <1>7

SumOf(t, n, f) == [k \in 0..n |-> IF k = 0 THEN 0 ELSE f[k - 1] + t.table[k]]
SumSteps(t, n) == [k \in (0..n) \ {0} |-> [x \in Nat |-> x + t.table[k]]]
SumBy(t, n, c) ==
  c \in [0..n -> Nat] /\ c[0] = 0 /\ Sum(t, n) = c[n] /\ \A k \in 1..n : c[k] = c[k - 1] + t.table[k]

\* sum of tinf_decode_symbol, a length at a time.
LEMMA SumIs ==
  ASSUME NEW t, t.table \in Tables, NEW n \in 0..15
  PROVE  \E c : SumBy(t, n, c)
<1>1. ASSUME NEW k \in 1..n PROVE t.table[k] \in Nat
  <2> DEFINE tab == t.table
  <2>1. tab \in [1..15 -> Nat]
    BY DEF Tables
  <2> HIDE DEF tab
  <2>2. k \in 1..15
    OBVIOUS
  <2>3. tab[k] \in Nat
    BY <2>1, <2>2
  <2> QED
    BY <2>3 DEF tab
<1>2. \A k \in 1..n, x \in Nat : x + t.table[k] \in Nat
  BY <1>1
<1>3. SumSteps(t, n) \in Steps(0..n, Nat)
  <2>1. ASSUME NEW k \in (0..n) \ {0} PROVE [x \in Nat |-> x + t.table[k]] \in [Nat -> Nat]
    <3>1. k \in 1..n
      OBVIOUS
    <3> QED
      BY <1>2, <3>1
  <2> QED
    BY <2>1 DEF Steps, SumSteps
<1>4. n \in Nat /\ 0 \in Nat
  OBVIOUS
<1>5. PICK f : Leads(f, 0..n, Nat, 0, SumSteps(t, n))
  BY <1>3, <1>4, Recursion
<1>6. \A k \in 1..n : \A x \in Nat : SumSteps(t, n)[k][x] = x + t.table[k]
  <2> TAKE k \in 1..n
  <2>1. k \in (0..n) \ {0}
    OBVIOUS
  <2>2. SumSteps(t, n)[k] = [x \in Nat |-> x + t.table[k]]
    BY <2>1 DEF SumSteps
  <2> QED
    BY <2>2
<1>7. f \in [0..n -> Nat] /\ f[0] = 0
  BY <1>5 DEF Leads
<1>8. ASSUME NEW k \in 1..n PROVE f[k] = f[k - 1] + t.table[k]
  <2>1. k \in (0..n) \ {0} /\ f[k - 1] \in Nat
    BY <1>4, <1>7
  <2>2. f[k] = SumSteps(t, n)[k][f[k - 1]]
    BY <1>5, <2>1 DEF Leads
  <2> QED
    BY <1>6, <2>1, <2>2
<1>9. f = SumOf(t, n, f)
  BY <1>7, <1>8 DEF SumOf
<1> DEFINE c == CHOOSE g : g = SumOf(t, n, g)
<1>10. c = SumOf(t, n, c)
  BY <1>9
<1>11. Sum(t, n) = c[n]
  BY DEF Sum, SumOf
<1> HIDE DEF c
<1>12. c = [k \in 0..n |-> c[k]] /\ c[0] = 0
  BY <1>10 DEF SumOf
<1>13. \A k \in 1..n : c[k] = c[k - 1] + t.table[k]
  BY <1>10 DEF SumOf
<1>14. \A k \in 1..n : c[k - 1] \in Nat => c[k] = SumSteps(t, n)[k][c[k - 1]]
  BY <1>6, <1>13
<1>15. Leads(c, 0..n, Nat, 0, SumSteps(t, n))
  BY <1>3, <1>4, <1>12, <1>14, Follows
<1>16. c \in [0..n -> Nat]
  BY <1>15 DEF Leads
<1> QED
  BY <1>11, <1>12, <1>13, <1>16 DEF SumBy

\* What tinf_decode_symbol makes of this word, however much comes after it, and when it is
\* not all there yet.
Means(w, t, x) ==
  \A b \in Seq(Bit) : Begins(b, w) =>
    /\ Len(w) <= Len(b) => CodeLength(b, t) = Len(w) /\ Decoded(b, t) = x
    /\ Len(b) < Len(w) => CodeLength(b, t) > Len(b)

\* cur is not negative before the end of the code.
Above(v, L, off) == \A k \in 1..L-1 : Halves(v, L)[L - k] >= off[k]

\* A code of length L stands for the symbol at its place among those of its length.
LEMMA CodeMeans ==
  ASSUME NEW t, t.table \in Tables, NEW L \in 1..15, NEW v \in Nat, v < Powers[L],
         NEW off, Shorter(t, L, off), v < off[L],
         Above(v, L, off),
         NEW x, x = t.trans[Sum(t, L) + (v - off[L])]
  PROVE  Means(Code(v, L), t, x)
<1> DEFINE half == Halves(v, L)
           w == Code(v, L)
<1>0. L \in Nat
  OBVIOUS
<1>1. L \in Nat /\ Len(w) = L
  BY <1>0, CodeIs
<1>2. half \in [0..L -> Nat] /\ half[0] = v
  BY <1>0, HalvesAre
<1>3. half[L] = 0
  BY HalvesEnd
<1>4. off \in [0..L -> Int] /\ off[0] = 0
  BY DEF Shorter
<1>5. \A k \in 1..L-1 : half[L - k] >= off[k]
  BY DEF Above
<1> HIDE DEF half, w
<1>6. ASSUME NEW b \in Seq(Bit), Begins(b, w)
      PROVE  /\ L <= Len(b) => CodeLength(b, t) = L /\ Decoded(b, t) = x
             /\ Len(b) < L => CodeLength(b, t) > Len(b)
  <2>1. \A k \in 0..L : k <= Len(b) => Cur(b, t, k) = half[L - k] - off[k]
    <3>1. Begins(b, Code(v, L))
      BY <1>6 DEF w
    <3>2. v < Powers[L] /\ Shorter(t, L, off) /\ t.table \in Tables
      OBVIOUS
    <3>3. CurIsLess(b, t, v, L, off)
      BY <3>1, <3>2, CurOfCode
    <3> QED
      BY <3>3 DEF half, CurIsLess
  <2>2. ASSUME NEW k \in 0..L-1, k <= Len(b) PROVE Cur(b, t, k) >= 0
    <3>1. k \in 0..L /\ L - k \in 0..L
      BY <1>1
    <3>2. Cur(b, t, k) = half[L - k] - off[k] /\ half[L - k] \in Nat /\ off[k] \in Int
      BY <1>2, <1>4, <2>1, <2>2, <3>1
    <3>3. CASE k = 0
      <4>1. L - k = L /\ half[L] = 0 /\ off[k] = 0
        BY <1>1, <1>3, <1>4, <3>3
      <4> QED
        BY <3>2, <4>1
    <3>4. CASE k # 0
      <4>1. half[L - k] >= off[k]
        BY <1>5, <3>4
      <4> QED
        BY <3>2, <4>1
    <3> QED
      BY <3>3, <3>4
  <2>3. ASSUME L <= Len(b) PROVE Cur(b, t, L) = v - off[L] /\ Cur(b, t, L) < 0
    <3>1. L \in 0..L /\ L - L = 0
      BY <1>1
    <3>2. Cur(b, t, L) = half[0] - off[L] /\ off[L] \in Int
      BY <1>4, <2>1, <2>3, <3>1
    <3> QED
      BY <1>2, <3>2
  <2>4. CodeLength(b, t) = IF L <= Len(b) THEN L ELSE Len(b) + 1
    <3>1. \A k \in 0..L-1 : k <= Len(b) => Cur(b, t, k) >= 0
      BY <2>2
    <3>2. L <= Len(b) => Cur(b, t, L) < 0
      BY <2>3
    <3> QED
      BY <3>1, <3>2, LengthOfCode
  <2>5. Len(b) \in Nat
    OBVIOUS
  <2>6. Len(b) < L => CodeLength(b, t) > Len(b)
    BY <1>1, <2>4, <2>5
  <2>7. ASSUME L <= Len(b) PROVE CodeLength(b, t) = L /\ Decoded(b, t) = x
    <3>1. CodeLength(b, t) = L /\ L # 16
      BY <2>4, <2>7
    <3>2. Decoded(b, t) = t.trans[Sum(t, L) + Cur(b, t, L)]
      BY <3>1 DEF Decoded
    <3> QED
      BY <2>3, <2>7, <3>1, <3>2, Zenon
  <2> QED
    BY <2>6, <2>7
<1>7. Len(w) = L
  BY <1>1
<1> QED
  BY <1>6, <1>7, Zenon DEF Means, w

-----------------------------------------------------------------------------
\* The fixed trees.
LEMMA FixedTables ==
  /\ fixed_ltree.table \in Tables /\ fixed_dtree.table \in Tables
  /\ \A n \in 1..15 : fixed_ltree.table[n] =
       IF n = 7 THEN 24 ELSE IF n = 8 THEN 152 ELSE IF n = 9 THEN 112 ELSE 0
  /\ \A n \in 1..15 : fixed_dtree.table[n] = IF n = 5 THEN 32 ELSE 0
  /\ \A k \in 0..287 : fixed_ltree.trans[k] =
       IF k < 24 THEN 256 + k ELSE IF k < 168 THEN k - 24 ELSE IF k < 176 THEN k + 112 ELSE k - 32
  /\ \A k \in 0..31 : fixed_dtree.trans[k] = k
<1>1. fixed_ltree.table = [n \in 1..15 |-> IF n = 7 THEN 24 ELSE IF n = 8 THEN 152 ELSE IF n = 9 THEN 112 ELSE 0]
  BY DEF fixed_ltree
<1>2. fixed_dtree.table = [n \in 1..15 |-> IF n = 5 THEN 32 ELSE 0]
  BY DEF fixed_dtree
<1>3. fixed_ltree.trans =
        [k \in 0..287 |-> IF k < 24 THEN 256 + k
                          ELSE IF k < 168 THEN k - 24
                          ELSE IF k < 176 THEN k - 168 + 280 ELSE k - 176 + 144]
  BY DEF fixed_ltree
<1>4. fixed_dtree.trans = [k \in 0..31 |-> k]
  BY DEF fixed_dtree
<1>5. fixed_ltree.table \in Tables
  BY <1>1 DEF Tables
<1>6. fixed_dtree.table \in Tables
  BY <1>2 DEF Tables
<1>7. \A k \in 0..287 : fixed_ltree.trans[k] =
       IF k < 24 THEN 256 + k ELSE IF k < 168 THEN k - 24 ELSE IF k < 176 THEN k + 112 ELSE k - 32
  BY <1>3
<1> QED
  BY <1>1, <1>2, <1>4, <1>5, <1>6, <1>7

\* cur is the value less this, after so many bits.
LitShorter(L) == [k \in 0..L |-> IF k < 7 THEN 0 ELSE IF k = 7 THEN 24 ELSE IF k = 8 THEN 200 ELSE 512]
DistShorter == [k \in 0..5 |-> IF k < 5 THEN 0 ELSE 32]

\* How many codes of the fixed trees are shorter.
LEMMA ShorterCodes ==
  /\ \A L \in 7..9 : Shorter(fixed_ltree, L, LitShorter(L))
  /\ Shorter(fixed_dtree, 5, DistShorter)
<1>1. ASSUME NEW L \in 7..9 PROVE Shorter(fixed_ltree, L, LitShorter(L))
  <2> DEFINE off == LitShorter(L)
  <2>1. off \in [0..L -> Int] /\ off[0] = 0
    BY DEF LitShorter
  <2>2. \A k \in 0..L : off[k] = IF k < 7 THEN 0 ELSE IF k = 7 THEN 24 ELSE IF k = 8 THEN 200 ELSE 512
    BY DEF LitShorter
  <2> HIDE DEF off
  <2>3. ASSUME NEW k \in 1..L PROVE off[k] = 2 * off[k - 1] + fixed_ltree.table[k]
    <3>1. k \in 1..15 /\ k \in 0..L /\ k - 1 \in 0..L
      OBVIOUS
    <3>2. fixed_ltree.table[k] = IF k = 7 THEN 24 ELSE IF k = 8 THEN 152 ELSE IF k = 9 THEN 112 ELSE 0
      BY <3>1, FixedTables
    <3>3. off[k] = (IF k < 7 THEN 0 ELSE IF k = 7 THEN 24 ELSE IF k = 8 THEN 200 ELSE 512)
          /\ off[k - 1] = (IF k - 1 < 7 THEN 0 ELSE IF k - 1 = 7 THEN 24 ELSE IF k - 1 = 8 THEN 200 ELSE 512)
      BY <2>2, <3>1
    <3> QED
      BY <3>1, <3>2, <3>3
  <2> QED
    BY <2>1, <2>3 DEF Shorter, off
<1>2. Shorter(fixed_dtree, 5, DistShorter)
  <2> DEFINE off == DistShorter
  <2>1. off \in [0..5 -> Int] /\ off[0] = 0
    BY DEF DistShorter
  <2>2. \A k \in 0..5 : off[k] = IF k < 5 THEN 0 ELSE 32
    BY DEF DistShorter
  <2> HIDE DEF off
  <2>3. ASSUME NEW k \in 1..5 PROVE off[k] = 2 * off[k - 1] + fixed_dtree.table[k]
    <3>1. fixed_dtree.table[k] = IF k = 5 THEN 32 ELSE 0
      BY FixedTables
    <3>2. off[k] = (IF k < 5 THEN 0 ELSE 32) /\ off[k - 1] = 0
      BY <2>2
    <3> QED
      BY <3>1, <3>2
  <2> QED
    BY <2>1, <2>3 DEF Shorter, off
<1> QED
  BY <1>1, <1>2

\* How many codes of the fixed trees are no longer than each length.
LEMMA FixedSums ==
  Sum(fixed_ltree, 7) = 24 /\ Sum(fixed_ltree, 8) = 176 /\ Sum(fixed_ltree, 9) = 288
  /\ Sum(fixed_dtree, 5) = 32
<1>1. ASSUME NEW L \in 7..9, NEW c, SumBy(fixed_ltree, L, c)
      PROVE  Sum(fixed_ltree, L) = IF L = 7 THEN 24 ELSE IF L = 8 THEN 176 ELSE 288
  <2>1. c \in [0..L -> Nat] /\ c[0] = 0 /\ Sum(fixed_ltree, L) = c[L]
    BY <1>1 DEF SumBy
  <2>2. ASSUME NEW k \in 1..L
        PROVE  c[k] = c[k - 1] + IF k = 7 THEN 24 ELSE IF k = 8 THEN 152 ELSE IF k = 9 THEN 112 ELSE 0
    <3>0. c[k] = c[k - 1] + fixed_ltree.table[k]
      BY <1>1 DEF SumBy
    <3>1. k \in 1..15 /\ c[k] = c[k - 1] + fixed_ltree.table[k]
      BY <3>0
    <3>2. fixed_ltree.table[k] = IF k = 7 THEN 24 ELSE IF k = 8 THEN 152 ELSE IF k = 9 THEN 112 ELSE 0
      BY <3>1, FixedTables
    <3> QED
      BY <3>1, <3>2
  <2>3. \A k \in 1..6 : c[k] = c[k - 1] /\ c[k - 1] \in Nat
    <3> TAKE k \in 1..6
    <3>1. k \in 1..L /\ k - 1 \in 0..L /\ ~(k = 7) /\ ~(k = 8) /\ ~(k = 9)
      OBVIOUS
    <3>2. c[k - 1] \in Nat
      BY <2>1, <3>1
    <3> QED
      BY <2>2, <3>1, <3>2
  <2>4. c[6] = 0
    BY <2>1, <2>3
  <2>5. c[7] = 24
    BY <2>2, <2>4
  <2>6. L >= 8 => c[8] = 176
    BY <2>2, <2>5
  <2>7. L = 9 => c[9] = 288
    BY <2>2, <2>6
  <2> QED
    BY <2>1, <2>5, <2>6, <2>7
<1>2. ASSUME NEW c, SumBy(fixed_dtree, 5, c) PROVE Sum(fixed_dtree, 5) = 32
  <2>1. c \in [0..5 -> Nat] /\ c[0] = 0 /\ Sum(fixed_dtree, 5) = c[5]
    BY <1>2 DEF SumBy
  <2>2. ASSUME NEW k \in 1..5 PROVE c[k] = c[k - 1] + IF k = 5 THEN 32 ELSE 0
    <3>1. k \in 1..15 /\ c[k] = c[k - 1] + fixed_dtree.table[k]
      BY <1>2 DEF SumBy
    <3>2. fixed_dtree.table[k] = IF k = 5 THEN 32 ELSE 0
      BY <3>1, FixedTables
    <3> QED
      BY <3>1, <3>2
  <2>3. \A k \in 1..4 : c[k] = c[k - 1] /\ c[k - 1] \in Nat
    BY <2>1, <2>2
  <2>4. c[4] = 0
    BY <2>1, <2>3
  <2> QED
    BY <2>1, <2>2, <2>4
<1>3. \A L \in 7..9 : \E c : SumBy(fixed_ltree, L, c)
  BY FixedTables, SumIs
<1>4. \E c : SumBy(fixed_dtree, 5, c)
  <2>1. 5 \in 0..15
    OBVIOUS
  <2> QED
    BY <2>1, FixedTables, SumIs
<1>5. \A L \in 7..9 : Sum(fixed_ltree, L) = IF L = 7 THEN 24 ELSE IF L = 8 THEN 176 ELSE 288
  BY <1>1, <1>3
<1> QED
  BY <1>2, <1>4, <1>5

\* The literals and lengths are read with their fixed codes, of 7, 8 or 9 bits.
LEMMA FixedMeans ==
  ASSUME NEW L \in 7..9, NEW v \in Nat,
         L = 7 => v < 24, L = 8 => 48 <= v /\ v < 200, L = 9 => 400 <= v /\ v < 512
  PROVE  Means(Code(v, L), fixed_ltree,
               IF L = 7 THEN 256 + v
               ELSE IF L = 8 THEN (IF v < 192 THEN v - 48 ELSE v + 88) ELSE v - 256)
<1> DEFINE off == LitShorter(L)
           half == Halves(v, L)
           n == IF L = 7 THEN 24 ELSE IF L = 8 THEN 200 ELSE 512
<1>1. (L = 7 => v < 24) /\ (L = 8 => 48 <= v /\ v < 200) /\ (L = 9 => 400 <= v /\ v < 512)
  OBVIOUS
<1>2. L \in Nat /\ L \in 1..15
  OBVIOUS
<1>3. half \in [0..L -> Nat] /\ half[0] = v /\ \A k \in 1..L : half[k] = half[k - 1] \div 2
  BY <1>2, HalvesAre
<1>4. \A k \in 0..L : off[k] = IF k < 7 THEN 0 ELSE IF k = 7 THEN 24 ELSE IF k = 8 THEN 200 ELSE 512
  BY DEF LitShorter
<1>5. Shorter(fixed_ltree, L, off)
  BY ShorterCodes
<1>6. Powers[7] = 128 /\ Powers[8] = 256 /\ Powers[9] = 512
  BY DEF Powers
<1>7. v < Powers[L]
  BY <1>1, <1>6
<1> HIDE DEF off, half
<1>8. off[L] = n
  BY <1>4
<1>9. v < off[L]
  BY <1>1, <1>8
<1>10. ASSUME NEW k \in 1..L-1 PROVE half[L - k] >= off[k]
  <2>1. half[L - k] \in Nat
    <3>1. half \in [0..L -> Nat]
      BY <1>3, Zenon
    <3>2. L - k \in 0..L
      BY <1>2
    <3> QED
      BY <3>1, <3>2
  <2>2. CASE k < 7
    <3>1. off[k] = 0
      BY <1>4, <2>2
    <3> QED
      BY <2>1, <3>1
  <2>3. CASE k = 7 /\ L = 8
    <3>1. off[k] = 24 /\ L - k = 1
      BY <1>4, <2>3
    <3>2. half[1] = v \div 2
      <4>1. L - k \in 1..L /\ (L - k) - 1 = 0
        BY <3>1
      <4> QED
        BY <1>3, <3>1, <4>1
    <3> QED
      BY <1>1, <2>3, <3>1, <3>2
  <2>4. CASE k = 7 /\ L = 9
    <3>1. off[k] = 24 /\ L - k = 2
      BY <1>4, <2>4
    <3>2. half[1] = v \div 2 /\ half[2] = half[1] \div 2
      <4>1. L - k \in 1..L /\ (L - k) - 1 = 1 /\ 1 \in 1..L /\ 1 - 1 = 0
        BY <2>4, <3>1
      <4> QED
        BY <1>3, <3>1, <4>1
    <3> QED
      BY <1>1, <2>4, <3>1, <3>2
  <2>5. CASE k = 8 /\ L = 9
    <3>1. off[k] = 200 /\ L - k = 1
      BY <1>4, <2>5
    <3>2. half[1] = v \div 2
      <4>1. L - k \in 1..L /\ (L - k) - 1 = 0
        BY <3>1
      <4> QED
        BY <1>3, <3>1, <4>1
    <3> QED
      BY <1>1, <2>5, <3>1, <3>2
  <2> QED
    BY <2>2, <2>3, <2>4, <2>5
<1> DEFINE x == IF L = 7 THEN 256 + v
                ELSE IF L = 8 THEN (IF v < 192 THEN v - 48 ELSE v + 88) ELSE v - 256
           place == Sum(fixed_ltree, L) + (v - off[L])
<1>11. place = IF L = 7 THEN v ELSE IF L = 8 THEN v - 24 ELSE v - 224
  <2>1. Sum(fixed_ltree, L) = IF L = 7 THEN 24 ELSE IF L = 8 THEN 176 ELSE 288
    BY FixedSums
  <2> QED
    BY <1>8, <2>1
<1> HIDE DEF place
<1>12. place \in 0..287
  BY <1>1, <1>11
<1>13. fixed_ltree.trans[place] =
         IF place < 24 THEN 256 + place ELSE IF place < 168 THEN place - 24
         ELSE IF place < 176 THEN place + 112 ELSE place - 32
  BY <1>12, FixedTables
<1>14. x = fixed_ltree.trans[place]
  BY <1>1, <1>11, <1>13
<1> HIDE DEF x, n
<1>16. Above(v, L, off)
  BY <1>10 DEF Above, half
<1>15. Means(Code(v, L), fixed_ltree, x)
  BY <1>2, <1>5, <1>7, <1>9, <1>16, <1>14, FixedTables, CodeMeans DEF place
<1> QED
  BY <1>15 DEF x

\* What zlib_literal writes is the code of the byte.
LEMMA LiteralMeans ==
  ASSUME NEW c \in Byte
  PROVE  zlib_literal(c) \in Seq(Bit) /\ Len(zlib_literal(c)) \in 8..9
         /\ Means(zlib_literal(c), fixed_ltree, c)
<1>1. c \in 0..255
  BY DEF Byte
<1>2. CASE c <= 143
  <2> DEFINE v == 48 + c
             L == 8
  <2>1. v \in Nat /\ 48 <= v /\ v < 192 /\ v - 48 = c
    BY <1>1, <1>2
  <2>2. zlib_literal(c) = Code(v, 8)
    BY <1>2 DEF zlib_literal
  <2>3. 8 \in Nat /\ 8 \in 7..9
    OBVIOUS
  <2> HIDE DEF v
  <2>4. Code(v, 8) \in Seq(Bit) /\ Len(Code(v, 8)) = 8
    BY <2>1, <2>3, CodeIs
  <2>5. Means(Code(v, 8), fixed_ltree, c)
    BY <2>1, <2>3, FixedMeans
  <2> QED
    BY <2>2, <2>4, <2>5
<1>3. CASE c > 143
  <2> DEFINE v == 400 + c - 144
  <2>1. v \in Nat /\ 400 <= v /\ v < 512 /\ v - 256 = c
    BY <1>1, <1>3
  <2>2. zlib_literal(c) = Code(v, 9)
    BY <1>1, <1>3 DEF zlib_literal
  <2>3. 9 \in Nat /\ 9 \in 7..9
    OBVIOUS
  <2> HIDE DEF v
  <2>4. Code(v, 9) \in Seq(Bit) /\ Len(Code(v, 9)) = 9
    BY <2>1, <2>3, CodeIs
  <2>5. Means(Code(v, 9), fixed_ltree, c)
    BY <2>1, <2>3, FixedMeans
  <2> QED
    BY <2>2, <2>4, <2>5
<1> QED
  BY <1>1, <1>2, <1>3

\* The end of a block is seven zeros.
LEMMA ZeroBits ==
  ASSUME NEW n \in Nat
  PROVE  Bits(0, n) \in Seq(Bit) /\ Len(Bits(0, n)) = n /\ \A i \in 1..n : Bits(0, n)[i] = 0
<1> DEFINE half == Halves(0, n)
<1>1. 0 \in Nat
  OBVIOUS
<1>2. half \in [0..n -> Nat] /\ half[0] = 0 /\ \A k \in 1..n : half[k] = half[k - 1] \div 2
  BY <1>1, HalvesAre
<1>3. Bits(0, n) \in Seq(Bit) /\ Len(Bits(0, n)) = n /\ \A i \in 1..n : Bits(0, n)[i] = half[i - 1] % 2
  BY <1>1, BitsAre
<1> HIDE DEF half
<1> DEFINE T == {k \in Nat : k <= n => half[k] = 0}
<1>4. 0 \in T
  BY <1>2
<1>5. ASSUME NEW k \in Nat, k \in T PROVE k + 1 \in T
  <2>1. SUFFICES ASSUME k + 1 <= n PROVE half[k + 1] = 0
    OBVIOUS
  <2>2. half[k] = 0 /\ k + 1 \in 1..n /\ (k + 1) - 1 = k
    BY <1>5, <2>1
  <2> QED
    BY <1>2, <2>2
<1>6. Nat \subseteq T
  <2> HIDE DEF T
  <2> QED
    BY <1>4, <1>5, Induction
<1>7. \A i \in 1..n : half[i - 1] = 0
  <2> TAKE i \in 1..n
  <2>1. i - 1 \in Nat /\ i - 1 <= n
    OBVIOUS
  <2> QED
    BY <1>6, <2>1
<1> QED
  BY <1>3, <1>7

\* What ends a block is the code of 256.
LEMMA EndMeans ==
  Bits(0, 7) \in Seq(Bit) /\ Len(Bits(0, 7)) = 7 /\ Means(Bits(0, 7), fixed_ltree, 256)
<1>1. 0 \in Nat /\ 7 \in Nat /\ 7 \in 7..9
  OBVIOUS
<1> DEFINE b == Bits(0, 7)
           w == Code(0, 7)
<1>2. b \in Seq(Bit) /\ Len(b) = 7 /\ \A i \in 1..7 : b[i] = 0
  BY <1>1, ZeroBits
<1>3. w = [i \in 1..7 |-> b[8 - i]]
  BY DEF Code
<1>4. w \in Seq(Bit) /\ Len(w) = 7
  BY <1>1, CodeIs
<1> HIDE DEF b, w
<1>5. ASSUME NEW i \in 1..7 PROVE w[i] = b[i]
  <2>1. 8 - i \in 1..7
    OBVIOUS
  <2> QED
    BY <1>2, <1>3, <2>1
<1>6. w = b
  <2>1. \A i \in 1..Len(w) : w[i] = b[i]
    BY <1>4, <1>5
  <2> QED
    BY <1>2, <1>4, <2>1, SameSeq
<1>7. Means(Code(0, 7), fixed_ltree, 256)
  BY <1>1, FixedMeans
<1> QED
  BY <1>2, <1>6, <1>7 DEF b, w

\* The code of a length.
LengthWord(k) == IF k <= 23 THEN Code(k, 7) ELSE Code(192 + (256 + k) - 280, 8)

\* What zlib_match writes of a length is the code of its class.
LEMMA LengthMeans ==
  ASSUME NEW k \in 1..29
  PROVE  /\ LengthWord(k) \in Seq(Bit) /\ Len(LengthWord(k)) \in 7..8
         /\ Means(LengthWord(k), fixed_ltree, 256 + k)
<1>1. CASE k <= 23
  <2>1. k \in Nat /\ 7 \in Nat /\ 7 \in 7..9 /\ LengthWord(k) = Code(k, 7)
    BY <1>1 DEF LengthWord
  <2>2. Code(k, 7) \in Seq(Bit) /\ Len(Code(k, 7)) = 7
    BY <2>1, CodeIs
  <2>3. Means(Code(k, 7), fixed_ltree, 256 + k)
    BY <1>1, <2>1, FixedMeans
  <2> QED
    BY <2>1, <2>2, <2>3
<1>2. CASE k > 23
  <2> DEFINE v == 192 + (256 + k) - 280
  <2>1. v \in Nat /\ v >= 192 /\ v < 200 /\ v + 88 = 256 + k /\ LengthWord(k) = Code(v, 8)
    BY <1>2 DEF LengthWord
  <2>2. 8 \in Nat /\ 8 \in 7..9
    OBVIOUS
  <2> HIDE DEF v
  <2>3. Code(v, 8) \in Seq(Bit) /\ Len(Code(v, 8)) = 8
    BY <2>1, <2>2, CodeIs
  <2>4. Means(Code(v, 8), fixed_ltree, 256 + k)
    BY <2>1, <2>2, FixedMeans
  <2> QED
    BY <2>1, <2>3, <2>4
<1> QED
  BY <1>1, <1>2

\* The code of a distance.
LEMMA DistanceMeans ==
  ASSUME NEW v \in 0..29
  PROVE  Code(v, 5) \in Seq(Bit) /\ Len(Code(v, 5)) = 5 /\ Means(Code(v, 5), fixed_dtree, v)
<1>1. v \in Nat /\ 5 \in Nat /\ 5 \in 1..15
  OBVIOUS
<1>2. Code(v, 5) \in Seq(Bit) /\ Len(Code(v, 5)) = 5
  BY <1>1, CodeIs
<1> DEFINE off == DistShorter
           half == Halves(v, 5)
<1>3. half \in [0..5 -> Nat]
  BY <1>1, HalvesAre
<1>4. \A k \in 0..5 : off[k] = IF k < 5 THEN 0 ELSE 32
  BY DEF DistShorter
<1>5. Shorter(fixed_dtree, 5, off)
  BY ShorterCodes
<1>6. v < Powers[5]
  BY DEF Powers
<1> HIDE DEF off, half
<1>7. v < off[5] /\ off[5] = 32
  BY <1>4
<1>8. ASSUME NEW k \in 1..5-1 PROVE half[5 - k] >= off[k]
  <2>1. half[5 - k] \in Nat /\ off[k] = 0
    BY <1>3, <1>4
  <2> QED
    BY <2>1
<1>9. v = fixed_dtree.trans[Sum(fixed_dtree, 5) + (v - off[5])]
  <2>1. Sum(fixed_dtree, 5) + (v - off[5]) = v
    BY <1>1, <1>7, FixedSums
  <2>2. v \in 0..31
    OBVIOUS
  <2> QED
    BY <2>1, <2>2, FixedTables
<1>10. Means(Code(v, 5), fixed_dtree, v)
  <2>1. Above(v, 5, off)
    BY <1>8 DEF Above, half
  <2> QED
    BY <1>1, <1>5, <1>6, <1>7, <2>1, <1>9, FixedTables, CodeMeans
<1> QED
  BY <1>2, <1>10

-----------------------------------------------------------------------------
\* The tables of the writer and of the reader agree.
LEMMA LengthTables ==
  \A k \in 1..29 :
    /\ lencodes[k][1] = length_bits[k] /\ lencodes[k][2] = length_base[k]
    /\ length_bits[k] \in 0..5 /\ length_base[k] \in 3..258
BY DEF lencodes, length_bits, length_base

\* A class of lencodes has one length, or one to five extra bits.
LEMMA LengthSpans ==
  \A k \in 1..29 :
    /\ lencodes[k][3] \in Nat
    /\ (lencodes[k][1] = 0 /\ lencodes[k][3] = lencodes[k][2]) \/ lencodes[k][1] \in 1..5
BY DEF lencodes

\* And no more lengths than these tell apart.
LEMMA LengthSpansFit ==
  \A k \in 1..29 : lencodes[k][1] \in 1..5 => lencodes[k][3] - lencodes[k][2] < Powers[lencodes[k][1]]
BY DEF lencodes, Powers

\* distcodes, of the writer, and dist_bits and dist_base, of the reader, say the same.
LEMMA DistanceTables ==
  \A k \in 1..30 :
    /\ distcodes[k][1] = dist_bits[k] /\ distcodes[k][2] = dist_base[k]
    /\ dist_bits[k] \in 0..13 /\ dist_base[k] \in Nat /\ dist_base[k] >= 1
BY DEF distcodes, dist_bits, dist_base

\* A class of distcodes has one distance, or one to thirteen extra bits.
LEMMA DistanceSpans ==
  \A k \in 1..30 :
    /\ distcodes[k][3] \in Nat
    /\ (distcodes[k][1] = 0 /\ distcodes[k][3] = distcodes[k][2]) \/ distcodes[k][1] \in 1..13
BY DEF distcodes

\* And no more distances than these tell apart.
LEMMA DistanceSpansFit ==
  \A k \in 1..30 : distcodes[k][1] \in 1..13 => distcodes[k][3] - distcodes[k][2] < Powers[distcodes[k][1]]
BY DEF distcodes, Powers

\* Every length has a class.
LEMMA LengthHasCode ==
  ASSUME NEW len \in 3..258
  PROVE  \E k \in 1..29 : lencodes[k][2] <= len /\ len <= lencodes[k][3]
BY DEF lencodes

\* Every distance up to the greatest has a class.
LEMMA DistanceHasCode ==
  ASSUME NEW dist \in Nat, dist >= 1, dist <= distcodes[30][3]
  PROVE  \E k \in 1..30 : distcodes[k][2] <= dist /\ dist <= distcodes[k][3]
BY SMT DEF distcodes

\* A number less the first of its code is read back from the extra bits of the code.
HasCode(codes, value, n, base) ==
  /\ codes[CodeOf(codes, value)][1] = n /\ codes[CodeOf(codes, value)][2] = base
  /\ n \in 0..13 /\ base \in Nat /\ base <= value
  /\ n = 0 => value = base
  /\ n > 0 => value - base < Powers[n]

\* The extra bits, added to the base of the class, give the value.
LEMMA ExtraAreRead ==
  ASSUME NEW codes, NEW value \in Nat, NEW n, NEW base, HasCode(codes, value, n, base)
  PROVE  /\ ExtraBits(codes, value) \in Seq(Bit) /\ Len(ExtraBits(codes, value)) = n
         /\ base + Value(ExtraBits(codes, value)) = value
<1> DEFINE v == value - base
           b == Bits(v, n)
<1>6. n \in 0..13 /\ base \in Nat /\ base <= value /\ (n = 0 => value = base) /\ (n > 0 => v < Powers[n])
  BY DEF HasCode
<1>1. v \in Nat /\ n \in Nat
  BY <1>6
<1>2. ExtraBits(codes, value) = b
  BY Zenon DEF ExtraBits, HasCode
<1>3. b \in Seq(Bit) /\ Len(b) = n
  BY <1>1, BitsAre
<1>4. Value(b) = v
  <2>1. CASE n = 0
    <3>1. v = 0
      BY <1>6, <2>1
    <3>2. Halves(v, n)[0] = v
      BY <1>1, HalvesAre
    <3>3. Halves(v, n)[n] = 0
      BY <2>1, <3>1, <3>2
    <3> HIDE DEF v
    <3> QED
      BY <1>1, <3>3, ValueOfBits
  <2>2. CASE n > 0
    <3>1. n \in 1..32 /\ v < Powers[n]
      BY <1>6, <2>2
    <3> HIDE DEF v
    <3> QED
      BY <1>1, <3>1, ValueOfFew
  <2> QED
    BY <1>6, <2>1, <2>2
<1> HIDE DEF b
<1>5. base + v = value
  BY <1>6
<1> QED
  BY <1>2, <1>3, <1>4, <1>5

\* What a match is written as, and what is read of it step by step.
LEMMA LengthIsRead ==
  ASSUME NEW len \in 3..258
  PROVE  \E k \in 1..29 :
           /\ LengthCode(len) \in Seq(Bit) /\ Len(LengthCode(len)) \in 7..8
           /\ Means(LengthCode(len), fixed_ltree, 256 + k)
           /\ ExtraBits(lencodes, len) \in Seq(Bit) /\ Len(ExtraBits(lencodes, len)) = length_bits[k]
           /\ length_base[k] + Value(ExtraBits(lencodes, len)) = len
<1> DEFINE k == CodeOf(lencodes, len)
<1>1. DOMAIN lencodes = 1..29
  BY DEF lencodes
<1>2. k \in 1..29 /\ lencodes[k][2] <= len /\ len <= lencodes[k][3]
  BY <1>1, LengthHasCode DEF CodeOf
<1> DEFINE w == LengthWord(k)
<1>3. LengthCode(len) = w
  <2>1. LengthCode(len) = IF 256 + k <= 279 THEN Code((256 + k) - 256, 7) ELSE Code(192 + (256 + k) - 280, 8)
    BY DEF LengthCode
  <2> HIDE DEF k
  <2>2. (256 + k) - 256 = k /\ (256 + k <= 279 <=> k <= 23)
    BY <1>2
  <2> QED
    BY <2>1, <2>2 DEF LengthWord
<1>4. w \in Seq(Bit) /\ Len(w) \in 7..8 /\ Means(w, fixed_ltree, 256 + k)
  <2> HIDE DEF k
  <2> QED
    BY <1>2, LengthMeans
<1> DEFINE n == length_bits[k]
           base == length_base[k]
<1>5. n \in 0..5 /\ base \in 3..258 /\ lencodes[k][1] = n /\ lencodes[k][2] = base
  BY <1>2, LengthTables
<1>6. k = CodeOf(lencodes, len)
  OBVIOUS
<1> HIDE DEF k, w
<1>7. (n = 0 /\ lencodes[k][3] = base) \/ n \in 1..5
  BY <1>2, <1>5, LengthSpans
<1>8. n \in 1..5 => lencodes[k][3] - base < Powers[n]
  BY <1>2, <1>5, LengthSpansFit
<1>9. lencodes[k][3] \in Nat
  BY <1>2, LengthSpans
<1> HIDE DEF n, base
<1>10. n \in 0..13 /\ base \in Nat /\ base <= len /\ (n = 0 => len = base) /\ len \in Nat
  BY <1>2, <1>5, <1>7, <1>9
<1>11. n > 0 => len - base < Powers[n]
  <2>1. SUFFICES ASSUME n > 0 PROVE len - base < Powers[n]
    OBVIOUS
  <2>2. n \in 1..5 /\ n \in 1..32
    BY <1>5, <2>1
  <2>3. Powers[n] \in Nat /\ lencodes[k][3] - base < Powers[n]
    BY <1>8, <2>2, PowersDouble
  <2> QED
    BY <1>2, <1>9, <1>10, <2>3
<1>12. ExtraBits(lencodes, len) \in Seq(Bit) /\ Len(ExtraBits(lencodes, len)) = n
       /\ base + Value(ExtraBits(lencodes, len)) = len
  <2>1. HasCode(lencodes, len, n, base)
    BY <1>5, <1>6, <1>10, <1>11 DEF HasCode
  <2> QED
    BY <1>10, <2>1, ExtraAreRead
<1> QED
  BY <1>2, <1>3, <1>4, <1>12 DEF n, base

\* What zlib_match writes of a distance is read as that distance.
LEMMA DistanceIsRead ==
  ASSUME NEW dist \in Nat, dist >= 1, dist <= distcodes[30][3]
  PROVE  \E k \in 1..30 :
           /\ Code(CodeOf(distcodes, dist) - 1, 5) \in Seq(Bit)
           /\ Len(Code(CodeOf(distcodes, dist) - 1, 5)) = 5
           /\ Means(Code(CodeOf(distcodes, dist) - 1, 5), fixed_dtree, k - 1)
           /\ ExtraBits(distcodes, dist) \in Seq(Bit) /\ Len(ExtraBits(distcodes, dist)) = dist_bits[k]
           /\ dist_base[k] + Value(ExtraBits(distcodes, dist)) = dist
<1> DEFINE k == CodeOf(distcodes, dist)
<1>1. DOMAIN distcodes = 1..30
  BY DEF distcodes
<1>2. k \in 1..30 /\ distcodes[k][2] <= dist /\ dist <= distcodes[k][3]
  BY <1>1, DistanceHasCode DEF CodeOf
<1>6. k = CodeOf(distcodes, dist)
  OBVIOUS
<1> HIDE DEF k
<1>4. Code(k - 1, 5) \in Seq(Bit) /\ Len(Code(k - 1, 5)) = 5 /\ Means(Code(k - 1, 5), fixed_dtree, k - 1)
  <2>1. k - 1 \in 0..29
    BY <1>2
  <2> QED
    BY <2>1, DistanceMeans
<1> DEFINE n == dist_bits[k]
           base == dist_base[k]
<1>5. n \in 0..13 /\ base \in Nat /\ distcodes[k][1] = n /\ distcodes[k][2] = base
  BY <1>2, DistanceTables
<1>7. (n = 0 /\ distcodes[k][3] = base) \/ n \in 1..13
  BY <1>2, <1>5, DistanceSpans
<1>8. n \in 1..13 => distcodes[k][3] - base < Powers[n]
  BY <1>2, <1>5, DistanceSpansFit
<1>9. distcodes[k][3] \in Nat
  BY <1>2, DistanceSpans
<1> HIDE DEF n, base
<1>13. dist \in Nat
  OBVIOUS
<1>10. base <= dist /\ (n = 0 => dist = base)
  BY <1>2, <1>5, <1>7, <1>9, <1>13
<1>11. n > 0 => dist - base < Powers[n]
  <2>1. SUFFICES ASSUME n > 0 PROVE dist - base < Powers[n]
    OBVIOUS
  <2>2. n \in 1..13 /\ n \in 1..32
    BY <1>5, <2>1
  <2>3. Powers[n] \in Nat /\ distcodes[k][3] - base < Powers[n]
    BY <1>8, <2>2, PowersDouble
  <2> QED
    BY <1>2, <1>5, <1>9, <1>10, <1>13, <2>3
<1>12. ExtraBits(distcodes, dist) \in Seq(Bit) /\ Len(ExtraBits(distcodes, dist)) = n
       /\ base + Value(ExtraBits(distcodes, dist)) = dist
  <2>1. HasCode(distcodes, dist, n, base)
    BY <1>5, <1>6, <1>10, <1>11 DEF HasCode
  <2> QED
    BY <2>1, ExtraAreRead
<1> QED
  BY <1>2, <1>4, <1>6, <1>12 DEF n, base

-----------------------------------------------------------------------------
(***************************************************************************)
(* Chunks, one after the other.                                            *)
(***************************************************************************)
UptoOf(seqs, f) == [i \in 0..Len(seqs) |-> IF i = 0 THEN <<>> ELSE f[i - 1] \o seqs[i]]
Upto(seqs) == CHOOSE upTo : upTo = UptoOf(seqs, upTo)
UptoSteps(S, seqs) == [i \in (0..Len(seqs)) \ {0} |-> [x \in Seq(S) |-> x \o seqs[i]]]

\* Joining chunks one by one is a recursion.
LEMMA UptoIs ==
  ASSUME NEW S, NEW seqs \in Seq(Seq(S))
  PROVE  /\ Upto(seqs) \in [0..Len(seqs) -> Seq(S)] /\ Upto(seqs)[0] = <<>>
         /\ Concat(seqs) = Upto(seqs)[Len(seqs)]
         /\ \A k \in 1..Len(seqs) : Upto(seqs)[k] = Upto(seqs)[k - 1] \o seqs[k]
<1> DEFINE n == Len(seqs)
           Q == Seq(S)
<1>1. n \in Nat /\ \A i \in 1..n : seqs[i] \in Q
  BY ElementOf
<1>2. <<>> \in Q /\ \A x, y \in Q : x \o y \in Q
  OBVIOUS
<1>d. n = Len(seqs) /\ Q = Seq(S)
  OBVIOUS
<1> HIDE DEF n, Q
<1>3. UptoSteps(S, seqs) \in Steps(0..n, Q)
  <2>1. ASSUME NEW i \in (0..n) \ {0} PROVE [x \in Q |-> x \o seqs[i]] \in [Q -> Q]
    <3>1. i \in 1..n
      BY <1>1
    <3>2. seqs[i] \in Q
      BY <1>1, <3>1
    <3> QED
      BY <1>2, <3>2
  <2>2. [i \in (0..n) \ {0} |-> [x \in Q |-> x \o seqs[i]]] \in [(0..n) \ {0} -> [Q -> Q]]
    BY <2>1
  <2> QED
    BY <1>d, <2>2 DEF Steps, UptoSteps
<1>4. PICK f : Leads(f, 0..n, Q, <<>>, UptoSteps(S, seqs))
  BY <1>1, <1>2, <1>3, Recursion
<1>5. \A k \in 1..n : \A x \in Q : UptoSteps(S, seqs)[k][x] = x \o seqs[k]
  <2> TAKE k \in 1..n
  <2>1. k \in (0..n) \ {0}
    BY <1>1
  <2>2. UptoSteps(S, seqs)[k] = [x \in Q |-> x \o seqs[k]]
    BY <1>d, <2>1 DEF UptoSteps
  <2> QED
    BY <2>2
<1>6. f = UptoOf(seqs, f)
  <2>1. f \in [0..n -> Q] /\ f[0] = <<>>
    BY <1>4 DEF Leads
  <2>2. ASSUME NEW k \in 1..n PROVE f[k] = f[k - 1] \o seqs[k]
    <3>0. k \in (0..n) \ {0} /\ k - 1 \in 0..n
      BY <1>1
    <3>1. f[k - 1] \in Q
      BY <2>1, <3>0
    <3>2. f[k] = UptoSteps(S, seqs)[k][f[k - 1]]
      BY <1>4, <3>0 DEF Leads
    <3> QED
      BY <1>5, <3>1, <3>2
  <2>3. ASSUME NEW k \in 0..n PROVE f[k] = IF k = 0 THEN <<>> ELSE f[k - 1] \o seqs[k]
    <3>1. k # 0 => k \in 1..n
      BY <1>1
    <3> QED
      BY <2>1, <2>2, <3>1, Zenon
  <2>4. f = [k \in 0..n |-> IF k = 0 THEN <<>> ELSE f[k - 1] \o seqs[k]]
    BY <2>1, <2>3, Zenon
  <2> QED
    BY <1>d, <2>4, Zenon DEF UptoOf
<1> DEFINE h == Upto(seqs)
<1>7. h = UptoOf(seqs, h)
  BY <1>6 DEF Upto
<1> HIDE DEF h
<1>8. h = [k \in 0..n |-> h[k]] /\ h[0] = <<>>
  BY <1>1, <1>7, <1>d DEF UptoOf
<1>13. \A k \in 1..n : h[k] = h[k - 1] \o seqs[k]
  <2> TAKE k \in 1..n
  <2>1. k \in 0..n /\ k # 0
    BY <1>1
  <2>2. h = [i \in 0..n |-> IF i = 0 THEN <<>> ELSE h[i - 1] \o seqs[i]]
    BY <1>7, <1>d, Zenon DEF UptoOf
  <2>3. h[k] = IF k = 0 THEN <<>> ELSE h[k - 1] \o seqs[k]
    BY <2>1, <2>2, Zenon
  <2> QED
    BY <2>1, <2>3
<1>9. \A k \in 1..n : h[k - 1] \in Q => h[k] = UptoSteps(S, seqs)[k][h[k - 1]]
  BY <1>5, <1>13
<1>10. Leads(h, 0..n, Q, <<>>, UptoSteps(S, seqs))
  BY <1>1, <1>2, <1>3, <1>8, <1>9, Follows
<1>11. Concat(seqs) = h[n]
  BY <1>d DEF Concat, Upto, UptoOf, h
<1>12. h \in [0..n -> Q]
  BY <1>10 DEF Leads
<1> QED
  BY <1>d, <1>8, <1>11, <1>12, <1>13 DEF h

\* The size of the first k of them.
Size(seqs, k) == Len(Upto(seqs)[k])

\* Where each chunk is in the whole.
LEMMA Pieces ==
  ASSUME NEW S, NEW seqs \in Seq(Seq(S))
  PROVE  /\ Concat(seqs) \in Seq(S)
         /\ Size(seqs, 0) = 0 /\ Size(seqs, Len(seqs)) = Len(Concat(seqs))
         /\ \A k \in 0..Len(seqs) : Size(seqs, k) \in Nat /\ Size(seqs, k) <= Len(Concat(seqs))
         /\ \A k \in 1..Len(seqs) : /\ Size(seqs, k) = Size(seqs, k - 1) + Len(seqs[k])
                                    /\ \A i \in 1..Len(seqs[k]) : Concat(seqs)[Size(seqs, k - 1) + i] = seqs[k][i]
<1> DEFINE n == Len(seqs)
           U == Upto(seqs)
           Starts(u, w) == Len(u) <= Len(w) /\ \A i \in 1..Len(u) : w[i] = u[i]
<1>1. n \in Nat /\ \A k \in 1..n : seqs[k] \in Seq(S)
  BY ElementOf
<1>2. U \in [0..n -> Seq(S)] /\ U[0] = <<>> /\ Concat(seqs) = U[n]
      /\ \A k \in 1..n : U[k] = U[k - 1] \o seqs[k]
  BY UptoIs
<1>3. \A k \in 0..n : Size(seqs, k) = Len(U[k]) /\ U[k] \in Seq(S) /\ Len(U[k]) \in Nat
  BY <1>2 DEF Size
<1>d. n = Len(seqs)
  OBVIOUS
<1> HIDE DEF n, U
<1>4. ASSUME NEW k \in 1..n
      PROVE /\ Len(U[k]) = Len(U[k - 1]) + Len(seqs[k]) /\ Starts(U[k - 1], U[k])
            /\ \A i \in 1..Len(seqs[k]) : U[k][Len(U[k - 1]) + i] = seqs[k][i]
  <2>1. k \in 0..n /\ k - 1 \in 0..n
    BY <1>1
  <2>2. U[k] = U[k - 1] \o seqs[k] /\ seqs[k] \in Seq(S) /\ U[k - 1] \in Seq(S)
    BY <1>1, <1>2, <1>3, <2>1
  <2> DEFINE u == U[k - 1]
             v == seqs[k]
             w == U[k]
  <2>3. u \in Seq(S) /\ v \in Seq(S) /\ w = u \o v
    BY <2>2
  <2> HIDE DEF u, v, w
  <2>4. Len(w) = Len(u) + Len(v) /\ (\A i \in 1..Len(u) : w[i] = u[i])
        /\ \A i \in 1..Len(v) : w[Len(u) + i] = v[i]
    BY <2>3, Cat
  <2>5. Len(v) \in Nat /\ Len(u) \in Nat
    BY <2>3
  <2>6. Len(u) <= Len(w)
    BY <2>4, <2>5
  <2> QED
    BY <2>4, <2>6, Zenon DEF u, v, w
<1> DEFINE T == {d \in Nat : \A k \in 0..n : k + d <= n => Starts(U[k], U[k + d])}
<1>5. 0 \in T
  BY <1>1, <1>3
<1>6. ASSUME NEW d \in Nat, d \in T PROVE d + 1 \in T
  <2>0. \A k \in 0..n : k + d <= n => Starts(U[k], U[k + d])
    BY <1>6
  <2>1. SUFFICES ASSUME NEW k \in 0..n, k + (d + 1) <= n PROVE Starts(U[k], U[k + (d + 1)])
    <3> HIDE DEF Starts
    <3> QED
      OBVIOUS
  <2> DEFINE m == k + (d + 1)
  <2>2. m \in 1..n /\ m - 1 = k + d /\ k + d <= n /\ m - 1 \in 0..n /\ m \in 0..n
    BY <1>1, <2>1
  <2>3. Starts(U[k], U[m - 1])
    BY <2>0, <2>2
  <2>4. Starts(U[m - 1], U[m])
    BY <1>4, <2>2
  <2>5. Len(U[k]) \in Nat /\ Len(U[m - 1]) \in Nat /\ Len(U[m]) \in Nat
    BY <1>3, <2>2
  <2> HIDE DEF m
  <2>6. Starts(U[k], U[m])
    BY <2>3, <2>4, <2>5
  <2> QED
    BY <2>6 DEF m
<1>7. Nat \subseteq T
  <2> HIDE DEF T
  <2> QED
    BY <1>5, <1>6, Induction
<1>8. ASSUME NEW k \in 0..n PROVE Starts(U[k], U[n])
  <2>1. n - k \in Nat /\ k + (n - k) <= n /\ k + (n - k) = n
    BY <1>1
  <2> QED
    BY <1>7, <2>1
<1>9. ASSUME NEW k \in 1..n PROVE \A i \in 1..Len(seqs[k]) : U[n][Len(U[k - 1]) + i] = seqs[k][i]
  <2> TAKE i \in 1..Len(seqs[k])
  <2>1. U[k][Len(U[k - 1]) + i] = seqs[k][i] /\ Len(U[k]) = Len(U[k - 1]) + Len(seqs[k])
    BY <1>4
  <2>2. k \in 0..n /\ k - 1 \in 0..n /\ seqs[k] \in Seq(S)
    BY <1>1
  <2>3. Len(U[k - 1]) \in Nat /\ Len(seqs[k]) \in Nat
    BY <1>3, <2>2
  <2>4. Starts(U[k], U[n])
    BY <1>8, <2>2
  <2>5. Len(U[k - 1]) + i \in 1..Len(U[k])
    <3>1. Len(U[k]) = Len(U[k - 1]) + Len(seqs[k]) /\ i \in 1..Len(seqs[k])
      BY <2>1
    <3> DEFINE a == Len(U[k - 1])
               b == Len(seqs[k])
               c == Len(U[k])
    <3>2. a \in Nat /\ b \in Nat /\ c = a + b /\ i \in 1..b
      BY <2>3, <3>1
    <3> HIDE DEF a, b, c
    <3>3. a + i \in 1..c
      BY <3>2
    <3> QED
      BY <3>3 DEF a, c
  <2> QED
    BY <2>1, <2>4, <2>5
<1> HIDE DEF Starts
<1>10. \A k \in 0..n : Len(U[k]) <= Len(U[n])
  BY <1>8 DEF Starts
<1>11. n \in 0..n /\ 0 \in 0..n /\ Len(U[0]) = 0 /\ \A k \in 1..n : k \in 0..n /\ k - 1 \in 0..n
  BY <1>1, <1>2
<1>12. Concat(seqs) \in Seq(S) /\ Size(seqs, 0) = 0 /\ Size(seqs, n) = Len(Concat(seqs))
  BY <1>2, <1>3, <1>11
<1>13. \A k \in 0..n : Size(seqs, k) \in Nat /\ Size(seqs, k) <= Len(Concat(seqs))
  BY <1>2, <1>3, <1>10
<1>14. \A k \in 1..n : Size(seqs, k) = Size(seqs, k - 1) + Len(seqs[k])
                       /\ \A i \in 1..Len(seqs[k]) : Concat(seqs)[Size(seqs, k - 1) + i] = seqs[k][i]
  BY <1>2, <1>3, <1>4, <1>9, <1>11
<1> QED
  BY <1>d, <1>12, <1>13, <1>14

-----------------------------------------------------------------------------
(***************************************************************************)
(* Checksums.                                                              *)
(***************************************************************************)
Words == [1..32 -> Bit]

\* A function over 1..n is a sequence.
LEMMA IsSequence ==
  ASSUME NEW S, NEW n \in Nat, NEW w \in [1..n -> S]
  PROVE  w \in Seq(S) /\ Len(w) = n /\ DOMAIN w = 1..n
OBVIOUS

\* A word of a checksum has 32 bits, and so has its inverse.
LEMMA WordsAreSequences ==
  ASSUME NEW w \in Words
  PROVE  w \in Seq(Bit) /\ Len(w) = 32 /\ NotBits(w) \in Seq(Bit) /\ Len(NotBits(w)) = 32
<1>0. 32 \in Nat
  OBVIOUS
<1>1. w \in Seq(Bit) /\ Len(w) = 32 /\ DOMAIN w = 1..32
  BY <1>0, IsSequence DEF Words
<1>2. \A i \in 1..32 : 1 - w[i] \in Bit
  <2> TAKE i \in 1..32
  <2>1. w[i] \in Bit
    BY DEF Words
  <2> QED
    BY <2>1 DEF Bit
<1>3. NotBits(w) = [i \in 1..32 |-> 1 - w[i]]
  BY <1>1 DEF NotBits
<1>4. NotBits(w) \in [1..32 -> Bit]
  BY <1>2, <1>3
<1> QED
  BY <1>0, <1>1, <1>4, IsSequence

\* The words of tinf_crc32tab.
LEMMA TableWords ==
  \A i \in 1..16 : tinf_crc32tab[i] \in Seq(Bit) /\ Len(tinf_crc32tab[i]) = 32
<1>1. ASSUME NEW h \in Nat, NEW l \in Nat PROVE Crc32(h, l) \in Seq(Bit) /\ Len(Crc32(h, l)) = 32
  <2>1. 16 \in Nat
    OBVIOUS
  <2> DEFINE u == Bits(l, 16)
             v == Bits(h, 16)
  <2>2. u \in Seq(Bit) /\ Len(u) = 16 /\ v \in Seq(Bit) /\ Len(v) = 16
    BY <2>1, BitsAre
  <2>4. Crc32(h, l) = u \o v
    BY DEF Crc32
  <2> HIDE DEF u, v
  <2>5. u \in Seq(Bit) /\ v \in Seq(Bit)
    BY <2>2
  <2>3. u \o v \in Seq(Bit) /\ Len(u \o v) = Len(u) + Len(v)
    BY <2>5, Cat
  <2> QED
    BY <2>2, <2>3, <2>4
<1>2. \A i \in 1..16 : \E h, l \in Nat : tinf_crc32tab[i] = Crc32(h, l)
  BY SMT DEF tinf_crc32tab
<1> QED
  <2> TAKE i \in 1..16
  <2>1. PICK h \in Nat, l \in Nat : tinf_crc32tab[i] = Crc32(h, l)
    BY <1>2
  <2> QED
    BY <1>1, <2>1, Zenon

\* A step of half a byte gives a word.
LEMMA NibbleIsWord ==
  ASSUME NEW crc \in Words
  PROVE  CrcNibble(crc) \in Words
<1> DEFINE k == 1 + crc[1] + 2 * crc[2] + 4 * crc[3] + 8 * crc[4]
           word == tinf_crc32tab[k]
<1>1. \A i \in 1..32 : crc[i] \in Bit
  BY DEF Words
<1>2. k \in 1..16
  <2>1. crc[1] \in Bit /\ crc[2] \in Bit /\ crc[3] \in Bit /\ crc[4] \in Bit
    BY <1>1
  <2> QED
    BY <2>1 DEF Bit
<1>3. CrcNibble(crc) = [i \in 1..32 |-> IF i > 28 THEN word[i] ELSE (word[i] + crc[i + 4]) % 2]
  BY DEF CrcNibble
<1> HIDE DEF k
<1>4. word \in Seq(Bit) /\ Len(word) = 32
  BY <1>2, TableWords
<1> HIDE DEF word
<1>5. \A i \in 1..32 : word[i] \in Bit
  BY <1>4, ElementOf
<1>6. ASSUME NEW i \in 1..32 PROVE (IF i > 28 THEN word[i] ELSE (word[i] + crc[i + 4]) % 2) \in Bit
  <2>1. CASE i > 28
    BY <1>5, <2>1
  <2>2. CASE ~(i > 28)
    <3>1. word[i] \in Bit /\ i + 4 \in 1..32
      BY <1>5, <2>2
    <3>2. crc[i + 4] \in Bit
      BY <1>1, <3>1
    <3>3. (word[i] + crc[i + 4]) % 2 \in Bit
      BY <3>1, <3>2 DEF Bit
    <3> QED
      BY <2>2, <3>3
  <2> QED
    BY <2>1, <2>2
<1> QED
  BY <1>3, <1>6 DEF Words

\* So does the step of a byte.
LEMMA ByteIsWord ==
  ASSUME NEW crc \in Words, NEW byte \in Byte
  PROVE  CrcByte(crc, byte) \in Words
<1> DEFINE b == Bits(byte, 8)
           x == [i \in 1..32 |-> IF i > 8 THEN crc[i] ELSE (crc[i] + b[i]) % 2]
<1>1. \A i \in 1..32 : crc[i] \in Bit
  BY DEF Words
<1>2. b \in Seq(Bit) /\ Len(b) = 8
  BY BitsOfByte
<1>3. CrcByte(crc, byte) = CrcNibble(CrcNibble(x))
  BY DEF CrcByte
<1> HIDE DEF b
<1>4. \A i \in 1..8 : b[i] \in Bit
  BY <1>2, ElementOf
<1>5. ASSUME NEW i \in 1..32 PROVE (IF i > 8 THEN crc[i] ELSE (crc[i] + b[i]) % 2) \in Bit
  <2>1. CASE i > 8
    BY <1>1, <2>1
  <2>2. CASE ~(i > 8)
    <3>1. i \in 1..8
      BY <2>2
    <3>2. crc[i] \in Bit /\ b[i] \in Bit
      BY <1>1, <1>4, <3>1
    <3>3. (crc[i] + b[i]) % 2 \in Bit
      BY <3>2 DEF Bit
    <3> QED
      BY <2>2, <3>3
  <2> QED
    BY <2>1, <2>2
<1>6. x \in Words
  BY <1>5 DEF Words
<1> HIDE DEF x
<1> QED
  BY <1>3, <1>6, NibbleIsWord

\* The checksum of the first bytes of a sequence, by how many they are.
CrcOf(s, f) == [i \in 0..Len(s) |-> IF i = 0 THEN CrcStart ELSE CrcByte(f[i - 1], s[i])]
Crc(s) == CHOOSE crc : crc = CrcOf(s, crc)
CrcSteps(s) == [i \in (0..Len(s)) \ {0} |-> [x \in Words |-> CrcByte(x, s[i])]]

\* The checksum of the first k bytes.
LEMMA CrcIs ==
  ASSUME NEW s \in Seq(Byte)
  PROVE  /\ \A k \in 0..Len(s) : Crc(s)[k] \in Words
         /\ Crc(s)[0] = CrcStart
         /\ \A k \in 1..Len(s) : Crc(s)[k] = CrcByte(Crc(s)[k - 1], s[k])
<1> DEFINE n == Len(s)
<1>1. n \in Nat /\ \A i \in 1..n : s[i] \in Byte
  BY ElementOf
<1>2. CrcStart \in Words
  BY DEF CrcStart, Words, Bit
<1>d. n = Len(s)
  OBVIOUS
<1> HIDE DEF n
<1>3. CrcSteps(s) \in Steps(0..n, Words)
  <2>1. ASSUME NEW i \in (0..n) \ {0} PROVE [x \in Words |-> CrcByte(x, s[i])] \in [Words -> Words]
    <3>1. i \in 1..n
      BY <1>1
    <3>2. s[i] \in Byte
      BY <1>1, <3>1
    <3>3. \A x \in Words : CrcByte(x, s[i]) \in Words
      BY <3>2, ByteIsWord
    <3> QED
      BY <3>3
  <2>2. [i \in (0..n) \ {0} |-> [x \in Words |-> CrcByte(x, s[i])]] \in [(0..n) \ {0} -> [Words -> Words]]
    BY <2>1
  <2> QED
    BY <1>d, <2>2 DEF Steps, CrcSteps
<1>4. PICK f : Leads(f, 0..n, Words, CrcStart, CrcSteps(s))
  BY <1>1, <1>2, <1>3, Recursion
<1>5. \A k \in 1..n : \A x \in Words : CrcSteps(s)[k][x] = CrcByte(x, s[k])
  <2> TAKE k \in 1..n
  <2>1. k \in (0..n) \ {0}
    BY <1>1
  <2>2. CrcSteps(s)[k] = [x \in Words |-> CrcByte(x, s[k])]
    BY <1>d, <2>1 DEF CrcSteps
  <2> QED
    BY <2>2
<1>6. f = CrcOf(s, f)
  <2>1. f \in [0..n -> Words] /\ f[0] = CrcStart
    BY <1>4 DEF Leads
  <2>2. ASSUME NEW k \in 1..n PROVE f[k] = CrcByte(f[k - 1], s[k])
    <3>0. k \in (0..n) \ {0} /\ k - 1 \in 0..n
      BY <1>1
    <3>1. f[k - 1] \in Words
      BY <2>1, <3>0
    <3>2. f[k] = CrcSteps(s)[k][f[k - 1]]
      BY <1>4, <3>0 DEF Leads
    <3> QED
      BY <1>5, <3>1, <3>2
  <2>3. ASSUME NEW k \in 0..n PROVE f[k] = IF k = 0 THEN CrcStart ELSE CrcByte(f[k - 1], s[k])
    <3>1. k # 0 => k \in 1..n
      BY <1>1
    <3> QED
      BY <2>1, <2>2, <3>1, Zenon
  <2>4. f = [k \in 0..n |-> IF k = 0 THEN CrcStart ELSE CrcByte(f[k - 1], s[k])]
    BY <2>1, <2>3, Zenon
  <2> QED
    BY <1>d, <2>4, Zenon DEF CrcOf
<1> DEFINE h == Crc(s)
<1>7. h = CrcOf(s, h)
  BY <1>6 DEF Crc
<1> HIDE DEF h
<1>8. h = [k \in 0..n |-> IF k = 0 THEN CrcStart ELSE CrcByte(h[k - 1], s[k])]
  BY <1>7, <1>d, Zenon DEF CrcOf
<1>9. h = [k \in 0..n |-> h[k]] /\ h[0] = CrcStart
  BY <1>1, <1>8
<1>10. \A k \in 1..n : h[k] = CrcByte(h[k - 1], s[k])
  <2> TAKE k \in 1..n
  <2>1. k \in 0..n /\ k # 0
    BY <1>1
  <2>3. h[k] = IF k = 0 THEN CrcStart ELSE CrcByte(h[k - 1], s[k])
    BY <2>1, <1>8, Zenon
  <2> QED
    BY <2>1, <2>3
<1>11. \A k \in 1..n : h[k - 1] \in Words => h[k] = CrcSteps(s)[k][h[k - 1]]
  BY <1>5, <1>10
<1>12. Leads(h, 0..n, Words, CrcStart, CrcSteps(s))
  BY <1>1, <1>2, <1>3, <1>9, <1>11, Follows
<1>13. \A k \in 0..n : h[k] \in Words
  BY <1>12 DEF Leads
<1> QED
  BY <1>d, <1>9, <1>10, <1>13 DEF h

\* The footer: the checksum and the size, bit by bit.
LEMMA FooterSpells ==
  ASSUME NEW crc \in Words, NEW len \in Nat
  PROVE  /\ lzFooter(len, NotBits(crc)) \in Seq(Byte)
         /\ Flat(lzFooter(len, NotBits(crc))) = NotBits(crc) \o Bits(len, 32)
<1> DEFINE u == NotBits(crc)
           v == Bits(len, 32)
<1>1. u \in Seq(Bit) /\ Len(u) = 32
  BY WordsAreSequences
<1>2. v \in Seq(Bit) /\ Len(v) = 32
  <2>1. 32 \in Nat
    OBVIOUS
  <2> QED
    BY <2>1, BitsAre
<1>3. lzFooter(len, u) = Word(u) \o Word(v)
  BY DEF lzFooter
<1> HIDE DEF u, v
<1>4. ASSUME NEW w \in Seq(Bit), Len(w) = 32 PROVE Word(w) \in Seq(Byte) /\ Flat(Word(w)) = w
  <2>1. Word(w) = Packed(w, 4)
    BY DEF Word, Packed
  <2>2. 4 \in Nat /\ 8 * 4 <= Len(w) /\ 8 * 4 = 32
    BY <1>4
  <2>3. Packed(w, 4) \in Seq(Byte) /\ Flat(Packed(w, 4)) = SubSeq(w, 1, 8 * 4)
    BY <2>2, FlatOfPacked
  <2>4. SubSeq(w, 1, 32) = w
    BY <1>4
  <2> QED
    BY <2>1, <2>2, <2>3, <2>4
<1>5. Word(u) \in Seq(Byte) /\ Flat(Word(u)) = u /\ Word(v) \in Seq(Byte) /\ Flat(Word(v)) = v
  BY <1>1, <1>2, <1>4
<1>6. Word(u) \o Word(v) \in Seq(Byte) /\ Flat(Word(u) \o Word(v)) = u \o v
  <2>1. Word(u) \o Word(v) \in Seq(Byte)
    BY <1>5
  <2>2. Flat(Word(u) \o Word(v)) = Flat(Word(u)) \o Flat(Word(v))
    BY <1>5, FlatCat
  <2> QED
    BY <1>5, <2>1, <2>2, Zenon
<1> QED
  BY <1>3, <1>6 DEF u, v

-----------------------------------------------------------------------------
(***************************************************************************)
(* The roads through what the writer writes. A node is a place of the      *)
(* stream where something begins, and how much of the data was expanded by *)
(* then: a block, a symbol of a block that is or is not the last one, the  *)
(* empty block after a block, or the trailer.                              *)
(***************************************************************************)
Nodes == {"block", "symbol", "empty", "trailer"} \X (0..1) \X Nat \X Nat
AtBlock(p, q) == <<"block", 0, p, q>>
AtSymbol(f, p, q) == <<"symbol", f, p, q>>
AtEmpty(p, q) == <<"empty", 0, p, q>>
AtTrailer(p, q) == <<"trailer", 0, p, q>>

\* The places are nodes.
LEMMA NodesAre ==
  ASSUME NEW f \in 0..1, NEW p \in Nat, NEW q \in Nat
  PROVE  /\ AtBlock(p, q) \in Nodes /\ AtSymbol(f, p, q) \in Nodes
         /\ AtEmpty(p, q) \in Nodes /\ AtTrailer(p, q) \in Nodes
BY DEF Nodes, AtBlock, AtSymbol, AtEmpty, AtTrailer

\* The first whole byte from p on.
UpToByte(p, a) == (\E k \in Nat : a = 8 * k) /\ p <= a /\ a < p + 8
\* The next l bytes are those of d before them.
Repeats(E, q, d, l) ==
  /\ 1 <= d /\ d <= dict_size /\ d <= q /\ q + l <= Len(E)
  /\ \A i \in 1..l : E[q + i] = E[q + i - d]

BlockGoes(T, s, p, q) ==
  \E f \in 0..1 : Spells(s, p, Bits(f, 1) \o Bits(1, 2)) /\ AtSymbol(f, p + 3, q) \in T
LiteralGoes(T, s, E, f, p, q) ==
  /\ q < Len(E) /\ Spells(s, p, zlib_literal(E[q + 1]))
  /\ AtSymbol(f, p + Len(zlib_literal(E[q + 1])), q + 1) \in T
MatchGoes(T, s, E, f, p, q) ==
  \E d \in Nat, l \in 3..258 :
    /\ Repeats(E, q, d, l) /\ Spells(s, p, zlib_match(d, l))
    /\ AtSymbol(f, p + Len(zlib_match(d, l)), q + l) \in T
PlainEnds(T, s, f, p, q) == f = 0 /\ Spells(s, p, Bits(0, 7)) /\ AtEmpty(p + 7, q) \in T
FinalEnds(T, s, f, p, q) ==
  f = 1 /\ Spells(s, p, Bits(0, 7)) /\ \E a \in Nat : UpToByte(p + 7, a) /\ AtTrailer(a, q) \in T
EmptyGoes(T, s, p, q) ==
  /\ Spells(s, p, Bits(0, 3))
  /\ \E a \in Nat : /\ UpToByte(p + 3, a) /\ Spells(s, a, Flat(EmptyBlockLength))
                    /\ AtBlock(a + 32, q) \in T
TrailerGoes(s, E, p, q) ==
  q = Len(E) /\ Spells(s, p, NotBits(Crc(E)[q])) /\ Spells(s, p + 32, Bits(q, 32))

\* What is at a node, and where it leads.
Goes(T, s, E, n) ==
  \/ n[1] = "block" /\ BlockGoes(T, s, n[3], n[4])
  \/ n[1] = "symbol" /\ \/ LiteralGoes(T, s, E, n[2], n[3], n[4]) \/ MatchGoes(T, s, E, n[2], n[3], n[4])
                        \/ PlainEnds(T, s, n[2], n[3], n[4]) \/ FinalEnds(T, s, n[2], n[3], n[4])
  \/ n[1] = "empty" /\ EmptyGoes(T, s, n[3], n[4])
  \/ n[1] = "trailer" /\ TrailerGoes(s, E, n[3], n[4])

\* A road that ends here, or that goes all the way.
Road(T, s, E, here) == T \subseteq Nodes /\ here \in T /\ \A n \in T : n = here \/ Goes(T, s, E, n)
Whole(T, s, E) == T \subseteq Nodes /\ \A n \in T : Goes(T, s, E, n)

\* No match is farther than the farthest class reaches.
LEMMA FarthestMatch ==
  dict_size \in Nat /\ dict_size <= distcodes[30][3]
BY DictAssumption, SMT DEF distcodes

DistanceCode(d) == Code(CodeOf(distcodes, d) - 1, 5)

\* Joining does not depend on the order.
LEMMA CatTwice ==
  ASSUME NEW S, NEW u \in Seq(S), NEW v \in Seq(S), NEW w \in Seq(S)
  PROVE  (u \o v) \o w = u \o (v \o w) /\ (u \o v) \o w \in Seq(S)
OBVIOUS

\* The same of bits, under a name, as it is cited where SMT would unfold the joins.
Joins(u, v, w) == (u \o v) \o w = u \o (v \o w)

\* Joining bits does not depend on the order.
LEMMA CatBits ==
  \A u, v, w \in Seq(Bit) : Joins(u, v, w)
BY CatTwice DEF Joins

\* The bits of a match.
LEMMA MatchIsBits ==
  ASSUME NEW d \in Nat, 1 <= d, d <= dict_size, NEW l \in 3..258
  PROVE  /\ LengthCode(l) \in Seq(Bit) /\ ExtraBits(lencodes, l) \in Seq(Bit)
         /\ DistanceCode(d) \in Seq(Bit) /\ ExtraBits(distcodes, d) \in Seq(Bit)
         /\ zlib_match(d, l) = LengthCode(l) \o (ExtraBits(lencodes, l) \o (DistanceCode(d) \o ExtraBits(distcodes, d)))
         /\ zlib_match(d, l) \in Seq(Bit)
<1> DEFINE u == LengthCode(l)
           v == ExtraBits(lencodes, l)
           w == DistanceCode(d)
           x == ExtraBits(distcodes, d)
<1>1. u \in Seq(Bit) /\ v \in Seq(Bit)
  BY LengthIsRead
<1>2. d <= distcodes[30][3]
  <2> DEFINE most == distcodes[30][3]
  <2>1. dict_size \in Nat /\ dict_size <= most /\ most \in Nat
    <3>1. most \in Nat
      BY DistanceSpans
    <3> QED
      BY <3>1, FarthestMatch
  <2> HIDE DEF most
  <2>2. d <= most
    BY <2>1
  <2> QED
    BY <2>2 DEF most
<1>3. w \in Seq(Bit) /\ x \in Seq(Bit)
  BY <1>2, DistanceIsRead DEF DistanceCode
<1>4. zlib_match(d, l) = u \o v \o w \o x
  BY DEF zlib_match, DistanceCode
<1> HIDE DEF u, v, w, x
<1>5. u \o v \o w \o x = u \o (v \o (w \o x)) /\ u \o v \o w \o x \in Seq(Bit)
  <2> DEFINE y == u \o v
             z == w \o x
  <2>1. y \in Seq(Bit) /\ z \in Seq(Bit)
    BY <1>1, <1>3
  <2>2. y \o z = u \o (v \o z)
    <3> HIDE DEF z
    <3> QED
      <4>1. Joins(u, v, z)
        BY <1>1, <2>1, CatBits, Zenon
      <4> QED
        BY <4>1, Zenon DEF Joins
  <2>3. (y \o w) \o x = y \o z /\ (y \o w) \o x \in Seq(Bit)
    <3> HIDE DEF y
    <3> QED
      BY <1>3, <2>1, CatTwice
  <2> QED
    BY <2>2, <2>3
<1> QED
  BY <1>1, <1>3, <1>4, <1>5 DEF u, v, w, x

\* The bits of the header of a block.
LEMMA StartIsBits ==
  ASSUME NEW f \in 0..1
  PROVE  Bits(f, 1) \in Seq(Bit) /\ Len(Bits(f, 1)) = 1 /\ Bits(1, 2) \in Seq(Bit) /\ Len(Bits(1, 2)) = 2
         /\ Bits(f, 1) \o Bits(1, 2) \in Seq(Bit) /\ Len(Bits(f, 1) \o Bits(1, 2)) = 3
<1> DEFINE u == Bits(f, 1)
           v == Bits(1, 2)
<1>1. 1 \in Nat /\ 2 \in Nat /\ f \in Nat
  OBVIOUS
<1>2. u \in Seq(Bit) /\ Len(u) = 1 /\ v \in Seq(Bit) /\ Len(v) = 2
  BY <1>1, BitsAre
<1> HIDE DEF u, v
<1>3. u \in Seq(Bit) /\ v \in Seq(Bit)
  BY <1>2
<1>4. u \o v \in Seq(Bit) /\ Len(u \o v) = Len(u) + Len(v)
  BY <1>3, Cat
<1>5. Len(u \o v) = 3
  BY <1>2, <1>4
<1> QED
  BY <1>2, <1>4, <1>5, Zenon DEF u, v

\* The bits of the length of an empty stored block.
LEMMA EmptyLengthIsBits ==
  EmptyBlockLength \in Seq(Byte) /\ Len(EmptyBlockLength) = 4
  /\ Flat(EmptyBlockLength) \in Seq(Bit) /\ Len(Flat(EmptyBlockLength)) = 32
<1>1. EmptyBlockLength \in Seq(Byte) /\ Len(EmptyBlockLength) = 4
  BY DEF EmptyBlockLength, Byte
<1> DEFINE m == EmptyBlockLength
<1> HIDE DEF m
<1>2. m \in Seq(Byte) /\ Len(m) = 4
  BY <1>1 DEF m
<1>3. Flat(m) \in Seq(Bit) /\ Len(Flat(m)) = 8 * Len(m)
  BY <1>2, FlatIs
<1>4. Len(Flat(m)) = 32
  BY <1>2, <1>3
<1> QED
  BY <1>2, <1>3, <1>4, Zenon DEF m

\* A road stays one when it and the stream go on.
LEMMA GoesStill ==
  ASSUME NEW s \in Seq(Bit), NEW t \in Seq(Bit), Spells(t, 0, s), NEW E \in Seq(Byte),
         NEW T, NEW U, T \subseteq U, NEW n \in Nodes, Goes(T, s, E, n)
  PROVE  Goes(U, t, E, n)
<1> DEFINE f == n[2]
           p == n[3]
           q == n[4]
<1>1. f \in 0..1 /\ p \in Nat /\ q \in Nat
  BY DEF Nodes
<1> HIDE DEF f, p, q
<1>2. BlockGoes(T, s, p, q) => BlockGoes(U, t, p, q)
  <2>1. SUFFICES ASSUME NEW g \in 0..1, Spells(s, p, Bits(g, 1) \o Bits(1, 2)), AtSymbol(g, p + 3, q) \in T
                 PROVE  Spells(t, p, Bits(g, 1) \o Bits(1, 2)) /\ AtSymbol(g, p + 3, q) \in U
    BY Zenon DEF BlockGoes
  <2>2. Bits(g, 1) \o Bits(1, 2) \in Seq(Bit)
    BY StartIsBits
  <2>3. Spells(t, p, Bits(g, 1) \o Bits(1, 2))
    <3> DEFINE w == Bits(g, 1) \o Bits(1, 2)
    <3>1. w \in Seq(Bit) /\ Spells(s, p, w)
      BY <2>1, <2>2
    <3> HIDE DEF w
    <3>2. Spells(t, p, w)
      BY <1>1, <3>1, SpellsOn
    <3> QED
      BY <3>2 DEF w
  <2> QED
    BY <2>1, <2>3
<1>3. LiteralGoes(T, s, E, f, p, q) => LiteralGoes(U, t, E, f, p, q)
  <2>1. SUFFICES ASSUME q < Len(E), Spells(s, p, zlib_literal(E[q + 1])) PROVE Spells(t, p, zlib_literal(E[q + 1]))
    BY Zenon DEF LiteralGoes
  <2>2. E[q + 1] \in Byte
    BY <1>1, <2>1
  <2>3. zlib_literal(E[q + 1]) \in Seq(Bit)
    BY <2>2, LiteralMeans
  <2> QED
    BY <1>1, <2>1, <2>3, SpellsOn
<1>4. MatchGoes(T, s, E, f, p, q) => MatchGoes(U, t, E, f, p, q)
  <2>1. SUFFICES ASSUME NEW d \in Nat, NEW l \in 3..258, Repeats(E, q, d, l), Spells(s, p, zlib_match(d, l))
                 PROVE  Spells(t, p, zlib_match(d, l))
    BY Zenon DEF MatchGoes
  <2>2. 1 <= d /\ d <= dict_size
    BY <2>1, Zenon DEF Repeats
  <2>3. zlib_match(d, l) \in Seq(Bit)
    BY <2>2, MatchIsBits
  <2> QED
    BY <1>1, <2>1, <2>3, SpellsOn
<1>5. Spells(s, p, Bits(0, 7)) => Spells(t, p, Bits(0, 7))
  <2>1. Bits(0, 7) \in Seq(Bit)
    BY EndMeans
  <2> QED
    BY <1>1, <2>1, SpellsOn
<1>6. PlainEnds(T, s, f, p, q) => PlainEnds(U, t, f, p, q)
  BY <1>5, Zenon DEF PlainEnds
<1>7. FinalEnds(T, s, f, p, q) => FinalEnds(U, t, f, p, q)
  BY <1>5, Zenon DEF FinalEnds
<1>8. EmptyGoes(T, s, p, q) => EmptyGoes(U, t, p, q)
  <2>1. SUFFICES ASSUME Spells(s, p, Bits(0, 3)), NEW a \in Nat, Spells(s, a, Flat(EmptyBlockLength))
                 PROVE  Spells(t, p, Bits(0, 3)) /\ Spells(t, a, Flat(EmptyBlockLength))
    BY Zenon DEF EmptyGoes
  <2>2. Bits(0, 3) \in Seq(Bit)
    <3>1. 3 \in Nat
      OBVIOUS
    <3> QED
      BY <3>1, ZeroBits
  <2>3. Spells(t, p, Bits(0, 3))
    BY <1>1, <2>1, <2>2, SpellsOn
  <2>4. Spells(t, a, Flat(EmptyBlockLength))
    BY <2>1, EmptyLengthIsBits, SpellsOn
  <2> QED
    BY <2>3, <2>4
<1>9. TrailerGoes(s, E, p, q) => TrailerGoes(t, E, p, q)
  <2>1. SUFFICES ASSUME q = Len(E), Spells(s, p, NotBits(Crc(E)[q])), Spells(s, p + 32, Bits(q, 32))
                 PROVE  Spells(t, p, NotBits(Crc(E)[q])) /\ Spells(t, p + 32, Bits(q, 32))
    BY Zenon DEF TrailerGoes
  <2>2. NotBits(Crc(E)[q]) \in Seq(Bit)
    <3>1. Crc(E)[q] \in Words
      BY <1>1, <2>1, CrcIs
    <3> QED
      BY <3>1, WordsAreSequences
  <2>3. Bits(q, 32) \in Seq(Bit)
    <3>1. 32 \in Nat
      OBVIOUS
    <3> QED
      BY <1>1, <3>1, BitsAre
  <2>4. Spells(t, p, NotBits(Crc(E)[q]))
    BY <1>1, <2>1, <2>2, SpellsOn
  <2>5. p + 32 \in Nat
    BY <1>1
  <2>6. Spells(t, p + 32, Bits(q, 32))
    BY <2>1, <2>3, <2>5, SpellsOn
  <2> QED
    BY <2>4, <2>6
<1> QED
  BY <1>2, <1>3, <1>4, <1>6, <1>7, <1>8, <1>9, Zenon DEF Goes, f, p, q

\* A road that ends somewhere goes on when more of the stream is there.
LEMMA RoadGrows ==
  ASSUME NEW s \in Seq(Bit), NEW t \in Seq(Bit), Spells(t, 0, s), NEW E \in Seq(Byte),
         NEW T, NEW here, Road(T, s, E, here), NEW new \in Nodes, Goes(T \cup {new}, t, E, here)
  PROVE  Road(T \cup {new}, t, E, new)
<1> DEFINE U == T \cup {new}
<1>1. U \subseteq Nodes /\ new \in U /\ T \subseteq U
  BY DEF Road
<1>2. ASSUME NEW n \in U PROVE n = new \/ Goes(U, t, E, n)
  <2>1. n = new \/ n = here \/ (n \in Nodes /\ Goes(T, s, E, n))
    BY Zenon DEF Road
  <2> HIDE DEF U
  <2>2. n \in Nodes /\ Goes(T, s, E, n) => Goes(U, t, E, n)
    BY <1>1, GoesStill
  <2>3. Goes(U, t, E, here)
    BY DEF U
  <2> QED
    BY <2>1, <2>2, <2>3, Zenon
<1> QED
  BY <1>1, <1>2, Zenon DEF Road

-----------------------------------------------------------------------------
(***************************************************************************)
(* The writer.                                                             *)
(***************************************************************************)
Stream == Flat(member) \o outbits

\* What goes through outbits is added to the stream.
LEMMA WordIsWritten ==
  ASSUME NEW pending \in Seq(Bit), NEW w \in Seq(Bit), member \in Seq(Byte), OutBits(pending, w, <<>>)
  PROVE  /\ member' \in Seq(Byte) /\ outbits' \in Seq(Bit) /\ Spells(member', 0, member)
         /\ Stream' = (Flat(member) \o pending) \o w
<1>1. <<>> \in Seq(Byte)
  OBVIOUS
<1>2. PICK k \in Nat, u \in Seq(Bit) :
        /\ member' \in Seq(Byte) /\ outbits' \in Seq(Bit)
        /\ pending \o w = u \o outbits' /\ Flat(member') = (Flat(member) \o u) \o Flat(<<>>)
        /\ Spells(member', 0, member)
  BY <1>1, OutBitsKeepsAll
<1>3. Flat(<<>>) = <<>>
  BY DEF Flat
<1> DEFINE m == Flat(member)
           rest == outbits'
<1>4. m \in Seq(Bit) /\ rest \in Seq(Bit)
  BY <1>2, FlatIs
<1>5. Flat(member') = m \o u
  <2>1. (m \o u) \o <<>> = m \o u
    <3> HIDE DEF m
    <3> QED
      BY <1>4
  <2> QED
    BY <1>2, <1>3, <2>1
<1>6. Stream' = (m \o u) \o rest
  BY <1>5 DEF Stream
<1>7. pending \o w = u \o rest
  BY <1>2
<1> HIDE DEF m, rest
<1>8. Joins(m, u, rest) /\ Joins(m, pending, w)
  BY <1>4, CatBits, Zenon
<1>9. (m \o u) \o rest = m \o (u \o rest) /\ (m \o pending) \o w = m \o (pending \o w)
  BY <1>8, Zenon DEF Joins
<1> QED
  BY <1>2, <1>6, <1>7, <1>9, Zenon DEF m

\* Bytes overtake the bits that do not make one.
LEMMA BytesAreWritten ==
  ASSUME NEW w \in Seq(Bit), NEW bytes \in Seq(Byte), member \in Seq(Byte), outbits \in Seq(Bit),
         OutBits(outbits, w, bytes)
  PROVE  /\ member' \in Seq(Byte) /\ outbits' \in Seq(Bit) /\ Spells(member', 0, member)
         /\ \E k \in Nat :
              /\ 8 * k <= Len(Stream) + Len(w) /\ Len(Stream) + Len(w) < 8 * k + 8
              /\ \A i \in 1..8 * k : Flat(member')[i] = (Stream \o w)[i]
              /\ Spells(Flat(member'), 8 * k, Flat(bytes))
              /\ Len(Flat(member')) = 8 * k + Len(Flat(bytes))
<1>2. PICK k \in Nat, u \in Seq(Bit) :
        /\ member' \in Seq(Byte) /\ outbits' \in Seq(Bit)
        /\ outbits \o w = u \o outbits' /\ Len(u) = 8 * k /\ Len(outbits') < 8
        /\ Flat(member') = (Flat(member) \o u) \o Flat(bytes)
        /\ Spells(member', 0, member) /\ Len(member') = Len(member) + k + Len(bytes)
  <2>1. ASSUME NEW pending \in Seq(Bit), OutBits(pending, w, bytes)
        PROVE \E k \in Nat, u \in Seq(Bit) :
           /\ member' \in Seq(Byte) /\ outbits' \in Seq(Bit)
           /\ pending \o w = u \o outbits' /\ Len(u) = 8 * k /\ Len(outbits') < 8
           /\ Flat(member') = (Flat(member) \o u) \o Flat(bytes)
           /\ Spells(member', 0, member) /\ Len(member') = Len(member) + k + Len(bytes)
    BY <2>1, OutBitsKeepsAll
  <2> QED
    BY <2>1, Zenon
<1> DEFINE m == Flat(member)
           n == Len(member)
           x == Flat(bytes)
           t == Flat(member')
           rest == outbits'
           S == Stream
<1>3. m \in Seq(Bit) /\ Len(m) = 8 * n /\ n \in Nat /\ x \in Seq(Bit) /\ rest \in Seq(Bit) /\ t \in Seq(Bit)
      /\ Len(rest) \in Nat
  <2>1. m \in Seq(Bit) /\ Len(m) = 8 * n
    BY FlatIs
  <2>2. x \in Seq(Bit)
    BY FlatIs
  <2>3. t \in Seq(Bit)
    BY <1>2, FlatIs
  <2>4. n \in Nat /\ rest \in Seq(Bit) /\ Len(rest) \in Nat
    BY <1>2
  <2> QED
    BY <2>1, <2>2, <2>3, <2>4
<1>4. S = m \o outbits /\ outbits \o w = u \o rest /\ t = (m \o u) \o x /\ Len(u) = 8 * k /\ Len(rest) < 8
  BY <1>2 DEF Stream
<1> HIDE DEF m, x, t, n, rest, S
<1> DEFINE y == m \o u
<1>5. S \in Seq(Bit) /\ y \in Seq(Bit) /\ S \o w \in Seq(Bit) /\ S \o w = y \o rest
  <2>1. S \in Seq(Bit) /\ y \in Seq(Bit)
    BY <1>3, <1>4
  <2>3. m \in Seq(Bit) /\ rest \in Seq(Bit)
    BY <1>3
  <2>2. (m \o outbits) \o w = m \o (outbits \o w) /\ (m \o outbits) \o w \in Seq(Bit)
    BY <2>3, CatTwice
  <2>4. (m \o u) \o rest = m \o (u \o rest)
    <3> HIDE DEF y
    <3>1. m \in Seq(Bit) /\ u \in Seq(Bit) /\ rest \in Seq(Bit)
      BY <2>3, Zenon
    <3> QED
      <4>1. Joins(m, u, rest)
        BY <3>1, CatBits, Zenon
      <4> QED
        BY <4>1, Zenon DEF Joins
  <2>5. S \o w = y \o rest /\ S \o w \in Seq(Bit)
    BY <1>4, <2>2, <2>4, Zenon
  <2> QED
    BY <2>1, <2>5
<1>6. Len(y) = 8 * (n + k)
  <2>1. Len(y) = Len(m) + Len(u)
    BY <1>3, Cat
  <2> QED
    BY <1>3, <1>4, <2>1
<1>7. t = y \o x
  BY <1>4
<1> HIDE DEF y
<1> DEFINE a == 8 * (n + k)
<1>8. n + k \in Nat /\ a \in Nat
  BY <1>3
<1>9. Len(S) + Len(w) = a + Len(rest) /\ Len(S) \in Nat /\ Len(w) \in Nat
  <2>1. Len(S \o w) = Len(S) + Len(w) /\ Len(y \o rest) = Len(y) + Len(rest)
    BY <1>3, <1>5, Cat
  <2> QED
    BY <1>5, <1>6, <2>1
<1>10. \A i \in 1..a : t[i] = (S \o w)[i]
  <2>1. \A i \in 1..Len(y) : (y \o rest)[i] = y[i]
    BY <1>3, <1>5, Cat
  <2>2. \A i \in 1..Len(y) : (y \o x)[i] = y[i]
    BY <1>3, <1>5, Cat
  <2> QED
    BY <1>5, <1>6, <1>7, <2>1, <2>2
<1>11. Spells(t, a, x) /\ Len(t) = a + Len(x)
  <2>1. Spells(y \o x, Len(y), x) /\ Len(y \o x) = Len(y) + Len(x)
    BY <1>3, <1>5, SpellsItself, Cat
  <2> QED
    BY <1>6, <1>7, <2>1
<1>12. a <= Len(S) + Len(w) /\ Len(S) + Len(w) < a + 8
  BY <1>3, <1>4, <1>8, <1>9
<1> HIDE DEF a
<1>13. \E j \in Nat : a = 8 * j
  BY <1>8 DEF a
<1> QED
  BY <1>2, <1>10, <1>11, <1>12, <1>13 DEF t, x, S

\* As much of a word as is in whole bytes.
LEMMA BeginningIsWritten ==
  ASSUME NEW S \in Seq(Bit), NEW v \in Seq(Bit), NEW r \in Seq(Bit), NEW t \in Seq(Bit),
         NEW a \in Nat, a <= Len(t), Len(S) + Len(v) <= a,
         \A i \in 1..a : t[i] = (S \o (v \o r))[i]
  PROVE  Spells(t, 0, S) /\ Spells(t, Len(S), v)
<1> DEFINE y == v \o r
           n == Len(S)
           m == Len(v)
<1>1. y \in Seq(Bit) /\ n \in Nat /\ m \in Nat /\ Len(y) = m + Len(r) /\ Len(r) \in Nat
  <2>1. Len(y) = m + Len(r) /\ y \in Seq(Bit)
    BY Cat
  <2> QED
    BY <2>1
<1>2. \A i \in 1..m : y[i] = v[i]
  BY Cat
<1> HIDE DEF y
<1>3. (\A i \in 1..n : (S \o y)[i] = S[i]) /\ \A i \in 1..Len(y) : (S \o y)[n + i] = y[i]
  BY <1>1, Cat
<1>4. \A i \in 1..a : t[i] = (S \o y)[i]
  BY DEF y
<1>5. n + m <= a /\ a <= Len(t) /\ Len(t) \in Nat
  OBVIOUS
<1>d. n = Len(S) /\ m = Len(v)
  OBVIOUS
<1> HIDE DEF n, m
<1>6. \A i \in 1..n : i \in 1..a /\ 0 + i = i
  BY <1>1, <1>5
<1>7. \A i \in 1..m : n + i \in 1..a /\ i \in 1..Len(y)
  BY <1>1, <1>5
<1>8. \A i \in 1..n : t[0 + i] = S[i]
  BY <1>3, <1>4, <1>6
<1>9. \A i \in 1..m : t[n + i] = v[i]
  BY <1>2, <1>3, <1>4, <1>7
<1>10. 0 + n <= Len(t) /\ n + m <= Len(t)
  BY <1>1, <1>5
<1> QED
  BY <1>d, <1>8, <1>9, <1>10 DEF Spells

\* The size of the data has a word.
SizeFits(seqs) == Len(Concat(seqs)) \div 65536 < 65536

\* What may be compressed, chunk by chunk.
LEMMA InputIs ==
  ASSUME NEW seqs \in Inputs
  PROVE  /\ seqs \in Seq(Seq(Byte)) /\ Len(seqs) \in Nat /\ Len(seqs) >= 1
         /\ Concat(seqs) \in Seq(Byte) /\ SizeFits(seqs)
         /\ \A k \in 1..Len(seqs) : seqs[k] \in Seq(Byte) /\ Len(seqs[k]) >= 1
<1>1. seqs \in Seq(Seq(Byte) \ {<<>>}) /\ seqs # <<>> /\ SizeFits(seqs)
  BY InputsAssumption, SMT DEF SizeFits
<1>2. \A k \in 1..Len(seqs) : seqs[k] \in Seq(Byte) \ {<<>>}
  BY <1>1, ElementOf
<1>3. seqs \in Seq(Seq(Byte)) /\ Len(seqs) \in Nat /\ Len(seqs) >= 1
  BY <1>1, <1>2
<1>4. Concat(seqs) \in Seq(Byte)
  BY <1>3, Pieces
<1>5. \A k \in 1..Len(seqs) : seqs[k] \in Seq(Byte) /\ Len(seqs[k]) >= 1
  BY <1>2
<1> QED
  BY <1>1, <1>3, <1>4, <1>5, Zenon

\* A chunk, where it is in the input.
LEMMA ChunkIs ==
  ASSUME NEW seqs \in Inputs, NEW k \in 1..Len(seqs)
  PROVE  /\ Size(seqs, k - 1) \in Nat /\ Size(seqs, k) = Size(seqs, k - 1) + Len(seqs[k])
         /\ Size(seqs, k) <= Len(Concat(seqs))
         /\ \A i \in 1..Len(seqs[k]) : Concat(seqs)[Size(seqs, k - 1) + i] = seqs[k][i]
<1>1. seqs \in Seq(Seq(Byte)) /\ k \in 0..Len(seqs) /\ k - 1 \in 0..Len(seqs)
  BY InputIs
<1> QED
  BY <1>1, Pieces

\* The chunks are all of the input.
LEMMA EndsOfInput ==
  ASSUME NEW seqs \in Inputs
  PROVE  Size(seqs, 0) = 0 /\ Size(seqs, Len(seqs)) = Len(Concat(seqs))
BY InputIs, Pieces

\* How much of the data is behind the writer, and in the checksum.
Compressed == IF src > slen THEN Size(input, chunk) ELSE Size(input, chunk - 1) + src
Summed == IF chunk = 0 THEN 0 ELSE Size(input, chunk - 1) + summed

BufferHolds ==
  inputBuffer \in Seq(Byte) /\ slen <= Len(inputBuffer) /\ \A i \in 1..slen : inputBuffer[i] = input[chunk][i]
WriterTypes ==
  /\ input \in Inputs /\ chunk \in 0..Len(input)
  /\ member \in Seq(Byte) /\ outbits \in Seq(Bit) /\ hash_table \in [DOMAIN hash_table -> Nat]
  /\ src \in Nat /\ src <= slen + 1 /\ summed \in Nat
  /\ chunk = 0 => summed = 0 /\ inputBuffer = <<>>
  /\ chunk > 0 => summed <= slen /\ BufferHolds
  /\ chunk > 0 /\ src > 0 => summed = slen
SumKept == checksum = Crc(Expected)[Summed]
HeaderWritten == Spells(member, 0, lzHeader)

\* Between two blocks what is left in outbits does not belong to the stream.
SoFar == IF src > slen THEN Flat(member) ELSE Stream
Here == IF src > slen THEN AtBlock(8 * Len(member), Compressed)
        ELSE AtSymbol(IF IsLast THEN 1 ELSE 0, Len(Stream), Compressed)
Trailers(T) == {n \in T : n[1] = "trailer"}
FirstBlock == AtBlock(80, 0)
RoadTo(s, E, here) == \E T : FirstBlock \in T /\ Trailers(T) = {} /\ Road(T, s, E, here)
Writing == RoadTo(SoFar, Expected, Here)
Finished ==
  \E T : /\ FirstBlock \in T /\ Whole(T, Flat(member), Expected)
         /\ \A n \in Trailers(T) : n[3] + 64 = 8 * Len(member)
WriterInv ==
  WriterTypes /\ SumKept /\ HeaderWritten /\ IF written THEN Finished ELSE Writing

\* lzHeader has ten bytes.
LEMMA HeaderIs ==
  lzHeader \in Seq(Byte) /\ Len(lzHeader) = 10
BY DEF lzHeader, Byte

\* Before the first block the road is the place where it will begin.
LEMMA WriterBegins ==
  WriterInit => WriterInv
<1> SUFFICES ASSUME WriterInit PROVE WriterInv
  OBVIOUS
<1>1. /\ input \in Inputs /\ chunk = 0 /\ inputBuffer = <<>> /\ src = 0 /\ hash_table = <<>>
      /\ outbits = <<>> /\ member = lzHeader /\ checksum = CrcStart /\ summed = 0 /\ written = FALSE
  BY DEF WriterInit
<1>2. Expected \in Seq(Byte) /\ Len(input) \in Nat
  BY <1>1, InputIs DEF Expected
<1>3. slen = -1 /\ src > slen
  BY <1>1 DEF slen
<1>4. WriterTypes
  <2>1. <<>> \in [DOMAIN <<>> -> Nat] /\ <<>> \in Seq(Bit)
    OBVIOUS
  <2>2. chunk \in 0..Len(input) /\ ~(chunk > 0) /\ src \in Nat /\ src <= slen + 1 /\ summed \in Nat
    BY <1>1, <1>2, <1>3
  <2> QED
    BY <1>1, <2>1, <2>2, HeaderIs, Zenon DEF WriterTypes
<1>5. SumKept
  <2>1. Crc(Expected)[0] = CrcStart
    BY <1>2, CrcIs
  <2> QED
    BY <1>1, <2>1, Zenon DEF SumKept, Summed
<1>6. HeaderWritten
  BY <1>1, HeaderIs DEF HeaderWritten, Spells
<1>7. Writing
  <2> DEFINE T == {FirstBlock}
  <2>1. Here = FirstBlock
    <3>1. Compressed = 0
      BY <1>1, <1>3, EndsOfInput, Zenon DEF Compressed
    <3>2. 8 * Len(member) = 80
      BY <1>1, HeaderIs
    <3> QED
      BY <1>3, <3>1, <3>2, Zenon DEF Here, FirstBlock
  <2>2. FirstBlock \in Nodes /\ FirstBlock[1] # "trailer"
    BY DEF FirstBlock, AtBlock, Nodes
  <2> HIDE DEF T
  <2>3. T \subseteq Nodes /\ FirstBlock \in T /\ Trailers(T) = {} /\ \A n \in T : n = FirstBlock
    BY <2>2 DEF T, Trailers
  <2>4. Road(T, SoFar, Expected, Here)
    BY <2>1, <2>3, Zenon DEF Road
  <2> QED
    BY <2>3, <2>4, Zenon DEF Writing, RoadTo
<1> QED
  BY <1>1, <1>4, <1>5, <1>6, <1>7, Zenon DEF WriterInv

\* As RoadGrows, of some road.
LEMMA RoadGoesOn ==
  ASSUME NEW s \in Seq(Bit), NEW t \in Seq(Bit), Spells(t, 0, s), NEW E \in Seq(Byte),
         NEW here, RoadTo(s, E, here), NEW new \in Nodes, new[1] # "trailer",
         \A T : new \in T => Goes(T, t, E, here)
  PROVE  RoadTo(t, E, new)
<1>1. PICK T : FirstBlock \in T /\ Trailers(T) = {} /\ Road(T, s, E, here)
  BY Zenon DEF RoadTo
<1> DEFINE U == T \cup {new}
<1>2. FirstBlock \in U /\ new \in U
  BY <1>1
<1>3. Trailers(U) = {}
  BY <1>1 DEF Trailers
<1>4. Goes(U, t, E, here)
  BY <1>2, Zenon
<1>5. Road(U, t, E, new)
  BY <1>1, <1>4, RoadGrows
<1> QED
  BY <1>2, <1>3, <1>5, Zenon DEF RoadTo

\* Of the chunk that is being compressed.
LEMMA OpenChunk ==
  ASSUME WriterTypes, chunk > 0
  PROVE  /\ slen = Len(input[chunk]) /\ slen \in Nat /\ slen >= 1 /\ chunk \in 1..Len(input)
         /\ Size(input, chunk - 1) \in Nat /\ Size(input, chunk) = Size(input, chunk - 1) + slen
         /\ Size(input, chunk) <= Len(Expected) /\ input[chunk] \in Seq(Byte)
         /\ \A i \in 1..slen : Expected[Size(input, chunk - 1) + i] = input[chunk][i]
         /\ \A i \in 1..slen : inputBuffer[i] = input[chunk][i]
<1>1. input \in Inputs /\ chunk \in 0..Len(input) /\ BufferHolds
  BY DEF WriterTypes
<1>2. chunk \in 1..Len(input) /\ chunk # 0
  BY <1>1, InputIs
<1>3. slen = Len(input[chunk])
  BY <1>2 DEF slen
<1>4. input[chunk] \in Seq(Byte) /\ Len(input[chunk]) >= 1
  BY <1>1, <1>2, InputIs
<1>5. slen \in Nat /\ slen >= 1
  BY <1>3, <1>4
<1>6. Size(input, chunk - 1) \in Nat /\ Size(input, chunk) = Size(input, chunk - 1) + Len(input[chunk])
      /\ Size(input, chunk) <= Len(Concat(input))
      /\ \A i \in 1..Len(input[chunk]) : Concat(input)[Size(input, chunk - 1) + i] = input[chunk][i]
  BY <1>1, <1>2, ChunkIs
<1>7. \A i \in 1..slen : inputBuffer[i] = input[chunk][i]
  BY <1>1 DEF BufferHolds
<1> QED
  BY <1>2, <1>3, <1>4, <1>5, <1>6, <1>7, Zenon DEF Expected

\* What is written, in bytes and in bits.
LEMMA StreamIs ==
  ASSUME WriterTypes
  PROVE  /\ Flat(member) \in Seq(Bit) /\ Len(Flat(member)) = 8 * Len(member) /\ Len(member) \in Nat
         /\ Stream \in Seq(Bit) /\ Expected \in Seq(Byte) /\ Len(Stream) \in Nat
<1>1. member \in Seq(Byte) /\ outbits \in Seq(Bit) /\ input \in Inputs
  BY DEF WriterTypes
<1>2. Flat(member) \in Seq(Bit) /\ Len(Flat(member)) = 8 * Len(member) /\ Len(member) \in Nat
  BY <1>1, FlatIs
<1>3. Stream \in Seq(Bit)
  BY <1>1, <1>2, Cat DEF Stream
<1>4. Len(Stream) \in Nat
  BY <1>3
<1> QED
  BY <1>1, <1>2, <1>3, <1>4, InputIs DEF Expected

\* A byte that is summed changes nothing of the stream.
LEMMA SumGoesOn ==
  ASSUME WriterInv, ~written, SumByte
  PROVE  WriterInv'
<1>1. /\ summed < slen /\ checksum' = CrcByte(checksum, input[chunk][summed + 1]) /\ summed' = summed + 1
      /\ input' = input /\ chunk' = chunk /\ inputBuffer' = inputBuffer /\ src' = src
      /\ hash_table' = hash_table /\ outbits' = outbits /\ member' = member /\ written' = written
  BY DEF SumByte
<1>2. WriterTypes /\ SumKept /\ HeaderWritten /\ Writing
  BY DEF WriterInv
<1>3. chunk > 0 /\ chunk # 0
  BY <1>1, <1>2 DEF WriterTypes, slen
<1>4. slen \in Nat /\ slen >= 1 /\ Size(input, chunk - 1) \in Nat
      /\ Size(input, chunk) = Size(input, chunk - 1) + slen /\ Size(input, chunk) <= Len(Expected)
      /\ (\A i \in 1..slen : Expected[Size(input, chunk - 1) + i] = input[chunk][i])
  BY <1>2, <1>3, OpenChunk
<1>5. slen' = slen /\ Expected' = Expected
  BY <1>1 DEF slen, Expected
<1>6. summed \in Nat /\ src \in Nat /\ (src > 0 => summed = slen)
  BY <1>2, <1>3 DEF WriterTypes
<1>7. src = 0
  BY <1>1, <1>6
<1>8. WriterTypes'
  <2>1. summed' \in Nat /\ summed' <= slen
    BY <1>1, <1>4, <1>6
  <2>2. BufferHolds' <=> BufferHolds
    BY <1>1, <1>5 DEF BufferHolds
  <2> QED
    BY <1>1, <1>2, <1>3, <1>5, <1>7, <2>1, <2>2 DEF WriterTypes
<1>9. SumKept'
  <2> DEFINE k == Size(input, chunk - 1) + summed
  <2>1. Summed = k /\ Summed' = Size(input, chunk - 1) + (summed + 1)
    BY <1>1, <1>3 DEF Summed
  <2>2. summed + 1 \in 1..slen
    BY <1>1, <1>4, <1>6
  <2>3. k + 1 \in 1..Len(Expected) /\ (k + 1) - 1 = k /\ Summed' = k + 1
        /\ k + 1 = Size(input, chunk - 1) + (summed + 1)
    BY <1>1, <1>4, <1>6, <2>1
  <2>4. Expected[k + 1] = input[chunk][summed + 1]
    BY <1>4, <2>2, <2>3
  <2>5. Expected \in Seq(Byte)
    BY <1>2, StreamIs
  <2>6. checksum = Crc(Expected)[k]
    BY <1>2, <2>1 DEF SumKept
  <2> HIDE DEF k
  <2>7. Crc(Expected)[k + 1] = CrcByte(Crc(Expected)[k], Expected[k + 1])
    BY <2>3, <2>5, CrcIs
  <2> QED
    BY <1>1, <1>5, <2>3, <2>4, <2>6, <2>7, Zenon DEF SumKept
<1>10. HeaderWritten' /\ Writing'
  <2>1. Stream' = Stream /\ Compressed' = Compressed /\ (IsLast' <=> IsLast)
    BY <1>1, <1>5 DEF Stream, Compressed, IsLast
  <2>2. SoFar' = SoFar /\ Here' = Here
    BY <1>1, <1>5, <2>1 DEF SoFar, Here
  <2> QED
    BY <1>1, <1>2, <1>5, <2>2 DEF HeaderWritten, Writing
<1> QED
  BY <1>1, <1>8, <1>9, <1>10 DEF WriterInv

\* What is spelled at the start stays there when more is written.
LEMMA BytesStay ==
  ASSUME NEW m \in Seq(Byte), NEW n \in Seq(Byte), NEW h \in Seq(Byte), Spells(n, 0, m), Spells(m, 0, h)
  PROVE  Spells(n, 0, h)
<1>1. Len(h) \in Nat /\ Len(m) \in Nat /\ Len(n) \in Nat
  OBVIOUS
<1>2. 0 + Len(m) <= Len(n) /\ (\A i \in 1..Len(m) : n[0 + i] = m[i])
      /\ 0 + Len(h) <= Len(m) /\ (\A i \in 1..Len(h) : m[0 + i] = h[i])
  BY Zenon DEF Spells
<1>3. \A i \in 1..Len(h) : i \in 1..Len(m) /\ 0 + i = i
  BY <1>1, <1>2
<1>4. \A i \in 1..Len(h) : n[0 + i] = h[i]
  BY <1>2, <1>3
<1>5. 0 + Len(h) <= Len(n)
  BY <1>1, <1>2
<1> QED
  BY <1>4, <1>5, Zenon DEF Spells

\* So does the header.
LEMMA HeaderStays ==
  ASSUME NEW m \in Seq(Byte), NEW n \in Seq(Byte), Spells(n, 0, m), Spells(m, 0, lzHeader)
  PROVE  Spells(n, 0, lzHeader)
BY HeaderIs, BytesStay

\* The input buffer with the next chunk over what it held.
LEMMA BufferOf ==
  ASSUME NEW in \in Seq(Byte), NEW old \in Seq(Byte)
  PROVE  /\ in \o SubSeq(old, Len(in) + 1, Len(old)) \in Seq(Byte)
         /\ Len(in) <= Len(in \o SubSeq(old, Len(in) + 1, Len(old)))
         /\ \A i \in 1..Len(in) : (in \o SubSeq(old, Len(in) + 1, Len(old)))[i] = in[i]
<1> DEFINE rest == SubSeq(old, Len(in) + 1, Len(old))
<1>1. rest \in Seq(Byte) /\ Len(in) \in Nat
  OBVIOUS
<1> HIDE DEF rest
<1>2. Len(rest) \in Nat /\ Len(in \o rest) = Len(in) + Len(rest) /\ in \o rest \in Seq(Byte)
      /\ \A i \in 1..Len(in) : (in \o rest)[i] = in[i]
  BY <1>1, Cat
<1>3. Len(in) <= Len(in \o rest)
  BY <1>1, <1>2
<1> QED
  BY <1>2, <1>3 DEF rest

\* Between two blocks all of the chunk is summed and compressed.
LEMMA SummedIsAll ==
  ASSUME WriterTypes, src > slen
  PROVE  Summed = Size(input, chunk) /\ Compressed = Size(input, chunk) /\ Size(input, chunk) \in Nat
         /\ Size(input, chunk) <= Len(Expected)
<1>0. Compressed = Size(input, chunk)
  BY DEF Compressed
<1>1. CASE chunk = 0
  <2>1. Size(input, 0) = 0 /\ input \in Inputs
    BY EndsOfInput DEF WriterTypes
  <2>2. Expected \in Seq(Byte)
    BY <2>1, InputIs DEF Expected
  <2> QED
    BY <1>0, <1>1, <2>1, <2>2 DEF Summed
<1>2. CASE chunk > 0
  <2>1. slen >= 1 /\ slen \in Nat /\ Size(input, chunk - 1) \in Nat /\ Size(input, chunk) = Size(input, chunk - 1) + slen
        /\ Size(input, chunk) <= Len(Expected)
    BY <1>2, OpenChunk
  <2>2. src > 0 /\ chunk # 0
    BY <1>2, <2>1 DEF WriterTypes
  <2>3. summed = slen
    BY <1>2, <2>2 DEF WriterTypes
  <2> QED
    BY <1>0, <2>1, <2>2, <2>3 DEF Summed
<1> QED
  BY <1>1, <1>2, InputIs DEF WriterTypes

\* The header of a block leads from a block to a symbol.
LEMMA BlockBegins ==
  ASSUME WriterInv, ~written, NextBlock
  PROVE  WriterInv'
<1> DEFINE in == input[chunk + 1]
           f == IF chunk + 1 = Len(input) THEN 1 ELSE 0
           w == Bits(f, 1) \o Bits(1, 2)
<1>1. /\ chunk < Len(input) /\ src > slen
      /\ inputBuffer' = in \o SubSeq(inputBuffer, Len(in) + 1, Len(inputBuffer))
      /\ chunk' = chunk + 1 /\ src' = 0 /\ summed' = 0
      /\ OutBits(NoBits, zlib_start_block(chunk + 1 = Len(input)), <<>>)
      /\ input' = input /\ hash_table' = hash_table /\ checksum' = checksum /\ written' = written
  BY DEF NextBlock
<1>2. WriterTypes /\ SumKept /\ HeaderWritten /\ Writing
  BY DEF WriterInv
<1>3. input \in Inputs /\ chunk \in 0..Len(input) /\ member \in Seq(Byte) /\ inputBuffer \in Seq(Byte)
      /\ hash_table \in [DOMAIN hash_table -> Nat]
  <2>1. <<>> \in Seq(Byte)
    OBVIOUS
  <2>2. input \in Inputs /\ chunk \in 0..Len(input)
    BY <1>2 DEF WriterTypes
  <2>3. chunk = 0 \/ chunk > 0
    BY <2>2, InputIs
  <2> QED
    BY <1>2, <2>1, <2>3, Zenon DEF WriterTypes, BufferHolds
<1>4. chunk + 1 \in 1..Len(input) /\ chunk + 1 \in 0..Len(input) /\ Len(input) \in Nat /\ chunk \in Nat
  BY <1>1, <1>3, InputIs
<1>5. in \in Seq(Byte) /\ Len(in) >= 1 /\ Len(in) \in Nat
  BY <1>3, <1>4, InputIs
<1>6. f \in 0..1 /\ zlib_start_block(chunk + 1 = Len(input)) = w
  BY DEF zlib_start_block
<1>7. w \in Seq(Bit) /\ Len(w) = 3
  BY <1>6, StartIsBits
<1>8. Flat(member) \in Seq(Bit) /\ Len(Flat(member)) = 8 * Len(member) /\ Len(member) \in Nat /\ Expected \in Seq(Byte)
  BY <1>2, StreamIs
<1> HIDE DEF w, f
<1>9. member' \in Seq(Byte) /\ outbits' \in Seq(Bit) /\ Spells(member', 0, member)
      /\ Stream' = Flat(member) \o w
  <2>1. NoBits \in Seq(Bit) /\ NoBits = <<>>
    BY DEF NoBits
  <2>2. Flat(member) \o <<>> = Flat(member)
    <3> DEFINE m == Flat(member)
    <3>1. m \in Seq(Bit)
      BY <1>8
    <3> HIDE DEF m
    <3>2. m \o <<>> = m
      BY <3>1
    <3> QED
      BY <3>2 DEF m
  <2>3. OutBits(NoBits, w, <<>>)
    BY <1>1, <1>6
  <2>4. Stream' = (Flat(member) \o NoBits) \o w /\ member' \in Seq(Byte) /\ outbits' \in Seq(Bit)
        /\ Spells(member', 0, member)
    BY <1>3, <1>7, <2>1, <2>3, WordIsWritten
  <2> QED
    BY <2>1, <2>2, <2>4
<1>10. slen' = Len(in) /\ Expected' = Expected /\ ~(src' > slen') /\ chunk' # 0
  <2>1. slen' = Len(in)
    BY <1>1, <1>4 DEF slen
  <2> QED
    BY <1>1, <1>4, <1>5, <2>1 DEF Expected
<1>11. WriterTypes'
  <2>1. BufferHolds'
    <3>1. inputBuffer' \in Seq(Byte) /\ Len(in) <= Len(inputBuffer') /\ \A i \in 1..Len(in) : inputBuffer'[i] = in[i]
      BY <1>1, <1>3, <1>5, BufferOf
    <3>2. input'[chunk'] = in
      BY <1>1
    <3> HIDE DEF in
    <3> QED
      BY <1>10, <3>1, <3>2 DEF BufferHolds
  <2>2. input' \in Inputs /\ chunk' \in 0..Len(input') /\ src' \in Nat /\ summed' \in Nat /\ ~(chunk' = 0)
        /\ src' <= slen' + 1 /\ summed' <= slen' /\ ~(src' > 0)
    BY <1>1, <1>3, <1>4, <1>5, <1>10
  <2>3. hash_table' \in [DOMAIN hash_table' -> Nat]
    BY <1>1, <1>3
  <2> QED
    BY <1>9, <2>1, <2>2, <2>3, Zenon DEF WriterTypes
<1>12. Summed = Size(input, chunk) /\ Compressed = Size(input, chunk) /\ Size(input, chunk) \in Nat
  BY <1>1, <1>2, SummedIsAll
<1>13. (chunk + 1) - 1 = chunk /\ Size(input, chunk) + 0 = Size(input, chunk)
  BY <1>4, <1>12
<1>14. SumKept'
  <2>1. Summed' = Size(input, chunk)
    BY <1>1, <1>10, <1>13 DEF Summed
  <2> QED
    BY <1>1, <1>2, <1>10, <1>12, <2>1, Zenon DEF SumKept
<1>15. HeaderWritten'
  BY <1>2, <1>3, <1>9, HeaderStays DEF HeaderWritten
<1>16. Writing'
  <2> DEFINE p == 8 * Len(member)
             q == Size(input, chunk)
             s == Flat(member)
             t == s \o w
             E == Expected
             new == AtSymbol(f, p + 3, q)
  <2>1. s \in Seq(Bit) /\ t \in Seq(Bit) /\ Len(s) = p /\ Len(t) = p + 3 /\ p \in Nat /\ p + 3 \in Nat /\ E \in Seq(Byte)
    <3>1. s \in Seq(Bit) /\ Len(s) = p /\ p \in Nat /\ p + 3 \in Nat /\ E \in Seq(Byte)
      BY <1>8
    <3> HIDE DEF s, p
    <3>2. t \in Seq(Bit) /\ Len(t) = Len(s) + Len(w)
      BY <1>7, <3>1, Cat
    <3> QED
      BY <1>7, <3>1, <3>2
  <2>2. SoFar = s /\ Here = AtBlock(p, q)
    BY <1>1, <1>12, Zenon DEF SoFar, Here
  <2>3. SoFar' = t
    BY <1>9, <1>10, Zenon DEF SoFar
  <2>4. Here' = new
    <3>1. Compressed' = q
      BY <1>1, <1>10, <1>13, Zenon DEF Compressed
    <3>2. f = IF IsLast' THEN 1 ELSE 0
      BY <1>1 DEF f, IsLast
    <3>3. Len(Stream') = p + 3
      BY <1>9, <2>1
    <3> QED
      BY <1>10, <3>1, <3>2, <3>3, Zenon DEF Here
  <2>5. Spells(t, 0, s) /\ Spells(t, p, w)
    <3> HIDE DEF s, p
    <3> QED
      BY <1>7, <2>1, SpellsItself
  <2>6. new \in Nodes /\ new[1] # "trailer"
    <3>1. new \in Nodes
      BY <1>6, <1>12, <2>1, NodesAre
    <3> QED
      BY <3>1 DEF AtSymbol
  <2>7. ASSUME NEW T, new \in T PROVE Goes(T, t, E, AtBlock(p, q))
    <3> HIDE DEF s, t, E, p, q
    <3>1. BlockGoes(T, t, p, q)
      BY <1>6, <2>5, <2>7, Zenon DEF BlockGoes, w
    <3>2. AtBlock(p, q)[1] = "block" /\ AtBlock(p, q)[3] = p /\ AtBlock(p, q)[4] = q
      BY DEF AtBlock
    <3> QED
      BY <3>1, <3>2, Zenon DEF Goes
  <2>8. RoadTo(s, E, AtBlock(p, q))
    BY <1>2, <2>2, Zenon DEF Writing
  <2> HIDE DEF s, t, E, p, q, new
  <2>9. RoadTo(t, E, new)
    BY <2>1, <2>5, <2>6, <2>7, <2>8, RoadGoesOn
  <2> QED
    BY <1>10, <2>3, <2>4, <2>9, Zenon DEF Writing, E
<1> QED
  BY <1>1, <1>11, <1>14, <1>15, <1>16, Zenon DEF WriterInv

\* Which block a symbol is in: 1 the last one.
InLast == IF IsLast THEN 1 ELSE 0

\* A symbol for the next len bytes.
LEMMA SymbolIsWritten ==
  ASSUME WriterInv, ~written, BlockOpen, NEW w \in Seq(Bit), OutBits(outbits, w, <<>>),
         NEW len \in Nat, src + len <= slen, src' = src + len,
         UNCHANGED <<input, chunk, inputBuffer, checksum, summed, written>>,
         hash_table' \in [DOMAIN hash_table' -> Nat],
         \A T : AtSymbol(InLast, Len(Stream) + Len(w), Compressed + len) \in T
                  => Goes(T, Stream \o w, Expected, AtSymbol(InLast, Len(Stream), Compressed))
  PROVE  WriterInv'
<1>1. /\ input' = input /\ chunk' = chunk /\ inputBuffer' = inputBuffer /\ checksum' = checksum
      /\ summed' = summed /\ written' = written /\ src' = src + len
  OBVIOUS
<1>2. WriterTypes /\ SumKept /\ HeaderWritten /\ Writing
  BY DEF WriterInv
<1>3. src <= slen /\ summed = slen /\ src \in Nat /\ outbits \in Seq(Bit) /\ member \in Seq(Byte) /\ chunk \in Nat
  BY <1>2, InputIs DEF BlockOpen, WriterTypes
<1>4. chunk > 0 /\ chunk # 0
  BY <1>3 DEF slen
<1>5. slen \in Nat /\ Size(input, chunk - 1) \in Nat
  BY <1>2, <1>4, OpenChunk
<1>6. slen' = slen /\ Expected' = Expected /\ ~(src > slen) /\ ~(src' > slen')
  BY <1>1, <1>3, <1>5 DEF slen, Expected
<1>7. Compressed = Size(input, chunk - 1) + src /\ Compressed' = Size(input, chunk - 1) + (src + len)
  BY <1>1, <1>6, Zenon DEF Compressed
<1>8. Compressed \in Nat /\ Compressed' = Compressed + len
  BY <1>3, <1>5, <1>7
<1>9. Stream \in Seq(Bit) /\ Len(Stream) \in Nat /\ Flat(member) \in Seq(Bit) /\ Expected \in Seq(Byte)
  BY <1>2, StreamIs
<1>10. member' \in Seq(Byte) /\ outbits' \in Seq(Bit) /\ Spells(member', 0, member) /\ Stream' = Stream \o w
  BY <1>3, WordIsWritten DEF Stream
<1>11. WriterTypes'
  <2>1. BufferHolds' <=> BufferHolds
    BY <1>1, <1>6 DEF BufferHolds
  <2>2. src' \in Nat /\ src' <= slen' + 1
    BY <1>1, <1>3, <1>5, <1>6
  <2> QED
    BY <1>1, <1>2, <1>3, <1>4, <1>6, <1>10, <2>1, <2>2, Zenon DEF WriterTypes
<1>12. SumKept'
  BY <1>1, <1>2, <1>6 DEF SumKept, Summed
<1>13. HeaderWritten'
  BY <1>2, <1>3, <1>10, HeaderStays DEF HeaderWritten
<1>14. Writing'
  <2> DEFINE p == Len(Stream)
             q == Compressed
             s == Stream
             t == s \o w
             E == Expected
             f == InLast
             here == AtSymbol(f, p, q)
             new == AtSymbol(f, p + Len(w), q + len)
  <2>1. Len(w) \in Nat /\ p + Len(w) \in Nat /\ q + len \in Nat /\ t \in Seq(Bit) /\ s \in Seq(Bit)
        /\ Len(t) = p + Len(w)
    <3>1. s \in Seq(Bit) /\ p = Len(s) /\ p \in Nat
      BY <1>9
    <3> HIDE DEF s, p
    <3>2. t \in Seq(Bit) /\ Len(t) = Len(s) + Len(w)
      BY <3>1, Cat
    <3> QED
      BY <1>8, <3>1, <3>2
  <2>2. SoFar = s /\ Here = here
    BY <1>6, Zenon DEF SoFar, Here, InLast
  <2>3. SoFar' = t /\ Here' = new
    <3>1. (IsLast' <=> IsLast)
      BY <1>1 DEF IsLast
    <3> QED
      BY <1>6, <1>8, <1>10, <2>1, <3>1, Zenon DEF SoFar, Here, InLast
  <2>4. Spells(t, 0, s)
    BY <1>9, SpellsItself
  <2>5. new \in Nodes /\ new[1] # "trailer"
    <3>1. f \in 0..1
      BY DEF InLast
    <3> HIDE DEF f, p, q
    <3>2. new \in Nodes
      BY <2>1, <3>1, NodesAre
    <3> QED
      BY <3>2 DEF AtSymbol
  <2>6. \A T : new \in T => Goes(T, t, E, here)
    OBVIOUS
  <2>7. RoadTo(s, E, here)
    BY <1>2, <2>2, Zenon DEF Writing
  <2>8. E \in Seq(Byte)
    BY <1>9
  <2> HIDE DEF s, t, E, here, new
  <2>9. RoadTo(t, E, new)
    BY <2>1, <2>4, <2>5, <2>6, <2>7, <2>8, RoadGoesOn
  <2> QED
    BY <1>6, <2>3, <2>9, Zenon DEF Writing, E
<1>15. ~written'
  BY <1>1
<1> QED
  BY <1>11, <1>12, <1>13, <1>14, <1>15, Zenon DEF WriterInv

\* Positions of the hash table are naturals.
LEMMA TableIsKept ==
  ASSUME WriterTypes, RememberSrc
  PROVE  hash_table' \in [DOMAIN hash_table' -> Nat]
<1> DEFINE d == DOMAIN hash_table \cup {HASH(src)}
           value(hash) == IF hash = HASH(src) THEN src ELSE hash_table[hash]
<1>1. hash_table' = [hash \in d |-> value(hash)]
  BY DEF RememberSrc
<1>2. ASSUME NEW hash \in d PROVE value(hash) \in Nat
  <2>1. hash_table \in [DOMAIN hash_table -> Nat] /\ src \in Nat
    BY DEF WriterTypes
  <2> QED
    BY <2>1, Zenon
<1> HIDE DEF d, value
<1> QED
  BY <1>1, <1>2, Zenon

\* What is at a place of the input buffer is at its place of the data.
LEMMA BufferIsData ==
  ASSUME WriterTypes, chunk > 0, NEW k \in Nat, k < slen
  PROVE  At(k) = Expected[Size(input, chunk - 1) + (k + 1)]
<1>1. k + 1 \in 1..slen
  BY OpenChunk
<1>2. inputBuffer[k + 1] = input[chunk][k + 1] /\ Expected[Size(input, chunk - 1) + (k + 1)] = input[chunk][k + 1]
  BY <1>1, OpenChunk
<1> QED
  BY <1>2 DEF At

\* Where the writer is, inside a block.
LEMMA InBlock ==
  ASSUME WriterInv, ~written, BlockOpen
  PROVE  /\ WriterTypes /\ src \in Nat /\ src <= slen /\ slen \in Nat /\ chunk > 0 /\ summed = slen
         /\ Size(input, chunk - 1) \in Nat /\ Compressed = Size(input, chunk - 1) + src
         /\ Size(input, chunk - 1) + slen <= Len(Expected) /\ Expected \in Seq(Byte)
         /\ Len(Expected) \in Nat
         /\ Stream \in Seq(Bit) /\ Len(Stream) \in Nat /\ member \in Seq(Byte) /\ outbits \in Seq(Bit)
         /\ hash_table \in [DOMAIN hash_table -> Nat]
<1>2. WriterTypes
  BY DEF WriterInv
<1>3. src <= slen /\ summed = slen /\ src \in Nat /\ outbits \in Seq(Bit) /\ member \in Seq(Byte) /\ chunk \in Nat
  BY <1>2, InputIs DEF BlockOpen, WriterTypes
<1>4. chunk > 0
  BY <1>3 DEF slen
<1>5. slen \in Nat /\ Size(input, chunk - 1) \in Nat /\ Size(input, chunk) = Size(input, chunk - 1) + slen
      /\ Size(input, chunk) <= Len(Expected)
  BY <1>2, <1>4, OpenChunk
<1>6. ~(src > slen)
  BY <1>3, <1>5
<1>7. Compressed = Size(input, chunk - 1) + src
  BY <1>6, Zenon DEF Compressed
<1>9. Stream \in Seq(Bit) /\ Len(Stream) \in Nat /\ Expected \in Seq(Byte)
  BY <1>2, StreamIs
<1>10. Len(Expected) \in Nat
  BY <1>9
<1> QED
  BY <1>2, <1>3, <1>4, <1>5, <1>7, <1>9, <1>10 DEF WriterTypes

\* A literal leads from a symbol to the next one, a byte on.
LEMMA LiteralIsWritten ==
  ASSUME WriterInv, ~written, Literal
  PROVE  WriterInv'
<1> DEFINE c == At(src)
           w == zlib_literal(c)
           E == Expected
           p == Len(Stream)
           q == Compressed
           t == Stream \o w
           f == InLast
           base == Size(input, chunk - 1)
<1>1. BlockOpen /\ src < slen /\ OutBits(outbits, w, <<>>) /\ src' = src + 1
      /\ UNCHANGED <<input, chunk, inputBuffer, checksum, summed, written>>
  BY DEF Literal
<1>2. /\ WriterTypes /\ src \in Nat /\ src <= slen /\ slen \in Nat /\ chunk > 0 /\ summed = slen
      /\ base \in Nat /\ q = base + src /\ base + slen <= Len(E) /\ E \in Seq(Byte) /\ Len(E) \in Nat
      /\ Stream \in Seq(Bit) /\ p \in Nat /\ hash_table \in [DOMAIN hash_table -> Nat]
  BY <1>1, InBlock, Zenon
<1>3. hash_table' \in [DOMAIN hash_table' -> Nat]
  <2>1. RememberSrc \/ hash_table' = hash_table
    BY Zenon DEF Literal
  <2> QED
    BY <1>2, <2>1, TableIsKept
<1>4. c = E[base + (src + 1)]
  BY <1>1, <1>2, BufferIsData
<1>5. q + 1 = base + (src + 1) /\ q < Len(E) /\ q \in Nat /\ q + 1 \in 1..Len(E)
  <2> HIDE DEF q, base, E
  <2> QED
    BY <1>1, <1>2
<1>6. c = E[q + 1]
  BY <1>4, <1>5
<1>7. E[q + 1] \in Byte
  <2> HIDE DEF q, E
  <2> QED
    BY <1>2, <1>5, ElementOf
<1>8. w \in Seq(Bit)
  BY <1>6, <1>7, LiteralMeans
<1>9. Spells(t, p, w)
  BY <1>2, <1>8, SpellsItself
<1>10. ASSUME NEW T, AtSymbol(f, p + Len(w), q + 1) \in T
       PROVE  Goes(T, t, E, AtSymbol(f, p, q))
  <2>1. w = zlib_literal(E[q + 1])
    BY <1>6
  <2> HIDE DEF w, E, p, q, t, f, c
  <2>2. LiteralGoes(T, t, E, f, p, q)
    BY <1>5, <1>9, <1>10, <2>1, Zenon DEF LiteralGoes
  <2>3. AtSymbol(f, p, q)[1] = "symbol" /\ AtSymbol(f, p, q)[2] = f
        /\ AtSymbol(f, p, q)[3] = p /\ AtSymbol(f, p, q)[4] = q
    BY DEF AtSymbol
  <2> QED
    BY <2>2, <2>3, Zenon DEF Goes
<1>11. 1 \in Nat /\ src + 1 <= slen
  BY <1>1, <1>2
<1> HIDE DEF w, c
<1> QED
  BY <1>1, <1>3, <1>8, <1>10, <1>11, SymbolIsWritten

\* A match repeats what is in the buffer, which is in the data.
LEMMA MatchRepeats ==
  ASSUME WriterTypes, chunk > 0, NEW subs \in Nat, NEW len \in 3..258, src < top,
         IsMatch(subs), IsMatchLength(subs, len)
  PROVE  /\ src + len <= slen /\ src - subs \in Nat
         /\ Repeats(Expected, Size(input, chunk - 1) + src, src - subs, len)
<1> DEFINE base == Size(input, chunk - 1)
           d == src - subs
           E == Expected
<1>1. src > subs /\ d <= dict_size /\ SameTriple(subs)
  BY DEF IsMatch
<1>2. src \in Nat /\ slen \in Nat /\ base \in Nat /\ base + slen <= Len(E) /\ E \in Seq(Byte)
  BY OpenChunk, StreamIs DEF WriterTypes
<1>3. src < slen - 3
  BY DEF top, MIN_MATCH
<1>4. \A k \in 3..len-1 : k < 258 /\ src + k < slen - 3 /\ At(src + k) = At(subs + k)
  BY Zenon DEF IsMatchLength, Extends, top, MIN_MATCH, MAX_MATCH
<1>5. \A k \in 0..2 : At(src + k) = At(subs + k)
  <2>1. 3 - 1 = 2
    OBVIOUS
  <2> QED
    BY <1>1, <2>1, Zenon DEF SameTriple, MIN_MATCH
<1>6. src + len <= slen
  <2>1. CASE len = 3
    BY <1>2, <1>3, <2>1
  <2>2. CASE len > 3
    <3>1. len - 1 \in 3..len-1
      BY <2>2
    <3>2. src + (len - 1) < slen - 3
      BY <1>4, <3>1
    <3> QED
      BY <1>2, <3>2
  <2> QED
    BY <2>1, <2>2
<1>7. d \in Nat /\ 1 <= d /\ d <= src
  BY <1>1, <1>2
<1>8. Len(E) \in Nat
  BY <1>2
<1>e. E = Expected /\ base = Size(input, chunk - 1)
  OBVIOUS
<1> HIDE DEF E, base
<1>9. ASSUME NEW i \in 1..len PROVE E[(base + src) + i] = E[(base + src) + i - d]
  <2>1. i - 1 \in 0..len-1 /\ (i - 1 \in 0..2 \/ i - 1 \in 3..len-1)
    OBVIOUS
  <2>2. At(src + (i - 1)) = At(subs + (i - 1))
    BY <1>4, <1>5, <2>1
  <2>3. src + (i - 1) \in Nat /\ src + (i - 1) < slen /\ subs + (i - 1) \in Nat /\ subs + (i - 1) < slen
    BY <1>1, <1>2, <1>6
  <2>4. At(src + (i - 1)) = E[base + ((src + (i - 1)) + 1)] /\ At(subs + (i - 1)) = E[base + ((subs + (i - 1)) + 1)]
    BY <1>e, <2>3, BufferIsData
  <2>5. base + ((src + (i - 1)) + 1) = (base + src) + i /\ base + ((subs + (i - 1)) + 1) = (base + src) + i - d
    BY <1>2
  <2> QED
    BY <2>2, <2>4, <2>5
<1>10. (base + src) + len <= Len(E) /\ d <= base + src
  BY <1>2, <1>6, <1>7, <1>8
<1> QED
  <2> HIDE DEF d
  <2>1. Repeats(E, base + src, d, len)
    BY <1>1, <1>7, <1>9, <1>10, Zenon DEF Repeats, d
  <2> QED
    BY <1>6, <1>7, <1>e, <2>1 DEF d

\* So does a match, as many bytes on as it is long: Match has compared them with the buffer.
LEMMA MatchIsWritten ==
  ASSUME WriterInv, ~written, Match
  PROVE  WriterInv'
<1>1. PICK subs \in Bucket, len \in 3..258 :
        /\ IsMatch(subs) /\ IsMatchLength(subs, len)
        /\ OutBits(outbits, zlib_match(src - subs, len), <<>>)
        /\ src' = src + len
  BY Zenon DEF Match, MIN_MATCH, MAX_MATCH
<1> DEFINE d == src - subs
           w == zlib_match(d, len)
           E == Expected
           p == Len(Stream)
           q == Compressed
           t == Stream \o w
           f == InLast
           base == Size(input, chunk - 1)
<1>2. BlockOpen /\ src < top /\ RememberSrc
      /\ UNCHANGED <<input, chunk, inputBuffer, checksum, summed, written>>
  BY DEF Match
<1>3. /\ WriterTypes /\ src \in Nat /\ src <= slen /\ slen \in Nat /\ chunk > 0 /\ summed = slen
      /\ base \in Nat /\ q = base + src /\ base + slen <= Len(E) /\ E \in Seq(Byte) /\ Len(E) \in Nat
      /\ Stream \in Seq(Bit) /\ p \in Nat /\ hash_table \in [DOMAIN hash_table -> Nat]
  BY <1>2, InBlock, Zenon
<1>4. hash_table' \in [DOMAIN hash_table' -> Nat]
  BY <1>2, <1>3, TableIsKept
<1>5. subs \in Nat
  BY <1>3, Zenon DEF Bucket
<1>6. src + len <= slen /\ d \in Nat /\ Repeats(E, q, d, len)
  BY <1>1, <1>2, <1>3, <1>5, MatchRepeats
<1>7. 1 <= d /\ d <= dict_size
  BY <1>6, Zenon DEF Repeats
<1>8. w \in Seq(Bit)
  BY <1>6, <1>7, MatchIsBits
<1>9. Spells(t, p, w)
  BY <1>3, <1>8, SpellsItself
<1>10. ASSUME NEW T, AtSymbol(f, p + Len(w), q + len) \in T
       PROVE  Goes(T, t, E, AtSymbol(f, p, q))
  <2>0. w = zlib_match(d, len)
    OBVIOUS
  <2> HIDE DEF w, E, p, q, t, f, d
  <2>2. MatchGoes(T, t, E, f, p, q)
    BY <1>6, <1>9, <1>10, <2>0, Zenon DEF MatchGoes
  <2>3. AtSymbol(f, p, q)[1] = "symbol" /\ AtSymbol(f, p, q)[2] = f
        /\ AtSymbol(f, p, q)[3] = p /\ AtSymbol(f, p, q)[4] = q
    BY DEF AtSymbol
  <2> QED
    BY <2>2, <2>3, Zenon DEF Goes
<1>11. len \in Nat /\ OutBits(outbits, w, <<>>) /\ src' = src + len
  BY <1>1
<1> HIDE DEF w, d
<1> QED
  BY <1>2, <1>4, <1>6, <1>8, <1>10, <1>11, SymbolIsWritten

\* The zeros that end a block.
LEMMA ZeroWords ==
  /\ Bits(0, 7) \in Seq(Bit) /\ Len(Bits(0, 7)) = 7 /\ Bits(0, 3) \in Seq(Bit) /\ Len(Bits(0, 3)) = 3
  /\ Bits(0, 7) \o Bits(0, 3) \in Seq(Bit) /\ Len(Bits(0, 7) \o Bits(0, 3)) = 10
<1> DEFINE u == Bits(0, 7)
           v == Bits(0, 3)
<1>1. 7 \in Nat /\ 3 \in Nat
  OBVIOUS
<1>2. u \in Seq(Bit) /\ Len(u) = 7 /\ v \in Seq(Bit) /\ Len(v) = 3
  BY <1>1, ZeroBits
<1> HIDE DEF u, v
<1>3. u \in Seq(Bit) /\ v \in Seq(Bit)
  BY <1>2
<1>4. u \o v \in Seq(Bit) /\ Len(u \o v) = Len(u) + Len(v)
  BY <1>3, Cat
<1>5. Len(u \o v) = 10
  BY <1>2, <1>4
<1> QED
  BY <1>2, <1>4, <1>5, Zenon DEF u, v

\* What ends with zeros that only pad it to a byte, and the bytes after it.
LEMMA EndIsWritten ==
  ASSUME member \in Seq(Byte), outbits \in Seq(Bit), NEW v \in Seq(Bit), NEW bytes \in Seq(Byte),
         OutBits(outbits, v \o Bits(0, 7), bytes)
  PROVE  /\ member' \in Seq(Byte) /\ outbits' \in Seq(Bit) /\ Spells(member', 0, member)
         /\ Flat(member') \in Seq(Bit) /\ Spells(Flat(member'), 0, Stream) /\ Spells(Flat(member'), Len(Stream), v)
         /\ \E a \in Nat : /\ UpToByte(Len(Stream) + Len(v), a) /\ Spells(Flat(member'), a, Flat(bytes))
                           /\ 8 * Len(member') = a + Len(Flat(bytes))
<1> DEFINE S == Stream
           z == Bits(0, 7)
           w == v \o z
           t == Flat(member')
           x == Flat(bytes)
<1>1. z \in Seq(Bit) /\ Len(z) = 7
  BY ZeroWords
<1>2. S \in Seq(Bit) /\ Len(S) \in Nat /\ x \in Seq(Bit) /\ Len(x) \in Nat
  <2>1. Flat(member) \in Seq(Bit) /\ x \in Seq(Bit)
    BY FlatIs
  <2>2. S \in Seq(Bit)
    BY <2>1 DEF Stream
  <2> QED
    BY <2>1, <2>2
<1> HIDE DEF z
<1>3. w \in Seq(Bit) /\ Len(w) = Len(v) + 7 /\ Len(v) \in Nat
  <2>1. w \in Seq(Bit) /\ Len(w) = Len(v) + Len(z)
    BY <1>1, Cat
  <2> QED
    BY <1>1, <2>1
<1>4. OutBits(outbits, w, bytes)
  BY DEF z
<1>w. w = v \o z
  OBVIOUS
<1> HIDE DEF w
<1>5. member' \in Seq(Byte) /\ outbits' \in Seq(Bit) /\ Spells(member', 0, member)
  BY <1>3, <1>4, BytesAreWritten
<1>6. PICK k \in Nat : /\ 8 * k <= Len(S) + Len(w) /\ Len(S) + Len(w) < 8 * k + 8
                       /\ \A i \in 1..8 * k : t[i] = (S \o w)[i]
                       /\ Spells(t, 8 * k, x) /\ Len(t) = 8 * k + Len(x)
  BY <1>3, <1>4, BytesAreWritten
<1>7. t \in Seq(Bit) /\ Len(t) = 8 * Len(member')
  BY <1>5, FlatIs
<1> DEFINE a == 8 * k
<1>8. a \in Nat
  OBVIOUS
<1>9. /\ a <= Len(S) + Len(w) /\ Len(S) + Len(w) < a + 8 /\ (\A i \in 1..a : t[i] = (S \o w)[i])
      /\ Spells(t, a, x) /\ Len(t) = a + Len(x)
  BY <1>6
<1>10. \E j \in Nat : a = 8 * j
  OBVIOUS
<1> HIDE DEF a, S, t, x
<1>11. Len(S) + Len(v) <= a /\ a <= Len(t) /\ a < Len(S) + Len(v) + 8
  BY <1>2, <1>3, <1>8, <1>9
<1>12. \A i \in 1..a : t[i] = (S \o (v \o z))[i]
  BY <1>9, <1>w
<1>13. Spells(t, 0, S) /\ Spells(t, Len(S), v)
  BY <1>1, <1>2, <1>7, <1>8, <1>11, <1>12, BeginningIsWritten
<1>14. UpToByte(Len(S) + Len(v), a)
  BY <1>10, <1>11, Zenon DEF UpToByte
<1> QED
  BY <1>5, <1>7, <1>8, <1>9, <1>13, <1>14, Zenon DEF S, t, x

\* The end of a block that is not the last leads to an empty block, and that to the next one.
LEMMA BlockIsEnded ==
  ASSUME WriterInv, ~written, EndBlock
  PROVE  WriterInv'
<1> DEFINE z7 == Bits(0, 7)
           z3 == Bits(0, 3)
           v == z7 \o z3
           E == Expected
           s == Stream
           p == Len(Stream)
           q == Compressed
           t == Flat(member')
           base == Size(input, chunk - 1)
           x == Flat(EmptyBlockLength)
<1>1. BlockOpen /\ src = slen /\ ~IsLast /\ OutBits(outbits, zlib_empty_block, EmptyBlockLength) /\ src' = slen + 1
      /\ input' = input /\ chunk' = chunk /\ inputBuffer' = inputBuffer /\ hash_table' = hash_table
      /\ checksum' = checksum /\ summed' = summed /\ written' = written
  BY DEF EndBlock
<1>2. /\ WriterTypes /\ src \in Nat /\ src <= slen /\ slen \in Nat /\ chunk > 0 /\ summed = slen
      /\ base \in Nat /\ q = base + src /\ base + slen <= Len(E) /\ E \in Seq(Byte) /\ Len(E) \in Nat
      /\ s \in Seq(Bit) /\ p \in Nat /\ member \in Seq(Byte) /\ outbits \in Seq(Bit)
      /\ hash_table \in [DOMAIN hash_table -> Nat]
  BY <1>1, InBlock, Zenon
<1>3. SumKept /\ HeaderWritten /\ Writing /\ ~written'
  BY <1>1 DEF WriterInv
<1>4. z7 \in Seq(Bit) /\ Len(z7) = 7 /\ z3 \in Seq(Bit) /\ Len(z3) = 3 /\ v \in Seq(Bit) /\ Len(v) = 10
  BY ZeroWords, Zenon
<1>5. OutBits(outbits, v \o Bits(0, 7), EmptyBlockLength)
  BY <1>1 DEF zlib_empty_block
<1> HIDE DEF v
<1>6. /\ member' \in Seq(Byte) /\ outbits' \in Seq(Bit) /\ Spells(member', 0, member)
      /\ t \in Seq(Bit) /\ Spells(t, 0, s) /\ Spells(t, p, v)
      /\ \E a \in Nat : UpToByte(p + Len(v), a) /\ Spells(t, a, x) /\ 8 * Len(member') = a + Len(x)
  BY <1>2, <1>4, <1>5, EmptyLengthIsBits, EndIsWritten, Zenon
<1>7. PICK a \in Nat : UpToByte(p + Len(v), a) /\ Spells(t, a, x) /\ 8 * Len(member') = a + Len(x)
  BY <1>6
<1>8. x \in Seq(Bit) /\ Len(x) = 32
  BY EmptyLengthIsBits
<1>9. slen' = slen /\ E' = E /\ src' > slen' /\ ~(src > slen)
  BY <1>1, <1>2 DEF slen, Expected
<1>10. WriterTypes'
  <2>1. BufferHolds' <=> BufferHolds
    BY <1>1, <1>9 DEF BufferHolds
  <2>2. src' \in Nat /\ src' <= slen' + 1
    BY <1>1, <1>2, <1>9
  <2>3. chunk # 0 /\ chunk > 0
    BY <1>2
  <2> QED
    BY <1>1, <1>2, <1>6, <1>9, <2>1, <2>2, <2>3, Zenon DEF WriterTypes
<1>11. SumKept'
  BY <1>1, <1>3, <1>9 DEF SumKept, Summed
<1>12. HeaderWritten'
  BY <1>2, <1>3, <1>6, HeaderStays DEF HeaderWritten
<1>13. Writing'
  <2> DEFINE here == AtSymbol(0, p, q)
             mid == AtEmpty(p + 7, q)
             new == AtBlock(a + 32, q)
  <2>1. q \in Nat /\ p + 7 \in Nat /\ a + 32 \in Nat /\ (p + 7) + 3 = p + Len(v) /\ 0 \in 0..1
    <3> HIDE DEF p, q, base
    <3>1. p \in Nat /\ base \in Nat /\ src \in Nat /\ q = base + src /\ Len(v) = 10
      BY <1>2, <1>4, Zenon
    <3> QED
      BY <3>1
  <2>2. SoFar = s /\ Here = here
    BY <1>1, <1>9, Zenon DEF SoFar, Here
  <2>3. RoadTo(s, E, here)
    BY <1>3, <2>2, Zenon DEF Writing
  <2>4. Compressed' = q
    <3>1. Size(input, chunk) = base + slen
      BY <1>2, OpenChunk
    <3>2. Compressed' = Size(input, chunk)
      BY <1>1, <1>9, Zenon DEF Compressed
    <3> QED
      BY <1>1, <1>2, <3>1, <3>2
  <2>5. SoFar' = t /\ Here' = new
    <3>1. 8 * Len(member') = a + 32
      BY <1>7, <1>8
    <3> QED
      BY <1>9, <2>4, <3>1, Zenon DEF SoFar, Here
  <2>6. mid \in Nodes /\ new \in Nodes /\ mid[1] # "trailer" /\ new[1] # "trailer"
    <3> HIDE DEF q, p
    <3>1. mid \in Nodes /\ new \in Nodes
      BY <2>1, NodesAre
    <3> QED
      BY <3>1 DEF AtEmpty, AtBlock
  <2>7. Spells(t, p, z7) /\ Spells(t, p + 7, z3)
    <3>1. Spells(t, p, z7 \o z3)
      BY <1>6 DEF v
    <3> HIDE DEF z7, z3, t, p
    <3>2. Spells(t, p, z7) /\ Spells(t, p + Len(z7), z3)
      BY <1>2, <1>4, <1>6, <3>1, SpellsBoth
    <3> QED
      BY <1>4, <3>2
  <2>8. UpToByte((p + 7) + 3, a)
    BY <1>7, <2>1
  <2>9. Spells(t, 0, t)
    <3> HIDE DEF t
    <3> QED
      BY <1>6 DEF Spells
  <2>10. ASSUME NEW T, mid \in T PROVE Goes(T, t, E, here)
    <3> HIDE DEF t, E, p, q
    <3>1. PlainEnds(T, t, 0, p, q)
      BY <2>7, <2>10, Zenon DEF PlainEnds
    <3>2. here[1] = "symbol" /\ here[2] = 0 /\ here[3] = p /\ here[4] = q
      BY DEF AtSymbol
    <3> QED
      BY <3>1, <3>2, Zenon DEF Goes
  <2>11. ASSUME NEW T, new \in T PROVE Goes(T, t, E, mid)
    <3> HIDE DEF t, E, q, p
    <3>1. EmptyGoes(T, t, p + 7, q)
      BY <1>7, <2>7, <2>8, <2>11, Zenon DEF EmptyGoes
    <3>2. mid[1] = "empty" /\ mid[3] = p + 7 /\ mid[4] = q
      BY DEF AtEmpty
    <3> QED
      BY <3>1, <3>2, Zenon DEF Goes
  <2> HIDE DEF here, mid, new, s, t, E
  <2>12. RoadTo(t, E, mid)
    BY <1>2, <1>6, <2>3, <2>6, <2>10, RoadGoesOn
  <2>13. RoadTo(t, E, new)
    BY <1>2, <1>6, <2>6, <2>9, <2>11, <2>12, RoadGoesOn
  <2> QED
    BY <1>9, <2>5, <2>13, Zenon DEF Writing, E
<1> QED
  BY <1>3, <1>10, <1>11, <1>12, <1>13, Zenon DEF WriterInv

\* The end of the last block leads to the trailer, and that ends the member.
LEMMA MemberIsEnded ==
  ASSUME WriterInv, ~written, EndMember
  PROVE  WriterInv'
<1> DEFINE z7 == Bits(0, 7)
           E == Expected
           s == Stream
           p == Len(Stream)
           q == Compressed
           t == Flat(member')
           base == Size(input, chunk - 1)
           crc == NotBits(checksum)
           size == Bits(Len(E), 32)
           bytes == lzFooter(Len(E), crc)
           x == Flat(bytes)
<1>1. BlockOpen /\ src = slen /\ IsLast /\ OutBits(outbits, zlib_finish_block, bytes) /\ written' = TRUE
      /\ input' = input /\ chunk' = chunk /\ inputBuffer' = inputBuffer /\ src' = src
      /\ hash_table' = hash_table /\ checksum' = checksum /\ summed' = summed
  BY DEF EndMember
<1>2. /\ WriterTypes /\ src \in Nat /\ src <= slen /\ slen \in Nat /\ chunk > 0 /\ summed = slen
      /\ base \in Nat /\ q = base + src /\ base + slen <= Len(E) /\ E \in Seq(Byte) /\ Len(E) \in Nat
      /\ s \in Seq(Bit) /\ p \in Nat /\ member \in Seq(Byte) /\ outbits \in Seq(Bit)
      /\ hash_table \in [DOMAIN hash_table -> Nat]
  BY <1>1, InBlock, Zenon
<1>3. SumKept /\ HeaderWritten /\ Writing
  BY DEF WriterInv
<1>4. z7 \in Seq(Bit) /\ Len(z7) = 7
  BY ZeroWords, Zenon
<1>5. OutBits(outbits, z7 \o Bits(0, 7), bytes)
  BY <1>1 DEF zlib_finish_block
<1>9. slen' = slen /\ E' = E /\ ~(src > slen)
  BY <1>1, <1>2 DEF slen, Expected
<1>10. base + slen = Len(E) /\ q = Len(E) /\ Summed = Len(E)
  <2>1. Size(input, chunk) = base + slen /\ input \in Inputs
    BY <1>2, OpenChunk DEF WriterTypes
  <2>2. Size(input, chunk) = Len(E)
    BY <1>1, <2>1, EndsOfInput DEF IsLast, Expected
  <2>3. chunk # 0
    BY <1>2
  <2> QED
    BY <1>1, <1>2, <2>1, <2>2, <2>3, Zenon DEF Summed
<1>11. checksum = Crc(E)[q] /\ checksum \in Words /\ crc \in Seq(Bit) /\ Len(crc) = 32
  <2>1. checksum = Crc(E)[Len(E)]
    BY <1>3, <1>10, Zenon DEF SumKept
  <2>2. checksum \in Words
    BY <1>2, <2>1, CrcIs
  <2> QED
    BY <1>10, <2>1, <2>2, WordsAreSequences
<1>12. size \in Seq(Bit) /\ Len(size) = 32
  <2>1. 32 \in Nat
    OBVIOUS
  <2> QED
    BY <1>2, <2>1, BitsAre
<1>13. bytes \in Seq(Byte) /\ x = crc \o size
  BY <1>2, <1>11, FooterSpells
<1>14. x \in Seq(Bit) /\ Len(x) = 64
  <2> HIDE DEF crc, size, x
  <2>2. crc \in Seq(Bit) /\ size \in Seq(Bit)
    BY <1>11, <1>12
  <2>1. crc \o size \in Seq(Bit) /\ Len(crc \o size) = Len(crc) + Len(size)
    BY <2>2, Cat
  <2> QED
    BY <1>11, <1>12, <1>13, <2>1
<1> HIDE DEF crc, size, bytes
<1>6. /\ member' \in Seq(Byte) /\ outbits' \in Seq(Bit) /\ Spells(member', 0, member)
      /\ t \in Seq(Bit) /\ Spells(t, 0, s) /\ Spells(t, p, z7)
      /\ \E a \in Nat : UpToByte(p + Len(z7), a) /\ Spells(t, a, x) /\ 8 * Len(member') = a + Len(x)
  BY <1>2, <1>4, <1>5, <1>13, EndIsWritten, Zenon
<1>7. PICK a \in Nat : UpToByte(p + Len(z7), a) /\ Spells(t, a, x) /\ 8 * Len(member') = a + Len(x)
  BY <1>6
<1>15. WriterTypes'
  <2>1. BufferHolds' <=> BufferHolds
    BY <1>1, <1>9 DEF BufferHolds
  <2>2. src' \in Nat /\ src' <= slen' + 1
    BY <1>1, <1>2, <1>9
  <2>3. chunk # 0 /\ chunk > 0
    BY <1>2
  <2> QED
    BY <1>1, <1>2, <1>6, <1>9, <2>1, <2>2, <2>3, Zenon DEF WriterTypes
<1>16. SumKept'
  BY <1>1, <1>3, <1>9 DEF SumKept, Summed
<1>17. HeaderWritten'
  BY <1>2, <1>3, <1>6, HeaderStays DEF HeaderWritten
<1>18. Finished'
  <2> DEFINE here == AtSymbol(1, p, q)
             new == AtTrailer(a, q)
  <2>1. q \in Nat /\ a + 32 \in Nat /\ 1 \in 0..1 /\ p + 7 = p + Len(z7)
    <3>3. p + 7 = p + Len(z7)
      BY <1>4
    <3>1. a + 32 \in Nat /\ 1 \in 0..1
      OBVIOUS
    <3>2. q \in Nat
      <4> HIDE DEF q
      <4> QED
        BY <1>2
    <3> QED
      BY <3>1, <3>2, <3>3
  <2>2. SoFar = s /\ Here = here
    BY <1>1, <1>9, Zenon DEF SoFar, Here
  <2>3. RoadTo(s, E, here)
    BY <1>3, <2>2, Zenon DEF Writing
  <2>4. PICK T : FirstBlock \in T /\ Trailers(T) = {} /\ Road(T, s, E, here)
    BY <2>3, Zenon DEF RoadTo
  <2> DEFINE U == T \cup {new}
  <2>6. new \in Nodes /\ new[1] = "trailer" /\ new[3] = a /\ new[4] = q
    <3> HIDE DEF q
    <3>1. new \in Nodes
      BY <2>1, NodesAre
    <3> QED
      BY <3>1 DEF AtTrailer
  <2>7. Spells(t, a, crc) /\ Spells(t, a + 32, size)
    <3> HIDE DEF t
    <3>1. Spells(t, a, crc \o size)
      BY <1>7, <1>13
    <3>2. Spells(t, a, crc) /\ Spells(t, a + Len(crc), size)
      BY <1>6, <1>11, <1>12, <3>1, SpellsBoth
    <3> QED
      BY <1>11, <3>2
  <2>8. Goes(U, t, E, here)
    <3>0. new \in U
      OBVIOUS
    <3>3. UpToByte(p + 7, a)
      BY <1>7, <2>1
    <3> HIDE DEF t, E, p, q, U
    <3>1. FinalEnds(U, t, 1, p, q)
      BY <1>6, <3>0, <3>3, Zenon DEF FinalEnds
    <3>2. here[1] = "symbol" /\ here[2] = 1 /\ here[3] = p /\ here[4] = q
      BY DEF AtSymbol
    <3> QED
      BY <3>1, <3>2, Zenon DEF Goes
  <2>9. Goes(U, t, E, new)
    <3> HIDE DEF t, U, q
    <3>1. TrailerGoes(t, E, a, q)
      BY <1>10, <1>11, <2>7, Zenon DEF TrailerGoes, crc, size
    <3> HIDE DEF new
    <3> QED
      BY <2>6, <3>1, Zenon DEF Goes
  <2>10. Trailers(U) = {new}
    <3> HIDE DEF new
    <3> QED
      BY <2>4, <2>6 DEF Trailers
  <2> HIDE DEF here, new, s, t, E
  <2>11. Road(U, t, E, new)
    BY <1>2, <1>6, <2>4, <2>6, <2>8, RoadGrows
  <2>12. Whole(U, t, E)
    BY <2>9, <2>11, Zenon DEF Road, Whole
  <2>13. a + 64 = 8 * Len(member')
    BY <1>7, <1>14
  <2>14. \A n \in Trailers(U) : n[3] + 64 = 8 * Len(member')
    BY <2>6, <2>10, <2>13
  <2>15. FirstBlock \in U
    BY <2>4
  <2> HIDE DEF U
  <2> QED
    BY <1>9, <2>12, <2>14, <2>15, Zenon DEF Finished, E, t
<1> QED
  BY <1>1, <1>15, <1>16, <1>17, <1>18, Zenon DEF WriterInv

-----------------------------------------------------------------------------
(***************************************************************************)
(* The reader.                                                             *)
(***************************************************************************)
LEMMA NodeGoes ==
  ASSUME NEW T, NEW s, NEW E, Whole(T, s, E), NEW f \in 0..1, NEW p \in Nat, NEW q \in Nat
  PROVE  /\ AtBlock(p, q) \in T => BlockGoes(T, s, p, q)
         /\ AtEmpty(p, q) \in T => EmptyGoes(T, s, p, q)
         /\ AtTrailer(p, q) \in T => TrailerGoes(s, E, p, q)
         /\ AtSymbol(f, p, q) \in T => \/ LiteralGoes(T, s, E, f, p, q) \/ MatchGoes(T, s, E, f, p, q)
                                      \/ PlainEnds(T, s, f, p, q) \/ FinalEnds(T, s, f, p, q)
<1>1. \A n \in T : Goes(T, s, E, n)
  BY DEF Whole
<1>2. ASSUME AtBlock(p, q) \in T PROVE BlockGoes(T, s, p, q)
  <2>1. Goes(T, s, E, AtBlock(p, q)) /\ AtBlock(p, q)[1] = "block" /\ AtBlock(p, q)[3] = p /\ AtBlock(p, q)[4] = q
    BY <1>1, <1>2 DEF AtBlock
  <2> QED
    BY <2>1 DEF Goes
<1>3. ASSUME AtEmpty(p, q) \in T PROVE EmptyGoes(T, s, p, q)
  <2>1. Goes(T, s, E, AtEmpty(p, q)) /\ AtEmpty(p, q)[1] = "empty" /\ AtEmpty(p, q)[3] = p /\ AtEmpty(p, q)[4] = q
    BY <1>1, <1>3 DEF AtEmpty
  <2> QED
    BY <2>1 DEF Goes
<1>4. ASSUME AtTrailer(p, q) \in T PROVE TrailerGoes(s, E, p, q)
  <2>1. Goes(T, s, E, AtTrailer(p, q)) /\ AtTrailer(p, q)[1] = "trailer" /\ AtTrailer(p, q)[3] = p /\ AtTrailer(p, q)[4] = q
    BY <1>1, <1>4 DEF AtTrailer
  <2> QED
    BY <2>1 DEF Goes
<1>5. ASSUME AtSymbol(f, p, q) \in T
      PROVE \/ LiteralGoes(T, s, E, f, p, q) \/ MatchGoes(T, s, E, f, p, q)
            \/ PlainEnds(T, s, f, p, q) \/ FinalEnds(T, s, f, p, q)
  <2>1. Goes(T, s, E, AtSymbol(f, p, q)) /\ AtSymbol(f, p, q)[1] = "symbol" /\ AtSymbol(f, p, q)[2] = f
        /\ AtSymbol(f, p, q)[3] = p /\ AtSymbol(f, p, q)[4] = q
    BY <1>1, <1>5 DEF AtSymbol
  <2> QED
    BY <2>1 DEF Goes
<1> QED
  BY <1>2, <1>3, <1>4, <1>5

\* The bits a step needs, by stage.
BitsOfLaw ==
  /\ stage = "header" => BitsOf = IF todo = <<>> THEN 0 ELSE IF Head(todo) \in {"xlen", "hcrc"} THEN 16 ELSE 8
  /\ stage = "block" => BitsOf = 3
  /\ stage = "stored length" => BitsOf = 32
  /\ stage = "length" => BitsOf = length_bits[sym - 256]
  /\ stage = "offset" => BitsOf = dist_bits[sym + 1]
  /\ stage = "copy" => BitsOf = 0
  /\ stage = "crc" => BitsOf = 32
  /\ stage = "isize" => BitsOf = 32

\* How many bits each stage takes.
LEMMA BitsOfIs ==
  BitsOfLaw
BY DEF BitsOfLaw, BitsOf

\* Where in the member the reader is.
Position == 8 * sent - Len(bits)
\* The bits it holds are those of the member before what was not sent yet.
Held ==
  /\ sent \in Nat /\ held \in Nat /\ held <= Len(member) /\ sent <= Len(member)
  /\ bits \in Seq(Bit) /\ Len(bits) <= 8 * sent /\ Spells(Flat(member), Position, bits)
\* And not a byte of them before it had to take it.
Tight ==
  stage # "done" =>
    IF InSymbol
    THEN \A w \in Seq(Bit), x \in Nat :
           Means(w, TreeOf, x) /\ Spells(Flat(member), Position, w) => Len(bits) < 8 + Len(w)
    ELSE BitsOf \in Nat /\ Len(bits) < 8 + BitsOf

\* When there is less than a byte there is not too much.
LEMMA FewAreTight ==
  ASSUME bits \in Seq(Bit), Len(bits) < 8,
         stage = "done" \/ InSymbol \/ (~InSymbol /\ BitsOf \in Nat)
  PROVE  Tight
<1>1. Len(bits) \in Nat
  OBVIOUS
<1>2. \A w \in Seq(Bit) : Len(w) \in Nat
  OBVIOUS
<1>3. \A w \in Seq(Bit) : Len(bits) < 8 + Len(w)
  BY <1>1, <1>2
<1>4. BitsOf \in Nat => Len(bits) < 8 + BitsOf
  BY <1>1
<1> QED
  BY <1>3, <1>4, Zenon DEF Tight

\* Where the reader is in the stream.
LEMMA PositionIs ==
  ASSUME Held, member \in Seq(Byte)
  PROVE  /\ Position \in Nat /\ Len(bits) \in Nat /\ 8 * sent = Position + Len(bits)
         /\ Flat(member) \in Seq(Bit) /\ Len(Flat(member)) = 8 * Len(member) /\ Len(member) \in Nat
<1>1. Len(bits) \in Nat /\ Len(bits) <= 8 * sent /\ sent \in Nat
  BY DEF Held
<1> QED
  BY <1>1, FlatIs DEF Position

\* A word is read.
LEMMA WordIsTaken ==
  ASSUME Held, member \in Seq(Byte), NEW w \in Seq(Bit), Spells(Flat(member), Position, w),
         Len(w) <= Len(bits), bits' = Drop(bits, Len(w)), sent' = sent, held' = held, member' = member
  PROVE  /\ ReadBits(bits, Len(w)) = Value(w) /\ Held' /\ Position' = Position + Len(w)
         /\ Len(bits') = Len(bits) - Len(w) /\ bits' \in Seq(Bit)
<1> DEFINE s == Flat(member)
           p == Position
           n == Len(bits)
           b == bits
<1>1. p \in Nat /\ n \in Nat /\ 8 * sent = p + n /\ s \in Seq(Bit) /\ b \in Seq(Bit) /\ Spells(s, p, b)
  BY PositionIs DEF Held
<1>2. Spells(s, p, w)
  OBVIOUS
<1>3. n = Len(b) /\ Len(w) \in Nat /\ Len(w) <= n
  OBVIOUS
<1>4. sent \in Nat /\ held \in Nat /\ held <= Len(member) /\ sent <= Len(member)
  BY DEF Held
<1> HIDE DEF s, p, n
<1>5. ReadBits(b, Len(w)) = Value(w) /\ Drop(b, Len(w)) \in Seq(Bit) /\ Len(Drop(b, Len(w))) = Len(b) - Len(w)
      /\ Spells(s, p + Len(w), Drop(b, Len(w)))
  BY <1>1, <1>2, <1>3, WordIsRead
<1>6. bits' \in Seq(Bit) /\ Len(bits') = n - Len(w) /\ Spells(s, p + Len(w), bits')
  BY <1>3, <1>5
<1>7. Position' = p + Len(w) /\ Len(bits') <= 8 * sent'
  BY <1>1, <1>3, <1>6 DEF Position
<1>8. Flat(member') = s
  BY DEF s
<1>9. Held'
  BY <1>4, <1>6, <1>7, <1>8 DEF Held
<1> QED
  BY <1>5, <1>6, <1>7, <1>9 DEF p, n

\* A symbol is read.
LEMMA SymbolIsTaken ==
  ASSUME Held, member \in Seq(Byte), readSourceErrors = 0, InSymbol, ~Starved,
         NEW w \in Seq(Bit), Spells(Flat(member), Position, w), NEW x \in Nat, Means(w, TreeOf, x)
  PROVE  Len(w) <= Len(bits) /\ Symbol = x /\ SymbolRead = Drop(bits, Len(w))
<1> DEFINE s == Flat(member)
           p == Position
<1>1. p \in Nat /\ s \in Seq(Bit) /\ bits \in Seq(Bit) /\ Spells(s, p, bits) /\ Len(bits) \in Nat /\ Len(w) \in Nat
  BY PositionIs DEF Held
<1>2. Spells(s, p, w)
  OBVIOUS
<1> HIDE DEF s, p
<1>3. Begins(bits, w)
  <2>1. \A i \in 1..Len(bits) : s[p + i] = bits[i]
    BY <1>1, Zenon DEF Spells
  <2>2. \A i \in 1..Len(w) : s[p + i] = w[i]
    BY <1>2, Zenon DEF Spells
  <2>3. \A i \in 1..Len(bits) : i <= Len(w) => i \in 1..Len(w)
    BY <1>1
  <2> QED
    BY <2>1, <2>2, <2>3, Zenon DEF Begins
<1>4. /\ Len(w) <= Len(bits) => CodeLength(bits, TreeOf) = Len(w) /\ Decoded(bits, TreeOf) = x
      /\ Len(bits) < Len(w) => CodeLength(bits, TreeOf) > Len(bits)
  BY <1>1, <1>3, Zenon DEF Means
<1>5. ~(readSourceErrors > 0)
  OBVIOUS
<1>6. ~(CodeLength(bits, TreeOf) > Len(bits))
  BY <1>5, Zenon DEF Starved
<1>7. Len(w) <= Len(bits)
  BY <1>1, <1>4, <1>6
<1> QED
  BY <1>4, <1>5, <1>7, Zenon DEF Symbol, SymbolRead

\* And a symbol of which there were not enough bits is longer than they are.
LEMMA SymbolIsLonger ==
  ASSUME Held, member \in Seq(Byte), NEW w \in Seq(Bit), Spells(Flat(member), Position, w), NEW x,
         Means(w, TreeOf, x), CodeLength(bits, TreeOf) > Len(bits)
  PROVE  Len(bits) < Len(w)
<1> DEFINE s == Flat(member)
           p == Position
<1>1. p \in Nat /\ s \in Seq(Bit) /\ bits \in Seq(Bit) /\ Spells(s, p, bits) /\ Len(bits) \in Nat /\ Len(w) \in Nat
  BY PositionIs DEF Held
<1>2. Spells(s, p, w)
  OBVIOUS
<1> HIDE DEF s, p
<1>3. SUFFICES ASSUME Len(w) <= Len(bits) PROVE FALSE
  BY <1>1
<1>4. Begins(bits, w)
  <2>1. \A i \in 1..Len(bits) : s[p + i] = bits[i]
    BY <1>1, Zenon DEF Spells
  <2>2. \A i \in 1..Len(w) : s[p + i] = w[i]
    BY <1>2, Zenon DEF Spells
  <2>3. \A i \in 1..Len(bits) : i <= Len(w) => i \in 1..Len(w)
    BY <1>1
  <2> QED
    BY <2>1, <2>2, <2>3, Zenon DEF Begins
<1>5. CodeLength(bits, TreeOf) = Len(w)
  BY <1>1, <1>3, <1>4, Zenon DEF Means
<1> QED
  BY <1>1, <1>3, <1>5

-----------------------------------------------------------------------------
(***************************************************************************)
(* What the reader is about to read, by stage.                             *)
(***************************************************************************)
Fields == <<"id1", "id2", "method", "flags">>
InHeader ==
  \/ todo = <<"id1", "id2", "method", "flags">> /\ Position = 0
  \/ todo = <<"id2", "method", "flags">> /\ Position = 8
  \/ todo = <<"method", "flags">> /\ Position = 16
  \/ todo = <<"flags">> /\ Position = 24
  \/ todo = <<"skip">> /\ count \in 1..6 /\ Position = 80 - 8 * count
  \/ todo = <<>> /\ Position = 80

\* The trees of the block, and the symbol that follows.
NextSymbol(T, p, q) == trees = NoTrees /\ bfinal \in 0..1 /\ AtSymbol(bfinal, p, q) \in T
AfterLength(d) == DistanceCode(d) \o ExtraBits(distcodes, d)
AfterCode(l, d) == ExtraBits(lencodes, l) \o AfterLength(d)

LengthNext(T, l, d) ==
  /\ Repeats(Expected, Len(out), d, l) /\ sym - 256 \in 1..29
  /\ Len(ExtraBits(lencodes, l)) = length_bits[sym - 256]
  /\ length_base[sym - 256] + Value(ExtraBits(lencodes, l)) = l
  /\ Spells(Flat(member), Position, AfterCode(l, d))
  /\ NextSymbol(T, Position + Len(AfterCode(l, d)), Len(out) + l)
DistanceNext(T, d) ==
  /\ Repeats(Expected, Len(out), d, curlen) /\ curlen \in 3..258
  /\ Spells(Flat(member), Position, AfterLength(d))
  /\ NextSymbol(T, Position + Len(AfterLength(d)), Len(out) + curlen)
OffsetNext(T, d) ==
  /\ Repeats(Expected, Len(out), d, curlen) /\ curlen \in 3..258 /\ sym + 1 \in 1..30
  /\ Len(ExtraBits(distcodes, d)) = dist_bits[sym + 1]
  /\ dist_base[sym + 1] + Value(ExtraBits(distcodes, d)) = d
  /\ Spells(Flat(member), Position, ExtraBits(distcodes, d))
  /\ NextSymbol(T, Position + Len(ExtraBits(distcodes, d)), Len(out) + curlen)

PlaceIn(T) ==
  \/ stage = "header" /\ out = <<>> /\ InHeader
  \/ stage = "block" /\ (AtBlock(Position, Len(out)) \in T \/ AtEmpty(Position, Len(out)) \in T)
  \/ /\ stage = "stored length" /\ bfinal = 0 /\ Spells(Flat(member), Position, Flat(EmptyBlockLength))
     /\ AtBlock(Position + 32, Len(out)) \in T
  \/ stage = "symbol" /\ NextSymbol(T, Position, Len(out))
  \/ stage = "length" /\ \E l \in 3..258, d \in Nat : LengthNext(T, l, d)
  \/ stage = "distance" /\ \E d \in Nat : DistanceNext(T, d)
  \/ stage = "offset" /\ \E d \in Nat : OffsetNext(T, d)
  \/ /\ stage = "copy" /\ curlen \in 1..258 /\ offs \in Nat /\ Repeats(Expected, Len(out), offs, curlen)
     /\ NextSymbol(T, Position, Len(out) + curlen)
  \/ stage = "crc" /\ AtTrailer(Position, Len(out)) \in T
  \/ /\ stage = "isize" /\ Len(out) = Len(Expected) /\ Position + 32 = 8 * Len(member)
     /\ Spells(Flat(member), Position, Bits(Len(out), 32))
  \/ /\ stage = "done" /\ Len(out) = Len(Expected) /\ res = TINF_DONE /\ sent = Len(member)
     /\ \E p \in Nat : p + 32 = 8 * Len(member) /\ Spells(Flat(member), p, Bits(Len(out), 32))

OutIsData ==
  /\ out \in Seq(Byte) /\ Len(out) <= Len(Expected) /\ \A i \in 1..Len(out) : out[i] = Expected[i]
  /\ data_checksum = Crc(Expected)[Len(out)]

WholeRoad(T) ==
  /\ FirstBlock \in T /\ Whole(T, Flat(member), Expected)
  /\ \A n \in Trailers(T) : n[3] + 64 = 8 * Len(member)
ReaderAt(T) == Held /\ readSourceErrors = 0 /\ OutIsData /\ Tight /\ PlaceIn(T)
ReaderInv == stage # "idle" => \E T : WholeRoad(T) /\ ReaderAt(T)

\* What a step of the reader leaves alone.
Same == member' = member /\ input' = input

\* A road stays what it is while the member does.
LEMMA RoadStays ==
  ASSUME Same, NEW T, WholeRoad(T)
  PROVE  WholeRoad(T)' /\ Expected' = Expected /\ Flat(member') = Flat(member)
<1>1. Expected' = Expected /\ member' = member
  BY DEF Same, Expected
<1> QED
  BY <1>1, Zenon DEF WholeRoad

-----------------------------------------------------------------------------
\* When a call begins the reader is before the header.
LEMMA ReadBegins ==
  ASSUME WriterInv, written, stage = "idle", out = <<>>, bits = <<>>, data_checksum = CrcStart, BeginRead, intact'
  PROVE  ReaderInv'
<1>1. UNCHANGED member /\ UNCHANGED input /\ out' = out /\ bits' = bits /\ data_checksum' = data_checksum
      /\ stage' = "header" /\ todo' = Fields
  BY DEF BeginRead, Undisturbed, Disturbed, outVars, Fields
<1>2. \E n \in 1..Len(member) : \E most, time : Connect(n, most, time)
  <2>0. member \in Seq(Byte) /\ Len(member) >= 10
    BY HeaderIs DEF WriterInv, WriterTypes, HeaderWritten, Spells
  <2>1. Len(member) \in 1..Len(member) /\ \A n \in 1..Len(member)-1 : n \in 1..Len(member)
    BY <2>0
  <2> QED
    BY <2>1, Zenon DEF BeginRead, Undisturbed, Disturbed
<1>3. sent' = 0 /\ held' \in 1..Len(member) /\ readSourceErrors' = 0
  BY <1>2 DEF Connect
<1>4. member \in Seq(Byte) /\ Expected \in Seq(Byte) /\ Finished
  BY StreamIs DEF WriterInv, WriterTypes
<1>5. PICK T : WholeRoad(T)
  BY <1>4, Zenon DEF Finished, WholeRoad
<1>6. Same
  BY <1>1 DEF Same
<1>7. WholeRoad(T)' /\ Expected' = Expected /\ Flat(member') = Flat(member)
  BY <1>5, <1>6, RoadStays
<1>8. bits' = <<>> /\ bits' \in Seq(Bit) /\ Len(bits') = 0 /\ Position' = 0
  <2>1. bits' = <<>>
    BY <1>1
  <2>2. bits' \in Seq(Bit) /\ Len(bits') = 0
    BY <2>1
  <2>3. Position' = 8 * sent' - Len(bits')
    BY DEF Position
  <2>4. Position' = 0
    BY <1>3, <2>2, <2>3
  <2> QED
    BY <2>1, <2>2, <2>4
<1>9. Held'
  <2>1. Flat(member) \in Seq(Bit) /\ Len(member) \in Nat
    BY <1>4, FlatIs
  <2>2. Spells(Flat(member), 0, <<>>)
    BY <2>1 DEF Spells
  <2>3. sent' \in Nat /\ held' \in Nat /\ held' <= Len(member') /\ sent' <= Len(member') /\ Len(bits') <= 8 * sent'
    BY <1>1, <1>3, <1>8, <2>1
  <2> QED
    BY <1>7, <1>8, <2>2, <2>3 DEF Held
<1>10. OutIsData'
  <2>1. out' = <<>> /\ out' \in Seq(Byte) /\ Len(out') = 0 /\ Len(Expected) \in Nat
    BY <1>1, <1>4
  <2>2. Crc(Expected)[0] = CrcStart
    BY <1>4, CrcIs
  <2> QED
    BY <1>1, <1>7, <2>1, <2>2 DEF OutIsData
<1>11. Tight'
  <2>1. BitsOfLaw'
    BY BitsOfIs, PTL
  <2>2. ~InSymbol' /\ BitsOf' = 8
    BY <1>1, <2>1 DEF InSymbol, BitsOfLaw, Fields
  <2>3. Len(bits') < 8 /\ BitsOf' \in Nat
    BY <1>8, <2>2
  <2>4. (bits \in Seq(Bit) /\ Len(bits) < 8 /\ ~InSymbol /\ BitsOf \in Nat => Tight)'
    BY FewAreTight, PTL
  <2> QED
    BY <1>8, <2>2, <2>3, <2>4
<1>12. PlaceIn(T)'
  BY <1>1, <1>8 DEF PlaceIn, InHeader, Fields
<1> QED
  BY <1>3, <1>7, <1>9, <1>10, <1>11, <1>12, Zenon DEF ReaderInv, ReaderAt

-----------------------------------------------------------------------------
(***************************************************************************)
(* A byte is taken.                                                        *)
(***************************************************************************)
\* Nothing of what the reader is about to read changes.
SameStage ==
  /\ stage' = stage /\ todo' = todo /\ count' = count /\ bfinal' = bfinal /\ trees' = trees
  /\ lengths' = lengths /\ sym' = sym /\ curlen' = curlen /\ offs' = offs /\ out' = out /\ data_checksum' = data_checksum
  /\ res' = res

\* A byte that is fetched, or waited for, and not given up.
LEMMA FetchIs ==
  ASSUME Fetch, ~gaveUp'
  PROVE  /\ Same /\ SameStage /\ held' = held /\ readSourceErrors' = readSourceErrors /\ intact' = intact
         /\ stage # "idle" /\ stage # "done"
         /\ \/ sent < held /\ sent' = sent + 1 /\ bits' = bits \o Bits(member[sent + 1], 8)
            \/ sent' = sent /\ bits' = bits
<1>1. Same /\ SameStage /\ intact' = intact
  BY DEF Fetch, Same, SameStage, writerVars, blockVars, outVars, match
<1>2. stage # "idle" /\ stage # "done"
  BY DEF Fetch, Running
<1>3. CASE Give /\ bits' = bits \o Bits(member[sent + 1], 8)
  BY <1>1, <1>2, <1>3 DEF Give, Available
<1>4. CASE StartWaiting /\ UNCHANGED bits
  BY <1>1, <1>2, <1>4 DEF StartWaiting
<1>5. CASE StopWaiting /\ UNCHANGED bits
  BY <1>1, <1>2, <1>5 DEF StopWaiting
<1>6. CASE Delay /\ UNCHANGED bits
  BY <1>1, <1>2, <1>6 DEF Delay
<1>7. CASE GiveUp
  BY <1>7 DEF GiveUp
<1> QED
  BY <1>3, <1>4, <1>5, <1>6, <1>7, Zenon DEF Fetch

\* What the next step takes depends on the stage.
LEMMA SameBits ==
  ASSUME SameStage
  PROVE  BitsOf' = BitsOf /\ InSymbol' = InSymbol /\ TreeOf' = TreeOf
<1>1. stage' = stage /\ todo' = todo /\ count' = count /\ sym' = sym /\ trees' = trees
  BY DEF SameStage
<1>2. InSymbol' = InSymbol
  BY <1>1 DEF InSymbol
<1>3. TreeOf' = TreeOf
  BY <1>1 DEF TreeOf
<1>4. BitsOf' = BitsOf
  BY <1>1, Zenon DEF BitsOf
<1> QED
  BY <1>2, <1>3, <1>4

\* The reader is where it was.
LEMMA SamePlace ==
  ASSUME NEW T, Same, SameStage, Position' = Position, PlaceIn(T), stage # "done"
  PROVE  PlaceIn(T)'
<1>1. member' = member /\ Expected' = Expected
  BY DEF Same, Expected
<1>2. stage' = stage /\ todo' = todo /\ count' = count /\ sym' = sym /\ trees' = trees /\ bfinal' = bfinal
      /\ curlen' = curlen /\ offs' = offs /\ out' = out /\ res' = res
  BY DEF SameStage
<1>3. InHeader' = InHeader
  BY <1>2 DEF InHeader
<1>4. \A p, q : NextSymbol(T, p, q)' = NextSymbol(T, p, q)
  BY <1>2 DEF NextSymbol
<1>5. ASSUME NEW l, NEW d PROVE LengthNext(T, l, d)' = LengthNext(T, l, d)
  BY <1>1, <1>2, <1>4 DEF LengthNext
<1>6. ASSUME NEW d PROVE DistanceNext(T, d)' = DistanceNext(T, d) /\ OffsetNext(T, d)' = OffsetNext(T, d)
  BY <1>1, <1>2, <1>4 DEF DistanceNext, OffsetNext
<1>7. ASSUME stage = "length", \E l \in 3..258, d \in Nat : LengthNext(T, l, d)
      PROVE  (\E l \in 3..258, d \in Nat : LengthNext(T, l, d))'
  BY <1>5, <1>7
<1>8. ASSUME stage = "distance", \E d \in Nat : DistanceNext(T, d)
      PROVE  (\E d \in Nat : DistanceNext(T, d))'
  BY <1>6, <1>8
<1>9. ASSUME stage = "offset", \E d \in Nat : OffsetNext(T, d)
      PROVE  (\E d \in Nat : OffsetNext(T, d))'
  BY <1>6, <1>9
<1>10. ASSUME stage = "symbol", NextSymbol(T, Position, Len(out))
       PROVE  NextSymbol(T, Position, Len(out))'
  BY <1>2, <1>4, <1>10 DEF NextSymbol
<1>11. ASSUME stage = "copy", NextSymbol(T, Position, Len(out) + curlen)
       PROVE  NextSymbol(T, Position, Len(out) + curlen)'
  BY <1>2, <1>4, <1>11 DEF NextSymbol
<1>a. CASE stage = "header"
  <2>1. out = <<>> /\ InHeader
    BY <1>a DEF PlaceIn
  <2>2. stage' = "header" /\ out' = <<>> /\ InHeader'
    BY <2>1, <1>2, <1>3, <1>a
  <2> QED
    BY <2>2, Zenon DEF PlaceIn
<1>b. CASE stage = "block"
  <2>1. AtBlock(Position, Len(out)) \in T \/ AtEmpty(Position, Len(out)) \in T
    BY <1>b DEF PlaceIn
  <2>2. stage' = "block" /\ (AtBlock(Position', Len(out')) \in T \/ AtEmpty(Position', Len(out')) \in T)
    BY <2>1, <1>2, <1>b
  <2> QED
    BY <2>2, Zenon DEF PlaceIn
<1>c. CASE stage = "crc"
  <2>1. AtTrailer(Position, Len(out)) \in T
    BY <1>c DEF PlaceIn
  <2>2. stage' = "crc" /\ AtTrailer(Position', Len(out')) \in T
    BY <2>1, <1>2, <1>c
  <2> QED
    BY <2>2, Zenon DEF PlaceIn
<1>12. CASE stage = "stored length"
  <2>1. bfinal = 0 /\ Spells(Flat(member), Position, Flat(EmptyBlockLength)) /\ AtBlock(Position + 32, Len(out)) \in T
    BY <1>12 DEF PlaceIn
  <2>2. /\ stage' = "stored length" /\ bfinal' = 0 /\ Spells(Flat(member'), Position', Flat(EmptyBlockLength))
        /\ AtBlock(Position' + 32, Len(out')) \in T
    BY <2>1, <1>1, <1>2, <1>12
  <2> QED
    BY <2>2, Zenon DEF PlaceIn
<1>13. CASE stage = "isize"
  <2>1. /\ Len(out) = Len(Expected) /\ Position + 32 = 8 * Len(member)
        /\ Spells(Flat(member), Position, Bits(Len(out), 32))
    BY <1>13 DEF PlaceIn
  <2>2. /\ stage' = "isize" /\ Len(out') = Len(Expected') /\ Position' + 32 = 8 * Len(member')
        /\ Spells(Flat(member'), Position', Bits(Len(out'), 32))
    BY <2>1, <1>1, <1>2, <1>13
  <2> QED
    BY <2>2, Zenon DEF PlaceIn
<1>14. CASE stage = "symbol"
  BY <1>2, <1>10, <1>14 DEF PlaceIn
<1>15. CASE stage = "length"
  BY <1>2, <1>7, <1>15, Zenon DEF PlaceIn
<1>16. CASE stage = "distance"
  BY <1>2, <1>8, <1>16, Zenon DEF PlaceIn
<1>17. CASE stage = "offset"
  BY <1>2, <1>9, <1>17, Zenon DEF PlaceIn
<1>18. CASE stage = "copy"
  BY <1>1, <1>2, <1>11, <1>18, SMT DEF PlaceIn
<1> QED
  BY <1>a, <1>b, <1>c, <1>12, <1>13, <1>14, <1>15, <1>16, <1>17, <1>18, Zenon DEF PlaceIn

\* Fetching a byte leaves the reader where it is.
LEMMA FetchKeeps ==
  ASSUME NEW T, member \in Seq(Byte), ReaderAt(T), Fetch, ~gaveUp'
  PROVE  ReaderAt(T)'
<1> DEFINE n == Len(bits)
           byte == Bits(member[sent + 1], 8)
<1>1. Same /\ SameStage /\ held' = held /\ readSourceErrors' = readSourceErrors /\ stage # "done"
  BY FetchIs
<1>2. Held /\ readSourceErrors = 0 /\ OutIsData /\ Tight /\ PlaceIn(T)
  BY DEF ReaderAt
<1>3. Position \in Nat /\ n \in Nat /\ 8 * sent = Position + n
  BY <1>2, PositionIs
<1>4. member' = member /\ out' = out /\ Expected' = Expected /\ data_checksum' = data_checksum /\ stage' = stage
  BY <1>1 DEF Same, SameStage, Expected
<1>5. OutIsData'
  BY <1>2, <1>4 DEF OutIsData
<1>6. BitsOf' = BitsOf /\ InSymbol' = InSymbol /\ TreeOf' = TreeOf
  BY <1>1, SameBits
<1>7. Held' /\ Position' = Position /\ Tight'
  <2>1. CASE sent' = sent /\ bits' = bits
    <3>1. Held' /\ Position' = Position
      BY <1>1, <1>2, <1>4, <2>1 DEF Held, Position
    <3>2. Tight'
      BY <1>2, <1>4, <1>6, <2>1, <3>1 DEF Tight
    <3> QED
      BY <3>1, <3>2
  <2>2. CASE sent < held /\ sent' = sent + 1 /\ bits' = bits \o byte
    <3>1. /\ sent \in 0..Len(member)-1 /\ bits \in Seq(Bit) /\ n <= 8 * sent
          /\ Spells(Flat(member), 8 * sent - n, bits) /\ held \in Nat /\ held <= Len(member) /\ Len(member) \in Nat
      BY <1>2, <2>2, PositionIs DEF Held, Position
    <3>2. bits' \in Seq(Bit) /\ Len(bits') = n + 8 /\ Spells(Flat(member), 8 * sent - n, bits')
      BY <2>2, <3>1, ByteIsTaken
    <3>3. Position' = Position
      <4>1. Position' = 8 * sent' - Len(bits') /\ Position = 8 * sent - n
        BY DEF Position
      <4>2. Len(bits') = n + 8 /\ sent' = sent + 1 /\ sent \in Nat /\ n \in Nat
        BY <1>3, <2>2, <3>1, <3>2
      <4> QED
        BY <4>1, <4>2
    <3>4. Held'
      BY <1>1, <1>3, <1>4, <2>2, <3>1, <3>2, <3>3 DEF Held, Position
    <3>5. ASSUME InSymbol, NEW w \in Seq(Bit), NEW x \in Nat, Means(w, TreeOf, x), Spells(Flat(member), Position, w)
          PROVE  Len(bits') < 8 + Len(w)
      <4>0. ~(readSourceErrors > 0) /\ Starved
        BY <1>2 DEF Fetch
      <4>1. CodeLength(bits, TreeOf) > n
        BY <3>5, <4>0, Zenon DEF Starved
      <4>2. n < Len(w)
        BY <1>2, <3>5, <4>1, SymbolIsLonger
      <4>3. Len(w) \in Nat
        OBVIOUS
      <4> QED
        BY <1>3, <3>2, <4>2, <4>3
    <3>6. ASSUME ~InSymbol PROVE BitsOf \in Nat /\ Len(bits') < 8 + BitsOf
      <4>1. n < BitsOf
        BY <3>6, Zenon DEF Fetch, Starved
      <4>2. BitsOf \in Nat
        BY <1>1, <1>2, <3>6, Zenon DEF Tight
      <4> QED
        BY <1>3, <3>2, <4>1, <4>2
    <3>7. Tight'
      BY <1>4, <1>6, <3>3, <3>5, <3>6, Zenon DEF Tight
    <3> QED
      BY <3>3, <3>4, <3>7
  <2> QED
    BY <2>1, <2>2, FetchIs
<1>8. PlaceIn(T)'
  BY <1>1, <1>2, <1>7, SamePlace
<1> QED
  BY <1>1, <1>2, <1>5, <1>7, <1>8 DEF ReaderAt

-----------------------------------------------------------------------------
(***************************************************************************)
(* A step that takes bits.                                                 *)
(***************************************************************************)
\* Less than a byte is left when a step is over.
Arrives(T) == Held /\ readSourceErrors = 0 /\ OutIsData /\ Len(bits) < 8 /\ PlaceIn(T)

\* At every place it is known how much is taken next.
LEMMA PlaceHasBits ==
  ASSUME NEW T, PlaceIn(T)
  PROVE  stage = "done" \/ InSymbol \/ (~InSymbol /\ BitsOf \in Nat)
<1>1. CASE stage = "header"
  <2>1. InHeader
    BY <1>1 DEF PlaceIn
  <2>2. todo = <<>> \/ Head(todo) \in {"id1", "id2", "method", "flags", "skip"}
    BY <2>1 DEF InHeader
  <2>3. BitsOf = IF todo = <<>> THEN 0 ELSE IF Head(todo) \in {"xlen", "hcrc"} THEN 16 ELSE 8
    BY <1>1, BitsOfIs, Zenon DEF BitsOfLaw
  <2>4. BitsOf \in Nat
    BY <2>2, <2>3, SMT
  <2>5. ~InSymbol
    BY <1>1 DEF InSymbol
  <2> QED
    BY <2>4, <2>5
<1>2. CASE stage = "block" \/ stage = "stored length" \/ stage = "copy" \/ stage = "crc" \/ stage = "isize"
  <2>1. BitsOf = 3 \/ BitsOf = 32 \/ BitsOf = 0
    BY <1>2, BitsOfIs, Zenon DEF BitsOfLaw
  <2>2. ~InSymbol
    BY <1>2 DEF InSymbol
  <2> QED
    BY <2>1, <2>2
<1>3. CASE stage = "symbol" \/ stage = "distance"
  BY <1>3 DEF InSymbol
<1>4. CASE stage = "length"
  <2>1. sym - 256 \in 1..29
    BY <1>4, Zenon DEF PlaceIn, LengthNext
  <2>2. BitsOf = length_bits[sym - 256]
    BY <1>4, BitsOfIs, Zenon DEF BitsOfLaw
  <2>3. length_bits[sym - 256] \in 0..5
    BY <2>1, LengthTables
  <2>4. ~InSymbol
    BY <1>4 DEF InSymbol
  <2> QED
    BY <2>2, <2>3, <2>4
<1>5. CASE stage = "offset"
  <2>1. sym + 1 \in 1..30
    BY <1>5, Zenon DEF PlaceIn, OffsetNext
  <2>2. BitsOf = dist_bits[sym + 1]
    BY <1>5, BitsOfIs, Zenon DEF BitsOfLaw
  <2>3. BitsOf \in 0..13
    BY <2>1, <2>2, DistanceTables, Zenon
  <2>4. ~InSymbol
    BY <1>5 DEF InSymbol
  <2> QED
    BY <2>3, <2>4
<1> QED
  BY <1>1, <1>2, <1>3, <1>4, <1>5, Zenon DEF PlaceIn

\* Where the reader arrives it is.
LEMMA Arrived ==
  ASSUME NEW T
  PROVE  Arrives(T) => ReaderAt(T)
<1>1. SUFFICES ASSUME Arrives(T) PROVE ReaderAt(T)
  OBVIOUS
<1>2. Held /\ readSourceErrors = 0 /\ OutIsData /\ Len(bits) < 8 /\ PlaceIn(T)
  BY <1>1 DEF Arrives
<1>3. bits \in Seq(Bit)
  BY <1>2 DEF Held
<1>4. Tight
  BY <1>2, <1>3, PlaceHasBits, FewAreTight
<1> QED
  BY <1>2, <1>4 DEF ReaderAt

\* And so it is after a step.
LEMMA ArrivedThere ==
  ASSUME NEW T
  PROVE  Arrives(T)' => ReaderAt(T)'
<1>1. Arrives(T) => ReaderAt(T)
  BY Arrived
<1> QED
  BY <1>1, PTL

\* What a step that is not Fetch leaves alone.
SameSource ==
  Same /\ sent' = sent /\ held' = held /\ readSourceErrors' = readSourceErrors

\* When the reader is ready it holds what its next step takes.
LEMMA ReadyMeans ==
  ASSUME NEW T, member \in Seq(Byte), ReaderAt(T), Ready
  PROVE  /\ Held /\ readSourceErrors = 0 /\ OutIsData /\ PlaceIn(T) /\ stage # "done" /\ stage # "idle"
         /\ InSymbol => ~Starved
         /\ ~InSymbol => BitsOf \in Nat /\ BitsOf <= Len(bits) /\ Len(bits) < 8 + BitsOf
<1>1. Held /\ readSourceErrors = 0 /\ OutIsData /\ Tight /\ PlaceIn(T)
  BY DEF ReaderAt
<1>2. stage # "done" /\ stage # "idle" /\ ~Starved
  BY DEF Ready, Running
<1>3. ASSUME ~InSymbol PROVE BitsOf \in Nat /\ ~(Len(bits) < BitsOf) /\ Len(bits) < 8 + BitsOf
  <2>1. ~(Len(bits) < BitsOf)
    BY <1>2, <1>3, Zenon DEF Starved
  <2> QED
    BY <1>1, <1>2, <1>3, <2>1, Zenon DEF Tight
<1>4. Len(bits) \in Nat
  BY <1>1 DEF Held
<1> QED
  BY <1>1, <1>2, <1>3, <1>4

\* A step that takes the bits of a word reads that word.
LEMMA StepTakes ==
  ASSUME NEW T, member \in Seq(Byte), ReaderAt(T), Ready, ~InSymbol, SameSource,
         NEW w \in Seq(Bit), Spells(Flat(member), Position, w), Len(w) = BitsOf, Consume
  PROVE  /\ Taken = Value(w) /\ Held' /\ Position' = Position + BitsOf /\ Len(bits') < 8
         /\ readSourceErrors' = 0
<1>1. Held /\ readSourceErrors = 0 /\ BitsOf \in Nat /\ BitsOf <= Len(bits) /\ Len(bits) < 8 + BitsOf
  BY ReadyMeans
<1>2. sent' = sent /\ held' = held /\ member' = member /\ readSourceErrors' = readSourceErrors
  BY DEF SameSource, Same
<1>3. bits' = Drop(bits, Len(w))
  BY DEF Consume
<1>4. Len(w) <= Len(bits)
  BY <1>1
<1>5. /\ ReadBits(bits, Len(w)) = Value(w) /\ Held' /\ Position' = Position + Len(w)
      /\ Len(bits') = Len(bits) - Len(w)
  BY <1>1, <1>2, <1>3, <1>4, WordIsTaken
<1>6. Len(bits) \in Nat
  BY <1>1 DEF Held
<1>7. Len(bits') < 8
  BY <1>1, <1>5, <1>6
<1> QED
  BY <1>1, <1>2, <1>5, <1>7 DEF Taken

\* A step that takes a symbol reads the one whose code is next.
LEMMA SymbolTakes ==
  ASSUME NEW T, member \in Seq(Byte), ReaderAt(T), Ready, InSymbol, SameSource,
         NEW w \in Seq(Bit), Spells(Flat(member), Position, w), NEW x \in Nat, Means(w, TreeOf, x)
  PROVE  /\ Symbol = x /\ readSourceErrors' = 0 /\ Len(bits) < 8 + Len(w) /\ Len(w) <= Len(bits)
         /\ bits' = SymbolRead => Held' /\ Position' = Position + Len(w) /\ Len(bits') < 8
<1>1. Held /\ readSourceErrors = 0 /\ ~Starved /\ stage # "done"
  BY ReadyMeans
<1>2. sent' = sent /\ held' = held /\ member' = member /\ readSourceErrors' = readSourceErrors
  BY DEF SameSource, Same
<1>3. Len(w) <= Len(bits) /\ Symbol = x /\ SymbolRead = Drop(bits, Len(w))
  BY <1>1, SymbolIsTaken
<1>4. Tight
  BY DEF ReaderAt
<1>5. Len(bits) < 8 + Len(w)
  BY <1>1, <1>4, Zenon DEF Tight
<1>6. Len(bits) \in Nat /\ Len(w) \in Nat
  BY <1>1 DEF Held
<1>7. ASSUME bits' = SymbolRead PROVE Held' /\ Position' = Position + Len(w) /\ Len(bits') < 8
  <2>1. bits' = Drop(bits, Len(w))
    BY <1>3, <1>7
  <2>2. Held' /\ Position' = Position + Len(w) /\ Len(bits') = Len(bits) - Len(w)
    BY <1>1, <1>2, <1>3, <2>1, WordIsTaken
  <2>3. Len(bits') < 8
    BY <1>5, <1>6, <2>2
  <2> QED
    BY <2>2, <2>3
<1> QED
  BY <1>1, <1>2, <1>3, <1>5, <1>7

\* The rest of the byte is dropped.
LEMMA RestIsDropped ==
  ASSUME Held, member \in Seq(Byte), SameSource, NEW n \in Nat, n <= Len(bits), Len(bits) < 8 + n,
         NEW a \in Nat, UpToByte(Position + n, a), bits' = <<>>
  PROVE  Held' /\ Position' = a /\ 8 * sent = a /\ Len(bits') < 8
<1>1. /\ Position \in Nat /\ Len(bits) \in Nat /\ 8 * sent = Position + Len(bits) /\ sent \in Nat
      /\ Flat(member) \in Seq(Bit)
  BY PositionIs DEF Held
<1>2. PICK k \in Nat : a = 8 * k
  BY DEF UpToByte
<1>3. Position + n <= a /\ a < Position + n + 8
  BY DEF UpToByte
<1>4. 8 * sent = a
  BY <1>1, <1>2, <1>3
<1>5. bits' \in Seq(Bit) /\ Len(bits') = 0
  OBVIOUS
<1>6. Position' = 8 * sent' - Len(bits')
  BY DEF Position
<1>7. sent' = sent /\ held' = held /\ member' = member
  BY DEF SameSource, Same
<1>8. Position' = a
  BY <1>1, <1>4, <1>5, <1>6, <1>7
<1>9. sent \in Nat /\ held \in Nat /\ held <= Len(member) /\ sent <= Len(member)
  BY DEF Held
<1>10. Len(Flat(member)) = 8 * Len(member) /\ Len(member) \in Nat
  BY PositionIs
<1>11. Spells(Flat(member), a, bits')
  BY <1>1, <1>4, <1>5, <1>9, <1>10 DEF Spells
<1>12. Held'
  BY <1>5, <1>7, <1>8, <1>9, <1>11 DEF Held
<1> QED
  BY <1>4, <1>5, <1>8, <1>12

-----------------------------------------------------------------------------
(***************************************************************************)
(* The header is read.                                                     *)
(***************************************************************************)
LEMMA SameOut ==
  ASSUME OutIsData, Same, out' = out, data_checksum' = data_checksum
  PROVE  OutIsData'
<1>1. Expected' = Expected
  BY DEF Same, Expected
<1> QED
  BY <1>1 DEF OutIsData

\* A byte of the header, in the stream.
LEMMA HeaderByte ==
  ASSUME member \in Seq(Byte), HeaderWritten, NEW k \in 1..10
  PROVE  /\ Bits(lzHeader[k], 8) \in Seq(Bit) /\ Len(Bits(lzHeader[k], 8)) = 8
         /\ Value(Bits(lzHeader[k], 8)) = lzHeader[k]
         /\ Spells(Flat(member), 8 * (k - 1), Bits(lzHeader[k], 8))
<1>1. lzHeader \in Seq(Byte) /\ Len(lzHeader) = 10
  BY HeaderIs
<1>2. lzHeader[k] \in Byte
  BY <1>1, ElementOf
<1>3. 10 <= Len(member) /\ member[k] = lzHeader[k] /\ Len(member) \in Nat
  BY <1>1 DEF HeaderWritten, Spells
<1> DEFINE w == Bits(lzHeader[k], 8)
<1>4. w \in Seq(Bit) /\ Len(w) = 8 /\ Value(w) = lzHeader[k]
  BY <1>2, BitsOfByte
<1>5. k - 1 \in 0..Len(member)-1 /\ (k - 1) + 1 = k
  BY <1>3
<1>6. \A j \in 1..8 : Flat(member)[8 * (k - 1) + j] = w[j]
  <2> DEFINE i == k - 1
  <2>1. \A j \in 1..8 : Flat(member)[8 * i + j] = Bits(member[i + 1], 8)[j]
    <3>1. i \in 0..Len(member)-1
      BY <1>5
    <3> HIDE DEF i
    <3> QED
      BY <3>1, FlatIs
  <2>2. Bits(member[i + 1], 8) = w
    BY <1>3, <1>5
  <2> QED
    BY <2>1, <2>2
<1>7. Len(Flat(member)) = 8 * Len(member)
  BY FlatIs
<1> HIDE DEF w
<1>8. 8 * (k - 1) + Len(w) <= Len(Flat(member))
  <2>1. Len(w) = 8 /\ Len(Flat(member)) = 8 * Len(member) /\ Len(member) >= 10 /\ Len(member) \in Nat /\ k <= 10 /\ k \in Nat
    BY <1>3, <1>4, <1>7
  <2> QED
    BY <2>1
<1>9. Spells(Flat(member), 8 * (k - 1), w)
  BY <1>4, <1>6, <1>8 DEF Spells
<1> QED
  BY <1>4, <1>9 DEF w

\* A step in the header takes the next byte of lzHeader.
LEMMA HeaderStep ==
  ASSUME NEW T, member \in Seq(Byte), HeaderWritten, ReaderAt(T), Ready, stage = "header", todo # <<>>,
         Head(todo) \notin {"xlen", "hcrc"}, Consume, KeepInHeader,
         NEW k \in 1..10, Position = 8 * (k - 1)
  PROVE  /\ Taken = lzHeader[k] /\ Position' = 8 * k /\ out' = out
         /\ Held' /\ readSourceErrors' = 0 /\ OutIsData' /\ Len(bits') < 8
<1>1. SameSource /\ Same /\ out' = out /\ data_checksum' = data_checksum
  BY DEF KeepInHeader, SameSource, Same, writerVars, sourceVars, outVars
<1>2. BitsOf = 8
  BY BitsOfIs DEF BitsOfLaw
<1>3. ~InSymbol
  BY DEF InSymbol
<1> DEFINE w == Bits(lzHeader[k], 8)
<1>4. w \in Seq(Bit) /\ Len(w) = BitsOf /\ Value(w) = lzHeader[k] /\ Spells(Flat(member), Position, w)
  BY <1>2, HeaderByte
<1> HIDE DEF w
<1>5. Taken = Value(w) /\ Held' /\ Position' = Position + BitsOf /\ Len(bits') < 8 /\ readSourceErrors' = 0
  BY <1>1, <1>3, <1>4, StepTakes
<1>6. Position' = 8 * k
  BY <1>2, <1>5
<1>7. OutIsData'
  BY <1>1, ReadyMeans, SameOut
<1> QED
  BY <1>1, <1>4, <1>5, <1>6, <1>7

\* What the reader reads in the header, and where.
LEMMA HeaderAt ==
  ASSUME NEW T, ReaderAt(T), stage = "header"
  PROVE  InHeader /\ out = <<>>
BY DEF ReaderAt, PlaceIn

\* The magic bytes and the method are accepted.
LEMMA FieldIsChecked ==
  ASSUME NEW T, member \in Seq(Byte), HeaderWritten, ReaderAt(T), CheckField
  PROVE  Arrives(T)'
<1>1. /\ Ready /\ stage = "header" /\ todo # <<>> /\ Head(todo) \in {"id1", "id2", "method"}
      /\ Consume /\ KeepInHeader
  BY DEF CheckField, Field
<1>2. InHeader /\ out = <<>>
  BY <1>1, HeaderAt
<1>3. Head(todo) \notin {"xlen", "hcrc"}
  BY <1>1
<1>4. /\ lzHeader[1] = 31 /\ lzHeader[2] = 139 /\ lzHeader[3] = 8
      /\ Expects["id1"] = 31 /\ Expects["id2"] = 139 /\ Expects["method"] = 8
  BY DEF lzHeader, Expects
<1>5. CASE todo = <<"id1", "id2", "method", "flags">> /\ Position = 0
  <2>1. Position = 8 * (1 - 1) /\ 1 \in 1..10
    BY <1>5
  <2>2. /\ Taken = lzHeader[1] /\ Position' = 8 * 1 /\ out' = out
        /\ Held' /\ readSourceErrors' = 0 /\ OutIsData' /\ Len(bits') < 8
    BY <1>1, <1>3, <2>1, HeaderStep
  <2>3. Head(todo) = "id1" /\ Tail(todo) = <<"id2", "method", "flags">>
    BY <1>5
  <2>4. todo' = <<"id2", "method", "flags">> /\ stage' = "header"
    BY <1>1, <1>4, <2>2, <2>3 DEF CheckField
  <2>5. PlaceIn(T)'
    BY <1>2, <2>2, <2>4 DEF PlaceIn, InHeader
  <2> QED
    BY <2>2, <2>5 DEF Arrives
<1>6. CASE todo = <<"id2", "method", "flags">> /\ Position = 8
  <2>1. Position = 8 * (2 - 1) /\ 2 \in 1..10
    BY <1>6
  <2>2. /\ Taken = lzHeader[2] /\ Position' = 8 * 2 /\ out' = out
        /\ Held' /\ readSourceErrors' = 0 /\ OutIsData' /\ Len(bits') < 8
    BY <1>1, <1>3, <2>1, HeaderStep
  <2>3. Head(todo) = "id2" /\ Tail(todo) = <<"method", "flags">>
    BY <1>6
  <2>4. todo' = <<"method", "flags">> /\ stage' = "header"
    BY <1>1, <1>4, <2>2, <2>3 DEF CheckField
  <2>5. PlaceIn(T)'
    BY <1>2, <2>2, <2>4 DEF PlaceIn, InHeader
  <2> QED
    BY <2>2, <2>5 DEF Arrives
<1>7. CASE todo = <<"method", "flags">> /\ Position = 16
  <2>1. Position = 8 * (3 - 1) /\ 3 \in 1..10
    BY <1>7
  <2>2. /\ Taken = lzHeader[3] /\ Position' = 8 * 3 /\ out' = out
        /\ Held' /\ readSourceErrors' = 0 /\ OutIsData' /\ Len(bits') < 8
    BY <1>1, <1>3, <2>1, HeaderStep
  <2>3. Head(todo) = "method" /\ Tail(todo) = <<"flags">>
    BY <1>7
  <2>4. todo' = <<"flags">> /\ stage' = "header"
    BY <1>1, <1>4, <2>2, <2>3 DEF CheckField
  <2>5. PlaceIn(T)'
    BY <1>2, <2>2, <2>4 DEF PlaceIn, InHeader
  <2> QED
    BY <2>2, <2>5 DEF Arrives
<1>8. todo # <<>> /\ Head(todo) # "flags" /\ Head(todo) # "skip"
  BY <1>1
<1> QED
  BY <1>2, <1>5, <1>6, <1>7, <1>8 DEF InHeader

\* No optional field is announced.
LEMMA FlagsAreRead ==
  ASSUME NEW T, member \in Seq(Byte), HeaderWritten, ReaderAt(T), ReadFlags
  PROVE  Arrives(T)'
<1>1. /\ Ready /\ stage = "header" /\ todo # <<>> /\ Head(todo) = "flags" /\ Consume /\ KeepInHeader
  BY DEF ReadFlags, Field
<1>2. InHeader /\ out = <<>>
  BY <1>1, HeaderAt
<1>3. Head(todo) \notin {"xlen", "hcrc"}
  BY <1>1
<1>4. Position = 24
  BY <1>1, <1>2 DEF InHeader
<1>5. Position = 8 * (4 - 1) /\ 4 \in 1..10
  BY <1>4
<1>6. /\ Taken = lzHeader[4] /\ Position' = 8 * 4 /\ out' = out
      /\ Held' /\ readSourceErrors' = 0 /\ OutIsData' /\ Len(bits') < 8
  BY <1>1, <1>3, <1>5, HeaderStep
<1>7. lzHeader[4] = 0
  BY DEF lzHeader
<1>8. OptionalFields(0) = <<>>
  <2>1. ~FlagSet(0, 4) /\ ~FlagSet(0, 8) /\ ~FlagSet(0, 16) /\ ~FlagSet(0, 2)
    BY SMT DEF FlagSet
  <2>2. <<>> \o <<>> = <<>>
    OBVIOUS
  <2> QED
    BY <2>1, <2>2 DEF OptionalFields
<1>9. todo' = <<"skip">> /\ count' = 6 /\ stage' = "header"
  <2>1. Taken < 32
    BY <1>6, <1>7
  <2>2. todo' = <<"skip">> \o OptionalFields(0) /\ count' = 6 /\ stage' = "header"
    BY <1>1, <1>6, <1>7, <2>1 DEF ReadFlags, BaseHeader
  <2>3. <<"skip">> \o <<>> = <<"skip">>
    OBVIOUS
  <2> QED
    BY <1>8, <2>2, <2>3
<1>10. PlaceIn(T)'
  BY <1>2, <1>6, <1>9 DEF PlaceIn, InHeader
<1> QED
  BY <1>6, <1>10 DEF Arrives

\* Six more bytes are skipped.
LEMMA BytesAreSkipped ==
  ASSUME NEW T, member \in Seq(Byte), HeaderWritten, ReaderAt(T), SkipBytes
  PROVE  Arrives(T)'
<1>1. /\ Ready /\ stage = "header" /\ todo # <<>> /\ Head(todo) \in {"skip", "extra"} /\ Consume /\ KeepInHeader
      /\ count' = count - 1 /\ todo' = IF count = 1 THEN Tail(todo) ELSE todo
      /\ stage' = stage
  BY DEF SkipBytes, Field
<1>2. InHeader /\ out = <<>>
  BY <1>1, HeaderAt
<1>3. Head(todo) \notin {"xlen", "hcrc"}
  BY <1>1
<1>4. todo = <<"skip">> /\ count \in 1..6 /\ Position = 80 - 8 * count
  BY <1>1, <1>2 DEF InHeader
<1>5. 11 - count \in 1..10 /\ Position = 8 * ((11 - count) - 1)
  BY <1>4
<1>6. /\ Position' = 8 * (11 - count) /\ out' = out
      /\ Held' /\ readSourceErrors' = 0 /\ OutIsData' /\ Len(bits') < 8
  BY <1>1, <1>3, <1>5, HeaderStep
<1>7. InHeader'
  <2>1. CASE count = 1
    <3>1. todo' = <<>> /\ Position' = 80
      BY <1>1, <1>4, <1>6, <2>1
    <3> QED
      BY <3>1 DEF InHeader
  <2>2. CASE count # 1
    <3>1. todo' = <<"skip">> /\ count' \in 1..6 /\ Position' = 80 - 8 * count'
      BY <1>1, <1>4, <1>6, <2>2
    <3> QED
      BY <3>1 DEF InHeader
  <2> QED
    BY <2>1, <2>2
<1>8. PlaceIn(T)'
  BY <1>1, <1>2, <1>6, <1>7 DEF PlaceIn
<1> QED
  BY <1>6, <1>8 DEF Arrives

\* After ten bytes the reader is at the first block.
LEMMA HeaderIsRead ==
  ASSUME NEW T, WholeRoad(T), member \in Seq(Byte), ReaderAt(T), HeaderDone
  PROVE  Arrives(T)'
<1>1. /\ Ready /\ stage = "header" /\ todo = <<>> /\ stage' = "block" /\ bits' = <<>> /\ readSourceErrors' = 0
      /\ Same /\ sent' = sent /\ held' = held /\ out' = out /\ data_checksum' = data_checksum
  BY DEF HeaderDone, Same, writerVars, outVars
<1>2. out = <<>> /\ Position = 80
  BY <1>1, HeaderAt DEF InHeader
<1>3. BitsOf = 0 /\ ~InSymbol
  BY <1>1, BitsOfIs DEF BitsOfLaw, InSymbol
<1>4. Held /\ Len(bits) < 8 + 0 /\ readSourceErrors = 0 /\ OutIsData
  BY <1>1, <1>3, ReadyMeans
<1>5. SameSource
  BY <1>1, <1>4 DEF SameSource
<1>6. UpToByte(Position + 0, 80)
  <2>1. 10 \in Nat /\ 80 = 8 * 10
    OBVIOUS
  <2> QED
    BY <1>2, <2>1, SMT DEF UpToByte
<1>7. 0 \in Nat /\ 80 \in Nat /\ 0 <= Len(bits)
  BY <1>4 DEF Held
<1>8. Held' /\ Position' = 80 /\ Len(bits') < 8
  BY <1>1, <1>4, <1>5, <1>6, <1>7, RestIsDropped
<1>9. OutIsData'
  BY <1>1, <1>4, SameOut
<1>10. PlaceIn(T)'
  <2>1. AtBlock(80, 0) \in T
    BY DEF WholeRoad, FirstBlock
  <2>2. Len(out') = 0
    BY <1>1, <1>2
  <2> QED
    BY <1>1, <1>8, <2>1, <2>2 DEF PlaceIn
<1> QED
  BY <1>1, <1>8, <1>9, <1>10 DEF Arrives

-----------------------------------------------------------------------------
(***************************************************************************)
(* The header of a block is read.                                          *)
(***************************************************************************)
Halved(h, b, v, n) ==
  h[0] = v /\ (\A k \in 1..n : h[k] = h[k - 1] \div 2) /\ \A i \in 1..n : b[i] = h[i - 1] % 2

\* The bits of a number are those of its halves.
LEMMA BitsAreHalved ==
  ASSUME NEW v \in Nat, NEW n \in Nat
  PROVE  Halved(Halves(v, n), Bits(v, n), v, n)
<1>1. Halves(v, n)[0] = v /\ \A k \in 1..n : Halves(v, n)[k] = Halves(v, n)[k - 1] \div 2
  BY HalvesAre
<1>2. \A i \in 1..n : Bits(v, n)[i] = Halves(v, n)[i - 1] % 2
  BY BitsAre
<1> QED
  BY <1>1, <1>2, Zenon DEF Halved

\* The first two of them.
LEMMA FirstBits ==
  ASSUME NEW v \in Nat, NEW n \in Nat
  PROVE  /\ n >= 1 => Bits(v, n)[1] = v % 2
         /\ n >= 2 => Bits(v, n)[2] = (v \div 2) % 2
<1> DEFINE h == Halves(v, n)
           b == Bits(v, n)
<1>1. Halved(h, b, v, n)
  BY BitsAreHalved
<1> HIDE DEF h, b
<1>3. h[0] = v /\ (\A k \in 1..n : h[k] = h[k - 1] \div 2) /\ \A i \in 1..n : b[i] = h[i - 1] % 2
  BY <1>1 DEF Halved
<1>4. n >= 1 => b[1] = v % 2
  BY <1>3
<1>5. n >= 2 => b[2] = (v \div 2) % 2
  BY <1>3
<1> QED
  BY <1>4, <1>5 DEF b

\* The header of a block says whether it is the last, and that it has fixed codes.
LEMMA StartIsRead ==
  ASSUME NEW f \in 0..1
  PROVE  Value(Bits(f, 1) \o Bits(1, 2)) = f + 2
<1> DEFINE u == Bits(f, 1)
           v == Bits(1, 2)
           w == u \o v
<1>1. u \in Seq(Bit) /\ Len(u) = 1 /\ v \in Seq(Bit) /\ Len(v) = 2 /\ w \in Seq(Bit) /\ Len(w) = 3
  BY StartIsBits
<1>2. u[1] = f
  <2>1. f \in Nat /\ 1 \in Nat /\ 1 >= 1
    OBVIOUS
  <2>2. u[1] = f % 2
    BY <2>1, FirstBits
  <2> QED
    BY <2>2
<1>3. v[1] = 1 /\ v[2] = 0
  <2>1. 1 \in Nat /\ 2 \in Nat /\ 2 >= 1 /\ 2 >= 2
    OBVIOUS
  <2>2. v[1] = 1 % 2 /\ v[2] = (1 \div 2) % 2
    BY <2>1, FirstBits
  <2> QED
    BY <2>2
<1> HIDE DEF u, v
<1>4. w[1] = f /\ w[2] = 1 /\ w[3] = 0
  <2>1. (\A i \in 1..Len(u) : w[i] = u[i]) /\ \A i \in 1..Len(v) : w[Len(u) + i] = v[i]
    BY <1>1, Cat
  <2> HIDE DEF w
  <2>2. 1 \in 1..Len(u) /\ 1 \in 1..Len(v) /\ 2 \in 1..Len(v) /\ Len(u) + 1 = 2 /\ Len(u) + 2 = 3
    BY <1>1
  <2> QED
    BY <1>2, <1>3, <2>1, <2>2
<1> HIDE DEF w
<1>5. /\ Highs(w)[0] = 0 /\ Value(w) = Highs(w)[Len(w)]
      /\ \A k \in 1..Len(w) : Highs(w)[k] = 2 * Highs(w)[k - 1] + w[Len(w) - k + 1]
  BY <1>1, HighsAre
<1>6. Highs(w)[1] = 0
  BY <1>1, <1>4, <1>5
<1>7. Highs(w)[2] = 1
  BY <1>1, <1>4, <1>5, <1>6
<1>8. Highs(w)[3] = 2 + f
  BY <1>1, <1>4, <1>5, <1>7
<1> QED
  BY <1>1, <1>5, <1>8 DEF u, v, w

\* Sixteen ones.
AllOnes == 65535
Doubles(h) == h[0] = 0 /\ \A k \in 1..16 : h[k] = 2 * h[k - 1] + 1

\* Sixteen times one more than twice as much makes 65535.
LEMMA OnesMake ==
  ASSUME NEW h, Doubles(h)
  PROVE  h[16] = AllOnes
<1>0. h[0] = 0 /\ \A k \in 1..16 : h[k] = 2 * h[k - 1] + 1
  BY DEF Doubles
<1>1. h[1] = 1 /\ h[2] = 3 /\ h[3] = 7 /\ h[4] = 15
  BY <1>0
<1>2. h[5] = 31 /\ h[6] = 63 /\ h[7] = 127 /\ h[8] = 255
  BY <1>0, <1>1
<1>3. h[9] = 511 /\ h[10] = 1023 /\ h[11] = 2047 /\ h[12] = 4095
  BY <1>0, <1>2, SMT
<1>4. h[13] = 8191 /\ h[14] = 16383 /\ h[15] = 32767
  BY <1>0, <1>3, SMT
<1> QED
  BY <1>0, <1>4, SMT DEF AllOnes

\* Sixteen ones say so.
LEMMA OnesAreRead ==
  ASSUME NEW b \in Seq(Bit), Len(b) = 16, \A i \in 1..16 : b[i] = 1
  PROVE  Value(b) = AllOnes
<1>1. /\ Highs(b)[0] = 0 /\ Value(b) = Highs(b)[16]
      /\ \A k \in 1..16 : Highs(b)[k] = 2 * Highs(b)[k - 1] + b[16 - k + 1]
  BY HighsAre
<1>2. \A k \in 1..16 : 16 - k + 1 \in 1..16
  OBVIOUS
<1>3. \A k \in 1..16 : Highs(b)[k] = 2 * Highs(b)[k - 1] + 1
  BY <1>1, <1>2
<1> DEFINE h == Highs(b)
<1>4. Doubles(h)
  BY <1>1, <1>3, Zenon DEF Doubles
<1> QED
  BY <1>1, <1>4, OnesMake, Zenon

\* Zeros say 0.
LEMMA ZerosAreRead ==
  ASSUME NEW b \in Seq(Bit), \A i \in 1..Len(b) : b[i] = 0
  PROVE  Value(b) = 0
<1> DEFINE n == Len(b)
<1>1. /\ Highs(b)[0] = 0 /\ Value(b) = Highs(b)[n] /\ n \in Nat
      /\ \A k \in 1..n : Highs(b)[k] = 2 * Highs(b)[k - 1] + b[n - k + 1]
  BY HighsAre
<1>2. \A k \in 1..n : n - k + 1 \in 1..n
  BY <1>1
<1>3. \A k \in 1..n : Highs(b)[k] = 2 * Highs(b)[k - 1] + 0
  BY <1>1, <1>2
<1> DEFINE S == {k \in Nat : k <= n => Highs(b)[k] = 0}
<1> HIDE DEF n
<1>4. 0 \in S
  BY <1>1
<1>5. ASSUME NEW k \in Nat, k \in S PROVE k + 1 \in S
  <2>1. SUFFICES ASSUME k + 1 <= n PROVE Highs(b)[k + 1] = 0
    OBVIOUS
  <2>2. k + 1 \in 1..n /\ (k + 1) - 1 = k /\ Highs(b)[k] = 0
    BY <1>1, <1>5, <2>1
  <2> QED
    BY <1>3, <2>2
<1>6. Nat \subseteq S
  <2> HIDE DEF S
  <2> QED
    BY <1>4, <1>5, Induction
<1> QED
  BY <1>1, <1>6

\* The bits of 255 are ones.
LEMMA OnesOfByte ==
  \A j \in 1..8 : Bits(255, 8)[j] = 1
<1>0. 255 \in Nat /\ 8 \in Nat
  OBVIOUS
<1> DEFINE b == Bits(255, 8)
<1>h. PICK h : Halved(h, b, 255, 8)
  BY <1>0, BitsAreHalved
<1> HIDE DEF b
<1>1. h[0] = 255 /\ \A k \in 1..8 : h[k] = h[k - 1] \div 2
  BY <1>h DEF Halved
<1>2. \A i \in 1..8 : b[i] = h[i - 1] % 2
  BY <1>h DEF Halved
<1>3. h[1] = 127 /\ h[2] = 63 /\ h[3] = 31 /\ h[4] = 15
  BY <1>1
<1>4. h[5] = 7 /\ h[6] = 3 /\ h[7] = 1
  BY <1>1, <1>3
<1> QED
  BY <1>1, <1>2, <1>3, <1>4 DEF b

\* The length of an empty stored block is sixteen zeros, and its inverse sixteen ones.
LEMMA EmptyLengthIsRead ==
  LET w == Flat(EmptyBlockLength)
  IN  (\A i \in 1..16 : w[i] = 0) /\ \A i \in 17..32 : w[i] = 1
<1> DEFINE m == EmptyBlockLength
           w == Flat(m)
<1>1. m \in Seq(Byte) /\ Len(m) = 4 /\ m[1] = 0 /\ m[2] = 0 /\ m[3] = 255 /\ m[4] = 255
  BY DEF EmptyBlockLength, Byte
<1>2. \A j \in 1..8 : Bits(0, 8)[j] = 0
  BY ZeroBits
<1>o. \A j \in 1..8 : Bits(255, 8)[j] = 1
  BY OnesOfByte
<1> HIDE DEF m
<1>3. \A k \in 0..3, j \in 1..8 : Flat(m)[8 * k + j] = Bits(m[k + 1], 8)[j]
  <2>1. \A k \in 0..Len(m)-1, j \in 1..8 : Flat(m)[8 * k + j] = Bits(m[k + 1], 8)[j]
    BY <1>1, FlatIs
  <2>2. 0..Len(m)-1 = 0..3
    BY <1>1
  <2> QED
    BY <2>1, <2>2, Zenon
<1>4. \A j \in 1..8 : w[j] = 0 /\ w[8 + j] = 0 /\ w[16 + j] = 1 /\ w[24 + j] = 1
  <2> TAKE j \in 1..8
  <2>1. w[8 * 0 + j] = Bits(m[0 + 1], 8)[j] /\ w[8 * 1 + j] = Bits(m[1 + 1], 8)[j]
        /\ w[8 * 2 + j] = Bits(m[2 + 1], 8)[j] /\ w[8 * 3 + j] = Bits(m[3 + 1], 8)[j]
    BY <1>3
  <2>2. w[j] = Bits(0, 8)[j] /\ w[8 + j] = Bits(0, 8)[j] /\ w[16 + j] = Bits(255, 8)[j] /\ w[24 + j] = Bits(255, 8)[j]
    BY <1>1, <2>1
  <2> QED
    BY <1>2, <1>o, <2>2
<1> HIDE DEF w
<1>5. \A i \in 1..16 : w[i] = 0
  <2> TAKE i \in 1..16
  <2>1. CASE i <= 8
    BY <1>4, <2>1
  <2>2. CASE i > 8
    <3>1. i - 8 \in 1..8 /\ 8 + (i - 8) = i
      BY <2>2
    <3> QED
      BY <1>4, <3>1
  <2> QED
    BY <2>1, <2>2
<1>6. \A i \in 17..32 : w[i] = 1
  <2> TAKE i \in 17..32
  <2>1. CASE i <= 24
    <3>1. i - 16 \in 1..8 /\ 16 + (i - 16) = i
      BY <2>1
    <3> QED
      BY <1>4, <3>1
  <2>2. CASE i > 24
    <3>1. i - 24 \in 1..8 /\ 24 + (i - 24) = i
      BY <2>2
    <3> QED
      BY <1>4, <3>1
  <2> QED
    BY <2>1, <2>2
<1> QED
  BY <1>5, <1>6 DEF w, m

\* The types of what the place of the reader is made of.
LEMMA ReaderIs ==
  ASSUME NEW T, member \in Seq(Byte), ReaderAt(T)
  PROVE  /\ Position \in Nat /\ Len(out) \in Nat /\ Len(bits) \in Nat /\ 8 * sent = Position + Len(bits)
         /\ Flat(member) \in Seq(Bit)
<1>1. Held /\ OutIsData
  BY DEF ReaderAt
<1>2. out \in Seq(Byte)
  BY <1>1 DEF OutIsData
<1> QED
  BY <1>1, <1>2, PositionIs

\* What BlockHeader does, by the kind of the block.
LEMMA BlockHeaderIs ==
  ASSUME BlockHeader
  PROVE  /\ Ready /\ stage = "block" /\ bfinal' = Taken % 2 /\ KeepInBlocks /\ UNCHANGED outVars
         /\ Taken \div 2 = 0 => stage' = "stored length" /\ DropTag
         /\ Taken \div 2 = 1 => stage' = "symbol" /\ trees' = NoTrees /\ Consume
<1>1. /\ Ready /\ stage = "block" /\ bfinal' = Taken % 2 /\ KeepInBlocks /\ UNCHANGED outVars
  BY DEF BlockHeader
<1>0. 0 # 1 /\ 0 # 2 /\ 0 # 3 /\ 1 # 2 /\ 1 # 3
  OBVIOUS
<1>2. ASSUME Taken \div 2 = 0 PROVE stage' = "stored length" /\ DropTag
  BY <1>0, <1>2, Zenon DEF BlockHeader
<1>3. ASSUME Taken \div 2 = 1 PROVE stage' = "symbol" /\ trees' = NoTrees /\ Consume
  BY <1>0, <1>3, Zenon DEF BlockHeader
<1> QED
  BY <1>1, <1>2, <1>3

\* The halves of a word that is at the front.
Splits(b, w, n) ==
  LET u == SubSeq(b, 1, n)
      v == SubSeq(Drop(b, n), 1, n)
  IN  /\ u \in Seq(Bit) /\ Len(u) = n /\ \A i \in 1..n : u[i] = w[i]
      /\ v \in Seq(Bit) /\ Len(v) = n /\ \A i \in 1..n : v[i] = w[n + i]

\* A word that is read in two halves.
LEMMA WordSplits ==
  ASSUME NEW b \in Seq(Bit), NEW w \in Seq(Bit), NEW n \in Nat, Len(w) = n + n, Len(w) <= Len(b),
         \A i \in 1..Len(w) : b[i] = w[i]
  PROVE  Splits(b, w, n)
<1> DEFINE u == SubSeq(b, 1, n)
           d == Drop(b, n)
           v == SubSeq(d, 1, n)
<1>1. u \in Seq(Bit) /\ Len(u) = n /\ \A i \in 1..n : u[i] = b[i]
  OBVIOUS
<1>2. d \in Seq(Bit) /\ Len(d) = Len(b) - n /\ \A i \in 1..n : d[i] = b[n + i]
  BY DEF Drop
<1> HIDE DEF d
<1>3. v \in Seq(Bit) /\ Len(v) = n /\ \A i \in 1..n : v[i] = d[i]
  BY <1>2
<1> HIDE DEF u, v
<1>4. \A i \in 1..n : i \in 1..Len(w) /\ n + i \in 1..Len(w)
  OBVIOUS
<1>5. \A i \in 1..n : u[i] = w[i] /\ v[i] = w[n + i]
  BY <1>1, <1>2, <1>3, <1>4
<1> QED
  BY <1>1, <1>3, <1>5, Zenon DEF Splits, u, v, d

\* What StoredLength does with a length of 0 that is followed by its inverse.
LEMMA StoredLengthIs ==
  ASSUME StoredLength
  PROVE  /\ Ready /\ stage = "stored length" /\ bfinal' = bfinal /\ KeepInBlocks /\ UNCHANGED outVars
         /\ ReadBits(bits, 16) = 0 /\ ReadBits(Drop(bits, 16), 16) = AllOnes /\ bfinal = 0
              => stage' = "block" /\ bits' = Drop(bits, 32)
<1>1. Ready /\ stage = "stored length" /\ KeepInBlocks /\ UNCHANGED <<blockVars, outVars>>
  BY Zenon DEF StoredLength
<1>2. bfinal' = bfinal /\ UNCHANGED outVars
  BY <1>1, Zenon DEF blockVars
<1>3. ASSUME ReadBits(bits, 16) = 0, ReadBits(Drop(bits, 16), 16) = AllOnes, bfinal = 0
      PROVE  stage' = "block" /\ bits' = Drop(bits, 32)
  <2>1. Inverted(AllOnes) = 0 /\ 0 # 1
    BY SMT DEF Inverted, AllOnes
  <2>2. EndOfBlock(Drop(bits, 32))
    BY <1>3, <2>1, Zenon DEF StoredLength
  <2> QED
    BY <1>3, <2>1, <2>2, Zenon DEF EndOfBlock
<1> QED
  BY <1>1, <1>2, <1>3

\* From a block the reader goes to its first symbol, or into an empty block.
LEMMA BlockIsBegun ==
  ASSUME NEW T, WholeRoad(T), member \in Seq(Byte), ReaderAt(T), BlockHeader
  PROVE  Arrives(T)'
<1> DEFINE p == Position
           q == Len(out)
           s == Flat(member)
<1>1. /\ Ready /\ stage = "block" /\ bfinal' = Taken % 2 /\ SameSource /\ Same
      /\ out' = out /\ data_checksum' = data_checksum
  BY BlockHeaderIs DEF KeepInBlocks, SameSource, Same, writerVars, sourceVars, outVars
<1>2. Held /\ readSourceErrors = 0 /\ OutIsData /\ PlaceIn(T)
  BY <1>1, ReadyMeans
<1>3. p \in Nat /\ q \in Nat /\ s \in Seq(Bit)
  BY ReaderIs
<1>4. BitsOf = 3 /\ ~InSymbol
  BY <1>1, BitsOfIs DEF BitsOfLaw, InSymbol
<1>5. 3 <= Len(bits) /\ Len(bits) < 8 + 3
  BY <1>1, <1>4, ReadyMeans
<1>6. OutIsData' /\ readSourceErrors' = 0 /\ Len(out') = q
  BY <1>1, <1>2, SameOut DEF SameSource
<1>7. Whole(T, s, Expected) /\ 0 \in 0..1
  BY DEF WholeRoad
<1>8. AtBlock(p, q) \in T \/ AtEmpty(p, q) \in T
  BY <1>1, <1>2, Zenon DEF PlaceIn
<1>9. BlockGoes(T, s, p, q) \/ EmptyGoes(T, s, p, q)
  <2> HIDE DEF p, q, s
  <2> QED
    BY <1>3, <1>7, <1>8, NodeGoes
<1>10. CASE BlockGoes(T, s, p, q)
  <2>1. PICK f \in 0..1 : Spells(s, p, Bits(f, 1) \o Bits(1, 2)) /\ AtSymbol(f, p + 3, q) \in T
    BY <1>10, Zenon DEF BlockGoes
  <2> DEFINE w == Bits(f, 1) \o Bits(1, 2)
  <2>2. w \in Seq(Bit) /\ Len(w) = BitsOf /\ Value(w) = f + 2 /\ Spells(s, p, w)
    BY <1>4, <2>1, StartIsBits, StartIsRead
  <2> HIDE DEF w
  <2>3. Consume => Taken = Value(w) /\ Held' /\ Position' = Position + BitsOf /\ Len(bits') < 8
    BY <1>1, <1>4, <2>2, StepTakes
  <2>4. Taken = f + 2
    <3>1. ReadBits(bits, Len(w)) = Value(w)
      <4>1. Spells(s, p, bits) /\ bits \in Seq(Bit) /\ Len(w) <= Len(bits)
        BY <1>2, <1>4, <1>5, <2>2 DEF Held
      <4> HIDE DEF s, p
      <4> QED
        BY <1>3, <2>2, <4>1, WordIsRead
    <3> QED
      BY <2>2, <3>1 DEF Taken
  <2>5. Taken \div 2 = 1 /\ Taken % 2 = f
    BY <2>4
  <2>6. stage' = "symbol" /\ trees' = NoTrees /\ Consume /\ bfinal' = f
    BY <1>1, <2>5, BlockHeaderIs
  <2>7. Held' /\ Position' = p + 3 /\ Len(bits') < 8
    BY <1>4, <2>3, <2>6
  <2>8. NextSymbol(T, Position, Len(out))'
    BY <1>6, <2>1, <2>6, <2>7 DEF NextSymbol
  <2>9. PlaceIn(T)'
    BY <2>6, <2>8, Zenon DEF PlaceIn
  <2> QED
    BY <1>6, <2>7, <2>9 DEF Arrives
<1>11. CASE EmptyGoes(T, s, p, q)
  <2>1. Spells(s, p, Bits(0, 3))
    BY <1>11, Zenon DEF EmptyGoes
  <2>2. PICK a \in Nat : UpToByte(p + 3, a) /\ Spells(s, a, Flat(EmptyBlockLength)) /\ AtBlock(a + 32, q) \in T
    BY <1>11, Zenon DEF EmptyGoes
  <2> DEFINE w == Bits(0, 3)
  <2>3. w \in Seq(Bit) /\ Len(w) = 3 /\ \A i \in 1..3 : w[i] = 0
    BY ZeroBits
  <2> HIDE DEF w
  <2>4. Value(w) = 0
    BY <2>3, ZerosAreRead
  <2>5. Taken = 0
    <3>1. ReadBits(bits, Len(w)) = Value(w)
      <4>1. Spells(s, p, bits) /\ bits \in Seq(Bit) /\ Len(w) <= Len(bits) /\ Spells(s, p, w) /\ w \in Seq(Bit)
        BY <1>2, <1>5, <2>1, <2>3 DEF Held, w
      <4> HIDE DEF s, p
      <4> QED
        BY <1>3, <4>1, WordIsRead
    <3> QED
      BY <1>4, <2>3, <2>4, <3>1 DEF Taken
  <2>6. Taken \div 2 = 0 /\ Taken % 2 = 0
    BY <2>5
  <2>7. stage' = "stored length" /\ bits' = <<>> /\ bfinal' = 0
    BY <1>1, <2>6, BlockHeaderIs DEF DropTag
  <2>8. Held' /\ Position' = a /\ Len(bits') < 8
    <3>1. 3 \in Nat
      OBVIOUS
    <3> QED
      BY <1>1, <1>2, <1>5, <2>2, <2>7, <3>1, RestIsDropped
  <2>9. Flat(member') = s
    BY <1>1 DEF Same
  <2>10. PlaceIn(T)'
    <3>1. Spells(Flat(member'), Position', Flat(EmptyBlockLength)) /\ AtBlock(Position' + 32, Len(out')) \in T
      BY <1>6, <2>2, <2>8, <2>9
    <3> QED
      BY <2>7, <3>1, Zenon DEF PlaceIn
  <2> QED
    BY <1>6, <2>8, <2>10 DEF Arrives
<1> QED
  BY <1>9, <1>10, <1>11

\* From an empty block it goes to the next block.
LEMMA StoredLengthIsRead ==
  ASSUME NEW T, member \in Seq(Byte), ReaderAt(T), StoredLength
  PROVE  Arrives(T)'
<1> DEFINE p == Position
           q == Len(out)
           s == Flat(member)
           w == Flat(EmptyBlockLength)
           u == SubSeq(bits, 1, 16)
           v == SubSeq(Drop(bits, 16), 1, 16)
<1>1. /\ Ready /\ stage = "stored length" /\ SameSource /\ Same /\ bfinal' = bfinal
      /\ out' = out /\ data_checksum' = data_checksum
  BY StoredLengthIs DEF KeepInBlocks, SameSource, Same, writerVars, sourceVars, outVars
<1>2. Held /\ readSourceErrors = 0 /\ OutIsData /\ PlaceIn(T)
  BY <1>1, ReadyMeans
<1>3. p \in Nat /\ q \in Nat /\ s \in Seq(Bit) /\ bits \in Seq(Bit) /\ Spells(s, p, bits)
  BY <1>2, ReaderIs DEF Held
<1>4. BitsOf = 32 /\ ~InSymbol
  BY <1>1, BitsOfIs DEF BitsOfLaw, InSymbol
<1>5. 32 <= Len(bits)
  BY <1>1, <1>4, ReadyMeans
<1>6. OutIsData' /\ readSourceErrors' = 0 /\ Len(out') = q
  BY <1>1, <1>2, SameOut DEF SameSource
<1>7. bfinal = 0 /\ Spells(s, p, w) /\ AtBlock(p + 32, q) \in T
  BY <1>1, <1>2, Zenon DEF PlaceIn
<1>8. w \in Seq(Bit) /\ Len(w) = 32 /\ (\A i \in 1..16 : w[i] = 0) /\ \A i \in 17..32 : w[i] = 1
  BY EmptyLengthIsBits, EmptyLengthIsRead
<1> HIDE DEF w
<1>9. Splits(bits, w, 16)
  <2>1. Len(w) <= Len(bits) /\ w \in Seq(Bit)
    BY <1>5, <1>8
  <2>2. \A i \in 1..Len(w) : bits[i] = w[i]
    <3> HIDE DEF s, p
    <3> QED
      BY <1>3, <1>7, <2>1, WordIsRead
  <2>3. Len(w) = 16 + 16 /\ 16 \in Nat
    BY <1>8
  <2> QED
    BY <1>3, <2>1, <2>2, <2>3, WordSplits, Zenon
<1>s. /\ u \in Seq(Bit) /\ Len(u) = 16 /\ \A i \in 1..16 : u[i] = w[i]
      /\ v \in Seq(Bit) /\ Len(v) = 16 /\ \A i \in 1..16 : v[i] = w[16 + i]
  BY <1>9, Zenon DEF Splits
<1> HIDE DEF u, v
<1>10. Value(u) = 0
  BY <1>8, <1>s, ZerosAreRead
<1>11. Value(v) = AllOnes
  <2>3. \A i \in 1..16 : 16 + i \in 17..32
    OBVIOUS
  <2>4. \A i \in 1..16 : v[i] = 1
    <3> TAKE i \in 1..16
    <3>1. v[i] = w[16 + i] /\ 16 + i \in 17..32
      BY <1>s, <2>3
    <3>2. w[16 + i] = 1
      BY <1>8, <3>1, Zenon
    <3> QED
      BY <3>1, <3>2
  <2> QED
    BY <1>s, <2>4, OnesAreRead
<1>12. stage' = "block" /\ Consume
  <2>1. ReadBits(bits, 16) = 0 /\ ReadBits(Drop(bits, 16), 16) = AllOnes
    BY <1>10, <1>11 DEF ReadBits, u, v
  <2>4. stage' = "block" /\ bits' = Drop(bits, 32)
    BY <1>7, <2>1, StoredLengthIs
  <2> QED
    BY <1>4, <2>4 DEF Consume
<1>13. Held' /\ Position' = Position + BitsOf /\ Len(bits') < 8
  BY <1>1, <1>4, <1>7, <1>8, <1>12, StepTakes
<1>14. PlaceIn(T)'
  <2>1. AtBlock(Position', Len(out')) \in T
    BY <1>4, <1>6, <1>7, <1>13
  <2> QED
    BY <1>12, <2>1, Zenon DEF PlaceIn
<1> QED
  BY <1>6, <1>13, <1>14 DEF Arrives

-----------------------------------------------------------------------------
(***************************************************************************)
(* A symbol is read, and what comes of it.                                 *)
(***************************************************************************)
LEMMA LiteralOrMatchIs ==
  ASSUME LiteralOrMatch
  PROVE  /\ Ready /\ stage = "symbol" /\ sym' = Symbol /\ KeepInBlocks /\ bfinal' = bfinal /\ trees' = trees
         /\ sym' < 256 => Put(sym' % 256, "symbol") /\ bits' = SymbolRead
         /\ ~(sym' < 256) /\ sym' = 256 => EndOfBlock(SymbolRead) /\ UNCHANGED outVars
         /\ ~(sym' < 256) /\ sym' # 256 /\ sym' - 257 < 29 => bits' = SymbolRead /\ stage' = "length" /\ UNCHANGED outVars
<1>1. /\ Ready /\ stage = "symbol" /\ sym' = Symbol /\ KeepInBlocks /\ UNCHANGED <<count, bfinal, trees, lengths, match>>
  BY Zenon DEF LiteralOrMatch
<1>2. bfinal' = bfinal /\ trees' = trees
  BY <1>1, Zenon
<1>3. ASSUME sym' < 256 PROVE Put(sym' % 256, "symbol") /\ bits' = SymbolRead
  BY <1>3, Zenon DEF LiteralOrMatch
<1>4. ASSUME ~(sym' < 256), sym' = 256 PROVE EndOfBlock(SymbolRead) /\ UNCHANGED outVars
  BY <1>4, Zenon DEF LiteralOrMatch
<1>5. ASSUME ~(sym' < 256), sym' # 256, sym' - 257 < 29
      PROVE  bits' = SymbolRead /\ stage' = "length" /\ UNCHANGED outVars
  BY <1>5, Zenon DEF LiteralOrMatch
<1> QED
  BY <1>1, <1>2, <1>3, <1>4, <1>5, Zenon

\* The next byte of the data is put.
LEMMA OutGrows ==
  ASSUME OutIsData, Same, Expected \in Seq(Byte), Len(out) < Len(Expected),
         NEW byte, byte = Expected[Len(out) + 1],
         out' = Append(out, byte), data_checksum' = CrcByte(data_checksum, byte)
  PROVE  OutIsData' /\ Len(out') = Len(out) + 1
<1> DEFINE E == Expected
           q == Len(out)
<1>1. out \in Seq(Byte) /\ q <= Len(E) /\ (\A i \in 1..q : out[i] = E[i]) /\ data_checksum = Crc(E)[q] /\ q \in Nat
  BY DEF OutIsData
<1>2. Expected' = E
  BY DEF Same, Expected
<1>3. E \in Seq(Byte) /\ q < Len(E) /\ q + 1 \in 1..Len(E) /\ (q + 1) - 1 = q
  BY <1>1
<1>4. byte \in Byte /\ byte = E[q + 1]
  BY <1>3, ElementOf
<1>5. Crc(E)[q + 1] = CrcByte(Crc(E)[q], byte)
  <2> HIDE DEF E, q
  <2>1. Crc(E)[q + 1] = CrcByte(Crc(E)[(q + 1) - 1], E[q + 1])
    BY <1>3, CrcIs
  <2> QED
    BY <1>3, <1>4, <2>1
<1>6. out' \in Seq(Byte) /\ Len(out') = q + 1 /\ out'[q + 1] = byte /\ \A i \in 1..q : out'[i] = out[i]
  BY <1>1, <1>4
<1> HIDE DEF E, q
<1>7. \A i \in 1..q + 1 : out'[i] = E[i]
  <2> TAKE i \in 1..q + 1
  <2>1. i \in 1..q \/ i = q + 1
    BY <1>1
  <2> QED
    BY <1>1, <1>4, <1>6, <2>1
<1>8. data_checksum' = Crc(E)[q + 1]
  BY <1>1, <1>5
<1>9. q + 1 <= Len(E)
  BY <1>3
<1>10. OutIsData'
  BY <1>2, <1>6, <1>7, <1>8, <1>9 DEF OutIsData
<1> QED
  BY <1>6, <1>10 DEF q

\* What Put does when no byte was given up.
LEMMA PutIs ==
  ASSUME NEW byte, NEW next, Put(byte, next), readSourceErrors = 0
  PROVE  out' = Append(out, byte) /\ data_checksum' = CrcByte(data_checksum, byte) /\ stage' = next
<1>1. ~(readSourceErrors > 0)
  OBVIOUS
<1> QED
  BY <1>1, Zenon DEF Put

\* A byte is what is left of it after % 256.
LEMMA ByteFits ==
  ASSUME NEW c \in Byte
  PROVE  c \in Nat /\ c < 256 /\ c % 256 = c
<1>1. c \in Nat /\ c < 256 /\ 0 <= c
  BY DEF Byte
<1>2. c = 256 * 0 + c
  BY <1>1
<1> QED
  BY <1>1, <1>2, ModUnique

\* A symbol is what was written there: a literal, a length, or the end of the block.
LEMMA SymbolIsActedOn ==
  ASSUME NEW T, WholeRoad(T), member \in Seq(Byte), Expected \in Seq(Byte), ReaderAt(T), LiteralOrMatch
  PROVE  Arrives(T)'
<1> DEFINE p == Position
           q == Len(out)
           s == Flat(member)
           E == Expected
           f == bfinal
<1>1. /\ Ready /\ stage = "symbol" /\ sym' = Symbol /\ KeepInBlocks /\ bfinal' = bfinal /\ trees' = trees
  BY LiteralOrMatchIs
<1>2. SameSource /\ Same
  BY <1>1 DEF KeepInBlocks, SameSource, Same, writerVars, sourceVars
<1>3. Held /\ readSourceErrors = 0 /\ OutIsData /\ PlaceIn(T)
  BY <1>1, ReadyMeans
<1>4. p \in Nat /\ q \in Nat /\ s \in Seq(Bit) /\ E \in Seq(Byte)
  BY ReaderIs
<1>5. trees = NoTrees /\ f \in 0..1 /\ AtSymbol(f, p, q) \in T
  BY <1>1, <1>3, Zenon DEF PlaceIn, NextSymbol
<1>6. InSymbol /\ TreeOf = fixed_ltree
  BY <1>1, <1>5 DEF InSymbol, TreeOf, NoTrees
<1>7. Whole(T, s, E)
  BY DEF WholeRoad
<1>8. Expected' = E /\ Flat(member') = s
  BY <1>2 DEF Same, Expected
<1>9. \/ LiteralGoes(T, s, E, f, p, q) \/ MatchGoes(T, s, E, f, p, q)
      \/ PlainEnds(T, s, f, p, q) \/ FinalEnds(T, s, f, p, q)
  <2> HIDE DEF p, q, s, E, f
  <2> QED
    BY <1>4, <1>5, <1>7, NodeGoes
<1>s. \A w \in Seq(Bit), x \in Nat :
        Spells(s, p, w) /\ Means(w, fixed_ltree, x) =>
          /\ sym' = x /\ readSourceErrors' = 0 /\ Len(w) <= Len(bits) /\ Len(bits) < 8 + Len(w)
          /\ bits' = SymbolRead => Held' /\ Position' = p + Len(w) /\ Len(bits') < 8
  BY <1>1, <1>2, <1>6, SymbolTakes
<1>o. UNCHANGED outVars => OutIsData' /\ out' = out
  BY <1>2, <1>3, SameOut DEF outVars
<1>10. CASE LiteralGoes(T, s, E, f, p, q)
  <2> DEFINE c == E[q + 1]
             w == zlib_literal(c)
  <2>1. q < Len(E) /\ Spells(s, p, w) /\ AtSymbol(f, p + Len(w), q + 1) \in T
    BY <1>10, Zenon DEF LiteralGoes
  <2>2. c \in Byte
    <3>1. q + 1 \in 1..Len(E)
      BY <1>4, <2>1
    <3> QED
      BY <1>4, <3>1, ElementOf
  <2>3. w \in Seq(Bit) /\ Means(w, fixed_ltree, c)
    BY <2>2, LiteralMeans
  <2>4. c \in Nat /\ c < 256 /\ c % 256 = c
    BY <2>2, ByteFits
  <2> HIDE DEF c, w, s, p, E, q, f
  <2>5. sym' = c /\ readSourceErrors' = 0 /\ (bits' = SymbolRead => Held' /\ Position' = p + Len(w) /\ Len(bits') < 8)
    BY <1>s, <2>1, <2>3, <2>4
  <2>6. sym' < 256 /\ sym' % 256 = c
    BY <2>4, <2>5
  <2>7. Put(c, "symbol") /\ bits' = SymbolRead
    BY <2>6, LiteralOrMatchIs, Zenon
  <2>8. out' = Append(out, c) /\ data_checksum' = CrcByte(data_checksum, c) /\ stage' = "symbol"
    BY <1>3, <2>7, PutIs
  <2>9. OutIsData' /\ Len(out') = q + 1
    BY <1>2, <1>3, <1>4, <2>1, <2>8, OutGrows DEF q, E, c
  <2>10. NextSymbol(T, Position, Len(out))'
    <3>1. AtSymbol(bfinal', Position', Len(out')) \in T
      BY <1>1, <2>1, <2>5, <2>7, <2>9 DEF f
    <3>2. trees' = NoTrees /\ bfinal' \in 0..1
      BY <1>1, <1>5 DEF f
    <3> QED
      BY <3>1, <3>2, Zenon DEF NextSymbol
  <2>11. PlaceIn(T)'
    BY <2>8, <2>10, Zenon DEF PlaceIn
  <2> QED
    BY <2>5, <2>7, <2>9, <2>11 DEF Arrives
<1>11. CASE MatchGoes(T, s, E, f, p, q)
  <2>1. PICK d \in Nat, l \in 3..258 :
          /\ Repeats(E, q, d, l) /\ Spells(s, p, zlib_match(d, l))
          /\ AtSymbol(f, p + Len(zlib_match(d, l)), q + l) \in T
    BY <1>11, Zenon DEF MatchGoes
  <2> DEFINE u == LengthCode(l)
             v == AfterCode(l, d)
  <2>2. 1 <= d /\ d <= dict_size
    BY <2>1 DEF Repeats
  <2>3. /\ u \in Seq(Bit) /\ ExtraBits(lencodes, l) \in Seq(Bit)
        /\ DistanceCode(d) \in Seq(Bit) /\ ExtraBits(distcodes, d) \in Seq(Bit)
        /\ zlib_match(d, l) = u \o v
    BY <2>2, MatchIsBits, Zenon DEF AfterCode, AfterLength
  <2>4. v \in Seq(Bit)
    <3> DEFINE x == ExtraBits(lencodes, l)
               y == DistanceCode(d)
               z == ExtraBits(distcodes, d)
    <3>1. x \in Seq(Bit) /\ y \in Seq(Bit) /\ z \in Seq(Bit)
      BY <2>3
    <3> HIDE DEF x, y, z
    <3>2. y \o z \in Seq(Bit)
      BY <3>1, Cat
    <3>3. x \o (y \o z) \in Seq(Bit)
      BY <3>1, <3>2, Cat
    <3> QED
      BY <3>3 DEF AfterCode, AfterLength, x, y, z
  <2>5. PICK k \in 1..29 :
          /\ Means(u, fixed_ltree, 256 + k)
          /\ Len(ExtraBits(lencodes, l)) = length_bits[k]
          /\ length_base[k] + Value(ExtraBits(lencodes, l)) = l
    BY LengthIsRead
  <2> HIDE DEF u, v, s, p, E, q, f
  <2>6. Spells(s, p, u) /\ Spells(s, p + Len(u), v)
    BY <1>4, <2>1, <2>3, <2>4, SpellsBoth
  <2>7. Len(u \o v) = Len(u) + Len(v) /\ Len(u) \in Nat /\ Len(v) \in Nat
    BY <2>3, <2>4, Cat
  <2>8. 256 + k \in Nat
    OBVIOUS
  <2>9. sym' = 256 + k /\ readSourceErrors' = 0 /\ (bits' = SymbolRead => Held' /\ Position' = p + Len(u) /\ Len(bits') < 8)
    BY <1>s, <2>3, <2>5, <2>6, <2>8
  <2>10. ~(sym' < 256) /\ sym' # 256 /\ sym' - 257 < 29 /\ sym' - 256 = k
    BY <2>9
  <2>11. bits' = SymbolRead /\ stage' = "length" /\ UNCHANGED outVars
    BY <2>10, LiteralOrMatchIs, Zenon
  <2>12. LengthNext(T, l, d)'
    <3>1. Repeats(Expected', Len(out'), d, l)
      BY <1>8, <1>o, <2>1, <2>11 DEF q
    <3>2. sym' - 256 \in 1..29 /\ Len(ExtraBits(lencodes, l)) = length_bits[sym' - 256]
          /\ length_base[sym' - 256] + Value(ExtraBits(lencodes, l)) = l
      BY <2>5, <2>10
    <3>3. Position' = p + Len(u) /\ Spells(Flat(member'), Position', AfterCode(l, d))
      BY <1>8, <2>6, <2>9, <2>11 DEF v
    <3>4. AtSymbol(bfinal', Position' + Len(AfterCode(l, d)), Len(out') + l) \in T
      <4>1. Position' + Len(v) = p + Len(zlib_match(d, l))
        BY <1>4, <2>3, <2>7, <3>3
      <4> QED
        BY <1>1, <1>o, <2>1, <2>11, <4>1 DEF v, f, q
    <3>5. trees' = NoTrees /\ bfinal' \in 0..1
      BY <1>1, <1>5 DEF f
    <3> QED
      BY <3>1, <3>2, <3>3, <3>4, <3>5, Zenon DEF LengthNext, NextSymbol
  <2>13. PlaceIn(T)'
    BY <2>11, <2>12, Zenon DEF PlaceIn
  <2> QED
    BY <1>o, <2>9, <2>11, <2>13 DEF Arrives
<1>12. CASE PlainEnds(T, s, f, p, q) \/ FinalEnds(T, s, f, p, q)
  <2> DEFINE w == Bits(0, 7)
  <2>1. Spells(s, p, w)
    BY <1>12, Zenon DEF PlainEnds, FinalEnds
  <2>2. w \in Seq(Bit) /\ Len(w) = 7 /\ Means(w, fixed_ltree, 256)
    BY EndMeans
  <2> HIDE DEF w, s, p, E, q, f
  <2>3. 256 \in Nat
    OBVIOUS
  <2>4. /\ sym' = 256 /\ readSourceErrors' = 0 /\ Len(w) <= Len(bits) /\ Len(bits) < 8 + Len(w)
        /\ bits' = SymbolRead => Held' /\ Position' = p + Len(w) /\ Len(bits') < 8
    <3> DEFINE x == 256
    <3>1. x \in Nat /\ w \in Seq(Bit) /\ Means(w, fixed_ltree, x)
      BY <2>2, <2>3
    <3> HIDE DEF x
    <3>2. /\ sym' = x /\ readSourceErrors' = 0 /\ Len(w) <= Len(bits) /\ Len(bits) < 8 + Len(w)
          /\ bits' = SymbolRead => Held' /\ Position' = p + Len(w) /\ Len(bits') < 8
      BY <1>s, <2>1, <3>1, Zenon
    <3> QED
      BY <3>2, Zenon DEF x
  <2>5. ~(sym' < 256)
    BY <2>4
  <2>6. EndOfBlock(SymbolRead) /\ UNCHANGED outVars
    BY <2>4, <2>5, LiteralOrMatchIs, Zenon
  <2>7. CASE PlainEnds(T, s, f, p, q)
    <3>1. f = 0 /\ AtEmpty(p + 7, q) \in T
      BY <2>7, Zenon DEF PlainEnds
    <3>2. ~(bfinal = 1)
      BY <3>1 DEF f
    <3>3. stage' = "block" /\ bits' = SymbolRead
      BY <2>6, <3>2, Zenon DEF EndOfBlock
    <3>4. AtEmpty(Position', Len(out')) \in T
      BY <1>o, <2>2, <2>4, <2>6, <3>1, <3>3 DEF q
    <3>5. PlaceIn(T)'
      BY <3>3, <3>4, Zenon DEF PlaceIn
    <3> QED
      BY <1>o, <2>4, <2>6, <3>3, <3>5 DEF Arrives
  <2>8. CASE FinalEnds(T, s, f, p, q)
    <3>1. f = 1
      BY <2>8, Zenon DEF FinalEnds
    <3>2. PICK a \in Nat : UpToByte(p + 7, a) /\ AtTrailer(a, q) \in T
      BY <2>8, Zenon DEF FinalEnds
    <3>3. stage' = "crc" /\ bits' = <<>>
      BY <2>6, <3>1, Zenon DEF EndOfBlock, f
    <3>4. 7 \in Nat /\ 7 <= Len(bits) /\ Len(bits) < 8 + 7
      BY <2>2, <2>4
    <3>5. Held' /\ Position' = a /\ Len(bits') < 8
      BY <1>2, <1>3, <3>2, <3>3, <3>4, RestIsDropped DEF p
    <3>6. AtTrailer(Position', Len(out')) \in T
      BY <1>o, <2>6, <3>2, <3>5 DEF q
    <3>7. PlaceIn(T)'
      BY <3>3, <3>6, Zenon DEF PlaceIn
    <3> QED
      BY <1>o, <2>4, <2>6, <3>5, <3>7 DEF Arrives
  <2> QED
    BY <1>12, <2>7, <2>8
<1> QED
  BY <1>9, <1>10, <1>11, <1>12

-----------------------------------------------------------------------------
(***************************************************************************)
(* A match is read and copied.                                             *)
(***************************************************************************)
LEMMA BlockSteps ==
  ASSUME KeepInBlocks
  PROVE  SameSource /\ Same
BY DEF KeepInBlocks, SameSource, Same, writerVars, sourceVars

\* A length is the one that was written.
LEMMA LengthIsTaken ==
  ASSUME NEW T, member \in Seq(Byte), ReaderAt(T), LengthBits
  PROVE  Arrives(T)'
<1> DEFINE p == Position
           q == Len(out)
           s == Flat(member)
<1>1. /\ Ready /\ stage = "length" /\ Consume /\ curlen' = length_base[sym - 256] + Taken /\ stage' = "distance"
      /\ KeepInBlocks /\ bfinal' = bfinal /\ trees' = trees /\ out' = out /\ data_checksum' = data_checksum
  BY Zenon DEF LengthBits, outVars
<1>2. SameSource /\ Same
  BY <1>1, BlockSteps
<1>3. Held /\ readSourceErrors = 0 /\ OutIsData /\ PlaceIn(T)
  BY <1>1, ReadyMeans
<1>4. p \in Nat /\ q \in Nat /\ s \in Seq(Bit)
  BY ReaderIs
<1>5. PICK l \in 3..258, d \in Nat : LengthNext(T, l, d)
  BY <1>1, <1>3, Zenon DEF PlaceIn
<1>6. Expected' = Expected /\ Flat(member') = s
  BY <1>2 DEF Same, Expected
<1> DEFINE u == ExtraBits(lencodes, l)
           v == AfterLength(d)
<1>7. /\ Repeats(Expected, q, d, l) /\ Len(u) = length_bits[sym - 256]
      /\ length_base[sym - 256] + Value(u) = l /\ Spells(s, p, u \o v)
      /\ trees = NoTrees /\ bfinal \in 0..1 /\ AtSymbol(bfinal, p + Len(u \o v), q + l) \in T
  BY <1>5, Zenon DEF LengthNext, NextSymbol, AfterCode
<1>8. u \in Seq(Bit) /\ v \in Seq(Bit)
  <2>1. 1 <= d /\ d <= dict_size
    BY <1>7 DEF Repeats
  <2>2. u \in Seq(Bit) /\ DistanceCode(d) \in Seq(Bit) /\ ExtraBits(distcodes, d) \in Seq(Bit)
    BY <2>1, MatchIsBits, Zenon
  <2>3. v \in Seq(Bit)
    BY <2>2, Cat DEF AfterLength
  <2> QED
    BY <2>2, <2>3
<1>9. BitsOf = Len(u) /\ ~InSymbol
  BY <1>1, <1>7, BitsOfIs DEF BitsOfLaw, InSymbol
<1> HIDE DEF u, v, p, q, s
<1>10. Spells(s, p, u) /\ Spells(s, p + Len(u), v)
  BY <1>4, <1>7, <1>8, SpellsBoth
<1>11. Len(u \o v) = Len(u) + Len(v) /\ Len(u) \in Nat /\ Len(v) \in Nat
  BY <1>8, Cat
<1>12. Taken = Value(u) /\ Held' /\ Position' = p + Len(u) /\ Len(bits') < 8 /\ readSourceErrors' = 0
  BY <1>1, <1>2, <1>8, <1>9, <1>10, StepTakes DEF p, s
<1>13. curlen' = l
  BY <1>1, <1>7, <1>12
<1>14. OutIsData'
  BY <1>1, <1>2, <1>3, SameOut
<1>15. DistanceNext(T, d)'
  <2>1. Repeats(Expected', Len(out'), d, curlen') /\ curlen' \in 3..258
    BY <1>1, <1>6, <1>7, <1>13 DEF q
  <2>2. Spells(Flat(member'), Position', AfterLength(d))
    BY <1>6, <1>10, <1>12 DEF v
  <2>3. AtSymbol(bfinal', Position' + Len(AfterLength(d)), Len(out') + curlen') \in T
    <3>1. Position' + Len(v) = p + Len(u \o v)
      BY <1>4, <1>11, <1>12
    <3> QED
      BY <1>1, <1>7, <1>13, <3>1 DEF v, q
  <2> QED
    BY <1>1, <1>7, <2>1, <2>2, <2>3, Zenon DEF DistanceNext, NextSymbol
<1>16. PlaceIn(T)'
  BY <1>1, <1>15, Zenon DEF PlaceIn
<1> QED
  BY <1>12, <1>14, <1>16 DEF Arrives

\* What DistanceSymbol does when no byte was given up.
LEMMA DistanceSymbolIs ==
  ASSUME DistanceSymbol
  PROVE  /\ Ready /\ stage = "distance" /\ bits' = SymbolRead /\ sym' = Symbol
         /\ KeepInBlocks /\ bfinal' = bfinal /\ trees' = trees /\ curlen' = curlen
         /\ out' = out /\ data_checksum' = data_checksum
         /\ ~(readSourceErrors > 0) /\ ~(sym' >= 30) => stage' = "offset"
<1>1. /\ Ready /\ stage = "distance" /\ bits' = SymbolRead /\ sym' = Symbol
      /\ KeepInBlocks /\ UNCHANGED <<count, bfinal, trees, lengths, match, outVars>>
  BY Zenon DEF DistanceSymbol
<1>2. bfinal' = bfinal /\ trees' = trees /\ curlen' = curlen /\ out' = out /\ data_checksum' = data_checksum
  BY <1>1, Zenon DEF match, outVars
<1>3. ASSUME ~(readSourceErrors > 0), ~(sym' >= 30) PROVE stage' = "offset"
  BY <1>3, Zenon DEF DistanceSymbol
<1> QED
  BY <1>1, <1>2, <1>3, Zenon

\* The class of a distance is the one that was written.
LEMMA DistanceSymbolIsTaken ==
  ASSUME NEW T, member \in Seq(Byte), ReaderAt(T), DistanceSymbol
  PROVE  Arrives(T)'
<1> DEFINE p == Position
           q == Len(out)
           s == Flat(member)
<1>1. /\ Ready /\ stage = "distance" /\ bits' = SymbolRead /\ sym' = Symbol
      /\ KeepInBlocks /\ bfinal' = bfinal /\ trees' = trees /\ curlen' = curlen
      /\ out' = out /\ data_checksum' = data_checksum
  BY DistanceSymbolIs
<1>2. SameSource /\ Same
  BY <1>1, BlockSteps
<1>3. Held /\ readSourceErrors = 0 /\ OutIsData /\ PlaceIn(T)
  BY <1>1, ReadyMeans
<1>4. p \in Nat /\ q \in Nat /\ s \in Seq(Bit)
  BY ReaderIs
<1>5. PICK d \in Nat : DistanceNext(T, d)
  BY <1>1, <1>3, Zenon DEF PlaceIn
<1>6. Expected' = Expected /\ Flat(member') = s
  BY <1>2 DEF Same, Expected
<1> DEFINE u == DistanceCode(d)
           v == ExtraBits(distcodes, d)
<1>7. /\ Repeats(Expected, q, d, curlen) /\ curlen \in 3..258 /\ Spells(s, p, u \o v)
      /\ trees = NoTrees /\ bfinal \in 0..1 /\ AtSymbol(bfinal, p + Len(u \o v), q + curlen) \in T
  BY <1>5, Zenon DEF DistanceNext, NextSymbol, AfterLength
<1>8. 1 <= d /\ d <= distcodes[30][3]
  <2>1. 1 <= d /\ d <= dict_size
    BY <1>7 DEF Repeats
  <2>2. dict_size \in Nat /\ dict_size <= distcodes[30][3]
    BY FarthestMatch
  <2> DEFINE most == distcodes[30][3]
  <2>3. most \in Nat
    <3>1. 30 \in 1..30
      OBVIOUS
    <3> QED
      BY <3>1, DistanceSpans
  <2> HIDE DEF most
  <2>4. d <= most
    BY <2>1, <2>2, <2>3 DEF most
  <2> QED
    BY <2>1, <2>4 DEF most
<1>9. PICK k \in 1..30 :
        /\ u \in Seq(Bit) /\ Means(u, fixed_dtree, k - 1)
        /\ v \in Seq(Bit) /\ Len(v) = dist_bits[k] /\ dist_base[k] + Value(v) = d
  BY <1>8, DistanceIsRead DEF DistanceCode
<1>10. InSymbol /\ TreeOf = fixed_dtree
  BY <1>1, <1>7 DEF InSymbol, TreeOf, NoTrees
<1> HIDE DEF u, v, p, q, s
<1>11. Spells(s, p, u) /\ Spells(s, p + Len(u), v)
  BY <1>4, <1>7, <1>9, SpellsBoth
<1>12. Len(u \o v) = Len(u) + Len(v) /\ Len(u) \in Nat /\ Len(v) \in Nat
  <2>1. u \in Seq(Bit) /\ v \in Seq(Bit)
    BY <1>9
  <2> QED
    BY <2>1, Cat
<1>13. k - 1 \in Nat
  OBVIOUS
<1>14. Symbol = k - 1 /\ readSourceErrors' = 0 /\ Held' /\ Position' = p + Len(u) /\ Len(bits') < 8
  BY <1>1, <1>2, <1>9, <1>10, <1>11, <1>13, SymbolTakes DEF p, s
<1>15. stage' = "offset" /\ sym' + 1 = k
  <2>1. ~(readSourceErrors > 0) /\ ~(sym' >= 30) /\ sym' + 1 = k
    BY <1>1, <1>3, <1>14
  <2> QED
    BY <2>1, DistanceSymbolIs
<1>16. OutIsData'
  BY <1>1, <1>2, <1>3, SameOut
<1>17. OffsetNext(T, d)'
  <2>1. Repeats(Expected', Len(out'), d, curlen') /\ curlen' \in 3..258
    BY <1>1, <1>6, <1>7 DEF q
  <2>2. sym' + 1 \in 1..30 /\ Len(ExtraBits(distcodes, d)) = dist_bits[sym' + 1]
        /\ dist_base[sym' + 1] + Value(ExtraBits(distcodes, d)) = d
    BY <1>9, <1>15 DEF v
  <2>3. Spells(Flat(member'), Position', ExtraBits(distcodes, d))
    BY <1>6, <1>11, <1>14 DEF v
  <2>4. AtSymbol(bfinal', Position' + Len(ExtraBits(distcodes, d)), Len(out') + curlen') \in T
    <3>1. Position' + Len(v) = p + Len(u \o v)
      BY <1>4, <1>12, <1>14
    <3> QED
      BY <1>1, <1>7, <3>1 DEF v, q
  <2> QED
    BY <1>1, <1>7, <2>1, <2>2, <2>3, <2>4, Zenon DEF OffsetNext, NextSymbol
<1>18. PlaceIn(T)'
  BY <1>15, <1>17, Zenon DEF PlaceIn
<1> QED
  BY <1>14, <1>16, <1>18 DEF Arrives

\* What DistanceBits does with a distance that the ring reaches.
LEMMA DistanceBitsIs ==
  ASSUME DistanceBits
  PROVE  /\ Ready /\ stage = "offset" /\ Consume /\ offs' = dist_base[sym + 1] + Taken
         /\ KeepInBlocks /\ bfinal' = bfinal /\ trees' = trees /\ curlen' = curlen
         /\ out' = out /\ data_checksum' = data_checksum
         /\ ~(offs' > dict_size) => stage' = "copy"
<1>1. /\ Ready /\ stage = "offset" /\ Consume /\ offs' = dist_base[sym + 1] + Taken
      /\ KeepInBlocks /\ UNCHANGED <<count, bfinal, trees, lengths, sym, curlen, outVars>>
  BY Zenon DEF DistanceBits
<1>2. bfinal' = bfinal /\ trees' = trees /\ curlen' = curlen /\ out' = out /\ data_checksum' = data_checksum
  BY <1>1, Zenon DEF outVars
<1>3. ASSUME ~(offs' > dict_size) PROVE stage' = "copy"
  BY <1>3, Zenon DEF DistanceBits
<1> QED
  BY <1>1, <1>2, <1>3, Zenon

\* A distance is the one that was written, and no farther than what is out.
LEMMA DistanceIsTaken ==
  ASSUME NEW T, member \in Seq(Byte), ReaderAt(T), DistanceBits
  PROVE  Arrives(T)'
<1> DEFINE p == Position
           q == Len(out)
           s == Flat(member)
<1>1. /\ Ready /\ stage = "offset" /\ Consume /\ offs' = dist_base[sym + 1] + Taken
      /\ KeepInBlocks /\ bfinal' = bfinal /\ trees' = trees /\ curlen' = curlen
      /\ out' = out /\ data_checksum' = data_checksum
  BY DistanceBitsIs
<1>2. SameSource /\ Same
  BY <1>1, BlockSteps
<1>3. Held /\ readSourceErrors = 0 /\ OutIsData /\ PlaceIn(T)
  BY <1>1, ReadyMeans
<1>4. p \in Nat /\ q \in Nat /\ s \in Seq(Bit)
  BY ReaderIs
<1>5. PICK d \in Nat : OffsetNext(T, d)
  BY <1>1, <1>3, Zenon DEF PlaceIn
<1>6. Expected' = Expected
  BY <1>2 DEF Same, Expected
<1> DEFINE u == ExtraBits(distcodes, d)
<1>7. /\ Repeats(Expected, q, d, curlen) /\ curlen \in 3..258 /\ Spells(s, p, u)
      /\ Len(u) = dist_bits[sym + 1] /\ dist_base[sym + 1] + Value(u) = d
      /\ trees = NoTrees /\ bfinal \in 0..1 /\ AtSymbol(bfinal, p + Len(u), q + curlen) \in T
  BY <1>5, Zenon DEF OffsetNext, NextSymbol
<1>8. 1 <= d /\ d <= dict_size
  BY <1>7 DEF Repeats
<1>9. u \in Seq(Bit)
  <2>1. 3 \in 3..258
    OBVIOUS
  <2> QED
    BY <1>8, <2>1, MatchIsBits, Zenon
<1>10. BitsOf = Len(u) /\ ~InSymbol
  BY <1>1, <1>7, BitsOfIs DEF BitsOfLaw, InSymbol
<1> HIDE DEF u, p, q, s
<1>11. Taken = Value(u) /\ Held' /\ Position' = p + Len(u) /\ Len(bits') < 8 /\ readSourceErrors' = 0
  BY <1>1, <1>2, <1>7, <1>9, <1>10, StepTakes DEF p, s
<1>12. offs' = d
  BY <1>1, <1>7, <1>11
<1>13. stage' = "copy"
  <2>1. ~(offs' > dict_size)
    BY <1>8, <1>12, FarthestMatch
  <2> QED
    BY <2>1, DistanceBitsIs
<1>14. OutIsData'
  BY <1>1, <1>2, <1>3, SameOut
<1>15. NextSymbol(T, Position, Len(out) + curlen)'
  <2>1. AtSymbol(bfinal', Position', Len(out') + curlen') \in T
    BY <1>1, <1>7, <1>11 DEF q
  <2> QED
    BY <1>1, <1>7, <2>1, Zenon DEF NextSymbol
<1>16. curlen' \in 1..258 /\ offs' \in Nat /\ Repeats(Expected', Len(out'), offs', curlen')
  <2>1. curlen \in 1..258
    BY <1>7
  <2> QED
    BY <1>1, <1>6, <1>7, <1>12, <2>1 DEF q
<1>17. PlaceIn(T)'
  BY <1>13, <1>15, <1>16, Zenon DEF PlaceIn
<1> QED
  BY <1>11, <1>14, <1>17 DEF Arrives

\* What CopyByte does.
LEMMA CopyByteIs ==
  ASSUME CopyByte
  PROVE  /\ Ready /\ stage = "copy" /\ curlen' = curlen - 1
         /\ Put(IF offs > Len(out) THEN fill ELSE out[Len(out) + 1 - offs],
                IF curlen > 1 THEN "copy" ELSE "symbol")
         /\ KeepInBlocks /\ bits' = bits /\ bfinal' = bfinal /\ trees' = trees /\ offs' = offs
BY Zenon DEF CopyByte

\* A byte of a match is the next byte of the data.
LEMMA ByteIsCopied ==
  ASSUME NEW T, member \in Seq(Byte), Expected \in Seq(Byte), ReaderAt(T), CopyByte
  PROVE  Arrives(T)'
<1> DEFINE q == Len(out)
           E == Expected
           byte == IF offs > Len(out) THEN fill ELSE out[Len(out) + 1 - offs]
           next == IF curlen > 1 THEN "copy" ELSE "symbol"
<1>1. /\ Ready /\ stage = "copy" /\ curlen' = curlen - 1 /\ Put(byte, next)
      /\ KeepInBlocks /\ bits' = bits /\ bfinal' = bfinal /\ trees' = trees /\ offs' = offs
  BY CopyByteIs
<1>2. SameSource /\ Same
  BY <1>1, BlockSteps
<1>3. Held /\ readSourceErrors = 0 /\ OutIsData /\ PlaceIn(T)
  BY <1>1, ReadyMeans
<1>4. Position \in Nat /\ q \in Nat
  BY ReaderIs
<1>5. /\ curlen \in 1..258 /\ offs \in Nat /\ Repeats(E, q, offs, curlen)
      /\ trees = NoTrees /\ bfinal \in 0..1 /\ AtSymbol(bfinal, Position, q + curlen) \in T
  BY <1>1, <1>3, Zenon DEF PlaceIn, NextSymbol
<1>6. /\ 1 <= offs /\ offs <= dict_size /\ offs <= q /\ q + curlen <= Len(E)
      /\ \A i \in 1..curlen : E[q + i] = E[q + i - offs]
  BY <1>5 DEF Repeats
<1>7. q < Len(E)
  <2>1. Len(E) \in Nat
    OBVIOUS
  <2> HIDE DEF E, q
  <2>2. q + curlen <= Len(E) /\ curlen \in Nat /\ 1 <= curlen
    BY <1>5, <1>6
  <2> QED
    BY <1>4, <2>1, <2>2
<1>8. byte = E[q + 1]
  <2>1. ~(offs > q) /\ q + 1 - offs \in 1..q
    BY <1>4, <1>5, <1>6
  <2>2. out[q + 1 - offs] = E[q + 1 - offs]
    BY <1>3, <2>1 DEF OutIsData
  <2>3. E[q + 1] = E[q + 1 - offs]
    <3>1. 1 \in 1..curlen
      BY <1>5
    <3> HIDE DEF E, q
    <3> QED
      BY <1>6, <3>1, Zenon
  <2> QED
    BY <2>1, <2>2, <2>3
<1> HIDE DEF byte, next, q, E
<1>9. out' = Append(out, byte) /\ data_checksum' = CrcByte(data_checksum, byte) /\ stage' = next
  BY <1>1, <1>3, PutIs
<1>10. OutIsData' /\ Len(out') = q + 1
  BY <1>2, <1>3, <1>7, <1>8, <1>9, OutGrows DEF q, E
<1>11. Held' /\ Position' = Position /\ readSourceErrors' = 0 /\ Expected' = E
  BY <1>1, <1>2, <1>3 DEF Held, Position, SameSource, Same, Expected, E
<1>12. Len(bits') < 8
  <2>1. BitsOf = 0 /\ ~InSymbol
    BY <1>1, BitsOfIs DEF BitsOfLaw, InSymbol
  <2>2. Len(bits) < 8 + 0
    BY <1>1, <2>1, ReadyMeans
  <2> QED
    BY <1>1, <2>2
<1>13. Len(out') + curlen' = q + curlen
  BY <1>1, <1>4, <1>5, <1>10
<1>14. NextSymbol(T, Position, Len(out) + curlen)'
  <2>1. AtSymbol(bfinal', Position', Len(out') + curlen') \in T
    BY <1>1, <1>5, <1>11, <1>13
  <2> QED
    BY <1>1, <1>5, <2>1, Zenon DEF NextSymbol
<1>15. CASE curlen > 1
  <2>1. stage' = "copy" /\ curlen' \in 1..258 /\ offs' \in Nat
    BY <1>1, <1>5, <1>9, <1>15 DEF next
  <2>2. Repeats(E, q + 1, offs, curlen - 1)
    <3>1. 1 <= offs /\ offs <= dict_size /\ offs <= q + 1 /\ (q + 1) + (curlen - 1) <= Len(E)
      BY <1>4, <1>5, <1>6
    <3>2. ASSUME NEW i \in 1..curlen - 1 PROVE E[(q + 1) + i] = E[(q + 1) + i - offs]
      <4>1. i + 1 \in 1..curlen /\ q + (i + 1) = (q + 1) + i
        BY <1>4, <1>5
      <4>2. E[q + (i + 1)] = E[q + (i + 1) - offs]
        BY <1>6, <4>1
      <4>3. q + (i + 1) - offs = (q + 1) + i - offs
        BY <1>4, <1>5
      <4> QED
        BY <4>1, <4>2, <4>3
    <3> QED
      BY <3>1, <3>2, Zenon DEF Repeats
  <2>3. Repeats(Expected', Len(out'), offs', curlen')
    BY <1>1, <1>10, <1>11, <2>2
  <2>4. PlaceIn(T)'
    BY <1>14, <2>1, <2>3, Zenon DEF PlaceIn
  <2> QED
    BY <1>10, <1>11, <1>12, <2>4 DEF Arrives
<1>16. CASE ~(curlen > 1)
  <2>1. stage' = "symbol" /\ curlen' = 0
    BY <1>1, <1>5, <1>9, <1>16 DEF next
  <2>2. Len(out') + curlen' = Len(out')
    BY <1>4, <1>10, <2>1
  <2>3. NextSymbol(T, Position, Len(out))'
    BY <1>14, <2>2, Zenon DEF NextSymbol
  <2>4. PlaceIn(T)'
    BY <2>1, <2>3, Zenon DEF PlaceIn
  <2> QED
    BY <1>10, <1>11, <1>12, <2>4 DEF Arrives
<1> QED
  BY <1>15, <1>16

-----------------------------------------------------------------------------
(***************************************************************************)
(* The trailer is read.                                                    *)
(***************************************************************************)
LEMMA CheckCrcIs ==
  ASSUME CheckCrc
  PROVE  /\ Ready /\ stage = "crc" /\ Consume /\ KeepInBlocks /\ out' = out /\ data_checksum' = data_checksum
         /\ ChecksumHolds => stage' = "isize"
<1>1. Ready /\ stage = "crc" /\ Consume /\ KeepInBlocks /\ UNCHANGED <<count, blockVars, outVars>>
  BY Zenon DEF CheckCrc
<1>2. out' = out /\ data_checksum' = data_checksum
  BY <1>1, Zenon DEF outVars
<1>3. ASSUME ChecksumHolds PROVE stage' = "isize"
  BY <1>3, Zenon DEF CheckCrc
<1> QED
  BY <1>1, <1>2, <1>3, Zenon

\* At the trailer all of the data is out, and 64 bits are left.
LEMMA TrailerIsAt ==
  ASSUME NEW T, WholeRoad(T), member \in Seq(Byte), Expected \in Seq(Byte), ReaderAt(T), stage = "crc"
  PROVE  /\ Len(out) = Len(Expected) /\ Position + 64 = 8 * Len(member)
         /\ Spells(Flat(member), Position, NotBits(data_checksum))
         /\ Spells(Flat(member), Position + 32, Bits(Len(out), 32))
         /\ NotBits(data_checksum) \in Seq(Bit) /\ Len(NotBits(data_checksum)) = 32
<1> DEFINE p == Position
           q == Len(out)
           s == Flat(member)
           E == Expected
<1>1. OutIsData /\ PlaceIn(T)
  BY DEF ReaderAt
<1>2. AtTrailer(p, q) \in T
  BY <1>1, Zenon DEF PlaceIn
<1>3. p \in Nat /\ q \in Nat /\ s \in Seq(Bit) /\ E \in Seq(Byte) /\ 0 \in 0..1
  BY ReaderIs
<1>4. Whole(T, s, E) /\ \A n \in Trailers(T) : n[3] + 64 = 8 * Len(member)
  BY DEF WholeRoad
<1>5. AtTrailer(p, q) \in Trailers(T) /\ AtTrailer(p, q)[3] = p
  BY <1>2 DEF Trailers, AtTrailer
<1>6. data_checksum = Crc(E)[q]
  BY <1>1 DEF OutIsData
<1> HIDE DEF p, q, s, E
<1>7. TrailerGoes(s, E, p, q)
  BY <1>2, <1>3, <1>4, NodeGoes
<1>8. q = Len(E) /\ Spells(s, p, NotBits(Crc(E)[q])) /\ Spells(s, p + 32, Bits(q, 32))
  BY <1>7, Zenon DEF TrailerGoes
<1>9. p + 64 = 8 * Len(member)
  BY <1>4, <1>5
<1>10. Crc(E)[q] \in Words
  <2>1. q \in 0..Len(E)
    BY <1>3, <1>8
  <2> QED
    BY <1>3, <2>1, CrcIs
<1> QED
  BY <1>6, <1>8, <1>9, <1>10, WordsAreSequences DEF p, q, s, E

\* The checksum holds.
LEMMA CrcIsRead ==
  ASSUME NEW T, WholeRoad(T), member \in Seq(Byte), Expected \in Seq(Byte), ReaderAt(T), CheckCrc
  PROVE  Arrives(T)'
<1> DEFINE p == Position
           q == Len(out)
           s == Flat(member)
           w == NotBits(data_checksum)
           n == Len(bits)
<1>1. Ready /\ stage = "crc" /\ Consume /\ KeepInBlocks /\ out' = out /\ data_checksum' = data_checksum
  BY CheckCrcIs
<1>2. SameSource /\ Same
  BY <1>1, BlockSteps
<1>3. Held /\ readSourceErrors = 0 /\ OutIsData /\ PlaceIn(T)
  BY <1>1, ReadyMeans
<1>4. p \in Nat /\ q \in Nat /\ s \in Seq(Bit) /\ n \in Nat /\ 8 * sent = p + n
  BY ReaderIs
<1>5. BitsOf = 32 /\ ~InSymbol
  BY <1>1, BitsOfIs DEF BitsOfLaw, InSymbol
<1>6. 32 <= n /\ n < 8 + 32
  BY <1>1, <1>5, ReadyMeans
<1>7. /\ q = Len(Expected) /\ p + 64 = 8 * Len(member) /\ Spells(s, p, w) /\ Spells(s, p + 32, Bits(q, 32))
      /\ w \in Seq(Bit) /\ Len(w) = 32
  BY <1>1, TrailerIsAt
<1>8. n = 32
  <2>1. sent \in Nat /\ Len(member) \in Nat
    BY <1>3, PositionIs DEF Held
  <2>2. p + 64 = 8 * Len(member) /\ 8 * sent = p + n
    BY <1>4, <1>7
  <2> HIDE DEF p, n
  <2> QED
    BY <1>4, <1>6, <2>1, <2>2
<1>9. bits = w
  <2>1. Spells(s, p, bits) /\ bits \in Seq(Bit)
    BY <1>3 DEF Held
  <2>2. Len(w) = Len(bits)
    BY <1>7, <1>8
  <2> HIDE DEF w, s, p
  <2>3. \A i \in 1..Len(w) : bits[i] = w[i]
    <3>1. w \in Seq(Bit) /\ Spells(s, p, w) /\ Len(w) <= Len(bits)
      BY <1>7, <1>8
    <3> QED
      BY <1>4, <2>1, <3>1, WordIsRead
  <2>4. w \in Seq(Bit)
    BY <1>7
  <2> QED
    BY <2>1, <2>2, <2>3, <2>4, SameSeq
<1>10. stage' = "isize"
  BY <1>9, CheckCrcIs DEF ChecksumHolds
<1> HIDE DEF w
<1>11. Held' /\ Position' = p + 32 /\ Len(bits') < 8 /\ readSourceErrors' = 0
  <2>1. Len(w) = BitsOf /\ w \in Seq(Bit) /\ Spells(s, p, w)
    BY <1>5, <1>7
  <2>2. Held' /\ Position' = Position + BitsOf /\ Len(bits') < 8 /\ readSourceErrors' = 0
    BY <1>1, <1>2, <1>5, <2>1, StepTakes
  <2> QED
    BY <1>5, <2>2
<1>12. OutIsData'
  BY <1>1, <1>2, <1>3, SameOut
<1>13. PlaceIn(T)'
  <2>1. Expected' = Expected /\ member' = member
    BY <1>2 DEF Same, Expected
  <2>2. Len(out') = Len(Expected') /\ Position' + 32 = 8 * Len(member')
    <3>1. Position' + 32 = p + 64
      BY <1>4, <1>11
    <3> QED
      BY <1>1, <1>7, <2>1, <3>1
  <2>3. Spells(Flat(member'), Position', Bits(Len(out'), 32))
    BY <1>1, <1>7, <1>11, <2>1
  <2> QED
    BY <1>10, <2>2, <2>3, Zenon DEF PlaceIn
<1> QED
  BY <1>11, <1>12, <1>13 DEF Arrives

\* After the size nothing is left.
LEMMA SizeIsRead ==
  ASSUME NEW T, member \in Seq(Byte), ReaderAt(T), SkipSize
  PROVE  Arrives(T)'
<1> DEFINE p == Position
           q == Len(out)
           s == Flat(member)
           w == Bits(q, 32)
           n == Len(bits)
<1>1. /\ Ready /\ stage = "isize" /\ Consume /\ KeepInBlocks /\ out' = out /\ data_checksum' = data_checksum
      /\ stage' = "done" /\ res' = TINF_DONE
  BY Zenon DEF SkipSize, Finish, outVars
<1>2. SameSource /\ Same
  BY <1>1, BlockSteps
<1>3. Held /\ readSourceErrors = 0 /\ OutIsData /\ PlaceIn(T)
  BY <1>1, ReadyMeans
<1>4. p \in Nat /\ q \in Nat /\ s \in Seq(Bit) /\ n \in Nat /\ 8 * sent = p + n
  BY ReaderIs
<1>5. BitsOf = 32 /\ ~InSymbol
  BY <1>1, BitsOfIs DEF BitsOfLaw, InSymbol
<1>6. 32 <= n
  BY <1>1, <1>5, ReadyMeans
<1>7. q = Len(Expected) /\ p + 32 = 8 * Len(member) /\ Spells(s, p, w)
  BY <1>1, <1>3, Zenon DEF PlaceIn
<1>8. w \in Seq(Bit) /\ Len(w) = 32
  <2>1. 32 \in Nat
    OBVIOUS
  <2> QED
    BY <1>4, <2>1, BitsAre
<1>9. sent = Len(member)
  <2>1. sent \in Nat /\ Len(member) \in Nat /\ sent <= Len(member)
    BY <1>3, PositionIs DEF Held
  <2> HIDE DEF p, n
  <2> QED
    BY <1>4, <1>6, <1>7, <2>1
<1> HIDE DEF w, s
<1>10. Held' /\ Len(bits') < 8 /\ readSourceErrors' = 0
  <2>1. Len(w) = BitsOf
    BY <1>5, <1>8
  <2> QED
    BY <1>1, <1>2, <1>5, <1>7, <1>8, <2>1, StepTakes DEF s
<1>11. OutIsData'
  BY <1>1, <1>2, <1>3, SameOut
<1>12. PlaceIn(T)'
  <2>1. Expected' = Expected /\ member' = member /\ sent' = sent
    BY <1>2 DEF Same, Expected, SameSource
  <2>2. Len(out') = Len(Expected') /\ sent' = Len(member')
    BY <1>1, <1>7, <1>9, <2>1
  <2>3. p + 32 = 8 * Len(member') /\ Spells(Flat(member'), p, Bits(Len(out'), 32))
    BY <1>1, <1>7, <2>1 DEF s, w
  <2> HIDE DEF p
  <2>4. \E x \in Nat : x + 32 = 8 * Len(member') /\ Spells(Flat(member'), x, Bits(Len(out'), 32))
    BY <1>4, <2>3, Zenon
  <2> QED
    BY <1>1, <2>2, <2>4, Zenon DEF PlaceIn
<1> QED
  BY <1>10, <1>11, <1>12 DEF Arrives

\* What is not about to be read is not read.
LEMMA OtherSteps ==
  ASSUME NEW T, ReaderAt(T)
  PROVE  /\ ~ReadExtraLength /\ ~SkipString /\ ~SkipHeaderCrc
         /\ ~StoredByte /\ ~TreeSizes /\ ~TreeCodes /\ ~CodeLengthSymbol /\ ~RepeatLength /\ ~BuildTrees
<1>1. PlaceIn(T)
  BY DEF ReaderAt
<1>2. stage \notin {"stored", "tree sizes", "tree codes", "code length", "repeat", "trees"}
  BY <1>1 DEF PlaceIn
<1>3. ASSUME stage = "header", todo # <<>> PROVE Head(todo) \notin {"xlen", "name", "comment", "hcrc"}
  <2>1. InHeader
    BY <1>1, <1>3 DEF PlaceIn
  <2> QED
    BY <1>3, <2>1 DEF InHeader
<1>4. ~ReadExtraLength /\ ~SkipString /\ ~SkipHeaderCrc
  BY <1>3, Zenon DEF ReadExtraLength, SkipString, SkipHeaderCrc, Field
<1>5. ~StoredByte /\ ~TreeSizes /\ ~TreeCodes /\ ~CodeLengthSymbol /\ ~RepeatLength /\ ~BuildTrees
  BY <1>2, Zenon DEF StoredByte, TreeSizes, TreeCodes, CodeLengthSymbol, RepeatLength, BuildTrees
<1> QED
  BY <1>4, <1>5

\* Every step of the reader arrives at a place of the road.
LEMMA ReaderGoes ==
  ASSUME NEW T, WholeRoad(T), member \in Seq(Byte), HeaderWritten, Expected \in Seq(Byte), ReaderAt(T),
         ParseHeader \/ Inflate
  PROVE  ReaderAt(T)'
<1>1. CASE ParseHeader
  <2>1. CheckField \/ ReadFlags \/ SkipBytes \/ HeaderDone
    BY <1>1, OtherSteps, Zenon DEF ParseHeader
  <2>2. Arrives(T)'
    BY <2>1, FieldIsChecked, FlagsAreRead, BytesAreSkipped, HeaderIsRead
  <2> QED
    BY <2>2, ArrivedThere
<1>2. CASE Inflate
  <2>1. \/ BlockHeader \/ StoredLength \/ LiteralOrMatch \/ LengthBits \/ DistanceSymbol \/ DistanceBits
        \/ CopyByte \/ CheckCrc \/ SkipSize
    BY <1>2, OtherSteps, Zenon DEF Inflate
  <2>2. Arrives(T)'
    BY <2>1, BlockIsBegun, StoredLengthIsRead, SymbolIsActedOn, LengthIsTaken, DistanceSymbolIsTaken,
       DistanceIsTaken, ByteIsCopied, CrcIsRead, SizeIsRead
  <2> QED
    BY <2>2, ArrivedThere
<1> QED
  BY <1>1, <1>2

-----------------------------------------------------------------------------
(***************************************************************************)
(* The writer and the reader.                                              *)
(***************************************************************************)
\* A step of the reader, past the first.
KeepsMember == UNCHANGED writerVars /\ intact' = intact /\ gaveUp' = gaveUp

\* Parsing the header leaves the member alone.
LEMMA HeaderKeeps ==
  ASSUME KeepInHeader
  PROVE  KeepsMember
BY DEF KeepInHeader, KeepsMember, sourceVars

\* So does expanding.
LEMMA BlocksKeep ==
  ASSUME KeepInBlocks
  PROVE  KeepsMember
BY DEF KeepInBlocks, KeepsMember, sourceVars

\* Parsing the header happens in a call.
LEMMA HeaderNeverIdles ==
  ASSUME ParseHeader
  PROVE  KeepsMember /\ stage # "idle" /\ stage' # "idle"
<1>0. "done" # "idle" /\ "block" # "idle" /\ "header" # "idle"
  OBVIOUS
<1>1. CASE CheckField
  BY <1>0, <1>1, HeaderKeeps, Zenon DEF CheckField, Field, Finish
<1>2. CASE ReadFlags
  BY <1>0, <1>2, HeaderKeeps, Zenon DEF ReadFlags, Field, Finish
<1>3. CASE SkipBytes
  BY <1>0, <1>3, HeaderKeeps, Zenon DEF SkipBytes, Field
<1>4. CASE ReadExtraLength
  BY <1>0, <1>4, HeaderKeeps, Zenon DEF ReadExtraLength, Field
<1>5. CASE SkipString
  BY <1>0, <1>5, HeaderKeeps, Zenon DEF SkipString, Field
<1>6. CASE SkipHeaderCrc
  BY <1>0, <1>6, HeaderKeeps, Zenon DEF SkipHeaderCrc, Field
<1>7. CASE HeaderDone
  <2>1. /\ UNCHANGED <<writerVars, sent, held, silent, silences, clockVars, gaveUp, header, intact,
                       todo, count, blockVars, outVars>>
        /\ stage = "header" /\ stage' = "block"
    BY <1>7, Zenon DEF HeaderDone
  <2>2. KeepsMember
    BY <2>1, Zenon DEF KeepsMember
  <2> QED
    BY <1>0, <2>1, <2>2
<1> QED
  BY <1>1, <1>2, <1>3, <1>4, <1>5, <1>6, <1>7, Zenon DEF ParseHeader

\* So does expanding.
LEMMA BlocksNeverIdle ==
  ASSUME Inflate
  PROVE  KeepsMember /\ stage # "idle" /\ stage' # "idle"
<1>r. Ready => stage # "idle"
  BY DEF Ready, Running
<1>0. /\ "done" # "idle" /\ "block" # "idle" /\ "crc" # "idle" /\ "stored" # "idle" /\ "stored length" # "idle"
      /\ "symbol" # "idle" /\ "tree sizes" # "idle" /\ "tree codes" # "idle" /\ "code length" # "idle"
      /\ "repeat" # "idle" /\ "trees" # "idle" /\ "length" # "idle" /\ "distance" # "idle" /\ "offset" # "idle"
      /\ "copy" # "idle" /\ "isize" # "idle"
  OBVIOUS
<1>a. \A code : Finish(code) => stage' # "idle"
  BY <1>0, Zenon DEF Finish
<1>b. \A rest : EndOfBlock(rest) => stage' # "idle"
  BY <1>0, Zenon DEF EndOfBlock
<1>c. \A byte, next : Put(byte, next) /\ next # "idle" => stage' # "idle"
  BY <1>a, Zenon DEF Put
<1>d. \A more : MoreLengths(more) => stage' # "idle"
  BY <1>0, Zenon DEF MoreLengths
<1>e. BadTrees => stage' # "idle"
  BY <1>a, Zenon DEF BadTrees
<1>1. CASE BlockHeader
  BY <1>0, <1>a, <1>r, <1>1, BlocksKeep, Zenon DEF BlockHeader
<1>2. CASE StoredLength
  BY <1>0, <1>a, <1>b, <1>r, <1>2, BlocksKeep, Zenon DEF StoredLength
<1>3. CASE StoredByte
  <2>1. \E next : Put(Taken, next) /\ next # "idle"
    BY <1>0, <1>3, Zenon DEF StoredByte
  <2> QED
    BY <1>c, <1>r, <1>3, <2>1, BlocksKeep, Zenon DEF StoredByte
<1>4. CASE TreeSizes
  BY <1>0, <1>r, <1>4, BlocksKeep, Zenon DEF TreeSizes
<1>5. CASE TreeCodes
  BY <1>0, <1>r, <1>5, BlocksKeep, Zenon DEF TreeCodes
<1>6. CASE CodeLengthSymbol
  BY <1>0, <1>d, <1>e, <1>r, <1>6, BlocksKeep, Zenon DEF CodeLengthSymbol
<1>7. CASE RepeatLength
  BY <1>d, <1>e, <1>r, <1>7, BlocksKeep, Zenon DEF RepeatLength
<1>8. CASE BuildTrees
  BY <1>0, <1>r, <1>8, BlocksKeep, Zenon DEF BuildTrees
<1>9. CASE LiteralOrMatch
  BY <1>0, <1>a, <1>b, <1>c, <1>r, <1>9, BlocksKeep, Zenon DEF LiteralOrMatch
<1>10. CASE LengthBits
  BY <1>0, <1>r, <1>10, BlocksKeep, Zenon DEF LengthBits
<1>11. CASE DistanceSymbol
  BY <1>0, <1>a, <1>r, <1>11, BlocksKeep, Zenon DEF DistanceSymbol
<1>12. CASE DistanceBits
  BY <1>0, <1>a, <1>r, <1>12, BlocksKeep, Zenon DEF DistanceBits
<1>13. CASE CopyByte
  <2>1. \E byte, next : Put(byte, next) /\ next # "idle"
    BY <1>0, <1>13, Zenon DEF CopyByte
  <2> QED
    BY <1>c, <1>r, <1>13, <2>1, BlocksKeep, Zenon DEF CopyByte
<1>14. CASE CheckCrc
  BY <1>0, <1>a, <1>r, <1>14, BlocksKeep, Zenon DEF CheckCrc
<1>15. CASE SkipSize
  BY <1>0, <1>a, <1>r, <1>15, BlocksKeep, Zenon DEF SkipSize
<1> QED
  BY <1>1, <1>2, <1>3, <1>4, <1>5, <1>6, <1>7, <1>8, <1>9, <1>10, <1>11, <1>12, <1>13, <1>14, <1>15, Zenon DEF Inflate

\* So does fetching, and a byte that was given up stays so.
LEMMA FetchNeverIdles ==
  ASSUME Fetch
  PROVE  /\ UNCHANGED writerVars /\ intact' = intact /\ stage' = stage /\ stage # "idle"
         /\ ~gaveUp' => ~gaveUp
<1>1. UNCHANGED <<writerVars, intact, stage>> /\ stage # "idle"
  BY Zenon DEF Fetch, Running
<1>2. gaveUp' = gaveUp \/ gaveUp' = TRUE
  BY Zenon DEF Fetch, Give, StartWaiting, StopWaiting, Delay, GiveUp
<1>3. ASSUME ~gaveUp' PROVE ~gaveUp
  BY <1>2, <1>3
<1> QED
  BY <1>1, <1>3, Zenon

\* What the writer wrote stays as it is.
LEMMA WriterStays ==
  ASSUME UNCHANGED writerVars
  PROVE  WriterInv => WriterInv'
<1>1. /\ input' = input /\ chunk' = chunk /\ inputBuffer' = inputBuffer /\ src' = src /\ hash_table' = hash_table
      /\ outbits' = outbits /\ member' = member /\ checksum' = checksum /\ summed' = summed /\ written' = written
  BY DEF writerVars
<1>2. Expected' = Expected /\ slen' = slen /\ IsLast' = IsLast /\ Stream' = Stream
  BY <1>1 DEF Expected, slen, IsLast, Stream
<1>3. Compressed' = Compressed /\ Summed' = Summed
  BY <1>1, <1>2, Zenon DEF Compressed, Summed
<1>4. BufferHolds' = BufferHolds
  BY <1>1, <1>2, Zenon DEF BufferHolds
<1>5. WriterTypes => WriterTypes'
  BY <1>1, <1>2, <1>4, Zenon DEF WriterTypes
<1>6. SumKept' = SumKept /\ HeaderWritten' = HeaderWritten
  BY <1>1, <1>2, <1>3, Zenon DEF SumKept, HeaderWritten
<1>7. SoFar' = SoFar /\ Here' = Here
  BY <1>1, <1>2, <1>3, Zenon DEF SoFar, Here
<1>8. Writing => Writing'
  BY <1>2, <1>7, Zenon DEF Writing
<1>9. Finished => Finished'
  BY <1>1, <1>2, Zenon DEF Finished
<1> QED
  BY <1>1, <1>5, <1>6, <1>8, <1>9, Zenon DEF WriterInv

\* The inductive invariant.
GmInv ==
  /\ stage # "idle" => written
  /\ stage = "idle" => out = <<>> /\ bits = <<>> /\ data_checksum = CrcStart /\ ~gaveUp /\ intact
  /\ intact /\ ~gaveUp => WriterInv /\ ReaderInv

\* The types of what was written.
LEMMA WriterMeans ==
  ASSUME WriterInv
  PROVE  /\ member \in Seq(Byte) /\ Expected \in Seq(Byte) /\ HeaderWritten /\ SizeFits(input)
<1>1. input \in Inputs /\ member \in Seq(Byte)
  BY DEF WriterInv, WriterTypes
<1>2. Expected \in Seq(Byte) /\ SizeFits(input)
  BY <1>1, InputIs DEF Expected
<1> QED
  BY <1>1, <1>2 DEF WriterInv

\* A step of the writer keeps the invariant.
LEMMA WriterGoes ==
  ASSUME GmInv, Write
  PROVE  GmInv'
<1>1. WriterStep /\ UNCHANGED <<sourceVars, readerVars>>
  BY DEF Write
<1>2. ~written
  BY <1>1, Zenon DEF WriterStep, NextBlock, SumByte, Match, Literal, EndBlock, EndMember, BlockOpen
<1>3. stage = "idle"
  BY <1>2 DEF GmInv
<1>4. /\ stage' = stage /\ out' = out /\ bits' = bits /\ data_checksum' = data_checksum /\ intact' = intact
      /\ gaveUp' = gaveUp
  BY <1>1 DEF sourceVars, readerVars, outVars
<1>5. out = <<>> /\ bits = <<>> /\ data_checksum = CrcStart /\ ~gaveUp /\ intact
  BY <1>3 DEF GmInv
<1>6. WriterInv
  BY <1>5 DEF GmInv
<1>7. WriterInv'
  BY <1>1, <1>2, <1>6, BlockBegins, SumGoesOn, MatchIsWritten, LiteralIsWritten, BlockIsEnded, MemberIsEnded
     DEF WriterStep
<1>8. ReaderInv'
  BY <1>3, <1>4, Zenon DEF ReaderInv
<1> QED
  BY <1>3, <1>4, <1>5, <1>7, <1>8, Zenon DEF GmInv

\* So does the beginning of a call,
LEMMA ReadingBegins ==
  ASSUME GmInv, BeginRead
  PROVE  GmInv'
<1>1. written /\ stage = "idle" /\ stage' = "header" /\ written' = written
  BY DEF BeginRead
<1>2. out = <<>> /\ bits = <<>> /\ data_checksum = CrcStart /\ WriterInv
  BY <1>1 DEF GmInv
<1>3. ASSUME intact' PROVE WriterInv' /\ ReaderInv'
  <2>1. UNCHANGED writerVars
    BY <1>3, Zenon DEF BeginRead, Undisturbed, Disturbed, writerVars
  <2>2. WriterInv'
    BY <1>2, <2>1, WriterStays
  <2>3. ReaderInv'
    BY <1>1, <1>2, <1>3, ReadBegins
  <2> QED
    BY <2>2, <2>3
<1>4. "header" # "idle"
  OBVIOUS
<1> QED
  BY <1>1, <1>3, <1>4, Zenon DEF GmInv

\* a byte that is fetched,
LEMMA ByteIsFetched ==
  ASSUME GmInv, Fetch
  PROVE  GmInv'
<1>1. /\ UNCHANGED writerVars /\ intact' = intact /\ stage' = stage /\ stage # "idle"
      /\ ~gaveUp' => ~gaveUp
  BY FetchNeverIdles
<1>2. written'
  BY <1>1, Zenon DEF GmInv, writerVars
<1>3. ASSUME intact', ~gaveUp' PROVE WriterInv' /\ ReaderInv'
  <2>1. intact /\ ~gaveUp
    BY <1>1, <1>3
  <2>2. WriterInv /\ ReaderInv
    BY <2>1, Zenon DEF GmInv
  <2>3. PICK T : WholeRoad(T) /\ ReaderAt(T)
    BY <1>1, <2>2, Zenon DEF ReaderInv
  <2>4. member \in Seq(Byte)
    BY <2>2, WriterMeans
  <2>5. ReaderAt(T)'
    BY <1>3, <2>3, <2>4, FetchKeeps
  <2>6. Same
    BY <1>3, FetchIs
  <2>7. WholeRoad(T)'
    BY <2>3, <2>6, RoadStays
  <2>8. WriterInv'
    BY <1>1, <2>2, WriterStays
  <2> QED
    BY <2>5, <2>7, <2>8, Zenon DEF ReaderInv
<1> QED
  BY <1>1, <1>2, <1>3, Zenon DEF GmInv

\* and a step of the reader.
LEMMA ReadingGoesOn ==
  ASSUME GmInv, ParseHeader \/ Inflate
  PROVE  GmInv'
<1>1. KeepsMember /\ stage # "idle" /\ stage' # "idle"
  BY HeaderNeverIdles, BlocksNeverIdle
<1>2. written'
  BY <1>1, Zenon DEF GmInv, KeepsMember, writerVars
<1>3. ASSUME intact', ~gaveUp' PROVE WriterInv' /\ ReaderInv'
  <2>1. intact /\ ~gaveUp
    BY <1>1, <1>3, Zenon DEF KeepsMember
  <2>2. WriterInv /\ ReaderInv
    BY <2>1, Zenon DEF GmInv
  <2>3. PICK T : WholeRoad(T) /\ ReaderAt(T)
    BY <1>1, <2>2, Zenon DEF ReaderInv
  <2>4. member \in Seq(Byte) /\ Expected \in Seq(Byte) /\ HeaderWritten
    BY <2>2, WriterMeans
  <2>5. ReaderAt(T)'
    BY <2>3, <2>4, ReaderGoes
  <2>6. Same
    BY <1>1 DEF Same, KeepsMember, writerVars
  <2>7. WholeRoad(T)'
    BY <2>3, <2>6, RoadStays
  <2>8. WriterInv'
    BY <1>1, <2>2, WriterStays DEF KeepsMember
  <2> QED
    BY <2>5, <2>7, <2>8, Zenon DEF ReaderInv
<1> QED
  BY <1>1, <1>2, <1>3, Zenon DEF GmInv

\* A pause, or nothing at all.
LEMMA NothingHappens ==
  ASSUME GmInv, UNCHANGED <<writerVars, readerVars>>, sent' = sent, held' = held, gaveUp' = gaveUp,
         readSourceErrors' = readSourceErrors
  PROVE  GmInv'
<1>1. UNCHANGED writerVars /\ UNCHANGED readerVars
  OBVIOUS
<1>2. /\ Same /\ SameStage /\ bits' = bits /\ intact' = intact /\ stage' = stage /\ written' = written
      /\ out' = out /\ data_checksum' = data_checksum
  BY <1>1 DEF Same, SameStage, writerVars, readerVars, blockVars, outVars, match
<1>3. ASSUME WriterInv, ReaderInv PROVE ReaderInv'
  <2>1. SUFFICES ASSUME stage # "idle" PROVE ReaderInv'
    BY <1>2, Zenon DEF ReaderInv
  <2>2. PICK T : WholeRoad(T) /\ ReaderAt(T)
    BY <1>3, <2>1, Zenon DEF ReaderInv
  <2>3. Held /\ readSourceErrors = 0 /\ OutIsData /\ Tight /\ PlaceIn(T)
    BY <2>2 DEF ReaderAt
  <2>4. WholeRoad(T)' /\ member' = member
    BY <1>2, <2>2, RoadStays DEF Same
  <2>5. Position' = Position /\ Held'
    BY <1>2, <2>3, <2>4 DEF Position, Held
  <2>6. OutIsData'
    BY <1>2, <2>3, SameOut
  <2>7. BitsOf' = BitsOf /\ InSymbol' = InSymbol /\ TreeOf' = TreeOf
    BY <1>2, SameBits
  <2>8. Tight'
    BY <1>2, <2>3, <2>4, <2>5, <2>7 DEF Tight
  <2>9. PlaceIn(T)'
    <3>1. CASE stage # "done"
      BY <1>2, <2>3, <2>5, <3>1, SamePlace
    <3>2. CASE stage = "done"
      <4>1. /\ Len(out) = Len(Expected) /\ res = TINF_DONE /\ sent = Len(member)
            /\ \E p \in Nat : p + 32 = 8 * Len(member) /\ Spells(Flat(member), p, Bits(Len(out), 32))
        BY <2>3, <3>2, Zenon DEF PlaceIn
      <4>2. Expected' = Expected /\ res' = res
        BY <1>2 DEF Same, Expected, SameStage
      <4>3. /\ stage' = "done" /\ Len(out') = Len(Expected') /\ res' = TINF_DONE /\ sent' = Len(member')
            /\ \E p \in Nat : p + 32 = 8 * Len(member') /\ Spells(Flat(member'), p, Bits(Len(out'), 32))
        BY <1>2, <2>4, <3>2, <4>1, <4>2
      <4> QED
        BY <4>3, Zenon DEF PlaceIn
    <3> QED
      BY <3>1, <3>2
  <2> QED
    BY <2>3, <2>4, <2>5, <2>6, <2>8, <2>9, Zenon DEF ReaderInv, ReaderAt
<1>4. WriterInv => WriterInv'
  BY <1>1, WriterStays
<1> QED
  BY <1>2, <1>3, <1>4, Zenon DEF GmInv

\* Every step keeps the invariant.
LEMMA GmStep ==
  ASSUME GmInv, [Next]_vars
  PROVE  GmInv'
<1>1. CASE Write
  BY <1>1, WriterGoes
<1>2. CASE Read
  BY <1>2, ReadingBegins, ByteIsFetched, ReadingGoesOn DEF Read
<1>3. CASE Sender
  <2>1. UNCHANGED <<writerVars, readerVars>>
    BY <1>3, Zenon DEF Sender
  <2>2. sent' = sent /\ held' = held /\ gaveUp' = gaveUp /\ readSourceErrors' = readSourceErrors
    BY <1>3, Zenon DEF Sender, Pause, Resume
  <2> QED
    BY <2>1, <2>2, NothingHappens
<1>4. CASE UNCHANGED vars
  <2>1. UNCHANGED <<writerVars, sourceVars, readerVars>>
    BY <1>4 DEF vars
  <2>2. sent' = sent /\ held' = held /\ gaveUp' = gaveUp /\ readSourceErrors' = readSourceErrors
    BY <2>1, Zenon DEF sourceVars
  <2>3. UNCHANGED <<writerVars, readerVars>>
    BY <2>1, Zenon
  <2> QED
    BY <2>2, <2>3, NothingHappens
<1> QED
  BY <1>1, <1>2, <1>3, <1>4 DEF Next

\* It holds when this library is the writer.
LEMMA GmBegins ==
  ASSUME WriterInit, Init
  PROVE  GmInv
<1>1. ReaderInit /\ SourceInit
  BY DEF Init
<1>2. /\ stage = "idle" /\ out = <<>> /\ bits = <<>> /\ data_checksum = CrcStart /\ gaveUp = FALSE /\ intact = TRUE
  BY <1>1, Zenon DEF ReaderInit, SourceInit
<1>3. WriterInv
  BY WriterBegins
<1>4. ReaderInv
  BY <1>2, Zenon DEF ReaderInv
<1> QED
  BY <1>2, <1>3, <1>4, Zenon DEF GmInv

-----------------------------------------------------------------------------
(***************************************************************************)
(* What comes out in the end.                                              *)
(***************************************************************************)
LEMMA PiecesOfBits ==
  ASSUME NEW f \in Seq(Seq(Bit))
  PROVE  /\ Concat(f) \in Seq(Bit) /\ Size(f, 0) = 0 /\ Size(f, Len(f)) = Len(Concat(f))
         /\ \A k \in 0..Len(f) : Size(f, k) \in Nat /\ Size(f, k) <= Len(Concat(f))
         /\ \A k \in 1..Len(f) : /\ Size(f, k) = Size(f, k - 1) + Len(f[k])
                                 /\ \A i \in 1..Len(f[k]) : Concat(f)[Size(f, k - 1) + i] = f[k][i]
BY Pieces

\* The last four bytes of a member spell its last 32 bits.
LEMMA LastWord ==
  ASSUME NEW m \in Seq(Byte), NEW p \in Nat, NEW w \in Seq(Bit), Len(w) = 32, p + 32 = 8 * Len(m),
         Spells(Flat(m), p, w)
  PROVE  Concat([i \in 1..4 |-> Bits(m[Len(m) - 4 + i], 8)]) = w
<1> DEFINE n == Len(m)
           s == Flat(m)
           f == [i \in 1..4 |-> Bits(m[n - 4 + i], 8)]
           c == Concat(f)
<1>1. n \in Nat /\ n >= 4 /\ p = 8 * (n - 4)
  <2>1. n \in Nat /\ p + 32 = 8 * n
    OBVIOUS
  <2> HIDE DEF n
  <2> QED
    BY <2>1
<1>2. \A k \in 0..n-1, j \in 1..8 : s[8 * k + j] = Bits(m[k + 1], 8)[j]
  BY FlatIs
<1>3. \A i \in 1..32 : s[p + i] = w[i]
  BY DEF Spells
<1>4. ASSUME NEW i \in 1..4 PROVE f[i] = Bits(m[n - 4 + i], 8) /\ f[i] \in Seq(Bit) /\ Len(f[i]) = 8
  <2>1. n - 4 + i \in 1..n
    BY <1>1
  <2>2. m[n - 4 + i] \in Byte /\ 8 \in Nat
    <3> HIDE DEF f
    <3> QED
      BY <2>1
  <2>3. f[i] = Bits(m[n - 4 + i], 8)
    OBVIOUS
  <2> DEFINE x == m[n - 4 + i]
  <2>4. x \in Nat
    <3>1. \A b \in Byte : b \in Nat
      BY DEF Byte
    <3> QED
      BY <2>2, <3>1, Zenon
  <2> HIDE DEF f, x
  <2>5. Bits(x, 8) \in Seq(Bit) /\ Len(Bits(x, 8)) = 8
    BY <2>2, <2>4, BitsAre
  <2> QED
    BY <2>3, <2>5 DEF x
<1>5. f \in Seq(Seq(Bit)) /\ Len(f) = 4
  <2>1. DOMAIN f = 1..4 /\ f = [i \in 1..4 |-> f[i]]
    OBVIOUS
  <2> HIDE DEF f
  <2> QED
    BY <1>4, <2>1
<1> HIDE DEF f, n, s, c
<1> DEFINE z(k) == Size(f, k)
<1>6. /\ c \in Seq(Bit) /\ z(0) = 0 /\ z(Len(f)) = Len(c)
      /\ \A k \in 0..Len(f) : z(k) \in Nat
      /\ \A k \in 1..Len(f) : /\ z(k) = z(k - 1) + Len(f[k])
                              /\ \A i \in 1..Len(f[k]) : c[z(k - 1) + i] = f[k][i]
  <2>1. /\ Concat(f) \in Seq(Bit) /\ Size(f, 0) = 0 /\ Size(f, Len(f)) = Len(Concat(f))
        /\ \A k \in 0..Len(f) : Size(f, k) \in Nat /\ Size(f, k) <= Len(Concat(f))
        /\ \A k \in 1..Len(f) : /\ Size(f, k) = Size(f, k - 1) + Len(f[k])
                                /\ \A i \in 1..Len(f[k]) : Concat(f)[Size(f, k - 1) + i] = f[k][i]
    BY <1>5, PiecesOfBits, Zenon
  <2> QED
    BY <2>1, Zenon DEF c
<1> HIDE DEF z
<1>7. ASSUME NEW k \in 1..4 PROVE z(k) = z(k - 1) + 8
  <2>1. k \in 1..Len(f) /\ Len(f[k]) = 8
    BY <1>4, <1>5
  <2> QED
    BY <1>6, <2>1
<1>8. z(0) = 0 /\ z(1) = 8 /\ z(2) = 16 /\ z(3) = 24 /\ z(4) = 32
  <2>1. 1 \in 1..4 /\ 2 \in 1..4 /\ 3 \in 1..4 /\ 4 \in 1..4
    OBVIOUS
  <2>2. z(1) = z(1 - 1) + 8 /\ z(2) = z(2 - 1) + 8 /\ z(3) = z(3 - 1) + 8 /\ z(4) = z(4 - 1) + 8
    BY <1>7, <2>1
  <2> QED
    BY <1>6, <2>2
<1>9. Len(c) = 32
  BY <1>5, <1>6, <1>8
<1>10. ASSUME NEW i \in 1..32 PROVE c[i] = w[i]
  <2>1. PICK k \in 0..3, j \in 1..8 : i = 8 * k + j
    <3>1. 4 \in Nat /\ i \in 1..8 * 4
      OBVIOUS
    <3>2. \E k \in 0..4-1, j \in 1..8 : i = 8 * k + j
      BY <3>1, Places
    <3> QED
      BY <3>2
  <2>2. k + 1 \in 1..4 /\ k + 1 - 1 = k /\ n - 4 + k \in 0..n-1 /\ n - 4 + (k + 1) = (n - 4 + k) + 1
    BY <1>1
  <2>3. Len(f[k + 1]) = 8 /\ f[k + 1] = Bits(m[n - 4 + (k + 1)], 8)
    BY <1>4, <2>2
  <2>4. c[z(k) + j] = f[k + 1][j]
    <3>1. k + 1 \in 1..Len(f) /\ j \in 1..Len(f[k + 1])
      BY <1>5, <2>2, <2>3
    <3>2. c[z(k + 1 - 1) + j] = f[k + 1][j]
      BY <1>6, <3>1
    <3> QED
      BY <2>2, <3>2
  <2>5. c[i] = Bits(m[(n - 4 + k) + 1], 8)[j]
    <3>1. z(k) = 8 * k
      BY <1>8
    <3> QED
      BY <2>1, <2>2, <2>3, <2>4, <3>1
  <2>6. s[8 * (n - 4 + k) + j] = c[i]
    BY <1>2, <2>2, <2>5
  <2>7. 8 * (n - 4 + k) + j = p + i
    BY <1>1, <2>1
  <2> QED
    BY <1>3, <2>6, <2>7
<1>11. c = w
  BY <1>6, <1>9, <1>10, SameSeq
<1> QED
  BY <1>11 DEF c, f, n

FitsWord(q) == q \div 65536 < 65536
\* The size that the end of the member states is that of the data.
LEMMA SizeIsStated ==
  ASSUME member \in Seq(Byte), NEW q \in Nat, FitsWord(q),
         NEW p \in Nat, p + 32 = 8 * Len(member), Spells(Flat(member), p, Bits(q, 32))
  PROVE  output_size = q
<1>1. 32 \in Nat
  OBVIOUS
<1>2. Bits(q, 32) \in Seq(Bit) /\ Len(Bits(q, 32)) = 32
  <2> DEFINE n == 32
  <2>1. n \in Nat
    OBVIOUS
  <2> HIDE DEF n
  <2>2. Bits(q, n) \in Seq(Bit) /\ Len(Bits(q, n)) = n
    BY <2>1, BitsAre
  <2> QED
    BY <2>2 DEF n
<1>3. Concat([i \in 1..4 |-> Bits(member[Len(member) - 4 + i], 8)]) = Bits(q, 32)
  <2> DEFINE w == Bits(q, 32)
  <2> HIDE DEF w
  <2>1. Concat([i \in 1..4 |-> Bits(member[Len(member) - 4 + i], 8)]) = w
    <3>1. w \in Seq(Bit) /\ Len(w) = 32 /\ Spells(Flat(member), p, w)
      BY <1>2, SMT DEF w
    <3> QED
      BY <3>1, LastWord
  <2> QED
    BY <2>1 DEF w
<1>4. Value(Bits(q, 32)) = q
  BY ValueOfWord, SMT DEF FitsWord
<1> QED
  BY <1>3, <1>4, Zenon DEF output_size

\* The invariant says that what was compressed comes out.
LEMMA WholeArrives ==
  ASSUME GmInv
  PROVE  RoundTrip
<1> SUFFICES ASSUME intact, ~gaveUp
             PROVE  /\ Len(out) <= Len(Expected) /\ out = SubSeq(Expected, 1, Len(out))
                    /\ stage = "done" =>
                         res = TINF_DONE /\ out = Expected /\ sent = Len(member) /\ output_size = Len(out)
  BY DEF RoundTrip
<1>1. WriterInv /\ ReaderInv
  BY DEF GmInv
<1>2. member \in Seq(Byte) /\ Expected \in Seq(Byte) /\ SizeFits(input)
  BY <1>1, WriterMeans
<1>3. CASE stage = "idle"
  <2>1. out = <<>> /\ stage # "done"
    BY <1>3 DEF GmInv
  <2> QED
    BY <1>2, <2>1
<1>4. CASE stage # "idle"
  <2>1. PICK T : ReaderAt(T)
    BY <1>1, <1>4, Zenon DEF ReaderInv
  <2>2. OutIsData /\ PlaceIn(T)
    BY <2>1 DEF ReaderAt
  <2> DEFINE E == Expected
             q == Len(out)
  <2>3. /\ out \in Seq(Byte) /\ q \in Nat /\ q <= Len(E) /\ E \in Seq(Byte)
        /\ \A i \in 1..q : out[i] = E[i]
    BY <1>2, <2>2 DEF OutIsData
  <2>4. out = SubSeq(E, 1, q)
    <3> HIDE DEF E
    <3>1. 1 \in 1..Len(E) + 1 /\ q \in 1 - 1..Len(E) /\ q - 1 + 1 = q
      BY <2>3
    <3>2. /\ SubSeq(E, 1, q) \in Seq(Byte) /\ Len(SubSeq(E, 1, q)) = q
          /\ \A x \in 1..q : SubSeq(E, 1, q)[x] = E[x]
      <4>1. /\ SubSeq(E, 1, q) \in Seq(Byte) /\ Len(SubSeq(E, 1, q)) = q - 1 + 1
            /\ \A x \in 1..q-1+1 : SubSeq(E, 1, q)[x] = E[1 + x - 1]
        BY <2>3, <3>1, Part
      <4> QED
        BY <2>3, <3>1, <4>1
    <3> QED
      BY <2>3, <3>2, SameSeq
  <2>5. ASSUME stage = "done"
        PROVE  res = TINF_DONE /\ out = E /\ sent = Len(member) /\ output_size = q
    <3>1. /\ q = Len(E) /\ res = TINF_DONE /\ sent = Len(member)
          /\ \E p \in Nat : p + 32 = 8 * Len(member) /\ Spells(Flat(member), p, Bits(q, 32))
      BY <2>2, <2>5, Zenon DEF PlaceIn
    <3>2. out = E
      BY <2>3, <3>1, SameSeq
    <3>3. FitsWord(q)
      BY <1>2, <3>1, SMT DEF SizeFits, Expected, FitsWord
    <3>4. output_size = q
      BY <1>2, <2>3, <3>1, <3>3, SizeIsStated
    <3> QED
      BY <3>1, <3>2, <3>4
  <2> QED
    BY <2>3, <2>4, <2>5
<1> QED
  BY <1>3, <1>4

\* What uzlib_compress makes of an input, whatever its chunks and whatever its hash table
\* held from the chunk before, and what arrives of it whole, however slowly, is expanded by
\* gzUncompress to the input: to a part of it at every moment, and to all of it in the end,
\* when nothing is left in the stream and the size that was found at its end is right.
THEOREM MemberComesBack ==
  WriterInit /\ Spec => []RoundTrip
<1>1. WriterInit /\ Init => GmInv
  BY GmBegins
<1>2. GmInv /\ [Next]_vars => GmInv'
  BY GmStep
<1>3. GmInv => RoundTrip
  BY WholeArrives
<1> QED
  BY <1>1, <1>2, <1>3, PTL DEF Spec

-----------------------------------------------------------------------------
(***************************************************************************)
(* The clock, whoever wrote the member and whatever befalls it.            *)
(***************************************************************************)
\* A deadline that does not lie beyond the wrap is that many turns away.
ClockInv ==
  /\ now \in 0..LastTick /\ timeout \in 0..LastTick /\ waited \in Nat
  /\ waiting /\ timeout >= targz_read_timeout /\ waited <= targz_read_timeout =>
       now = timeout - targz_read_timeout + waited

\* Where the clock is left alone,
LEMMA ClockStays ==
  ASSUME clockVars' = clockVars
  PROVE  ClockInv => ClockInv'
BY DEF clockVars, ClockInv, LastTick

\* where a wait begins: a deadline past the wrap is less than the timeout;
LEMMA WaitBegins ==
  ASSUME ClockInv, StartWaiting
  PROVE  ClockInv'
<1> DEFINE C == ClockSize
           t == targz_read_timeout
<1>1. t \in Nat /\ C \in Nat /\ t < C
  BY ClockAssumption
<1>2. now' = now /\ waiting' = TRUE /\ timeout' = (now + t) % C /\ waited' = 0
  BY DEF StartWaiting, Deadline
<1>3. now \in 0..C - 1
  BY DEF ClockInv, LastTick
<1> HIDE DEF C, t
<1>4. CASE now + t < C
  <2>1. (now + t) % C = now + t
    BY <1>1, <1>3, <1>4, ModUnique
  <2> QED
    BY <1>1, <1>2, <1>3, <1>4, <2>1 DEF ClockInv, LastTick, C, t
<1>5. CASE ~(now + t < C)
  <2>1. now + t = C * 1 + (now + t - C) /\ now + t - C \in 0..C - 1
    BY <1>1, <1>3, <1>5
  <2>2. (now + t) % C = now + t - C
    BY <1>1, <2>1, ModUnique
  <2> QED
    BY <1>1, <1>2, <1>3, <1>5, <2>2 DEF ClockInv, LastTick, C, t
<1> QED
  BY <1>4, <1>5

\* where a turn of the loop passes;
LEMMA TurnPasses ==
  ASSUME ClockInv, Delay
  PROVE  ClockInv'
<1> DEFINE C == ClockSize
           t == targz_read_timeout
<1>1. t \in Nat /\ C \in Nat /\ t < C
  BY ClockAssumption
<1>2. /\ ~(now > timeout) /\ now' = (now + 1) % C /\ waited' = (IF waited > t THEN waited ELSE waited + 1)
      /\ waiting /\ waiting' = waiting /\ timeout' = timeout
  BY DEF Delay, Due
<1>3. /\ now \in 0..C - 1 /\ timeout \in 0..C - 1 /\ waited \in Nat
      /\ timeout >= t /\ waited <= t => now = timeout - t + waited
  BY <1>2 DEF ClockInv, LastTick
<1> HIDE DEF C, t
<1>4. now' \in 0..C - 1
  <2>1. now + 1 \in Nat /\ C > 0
    BY <1>1, <1>3
  <2> QED
    BY <1>1, <1>2, <2>1
<1>5. waited' \in Nat
  BY <1>2, <1>3
<1>6. ASSUME timeout' >= t, waited' <= t PROVE now' = timeout' - t + waited'
  <2>1. waited' = waited + 1 /\ waited + 1 <= t /\ timeout >= t
    BY <1>1, <1>2, <1>3, <1>6
  <2>2. now = timeout - t + waited /\ now + 1 \in 0..C - 1
    BY <1>1, <1>3, <2>1
  <2>3. (now + 1) % C = now + 1
    BY <1>1, <2>2, ModUnique
  <2> QED
    BY <1>1, <1>2, <1>3, <2>1, <2>2, <2>3
<1> QED
  BY <1>2, <1>3, <1>4, <1>5, <1>6 DEF ClockInv, LastTick, C, t

\* and where a wait ends.
LEMMA WaitEnds ==
  ASSUME ClockInv, LeaveLoop, now' = now
  PROVE  ClockInv'
BY ClockAssumption DEF ClockInv, LeaveLoop, LastTick

\* Every step keeps what is said of the clock.
LEMMA ClockStep ==
  ASSUME ClockInv, [Next]_vars
  PROVE  ClockInv'
<1>1. CASE clockVars' = clockVars
  BY <1>1, ClockStays
<1>2. ASSUME UNCHANGED sourceVars PROVE clockVars' = clockVars
  BY <1>2, Zenon DEF sourceVars, clockVars
<1>3. CASE Write
  <2>1. UNCHANGED sourceVars
    BY <1>3, Zenon DEF Write
  <2> QED
    BY <1>1, <1>2, <2>1
<1>4. CASE BeginRead
  <2>1. PICK n, most, time : time \in 0..LastTick /\ Connect(n, most, time)
    <3>1. 0 \in 0..LastTick
      BY ClockAssumption DEF LastTick
    <3> QED
      BY <1>4, <3>1, Zenon DEF BeginRead, Undisturbed, Disturbed
  <2>2. now' = time /\ waiting' = FALSE /\ timeout' = 0 /\ waited' = 0
    BY <2>1, Zenon DEF Connect
  <2> QED
    BY <2>1, <2>2, ClockAssumption DEF ClockInv, LastTick
<1>5. CASE Fetch
  <2>1. CASE Give
    <3>1. clockVars' = clockVars
      BY <2>1, Zenon DEF Give
    <3> QED
      BY <1>1, <3>1
  <2>2. CASE StopWaiting
    <3>1. LeaveLoop /\ now' = now
      BY <2>2, Zenon DEF StopWaiting
    <3> QED
      BY <3>1, WaitEnds
  <2>3. CASE GiveUp
    <3>1. LeaveLoop /\ now' = now
      BY <2>3, Zenon DEF GiveUp
    <3> QED
      BY <3>1, WaitEnds
  <2>4. Give \/ StartWaiting \/ StopWaiting \/ Delay \/ GiveUp
    BY <1>5, Zenon DEF Fetch
  <2> QED
    BY <2>1, <2>2, <2>3, <2>4, WaitBegins, TurnPasses
<1>6. CASE ParseHeader \/ Inflate
  <2>1. clockVars' = clockVars
    BY <1>2, <1>6, Zenon
       DEF ParseHeader, CheckField, ReadFlags, SkipBytes, ReadExtraLength, SkipString, SkipHeaderCrc, HeaderDone,
           KeepInHeader, Inflate, BlockHeader, StoredLength, StoredByte, TreeSizes, TreeCodes, CodeLengthSymbol,
           RepeatLength, BuildTrees, LiteralOrMatch, LengthBits, DistanceSymbol, DistanceBits, CopyByte,
           CheckCrc, SkipSize, KeepInBlocks
  <2> QED
    BY <1>1, <2>1
<1>7. CASE Sender
  <2>1. clockVars' = clockVars
    BY <1>7, Zenon DEF Sender, Pause, Resume, clockVars
  <2> QED
    BY <1>1, <2>1
<1>8. CASE UNCHANGED vars
  <2>1. UNCHANGED sourceVars
    BY <1>8, Zenon DEF vars
  <2> QED
    BY <1>1, <1>2, <2>1
<1> QED
  BY <1>3, <1>4, <1>5, <1>6, <1>7, <1>8, Zenon DEF Next, Read

\* A wait that is given up was longer than the timeout, or its deadline had wrapped.
LEMMA WaitWasLong ==
  ASSUME ClockInv, GiveUp
  PROVE  waited > targz_read_timeout \/ DeadlineWrapped
BY ClockAssumption DEF ClockInv, GiveUp, Due, DeadlineWrapped, LastTick

\* The clock begins at 0.
LEMMA ClockBegins ==
  ASSUME Init
  PROVE  ClockInv
<1>1. SourceInit
  BY DEF Init
<1> QED
  BY <1>1, ClockAssumption DEF SourceInit, ClockInv, LastTick

\* Whoever wrote the stream, and whatever becomes of it: gzReadSourceByte gives a byte up
\* after more than targz_read_timeout turns of its loop, unless the deadline lies beyond the
\* wrap of millis().
THEOREM SilenceIsWaitedFor ==
  Spec => GivesUpAfterTimeout
<1>1. Init => ClockInv
  BY ClockBegins
<1>2. ClockInv /\ [Next]_vars => ClockInv'
  BY ClockStep
<1>3. ClockInv => [GiveUp => waited > targz_read_timeout \/ DeadlineWrapped]_sourceVars
  BY WaitWasLong
<1> QED
  BY <1>1, <1>2, <1>3, PTL DEF Spec, GivesUpAfterTimeout
=============================================================================
