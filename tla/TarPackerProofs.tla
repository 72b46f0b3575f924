--------------------------- MODULE TarPackerProofs ---------------------------
(***************************************************************************)
(* Theorems about packing a folder (module TarPacker), for every block     *)
(* size that is a power of two, every significand, every list of entities, *)
(* every destination and every fault.                                      *)
(*                                                                         *)
(* total_bytes counts what the destination took, and never more than is to *)
(* be written up to where the call is; when it is that much, all that was  *)
(* written is in the archive, block by block where the collected sizes     *)
(* place it. A size rounded to a float never has more blocks than the size *)
(* itself, so a call that returns the estimated size wrote all of them. A  *)
(* reader is shown to find the entries by induction over the list.         *)
(***************************************************************************)
EXTENDS TarPacker, WellFoundedInduction, TLAPS

-----------------------------------------------------------------------------
(***************************************************************************)
(* Numbers: induction over them, and what a recursion over them defines.   *)
(***************************************************************************)
\* A number is so many times n, and the rest.
LEMMA DivMod ==
  ASSUME NEW a \in Nat, NEW n \in Nat \ {0}
  PROVE  a = (a \div n) * n + (a % n) /\ a % n \in 0..n-1 /\ a \div n \in Nat
OBVIOUS

\* A set of naturals that is not empty has a least one.
LEMMA LeastOfNat ==
  ASSUME NEW S \in SUBSET Nat, S # {}
  PROVE  \E x \in S : \A y \in S : x <= y
<1> DEFINE R == OpToRel(<, Nat)
<1>1. PICK x \in S : \A y \in S : ~(<<y, x>> \in R)
  <2> HIDE DEF R
  <2>1. IsWellFoundedOn(R, Nat)
    BY NatLessThanWellFounded DEF R
  <2> QED
    BY <2>1, WFMin
<1>2. \A y \in S : <<y, x>> \in R <=> y < x
  BY DEF OpToRel
<1>3. \A y \in S : ~(y < x)
  BY <1>1, <1>2, Zenon
<1>4. \A y \in S : x <= y
  BY <1>3
<1> QED
  BY <1>4

\* What holds of 0, and of the successor of what it holds of, holds of every natural.
LEMMA Induction ==
  ASSUME NEW S, 0 \in S, \A n \in Nat : n \in S => n + 1 \in S
  PROVE  Nat \subseteq S
<1> DEFINE T == {n \in Nat : n \notin S}
<1>1. SUFFICES ASSUME T # {} PROVE FALSE
  OBVIOUS
<1>2. PICK x \in T : \A y \in T : x <= y
  BY <1>1, LeastOfNat
<1>3. x - 1 \in Nat /\ x - 1 \notin T
  BY <1>2
<1> QED
  BY <1>3

\* Of a recursion over D, which is 0..n or Nat: its steps, and the values that they lead to
\* from the first one. (Names for the provers, which do not match function sets.)
Steps(D, S) == [D \ {0} -> [S -> S]]
Leads(f, D, S, first, step) ==
  f \in [D -> S] /\ f[0] = first /\ \A k \in D \ {0} : f[k] = step[k][f[k - 1]]

\* A recursion over the numbers up to n defines a function.
LEMMA Recursion ==
  ASSUME NEW S, NEW n \in Nat, NEW first \in S, NEW step \in Steps(0..n, S)
  PROVE  \E f : Leads(f, 0..n, S, first, step)
<1> USE DEF Steps, Leads
<1> DEFINE Until(m, f) == Leads(f, 0..m, S, first, step)
           T == {m \in Nat : m <= n => \E f : Until(m, f)}
<1>1. 0 \in T
  <2> Until(0, [k \in 0..0 |-> first])
    OBVIOUS
  <2> QED
    OBVIOUS
<1>2. ASSUME NEW m \in Nat, m \in T PROVE m + 1 \in T
  <2>1. SUFFICES ASSUME m + 1 <= n PROVE \E f : Until(m + 1, f)
    OBVIOUS
  <2>2. PICK f : Until(m, f)
    BY <1>2, <2>1
  <2> DEFINE h == [k \in 0..m+1 |-> IF k <= m THEN f[k] ELSE step[m + 1][f[m]]]
  <2>3. step[m + 1] \in [S -> S] /\ f[m] \in S
    BY <2>1, <2>2
  <2>4. h \in [0..m+1 -> S]
    BY <2>2, <2>3
  <2>5. ASSUME NEW k \in 1..m+1 PROVE h[k] = step[k][h[k - 1]]
    <3>1. k - 1 \in 0..m /\ h[k - 1] = f[k - 1]
      OBVIOUS
    <3>2. CASE k = m + 1
      BY <3>1, <3>2
    <3>3. CASE k <= m
      <4>1. h[k] = f[k] /\ f[k] = step[k][f[k - 1]]
        BY <3>3, <2>2
      <4> QED
        BY <4>1, <3>1
    <3> QED
      BY <3>2, <3>3
  <2>6. h[0] = first
    BY <2>2
  <2>7. Until(m + 1, h)
    <3> HIDE DEF h
    <3> QED
      BY <2>4, <2>5, <2>6
  <2> QED
    <3> HIDE DEF h, Until
    <3> QED
      BY <2>7
<1>3. Nat \subseteq T
  <2> HIDE DEF T
  <2> QED
    BY <1>1, <1>2, Induction
<1>4. PICK f : Until(n, f)
  BY <1>3
<1> QED
  BY <1>4

\* And there is no other: where two recursions take the same steps, they have the same values.
LEMMA OneFunction ==
  ASSUME NEW S, NEW R, NEW n \in Nat, NEW m \in Nat, m <= n, NEW first, NEW step,
         NEW f, NEW g, Leads(f, 0..n, S, first, step), Leads(g, 0..m, R, first, step)
  PROVE  \A k \in 0..m : f[k] = g[k]
<1> DEFINE T == {k \in Nat : k <= m => f[k] = g[k]}
<1>1. 0 \in T
  BY DEF Leads
<1>2. ASSUME NEW k \in Nat, k \in T PROVE k + 1 \in T
  <2>1. SUFFICES ASSUME k + 1 <= m PROVE f[k + 1] = g[k + 1]
    OBVIOUS
  <2>2. k + 1 \in (0..m) \ {0} /\ k + 1 \in (0..n) \ {0} /\ (k + 1) - 1 = k /\ f[k] = g[k]
    BY <1>2, <2>1
  <2>3. f[k + 1] = step[k + 1][f[k]] /\ g[k + 1] = step[k + 1][g[k]]
    BY <2>2 DEF Leads
  <2> QED
    BY <2>2, <2>3
<1>3. Nat \subseteq T
  <2> HIDE DEF T
  <2> QED
    BY <1>1, <1>2, Induction
<1> QED
  BY <1>3

\* A recursion over all numbers defines a function too.
LEMMA RecursionOnNat ==
  ASSUME NEW S, NEW first \in S, NEW step \in Steps(Nat, S)
  PROVE  \E f : Leads(f, Nat, S, first, step)
<1> DEFINE G(n) == CHOOSE g : Leads(g, 0..n, S, first, step)
           f == [n \in Nat |-> G(n)[n]]
<1>1. ASSUME NEW n \in Nat PROVE Leads(G(n), 0..n, S, first, step)
  <2> DEFINE part == [k \in (0..n) \ {0} |-> step[k]]
  <2>1. part \in Steps(0..n, S)
    BY DEF Steps
  <2>2. PICK g : Leads(g, 0..n, S, first, part)
    BY <2>1, Recursion
  <2>3. \A k \in (0..n) \ {0} : part[k] = step[k]
    OBVIOUS
  <2> HIDE DEF part
  <2>4. Leads(g, 0..n, S, first, step)
    BY <2>2, <2>3 DEF Leads
  <2> QED
    BY <2>4
<1> HIDE DEF G
<1>2. ASSUME NEW n \in Nat PROVE G(n)[n] \in S
  BY <1>1 DEF Leads
<1>3. ASSUME NEW n \in Nat PROVE f[n + 1] = step[n + 1][f[n]]
  <2>1. Leads(G(n + 1), 0..n+1, S, first, step) /\ Leads(G(n), 0..n, S, first, step)
    BY <1>1
  <2>2. \A k \in 0..n : G(n + 1)[k] = G(n)[k]
    BY <2>1, OneFunction
  <2>3. n + 1 \in (0..n+1) \ {0} /\ (n + 1) - 1 = n
    OBVIOUS
  <2>4. G(n + 1)[n + 1] = step[n + 1][G(n + 1)[n]]
    BY <2>1, <2>3 DEF Leads
  <2> QED
    BY <2>2, <2>4
<1>4. f[0] = first
  BY <1>1 DEF Leads
<1>5. f \in [Nat -> S]
  BY <1>2
<1>6. ASSUME NEW k \in Nat \ {0} PROVE f[k] = step[k][f[k - 1]]
  <2>1. k - 1 \in Nat /\ (k - 1) + 1 = k
    OBVIOUS
  <2> HIDE DEF f
  <2> QED
    BY <1>3, <2>1
<1> HIDE DEF f
<1> QED
  BY <1>4, <1>5, <1>6 DEF Leads

-----------------------------------------------------------------------------
(***************************************************************************)
(* Blocks, and a size as a float.                                          *)
(***************************************************************************)
LEMMA BlocksAre ==
  ASSUME NEW s \in Nat
  PROVE  /\ Blocks(s) \in Nat
         /\ s <= T_BLOCKSIZE * Blocks(s) /\ T_BLOCKSIZE * Blocks(s) < s + T_BLOCKSIZE
<1> DEFINE a == s + T_BLOCKSIZE - 1
           q == a \div T_BLOCKSIZE
           r == a % T_BLOCKSIZE
<1>1. T_BLOCKSIZE \in Nat \ {0} /\ a \in Nat
  BY BlockAssumption
<1>2. a = q * T_BLOCKSIZE + r /\ r \in 0..T_BLOCKSIZE-1 /\ q \in Nat
  BY <1>1, DivMod
<1>3. Blocks(s) = q
  BY DEF Blocks
<1>4. q * T_BLOCKSIZE = T_BLOCKSIZE * q /\ T_BLOCKSIZE * q \in Nat
  BY <1>1, <1>2
<1> HIDE DEF q, r
<1> QED
  BY <1>1, <1>2, <1>3, <1>4

\* There are as many as it takes, and no more.
LEMMA FewestBlocks ==
  ASSUME NEW s \in Nat, NEW k \in Nat, s <= T_BLOCKSIZE * k
  PROVE  Blocks(s) <= k
<1>1. T_BLOCKSIZE \in Nat \ {0} /\ Blocks(s) \in Nat /\ T_BLOCKSIZE * Blocks(s) < s + T_BLOCKSIZE
  BY BlocksAre, BlockAssumption
<1>2. SUFFICES ASSUME Blocks(s) >= k + 1 PROVE FALSE
  BY <1>1
<1>3. T_BLOCKSIZE * Blocks(s) >= T_BLOCKSIZE * (k + 1)
  BY <1>1, <1>2
<1>4. T_BLOCKSIZE * (k + 1) = T_BLOCKSIZE * k + T_BLOCKSIZE
  BY <1>1
<1> QED
  BY <1>1, <1>3, <1>4

LEMMA TwoIs ==
  /\ Two \in [Nat -> Nat] /\ Two[0] = 1 /\ \A n \in Nat : Two[n + 1] = 2 * Two[n]
<1> DEFINE step == [n \in Nat \ {0} |-> [x \in Nat |-> 2 * x]]
<1>1. PICK f : Leads(f, Nat, Nat, 1, step)
  <2>1. step \in Steps(Nat, Nat)
    BY DEF Steps
  <2> HIDE DEF step
  <2> QED
    BY <2>1, RecursionOnNat
<1>2. f \in [Nat -> Nat] /\ f[0] = 1 /\ \A n \in Nat \ {0} : f[n] = 2 * f[n - 1]
  <2>1. f \in [Nat -> Nat] /\ f[0] = 1 /\ \A n \in Nat \ {0} : f[n] = step[n][f[n - 1]]
    <3> HIDE DEF step
    <3> QED
      BY <1>1 DEF Leads
  <2>2. ASSUME NEW n \in Nat \ {0} PROVE f[n] = 2 * f[n - 1]
    <3>1. n - 1 \in Nat /\ f[n - 1] \in Nat /\ f[n] = step[n][f[n - 1]]
      <4> HIDE DEF step
      <4> QED
        BY <2>1
    <3> QED
      BY <3>1
  <2> QED
    BY <2>1, <2>2
<1>3. f = [n \in Nat |-> IF n = 0 THEN 1 ELSE 2 * f[n - 1]]
  BY <1>2
<1>4. Two = [n \in Nat |-> IF n = 0 THEN 1 ELSE 2 * Two[n - 1]]
  BY <1>3 DEF Two
<1>5. Two[0] = 1 /\ \A n \in Nat : Two[n + 1] = 2 * Two[n]
  <2>1. \A n \in Nat : Two[n] = IF n = 0 THEN 1 ELSE 2 * Two[n - 1]
    BY <1>4
  <2>2. ASSUME NEW n \in Nat PROVE Two[n + 1] = 2 * Two[n]
    <3>1. n + 1 \in Nat /\ n + 1 # 0 /\ (n + 1) - 1 = n
      OBVIOUS
    <3>2. Two[n + 1] = 2 * Two[(n + 1) - 1]
      BY <2>1, <3>1
    <3> QED
      BY <3>1, <3>2
  <2> QED
    BY <2>1, <2>2
<1> DEFINE T == {n \in Nat : Two[n] \in Nat}
<1>6. Nat \subseteq T
  <2>1. 0 \in T
    BY <1>5
  <2>2. ASSUME NEW n \in Nat, n \in T PROVE n + 1 \in T
    BY <1>5, <2>2
  <2> HIDE DEF T
  <2> QED
    BY <2>1, <2>2, Induction
<1>7. Two \in [Nat -> Nat]
  BY <1>4, <1>6
<1> QED
  BY <1>5, <1>7

LEMMA Powers ==
  \A n \in Nat : Two[n] \in Nat /\ n < Two[n]
<1> DEFINE T == {n \in Nat : n < Two[n]}
<1>1. 0 \in T
  BY TwoIs
<1>2. ASSUME NEW n \in Nat, n \in T PROVE n + 1 \in T
  <2>1. Two[n] \in Nat /\ Two[n + 1] = 2 * Two[n] /\ n < Two[n]
    BY <1>2, TwoIs
  <2> QED
    BY <2>1
<1>3. Nat \subseteq T
  <2> HIDE DEF T
  <2> QED
    BY <1>1, <1>2, Induction
<1> QED
  BY <1>3, TwoIs

\* A power of two divides the greater ones.
LEMMA PowerDivides ==
  ASSUME NEW m \in Nat, NEW n \in Nat
  PROVE  \E q \in Nat : Two[m + n] = q * Two[m]
<1> DEFINE T == {k \in Nat : \E q \in Nat : Two[m + k] = q * Two[m]}
<1>1. 0 \in T
  <2>1. Two[m + 0] = 1 * Two[m]
    BY TwoIs
  <2> QED
    BY <2>1
<1>2. ASSUME NEW k \in Nat, k \in T PROVE k + 1 \in T
  <2>1. PICK q \in Nat : Two[m + k] = q * Two[m]
    BY <1>2
  <2>2. m + k \in Nat /\ m + (k + 1) = (m + k) + 1
    OBVIOUS
  <2>3. Two[m + (k + 1)] = 2 * Two[m + k]
    BY <2>2, TwoIs
  <2>4. 2 * (q * Two[m]) = (2 * q) * Two[m]
    BY Powers
  <2> QED
    BY <2>1, <2>3, <2>4
<1>3. Nat \subseteq T
  <2> HIDE DEF T
  <2> QED
    BY <1>1, <1>2, Induction
<1> QED
  BY <1>3

\* The unit of a size is the least power of two of which it has less than 2^FloatBits.
LEMMA UnitIs ==
  ASSUME NEW s \in Nat
  PROVE  \E e \in Nat : /\ Unit(s) = Two[e]
                        /\ \A d \in Nat : Holds(s, d) => e <= d
<1> DEFINE H == {e \in Nat : e <= s /\ Holds(s, e)}
           IsLeast(e) == Holds(s, e) /\ \A d \in 0..e-1 : ~Holds(s, d)
<1>1. Holds(s, s)
  <2>1. Two[s] \in Nat /\ s < Two[s] /\ Two[FloatBits] \in Nat /\ 0 < Two[FloatBits]
    BY Powers, BlockAssumption
  <2>2. \A x, y \in Nat : y > 0 => x <= x * y
    OBVIOUS
  <2>3. Two[s] <= Two[s] * Two[FloatBits] /\ Two[s] * Two[FloatBits] \in Nat
    BY <2>1, <2>2
  <2> QED
    BY <2>1, <2>3 DEF Holds
<1>2. PICK m \in H : \A d \in H : m <= d
  <2>1. H \in SUBSET Nat /\ H # {}
    BY <1>1
  <2> HIDE DEF H
  <2> QED
    BY <2>1, LeastOfNat
<1>3. m \in 0..s /\ IsLeast(m)
  BY <1>2
<1> DEFINE e == CHOOSE e \in 0..s : IsLeast(e)
<1>4. e \in 0..s /\ IsLeast(e)
  <2> HIDE DEF IsLeast
  <2> QED
    BY <1>3
<1>5. Unit(s) = Two[e]
  BY DEF Unit
<1>6. ASSUME NEW d \in Nat, Holds(s, d) PROVE e <= d
  <2> HIDE DEF e
  <2> QED
    BY <1>4, <1>6
<1> HIDE DEF e
<1> QED
  BY <1>4, <1>5, <1>6

\* Rounding does not add a block: the unit of a size divides a block.
LEMMA FloatBlocks ==
  ASSUME NEW s \in Nat, s < T_BLOCKSIZE * Two[FloatBits]
  PROVE  Float(s) \in Nat /\ Blocks(Float(s)) \in Nat /\ Blocks(Float(s)) <= Blocks(s)
<1>1. PICK e \in Nat : /\ Unit(s) = Two[e]
                       /\ \A d \in Nat : Holds(s, d) => e <= d
  BY UnitIs
<1>2. PICK n \in Nat : T_BLOCKSIZE = Two[n]
  BY PowerAssumption
<1>3. e <= n
  BY <1>1, <1>2 DEF Holds
<1>4. PICK q \in Nat : T_BLOCKSIZE = q * Unit(s)
  <2>1. n - e \in Nat /\ e + (n - e) = n
    BY <1>3
  <2>2. \E q \in Nat : Two[e + (n - e)] = q * Two[e]
    BY <2>1, PowerDivides
  <2> QED
    BY <2>1, <2>2, <1>1, <1>2
<1> DEFINE u == Unit(s)
           down == s \div u
           r == s % u
           K == Blocks(s)
<1>5. u \in Nat \ {0}
  BY <1>1, Powers
<1>6. down \in Nat /\ r \in 0..u-1 /\ s = down * u + r
  BY <1>5, DivMod
<1>7. /\ Float(s) \in {u * down, u * (down + 1)}
      /\ r = 0 => Float(s) = u * down
  <2>1. Float(s) = u * (IF 2 * r > u \/ (2 * r = u /\ down % 2 = 1) THEN down + 1 ELSE down)
    BY DEF Float
  <2> HIDE DEF u, down, r
  <2> QED
    BY <2>1, <1>5
<1> HIDE DEF u, down, r
<1>8. K \in Nat /\ s <= T_BLOCKSIZE * K
  BY BlocksAre
<1> HIDE DEF K
<1>9. T_BLOCKSIZE * K = u * (q * K) /\ q * K \in Nat
  BY <1>4, <1>5, <1>8 DEF u
<1>10. Float(s) \in Nat
  BY <1>5, <1>6, <1>7
<1>11. Float(s) <= T_BLOCKSIZE * K
  <2>1. CASE r = 0
    BY <2>1, <1>5, <1>6, <1>7, <1>8
  <2>2. CASE r # 0
    <3> DEFINE k == q * K
    <3>1. k \in Nat /\ T_BLOCKSIZE * K = u * k
      BY <1>9
    <3> HIDE DEF k
    <3>2. k >= down + 1
      <4>1. SUFFICES ASSUME k <= down PROVE FALSE
        BY <3>1, <1>6
      <4>2. u * k <= u * down /\ u * down = down * u
        BY <4>1, <3>1, <1>5, <1>6
      <4> QED
        BY <4>2, <3>1, <1>5, <1>6, <1>8, <2>2
    <3>3. u * (down + 1) <= u * k /\ u * down <= u * k
      BY <3>1, <3>2, <1>5, <1>6
    <3> QED
      BY <3>1, <3>3, <1>7
  <2> QED
    BY <2>1, <2>2
<1> QED
  BY <1>8, <1>10, <1>11, FewestBlocks, BlocksAre DEF K

-----------------------------------------------------------------------------
(***************************************************************************)
(* What pack_tar_init expects.                                             *)
(***************************************************************************)
LEMMA EstimateIs ==
  ASSUME NEW d \in Seq(DirEntity)
  PROVE  \E f \in [0..Len(d) -> Nat] :
           /\ Estimate(d) = f[Len(d)] /\ f[0] = 2 * T_BLOCKSIZE
           /\ \A i \in 1..Len(d) : f[i] = f[i - 1] + tar_entity_size(d[i].size)
<1> DEFINE n == Len(d)
           b == 2 * T_BLOCKSIZE
           step == [k \in (0..n) \ {0} |-> [x \in Nat |-> x + tar_entity_size(d[k].size)]]
           Sum(g) == [i \in 0..n |-> IF i = 0 THEN b ELSE g[i - 1] + tar_entity_size(d[i].size)]
           f == CHOOSE g : g = Sum(g)
<1>1. \A k \in 1..n : tar_entity_size(d[k].size) \in Nat
  <2> TAKE k \in 1..n
  <2>1. d[k] \in DirEntity
    OBVIOUS
  <2>2. d[k].size \in Nat
    BY <2>1 DEF DirEntity
  <2>3. Blocks(d[k].size) \in Nat /\ T_BLOCKSIZE \in Nat
    BY <2>2, BlocksAre, BlockAssumption
  <2> QED
    BY <2>3 DEF tar_entity_size
<1>2. PICK F : Leads(F, 0..n, Nat, b, step)
  <2>1. step \in Steps(0..n, Nat)
    BY <1>1 DEF Steps
  <2>2. b \in Nat /\ n \in Nat
    BY BlockAssumption
  <2> HIDE DEF step, b, n
  <2> QED
    BY <2>1, <2>2, Recursion
<1>3. /\ F \in [0..n -> Nat] /\ F[0] = b
      /\ \A i \in 1..n : F[i] = F[i - 1] + tar_entity_size(d[i].size)
  <2>1. F \in [0..n -> Nat] /\ F[0] = b /\ \A i \in (0..n) \ {0} : F[i] = step[i][F[i - 1]]
    <3> HIDE DEF step, b
    <3> QED
      BY <1>2 DEF Leads
  <2>2. ASSUME NEW i \in 1..n PROVE F[i] = F[i - 1] + tar_entity_size(d[i].size)
    <3>1. i - 1 \in 0..n /\ i \in (0..n) \ {0}
      OBVIOUS
    <3>2. F[i - 1] \in Nat /\ F[i] = step[i][F[i - 1]]
      <4> HIDE DEF step
      <4> QED
        BY <2>1, <3>1
    <3> QED
      BY <3>1, <3>2
  <2> QED
    BY <2>1, <2>2
<1>4. F = Sum(F)
  BY <1>3
<1>5. f = Sum(f)
  <2> HIDE DEF Sum
  <2> QED
    BY <1>4
<1>6. f[0] = b /\ \A i \in 1..n : f[i] = f[i - 1] + tar_entity_size(d[i].size)
  <2> HIDE DEF f
  <2>1. \A i \in 0..n : f[i] = IF i = 0 THEN b ELSE f[i - 1] + tar_entity_size(d[i].size)
    BY <1>5, Zenon
  <2> QED
    BY <2>1
<1> DEFINE T == {i \in Nat : i <= n => f[i] = F[i]}
<1>7. Nat \subseteq T
  <2>1. 0 \in T
    BY <1>3, <1>6
  <2>2. ASSUME NEW i \in Nat, i \in T PROVE i + 1 \in T
    <3>1. SUFFICES ASSUME i + 1 <= n PROVE f[i + 1] = F[i + 1]
      OBVIOUS
    <3>2. i + 1 \in 1..n /\ (i + 1) - 1 = i /\ f[i] = F[i]
      BY <2>2, <3>1
    <3> HIDE DEF f
    <3> QED
      BY <3>2, <1>3, <1>6
  <2> HIDE DEF T
  <2> QED
    BY <2>1, <2>2, Induction
<1>8. Estimate(d) = f[n]
  BY DEF Estimate
<1>9. f[n] = F[n]
  BY <1>7
<1> QED
  BY <1>3, <1>8, <1>9

\* The place of the header of an entity of a list.
PlaceIn(d, e) == (Estimate(SubSeq(d, 1, e - 1)) - 2 * T_BLOCKSIZE) \div T_BLOCKSIZE + 1

LEMMA PrefixEstimates ==
  ASSUME NEW d \in Seq(DirEntity)
  PROVE  /\ Estimate(SubSeq(d, 1, 0)) = 2 * T_BLOCKSIZE
         /\ Estimate(SubSeq(d, 1, Len(d))) = Estimate(d)
         /\ \A i \in 0..Len(d) : Estimate(SubSeq(d, 1, i)) \in Nat
         /\ \A i \in 1..Len(d) : Estimate(SubSeq(d, 1, i))
                                   = Estimate(SubSeq(d, 1, i - 1)) + tar_entity_size(d[i].size)
<1>1. PICK f \in [0..Len(d) -> Nat] :
        /\ Estimate(d) = f[Len(d)] /\ f[0] = 2 * T_BLOCKSIZE
        /\ \A i \in 1..Len(d) : f[i] = f[i - 1] + tar_entity_size(d[i].size)
  BY EstimateIs
<1>2. ASSUME NEW n \in 0..Len(d) PROVE Estimate(SubSeq(d, 1, n)) = f[n]
  <2> DEFINE p == SubSeq(d, 1, n)
  <2>1. p \in Seq(DirEntity) /\ Len(p) = n /\ \A i \in 1..n : p[i] = d[i]
    OBVIOUS
  <2> HIDE DEF p
  <2>2. PICK g \in [0..n -> Nat] :
          /\ Estimate(p) = g[n] /\ g[0] = 2 * T_BLOCKSIZE
          /\ \A i \in 1..n : g[i] = g[i - 1] + tar_entity_size(p[i].size)
    BY <2>1, EstimateIs
  <2> DEFINE T == {i \in Nat : i <= n => g[i] = f[i]}
  <2>3. Nat \subseteq T
    <3>1. 0 \in T
      BY <2>2, <1>1
    <3>2. ASSUME NEW i \in Nat, i \in T PROVE i + 1 \in T
      <4>1. SUFFICES ASSUME i + 1 <= n PROVE g[i + 1] = f[i + 1]
        OBVIOUS
      <4>2. i + 1 \in 1..n /\ i + 1 \in 1..Len(d) /\ (i + 1) - 1 = i /\ g[i] = f[i]
        BY <3>2, <4>1
      <4>3. p[i + 1] = d[i + 1]
        BY <4>2, <2>1
      <4>4. g[i + 1] = g[(i + 1) - 1] + tar_entity_size(p[i + 1].size)
        BY <4>2, <2>2
      <4>5. f[i + 1] = f[(i + 1) - 1] + tar_entity_size(d[i + 1].size)
        BY <4>2, <1>1
      <4> QED
        BY <4>2, <4>3, <4>4, <4>5
    <3> HIDE DEF T
    <3> QED
      BY <3>1, <3>2, Induction
  <2> QED
    BY <2>2, <2>3 DEF p
<1>3. SubSeq(d, 1, Len(d)) = d /\ Len(d) \in Nat
  OBVIOUS
<1>4. ASSUME NEW i \in 1..Len(d)
      PROVE  Estimate(SubSeq(d, 1, i))
               = Estimate(SubSeq(d, 1, i - 1)) + tar_entity_size(d[i].size)
  <2>1. i \in 0..Len(d) /\ i - 1 \in 0..Len(d)
    OBVIOUS
  <2> QED
    BY <2>1, <1>1, <1>2
<1>5. Estimate(SubSeq(d, 1, 0)) = 2 * T_BLOCKSIZE
  <2>1. 0 \in 0..Len(d)
    OBVIOUS
  <2> QED
    BY <2>1, <1>1, <1>2
<1> QED
  BY <1>1, <1>2, <1>3, <1>4, <1>5

\* The header of an entity is where the blocks of those before it end.
LEMMA PlaceIs ==
  ASSUME NEW d \in Seq(DirEntity)
  PROVE  /\ PlaceIn(d, 1) = 1
         /\ \A e \in 1..Len(d)+1 : PlaceIn(d, e) \in Nat \ {0}
         /\ \A e \in 1..Len(d) : PlaceIn(d, e + 1) = PlaceIn(d, e) + 1 + Blocks(d[e].size)
         /\ Estimate(d) = T_BLOCKSIZE * (PlaceIn(d, Len(d) + 1) + 1)
<1> DEFINE E(i) == Estimate(SubSeq(d, 1, i))
           T == {i \in Nat : i <= Len(d) => \E k \in Nat : E(i) = T_BLOCKSIZE * (2 + k)}
           P(i, k) == PlaceIn(d, i + 1) = k + 1
<1>1. T_BLOCKSIZE \in Nat \ {0} /\ Len(d) \in Nat
  BY BlockAssumption
<1>2. \A i \in 1..Len(d) : Blocks(d[i].size) \in Nat
  <2> TAKE i \in 1..Len(d)
  <2>1. d[i] \in DirEntity
    OBVIOUS
  <2>2. d[i].size \in Nat
    BY <2>1 DEF DirEntity
  <2> QED
    BY <2>2, BlocksAre
<1>3. /\ E(0) = 2 * T_BLOCKSIZE /\ E(Len(d)) = Estimate(d)
      /\ \A i \in 1..Len(d) : E(i) = E(i - 1) + T_BLOCKSIZE * (1 + Blocks(d[i].size))
  BY PrefixEstimates DEF tar_entity_size
<1>4. PlaceIn(d, 1) = (E(0) - 2 * T_BLOCKSIZE) \div T_BLOCKSIZE + 1
      /\ \A i \in Nat : PlaceIn(d, i + 1) = (E(i) - 2 * T_BLOCKSIZE) \div T_BLOCKSIZE + 1
  <2>1. \A i \in Nat : (i + 1) - 1 = i
    OBVIOUS
  <2>2. 1 - 1 = 0
    OBVIOUS
  <2> QED
    BY <2>1, <2>2 DEF PlaceIn
<1> HIDE DEF E
<1>5. ASSUME NEW i \in Nat, NEW k \in Nat, E(i) = T_BLOCKSIZE * (2 + k) PROVE PlaceIn(d, i + 1) = k + 1
  <2>1. E(i) - 2 * T_BLOCKSIZE = k * T_BLOCKSIZE + 0
    BY <1>1, <1>5
  <2>2. (k * T_BLOCKSIZE + 0) \div T_BLOCKSIZE = k
    BY <1>1
  <2> QED
    BY <2>1, <2>2, <1>4
<1>6. ASSUME NEW i \in 1..Len(d), NEW k \in Nat, E(i - 1) = T_BLOCKSIZE * (2 + k)
      PROVE  E(i) = T_BLOCKSIZE * (2 + (k + 1 + Blocks(d[i].size)))
  <2>1. E(i) = T_BLOCKSIZE * (2 + k) + T_BLOCKSIZE * (1 + Blocks(d[i].size))
    BY <1>3, <1>6
  <2> QED
    BY <2>1, <1>1, <1>2
<1>7. Nat \subseteq T
  <2>1. 0 \in T
    <3>1. E(0) = T_BLOCKSIZE * (2 + 0)
      BY <1>1, <1>3
    <3> QED
      BY <3>1
  <2>2. ASSUME NEW i \in Nat, i \in T PROVE i + 1 \in T
    <3>1. SUFFICES ASSUME i + 1 <= Len(d) PROVE \E k \in Nat : E(i + 1) = T_BLOCKSIZE * (2 + k)
      OBVIOUS
    <3>2. PICK k \in Nat : E(i) = T_BLOCKSIZE * (2 + k)
      BY <2>2, <3>1
    <3>3. i + 1 \in 1..Len(d) /\ (i + 1) - 1 = i
      BY <3>1
    <3>4. E(i + 1) = T_BLOCKSIZE * (2 + (k + 1 + Blocks(d[i + 1].size)))
      BY <3>2, <3>3, <1>6
    <3>5. k + 1 + Blocks(d[i + 1].size) \in Nat
      BY <3>3, <1>2
    <3> QED
      BY <3>4, <3>5
  <2> HIDE DEF T
  <2> QED
    BY <2>1, <2>2, Induction
<1>8. ASSUME NEW e \in 1..Len(d)+1 PROVE PlaceIn(d, e) \in Nat \ {0}
  <2>1. e - 1 \in Nat /\ e - 1 <= Len(d) /\ (e - 1) + 1 = e
    OBVIOUS
  <2>2. PICK k \in Nat : E(e - 1) = T_BLOCKSIZE * (2 + k)
    BY <2>1, <1>7
  <2> QED
    BY <2>1, <2>2, <1>5
<1>9. ASSUME NEW e \in 1..Len(d)
      PROVE  PlaceIn(d, e + 1) = PlaceIn(d, e) + 1 + Blocks(d[e].size)
  <2>1. e - 1 \in Nat /\ e - 1 <= Len(d) /\ (e - 1) + 1 = e
    OBVIOUS
  <2>2. PICK k \in Nat : E(e - 1) = T_BLOCKSIZE * (2 + k)
    BY <2>1, <1>7
  <2>3. E(e) = T_BLOCKSIZE * (2 + (k + 1 + Blocks(d[e].size))) /\ k + 1 + Blocks(d[e].size) \in Nat
    BY <2>2, <1>2, <1>6
  <2>4. PlaceIn(d, e + 1) = (k + 1 + Blocks(d[e].size)) + 1
    BY <2>3, <1>5
  <2>5. PlaceIn(d, e) = k + 1
    BY <2>1, <2>2, <1>5
  <2> QED
    BY <2>4, <2>5, <1>2
<1>10. PlaceIn(d, 1) = 1
  <2>1. E(0) = T_BLOCKSIZE * (2 + 0) /\ 0 + 1 = 1
    BY <1>1, <1>3
  <2> QED
    BY <2>1, <1>5
<1>11. Estimate(d) = T_BLOCKSIZE * (PlaceIn(d, Len(d) + 1) + 1)
  <2>1. Len(d) \in T
    <3> HIDE DEF T
    <3> QED
      BY <1>1, <1>7
  <2>2. PICK k \in Nat : E(Len(d)) = T_BLOCKSIZE * (2 + k)
    BY <2>1
  <2>3. PlaceIn(d, Len(d) + 1) = k + 1
    BY <1>1, <2>2, <1>5
  <2> QED
    BY <2>2, <2>3, <1>3
<1> QED
  BY <1>8, <1>9, <1>10, <1>11

-----------------------------------------------------------------------------
(***************************************************************************)
(* The inductive invariant.                                                *)
(***************************************************************************)
\* Entity e has its header where it belongs, and n blocks behind it.
Laid(d, a, e, n) ==
  /\ PlaceIn(d, e) + n <= Len(a)
  /\ a[PlaceIn(d, e)].kind = "header" /\ a[PlaceIn(d, e)].entry = e
\* They hold what was collected.
Chunk(size, e, k) == Data(e, T_BLOCKSIZE * (k - 1), Least(T_BLOCKSIZE, size - T_BLOCKSIZE * (k - 1)))
Filled(d, a, e, n) ==
  /\ a[PlaceIn(d, e)].size = d[e].size
  /\ \A k \in 1..n : a[PlaceIn(d, e) + k] = Chunk(d[e].size, e, k)
\* There is no other header.
OnlyHeaders(d, a) ==
  \A b \in 1..Len(a) : a[b].kind = "header" => a[b].entry \in 1..Len(d) /\ b = PlaceIn(d, a[b].entry)
\* The entities before e are in the archive.
Complete(d, a, e, kept) ==
  \A i \in 1..e-1 : /\ Laid(d, a, i, Blocks(d[i].size))
                    /\ kept => Filled(d, a, i, Blocks(d[i].size))
\* And so are z zero blocks.
Zeros(d, a, z) == \A k \in 0..z-1 : a[PlaceIn(d, Len(d) + 1) + k] = Zero
FullArchive(d, a, kept) ==
  /\ Len(a) = PlaceIn(d, Len(d) + 1) + 1
  /\ OnlyHeaders(d, a) /\ Complete(d, a, Len(d) + 1, kept) /\ Zeros(d, a, 2)

Headed == at \in {"open", "body"}
\* The blocks that are to be written up to here.
Written == PlaceIn(dirEntities, entity) - 1 + c + (IF Headed THEN 1 ELSE 0)
WholeSoFar ==
  /\ Len(archive) = Written
  /\ OnlyHeaders(dirEntities, archive) /\ Complete(dirEntities, archive, entity, ~changed)
  /\ Headed => /\ Laid(dirEntities, archive, entity, c)
               /\ ~changed => Filled(dirEntities, archive, entity, c)
  /\ entity > Len(dirEntities) => Zeros(dirEntities, archive, c)

Listed ==
  /\ tar_prefix # NULL => tar_prefix \in Seq(Paths) /\ Len(tar_prefix) = 1
  /\ \A e \in Entities : dirEntities[e].size < T_BLOCKSIZE * Two[FloatBits]
  /\ at = "init" => /\ entity = 1 /\ archive = <<>> /\ total_bytes = 0
                    /\ _tar_estimated_filesize = 0 /\ packed \in {NoReturn, Failed}
  /\ at # "init" => /\ Len(_tarEntities) = Len(dirEntities)
                    /\ \A e \in Entities : _tarEntities[e].size = dirEntities[e].size
                    /\ _tar_estimated_filesize = Estimate(dirEntities)
Stages ==
  /\ at # "body" /\ entity <= Len(dirEntities) => c = 0 /\ position = 0
  /\ at = "init" => c = 0
  /\ Headed => entity <= Len(dirEntities) /\ dirEntities[entity].size > 0
  /\ at = "body" => c < Blocks(dirEntities[entity].size)
  /\ at = "header" /\ entity > Len(dirEntities) => c \in 0..1
  /\ ~gz => total_bytes >= 0
Steady ==
  ~changed => /\ \A e \in Entities : files[e] = dirEntities[e].size
              /\ at = "body" => position = T_BLOCKSIZE * c
Bounded ==
  Running => /\ total_bytes <= T_BLOCKSIZE * Written
             /\ total_bytes = T_BLOCKSIZE * Written => WholeSoFar
Planned == 
  Exact /\ ~refused =>
    /\ Running => total_bytes = T_BLOCKSIZE * Written
    /\ \A e \in 1..entity-1 : Laid(dirEntities, archive, e, 0)
    /\ ~Running /\ packed # Failed => packed = _tar_estimated_filesize
Ended ==
  ~Running /\ packed = _tar_estimated_filesize => FullArchive(dirEntities, archive, ~changed)
PkIInv == PkTypeOK /\ Listed /\ Stages /\ Steady /\ Bounded /\ Planned /\ Ended

-----------------------------------------------------------------------------
(***************************************************************************)
(* Types.                                                                  *)
(***************************************************************************)
\* Paths, and their parts.
LEMMA PathParts ==
  /\ <<>> \in Paths /\ <<"/">> \in Paths /\ <<".">> \in Paths
  /\ \A p, q \in Paths : p \o q \in Paths
  /\ \A s \in Seq(Paths) : Len(s) = 1 => s[1] \in Paths
  /\ \A p \in Paths : /\ Len(p) \in Nat
                      /\ \A m \in Nat \ {0}, n \in 0..Len(p) : SubSeq(p, m, n) \in Paths
<1>1. "/" \in Characters /\ "." \in Characters
  BY DEF Characters
<1>2. \A p, q \in Paths : p \o q \in Paths
  BY DEF Paths
<1>3. \A p \in Paths : Len(p) \in Nat /\ \A m \in Nat \ {0}, n \in 0..Len(p) : SubSeq(p, m, n) \in Paths
  BY DEF Paths
<1>4. <<>> \in Paths /\ <<"/">> \in Paths /\ <<".">> \in Paths
  BY <1>1 DEF Paths
<1>5. \A s \in Seq(Paths) : Len(s) = 1 => s[1] \in Paths
  OBVIOUS
<1> QED
  BY <1>2, <1>3, <1>4, <1>5

LEMMA SavePathIs ==
  ASSUME NEW path \in Paths, NEW prefix,
         prefix # NULL => prefix \in Seq(Paths) /\ Len(prefix) = 1
  PROVE  savepath(path, prefix) \in Paths
<1>1. CASE prefix # NULL
  <2>1. savepath(path, prefix) = prefix[1] \o path
    BY <1>1, Zenon DEF savepath
  <2>2. prefix[1] \in Paths
    <3>1. prefix \in Seq(Paths) /\ Len(prefix) = 1
      BY <1>1
    <3> QED
      BY <3>1, PathParts
  <2> QED
    BY <2>1, <2>2, PathParts
<1>2. CASE prefix = NULL /\ StartsWith(path, FOLDER_SEPARATOR)
  <2>1. savepath(path, prefix) = <<".">> \o path
    BY <1>2, Zenon DEF savepath
  <2> QED
    BY <2>1, PathParts
<1>3. CASE prefix = NULL /\ ~StartsWith(path, FOLDER_SEPARATOR)
  <2>1. savepath(path, prefix) = path
    BY <1>3, Zenon DEF savepath
  <2> QED
    BY <2>1
<1> QED
  BY <1>1, <1>2, <1>3

\* A name is short enough for a header.
LEMMA FittedIs ==
  ASSUME NEW name \in Paths
  PROVE  Fitted(name) \in Paths /\ Len(Fitted(name)) < T_NAMELEN
<1> DEFINE n == IF Len(name) < T_NAMELEN THEN Len(name) ELSE T_NAMELEN - 1
<1>1. T_NAMELEN \in Nat \ 0..2 /\ Len(name) \in Nat
  BY NamesAssumption, PathParts
<1>2. n \in 0..Len(name) /\ n < T_NAMELEN
  BY <1>1
<1>3. Fitted(name) = SubSeq(name, 1, n)
  BY DEF Fitted, Upto
<1> HIDE DEF n
<1>4. Len(SubSeq(name, 1, n)) = n
  BY <1>2 DEF Paths
<1>5. SubSeq(name, 1, n) \in Paths
  BY <1>2, PathParts
<1> QED
  BY <1>2, <1>3, <1>4, <1>5

LEMMA FoundPlace ==
  ASSUME NEW path, NEW from \in Nat, NEW to \in Nat
  PROVE  SelectInSubSeq(path, from, to, IsSlash) \in 0..to
<1> DEFINE I == {i \in from..to : IsSlash(path[i])}
<1>1. SelectInSubSeq(path, from, to, IsSlash) = IF I # {} THEN Min(I) ELSE 0
  BY DEF SelectInSubSeq
<1>2. CASE I # {}
  <2>1. \E x \in I : \A y \in I : x <= y
    <3>1. I \in SUBSET Nat
      OBVIOUS
    <3> HIDE DEF I
    <3> QED
      BY <1>2, <3>1, LeastOfNat
  <2>2. Min(I) \in I
    <3> HIDE DEF I
    <3> QED
      BY <2>1 DEF Min
  <2> QED
    BY <1>1, <1>2, <2>2
<1>3. CASE I = {}
  BY <1>1, <1>3
<1> QED
  BY <1>2, <1>3

LEMMA NameFits ==
  ASSUME NEW p \in Paths, NEW is_dir
  PROVE  th_set_path(p, is_dir) \in Paths /\ Len(th_set_path(p, is_dir)) < T_NAMELEN
<1> DEFINE suffix == IF is_dir /\ p[Len(p)] # "/" THEN <<"/">> ELSE <<>>
           tmp == SelectInSubSeq(p, Len(p) - T_NAMELEN, Len(p), IsSlash)
<1>1. T_NAMELEN \in Nat \ 0..2 /\ Len(p) \in Nat
  BY NamesAssumption, PathParts
<1>2. suffix \in Paths
  <2>1. suffix = <<"/">> \/ suffix = <<>>
    BY Zenon
  <2> HIDE DEF suffix
  <2> QED
    BY <2>1, PathParts
<1>3. th_set_path(p, is_dir)
        = CASE Len(p) <= T_NAMELEN -> Fitted(p \o suffix)
            [] Len(p) > T_NAMELEN /\ tmp = 0 -> <<>>
            [] OTHER -> Fitted(From(p, tmp + 1) \o suffix)
  BY Zenon DEF th_set_path
<1> HIDE DEF suffix, tmp
<1>4. CASE Len(p) <= T_NAMELEN
  <2>1. ~(Len(p) > T_NAMELEN)
    BY <1>1, <1>4
  <2>2. th_set_path(p, is_dir) = Fitted(p \o suffix)
    BY <1>3, <1>4, <2>1, Zenon
  <2> QED
    BY <1>2, <2>2, PathParts, FittedIs
<1>5. CASE Len(p) > T_NAMELEN /\ tmp = 0
  <2>1. ~(Len(p) <= T_NAMELEN)
    BY <1>1, <1>5
  <2>2. th_set_path(p, is_dir) = <<>>
    BY <1>3, <1>5, <2>1, Zenon
  <2>3. Len(<<>>) = 0
    OBVIOUS
  <2> QED
    BY <1>1, <2>2, <2>3, PathParts
<1>6. CASE Len(p) > T_NAMELEN /\ tmp # 0
  <2>1. ~(Len(p) <= T_NAMELEN)
    BY <1>1, <1>6
  <2>2. th_set_path(p, is_dir) = Fitted(From(p, tmp + 1) \o suffix)
    BY <1>3, <1>6, <2>1, Zenon
  <2>3. tmp \in 0..Len(p)
    <3>1. Len(p) - T_NAMELEN \in Nat
      BY <1>1, <1>6
    <3> QED
      BY <1>1, <3>1, FoundPlace DEF tmp
  <2>4. From(p, tmp + 1) \in Paths
    BY <1>1, <2>3, PathParts DEF From
  <2> QED
    BY <1>2, <2>2, <2>4, PathParts, FittedIs
<1> QED
  BY <1>1, <1>4, <1>5, <1>6

-----------------------------------------------------------------------------
(***************************************************************************)
(* The archive grows by a block at a time.                                 *)
(***************************************************************************)
BlockOK(block) == /\ block \in ArchiveBlocks
                  /\ block.kind = "header" => Len(block.name) < T_NAMELEN
ArchiveOK(a) == a \in Seq(ArchiveBlocks) /\ \A b \in 1..Len(a) : BlockOK(a[b])

LEMMA ArchiveTypes ==
  archive \in Seq(ArchiveBlocks)
  /\ (\A b \in 1..Len(archive) : archive[b].kind = "header" => Len(archive[b].name) < T_NAMELEN)
  <=> ArchiveOK(archive)
<1>1. ASSUME archive \in Seq(ArchiveBlocks)
      PROVE  \A b \in 1..Len(archive) : archive[b] \in ArchiveBlocks
  BY <1>1
<1> QED
  BY <1>1 DEF ArchiveOK, BlockOK

LEMMA BlockTypes ==
  /\ BlockOK(Torn) /\ BlockOK(Zero)
  /\ \A e \in Nat, from \in Nat, count \in 1..T_BLOCKSIZE : BlockOK(Data(e, from, count))
<1>1. BlockOK(Torn) /\ BlockOK(Zero)
  BY DEF BlockOK, ArchiveBlocks, Torn, Zero
<1>2. ASSUME NEW e \in Nat, NEW from \in Nat, NEW count \in 1..T_BLOCKSIZE
      PROVE  BlockOK(Data(e, from, count))
  BY DEF BlockOK, ArchiveBlocks, Data
<1> QED
  BY <1>1, <1>2

LEMMA HeaderRecord ==
  ASSUME NEW e \in Nat, NEW size \in Nat, NEW name \in Paths, NEW is_dir \in BOOLEAN, NEW r,
         r = [kind |-> "header", entry |-> e, size |-> size, name |-> name, is_dir |-> is_dir]
  PROVE  /\ r \in ArchiveBlocks
         /\ r.kind = "header" /\ r.entry = e /\ r.size = size /\ r.name = name
<1>1. r \in [kind : {"header"}, entry : Nat, size : Nat, name : Paths, is_dir : BOOLEAN]
  OBVIOUS
<1>2. r \in ArchiveBlocks
  BY <1>1, Zenon DEF ArchiveBlocks
<1>3. r.kind = "header" /\ r.entry = e /\ r.size = size /\ r.name = name
  OBVIOUS
<1> QED
  BY <1>2, <1>3

HeaderOf(e, size, name, is_dir) ==
  LET r == [kind |-> "header", entry |-> e, size |-> size, name |-> name, is_dir |-> is_dir]
  IN  /\ r \in ArchiveBlocks
      /\ r.kind = "header" /\ r.entry = e /\ r.size = size /\ r.name = name

LEMMA TarEntityOf ==
  ASSUME NEW s \in Seq(TarEntity), NEW i \in 1..Len(s)
  PROVE  s[i].savepath \in Paths /\ s[i].is_dir \in BOOLEAN /\ s[i].size \in Nat
<1>1. s[i] \in TarEntity
  OBVIOUS
<1> QED
  BY <1>1 DEF TarEntity

LEMMA HeaderOK ==
  ASSUME PkTypeOK, Listed, at # "init", entity \in Entities, NEW size \in Nat
  PROVE  /\ BlockOK(Header(entity, size))
         /\ Header(entity, size).kind = "header" /\ Header(entity, size).entry = entity
         /\ Header(entity, size).size = size
<1>1. entity \in 1..Len(_tarEntities) /\ entity \in Nat
  BY DEF Listed, Entities
<1>2. _tarEntities \in Seq(TarEntity)
  BY DEF PkTypeOK
<1>3. _tarEntities[entity].savepath \in Paths /\ _tarEntities[entity].is_dir \in BOOLEAN
  BY <1>1, <1>2, TarEntityOf
<1>4. th_name(entity) \in Paths /\ Len(th_name(entity)) < T_NAMELEN
  BY <1>3, NameFits DEF th_name
<1>5. Header(entity, size) = [kind |-> "header", entry |-> entity, size |-> size,
                              name |-> th_name(entity), is_dir |-> _tarEntities[entity].is_dir]
  BY DEF Header
<1> DEFINE name == th_name(entity)
           dir == _tarEntities[entity].is_dir
           r == Header(entity, size)
<1>6. name \in Paths /\ dir \in BOOLEAN
  BY <1>3, <1>4
<1>7. r = [kind |-> "header", entry |-> entity, size |-> size, name |-> name, is_dir |-> dir]
  BY <1>5
<1>8. entity \in Nat
  BY <1>1
<1> HIDE DEF name, dir, r
<1>9. /\ r \in ArchiveBlocks
      /\ r.kind = "header" /\ r.entry = entity /\ r.size = size /\ r.name = name
  <2>1. \A e, n \in Nat, p \in Paths, b \in BOOLEAN : HeaderOf(e, n, p, b)
    BY HeaderRecord DEF HeaderOf
  <2>2. HeaderOf(entity, size, name, dir)
    BY <1>6, <1>8, <2>1, Zenon
  <2> QED
    BY <1>7, <2>2, Zenon DEF HeaderOf
<1> QED
  BY <1>4, <1>9 DEF BlockOK, name, r

Extends(a, b) == /\ Len(a) \in Nat /\ Len(b) \in Nat /\ Len(a) <= Len(b)
                 /\ \A i \in 1..Len(a) : b[i] = a[i]

\* What a destination makes of a block.
LEMMA Taken ==
  ASSUME PkTypeOK, NEW block, BlockOK(block), NEW written \in WriteResults, Took(block, written)
  PROVE  /\ written \in Int /\ written <= T_BLOCKSIZE /\ (~gz => written >= 0)
         /\ ArchiveOK(archive') /\ Extends(archive, archive') /\ refused' \in BOOLEAN
         /\ written = T_BLOCKSIZE => archive' = Append(archive, block) /\ refused' = refused
         /\ written # T_BLOCKSIZE => refused'
         /\ refused => refused'
<1>1. T_BLOCKSIZE \in Nat \ 0..2
  BY BlockAssumption
<1>2. written \in Int /\ written <= T_BLOCKSIZE /\ (~gz => written >= 0)
  <2>1. written \in {T_BLOCKSIZE, -1, 0} \cup ShortWrites /\ (~gz => written \in {T_BLOCKSIZE, 0} \cup ShortWrites)
    BY DEF WriteResults
  <2>2. ShortWrites \subseteq 1..T_BLOCKSIZE-1
    BY EntitiesAssumption
  <2> QED
    BY <1>1, <2>1, <2>2
<1>3. archive \in Seq(ArchiveBlocks) /\ refused \in BOOLEAN /\ Len(archive) \in Nat
  BY DEF PkTypeOK
<1>4. ArchiveOK(archive)
  BY ArchiveTypes DEF PkTypeOK
<1>5. /\ archive' \in {Append(archive, block), Append(archive, Torn), archive}
      /\ written = T_BLOCKSIZE => archive' = Append(archive, block)
  BY DEF Took
<1>6. refused' = (refused \/ written < T_BLOCKSIZE)
  BY DEF Took
<1>7. ASSUME NEW x, BlockOK(x), archive' = Append(archive, x)
      PROVE  ArchiveOK(archive') /\ Extends(archive, archive')
  <2>1. x \in ArchiveBlocks
    BY <1>7 DEF BlockOK
  <2>2. /\ archive' \in Seq(ArchiveBlocks) /\ Len(archive') = Len(archive) + 1
        /\ archive'[Len(archive) + 1] = x
        /\ \A i \in 1..Len(archive) : archive'[i] = archive[i]
    BY <1>3, <1>7, <2>1
  <2>3. \A b \in 1..Len(archive') : b = Len(archive) + 1 \/ b \in 1..Len(archive)
    BY <1>3, <2>2
  <2> QED
    BY <1>3, <1>4, <1>7, <2>2, <2>3 DEF ArchiveOK, Extends
<1>8. ASSUME archive' = archive PROVE ArchiveOK(archive') /\ Extends(archive, archive')
  BY <1>3, <1>4, <1>8 DEF Extends
<1>9. ArchiveOK(archive') /\ Extends(archive, archive')
  BY <1>5, <1>7, <1>8, BlockTypes
<1>10. written # T_BLOCKSIZE => written < T_BLOCKSIZE
  BY <1>1, <1>2
<1>11. refused' \in BOOLEAN /\ (written # T_BLOCKSIZE => refused') /\ (refused => refused')
  BY <1>3, <1>6, <1>10, Zenon
<1>12. written = T_BLOCKSIZE => refused' = refused
  <2>1. written = T_BLOCKSIZE => ~(written < T_BLOCKSIZE)
    BY <1>1
  <2> QED
    BY <1>3, <1>6, <2>1, Zenon
<1> QED
  BY <1>2, <1>5, <1>9, <1>11, <1>12

-----------------------------------------------------------------------------
(***************************************************************************)
(* What is in the archive stays there.                                     *)
(***************************************************************************)
LEMMA LaidStays ==
  ASSUME NEW d, NEW a, NEW b, Extends(a, b), NEW e, NEW n \in Nat,
         PlaceIn(d, e) \in Nat \ {0}, Laid(d, a, e, n)
  PROVE  Laid(d, b, e, n) /\ (Filled(d, a, e, n) => Filled(d, b, e, n))
<1> DEFINE p == PlaceIn(d, e)
<1>1. p \in Nat \ {0} /\ p + n <= Len(a) /\ Len(a) <= Len(b) /\ Len(a) \in Nat /\ Len(b) \in Nat
  BY DEF Laid, Extends
<1>2. \A k \in 0..n : p + k \in 1..Len(a)
  BY <1>1
<1>3. \A k \in 0..n : b[p + k] = a[p + k]
  BY <1>2 DEF Extends
<1>4. b[p] = a[p]
  <2>1. 0 \in 0..n /\ p + 0 = p
    BY <1>1
  <2> QED
    BY <1>3, <2>1
<1>5. Laid(d, b, e, n)
  <2>1. p + n <= Len(b)
    BY <1>1
  <2> QED
    BY <1>4, <2>1 DEF Laid
<1>6. ASSUME Filled(d, a, e, n) PROVE Filled(d, b, e, n)
  <2>1. \A k \in 1..n : k \in 0..n
    OBVIOUS
  <2> QED
    BY <1>3, <1>4, <1>6, <2>1, Zenon DEF Filled
<1> QED
  BY <1>5, <1>6

LEMMA BlocksOf ==
  ASSUME NEW d \in Seq(DirEntity), NEW e \in 1..Len(d)
  PROVE  d[e].size \in Nat /\ d[e].path \in Paths /\ Blocks(d[e].size) \in Nat
<1>1. d[e] \in DirEntity
  OBVIOUS
<1>2. d[e].size \in Nat /\ d[e].path \in Paths
  BY <1>1 DEF DirEntity
<1> QED
  BY <1>2, BlocksAre

LEMMA CompleteStays ==
  ASSUME NEW d \in Seq(DirEntity), NEW a, NEW b, Extends(a, b), NEW e \in 1..Len(d)+1,
         NEW kept, Complete(d, a, e, kept)
  PROVE  Complete(d, b, e, kept)
<1>1. SUFFICES ASSUME NEW i \in 1..e-1
               PROVE  /\ Laid(d, b, i, Blocks(d[i].size))
                      /\ kept => Filled(d, b, i, Blocks(d[i].size))
  BY Zenon DEF Complete
<1>2. i \in 1..Len(d) /\ i \in 1..Len(d)+1
  OBVIOUS
<1>3. Blocks(d[i].size) \in Nat /\ PlaceIn(d, i) \in Nat \ {0}
  BY <1>2, BlocksOf, PlaceIs
<1>4. Laid(d, a, i, Blocks(d[i].size)) /\ (kept => Filled(d, a, i, Blocks(d[i].size)))
  BY Zenon DEF Complete
<1> QED
  BY <1>3, <1>4, LaidStays

\* One more entity is complete.
LEMMA OneMore ==
  ASSUME NEW d \in Seq(DirEntity), NEW a, NEW e \in 1..Len(d), NEW kept, Complete(d, a, e, kept),
         Laid(d, a, e, Blocks(d[e].size)), kept => Filled(d, a, e, Blocks(d[e].size))
  PROVE  Complete(d, a, e + 1, kept)
<1>1. \A i \in 1..(e+1)-1 : i = e \/ i \in 1..e-1
  OBVIOUS
<1> QED
  BY <1>1, Zenon DEF Complete

LEMMA OnlyOneMore ==
  ASSUME NEW d \in Seq(DirEntity), NEW a, NEW b, NEW x, Extends(a, b), Len(b) = Len(a) + 1,
         b[Len(a) + 1] = x, OnlyHeaders(d, a),
         x.kind = "header" => x.entry \in 1..Len(d) /\ Len(a) + 1 = PlaceIn(d, x.entry)
  PROVE  OnlyHeaders(d, b)
<1>1. SUFFICES ASSUME NEW k \in 1..Len(b), b[k].kind = "header"
               PROVE  b[k].entry \in 1..Len(d) /\ k = PlaceIn(d, b[k].entry)
  BY DEF OnlyHeaders
<1>2. k = Len(a) + 1 \/ k \in 1..Len(a)
  BY DEF Extends
<1>3. CASE k = Len(a) + 1
  BY <1>1, <1>3
<1>4. CASE k \in 1..Len(a)
  BY <1>1, <1>4 DEF Extends, OnlyHeaders
<1> QED
  BY <1>2, <1>3, <1>4

\* Two places differ by the blocks between them.
LEMMA PlacesApart ==
  ASSUME NEW d \in Seq(DirEntity), NEW n \in 1..Len(d)+1
  PROVE  \A e \in 1..Len(d)+1 : e < n => PlaceIn(d, e) < PlaceIn(d, n)
<1> DEFINE T == {k \in Nat : k + 1 <= Len(d) + 1 =>
                   \A e \in 1..Len(d)+1 : e < k + 1 => PlaceIn(d, e) < PlaceIn(d, k + 1)}
<1>1. Len(d) \in Nat
  OBVIOUS
<1>2. Nat \subseteq T
  <2>1. 0 \in T
    OBVIOUS
  <2>2. ASSUME NEW k \in Nat, k \in T PROVE k + 1 \in T
    <3>1. SUFFICES ASSUME (k + 1) + 1 <= Len(d) + 1, NEW e \in 1..Len(d)+1, e < (k + 1) + 1
                   PROVE  PlaceIn(d, e) < PlaceIn(d, (k + 1) + 1)
      OBVIOUS
    <3>2. k + 1 \in 1..Len(d) /\ k + 1 \in 1..Len(d)+1
      BY <1>1, <3>1
    <3>3. /\ PlaceIn(d, (k + 1) + 1) = PlaceIn(d, k + 1) + 1 + Blocks(d[k + 1].size)
          /\ Blocks(d[k + 1].size) \in Nat
          /\ PlaceIn(d, e) \in Nat /\ PlaceIn(d, k + 1) \in Nat
      BY <3>2, PlaceIs, BlocksOf
    <3>4. PlaceIn(d, e) <= PlaceIn(d, k + 1)
      <4>1. e = k + 1 \/ e < k + 1
        BY <3>1
      <4>2. e < k + 1 => PlaceIn(d, e) < PlaceIn(d, k + 1)
        BY <2>2, <3>2
      <4> QED
        BY <3>3, <4>1, <4>2
    <3> QED
      BY <3>3, <3>4
  <2> HIDE DEF T
  <2> QED
    BY <2>1, <2>2, Induction
<1>3. n - 1 \in Nat /\ (n - 1) + 1 = n
  OBVIOUS
<1>4. n - 1 \in T
  BY <1>2, <1>3
<1> QED
  BY <1>3, <1>4

-----------------------------------------------------------------------------
(***************************************************************************)
(* Where a call is.                                                        *)
(***************************************************************************)
Size == dirEntities[entity].size
Here == PlaceIn(dirEntities, entity)

LEMMA Facts ==
  ASSUME PkTypeOK
  PROVE  /\ T_BLOCKSIZE \in Nat \ 0..2
         /\ dirEntities \in Seq(DirEntity) /\ Len(dirEntities) \in Nat
         /\ entity \in Nat /\ entity \in 1..Len(dirEntities)+1 /\ Here \in Nat \ {0}
         /\ c \in Nat /\ position \in Nat /\ total_bytes \in Int /\ Written \in Nat
         /\ archive \in Seq(ArchiveBlocks) /\ Len(archive) \in Nat
         /\ Estimate(dirEntities) \in Nat
         /\ _tar_estimated_filesize \in Nat /\ packed \in Int /\ returned \in Int
<1>1. T_BLOCKSIZE \in Nat \ 0..2
  BY BlockAssumption
<1>2. dirEntities \in Seq(DirEntity) /\ entity \in 1..Len(dirEntities)+1
  BY DEF PkTypeOK
<1>3. Len(dirEntities) \in Nat /\ Len(dirEntities) + 1 \in 1..Len(dirEntities)+1
  BY <1>2
<1>4. Here \in Nat \ {0}
  BY <1>2, PlaceIs DEF Here
<1>5. /\ Estimate(dirEntities) = T_BLOCKSIZE * (PlaceIn(dirEntities, Len(dirEntities) + 1) + 1)
      /\ PlaceIn(dirEntities, Len(dirEntities) + 1) \in Nat
  BY <1>2, <1>3, PlaceIs
<1>6. Estimate(dirEntities) \in Nat
  BY <1>1, <1>5
<1>7. /\ c \in Nat /\ position \in Nat /\ total_bytes \in Int
      /\ archive \in Seq(ArchiveBlocks)
      /\ _tar_estimated_filesize \in Nat /\ packed \in Int /\ returned \in Int
  BY DEF PkTypeOK
<1>8. Written \in Nat
  BY <1>4, <1>7 DEF Written, Here
<1>9. Len(archive) \in Nat
  BY <1>7
<1> QED
  BY <1>1, <1>2, <1>3, <1>4, <1>6, <1>7, <1>8, <1>9

\* Of these, the numbers.
LEMMA Counts ==
  ASSUME PkTypeOK
  PROVE  /\ T_BLOCKSIZE \in Nat \ 0..2 /\ entity \in Nat /\ Here \in Nat \ {0}
         /\ c \in Nat /\ position \in Nat /\ total_bytes \in Int /\ Written \in Nat
         /\ packed \in Int /\ returned \in Int
BY Facts, Zenon

\* And where the list ends.
LEMMA Bounds ==
  ASSUME PkTypeOK
  PROVE  /\ dirEntities \in Seq(DirEntity) /\ Len(dirEntities) \in Nat
         /\ entity \in Nat /\ entity \in 1..Len(dirEntities)+1
BY Facts, Zenon

\* At an entity.
LEMMA EntityFacts ==
  ASSUME PkTypeOK, Listed, entity <= Len(dirEntities)
  PROVE  /\ entity \in Entities /\ entity + 1 \in 1..Len(dirEntities)+1
         /\ Size \in Nat /\ Blocks(Size) \in Nat
         /\ PlaceIn(dirEntities, entity + 1) = Here + 1 + Blocks(Size)
         /\ files[entity] \in Nat \cup {Gone}
         /\ at # "init" => _tarEntities[entity].size = Size
         /\ Size < T_BLOCKSIZE * Two[FloatBits]
<1>1. dirEntities \in Seq(DirEntity) /\ entity \in 1..Len(dirEntities)
  BY Bounds
<1>2. /\ Size \in Nat /\ Blocks(Size) \in Nat
      /\ PlaceIn(dirEntities, entity + 1) = Here + 1 + Blocks(Size)
  BY <1>1, BlocksOf, PlaceIs DEF Size, Here
<1>3. entity \in Entities /\ entity + 1 \in 1..Len(dirEntities)+1
  BY <1>1 DEF Entities
<1>4. files[entity] \in Nat \cup {Gone}
  BY <1>3 DEF PkTypeOK
<1>5. /\ at # "init" => _tarEntities[entity].size = Size
      /\ Size < T_BLOCKSIZE * Two[FloatBits]
  BY <1>3 DEF Listed, Size
<1> QED
  BY <1>2, <1>3, <1>4, <1>5

\* A call that returns Failed has returned, and not the size that is estimated.
LEMMA FailureIs ==
  ASSUME PkTypeOK, Return(Failed), Len(archive') \in Nat
  PROVE  packed' = Failed /\ packed' \in Int /\ returned' \in Int /\ returned' # NoReturn
<1>1. packed' = Failed /\ Failed = -1 /\ NoReturn = -2
  BY DEF Return, Failed, NoReturn
<1>2. returned' = IF ~gz THEN Failed ELSE IF Failed # 0 THEN lzSize(archive') ELSE Failed
  BY DEF Return
<1>3. lzSize(archive') \in Nat
  BY DEF lzSize
<1>4. returned' = Failed \/ returned' = lzSize(archive')
  BY <1>2, Zenon
<1> QED
  BY <1>1, <1>3, <1>4


-----------------------------------------------------------------------------
(***************************************************************************)
(* What the steps do, each in terms of what it leaves.                     *)
(***************************************************************************)
Held ==
  /\ gz' = gz /\ tree' = tree /\ folder' = folder /\ tar_prefix' = tar_prefix
  /\ dirEntities' = dirEntities /\ _tarEntities' = _tarEntities
  /\ _tar_estimated_filesize' = _tar_estimated_filesize
  /\ files' = files /\ (changed' = changed \/ changed' = TRUE)
Returns == packed' \in Int /\ returned' \in Int /\ returned' # NoReturn
\* The call ends with an error, after a write that was refused or without one.
Fails ==
  /\ Running /\ Held /\ entity' = entity /\ at' = at /\ c' = c /\ position' = position
  /\ total_bytes' = total_bytes /\ packed' = Failed /\ Returns
  /\ ArchiveOK(archive') /\ Extends(archive, archive') /\ (at = "init" => archive' = archive)
  /\ refused' \in BOOLEAN /\ (refused => refused')
GoesOn == packed' = packed /\ returned' = returned
Opens ==
  /\ Running /\ Held /\ entity' = entity /\ at = "open" /\ at' = "body" /\ c' = c
  /\ position' = position /\ total_bytes' = total_bytes /\ archive' = archive
  /\ refused' = refused /\ changed' = changed /\ GoesOn
\* A write, of which the call takes notice in total_bytes only.
Writes(block, written) ==
  /\ Running /\ Held /\ BlockOK(block) /\ total_bytes' = total_bytes + written
  /\ written \in Int /\ written <= T_BLOCKSIZE /\ (~gz => written >= 0)
  /\ ArchiveOK(archive') /\ Extends(archive, archive') /\ refused' \in BOOLEAN
  /\ written = T_BLOCKSIZE => archive' = Append(archive, block) /\ refused' = refused
  /\ written # T_BLOCKSIZE => refused'
  /\ refused => refused'
HeaderNow == Header(entity, files[entity])
HeaderWrites ==
  /\ at = "header" /\ entity <= Len(dirEntities) /\ files[entity] \in Nat
  /\ HeaderNow.kind = "header" /\ HeaderNow.entry = entity /\ HeaderNow.size = files[entity]
  /\ Writes(HeaderNow, T_BLOCKSIZE) /\ GoesOn
\* The header of an entity that has a body, and of one that has none.
HeadsBody == HeaderWrites /\ Size > 0 /\ entity' = entity /\ at' = "open" /\ c' = c /\ position' = position
HeadsOnly == HeaderWrites /\ Size = 0 /\ NextEntity
\* A block of a body, and its last. While the file is what was collected, all that it can
\* give is read.
BodyWrites(count, written) ==
  /\ at = "body" /\ entity <= Len(dirEntities) /\ count \in 1..T_BLOCKSIZE
  /\ ~changed' => count = Left
  /\ Writes(Data(entity, position, count), written) /\ GoesOn
BodyGoesOn(count, written) ==
  /\ BodyWrites(count, written) /\ c + 1 < chunks /\ entity' = entity /\ at' = at
  /\ c' = c + 1 /\ position' = position + count
BodyEnds(count, written) == BodyWrites(count, written) /\ c + 1 >= chunks /\ NextEntity
\* The two zero blocks.
EofWrites(written) ==
  /\ at = "header" /\ entity > Len(dirEntities) /\ entity' = entity /\ at' = at
  /\ position' = position /\ Writes(Zero, written)
FirstZero(written) == EofWrites(written) /\ c = 0 /\ c' = 1 /\ GoesOn
SecondZero(written) == EofWrites(written) /\ c # 0 /\ c' = c /\ packed' = total_bytes' /\ Returns

LEMMA QuietIs ==
  ASSUME PkTypeOK, InitFails \/ StatFails \/ OpenSource \/ ReadFails
  PROVE  Fails \/ Opens
<1>1. Len(archive) \in Nat /\ ArchiveOK(archive) /\ refused \in BOOLEAN
  BY Counts, ArchiveTypes DEF PkTypeOK
<1>2. ASSUME archive' = archive PROVE ArchiveOK(archive') /\ Extends(archive, archive')
  BY <1>1, <1>2 DEF Extends
<1>3. ASSUME archive' = archive, refused' = refused
      PROVE  refused' \in BOOLEAN /\ (refused => refused')
  BY <1>1, <1>3, Zenon
<1>4. CASE InitFails
  <2>1. Failed \in Int /\ Failed # NoReturn
    BY DEF Failed, NoReturn
  <2> QED
    BY <1>2, <1>3, <1>4, <2>1, Zenon DEF InitFails, Fails, Held, Returns, list, call
<1>5. CASE StatFails
  <2>1. packed' = Failed /\ Returns
    BY <1>1, <1>5, FailureIs DEF StatFails, Returns
  <2> QED
    BY <1>2, <1>3, <1>5, <2>1, Zenon DEF StatFails, Fails, Held, list, call
<1>6. CASE ReadFails
  <2>1. packed' = Failed /\ Returns
    BY <1>1, <1>6, FailureIs DEF ReadFails, Returns
  <2> QED
    BY <1>2, <1>3, <1>6, <2>1, Zenon DEF ReadFails, Fails, Held, list, call
<1>7. CASE OpenSource /\ files[entity] = Gone
  <2>1. packed' = Failed /\ Returns
    BY <1>1, <1>7, FailureIs DEF OpenSource, Returns
  <2> QED
    BY <1>2, <1>3, <1>7, <2>1, Zenon DEF OpenSource, Fails, Held, list, call
<1>8. CASE OpenSource /\ files[entity] # Gone
  BY <1>8, Zenon DEF OpenSource, Opens, Held, GoesOn, list, call, result
<1> QED
  BY <1>4, <1>5, <1>6, <1>7, <1>8

LEMMA AddHeaderIs ==
  ASSUME PkTypeOK, Listed, AddHeader
  PROVE  Fails \/ HeadsBody \/ HeadsOnly
<1>1. /\ Running /\ at = "header" /\ entity \in Entities /\ files[entity] # Gone /\ Held
  BY Zenon DEF AddHeader, Held, list, call
<1>2. PICK written \in WriteResults :
        /\ Took(HeaderNow, written)
        /\ IF written # T_BLOCKSIZE
           THEN UNCHANGED <<entity, at, c, position, total_bytes>> /\ Return(Failed)
           ELSE /\ total_bytes' = total_bytes + T_BLOCKSIZE /\ UNCHANGED result
                /\ IF _tarEntities[entity].size > 0
                   THEN at' = "open" /\ UNCHANGED <<entity, c, position>>
                   ELSE NextEntity
  BY DEF AddHeader, HeaderNow, st_size
<1>3. entity <= Len(dirEntities)
  BY <1>1, Counts DEF Entities
<1>4. files[entity] \in Nat /\ _tarEntities[entity].size = Size /\ Size \in Nat
  BY <1>1, <1>3, EntityFacts
<1>5. BlockOK(HeaderNow) /\ HeaderNow.kind = "header" /\ HeaderNow.entry = entity /\ HeaderNow.size = files[entity]
  BY <1>1, <1>4, HeaderOK DEF HeaderNow
<1>6. /\ written \in Int /\ written <= T_BLOCKSIZE /\ (~gz => written >= 0)
      /\ ArchiveOK(archive') /\ Extends(archive, archive') /\ refused' \in BOOLEAN
      /\ written = T_BLOCKSIZE => archive' = Append(archive, HeaderNow) /\ refused' = refused
      /\ written # T_BLOCKSIZE => refused'
      /\ refused => refused'
  BY <1>2, <1>5, Taken
<1>7. CASE written # T_BLOCKSIZE
  <2>1. UNCHANGED <<entity, at, c, position, total_bytes>> /\ Return(Failed)
    BY <1>2, <1>7, Zenon
  <2>2. packed' = Failed /\ Returns
    BY <1>6, <2>1, FailureIs DEF Extends, Returns
  <2> QED
    <3>1. at # "init"
      BY <1>1
    <3> QED
      BY <1>1, <1>6, <2>1, <2>2, <3>1, Zenon DEF Fails
<1>8. CASE written = T_BLOCKSIZE
  <2>1. /\ total_bytes' = total_bytes + T_BLOCKSIZE /\ UNCHANGED result
        /\ IF _tarEntities[entity].size > 0
           THEN at' = "open" /\ UNCHANGED <<entity, c, position>>
           ELSE NextEntity
    BY <1>2, <1>8, Zenon
  <2>2. Writes(HeaderNow, T_BLOCKSIZE)
    BY <1>1, <1>5, <1>6, <1>8, <2>1, Zenon DEF Writes
  <2>3. HeaderWrites
    BY <1>1, <1>3, <1>4, <1>5, <2>1, <2>2, Zenon DEF HeaderWrites, GoesOn, result
  <2>4. CASE Size > 0
    BY <1>4, <2>1, <2>3, <2>4, Zenon DEF HeadsBody
  <2>5. CASE Size = 0
    <3>1. ~(Size > 0)
      BY <2>5
    <3> QED
      BY <1>4, <2>1, <2>3, <2>5, <3>1, Zenon DEF HeadsOnly
  <2> QED
    BY <1>4, <2>4, <2>5
<1> QED
  BY <1>7, <1>8

\* No more chunks are written than the blocks that were estimated.
LEMMA ChunksAre ==
  ASSUME PkTypeOK, Listed, at = "body", entity <= Len(dirEntities)
  PROVE  chunks \in Nat /\ chunks <= Blocks(Size) /\ (Exact => chunks = Blocks(Size))
<1>1. /\ entity \in Entities /\ Size \in Nat /\ _tarEntities[entity].size = Size
      /\ Size < T_BLOCKSIZE * Two[FloatBits]
  BY EntityFacts
<1>2. chunks = Blocks(Float(Size))
  BY <1>1 DEF chunks
<1>3. Blocks(Float(Size)) \in Nat /\ Blocks(Float(Size)) <= Blocks(Size)
  BY <1>1, FloatBlocks
<1>4. ASSUME Exact PROVE Float(Size) = Size
  <2>1. CollectedSizes[entity] = Size
    BY <1>1 DEF CollectedSizes, Size
  <2> QED
    BY <1>1, <1>4, <2>1 DEF Exact
<1> QED
  BY <1>2, <1>3, <1>4

LEMMA AddBodyChunkIs ==
  ASSUME PkTypeOK, Listed, Stages, AddBodyChunk
  PROVE  Fails \/ \E count \in Reads, written \in WriteResults :
                    BodyGoesOn(count, written) \/ BodyEnds(count, written)
<1>1. Running /\ at = "body" /\ CouldRead(Left) /\ list' = list /\ files' = files
  BY Zenon DEF AddBodyChunk, list
<1>2. PICK count \in Reads, written \in WriteResults :
        /\ changed' = (changed \/ count < Left)
        /\ Took(Data(entity, position, count), written)
        /\ IF written = -1
           THEN UNCHANGED <<entity, at, c, position, total_bytes>> /\ Return(Failed)
           ELSE /\ total_bytes' = total_bytes + Counted(written) /\ UNCHANGED result
                /\ IF c + 1 < chunks
                   THEN c' = c + 1 /\ position' = position + count /\ UNCHANGED <<entity, at>>
                   ELSE NextEntity
  BY DEF AddBodyChunk
<1>3. entity <= Len(dirEntities) /\ entity \in Entities
  BY <1>1, Bounds DEF Stages, Headed, Entities
<1>4. Left \in 1..T_BLOCKSIZE
  <2>1. files[entity] \in Nat \cup {Gone} /\ Gone = -1
    BY <1>3 DEF PkTypeOK, Gone
  <2>2. Left > 0
    BY <1>1 DEF CouldRead
  <2>3. T_BLOCKSIZE \in Nat /\ position \in Nat
    BY Counts
  <2>4. files[entity] \in Int
    BY <2>1
  <2> QED
    BY <2>2, <2>3, <2>4 DEF Left, Least
<1>5. count \in 1..T_BLOCKSIZE /\ (count = Left \/ count < Left)
  <2>1. T_BLOCKSIZE \in Nat /\ ShortReads \subseteq 1..T_BLOCKSIZE-1
    BY Counts, EntitiesAssumption
  <2> QED
    BY <1>2, <1>4, <2>1 DEF Reads
<1>6. Held /\ (~changed' => count = Left)
  <2>1. CASE count < Left
    <3>1. changed' = TRUE
      BY <1>2, <2>1, Zenon
    <3> QED
      BY <1>1, <3>1, Zenon DEF Held, list, call
  <2>2. CASE count = Left
    <3>1. ~(count < Left) /\ changed \in BOOLEAN
      BY <1>4, <2>2 DEF PkTypeOK
    <3>2. changed' = changed
      BY <1>2, <3>1, Zenon
    <3> QED
      BY <1>1, <2>2, <3>2, Zenon DEF Held, list, call
  <2> QED
    BY <1>5, <2>1, <2>2
<1>7. BlockOK(Data(entity, position, count))
  BY <1>5, Counts, BlockTypes
<1>8. /\ written \in Int /\ written <= T_BLOCKSIZE /\ (~gz => written >= 0)
      /\ ArchiveOK(archive') /\ Extends(archive, archive') /\ refused' \in BOOLEAN
      /\ written = T_BLOCKSIZE => archive' = Append(archive, Data(entity, position, count))
                                  /\ refused' = refused
      /\ written # T_BLOCKSIZE => refused'
      /\ refused => refused'
  BY <1>2, <1>7, Taken
<1>9. CASE written = -1
  <2>1. UNCHANGED <<entity, at, c, position, total_bytes>> /\ Return(Failed)
    BY <1>2, <1>9, Zenon
  <2>2. packed' = Failed /\ Returns
    BY <1>8, <2>1, FailureIs DEF Extends, Returns
  <2> QED
    <3>1. at # "init"
      BY <1>1
    <3> QED
      BY <1>1, <1>6, <1>8, <2>1, <2>2, <3>1, Zenon DEF Fails
<1>10. CASE written # -1
  <2>1. /\ total_bytes' = total_bytes + written /\ UNCHANGED result
        /\ IF c + 1 < chunks
           THEN c' = c + 1 /\ position' = position + count /\ UNCHANGED <<entity, at>>
           ELSE NextEntity
    BY <1>2, <1>10, Zenon DEF Counted
  <2>2. Writes(Data(entity, position, count), written)
    BY <1>1, <1>6, <1>7, <1>8, <2>1, Zenon DEF Writes
  <2>3. BodyWrites(count, written)
    BY <1>1, <1>3, <1>5, <1>6, <2>1, <2>2, Zenon DEF BodyWrites, GoesOn, result
  <2>4. CASE c + 1 < chunks
    BY <2>1, <2>3, <2>4, Zenon DEF BodyGoesOn
  <2>5. CASE ~(c + 1 < chunks)
    <3>1. c + 1 >= chunks
      BY <1>1, <1>3, <2>5, ChunksAre, Counts
    <3> QED
      BY <2>1, <2>3, <2>5, <3>1, Zenon DEF BodyEnds
  <2> QED
    BY <2>4, <2>5
<1> QED
  BY <1>9, <1>10

LEMMA AddEofIs ==
  ASSUME PkTypeOK, Listed, Stages, AddEof
  PROVE  \E written \in WriteResults : FirstZero(written) \/ SecondZero(written)
<1>1. Running /\ at = "header" /\ entity > Len(dirEntities) /\ Held
  <2>1. Running /\ at = "header" /\ entity > Len(_tarEntities) /\ Held
    BY Zenon DEF AddEof, Held, list, call
  <2> QED
    BY <2>1 DEF Listed
<1>2. PICK written \in WriteResults :
        /\ Took(Zero, written)
        /\ total_bytes' = total_bytes + written
        /\ IF c = 0 THEN c' = 1 /\ UNCHANGED result ELSE UNCHANGED c /\ Return(total_bytes')
  BY DEF AddEof, Counted
<1>3. /\ written \in Int /\ written <= T_BLOCKSIZE /\ (~gz => written >= 0)
      /\ ArchiveOK(archive') /\ Extends(archive, archive') /\ refused' \in BOOLEAN
      /\ written = T_BLOCKSIZE => archive' = Append(archive, Zero) /\ refused' = refused
      /\ written # T_BLOCKSIZE => refused'
      /\ refused => refused'
  BY <1>2, BlockTypes, Taken
<1>4. EofWrites(written)
  <2>1. Writes(Zero, written)
    BY <1>1, <1>2, <1>3, BlockTypes, Zenon DEF Writes
  <2>2. entity' = entity /\ at' = at /\ position' = position
    BY Zenon DEF AddEof
  <2> QED
    BY <1>1, <2>1, <2>2, Zenon DEF EofWrites
<1>5. CASE c = 0
  BY <1>2, <1>4, <1>5, Zenon DEF FirstZero, GoesOn, result
<1>6. CASE c # 0
  <2>1. c' = c /\ Return(total_bytes')
    BY <1>2, <1>6, Zenon
  <2>2. packed' = total_bytes' /\ Returns
    <3>1. /\ packed' = total_bytes'
          /\ returned' = IF ~gz THEN total_bytes'
                         ELSE IF total_bytes' # 0 THEN lzSize(archive') ELSE Failed
      BY <2>1, Zenon DEF Return
    <3>2. total_bytes' \in Int /\ (~gz => total_bytes' >= 0)
      <4>1. total_bytes \in Int /\ (~gz => total_bytes >= 0)
        BY Counts DEF Stages
      <4> QED
        BY <1>2, <1>3, <4>1
    <3>3. lzSize(archive') \in Nat \ {0}
      BY <1>3 DEF lzSize, Extends
    <3>4. \/ ~gz /\ returned' = total_bytes'
          \/ returned' = lzSize(archive') \/ returned' = Failed
      BY <3>1, Zenon
    <3>5. returned' \in Int /\ returned' # NoReturn
      BY <3>2, <3>3, <3>4 DEF Failed, NoReturn
    <3> QED
      BY <3>1, <3>2, <3>5 DEF Returns
  <2> QED
    BY <1>4, <1>6, <2>1, <2>2, Zenon DEF SecondZero
<1> QED
  BY <1>5, <1>6

Kinds ==
  \/ PackTarInit \/ Fails \/ Opens \/ HeadsBody \/ HeadsOnly
  \/ \E count \in Reads, written \in WriteResults :
        BodyGoesOn(count, written) \/ BodyEnds(count, written)
  \/ \E written \in WriteResults : FirstZero(written) \/ SecondZero(written)
LEMMA StepIs ==
  ASSUME PkTypeOK, Listed, Stages, Step
  PROVE  Kinds
BY QuietIs, AddHeaderIs, AddBodyChunkIs, AddEofIs DEF Step, Kinds

-----------------------------------------------------------------------------
(***************************************************************************)
(* The types, the list and the stages.                                     *)
(***************************************************************************)
\* A file may change in all but nothing else.
Changes == \E f \in Entities, size \in Sizes \cup {Gone} : Change(f, size)
LEMMA ChangesIs ==
  ASSUME PkTypeOK, Changes
  PROVE  /\ Running /\ list' = list /\ UNCHANGED <<entity, at, c, position, total_bytes, archive, refused, result>>
         /\ files' \in [Entities -> Nat \cup {Gone}] /\ changed' = TRUE
<1>1. PICK f \in Entities, size \in Sizes \cup {Gone} : Change(f, size)
  BY DEF Changes
<1>2. /\ Running /\ list' = list /\ UNCHANGED <<entity, at, c, position, total_bytes, archive, refused, result>>
      /\ files' = [files EXCEPT ![f] = size] /\ changed' = TRUE
  BY <1>1, Zenon DEF Change
<1>3. size \in Nat \cup {Gone}
  BY <1>1, EntitiesAssumption
<1>4. files \in [Entities -> Nat \cup {Gone}]
  BY DEF PkTypeOK
<1>5. files' \in [Entities -> Nat \cup {Gone}]
  BY <1>2, <1>3, <1>4
<1> QED
  BY <1>2, <1>5

LEMMA TypesHeld ==
  ASSUME PkTypeOK, Held,
         entity' \in 1..Len(dirEntities)+1, at' \in {"init", "header", "open", "body"},
         c' \in Nat, position' \in Nat, total_bytes' \in Int, ArchiveOK(archive'),
         refused' \in BOOLEAN, packed' \in Int, returned' \in Int
  PROVE  PkTypeOK'
<1>1. gz' \in BOOLEAN /\ changed' \in BOOLEAN /\ dirEntities' \in Seq(DirEntity)
      /\ _tarEntities' \in Seq(TarEntity) /\ _tar_estimated_filesize' \in Nat
  BY Zenon DEF PkTypeOK, Held
<1>2. files' \in [Entities' -> Nat \cup {Gone}] /\ entity' \in 1..Len(dirEntities')+1
  <2>1. dirEntities' = dirEntities /\ files' = files /\ files \in [Entities -> Nat \cup {Gone}]
    BY Zenon DEF Held, PkTypeOK
  <2>2. Entities' = Entities
    BY <2>1 DEF Entities
  <2> QED
    BY <2>1, <2>2
<1>3. archive' \in Seq(ArchiveBlocks)
      /\ \A b \in 1..Len(archive') : archive'[b].kind = "header" => Len(archive'[b].name) < T_NAMELEN
  BY Zenon DEF ArchiveOK, BlockOK
<1> QED
  BY <1>1, <1>2, <1>3, Zenon DEF PkTypeOK

LEMMA InitTypes ==
  ASSUME PkTypeOK, Listed, PackTarInit
  PROVE  PkTypeOK'
<1> DEFINE T(e) == [realpath |-> dirEntities[e].path,
                    savepath |-> savepath(dirEntities[e].path, tar_prefix),
                    is_dir |-> dirEntities[e].is_dir, size |-> dirEntities[e].size]
<1>1. /\ _tarEntities' = [e \in Entities |-> T(e)]
      /\ _tar_estimated_filesize' = Estimate(dirEntities) /\ at' = "header"
      /\ call' = call /\ files' = files /\ changed' = changed
      /\ entity' = entity /\ c' = c /\ position' = position /\ total_bytes' = total_bytes
      /\ archive' = archive /\ refused' = refused /\ packed' = packed /\ returned' = returned
  BY DEF PackTarInit, result
<1>2. gz' = gz /\ dirEntities' = dirEntities
  BY <1>1 DEF call
<1>3. \A e \in Entities : T(e) \in TarEntity
  <2> TAKE e \in Entities
  <2>1. dirEntities[e] \in DirEntity
    BY Bounds DEF Entities
  <2>2. dirEntities[e].path \in Paths /\ dirEntities[e].is_dir \in BOOLEAN /\ dirEntities[e].size \in Nat
    BY <2>1 DEF DirEntity
  <2>3. savepath(dirEntities[e].path, tar_prefix) \in Paths
    BY <2>2, SavePathIs DEF Listed
  <2> QED
    BY <2>2, <2>3 DEF TarEntity
<1>4. _tarEntities' \in Seq(TarEntity)
  <2>1. Entities = 1..Len(dirEntities) /\ Len(dirEntities) \in Nat
    BY Counts DEF Entities
  <2> HIDE DEF T
  <2> QED
    BY <1>1, <1>3, <2>1
<1>5. Estimate(dirEntities) \in Nat
  BY Facts, Zenon
<1>6. Entities' = Entities
  BY <1>2 DEF Entities
<1> QED
  BY <1>1, <1>2, <1>4, <1>5, <1>6, Zenon DEF PkTypeOK

LEMMA TypeKept ==
  ASSUME PkTypeOK, Listed, Stages, Kinds
  PROVE  PkTypeOK'
<1>1. CASE PackTarInit
  BY <1>1, InitTypes
<1>2. CASE Fails
  <2>1. Failed \in Int
    BY DEF Failed
  <2> QED
    BY <1>2, <2>1, TypesHeld, Zenon DEF Fails, PkTypeOK, Returns
<1>3. ASSUME GoesOn PROVE packed' \in Int /\ returned' \in Int
  BY <1>3, Counts DEF GoesOn
<1>4. ASSUME NEW block, NEW written, Writes(block, written)
      PROVE  Held /\ total_bytes' \in Int /\ ArchiveOK(archive') /\ refused' \in BOOLEAN
  <2>1. total_bytes \in Int /\ written \in Int /\ total_bytes' = total_bytes + written
    BY <1>4, Counts DEF Writes
  <2> QED
    BY <1>4, <2>1 DEF Writes
<1>5. entity \in 1..Len(dirEntities)+1 /\ c \in Nat /\ position \in Nat
  BY Counts, Bounds
<1>6. ASSUME NextEntity, entity <= Len(dirEntities)
      PROVE  entity' \in 1..Len(dirEntities)+1 /\ at' = "header" /\ c' \in Nat /\ position' \in Nat
  BY <1>6, Counts DEF NextEntity
<1>7. CASE Opens
  <2>1. ArchiveOK(archive)
    BY ArchiveTypes DEF PkTypeOK
  <2>2. packed' \in Int /\ returned' \in Int /\ total_bytes' \in Int
    BY <1>3, <1>7, Counts DEF Opens
  <2>3. ArchiveOK(archive') /\ refused' \in BOOLEAN
    BY <1>7, <2>1, Zenon DEF Opens, PkTypeOK
  <2>4. entity' \in 1..Len(dirEntities)+1 /\ c' \in Nat /\ position' \in Nat /\ at' = "body"
    BY <1>5, <1>7 DEF Opens
  <2> QED
    BY <1>7, <2>2, <2>3, <2>4, TypesHeld DEF Opens
<1>8. CASE HeadsBody
  <2>1. entity' \in 1..Len(dirEntities)+1 /\ c' \in Nat /\ position' \in Nat /\ at' = "open"
    BY <1>5, <1>8 DEF HeadsBody
  <2> QED
    BY <1>3, <1>4, <1>8, <2>1, TypesHeld DEF HeadsBody, HeaderWrites
<1>9. CASE HeadsOnly
  BY <1>3, <1>4, <1>6, <1>9, TypesHeld DEF HeadsOnly, HeaderWrites
<1>10. ASSUME NEW count, NEW written, BodyGoesOn(count, written) PROVE PkTypeOK'
  <2>1. entity' \in 1..Len(dirEntities)+1 /\ c' \in Nat /\ position' \in Nat /\ at' = "body"
    BY <1>5, <1>10 DEF BodyGoesOn, BodyWrites
  <2> QED
    BY <1>3, <1>4, <1>10, <2>1, TypesHeld DEF BodyGoesOn, BodyWrites
<1>11. ASSUME NEW count, NEW written, BodyEnds(count, written) PROVE PkTypeOK'
  BY <1>3, <1>4, <1>6, <1>11, TypesHeld DEF BodyEnds, BodyWrites
<1>12. ASSUME NEW written, EofWrites(written), c' \in Nat, packed' \in Int, returned' \in Int
       PROVE  PkTypeOK'
  <2>1. entity' \in 1..Len(dirEntities)+1 /\ position' \in Nat /\ at' = "header"
    BY <1>5, <1>12 DEF EofWrites
  <2> QED
    BY <1>4, <1>12, <2>1, TypesHeld DEF EofWrites
<1>13. ASSUME NEW written, FirstZero(written) PROVE PkTypeOK'
  BY <1>3, <1>12, <1>13 DEF FirstZero
<1>14. ASSUME NEW written, SecondZero(written) PROVE PkTypeOK'
  BY <1>5, <1>12, <1>14 DEF SecondZero, Returns
<1> QED
  BY <1>1, <1>2, <1>7, <1>8, <1>9, <1>10, <1>11, <1>13, <1>14 DEF Kinds

LEMMA ListedHeld ==
  ASSUME Listed, Held, at # "init", at' # "init"
  PROVE  Listed'
<1>1. Entities' = Entities
  BY DEF Entities, Held
<1> QED
  BY <1>1, Zenon DEF Listed, Held

\* What a kind of step does with the stage.
LEMMA KindsHold ==
  ASSUME Kinds, ~PackTarInit
  PROVE  Held /\ (Fails \/ (at # "init" /\ at' # "init"))
<1>1. CASE Fails
  BY <1>1 DEF Fails
<1>2. CASE Opens
  BY <1>2 DEF Opens
<1>3. CASE HeadsBody
  BY <1>3 DEF HeadsBody, HeaderWrites, Writes
<1>4. CASE HeadsOnly
  BY <1>4 DEF HeadsOnly, HeaderWrites, Writes, NextEntity
<1>5. ASSUME NEW count, NEW written, BodyGoesOn(count, written) PROVE Held /\ at # "init" /\ at' # "init"
  BY <1>5 DEF BodyGoesOn, BodyWrites, Writes
<1>6. ASSUME NEW count, NEW written, BodyEnds(count, written) PROVE Held /\ at # "init" /\ at' # "init"
  BY <1>6 DEF BodyEnds, BodyWrites, Writes, NextEntity
<1>7. ASSUME NEW written, EofWrites(written) PROVE Held /\ at # "init" /\ at' # "init"
  BY <1>7 DEF EofWrites, Writes
<1> QED
  BY <1>1, <1>2, <1>3, <1>4, <1>5, <1>6, <1>7 DEF Kinds, FirstZero, SecondZero

LEMMA ListedKept ==
  ASSUME PkTypeOK, Listed, Kinds
  PROVE  Listed'
<1>1. CASE PackTarInit
  <2>1. /\ Len(_tarEntities') = Len(dirEntities)
        /\ \A e \in Entities : _tarEntities'[e].size = dirEntities[e].size
    <3>1. _tarEntities' = [e \in Entities |->
             [realpath |-> dirEntities[e].path, savepath |-> savepath(dirEntities[e].path, tar_prefix),
              is_dir |-> dirEntities[e].is_dir, size |-> dirEntities[e].size]]
      BY <1>1 DEF PackTarInit
    <3>2. Entities = 1..Len(dirEntities) /\ Len(dirEntities) \in Nat
      BY Counts DEF Entities
    <3> QED
      BY <3>1, <3>2
  <2>2. /\ _tar_estimated_filesize' = Estimate(dirEntities) /\ at' = "header"
        /\ dirEntities' = dirEntities /\ tar_prefix' = tar_prefix
    BY <1>1, Zenon DEF PackTarInit, call
  <2>3. Entities' = Entities
    BY <2>2 DEF Entities
  <2>4. at' # "init"
    BY <2>2
  <2> QED
    BY <2>1, <2>2, <2>3, <2>4, Zenon DEF Listed
<1>2. CASE Fails /\ at = "init"
  <2>1. Entities' = Entities
    BY <1>2 DEF Entities, Held, Fails
  <2> QED
    BY <1>2, <2>1 DEF Listed, Fails, Held
<1>3. CASE Fails /\ at # "init"
  BY <1>3, ListedHeld DEF Fails
<1>4. CASE ~PackTarInit /\ ~Fails
  BY <1>4, KindsHold, ListedHeld
<1> QED
  BY <1>1, <1>2, <1>3, <1>4

LEMMA StagesKept ==
  ASSUME PkTypeOK, Listed, Stages, Kinds
  PROVE  Stages'
<1>0. /\ entity \in Nat /\ c \in Nat /\ total_bytes \in Int /\ Len(dirEntities) \in Nat
      /\ T_BLOCKSIZE \in Nat
  BY Counts
<1>1. CASE PackTarInit
  <2>1. /\ at = "init" /\ at' = "header" /\ entity' = entity /\ c' = c /\ position' = position
        /\ total_bytes' = total_bytes /\ dirEntities' = dirEntities /\ gz' = gz
    BY <1>1, Zenon DEF PackTarInit, call
  <2>2. c = 0
    BY <2>1 DEF Stages
  <2> QED
    BY <2>1, <2>2 DEF Stages, Headed
<1>2. CASE Fails
  BY <1>2 DEF Fails, Held, Stages, Headed
<1>3. CASE Opens
  <2>1. Size \in Nat \ {0} /\ entity <= Len(dirEntities)
    BY <1>3, EntityFacts DEF Opens, Stages, Headed, Size
  <2>2. c = 0 /\ position = 0
    BY <1>3, <2>1 DEF Opens, Stages
  <2>3. Blocks(Size) > 0
    <3>1. Size <= T_BLOCKSIZE * Blocks(Size) /\ Blocks(Size) \in Nat
      BY <2>1, BlocksAre
    <3>2. Blocks(Size) = 0 => T_BLOCKSIZE * Blocks(Size) = 0
      BY <1>0
    <3> QED
      BY <2>1, <3>1, <3>2
  <2> QED
    BY <1>3, <2>1, <2>2, <2>3 DEF Opens, Held, Stages, Headed, Size
<1>4. ASSUME NEW block, NEW written, Writes(block, written)
      PROVE  ~gz' => total_bytes' >= 0
  BY <1>0, <1>4 DEF Stages, Writes, Held
<1>5. ASSUME NextEntity, dirEntities' = dirEntities, ~gz' => total_bytes' >= 0 PROVE Stages'
  BY <1>5 DEF NextEntity, Stages, Headed
<1>6. CASE HeadsBody
  <2>1. ~gz' => total_bytes' >= 0
    BY <1>4, <1>6 DEF HeadsBody, HeaderWrites
  <2> QED
    BY <1>6, <2>1 DEF HeadsBody, HeaderWrites, Writes, Held, Stages, Headed, Size
<1>7. CASE HeadsOnly
  BY <1>4, <1>5, <1>7 DEF HeadsOnly, HeaderWrites, Writes, Held
<1>8. ASSUME NEW count, NEW written, BodyGoesOn(count, written) PROVE Stages'
  <2>1. ~gz' => total_bytes' >= 0
    BY <1>4, <1>8 DEF BodyGoesOn, BodyWrites
  <2>2. chunks \in Nat /\ chunks <= Blocks(Size) /\ Blocks(Size) \in Nat
    BY <1>8, ChunksAre, EntityFacts DEF BodyGoesOn, BodyWrites
  <2>3. c + 1 < Blocks(Size)
    BY <1>0, <1>8, <2>2 DEF BodyGoesOn
  <2> QED
    BY <1>8, <2>1, <2>3 DEF BodyGoesOn, BodyWrites, Writes, Held, Stages, Headed, Size
<1>9. ASSUME NEW count, NEW written, BodyEnds(count, written) PROVE Stages'
  BY <1>4, <1>5, <1>9 DEF BodyEnds, BodyWrites, Writes, Held
<1>10. ASSUME NEW written, EofWrites(written), c' \in 0..1 PROVE Stages'
  <2>1. ~gz' => total_bytes' >= 0
    BY <1>4, <1>10 DEF EofWrites
  <2> QED
    BY <1>0, <1>10, <2>1 DEF EofWrites, Writes, Held, Stages, Headed
<1>11. ASSUME NEW written, FirstZero(written) \/ SecondZero(written) PROVE Stages'
  <2>1. EofWrites(written) /\ c' \in 0..1
    BY <1>11 DEF FirstZero, SecondZero, EofWrites, Stages
  <2> QED
    BY <1>10, <2>1
<1> QED
  BY <1>1, <1>2, <1>3, <1>6, <1>7, <1>8, <1>9, <1>11 DEF Kinds

\* While no file has changed, a body is read block by block.
LEMMA WholeBlock ==
  ASSUME PkTypeOK, Listed, Stages, Steady, ~changed, at = "body"
  PROVE  /\ position = T_BLOCKSIZE * c
         /\ Data(entity, position, Left) = Chunk(Size, entity, c + 1)
         /\ c + 1 < Blocks(Size) => Left = T_BLOCKSIZE
<1>1. entity \in Entities /\ Size \in Nat /\ Blocks(Size) \in Nat
  BY EntityFacts DEF Stages, Headed
<1>2. files[entity] = Size /\ position = T_BLOCKSIZE * c
  BY <1>1 DEF Steady, Size
<1>3. c \in Nat /\ T_BLOCKSIZE \in Nat \ 0..2 /\ c < Blocks(Size)
  BY Counts DEF Stages, Size
<1> DEFINE p == T_BLOCKSIZE * c
<1>4. p \in Nat /\ T_BLOCKSIZE * (c + 1) = p + T_BLOCKSIZE /\ (c + 1) - 1 = c
  BY <1>3
<1>5. p < Size
  <2>1. SUFFICES ASSUME Size <= T_BLOCKSIZE * c PROVE FALSE
    BY <1>1, <1>4
  <2>2. Blocks(Size) <= c
    BY <1>1, <1>3, <2>1, FewestBlocks
  <2> QED
    BY <1>1, <1>3, <2>2
<1>6. c + 1 < Blocks(Size) => p + T_BLOCKSIZE < Size
  <2>1. SUFFICES ASSUME c + 1 < Blocks(Size), Size <= T_BLOCKSIZE * (c + 1) PROVE FALSE
    BY <1>1, <1>3, <1>4
  <2>2. Blocks(Size) <= c + 1
    BY <1>1, <1>3, <2>1, FewestBlocks
  <2> QED
    BY <1>1, <1>3, <2>1, <2>2
<1> HIDE DEF p
<1>7. Left = Least(T_BLOCKSIZE, Size - p)
  BY <1>1, <1>2, <1>4, <1>5 DEF Left, p
<1>8. Chunk(Size, entity, c + 1) = Data(entity, p, Least(T_BLOCKSIZE, Size - p))
  BY <1>4, Zenon DEF Chunk, p
<1>9. c + 1 < Blocks(Size) => Least(T_BLOCKSIZE, Size - p) = T_BLOCKSIZE
  BY <1>1, <1>3, <1>4, <1>6 DEF Least
<1> QED
  BY <1>2, <1>7, <1>8, <1>9 DEF p

LEMMA SteadyKept ==
  ASSUME PkTypeOK, Listed, Stages, Steady, Kinds
  PROVE  Steady'
<1>1. CASE PackTarInit
  BY <1>1 DEF PackTarInit, Steady, call, Entities
<1>2. ASSUME Held PROVE ~changed' => ~changed /\ \A e \in Entities' : files'[e] = dirEntities'[e].size
  <2>1. Entities' = Entities
    BY <1>2 DEF Entities, Held
  <2> QED
    BY <1>2, <2>1, Zenon DEF Held, Steady
<1>3. CASE ~PackTarInit
  <2>1. SUFFICES ASSUME ~changed', at' = "body" PROVE position' = T_BLOCKSIZE * c'
    BY <1>2, <1>3, KindsHold, Zenon DEF Steady
  <2>2. ~changed
    BY <1>2, <1>3, <2>1, KindsHold
  <2>3. CASE Fails
    BY <2>1, <2>2, <2>3 DEF Fails, Steady
  <2>4. CASE Opens
    <3>1. c = 0 /\ position = 0 /\ T_BLOCKSIZE \in Nat
      BY <2>4, Counts DEF Opens, Stages, Headed
    <3> QED
      BY <2>4, <3>1 DEF Opens
  <2>5. ASSUME NEW count, NEW written, BodyGoesOn(count, written) PROVE position' = T_BLOCKSIZE * c'
    <3>1. c + 1 < Blocks(Size)
      <4>1. chunks \in Nat /\ chunks <= Blocks(Size) /\ Blocks(Size) \in Nat
        BY <2>5, ChunksAre, EntityFacts DEF BodyGoesOn, BodyWrites
      <4>2. c + 1 < chunks /\ c \in Nat
        BY <2>5, Counts DEF BodyGoesOn
      <4> QED
        BY <4>1, <4>2
    <3>2. position = T_BLOCKSIZE * c /\ count = T_BLOCKSIZE
      BY <2>1, <2>2, <2>5, <3>1, WholeBlock DEF BodyGoesOn, BodyWrites
    <3>3. c \in Nat /\ T_BLOCKSIZE \in Nat
      BY Counts
    <3> QED
      BY <2>5, <3>2, <3>3 DEF BodyGoesOn
  <2>6. HeadsBody \/ HeadsOnly => FALSE
    BY <2>1 DEF HeadsBody, HeadsOnly, NextEntity
  <2>7. ASSUME NEW count, NEW written, BodyEnds(count, written) \/ FirstZero(written) \/ SecondZero(written) PROVE FALSE
    BY <2>1, <2>7 DEF BodyEnds, FirstZero, SecondZero, EofWrites, NextEntity
  <2> QED
    BY <1>3, <2>3, <2>4, <2>5, <2>6, <2>7 DEF Kinds
<1> QED
  BY <1>1, <1>3

-----------------------------------------------------------------------------
(***************************************************************************)
(* The archive is whole as long as all that was to be written was.         *)
(***************************************************************************)
\* A write that is taken whole.
LEMMA Appended ==
  ASSUME PkTypeOK, NEW block, Writes(block, T_BLOCKSIZE)
  PROVE  /\ Extends(archive, archive') /\ Len(archive') = Len(archive) + 1
         /\ archive'[Len(archive) + 1] = block /\ refused' = refused
<1>1. archive \in Seq(ArchiveBlocks) /\ block \in ArchiveBlocks
  BY Facts DEF Writes, BlockOK
<1>2. archive' = Append(archive, block) /\ Extends(archive, archive') /\ refused' = refused
  BY DEF Writes
<1> QED
  BY <1>1, <1>2

\* What is complete stays so; what it holds counts while the files are what was collected.
LEMMA StillComplete ==
  ASSUME Held, NEW a, NEW e, Complete(dirEntities, a, e, ~changed)
  PROVE  Complete(dirEntities, a, e, ~changed')
<1>1. ~changed' => ~changed
  BY Zenon DEF Held
<1> QED
  BY <1>1, Zenon DEF Complete

LEMMA WholeHeader ==
  ASSUME PkTypeOK, Listed, Stages, Steady, WholeSoFar, HeaderWrites
  PROVE  /\ Len(archive') = Here /\ OnlyHeaders(dirEntities, archive')
         /\ Complete(dirEntities, archive', entity, ~changed')
         /\ Laid(dirEntities, archive', entity, 0)
         /\ ~changed' => Filled(dirEntities, archive', entity, 0)
<1>1. dirEntities \in Seq(DirEntity) /\ entity \in 1..Len(dirEntities) /\ Here \in Nat \ {0}
  BY Counts, Bounds DEF HeaderWrites
<1>2. c = 0 /\ ~Headed
  BY DEF HeaderWrites, Stages, Headed
<1>3. Len(archive) = Here - 1
  BY <1>1, <1>2 DEF WholeSoFar, Written, Here
<1>4. /\ Extends(archive, archive') /\ Len(archive') = Len(archive) + 1
      /\ archive'[Len(archive) + 1] = HeaderNow
      /\ HeaderNow.kind = "header" /\ HeaderNow.entry = entity /\ HeaderNow.size = files[entity]
  BY Appended DEF HeaderWrites
<1>5. Len(archive') = Here /\ archive'[Here] = HeaderNow
  BY <1>1, <1>3, <1>4
<1>6. OnlyHeaders(dirEntities, archive')
  <2>1. OnlyHeaders(dirEntities, archive)
    BY DEF WholeSoFar
  <2>2. Len(archive) + 1 = PlaceIn(dirEntities, HeaderNow.entry) /\ HeaderNow.entry \in 1..Len(dirEntities)
    BY <1>1, <1>3, <1>4 DEF Here
  <2> QED
    BY <1>1, <1>4, <2>1, <2>2, OnlyOneMore
<1>7. Complete(dirEntities, archive', entity, ~changed')
  <2>1. Complete(dirEntities, archive, entity, ~changed) /\ entity \in 1..Len(dirEntities)+1
    BY <1>1 DEF WholeSoFar
  <2>2. Complete(dirEntities, archive, entity, ~changed')
    BY <2>1, StillComplete, Zenon DEF HeaderWrites, Writes
  <2> QED
    BY <1>1, <1>4, <2>1, <2>2, CompleteStays
<1>8. Laid(dirEntities, archive', entity, 0)
  BY <1>1, <1>4, <1>5 DEF Laid, Here
<1>9. ~changed' => Filled(dirEntities, archive', entity, 0)
  <2>1. ~changed' => files[entity] = dirEntities[entity].size
    BY <1>1 DEF Steady, Entities, HeaderWrites, Writes, Held
  <2>2. \A k \in 1..0 : FALSE
    OBVIOUS
  <2> QED
    BY <1>4, <1>5, <2>1, <2>2, Zenon DEF Filled, Here
<1> QED
  BY <1>5, <1>6, <1>7, <1>8, <1>9

LEMMA WholeBody ==
  ASSUME PkTypeOK, Listed, Stages, Steady, WholeSoFar, NEW count,
         BodyWrites(count, T_BLOCKSIZE)
  PROVE  /\ Len(archive') = Here + c + 1 /\ OnlyHeaders(dirEntities, archive')
         /\ Complete(dirEntities, archive', entity, ~changed')
         /\ Laid(dirEntities, archive', entity, c + 1)
         /\ ~changed' => Filled(dirEntities, archive', entity, c + 1)
<1> DEFINE block == Data(entity, position, count)
<1>1. /\ dirEntities \in Seq(DirEntity) /\ entity \in 1..Len(dirEntities) /\ Here \in Nat \ {0}
      /\ c \in Nat /\ Headed
  BY Counts, Bounds DEF BodyWrites, Headed
<1>2. Len(archive) = Here + c
  BY <1>1 DEF WholeSoFar, Written, Here
<1>3. /\ Extends(archive, archive') /\ Len(archive') = Len(archive) + 1
      /\ archive'[Len(archive) + 1] = block
  BY Appended DEF BodyWrites
<1>4. Len(archive') = Here + c + 1 /\ archive'[Here + (c + 1)] = block
  <2>1. Len(archive) + 1 = Here + (c + 1) /\ Len(archive) + 1 = Here + c + 1
    BY <1>1, <1>2
  <2> QED
    BY <1>3, <2>1
<1>5. OnlyHeaders(dirEntities, archive')
  <2>1. OnlyHeaders(dirEntities, archive)
    BY DEF WholeSoFar
  <2>2. block.kind # "header"
    BY DEF Data
  <2> HIDE DEF block
  <2> QED
    BY <1>1, <1>3, <2>1, <2>2, OnlyOneMore
<1> HIDE DEF block
<1>6. Complete(dirEntities, archive', entity, ~changed')
  <2>1. Complete(dirEntities, archive, entity, ~changed) /\ entity \in 1..Len(dirEntities)+1
    BY <1>1 DEF WholeSoFar
  <2>2. Complete(dirEntities, archive, entity, ~changed')
    BY <2>1, StillComplete, Zenon DEF BodyWrites, Writes
  <2> QED
    BY <1>1, <1>3, <2>1, <2>2, CompleteStays
<1>7. /\ Laid(dirEntities, archive', entity, c)
      /\ Filled(dirEntities, archive, entity, c) => Filled(dirEntities, archive', entity, c)
  <2>1. Laid(dirEntities, archive, entity, c)
    BY <1>1 DEF WholeSoFar
  <2>2. PlaceIn(dirEntities, entity) \in Nat \ {0}
    BY <1>1 DEF Here
  <2> QED
    BY <1>1, <1>3, <2>1, <2>2, LaidStays
<1>8. Laid(dirEntities, archive', entity, c + 1)
  <2>1. Here + (c + 1) <= Len(archive')
    BY <1>1, <1>4
  <2> QED
    BY <1>7, <2>1, Zenon DEF Laid, Here
<1>9. ASSUME ~changed' PROVE Filled(dirEntities, archive', entity, c + 1)
  <2>0. ~changed /\ count = Left
    BY <1>9 DEF BodyWrites, Writes, Held
  <2>1. Filled(dirEntities, archive', entity, c)
    BY <1>1, <1>7, <2>0 DEF WholeSoFar
  <2>2. block = Chunk(dirEntities[entity].size, entity, c + 1)
    BY <2>0, WholeBlock DEF BodyWrites, block, Size
  <2>3. \A k \in 1..c+1 : k = c + 1 \/ k \in 1..c
    BY <1>1
  <2> QED
    BY <1>4, <2>1, <2>2, <2>3, Zenon DEF Filled, Here
<1> QED
  BY <1>4, <1>5, <1>6, <1>8, <1>9

LEMMA WholeEof ==
  ASSUME PkTypeOK, Listed, Stages, WholeSoFar, EofWrites(T_BLOCKSIZE)
  PROVE  /\ Len(archive') = Here + c /\ OnlyHeaders(dirEntities, archive')
         /\ Complete(dirEntities, archive', entity, ~changed')
         /\ entity = Len(dirEntities) + 1
         /\ Zeros(dirEntities, archive', c + 1)
<1>1. /\ dirEntities \in Seq(DirEntity) /\ entity \in 1..Len(dirEntities)+1 /\ Here \in Nat \ {0}
      /\ c \in Nat /\ ~Headed /\ entity = Len(dirEntities) + 1
  BY Counts, Bounds DEF EofWrites, Headed
<1>2. Len(archive) = Here - 1 + c
  BY <1>1 DEF WholeSoFar, Written, Here
<1>3. /\ Extends(archive, archive') /\ Len(archive') = Len(archive) + 1
      /\ archive'[Len(archive) + 1] = Zero
  BY Appended DEF EofWrites
<1>4. Len(archive') = Here + c /\ archive'[Here + c] = Zero
  <2>1. Len(archive) + 1 = Here + c
    BY <1>1, <1>2
  <2> QED
    BY <1>3, <2>1
<1>5. OnlyHeaders(dirEntities, archive')
  <2>1. OnlyHeaders(dirEntities, archive)
    BY DEF WholeSoFar
  <2>2. Zero.kind # "header"
    BY DEF Zero
  <2> QED
    BY <1>1, <1>3, <2>1, <2>2, OnlyOneMore
<1>6. Complete(dirEntities, archive', entity, ~changed')
  <2>1. Complete(dirEntities, archive, entity, ~changed)
    BY DEF WholeSoFar
  <2>2. Complete(dirEntities, archive, entity, ~changed')
    BY <2>1, StillComplete, Zenon DEF EofWrites, Writes
  <2> QED
    BY <1>1, <1>3, <2>1, <2>2, CompleteStays
<1>7. Zeros(dirEntities, archive', c + 1)
  <2>1. SUFFICES ASSUME NEW k \in 0..(c+1)-1 PROVE archive'[Here + k] = Zero
    BY <1>1, Zenon DEF Zeros, Here
  <2>2. k = c \/ k \in 0..c-1
    BY <1>1
  <2>3. CASE k \in 0..c-1
    <3>1. archive[Here + k] = Zero
      BY <1>1, <2>3 DEF WholeSoFar, Zeros, Here
    <3>2. Here + k \in 1..Len(archive)
      BY <1>1, <1>2, <2>3
    <3> QED
      BY <1>3, <3>1, <3>2 DEF Extends
  <2> QED
    BY <1>4, <2>2, <2>3
<1> QED
  BY <1>1, <1>4, <1>5, <1>6, <1>7

\* What a step makes of what was to be written, and of what was counted.
LEMMA Counting ==
  ASSUME PkTypeOK, NEW block, NEW written, Writes(block, written), Bounded,
         Written' \in Nat, Written' >= Written + 1
  PROVE  /\ total_bytes' <= T_BLOCKSIZE * Written'
         /\ total_bytes' = T_BLOCKSIZE * Written' => /\ written = T_BLOCKSIZE /\ WholeSoFar
                                                    /\ Written' = Written + 1
<1>1. /\ T_BLOCKSIZE \in Nat \ 0..2 /\ Written \in Nat /\ total_bytes \in Int
  BY Counts
<1>2. /\ total_bytes' = total_bytes + written /\ written \in Int /\ written <= T_BLOCKSIZE
      /\ total_bytes <= T_BLOCKSIZE * Written
      /\ total_bytes = T_BLOCKSIZE * Written => WholeSoFar
  BY DEF Writes, Bounded
<1> DEFINE w == Written
           v == Written'
<1>3. w \in Nat /\ v \in Nat /\ v >= w + 1 /\ total_bytes <= T_BLOCKSIZE * w
  BY <1>1, <1>2
<1> HIDE DEF w, v
<1>4. T_BLOCKSIZE * (w + 1) = T_BLOCKSIZE * w + T_BLOCKSIZE /\ T_BLOCKSIZE * w \in Nat
  BY <1>1, <1>3
<1>5. v = w + 1 \/ T_BLOCKSIZE * v >= T_BLOCKSIZE * (w + 1) + T_BLOCKSIZE
  <2>1. SUFFICES ASSUME v >= (w + 1) + 1 PROVE T_BLOCKSIZE * v >= T_BLOCKSIZE * (w + 1) + T_BLOCKSIZE
    BY <1>3
  <2>2. T_BLOCKSIZE * v >= T_BLOCKSIZE * ((w + 1) + 1)
    BY <1>1, <1>3, <2>1
  <2>3. T_BLOCKSIZE * ((w + 1) + 1) = T_BLOCKSIZE * (w + 1) + T_BLOCKSIZE
    BY <1>1, <1>3
  <2> QED
    BY <2>2, <2>3
<1>6. T_BLOCKSIZE * v \in Nat
  BY <1>1, <1>3
<1>7. total_bytes' <= T_BLOCKSIZE * v
  BY <1>1, <1>2, <1>3, <1>4, <1>5, <1>6
<1>8. ASSUME total_bytes' = T_BLOCKSIZE * v
      PROVE  written = T_BLOCKSIZE /\ v = w + 1 /\ total_bytes = T_BLOCKSIZE * w
  BY <1>1, <1>2, <1>3, <1>4, <1>5, <1>6, <1>8
<1> QED
  BY <1>2, <1>7, <1>8 DEF w, v

\* What was to be written after a step.
LEMMA WrittenNext ==
  ASSUME PkTypeOK, Listed, Stages
  PROVE  /\ HeadsBody => Written' = Written + 1
         /\ HeadsOnly => Written' = Written + 1 /\ Blocks(Size) = 0
         /\ \A count, written : BodyGoesOn(count, written) => Written' = Written + 1
         /\ \A count, written : BodyEnds(count, written) =>
              /\ Written' \in Nat /\ Written' >= Written + 1
              /\ Written' = Written + 1 => Blocks(Size) = c + 1
              /\ Exact => Written' = Written + 1
         /\ \A written : FirstZero(written) => Written' = Written + 1
<1>1. Here \in Nat \ {0} /\ c \in Nat /\ T_BLOCKSIZE \in Nat
  BY Counts
<1>2. CASE HeadsBody
  <2>1. c = 0 /\ ~Headed /\ Headed' /\ dirEntities' = dirEntities /\ entity' = entity /\ c' = c
    BY <1>2 DEF HeadsBody, HeaderWrites, Writes, Held, Stages, Headed
  <2>2. Written = Here - 1 + c + 0 /\ Written' = Here - 1 + c + 1
    BY <2>1, Zenon DEF Written, Here
  <2> QED
    BY <1>1, <1>2, <2>1, <2>2 DEF HeadsBody, HeadsOnly, HeaderWrites, BodyGoesOn, BodyEnds, BodyWrites,
                                  FirstZero, EofWrites
<1>3. CASE HeadsOnly
  <2>1. /\ c = 0 /\ ~Headed /\ ~Headed' /\ dirEntities' = dirEntities /\ entity' = entity + 1
        /\ c' = 0 /\ entity <= Len(dirEntities) /\ Size = 0
    BY <1>3 DEF HeadsOnly, NextEntity, HeaderWrites, Writes, Held, Stages, Headed
  <2>2. Written = Here - 1 + 0 + 0 /\ Written' = PlaceIn(dirEntities, entity + 1) - 1 + 0 + 0
    BY <2>1, Zenon DEF Written, Here
  <2>3. PlaceIn(dirEntities, entity + 1) = Here + 1 + Blocks(Size) /\ Blocks(Size) \in Nat
    BY <2>1, EntityFacts
  <2>4. Blocks(Size) <= 0
    <3>1. Size \in Nat /\ 0 \in Nat /\ Size <= T_BLOCKSIZE * 0
      BY <1>1, <2>1
    <3> QED
      BY <3>1, FewestBlocks
  <2>5. Written' = Written + 1 /\ Blocks(Size) = 0
    BY <1>1, <2>2, <2>3, <2>4
  <2> QED
    BY <1>1, <1>3, <2>5 DEF HeadsBody, HeadsOnly, HeaderWrites, BodyGoesOn, BodyEnds, BodyWrites,
                            FirstZero, EofWrites
<1>4. ASSUME NEW count, NEW written, BodyGoesOn(count, written) PROVE Written' = Written + 1
  <2>1. Headed /\ Headed' /\ dirEntities' = dirEntities /\ entity' = entity /\ c' = c + 1
    BY <1>4 DEF BodyGoesOn, BodyWrites, Writes, Held, Headed
  <2>2. Written = Here - 1 + c + 1 /\ Written' = Here - 1 + (c + 1) + 1
    BY <2>1, Zenon DEF Written, Here
  <2> QED
    BY <1>1, <2>2
<1>5. ASSUME NEW count, NEW written, BodyEnds(count, written)
      PROVE  /\ Written' \in Nat /\ Written' >= Written + 1
             /\ Written' = Written + 1 => Blocks(Size) = c + 1
             /\ Exact => Written' = Written + 1
  <2>1. /\ Headed /\ ~Headed' /\ dirEntities' = dirEntities /\ entity' = entity + 1
        /\ c' = 0 /\ entity <= Len(dirEntities) /\ at = "body"
    BY <1>5 DEF BodyEnds, NextEntity, BodyWrites, Writes, Held, Headed
  <2>2. Written = Here - 1 + c + 1 /\ Written' = PlaceIn(dirEntities, entity + 1) - 1 + 0 + 0
    BY <2>1, Zenon DEF Written, Here
  <2>3. PlaceIn(dirEntities, entity + 1) = Here + 1 + Blocks(Size) /\ Blocks(Size) \in Nat
    BY <2>1, EntityFacts
  <2>4. c + 1 <= Blocks(Size)
    BY <1>1, <2>1, <2>3 DEF Stages, Size
  <2>5. ASSUME Exact PROVE Blocks(Size) <= c + 1
    <3>1. chunks = Blocks(Size) /\ c + 1 >= chunks
      BY <1>5, <2>1, <2>5, ChunksAre DEF BodyEnds
    <3> QED
      BY <1>1, <2>3, <3>1
  <2> DEFINE b == Blocks(Size)
             w == Written
             v == Written'
  <2>6. b \in Nat /\ c + 1 <= b /\ (Exact => b <= c + 1) /\ w = Here + c /\ v = Here + b
    BY <1>1, <2>2, <2>3, <2>4, <2>5
  <2> HIDE DEF b, w, v
  <2>7. v \in Nat /\ v >= w + 1 /\ (v = w + 1 => b = c + 1) /\ (b <= c + 1 => v = w + 1)
    BY <1>1, <2>6
  <2> QED
    BY <2>6, <2>7, Zenon DEF b, w, v
<1>6. ASSUME NEW written, FirstZero(written) PROVE Written' = Written + 1
  <2>1. c = 0 /\ ~Headed /\ ~Headed' /\ dirEntities' = dirEntities /\ entity' = entity /\ c' = 1
    BY <1>6 DEF FirstZero, EofWrites, Writes, Held, Headed
  <2>2. Written = Here - 1 + 0 + 0 /\ Written' = Here - 1 + 1 + 0
    BY <2>1, Zenon DEF Written, Here
  <2> QED
    BY <1>1, <2>2
<1> QED
  BY <1>2, <1>3, <1>4, <1>5, <1>6, Zenon

\* A body, or an entity without one, that ends leaves the entity complete.
LEMMA EntityDone ==
  ASSUME dirEntities \in Seq(DirEntity), entity \in 1..Len(dirEntities),
         NextEntity, Held, Len(archive') = Written', Written' \in Nat,
         OnlyHeaders(dirEntities, archive'), Complete(dirEntities, archive', entity, ~changed'),
         Laid(dirEntities, archive', entity, Blocks(Size)),
         ~changed' => Filled(dirEntities, archive', entity, Blocks(Size))
  PROVE  WholeSoFar'
<1>1. Complete(dirEntities, archive', entity + 1, ~changed')
  BY OneMore DEF Size
<1>2. /\ entity' = entity + 1 /\ dirEntities' = dirEntities
      /\ at' = "header" /\ c' = 0
  BY DEF NextEntity, Held
<1>3. ~Headed'
  BY <1>2 DEF Headed
<1>4. \A k \in 0..0-1 : FALSE
  OBVIOUS
<1>5. Zeros(dirEntities', archive', c')
  BY <1>2, <1>4, Zenon DEF Zeros
<1> QED
  BY <1>1, <1>2, <1>3, <1>5, Zenon DEF WholeSoFar

LEMMA BoundedKept ==
  ASSUME PkTypeOK, Listed, Stages, Steady, Bounded, Kinds
  PROVE  Bounded'
<1> DEFINE B == /\ total_bytes' <= T_BLOCKSIZE * Written'
                /\ total_bytes' = T_BLOCKSIZE * Written' => WholeSoFar'
<1>0. Written \in Nat /\ Written + 1 \in Nat /\ Written + 1 >= Written + 1
  BY Counts
<1>1. SUFFICES ASSUME Running' PROVE B
  BY DEF Bounded
<1>2. ASSUME UNCHANGED <<dirEntities, entity, c, total_bytes, archive, changed>>, Running,
             Headed' <=> Headed
      PROVE  B
  <2>1. Written' = Written
    BY <1>2, Zenon DEF Written
  <2>2. WholeSoFar' <=> WholeSoFar
    BY <1>2, <2>1, Zenon DEF WholeSoFar
  <2> QED
    BY <1>2, <2>1, <2>2 DEF Bounded
<1>3. CASE PackTarInit
  BY <1>2, <1>3 DEF PackTarInit, call, Headed
<1>4. CASE Fails
  BY <1>1, <1>4 DEF Fails, Returns, Running
<1>5. CASE Opens
  BY <1>2, <1>5 DEF Opens, Held, Headed
<1>6. CASE HeadsBody
  <2>1. Written' = Written + 1 /\ Writes(HeaderNow, T_BLOCKSIZE) /\ HeaderWrites
    BY <1>6, WrittenNext DEF HeadsBody, HeaderWrites
  <2>2. ASSUME WholeSoFar PROVE WholeSoFar'
    <3>1. /\ Len(archive') = Here /\ OnlyHeaders(dirEntities, archive')
          /\ Complete(dirEntities, archive', entity, ~changed')
          /\ Laid(dirEntities, archive', entity, 0)
          /\ ~changed' => Filled(dirEntities, archive', entity, 0)
      BY <2>1, <2>2, WholeHeader
    <3>2. /\ c = 0 /\ c' = 0 /\ entity' = entity /\ dirEntities' = dirEntities
          /\ ~Headed /\ Headed' /\ ~(entity > Len(dirEntities))
      BY <1>6, Counts DEF HeadsBody, HeaderWrites, Writes, Held, Stages, Headed
    <3>3. Len(archive') = Written'
      BY <2>1, <3>1, <3>2, Counts DEF Written, Here
    <3> QED
      BY <3>1, <3>2, <3>3, Zenon DEF WholeSoFar
  <2>3. Written' \in Nat /\ Written' >= Written + 1
    BY <1>0, <2>1
  <2> QED
    BY <1>0, <2>1, <2>2, <2>3, Counting
<1>7. CASE HeadsOnly
  <2>1. /\ Written' = Written + 1 /\ Writes(HeaderNow, T_BLOCKSIZE) /\ HeaderWrites /\ Blocks(Size) = 0
        /\ NextEntity /\ Held
    BY <1>7, WrittenNext DEF HeadsOnly, HeaderWrites, Writes
  <2>2. Written' \in Nat /\ Written' >= Written + 1
    BY <1>0, <2>1
  <2>3. ASSUME WholeSoFar PROVE WholeSoFar'
    <3>1. /\ Len(archive') = Here /\ OnlyHeaders(dirEntities, archive')
          /\ Complete(dirEntities, archive', entity, ~changed')
          /\ Laid(dirEntities, archive', entity, 0)
          /\ ~changed' => Filled(dirEntities, archive', entity, 0)
      BY <2>1, <2>3, WholeHeader
    <3>2. c = 0 /\ ~Headed
      BY <1>7, Counts DEF HeadsOnly, HeaderWrites, Stages, Headed
    <3>3. Len(archive') = Written'
      BY <2>1, <3>1, <3>2, Counts DEF Written, Here
    <3>4. dirEntities \in Seq(DirEntity) /\ entity \in 1..Len(dirEntities)
      BY <2>1, Bounds DEF HeaderWrites
    <3> QED
      BY <2>1, <2>2, <3>1, <3>3, <3>4, EntityDone
  <2> QED
    BY <1>0, <2>1, <2>2, <2>3, Counting
<1>8. ASSUME NEW count, NEW written, BodyGoesOn(count, written) PROVE B
  <2>1. Written' = Written + 1 /\ Writes(Data(entity, position, count), written) /\ BodyWrites(count, written)
    BY <1>8, WrittenNext DEF BodyGoesOn, BodyWrites
  <2>2. Written' \in Nat /\ Written' >= Written + 1
    BY <1>0, <2>1
  <2>3. ASSUME WholeSoFar, written = T_BLOCKSIZE PROVE WholeSoFar'
    <3>1. /\ Len(archive') = Here + c + 1 /\ OnlyHeaders(dirEntities, archive')
          /\ Complete(dirEntities, archive', entity, ~changed')
          /\ Laid(dirEntities, archive', entity, c + 1)
          /\ ~changed' => Filled(dirEntities, archive', entity, c + 1)
      BY <2>1, <2>3, WholeBody
    <3>2. /\ c' = c + 1 /\ entity' = entity /\ dirEntities' = dirEntities
          /\ Headed /\ Headed' /\ ~(entity > Len(dirEntities))
      <4>1. BodyGoesOn(count, written) /\ BodyWrites(count, written) /\ Writes(Data(entity, position, count), written)
        BY <1>8, <2>1
      <4>2. c' = c + 1 /\ entity' = entity /\ at' = at /\ at = "body"
        BY <4>1, Zenon DEF BodyGoesOn, BodyWrites
      <4>3. dirEntities' = dirEntities
        BY <4>1, Zenon DEF Writes, Held
      <4>4. ~(entity > Len(dirEntities))
        BY <4>1, Counts DEF BodyWrites
      <4> QED
        BY <4>2, <4>3, <4>4 DEF Headed
    <3>3. Len(archive') = Written'
      BY <2>1, <3>1, <3>2, Counts DEF Written, Here
    <3> QED
      BY <3>1, <3>2, <3>3, Zenon DEF WholeSoFar
  <2> QED
    BY <1>0, <2>1, <2>2, <2>3, Counting
<1>9. ASSUME NEW count, NEW written, BodyEnds(count, written) PROVE B
  <2>1. /\ Written' \in Nat /\ Written' >= Written + 1
        /\ Written' = Written + 1 => Blocks(Size) = c + 1
        /\ Writes(Data(entity, position, count), written) /\ BodyWrites(count, written)
        /\ NextEntity /\ Held
    BY <1>9, WrittenNext DEF BodyEnds, BodyWrites, Writes
  <2>2. ASSUME WholeSoFar, written = T_BLOCKSIZE, Written' = Written + 1 PROVE WholeSoFar'
    <3>1. /\ Len(archive') = Here + c + 1 /\ OnlyHeaders(dirEntities, archive')
          /\ Complete(dirEntities, archive', entity, ~changed')
          /\ Laid(dirEntities, archive', entity, Blocks(Size))
          /\ ~changed' => Filled(dirEntities, archive', entity, Blocks(Size))
      BY <2>1, <2>2, WholeBody
    <3>2. Written = Here - 1 + c + 1
      BY <2>1, Zenon DEF BodyWrites, Headed, Written, Here
    <3>3. Len(archive') = Written'
      <4>1. Here \in Nat \ {0} /\ c \in Nat
        BY Counts
      <4> QED
        BY <2>2, <3>1, <3>2, <4>1
    <3>4. dirEntities \in Seq(DirEntity) /\ entity \in 1..Len(dirEntities)
      BY <2>1, Bounds DEF BodyWrites
    <3> QED
      BY <2>1, <3>1, <3>3, <3>4, EntityDone
  <2> QED
    BY <2>1, <2>2, Counting
<1>10. ASSUME NEW written, FirstZero(written) PROVE B
  <2>1. Written' = Written + 1 /\ Writes(Zero, written) /\ EofWrites(written)
    BY <1>10, WrittenNext DEF FirstZero, EofWrites
  <2>2. Written' \in Nat /\ Written' >= Written + 1
    BY <1>0, <2>1
  <2>3. ASSUME WholeSoFar, written = T_BLOCKSIZE PROVE WholeSoFar'
    <3>1. /\ Len(archive') = Here + c /\ OnlyHeaders(dirEntities, archive')
          /\ Complete(dirEntities, archive', entity, ~changed')
          /\ Zeros(dirEntities, archive', c + 1)
      BY <2>1, <2>3, WholeEof
    <3>2. /\ c = 0 /\ c' = c + 1 /\ entity' = entity /\ dirEntities' = dirEntities
          /\ ~Headed /\ ~Headed'
      BY <1>10 DEF FirstZero, EofWrites, Writes, Held, Headed
    <3>3. Len(archive') = Written'
      BY <2>1, <3>1, <3>2, Counts DEF Written, Here
    <3> QED
      BY <3>1, <3>2, <3>3, Zenon DEF WholeSoFar
  <2> QED
    BY <1>0, <2>1, <2>2, <2>3, Counting
<1>11. ASSUME NEW written, SecondZero(written) PROVE FALSE
  BY <1>1, <1>11 DEF SecondZero, Returns, Running
<1> HIDE DEF B
<1> QED
  BY <1>3, <1>4, <1>5, <1>6, <1>7, <1>8, <1>9, <1>10, <1>11 DEF Kinds

-----------------------------------------------------------------------------
(***************************************************************************)
(* The layout, and the end.                                                *)
(***************************************************************************)
\* A step returns with an error, after the second zero block, or not at all.
LEMMA KindsReturn ==
  ASSUME PkTypeOK, Listed, Stages, Kinds, ~Running'
  PROVE  Fails \/ \E written \in WriteResults : SecondZero(written)
<1>1. ASSUME GoesOn, Running PROVE FALSE
  BY <1>1 DEF GoesOn, Running
<1>2. CASE PackTarInit
  BY <1>2 DEF PackTarInit, result, Running
<1>3. CASE Opens
  BY <1>1, <1>3 DEF Opens
<1>4. CASE HeadsBody \/ HeadsOnly
  BY <1>1, <1>4 DEF HeadsBody, HeadsOnly, HeaderWrites, Writes
<1>5. ASSUME NEW count, NEW written, BodyGoesOn(count, written) \/ BodyEnds(count, written) \/ FirstZero(written) PROVE FALSE
  BY <1>1, <1>5 DEF BodyGoesOn, BodyEnds, BodyWrites, FirstZero, EofWrites, Writes
<1> QED
  BY <1>2, <1>3, <1>4, <1>5 DEF Kinds

\* If the second zero block completes the estimated size, all of it was written.
LEMMA LastBlock ==
  ASSUME PkTypeOK, Listed, Stages, Bounded, NEW written, SecondZero(written)
  PROVE  /\ Written = Here /\ entity = Len(dirEntities) + 1
         /\ Estimate(dirEntities) = T_BLOCKSIZE * (Written + 1)
         /\ total_bytes' <= Estimate(dirEntities)
         /\ total_bytes' = Estimate(dirEntities) => written = T_BLOCKSIZE /\ WholeSoFar
<1>1. /\ at = "header" /\ entity > Len(dirEntities) /\ Writes(Zero, written) /\ c # 0
  BY DEF SecondZero, EofWrites
<1>2. entity = Len(dirEntities) + 1 /\ Here \in Nat \ {0} /\ c \in Nat /\ dirEntities \in Seq(DirEntity)
  <2>1. entity = Len(dirEntities) + 1 /\ dirEntities \in Seq(DirEntity)
    BY <1>1, Bounds
  <2> QED
    BY <2>1, Counts
<1>3. c = 1 /\ ~Headed
  BY <1>1 DEF Stages, Headed
<1>4. Written = Here
  <2>1. Written = Here - 1 + 1 + 0
    BY <1>3, Zenon DEF Written, Here
  <2> QED
    BY <1>2, <2>1
<1>5. Estimate(dirEntities) = T_BLOCKSIZE * (Written + 1)
  BY <1>2, <1>4, PlaceIs DEF Here
<1>6. /\ Running /\ total_bytes' = total_bytes + written
      /\ written \in Int /\ written <= T_BLOCKSIZE
  BY <1>1 DEF Writes
<1>7. /\ total_bytes <= T_BLOCKSIZE * Written
      /\ total_bytes = T_BLOCKSIZE * Written => WholeSoFar
  BY <1>6 DEF Bounded
<1> DEFINE w == Written
<1>8. w \in Nat /\ T_BLOCKSIZE \in Nat /\ total_bytes \in Int
  BY Counts
<1>9. total_bytes <= T_BLOCKSIZE * w
  BY <1>7
<1> HIDE DEF w
<1>10. T_BLOCKSIZE * (w + 1) = T_BLOCKSIZE * w + T_BLOCKSIZE /\ T_BLOCKSIZE * w \in Nat
  BY <1>8
<1>11. /\ total_bytes' <= T_BLOCKSIZE * (w + 1)
       /\ total_bytes' = T_BLOCKSIZE * (w + 1) => written = T_BLOCKSIZE /\ total_bytes = T_BLOCKSIZE * w
  BY <1>6, <1>8, <1>9, <1>10
<1> QED
  BY <1>2, <1>4, <1>5, <1>7, <1>11 DEF w

LEMMA PlannedKept ==
  ASSUME PkTypeOK, Listed, Stages, Steady, Bounded, Planned, Kinds, Listed', PkTypeOK', Bounded'
  PROVE  Planned'
<1>1. /\ dirEntities' = dirEntities /\ (refused => refused') /\ Running
  <2>1. CASE PackTarInit
    BY <2>1 DEF PackTarInit, call
  <2>2. CASE ~PackTarInit
    <3>1. Held
      BY <2>2, KindsHold
    <3>2. Running /\ (refused => refused')
      BY <2>2 DEF Kinds, Fails, Opens, HeadsBody, HeadsOnly, HeaderWrites, BodyGoesOn, BodyEnds,
                  BodyWrites, FirstZero, SecondZero, EofWrites, Writes
    <3> QED
      BY <3>1, <3>2 DEF Held
  <2> QED
    BY <2>1, <2>2
<1>2. Exact' <=> Exact
  BY <1>1 DEF Exact, CollectedSizes, Entities
<1>3. SUFFICES ASSUME Exact, ~refused'
               PROVE  /\ Running' => total_bytes' = T_BLOCKSIZE * Written'
                      /\ \A e \in 1..entity'-1 : Laid(dirEntities', archive', e, 0)
                      /\ ~Running' /\ packed' # Failed => packed' = _tar_estimated_filesize'
  BY <1>2, Zenon DEF Planned
<1>4. /\ ~refused /\ total_bytes = T_BLOCKSIZE * Written /\ WholeSoFar
      /\ \A e \in 1..entity-1 : Laid(dirEntities, archive, e, 0)
  BY <1>1, <1>3 DEF Planned, Bounded
<1>5. T_BLOCKSIZE \in Nat /\ Written \in Nat
  BY Counts
<1>6. ASSUME UNCHANGED <<dirEntities, entity, c, total_bytes>>, Headed' <=> Headed
      PROVE  total_bytes' = T_BLOCKSIZE * Written'
  <2>1. Written' = Written
    BY <1>6, Zenon DEF Written
  <2> QED
    BY <1>4, <1>6, <2>1
<1>7. ASSUME NEW block, NEW written, Writes(block, written)
      PROVE  written = T_BLOCKSIZE /\ total_bytes' = total_bytes + T_BLOCKSIZE
  BY <1>3, <1>7 DEF Writes
<1>8. ASSUME NEW block, NEW written, Writes(block, written), Written' = Written + 1
      PROVE  total_bytes' = T_BLOCKSIZE * Written'
  <2>1. total_bytes' = T_BLOCKSIZE * Written + T_BLOCKSIZE
    BY <1>4, <1>7, <1>8
  <2>2. T_BLOCKSIZE * Written' = T_BLOCKSIZE * (Written + 1)
    BY <1>8
  <2> DEFINE w == Written
  <2>3. T_BLOCKSIZE * (w + 1) = T_BLOCKSIZE * w + T_BLOCKSIZE
    <3>1. w \in Nat
      BY <1>5
    <3> HIDE DEF w
    <3> QED
      BY <1>5, <3>1
  <2> QED
    BY <2>1, <2>2, <2>3
<1>9. CASE Running'
  <2>1. total_bytes' = T_BLOCKSIZE * Written'
    <3>1. CASE PackTarInit
      BY <1>6, <3>1 DEF PackTarInit, call, Headed
    <3>2. CASE Fails
      BY <1>9, <3>2 DEF Fails, Returns, Running
    <3>3. CASE Opens
      BY <1>6, <3>3 DEF Opens, Held, Headed
    <3>4. CASE HeadsBody
      BY <1>8, <3>4, WrittenNext DEF HeadsBody, HeaderWrites
    <3>5. CASE HeadsOnly
      BY <1>8, <3>5, WrittenNext DEF HeadsOnly, HeaderWrites
    <3>6. ASSUME NEW count, NEW written, BodyGoesOn(count, written) PROVE total_bytes' = T_BLOCKSIZE * Written'
      BY <1>8, <3>6, WrittenNext DEF BodyGoesOn, BodyWrites
    <3>7. ASSUME NEW count, NEW written, BodyEnds(count, written) PROVE total_bytes' = T_BLOCKSIZE * Written'
      BY <1>3, <1>8, <3>7, WrittenNext DEF BodyEnds, BodyWrites
    <3>8. ASSUME NEW written, FirstZero(written) PROVE total_bytes' = T_BLOCKSIZE * Written'
      BY <1>8, <3>8, WrittenNext DEF FirstZero, EofWrites
    <3>9. ASSUME NEW written, SecondZero(written) PROVE FALSE
      BY <1>9, <3>9 DEF SecondZero, Returns, Running
    <3> QED
      BY <3>1, <3>2, <3>3, <3>4, <3>5, <3>6, <3>7, <3>8, <3>9 DEF Kinds
  <2>2. Complete(dirEntities', archive', entity', ~changed')
    BY <1>9, <2>1, Zenon DEF Bounded, WholeSoFar
  <2>3. ASSUME NEW e \in 1..entity'-1 PROVE Laid(dirEntities', archive', e, 0)
    <3>1. /\ dirEntities' \in Seq(DirEntity) /\ e \in 1..Len(dirEntities')
          /\ e \in 1..Len(dirEntities')+1
      <4>1. dirEntities' \in Seq(DirEntity) /\ entity' \in 1..Len(dirEntities')+1
        BY Zenon DEF PkTypeOK
      <4> DEFINE n == Len(dirEntities')
                 m == entity'
      <4>2. n \in Nat /\ m \in 1..n+1 /\ e \in 1..m-1
        <5>1. n \in Nat
          BY <4>1
        <5>2. m \in 1..n+1 /\ e \in 1..m-1
          BY <2>3, <4>1, Zenon
        <5> QED
          BY <5>1, <5>2
      <4> HIDE DEF n, m
      <4>3. e \in 1..n /\ e \in 1..n+1
        BY <4>2
      <4> QED
        BY <4>1, <4>3 DEF n
    <3>2. Laid(dirEntities', archive', e, Blocks(dirEntities'[e].size))
      BY <2>2, Zenon DEF Complete
    <3>3. Blocks(dirEntities'[e].size) \in Nat /\ PlaceIn(dirEntities', e) \in Nat
      BY <3>1, BlocksOf, PlaceIs
    <3>4. Len(archive') \in Nat
      <4>1. archive' \in Seq(ArchiveBlocks)
        BY Zenon DEF PkTypeOK
      <4> QED
        BY <4>1
    <3>5. PlaceIn(dirEntities', e) + 0 <= Len(archive')
      BY <3>2, <3>3, <3>4 DEF Laid
    <3> QED
      BY <3>2, <3>5, Zenon DEF Laid
  <2> QED
    BY <1>9, <2>1, <2>3, Zenon
<1>10. CASE ~Running'
  <2>1. ASSUME entity' = entity, Extends(archive, archive')
        PROVE  \A e \in 1..entity'-1 : Laid(dirEntities', archive', e, 0)
    <3>1. ASSUME NEW e \in 1..entity-1 PROVE Laid(dirEntities, archive', e, 0)
      <4>1. /\ dirEntities \in Seq(DirEntity) /\ e \in 1..Len(dirEntities)+1
        BY Bounds
      <4>2. PlaceIn(dirEntities, e) \in Nat \ {0} /\ 0 \in Nat
        BY <4>1, PlaceIs
      <4> QED
        BY <1>4, <2>1, <4>2, LaidStays
    <3> QED
      BY <1>1, <2>1, <3>1, Zenon
  <2>2. CASE Fails
    BY <1>10, <2>1, <2>2, Zenon DEF Fails
  <2>3. ASSUME NEW written, SecondZero(written)
        PROVE  /\ entity' = entity /\ Extends(archive, archive')
               /\ packed' = _tar_estimated_filesize'
    <3>1. Writes(Zero, written) /\ at # "init" /\ entity' = entity /\ packed' = total_bytes'
      BY <2>3 DEF SecondZero, EofWrites
    <3>2. _tar_estimated_filesize' = Estimate(dirEntities)
      BY <3>1, Zenon DEF Writes, Held, Listed
    <3>3. Estimate(dirEntities) = T_BLOCKSIZE * (Written + 1)
      BY <2>3, LastBlock
    <3>4. total_bytes' = T_BLOCKSIZE * Written + T_BLOCKSIZE
      BY <1>4, <1>7, <3>1
    <3> DEFINE w == Written
    <3>5. T_BLOCKSIZE * (w + 1) = T_BLOCKSIZE * w + T_BLOCKSIZE
      <4>1. w \in Nat
        BY <1>5
      <4> HIDE DEF w
      <4> QED
        BY <1>5, <4>1
    <3> QED
      BY <3>1, <3>2, <3>3, <3>4, <3>5 DEF Writes
  <2> QED
    BY <1>10, <2>1, <2>2, <2>3, KindsReturn, Zenon
<1> QED
  BY <1>9, <1>10

LEMMA EndedKept ==
  ASSUME PkTypeOK, Listed, Stages, Steady, Bounded, Kinds
  PROVE  Ended'
<1>1. SUFFICES ASSUME ~Running', packed' = _tar_estimated_filesize'
               PROVE  FullArchive(dirEntities', archive', ~changed')
  BY Zenon DEF Ended
<1>2. CASE Fails
  <2>1. packed' = -1 /\ _tar_estimated_filesize' \in Nat
    BY <1>2, Facts DEF Fails, Failed, Held
  <2> QED
    BY <1>1, <2>1
<1>3. ASSUME NEW written, SecondZero(written) PROVE FullArchive(dirEntities', archive', ~changed')
  <2>1. EofWrites(written) /\ at # "init" /\ packed' = total_bytes' /\ c # 0
    BY <1>3 DEF SecondZero, EofWrites
  <2>2. Held
    BY <2>1 DEF EofWrites, Writes
  <2>3. total_bytes' = Estimate(dirEntities)
    BY <1>1, <2>1, <2>2, Zenon DEF Held, Listed
  <2>4. written = T_BLOCKSIZE /\ WholeSoFar
    BY <1>3, <2>3, LastBlock
  <2>5. /\ Len(archive') = Here + c /\ OnlyHeaders(dirEntities, archive')
        /\ Complete(dirEntities, archive', entity, ~changed')
        /\ entity = Len(dirEntities) + 1
        /\ Zeros(dirEntities, archive', c + 1)
    BY <2>1, <2>4, WholeEof
  <2>6. c = 1 /\ c + 1 = 2
    BY <2>1, <2>5, Counts DEF Stages, EofWrites
  <2>7. FullArchive(dirEntities, archive', ~changed')
    BY <2>5, <2>6, Zenon DEF FullArchive, Here
  <2> QED
    BY <2>2, <2>7, Zenon DEF Held
<1> QED
  BY <1>1, <1>2, <1>3, KindsReturn

-----------------------------------------------------------------------------
(***************************************************************************)
(* The other steps, the initial states, and the specification.             *)
(***************************************************************************)
LEMMA ChangesKeep ==
  ASSUME PkIInv, Changes
  PROVE  PkIInv'
<1>1. /\ PkTypeOK /\ Listed /\ Stages /\ Steady /\ Bounded /\ Planned /\ Ended
  BY Zenon DEF PkIInv
<1>2. /\ Running /\ list' = list
      /\ UNCHANGED <<entity, at, c, position, total_bytes, archive, refused, result>>
      /\ files' \in [Entities -> Nat \cup {Gone}] /\ changed' = TRUE
  BY <1>1, ChangesIs
<1>3. /\ gz' = gz /\ tar_prefix' = tar_prefix /\ dirEntities' = dirEntities
      /\ _tarEntities' = _tarEntities /\ _tar_estimated_filesize' = _tar_estimated_filesize
      /\ entity' = entity /\ at' = at /\ c' = c /\ position' = position
      /\ total_bytes' = total_bytes /\ archive' = archive /\ refused' = refused
      /\ packed' = packed /\ returned' = returned
  BY <1>2, Zenon DEF list, call, result
<1>4. Entities' = Entities /\ (Headed' <=> Headed) /\ (Exact' <=> Exact) /\ (Running' <=> Running)
  BY <1>3, Zenon DEF Entities, Headed, Exact, CollectedSizes, Running
<1>5. Written' = Written
  BY <1>3, <1>4, Zenon DEF Written
<1>6. PkTypeOK'
  BY <1>1, <1>2, <1>3, <1>4, Zenon DEF PkTypeOK
<1>7. Listed'
  BY <1>1, <1>3, <1>4, Zenon DEF Listed
<1>8. Stages'
  BY <1>1, <1>3, <1>4, Zenon DEF Stages
<1>9. Steady'
  BY <1>2, Zenon DEF Steady
<1>10. WholeSoFar => WholeSoFar'
  <2>1. \A e, kept : Complete(dirEntities, archive, e, kept) => Complete(dirEntities, archive, e, ~TRUE)
    BY Zenon DEF Complete
  <2> QED
    BY <1>2, <1>3, <1>4, <1>5, <2>1, Zenon DEF WholeSoFar
<1>11. Bounded'
  BY <1>1, <1>3, <1>4, <1>5, <1>10, Zenon DEF Bounded
<1>12. Planned'
  BY <1>1, <1>3, <1>4, <1>5, Zenon DEF Planned
<1>13. Ended'
  BY <1>2, <1>4, Zenon DEF Ended
<1> QED
  BY <1>6, <1>7, <1>8, <1>9, <1>11, <1>12, <1>13, Zenon DEF PkIInv

LEMMA StutterKeeps ==
  ASSUME PkIInv, UNCHANGED vars
  PROVE  PkIInv'
<1>1. /\ gz' = gz /\ tar_prefix' = tar_prefix /\ dirEntities' = dirEntities
      /\ _tarEntities' = _tarEntities /\ _tar_estimated_filesize' = _tar_estimated_filesize
      /\ files' = files /\ changed' = changed
      /\ entity' = entity /\ at' = at /\ c' = c /\ position' = position
      /\ total_bytes' = total_bytes /\ archive' = archive /\ refused' = refused
      /\ packed' = packed /\ returned' = returned
  BY Zenon DEF vars, list, call, result
<1>2. Entities' = Entities /\ (Headed' <=> Headed) /\ (Exact' <=> Exact) /\ (Running' <=> Running)
  BY <1>1, Zenon DEF Entities, Headed, Exact, CollectedSizes, Running
<1>3. Written' = Written
  BY <1>1, <1>2, Zenon DEF Written
<1>4. WholeSoFar' <=> WholeSoFar
  BY <1>1, <1>2, <1>3, Zenon DEF WholeSoFar
<1>5. PkTypeOK' /\ Listed' /\ Stages' /\ Steady'
  <2>1. PkTypeOK'
    BY <1>1, <1>2, Zenon DEF PkIInv, PkTypeOK
  <2>2. Listed'
    BY <1>1, <1>2, Zenon DEF PkIInv, Listed
  <2>3. Stages'
    BY <1>1, <1>2, Zenon DEF PkIInv, Stages
  <2>4. Steady'
    BY <1>1, <1>2, Zenon DEF PkIInv, Steady
  <2> QED
    BY <2>1, <2>2, <2>3, <2>4
<1>6. Bounded' /\ Planned' /\ Ended'
  BY <1>1, <1>2, <1>3, <1>4, Zenon DEF PkIInv, Bounded, Planned, Ended
<1> QED
  BY <1>5, <1>6, Zenon DEF PkIInv

LEMMA InitHolds ==
  ASSUME Init
  PROVE  PkIInv
<1>1. /\ gz \in BOOLEAN /\ dirEntities = collectDirEntities(tree, folder) /\ _tarEntities = <<>>
      /\ files = [e \in Entities |-> dirEntities[e].size] /\ changed = FALSE
      /\ _tar_estimated_filesize = 0 /\ entity = 1 /\ at = "init" /\ c = 0 /\ position = 0
      /\ total_bytes = 0 /\ archive = <<>> /\ refused = FALSE
      /\ packed = NoReturn /\ returned = NoReturn
  BY Zenon DEF Init
<1>2. PICK of \in Calls : tree = of.tree /\ folder = of.folder /\ tar_prefix = of.tar_prefix
  BY DEF Init
<1>3. /\ dirEntities \in Seq(DirEntity)
      /\ \A e \in 1..Len(dirEntities) : dirEntities[e].size < T_BLOCKSIZE * Two[FloatBits]
      /\ tar_prefix # NULL => tar_prefix \in Seq(Paths) /\ Len(tar_prefix) = 1
  <2>1. LET entities == collectDirEntities(of.tree, of.folder)
        IN  /\ entities \in Seq(DirEntity)
            /\ \A e \in 1..Len(entities) : entities[e].size < T_BLOCKSIZE * Two[FloatBits]
            /\ of.tar_prefix # NULL => of.tar_prefix \in Seq(Paths) /\ Len(of.tar_prefix) = 1
    BY <1>2, CallsAssumption
  <2>2. dirEntities = collectDirEntities(of.tree, of.folder)
    BY <1>1, <1>2, Zenon
  <2> QED
    BY <1>2, <2>1, <2>2, Zenon
<1>4. Len(dirEntities) \in Nat /\ 1 \in 1..Len(dirEntities)+1
  BY <1>3
<1>5. files \in [Entities -> Nat \cup {Gone}]
  <2>1. \A e \in Entities : dirEntities[e].size \in Nat
    BY <1>3, BlocksOf DEF Entities
  <2> QED
    BY <1>1, <2>1
<1>6. PkTypeOK
  <2>1. archive \in Seq(ArchiveBlocks) /\ \A b \in 1..Len(archive) : FALSE
    BY <1>1
  <2>2. /\ _tarEntities \in Seq(TarEntity) /\ _tar_estimated_filesize \in Nat /\ c \in Nat
        /\ position \in Nat /\ total_bytes \in Int
    BY <1>1
  <2>3. packed \in Int /\ returned \in Int
    BY <1>1 DEF NoReturn
  <2>4. changed \in BOOLEAN /\ refused \in BOOLEAN
    BY <1>1, Zenon
  <2>5. at \in {"init", "header", "open", "body"} /\ entity \in 1..Len(dirEntities)+1
    BY <1>1, <1>4
  <2> QED
    BY <1>1, <1>3, <1>5, <2>1, <2>2, <2>3, <2>4, <2>5, Zenon DEF PkTypeOK
<1>7. Listed
  BY <1>1, <1>3 DEF Listed, Entities
<1>8. ~Headed /\ Running
  BY <1>1 DEF Headed, Running
<1>9. Stages
  BY <1>1, <1>8 DEF Stages
<1>10. Steady
  BY <1>1 DEF Steady
<1>11. Written = 0
  <2>1. PlaceIn(dirEntities, 1) = 1
    BY <1>3, PlaceIs
  <2>2. Written = 1 - 1 + 0 + 0
    BY <1>1, <1>8, <2>1, Zenon DEF Written
  <2> QED
    BY <2>2
<1>12. WholeSoFar
  <2>1. Len(archive) = 0 /\ \A b \in 1..Len(archive) : FALSE
    BY <1>1
  <2>2. \A i \in 1..entity-1 : FALSE
    BY <1>1
  <2>3. \A k \in 0..c-1 : FALSE
    BY <1>1
  <2> QED
    BY <1>8, <1>11, <2>1, <2>2, <2>3, Zenon DEF WholeSoFar, OnlyHeaders, Complete, Zeros
<1>13. total_bytes = T_BLOCKSIZE * Written /\ total_bytes <= T_BLOCKSIZE * Written
  <2>1. T_BLOCKSIZE \in Nat
    BY BlockAssumption
  <2> QED
    BY <1>1, <1>11, <2>1
<1>14. Bounded
  BY <1>12, <1>13 DEF Bounded
<1>15. Planned
  <2>1. \A i \in 1..entity-1 : FALSE
    BY <1>1
  <2> QED
    BY <1>8, <1>13, <2>1, Zenon DEF Planned
<1>16. Ended
  BY <1>8 DEF Ended
<1> QED
  BY <1>6, <1>7, <1>9, <1>10, <1>14, <1>15, <1>16, Zenon DEF PkIInv

LEMMA NextKeeps ==
  ASSUME PkIInv, [Next]_vars
  PROVE  PkIInv'
<1>1. CASE Step
  <2>1. PkTypeOK /\ Listed /\ Stages /\ Steady /\ Bounded /\ Planned
    BY Zenon DEF PkIInv
  <2>2. Kinds
    BY <1>1, <2>1, StepIs
  <2>3. PkTypeOK' /\ Listed' /\ Stages' /\ Steady' /\ Bounded' /\ Ended'
    BY <2>1, <2>2, TypeKept, ListedKept, StagesKept, SteadyKept, BoundedKept, EndedKept
  <2>4. Planned'
    BY <2>1, <2>2, <2>3, PlannedKept
  <2> QED
    BY <2>3, <2>4, Zenon DEF PkIInv
<1>2. CASE Changes
  BY <1>2, ChangesKeep
<1>3. CASE UNCHANGED vars
  BY <1>3, StutterKeeps
<1> QED
  BY <1>1, <1>2, <1>3, Zenon DEF Next, Changes

LEMMA PkInvariant == Spec => []PkIInv
<1>1. Init => PkIInv
  BY InitHolds
<1>2. PkIInv /\ [Next]_vars => PkIInv'
  BY NextKeeps
<1> QED
  BY <1>1, <1>2, PTL DEF Spec

\* The types, and that every header holds a name that fits it: th_set_path cuts the names
\* that do not (libtar.c 331-381).
THEOREM PackerTypes == Spec => []PkTypeOK
<1>1. PkIInv => PkTypeOK
  BY DEF PkIInv
<1> QED
  BY <1>1, PkInvariant, PTL

\* While sizes are exact as floats and the destination takes what it is given, headers are
\* where the collected sizes place them, whatever happens to the files meanwhile, and a
\* call that does not fail returns what was estimated (LibPacker.cpp 871-960).
THEOREM LayoutIsKept == Spec => []LayoutKept
<1>1. ASSUME PkIInv PROVE LayoutKept
  <2>1. PkTypeOK /\ Planned
    BY <1>1, Zenon DEF PkIInv
  <2>2. \A e : Place(e) = PlaceIn(dirEntities, e)
    BY Zenon DEF Place, PlaceIn
  <2>3. ASSUME NEW e \in 1..entity-1, Laid(dirEntities, archive, e, 0)
        PROVE  /\ Place(e) <= Len(archive) /\ archive[Place(e)].kind = "header"
               /\ archive[Place(e)].entry = e
    <3>1. dirEntities \in Seq(DirEntity) /\ e \in 1..Len(dirEntities)+1
      BY <2>1, Bounds
    <3>2. PlaceIn(dirEntities, e) \in Nat
      BY <3>1, PlaceIs
    <3>3. PlaceIn(dirEntities, e) + 0 = PlaceIn(dirEntities, e)
      BY <3>2
    <3> QED
      BY <2>2, <2>3, <3>3, Zenon DEF Laid
  <2> QED
    BY <2>1, <2>3, Zenon DEF Planned, LayoutKept
<1> QED
  BY <1>1, PkInvariant, PTL

-----------------------------------------------------------------------------
(***************************************************************************)
(* What a reader makes of a full archive.                                  *)
(***************************************************************************)
\* A step of the reader, and what it is to find from an entity on.
ReadAt(a, read, p) ==
  IF p = Len(a) - 1 /\ a[p] = Zero /\ a[Len(a)] = Zero THEN <<>>
  ELSE IF p > Len(a) THEN GivesUp
  ELSE IF a[p].kind # "header" THEN GivesUp
  ELSE LET end == p + Blocks(a[p].size)
       IN  IF end > Len(a) THEN GivesUp
           ELSE <<[entry |-> a[p].entry, size |-> a[p].size,
                   data |-> SubSeq(a, p + 1, end)]>> \o read[end + 1]
Entry(l, a, e) == [entry |-> e, size |-> a[PlaceIn(l, e)].size,
                   data |-> SubSeq(a, PlaceIn(l, e) + 1, PlaceIn(l, e) + Blocks(l[e].size))]
Rest(l, a, e) == [i \in 1..Len(l)+1-e |-> Entry(l, a, e + i - 1)]
\* The headers of a list state sizes of the blocks that were collected.
SameBlocks(l, a) == \A e \in 1..Len(l) : Blocks(a[PlaceIn(l, e)].size) = Blocks(l[e].size)

LEMMA Behind ==
  ASSUME NEW S, NEW x \in S, NEW s \in Seq(S)
  PROVE  /\ <<x>> \o s \in Seq(S) /\ Len(<<x>> \o s) = 1 + Len(s) /\ (<<x>> \o s)[1] = x
         /\ \A i \in 1..Len(s) : (<<x>> \o s)[1 + i] = s[i]
OBVIOUS

LEMMA RestIs ==
  ASSUME NEW l \in Seq(DirEntity), NEW a, NEW e \in 1..Len(l)
  PROVE  <<Entry(l, a, e)>> \o Rest(l, a, e + 1) = Rest(l, a, e)
<1> DEFINE n == Len(l)
           E(i) == Entry(l, a, i)
           S == {E(i) : i \in 1..n}
           s == [i \in 1..n+1-(e+1) |-> E((e + 1) + i - 1)]
           t == [i \in 1..n+1-e |-> E(e + i - 1)]
           u == <<E(e)>> \o s
<1>1. n \in Nat /\ e \in 1..n /\ n + 1 - (e + 1) \in Nat /\ n + 1 - (e + 1) = n - e
  OBVIOUS
<1>2. Rest(l, a, e + 1) = s /\ Rest(l, a, e) = t
  BY DEF Rest
<1> HIDE DEF E, n
<1>3. E(e) \in S /\ s \in Seq(S) /\ Len(s) = n - e
  <2>1. \A i \in 1..n+1-(e+1) : (e + 1) + i - 1 \in 1..n
    BY <1>1
  <2>2. \A i \in 1..n+1-(e+1) : E((e + 1) + i - 1) \in S
    BY <2>1
  <2> HIDE DEF S
  <2>3. s \in Seq(S) /\ Len(s) = n - e
    BY <1>1, <2>2
  <2> QED
    BY <1>1, <2>3 DEF S
<1> HIDE DEF S
<1>4. /\ u \in Seq(S) /\ Len(u) = 1 + (n - e) /\ u[1] = E(e)
      /\ \A i \in 1..n-e : u[1 + i] = s[i]
  <2> HIDE DEF s
  <2> QED
    BY <1>3, Behind
<1>5. t \in Seq(S) /\ Len(t) = n + 1 - e
  <2>1. \A i \in 1..n+1-e : e + i - 1 \in 1..n
    BY <1>1
  <2>2. \A i \in 1..n+1-e : E(e + i - 1) \in S
    BY <2>1 DEF S
  <2>3. n + 1 - e \in Nat
    BY <1>1
  <2> QED
    BY <2>2, <2>3
<1>6. \A i \in 1..n+1-e : u[i] = t[i]
  <2> TAKE i \in 1..n+1-e
  <2>1. CASE i = 1
    <3>1. t[1] = E(e + 1 - 1) /\ e + 1 - 1 = e
      BY <1>1
    <3> QED
      BY <1>4, <2>1, <3>1
  <2>2. CASE i # 1
    <3>1. i - 1 \in 1..n-e /\ 1 + (i - 1) = i /\ (e + 1) + (i - 1) - 1 = e + i - 1
      BY <1>1, <2>2
    <3>2. u[1 + (i - 1)] = s[i - 1]
      BY <1>4, <3>1
    <3>3. s[i - 1] = E((e + 1) + (i - 1) - 1)
      BY <1>1, <3>1
    <3>4. t[i] = E(e + i - 1)
      OBVIOUS
    <3> QED
      BY <3>1, <3>2, <3>3, <3>4
  <2> QED
    BY <2>1, <2>2
<1>7. u = t
  <2> HIDE DEF u, t
  <2>1. Len(u) = Len(t)
    BY <1>1, <1>4, <1>5
  <2>2. \A i \in 1..Len(u) : u[i] = t[i]
    BY <1>1, <1>4, <1>6
  <2> QED
    BY <1>4, <1>5, <2>1, <2>2
<1> QED
  BY <1>2, <1>7 DEF E

LEMMA NoRest ==
  ASSUME NEW l \in Seq(DirEntity), NEW a
  PROVE  Rest(l, a, Len(l) + 1) = <<>>
<1>1. 1..Len(l)+1-(Len(l)+1) = {}
  OBVIOUS
<1> QED
  BY <1>1 DEF Rest

\* The entry at its place; and the end.
LEMMA ReadAtPlace ==
  ASSUME NEW l \in Seq(DirEntity), NEW a, FullArchive(l, a, FALSE), SameBlocks(l, a), NEW read
  PROVE  /\ ReadAt(a, read, PlaceIn(l, Len(l) + 1)) = <<>>
         /\ \A e \in 1..Len(l) : read[PlaceIn(l, e + 1)] = Rest(l, a, e + 1) =>
              ReadAt(a, read, PlaceIn(l, e)) = Rest(l, a, e)
<1> DEFINE n == Len(l)
           last == PlaceIn(l, n + 1) + 1
<1>1. n \in Nat /\ PlaceIn(l, n + 1) \in Nat \ {0} /\ Len(a) = last
      /\ Complete(l, a, n + 1, FALSE) /\ Zeros(l, a, 2)
  <2>1. Len(l) \in Nat /\ Len(l) + 1 \in 1..Len(l)+1
    OBVIOUS
  <2>2. PlaceIn(l, n + 1) \in Nat \ {0}
    BY <2>1, PlaceIs
  <2> QED
    BY <2>1, <2>2, Zenon DEF FullArchive
<1>2. ReadAt(a, read, PlaceIn(l, n + 1)) = <<>>
  <2>1. 0 \in 0..2-1 /\ 1 \in 0..2-1
    OBVIOUS
  <2>2. a[PlaceIn(l, n + 1) + 0] = Zero /\ a[PlaceIn(l, n + 1) + 1] = Zero
    BY <1>1, <2>1, Zenon DEF Zeros
  <2>3. PlaceIn(l, n + 1) + 0 = PlaceIn(l, n + 1) /\ PlaceIn(l, n + 1) = Len(a) - 1
    BY <1>1
  <2>4. a[PlaceIn(l, n + 1)] = Zero /\ a[Len(a)] = Zero
    BY <1>1, <2>2, <2>3
  <2> QED
    BY <2>3, <2>4, Zenon DEF ReadAt
<1>3. ASSUME NEW e \in 1..n, read[PlaceIn(l, e + 1)] = Rest(l, a, e + 1)
      PROVE  ReadAt(a, read, PlaceIn(l, e)) = Rest(l, a, e)
  <2> DEFINE p == PlaceIn(l, e)
             b == Blocks(l[e].size)
             end == p + Blocks(a[p].size)
  <2>1. /\ p \in Nat \ {0} /\ b \in Nat /\ PlaceIn(l, e + 1) = p + 1 + b
        /\ p < PlaceIn(l, n + 1) /\ PlaceIn(l, e + 1) <= PlaceIn(l, n + 1)
    <3>1. e \in 1..n+1 /\ e + 1 \in 1..n+1 /\ n + 1 \in 1..n+1
      BY <1>1
    <3>2. p \in Nat \ {0} /\ b \in Nat /\ PlaceIn(l, e + 1) = p + 1 + b
      BY <3>1, PlaceIs, BlocksOf
    <3>3. PlaceIn(l, e) < PlaceIn(l, n + 1) /\ (e + 1 = n + 1 \/ PlaceIn(l, e + 1) < PlaceIn(l, n + 1))
      BY <3>1, <1>1, PlacesApart
    <3>4. PlaceIn(l, e + 1) <= PlaceIn(l, n + 1)
      BY <1>1, <3>2, <3>3
    <3> QED
      BY <3>2, <3>3, <3>4
  <2>2. a[p].kind = "header" /\ a[p].entry = e
    BY <1>1 DEF Complete, Laid
  <2>3. Blocks(a[p].size) = b
    BY Zenon DEF SameBlocks
  <2> HIDE DEF p, b
  <2>4. /\ p # Len(a) - 1 /\ ~(p > Len(a)) /\ end = p + b /\ ~(end > Len(a))
        /\ end + 1 = PlaceIn(l, e + 1)
    BY <1>1, <2>1, <2>3
  <2>5. ReadAt(a, read, p)
          = <<[entry |-> a[p].entry, size |-> a[p].size, data |-> SubSeq(a, p + 1, end)]>>
            \o read[end + 1]
    BY <2>2, <2>4, Zenon DEF ReadAt
  <2>6. [entry |-> a[p].entry, size |-> a[p].size, data |-> SubSeq(a, p + 1, end)] = Entry(l, a, e)
    BY <2>2, <2>4, Zenon DEF Entry, p, b
  <2>7. ReadAt(a, read, p) = <<Entry(l, a, e)>> \o Rest(l, a, e + 1)
    BY <1>3, <2>4, <2>5, <2>6
  <2> QED
    BY <2>7, RestIs DEF p
<1> QED
  BY <1>2, <1>3

LEMMA ReadIs ==
  ASSUME NEW l \in Seq(DirEntity), NEW a, FullArchive(l, a, FALSE), SameBlocks(l, a)
  PROVE  LET read == CHOOSE f : f = [p \in 1..Len(a)+1 |-> ReadAt(a, f, p)]
         IN  read[1] = Rest(l, a, 1)
<1> DEFINE n == Len(l)
           last == Len(a)
           R(f) == [p \in 1..last+1 |-> ReadAt(a, f, p)]
           read == CHOOSE f : f = R(f)
           g == [p \in 1..last+1 |->
                  IF p = last - 1 THEN <<>>
                  ELSE IF p > last \/ a[p].kind # "header" THEN GivesUp ELSE Rest(l, a, a[p].entry)]
<1>1. /\ n \in Nat /\ PlaceIn(l, n + 1) \in Nat \ {0} /\ last = PlaceIn(l, n + 1) + 1
      /\ Complete(l, a, n + 1, FALSE) /\ Zeros(l, a, 2) /\ OnlyHeaders(l, a)
  <2>1. Len(l) \in Nat /\ Len(l) + 1 \in 1..Len(l)+1
    OBVIOUS
  <2>2. PlaceIn(l, n + 1) \in Nat \ {0}
    BY <2>1, PlaceIs
  <2> QED
    BY <2>1, <2>2, Zenon DEF FullArchive
<1>2. \A e \in 1..n+1 : PlaceIn(l, e) \in 1..last-1 /\ PlaceIn(l, e) \in 1..last+1
  <2> TAKE e \in 1..n+1
  <2>1. n + 1 \in 1..n+1
    BY <1>1
  <2>2. PlaceIn(l, e) \in Nat \ {0} /\ (e = n + 1 \/ PlaceIn(l, e) < PlaceIn(l, n + 1))
    <3>1. PlaceIn(l, e) \in Nat \ {0}
      BY PlaceIs
    <3>2. e = n + 1 \/ e < n + 1
      BY <1>1
    <3>3. e < n + 1 => PlaceIn(l, e) < PlaceIn(l, n + 1)
      BY <2>1, PlacesApart
    <3> QED
      BY <3>1, <3>2, <3>3
  <2> QED
    BY <1>1, <2>2
<1>3. \A e \in 1..n+1 : g[PlaceIn(l, e)] = Rest(l, a, e)
  <2> TAKE e \in 1..n+1
  <2> DEFINE p == PlaceIn(l, e)
  <2>1. p \in 1..last+1 /\ p \in 1..last-1
    BY <1>2
  <2>2. CASE e = n + 1
    <3>1. p = last - 1
      BY <1>1, <2>2
    <3>2. g[p] = <<>>
      BY <2>1, <3>1
    <3> QED
      BY <2>2, <3>2, NoRest
  <2>3. CASE e # n + 1
    <3>1. e \in 1..n /\ e \in 1..(n+1)-1 /\ n + 1 \in 1..n+1
      BY <1>1, <2>3
    <3>2. p # last - 1 /\ ~(p > last)
      <4>1. e < n + 1
        BY <1>1, <3>1
      <4>2. p < PlaceIn(l, n + 1)
        BY <3>1, <4>1, PlacesApart
      <4> HIDE DEF p
      <4> QED
        BY <1>1, <2>1, <4>2
    <3>3. a[p].kind = "header" /\ a[p].entry = e
      BY <1>1, <3>1 DEF Complete, Laid
    <3>4. g[p] = IF p = last - 1 THEN <<>>
                 ELSE IF p > last \/ a[p].kind # "header" THEN GivesUp ELSE Rest(l, a, a[p].entry)
      <4> HIDE DEF p, last
      <4> QED
        BY <2>1, Zenon
    <3> HIDE DEF g, p
    <3> QED
      BY <3>2, <3>3, <3>4, Zenon DEF p
  <2> QED
    BY <2>2, <2>3
<1>4. \A p \in 1..last+1 : g[p] = ReadAt(a, g, p)
  <2> TAKE p \in 1..last+1
  <2>1. g[p] = IF p = last - 1 THEN <<>>
               ELSE IF p > last \/ a[p].kind # "header" THEN GivesUp ELSE Rest(l, a, a[p].entry)
    <3> HIDE DEF last
    <3> QED
      BY Zenon
  <2> HIDE DEF g
  <2>2. CASE p = last - 1
    <3>1. p = PlaceIn(l, n + 1)
      BY <1>1, <2>2
    <3>2. ReadAt(a, g, PlaceIn(l, n + 1)) = <<>>
      BY ReadAtPlace
    <3> QED
      BY <2>1, <2>2, <3>1, <3>2
  <2>3. CASE p # last - 1 /\ (p > last \/ a[p].kind # "header")
    <3>1. g[p] = GivesUp
      BY <2>1, <2>3, Zenon
    <3>2. ReadAt(a, g, p) = GivesUp
      BY <2>3, Zenon DEF ReadAt
    <3> QED
      BY <3>1, <3>2
  <2>4. CASE p # last - 1 /\ ~(p > last) /\ a[p].kind = "header"
    <3>1. p \in 1..last
      BY <1>1, <2>4
    <3>2. a[p].entry \in 1..n /\ p = PlaceIn(l, a[p].entry)
      BY <1>1, <2>4, <3>1, Zenon DEF OnlyHeaders
    <3> DEFINE e == a[p].entry
    <3>3. e \in 1..n /\ e + 1 \in 1..n+1
      BY <1>1, <3>2
    <3>4. g[PlaceIn(l, e + 1)] = Rest(l, a, e + 1)
      BY <1>3, <3>3, Zenon
    <3>5. ReadAt(a, g, PlaceIn(l, e)) = Rest(l, a, e)
      BY <3>3, <3>4, ReadAtPlace
    <3>6. g[p] = Rest(l, a, e)
      BY <2>1, <2>4, Zenon
    <3> QED
      BY <3>2, <3>5, <3>6
  <2> QED
    BY <2>2, <2>3, <2>4
<1>5. g = R(g)
  <2> DEFINE h == g
  <2>1. h = [p \in 1..last+1 |-> h[p]]
    <3> HIDE DEF last
    <3> QED
      OBVIOUS
  <2>2. \A p \in 1..last+1 : h[p] = ReadAt(a, h, p)
    BY <1>4
  <2> HIDE DEF h
  <2>3. h = [p \in 1..last+1 |-> ReadAt(a, h, p)]
    BY <2>1, <2>2, Zenon
  <2> QED
    BY <2>3 DEF h
<1>6. read = R(read)
  <2> HIDE DEF R, g
  <2> QED
    BY <1>5
<1>7. \A p \in 1..last+1 : read[p] = ReadAt(a, read, p)
  <2> HIDE DEF read
  <2> QED
    BY <1>6, Zenon
<1> HIDE DEF read
<1> DEFINE T == {k \in Nat : k <= n => read[PlaceIn(l, n + 1 - k)] = Rest(l, a, n + 1 - k)}
<1>8. Nat \subseteq T
  <2>1. 0 \in T
    <3>1. n + 1 - 0 = n + 1 /\ n + 1 \in 1..n+1
      BY <1>1
    <3>2. read[PlaceIn(l, n + 1)] = ReadAt(a, read, PlaceIn(l, n + 1))
      BY <1>2, <1>7, <3>1
    <3>3. read[PlaceIn(l, n + 1)] = Rest(l, a, n + 1)
      BY <3>2, ReadAtPlace, NoRest
    <3> QED
      BY <3>1, <3>3
  <2>2. ASSUME NEW k \in Nat, k \in T PROVE k + 1 \in T
    <3>1. SUFFICES ASSUME k + 1 <= n
                   PROVE  read[PlaceIn(l, n + 1 - (k + 1))] = Rest(l, a, n + 1 - (k + 1))
      OBVIOUS
    <3> DEFINE e == n + 1 - (k + 1)
    <3>2. e \in 1..n /\ e \in 1..n+1 /\ e + 1 = n + 1 - k /\ k <= n
      BY <1>1, <3>1
    <3>3. read[PlaceIn(l, e + 1)] = Rest(l, a, e + 1)
      BY <2>2, <3>2
    <3> HIDE DEF e
    <3>4. ReadAt(a, read, PlaceIn(l, e)) = Rest(l, a, e)
      BY <3>2, <3>3, ReadAtPlace
    <3>5. read[PlaceIn(l, e)] = ReadAt(a, read, PlaceIn(l, e))
      BY <1>2, <1>7, <3>2
    <3> QED
      BY <3>4, <3>5 DEF e
  <2> HIDE DEF T
  <2> QED
    BY <2>1, <2>2, Induction
<1>9. n \in T
  BY <1>1, <1>8
<1>10. n + 1 - n = 1 /\ PlaceIn(l, 1) = 1
  BY <1>1, PlaceIs
<1>11. read[1] = Rest(l, a, 1)
  BY <1>1, <1>9, <1>10
<1> QED
  BY <1>11 DEF read

\* An unchanged folder is read as it was collected.
LEMMA EntryIs ==
  ASSUME NEW l \in Seq(DirEntity), NEW a, FullArchive(l, a, TRUE), NEW e \in 1..Len(l)
  PROVE  Entry(l, a, e) = [entry |-> e, size |-> l[e].size, data |-> Body(e, l[e].size)]
<1> DEFINE p == PlaceIn(l, e)
           s == l[e].size
           b == Blocks(s)
<1>1. p \in Nat \ {0} /\ b \in Nat
  BY PlaceIs, BlocksOf
<1>2. Filled(l, a, e, b)
  <2>1. e \in 1..(Len(l)+1)-1
    OBVIOUS
  <2>2. Complete(l, a, Len(l) + 1, TRUE)
    BY DEF FullArchive
  <2> QED
    BY <2>1, <2>2, Zenon DEF Complete
<1>3. a[p].size = s /\ \A k \in 1..b : a[p + k] = Chunk(s, e, k)
  BY <1>2 DEF Filled
<1> HIDE DEF p, b, s
<1>4. SubSeq(a, p + 1, p + b) = [k \in 1..b |-> a[p + k]]
  <2>1. SubSeq(a, p + 1, p + b) = [k \in 1..(p + b) - (p + 1) + 1 |-> a[(p + 1) + k - 1]]
    BY <1>1
  <2>2. (p + b) - (p + 1) + 1 = b /\ \A k \in 1..b : (p + 1) + k - 1 = p + k
    BY <1>1
  <2> QED
    BY <2>1, <2>2
<1>5. [k \in 1..b |-> a[p + k]] = [k \in 1..b |-> Chunk(s, e, k)]
  BY <1>3
<1>6. Body(e, s) = [k \in 1..b |-> Chunk(s, e, k)]
  BY DEF Body, Chunk, b
<1> QED
  BY <1>3, <1>4, <1>5, <1>6 DEF Entry, p, b, s

\* A call that returns the estimated size has written the archive: an unchanged folder is
\* read from it with all of its bytes, and one whose files changed within their blocks with
\* all of its entries in their order (LibPacker.cpp 871-960, "Success: estimated size
\* matches output size").
THEOREM FullSizeIsArchive == Spec => []FullSizeMeansArchive
<1>1. ASSUME PkIInv PROVE FullSizeMeansArchive
  <2> DEFINE l == dirEntities
             n == Len(l)
             Read == [e \in 1..n |-> Entry(l, archive, e)]
  <2>1. SUFFICES ASSUME FullSize
                 PROVE  (~changed => ReadFrom = Collected) /\ (BlocksKept => Found)
    BY DEF FullSizeMeansArchive
  <2>2. l \in Seq(DirEntity) /\ n \in Nat /\ archive \in Seq(ArchiveBlocks) /\ Len(archive) \in Nat
        /\ Entities = 1..n
    BY <1>1, Facts, Zenon DEF PkIInv, Entities
  <2>3. FullArchive(l, archive, ~changed)
    BY <1>1, <2>1 DEF PkIInv, Ended, FullSize
  <2>4. FullArchive(l, archive, FALSE)
    <3>1. \A e, kept : Complete(l, archive, e, kept) => Complete(l, archive, e, FALSE)
      BY Zenon DEF Complete
    <3> QED
      BY <2>3, <3>1, Zenon DEF FullArchive
  <2>5. ASSUME SameBlocks(l, archive) PROVE ReadFrom = Read
    <3> DEFINE read == CHOOSE f : f = [p \in 1..Len(archive)+1 |-> ReadAt(archive, f, p)]
    <3>1. ReadFrom = read[1]
      BY Zenon DEF ReadFrom, ReadAt
    <3>2. read[1] = Rest(l, archive, 1)
      BY <2>2, <2>4, <2>5, ReadIs
    <3>3. Rest(l, archive, 1) = Read
      <4>1. n + 1 - 1 = n /\ \A i \in 1..n : 1 + i - 1 = i
        BY <2>2
      <4>2. Rest(l, archive, 1) = [i \in 1..n+1-1 |-> Entry(l, archive, 1 + i - 1)]
        BY DEF Rest
      <4> HIDE DEF l, n
      <4> QED
        BY <4>1, <4>2
    <3> QED
      BY <3>1, <3>2, <3>3
  <2>6. ASSUME NEW e \in 1..n
        PROVE  /\ PlaceIn(l, e) \in 1..Len(archive)
               /\ archive[PlaceIn(l, e)].kind = "header" /\ archive[PlaceIn(l, e)].entry = e
    <3>1. PlaceIn(l, e) \in Nat \ {0} /\ Blocks(l[e].size) \in Nat
      BY <2>2, PlaceIs, BlocksOf
    <3>2. e \in 1..(n+1)-1
      BY <2>2
    <3>3. Complete(l, archive, n + 1, FALSE)
      BY <2>4 DEF FullArchive
    <3>4. Laid(l, archive, e, Blocks(l[e].size))
      BY <3>2, <3>3, Zenon DEF Complete
    <3> QED
      BY <2>2, <3>1, <3>4 DEF Laid
  <2>7. ASSUME ~changed PROVE ReadFrom = Collected
    <3>1. FullArchive(l, archive, TRUE)
      <4>1. \A e : Complete(l, archive, e, ~changed) => Complete(l, archive, e, TRUE)
        BY <2>7, Zenon DEF Complete
      <4> QED
        BY <2>3, <4>1, Zenon DEF FullArchive
    <3>2. \A e \in 1..n : Entry(l, archive, e)
                            = [entry |-> e, size |-> l[e].size, data |-> Body(e, l[e].size)]
      BY <2>2, <3>1, EntryIs
    <3>3. SameBlocks(l, archive)
      <4>1. ASSUME NEW e \in 1..n PROVE archive[PlaceIn(l, e)].size = l[e].size
        <5>1. Entry(l, archive, e).size = l[e].size
          BY <3>2
        <5> QED
          BY <5>1 DEF Entry
      <4> QED
        BY <4>1, Zenon DEF SameBlocks
    <3>4. Collected = [e \in 1..n |->
                         [entry |-> e, size |-> l[e].size, data |-> Body(e, l[e].size)]]
      BY <2>2 DEF Collected, CollectedSizes
    <3>5. Read = [e \in 1..n |->
                    [entry |-> e, size |-> l[e].size, data |-> Body(e, l[e].size)]]
      BY <3>2
    <3> QED
      BY <2>5, <3>3, <3>4, <3>5
  <2>8. ASSUME BlocksKept PROVE Found
    <3>1. SameBlocks(l, archive)
      <4>1. ASSUME NEW e \in 1..n
            PROVE  Blocks(archive[PlaceIn(l, e)].size) = Blocks(l[e].size)
        <5>1. Blocks(archive[PlaceIn(l, e)].size) = Blocks(CollectedSizes[archive[PlaceIn(l, e)].entry])
          BY <2>6, <2>8, Zenon DEF BlocksKept
        <5>2. CollectedSizes[e] = l[e].size
          BY <2>2 DEF CollectedSizes
        <5> QED
          BY <2>6, <5>1, <5>2
      <4> QED
        BY <4>1, Zenon DEF SameBlocks
    <3>2. ReadFrom = Read
      BY <2>5, <3>1
    <3>3. Len(Read) = n
      <4> DEFINE S == {Entry(l, archive, e) : e \in 1..n}
                 E(e) == Entry(l, archive, e)
      <4>1. \A e \in 1..n : E(e) \in S
        OBVIOUS
      <4>2. Read = [e \in 1..n |-> E(e)]
        OBVIOUS
      <4> HIDE DEF S, E, n
      <4> QED
        BY <2>2, <4>1, <4>2
    <3>4. \A e \in 1..n : Read[e].entry = e
      BY DEF Entry
    <3>5. Entries(Read) = [e \in 1..n |-> e]
      <4>1. Entries(Read) = [e \in 1..Len(Read) |-> Read[e].entry]
        BY DEF Entries
      <4> HIDE DEF Read
      <4> QED
        BY <3>3, <3>4, <4>1
    <3> QED
      BY <2>2, <3>2, <3>5 DEF Found
  <2> QED
    BY <2>7, <2>8
<1> QED
  BY <1>1, PkInvariant, PTL
=============================================================================
