------------------------ MODULE CodebookSearchProofs ------------------------
(***************************************************************************)
(* The codebook search of the voice codec, for every codebook, number of   *)
(* subvectors and of best candidates, and all targets: the indices of      *)
(* every path code its target, and the list of continuations keeps the     *)
(* best ones.                                                              *)
(***************************************************************************)
EXTENDS CodebookSearch, FiniteSetTheorems, SequenceTheorems, WellFoundedInduction, TLAPS

-----------------------------------------------------------------------------
(* Induction over data: a set of numbers has a least one, and one that is   *)
(* bounded has a greatest one.                                              *)
LEMMA LessWellFounded == IsWellFoundedOn({ss \in Nat \X Nat : ss[1] < ss[2]}, Nat)
BY NatLessThanWellFounded, Zenon DEF OpToRel

LEMMA NatMin ==
  ASSUME NEW T, T \subseteq Nat, T # {}
  PROVE  \E x \in T : \A y \in T : x <= y
<1> DEFINE LT == {ss \in Nat \X Nat : ss[1] < ss[2]}
<1>1. \A x, y \in Nat : y < x => <<y, x>> \in LT
  OBVIOUS
<1>2. IsWellFoundedOn(LT, Nat)
  BY LessWellFounded
<1> HIDE DEF LT
<1>3. PICK x \in T : \A y \in T : ~ (<<y, x>> \in LT)
  BY WFMin, <1>2
<1>4. \A y \in T : ~(y < x)
  BY <1>1, <1>3
<1> QED BY <1>4

LEMMA NatMax ==
  ASSUME NEW n \in Nat, NEW T, T \subseteq 0 .. n, T # {}
  PROVE  \E x \in T : \A y \in T : y <= x
<1> DEFINE U == {n - i : i \in T}
<1>1. U \subseteq Nat /\ U # {}
  <2>1. \A i \in T : i \in 0 .. n /\ n - i \in Nat
    OBVIOUS
  <2>2. PICK i \in T : TRUE
    OBVIOUS
  <2>3. n - i \in U
    OBVIOUS
  <2> QED BY <2>1, <2>3
<1>2. PICK u \in U : \A v \in U : u <= v
  BY <1>1, NatMin
<1>3. PICK i \in T : u = n - i
  OBVIOUS
<1>4. \A y \in T : n - i <= n - y
  BY <1>2, <1>3
<1>5. ASSUME NEW y \in T PROVE y <= i
  <2>1. y \in 0 .. n /\ i \in 0 .. n /\ n - i <= n - y
    BY <1>4
  <2> QED BY <2>1
<1> QED BY <1>5

(* Different members of a list are as many as its places.                   *)
LEMMA AllDifferent ==
  ASSUME NEW n \in Nat, NEW f, \A j, k \in 1 .. n : j < k => f[j] # f[k]
  PROVE  Cardinality({f[k] : k \in 1 .. n}) = n
<1> DEFINE K == {f[k] : k \in 1 .. n}
           g == [k \in 1 .. n |-> f[k]]
<1>1. \A j, k \in 1 .. n : j # k => f[j] # f[k]
  <2>1. \A j, k \in 1 .. n : j # k => j < k \/ k < j
    OBVIOUS
  <2> QED BY <2>1
<1>2. g \in Bijection(1 .. n, K)
  BY <1>1 DEF Bijection, Injection, Surjection, IsInjective
<1>3. ExistsBijection(1 .. n, K)
  BY <1>2 DEF ExistsBijection
<1> QED BY <1>3, FS_CountingElements

-----------------------------------------------------------------------------
(* The codebook search.                                                    *)

(* The entries of a list are of members of P, with values E: different ones *)
(* in order, and none that is left out of the list of cap is better.        *)
BestOf(key, val, n, cap, P, E) ==
  /\ \A k \in 1 .. n : key[k] \in P /\ val[k] = E[key[k]]
  /\ \A j, k \in 1 .. n : j < k => key[j] # key[k] /\ val[j] <= val[k]
  /\ \A x \in P : (\E k \in 1 .. n : key[k] = x) \/ (n = cap /\ E[x] >= val[cap])

(* x is put at its place into a list of n, with its value.                  *)
PutIn(key2, val2, m, place, x, key, val, n, cap, P, E) ==
  /\ cap \in Nat \ {0} /\ n \in 0 .. cap /\ m = (IF n < cap THEN n + 1 ELSE cap)
  /\ place \in 1 .. m /\ x \notin P /\ \A y \in P \cup {x} : E[y] \in Int
  /\ BestOf(key, val, n, cap, P, E)
  /\ \A k \in 1 .. n : k < place => val[k] <= E[x]
  /\ \A k \in 1 .. n : place <= k => E[x] <= val[k]
  /\ key2[place] = x /\ val2[place] = E[x]
  /\ \A k \in 1 .. m : k < place => key2[k] = key[k] /\ val2[k] = val[k]
  /\ \A k \in 1 .. m : k > place => key2[k] = key[k - 1] /\ val2[k] = val[k - 1]

(* Putting a new candidate at its place keeps a list of the best: the one  *)
(* that falls out is no better than the last one kept.                     *)
LEMMA InsertKeepsBest ==
  ASSUME NEW key2, NEW val2, NEW m, NEW place, NEW x, NEW key, NEW val, NEW n, NEW cap,
         NEW P, NEW E, PutIn(key2, val2, m, place, x, key, val, n, cap, P, E)
  PROVE  BestOf(key2, val2, m, cap, P \cup {x}, E)
<1>0. /\ cap \in Nat \ {0} /\ n \in 0 .. cap /\ m = (IF n < cap THEN n + 1 ELSE cap)
      /\ place \in 1 .. m /\ x \notin P /\ \A y \in P \cup {x} : E[y] \in Int
      /\ BestOf(key, val, n, cap, P, E)
      /\ \A k \in 1 .. n : k < place => val[k] <= E[x]
      /\ \A k \in 1 .. n : place <= k => E[x] <= val[k]
      /\ key2[place] = x /\ val2[place] = E[x]
      /\ \A k \in 1 .. m : k < place => key2[k] = key[k] /\ val2[k] = val[k]
      /\ \A k \in 1 .. m : k > place => key2[k] = key[k - 1] /\ val2[k] = val[k - 1]
  BY DEF PutIn
<1> USE <1>0
<1>1. m \in 1 .. cap /\ place \in Nat \ {0} /\ m <= n + 1 /\ n <= m /\ (m < cap => m = n + 1)
  OBVIOUS
<1>2. /\ \A k \in 1 .. n : key[k] \in P /\ val[k] = E[key[k]]
      /\ \A j, k \in 1 .. n : j < k => key[j] # key[k] /\ val[j] <= val[k]
      /\ \A y \in P : (\E k \in 1 .. n : key[k] = y) \/ (n = cap /\ E[y] >= val[cap])
  BY DEF BestOf
<1>3. ASSUME NEW k \in 1 .. m
      PROVE  /\ k < place => k \in 1 .. n
             /\ k > place => k - 1 \in 1 .. n /\ place <= k - 1
  BY <1>1
<1>4. ASSUME NEW k \in 1 .. m PROVE key2[k] \in P \cup {x} /\ val2[k] = E[key2[k]]
  <2>1. CASE k < place
    BY <1>2, <1>3, <2>1
  <2>2. CASE k = place
    BY <2>2
  <2>3. CASE k > place
    BY <1>2, <1>3, <2>3
  <2> QED BY <1>1, <2>1, <2>2, <2>3
<1>5. ASSUME NEW j \in 1 .. m, NEW k \in 1 .. m, j < k
      PROVE  key2[j] # key2[k] /\ val2[j] <= val2[k]
  <2>1. CASE k < place
    <3>1. j < place /\ j \in 1 .. n /\ k \in 1 .. n
      BY <1>1, <1>3, <1>5, <2>1
    <3> QED BY <1>2, <1>5, <2>1, <3>1
  <2>2. CASE k = place
    <3>1. j < place /\ j \in 1 .. n
      BY <1>1, <1>3, <1>5, <2>2
    <3>2. key[j] # x /\ val[j] <= E[x]
      BY <1>2, <3>1
    <3> QED BY <2>2, <3>1, <3>2
  <2>3. CASE k > place
    <3>1. k - 1 \in 1 .. n /\ place <= k - 1 /\ key2[k] = key[k - 1] /\ val2[k] = val[k - 1]
      BY <1>3, <2>3
    <3>2. CASE j < place
      <4>1. j \in 1 .. n /\ j < k - 1
        BY <1>1, <1>3, <3>1, <3>2
      <4> QED BY <1>2, <3>1, <3>2, <4>1
    <3>3. CASE j = place
      <4>1. key[k - 1] # x /\ E[x] <= val[k - 1]
        BY <1>2, <3>1
      <4> QED BY <3>1, <3>3, <4>1
    <3>4. CASE j > place
      <4>1. j - 1 \in 1 .. n /\ j - 1 < k - 1 /\ key2[j] = key[j - 1] /\ val2[j] = val[j - 1]
        BY <1>1, <1>3, <1>5, <3>4
      <4> QED BY <1>2, <3>1, <4>1
    <3> QED BY <1>1, <3>2, <3>3, <3>4
  <2> QED BY <1>1, <2>1, <2>2, <2>3
<1>6. ASSUME n = cap PROVE val2[cap] <= val[cap]
  <2>1. m = cap /\ cap \in 1 .. n
    BY <1>6
  <2>2. val[cap] = E[key[cap]] /\ key[cap] \in P /\ val[cap] \in Int
    BY <1>2, <2>1
  <2>3. CASE place = cap
    BY <2>1, <2>2, <2>3
  <2>4. CASE place # cap
    <3>1. cap > place /\ cap - 1 \in 1 .. n /\ cap - 1 < cap
      BY <1>1, <1>3, <2>1, <2>4
    <3>2. val2[cap] = val[cap - 1]
      BY <2>1, <3>1
    <3> QED BY <1>2, <2>1, <3>1, <3>2
  <2> QED BY <2>3, <2>4
<1>7. ASSUME NEW y \in P \cup {x}
      PROVE  (\E k \in 1 .. m : key2[k] = y) \/ (m = cap /\ E[y] >= val2[cap])
  <2>1. CASE y = x
    BY <2>1
  <2>2. CASE \E k \in 1 .. n : key[k] = y
    <3>1. PICK k \in 1 .. n : key[k] = y
      BY <2>2
    <3>2. CASE k < place
      <4>1. k \in 1 .. m /\ key2[k] = key[k]
        BY <1>1, <3>2
      <4> QED BY <3>1, <4>1
    <3>3. CASE k >= place /\ k + 1 <= m
      <4>1. k + 1 \in 1 .. m /\ k + 1 > place /\ (k + 1) - 1 = k
        BY <1>1, <3>3
      <4>2. key2[k + 1] = key[k]
        BY <4>1
      <4> QED BY <3>1, <4>1, <4>2
    <3>4. CASE k + 1 > m
      <4>1. k = cap /\ n = cap /\ m = cap
        BY <1>1, <3>4
      <4>2. val[cap] = E[y] /\ val2[cap] <= val[cap] /\ E[y] \in Int
        BY <1>2, <1>6, <3>1, <4>1
      <4>3. val2[cap] \in Int
        BY <1>1, <1>4, <4>1
      <4> QED BY <4>1, <4>2, <4>3
    <3> QED BY <1>1, <3>2, <3>3, <3>4
  <2>3. CASE y \in P /\ n = cap /\ E[y] >= val[cap]
    <3>1. m = cap /\ val2[cap] <= val[cap] /\ cap \in 1 .. m /\ cap \in 1 .. n
      BY <1>1, <1>6, <2>3
    <3>2. val[cap] \in Int /\ val2[cap] \in Int /\ E[y] \in Int
      BY <1>2, <1>4, <3>1
    <3> QED BY <2>3, <3>1, <3>2
  <2> QED BY <1>2, <2>1, <2>2, <2>3
<1> QED BY <1>4, <1>5, <1>7 DEF BestOf

(* One that is not better than the last entry of a full list changes        *)
(* nothing.                                                                 *)
LEMMA WorseKeepsBest ==
  ASSUME NEW cap \in Nat \ {0}, NEW P, NEW x, NEW E,
         NEW key, NEW val, BestOf(key, val, cap, cap, P, E), E[x] >= val[cap]
  PROVE  BestOf(key, val, cap, cap, P \cup {x}, E)
BY DEF BestOf

(* What a list with a new entry holds.                                      *)
HasInserted(l2, l, x, place, n) ==
  /\ DOMAIN l2 = 1 .. n /\ Len(l2) = n
  /\ l2[place] = x
  /\ \A k \in 1 .. n : k < place => l2[k] = l[k]
  /\ \A k \in 1 .. n : k > place => l2[k] = l[k - 1]

(* What Inserted leaves at each place: the entries in front, the new one,  *)
(* and the later ones moved by one.                                        *)
LEMMA InsertedEntries ==
  ASSUME NEW l, NEW n \in Nat \ {0}, NEW place \in 1 .. n, NEW x, NEW l2,
         l2 = Inserted(l, x, place - 1, n)
  PROVE  HasInserted(l2, l, x, place, n)
<1> DEFINE S == {l[k] : k \in 1 .. n} \cup {x}
           a == SubSeq(l, 1, place - 1)
           b == <<x>>
           c == SubSeq(l, place, n - 1)
<1>1. place \in Int /\ n \in Int /\ place - 1 \in Int /\ n - 1 \in Int
  OBVIOUS
<1>2. /\ a \in Seq(S) /\ Len(a) = place - 1
      /\ \A k \in 1 .. place - 1 : a[k] = l[k]
  <2>1. \A k \in 1 .. place - 1 : l[k] \in S
    OBVIOUS
  <2> HIDE DEF S
  <2>2. /\ a \in Seq(S) /\ Len(a) = IF 1 <= place - 1 THEN (place - 1) - 1 + 1 ELSE 0
        /\ \A k \in 1 .. (place - 1) - 1 + 1 : a[k] = l[1 + k - 1]
    BY <1>1, <2>1, SubSeqProperties
  <2> HIDE DEF a
  <2>3. \A k \in Int : 1 + k - 1 = k
    OBVIOUS
  <2>4. (place - 1) - 1 + 1 = place - 1
    OBVIOUS
  <2> QED BY <2>2, <2>3, <2>4
<1>3. /\ c \in Seq(S) /\ Len(c) = n - place
      /\ \A k \in 1 .. n - place : c[k] = l[place + k - 1]
  <2>1. \A k \in place .. n - 1 : l[k] \in S
    OBVIOUS
  <2> HIDE DEF S
  <2>2. /\ c \in Seq(S) /\ Len(c) = IF place <= n - 1 THEN (n - 1) - place + 1 ELSE 0
        /\ \A k \in 1 .. (n - 1) - place + 1 : c[k] = l[place + k - 1]
    BY <1>1, <2>1, SubSeqProperties
  <2> HIDE DEF c
  <2>3. (n - 1) - place + 1 = n - place
    OBVIOUS
  <2> QED BY <2>2, <2>3
<1>4. b \in Seq(S) /\ Len(b) = 1 /\ b[1] = x
  <2>1. x \in S
    OBVIOUS
  <2> HIDE DEF S
  <2> QED BY <2>1
<1> HIDE DEF a, b, c, S
<1>5. /\ a \o b \in Seq(S) /\ Len(a \o b) = place
      /\ \A k \in 1 .. place - 1 : (a \o b)[k] = a[k]
      /\ (a \o b)[place] = x
  <2>1. /\ a \o b \in Seq(S) /\ Len(a \o b) = Len(a) + Len(b)
        /\ \A k \in 1 .. Len(a) + Len(b) :
             (a \o b)[k] = IF k <= Len(a) THEN a[k] ELSE b[k - Len(a)]
    BY <1>2, <1>4, ConcatProperties
  <2>2. /\ Len(a) + Len(b) = place /\ ~(place <= Len(a)) /\ place - Len(a) = 1
        /\ place \in 1 .. place
    BY <1>2, <1>4
  <2>3. \A k \in 1 .. place - 1 : k \in 1 .. place /\ k <= Len(a)
    BY <1>2
  <2> QED BY <1>4, <2>1, <2>2, <2>3
<1>6. PICK d : d = a \o b
  OBVIOUS
<1>7. /\ d \o c \in Seq(S) /\ Len(d \o c) = n
      /\ \A k \in 1 .. place : (d \o c)[k] = d[k]
      /\ \A k \in place + 1 .. n : (d \o c)[k] = c[k - place]
  <2>1. d \in Seq(S) /\ Len(d) = place
    BY <1>5, <1>6
  <2>2. /\ d \o c \in Seq(S) /\ Len(d \o c) = Len(d) + Len(c)
        /\ \A k \in 1 .. Len(d) + Len(c) :
             (d \o c)[k] = IF k <= Len(d) THEN d[k] ELSE c[k - Len(d)]
    BY <1>3, <2>1, ConcatProperties
  <2>3. Len(d) + Len(c) = n
    BY <1>3, <2>1
  <2>4. \A k \in 1 .. place : k \in 1 .. n /\ k <= Len(d)
    BY <2>1
  <2>5. \A k \in place + 1 .. n : k \in 1 .. n /\ ~(k <= Len(d)) /\ k - Len(d) = k - place
    BY <2>1
  <2> QED BY <2>2, <2>3, <2>4, <2>5
<1>8. DOMAIN (d \o c) = 1 .. n /\ Len(d \o c) = n
  BY <1>7
<1>9. (d \o c)[place] = x
  BY <1>5, <1>6, <1>7
<1>10. ASSUME NEW k \in 1 .. n, k < place PROVE (d \o c)[k] = l[k]
  <2>1. k \in 1 .. place - 1 /\ k \in 1 .. place
    BY <1>10
  <2> QED BY <1>2, <1>5, <1>6, <1>7, <2>1
<1>11. ASSUME NEW k \in 1 .. n, k > place PROVE (d \o c)[k] = l[k - 1]
  <2>1. k \in place + 1 .. n /\ k - place \in 1 .. n - place /\ place + (k - place) - 1 = k - 1
    BY <1>11
  <2> QED BY <1>3, <1>7, <2>1
<1>12. (place - 1) + 1 = place
  BY <1>1
<1>13. Inserted(l, x, place - 1, n) = d \o c
  BY <1>6, <1>12 DEF Inserted, a, b, c
<1> QED BY <1>8, <1>9, <1>10, <1>11, <1>13 DEF HasInserted

-----------------------------------------------------------------------------
(* vq_nbest.                                                               *)

(* What the constants are: the sizes of the codebook and of the lists.     *)
LEMMA SearchSizes ==
  /\ CbSize \in Nat /\ CodeEnergy \in [1 .. CbSize -> Nat]
  /\ Subvectors \in Nat /\ VERY_LARGE32 \in Nat /\ Corrs \subseteq Int /\ TargetEnergies \subseteq Nat
  /\ \A c \in Complexities : c \in Nat /\ NOf(c) \in Nat \ {0} /\ NOf(c) <= CbSize
<1>1. CbSize \in Nat /\ CodeEnergy \in [1 .. CbSize -> Nat]
  <2>1. CodeEnergy \in Seq(Nat)
    BY CodebookSearchAssumption
  <2> QED BY <2>1 DEF CbSize
<1>2. /\ Subvectors \in Nat /\ VERY_LARGE32 \in Nat /\ Corrs \subseteq Int
      /\ TargetEnergies \subseteq Nat /\ Complexities \subseteq Nat
      /\ \A c \in Complexities : NOf(c) <= CbSize
  BY CodebookSearchAssumption
<1>3. ASSUME NEW c \in Nat PROVE NOf(c) \in Nat \ {0}
  <2> DEFINE d == IF c > 10 THEN 10 ELSE c
  <2>1. d \in Nat
    OBVIOUS
  <2> HIDE DEF d
  <2> DEFINE q == (2 * d) \div 3
  <2>2. q \in Nat
    BY <2>1
  <2> HIDE DEF q
  <2>3. NOf(c) = IF q < 1 THEN 1 ELSE q
    BY DEF NOf, q, d
  <2> QED BY <2>2, <2>3
<1> QED BY <1>1, <1>2, <1>3

Item(corr, c) == [dist |-> Dist(corr, c), index |-> Index(corr, c)]

(* The number of the codeword of an entry of vq_nbest.                      *)
Number(x) == Codeword(x.index).c

(* An index and its sign code one codeword, and no other index codes it.   *)
LEMMA IndexNumbers ==
  ASSUME NEW corr, NEW c \in 1 .. CbSize
  PROVE  /\ Number(Item(corr, c)) = c /\ Codeword(Index(corr, c)).c = c
         /\ Codeword(Index(corr, c)).neg <=> (have_sign /\ corr[c] <= 0)
<1>1. CbSize \in Nat
  BY SearchSizes
<1>2. CASE have_sign /\ corr[c] <= 0
  <2>1. Index(corr, c) = c - 1 + CbSize
    BY <1>2 DEF Index
  <2>2. PICK ix \in Int : ix = Index(corr, c) /\ ix >= CbSize /\ ix - CbSize + 1 = c
    BY <1>1, <2>1
  <2>3. Codeword(ix) = [c |-> c, neg |-> TRUE]
    BY <2>2 DEF Codeword
  <2>4. Codeword(ix).c = c /\ Codeword(ix).neg
    BY <2>3
  <2>5. Item(corr, c).index = ix
    BY <2>2 DEF Item
  <2> QED BY <1>2, <2>2, <2>4, <2>5 DEF Number
<1>3. CASE ~(have_sign /\ corr[c] <= 0)
  <2>1. Index(corr, c) = c - 1
    BY <1>3 DEF Index
  <2>2. PICK ix \in Int : ix = Index(corr, c) /\ ~(ix >= CbSize) /\ ix + 1 = c
    BY <1>1, <2>1
  <2>3. Codeword(ix) = [c |-> c, neg |-> FALSE]
    BY <2>2 DEF Codeword
  <2>4. Codeword(ix).c = c /\ ~Codeword(ix).neg
    BY <2>3
  <2>5. Item(corr, c).index = ix
    BY <2>2 DEF Item
  <2> QED BY <1>3, <2>2, <2>4, <2>5 DEF Number
<1> QED BY <1>2, <1>3

(* Distances are integers.                                                 *)
LEMMA DistIsInt ==
  ASSUME NEW corr \in [1 .. CbSize -> Int], NEW c \in 1 .. CbSize
  PROVE  Dist(corr, c) \in Int
<1>1. corr[c] \in Int /\ CodeEnergy[c] \in Int
  BY SearchSizes
<1> QED BY <1>1 DEF Dist

(* The list after the first n codewords.                                    *)
Numbers(best) == [k \in 1 .. Len(best) |-> Number(best[k])]
Dists(best) == [k \in 1 .. Len(best) |-> best[k].dist]
DistOf(corr) == [c \in 1 .. CbSize |-> Dist(corr, c)]

Scanned(best, corr, n) ==
  /\ Len(best) = IF n <= N THEN n ELSE N
  /\ \A k \in 1 .. Len(best) : best[k] = Item(corr, Number(best[k]))
  /\ BestOf(Numbers(best), Dists(best), Len(best), N, 1 .. n, DistOf(corr))

(* One codeword more: the list of vq_nbest stays the list of the best of   *)
(* those seen so far.                                                      *)
LEMMA ScanKeeps ==
  ASSUME N \in Nat \ {0}, NEW corr \in [1 .. CbSize -> Int], NEW n \in Nat, n + 1 <= CbSize,
         NEW best, Scanned(best, corr, n)
  PROVE  Scanned(Scan(best, Item(corr, n + 1)), corr, n + 1)
<1> DEFINE x == Item(corr, n + 1)
           stops == {k \in 0 .. N - 1 : k <= Len(best) /\ (k = 0 \/ x.dist >= best[k].dist)}
           enters == Len(best) < N \/ x.dist < best[N].dist
           E == DistOf(corr)
           P == 1 .. n
           m == IF Len(best) < N THEN Len(best) + 1 ELSE N
           l2 == Scan(best, x)
<1>1. PICK used \in 0 .. N : used = Len(best) /\ (used = IF n <= N THEN n ELSE N)
  BY DEF Scanned
<1>2. n + 1 \in 1 .. CbSize /\ CbSize \in Nat /\ n + 1 \notin P /\ P \cup {n + 1} = 1 .. n + 1
  BY SearchSizes
<1>3. /\ x = Item(corr, n + 1) /\ Number(x) = n + 1
      /\ x.dist = Dist(corr, n + 1) /\ E[n + 1] = Dist(corr, n + 1)
      /\ \A y \in P \cup {n + 1} : E[y] \in Int
  <2>1. \A y \in P \cup {n + 1} : y \in 1 .. CbSize
    BY <1>2
  <2>2. \A y \in 1 .. CbSize : E[y] = Dist(corr, y) /\ Dist(corr, y) \in Int
    BY DistIsInt DEF DistOf
  <2> QED BY <1>2, <2>1, <2>2, IndexNumbers DEF Item
<1>4. /\ \A k \in 1 .. used : best[k] = Item(corr, Number(best[k]))
      /\ BestOf(Numbers(best), Dists(best), used, N, P, E)
  BY <1>1 DEF Scanned
<1>5. \A k \in 1 .. used : Numbers(best)[k] = Number(best[k]) /\ Dists(best)[k] = best[k].dist
  BY <1>1 DEF Numbers, Dists
<1>6. \A k \in 1 .. used : Number(best[k]) \in P /\ best[k].dist = E[Number(best[k])]
  BY <1>4, <1>5 DEF BestOf
<1>7. /\ \A k \in 1 .. used : best[k].dist \in Int
      /\ \A j, k \in 1 .. used : j < k => best[j].dist <= best[k].dist
  BY <1>3, <1>4, <1>5, <1>6 DEF BestOf
<1>8. x.dist \in Int
  BY <1>3
<1>9. l2 = IF enters THEN Inserted(best, x, Max(stops), m) ELSE best
  BY DEF Scan
<1> HIDE DEF x, E, P, l2
<1>10. CASE enters
  <2>1. PICK place \in 1 .. N :
          /\ Max(stops) = place - 1 /\ place <= used + 1
          /\ \A k \in 1 .. used : k < place => best[k].dist <= x.dist
          /\ \A k \in 1 .. used : place <= k => x.dist <= best[k].dist
    <3>1. 0 \in stops /\ stops \subseteq 0 .. N - 1 /\ N - 1 \in Nat
      BY <1>1
    <3>2. PICK s \in stops : \A k \in stops : k <= s
      <4> HIDE DEF stops
      <4> QED BY <3>1, NatMax
    <3>3. Max(stops) \in stops /\ \A k \in stops : Max(stops) >= k
      <4>1. \A k \in stops : s >= k
        BY <3>1, <3>2
      <4> HIDE DEF stops
      <4> QED BY <4>1 DEF Max
    <3>4. PICK t \in stops : t = Max(stops) /\ \A k \in stops : t >= k
      BY <3>3
    <3>5. t \in 0 .. N - 1 /\ t <= used /\ (t = 0 \/ x.dist >= best[t].dist)
      BY <1>1, <3>4
    <3>6. ASSUME NEW k \in 1 .. used, k < t + 1 PROVE best[k].dist <= x.dist
      <4>1. t \in 1 .. used /\ best[t].dist <= x.dist /\ best[t].dist \in Int
        BY <1>1, <1>7, <1>8, <3>5, <3>6
      <4>2. k = t \/ best[k].dist <= best[t].dist
        BY <1>7, <3>5, <3>6, <4>1
      <4> QED BY <1>7, <1>8, <4>1, <4>2
    <3>7. ASSUME NEW k \in 1 .. used, t + 1 <= k PROVE x.dist <= best[k].dist
      <4>1. CASE k <= N - 1
        <5>1. k \in 0 .. N - 1 /\ k <= Len(best) /\ ~(t >= k)
          BY <1>1, <3>5, <3>7, <4>1
        <5>2. ~(x.dist >= best[k].dist)
          BY <3>4, <5>1
        <5> QED BY <1>7, <1>8, <5>2
      <4>2. CASE ~(k <= N - 1)
        <5>1. k = N /\ used = N
          BY <1>1, <4>2
        <5> QED BY <1>1, <1>7, <1>8, <1>10, <5>1
      <4> QED BY <4>1, <4>2
    <3>8. t + 1 \in 1 .. N /\ (t + 1) - 1 = t /\ t + 1 <= used + 1
      BY <1>1, <3>5
    <3> HIDE DEF stops
    <3> QED BY <3>4, <3>6, <3>7, <3>8
  <2>2. PICK sz \in 1 .. N : sz = m /\ sz = IF used < N THEN used + 1 ELSE N
    BY <1>1
  <2>a. sz \in Nat \ {0} /\ place \in 1 .. sz /\ sz <= used + 1
    <3>1. place \in 1 .. N /\ place <= used + 1
      BY <2>1
    <3>2. sz \in 1 .. N /\ sz = IF used < N THEN used + 1 ELSE N
      BY <2>2
    <3>3. used \in 0 .. N
      BY <1>1
    <3> HIDE DEF stops, enters, m
    <3> QED BY ONLY N \in Nat \ {0}, <3>1, <3>2, <3>3
  <2> HIDE DEF m, stops, enters
  <2>3. l2 = Inserted(best, x, place - 1, sz) /\ place \in 1 .. sz
    <3>1. l2 = Inserted(best, x, Max(stops), m)
      BY <1>9, <1>10
    <3> QED BY <2>1, <2>2, <2>a, <3>1
  <2>4. /\ Len(l2) = sz /\ l2[place] = x
        /\ \A k \in 1 .. sz : k < place => l2[k] = best[k]
        /\ \A k \in 1 .. sz : k > place => l2[k] = best[k - 1]
    <3>1. PICK ll, y : ll = l2 /\ y = x
      OBVIOUS
    <3>2. ll = Inserted(best, y, place - 1, sz)
      BY <2>3, <3>1
    <3>3. /\ Len(ll) = sz /\ ll[place] = y
          /\ \A k \in 1 .. sz : k < place => ll[k] = best[k]
          /\ \A k \in 1 .. sz : k > place => ll[k] = best[k - 1]
      <4>1. HasInserted(ll, best, y, place, sz)
        BY ONLY <2>a, <3>2, InsertedEntries
      <4> QED BY ONLY <4>1 DEF HasInserted
    <3> QED BY <3>1, <3>3
  <2>5. ASSUME NEW k \in 1 .. sz
        PROVE  /\ k < place => k \in 1 .. used
               /\ k > place => k - 1 \in 1 .. used
    BY <2>1, <2>a
  <2>6. Len(l2) = IF n + 1 <= N THEN n + 1 ELSE N
    BY <1>1, <2>2, <2>4
  <2>7. ASSUME NEW k \in 1 .. sz PROVE l2[k] = Item(corr, Number(l2[k]))
    <3>1. CASE k < place
      BY <1>4, <2>4, <2>5, <3>1
    <3>2. CASE k = place
      BY <1>3, <2>4, <3>2
    <3>3. CASE k > place
      BY <1>4, <2>4, <2>5, <3>3
    <3> QED BY <1>1, <3>1, <3>2, <3>3
  <2>8. \A k \in 1 .. sz : Numbers(l2)[k] = Number(l2[k]) /\ Dists(l2)[k] = l2[k].dist
    BY <2>4 DEF Numbers, Dists
  <2>9. BestOf(Numbers(l2), Dists(l2), sz, N, P \cup {n + 1}, E)
    <3>1. Numbers(l2)[place] = n + 1 /\ Dists(l2)[place] = E[n + 1]
      BY <1>3, <2>3, <2>4, <2>8
    <3>2. ASSUME NEW k \in 1 .. sz, k < place
          PROVE  Numbers(l2)[k] = Numbers(best)[k] /\ Dists(l2)[k] = Dists(best)[k]
      BY <1>5, <2>4, <2>5, <2>8, <3>2
    <3>3. ASSUME NEW k \in 1 .. sz, k > place
          PROVE  Numbers(l2)[k] = Numbers(best)[k - 1] /\ Dists(l2)[k] = Dists(best)[k - 1]
      BY <1>5, <2>4, <2>5, <2>8, <3>3
    <3>4. \A k \in 1 .. used : k < place => Dists(best)[k] <= E[n + 1]
      BY <1>3, <1>5, <2>1
    <3>5. \A k \in 1 .. used : place <= k => E[n + 1] <= Dists(best)[k]
      BY <1>3, <1>5, <2>1
    <3>6. PICK key, val, key2, val2, EE, PP, cap, y :
            /\ key = Numbers(best) /\ val = Dists(best)
            /\ key2 = Numbers(l2) /\ val2 = Dists(l2)
            /\ EE = E /\ PP = P /\ cap = N /\ y = n + 1
      OBVIOUS
    <3>7. /\ y \notin PP /\ \A z \in PP \cup {y} : EE[z] \in Int
          /\ BestOf(key, val, used, cap, PP, EE) /\ sz = IF used < cap THEN used + 1 ELSE cap
          /\ cap \in Nat \ {0} /\ used \in 0 .. cap /\ place \in 1 .. sz
      BY <1>1, <1>2, <1>3, <1>4, <2>a, <2>2, <3>6
    <3>8. /\ \A k \in 1 .. used : k < place => val[k] <= EE[y]
          /\ \A k \in 1 .. used : place <= k => EE[y] <= val[k]
          /\ key2[place] = y /\ val2[place] = EE[y]
          /\ \A k \in 1 .. sz : k < place => key2[k] = key[k] /\ val2[k] = val[k]
          /\ \A k \in 1 .. sz : k > place => key2[k] = key[k - 1] /\ val2[k] = val[k - 1]
      BY <3>1, <3>2, <3>3, <3>4, <3>5, <3>6
    <3>9. BestOf(key2, val2, sz, cap, PP \cup {y}, EE)
      <4>1. PutIn(key2, val2, sz, place, y, key, val, used, cap, PP, EE)
        BY ONLY <3>7, <3>8 DEF PutIn
      <4> QED BY ONLY <4>1, InsertKeepsBest
    <3> QED BY <3>6, <3>9
  <2>10. BestOf(Numbers(l2), Dists(l2), Len(l2), N, 1 .. n + 1, E)
    BY <1>2, <2>4, <2>9
  <2> QED BY <2>4, <2>6, <2>7, <2>10 DEF Scanned, E, l2, x
<1>11. CASE ~enters
  <2>1. l2 = best /\ used = N /\ N \in 1 .. used
    <3>1. l2 = best
      <4> HIDE DEF enters
      <4> QED BY <1>9, <1>11
    <3>2. used = N /\ N \in 1 .. used
      BY <1>1, <1>11
    <3> QED BY <3>1, <3>2
  <2>2. E[n + 1] >= Dists(best)[N]
    <3>1. ~(x.dist < best[N].dist) /\ Dists(best)[N] = best[N].dist /\ best[N].dist \in Int
      BY <1>5, <1>7, <1>11, <2>1
    <3> QED BY <1>3, <1>8, <3>1
  <2>3. BestOf(Numbers(best), Dists(best), N, N, P \cup {n + 1}, E)
    BY <1>4, <2>1, <2>2, WorseKeepsBest
  <2>4. Len(best) = IF n + 1 <= N THEN n + 1 ELSE N
    BY <1>1, <2>1
  <2>5. Len(best) = N
    BY <1>1, <2>1
  <2>6. BestOf(Numbers(best), Dists(best), Len(best), N, 1 .. n + 1, E)
    BY <1>2, <2>3, <2>5
  <2>7. \A k \in 1 .. Len(best) : best[k] = Item(corr, Number(best[k]))
    BY <1>1, <1>4
  <2> QED BY <2>1, <2>4, <2>6, <2>7 DEF Scanned, E, l2, x
<1> QED BY <1>10, <1>11

(* What the recursive function of vq_nbest says.                            *)
LEMMA ScannedFunction ==
  ASSUME NEW corr
  PROVE  \E f : /\ f[0] = <<>> /\ vq_nbest(corr) = f[CbSize]
               /\ \A c \in 1 .. CbSize : f[c] = Scan(f[c - 1], Item(corr, c))
<1> DEFINE Def(n, h) == h = [c \in 0 .. n |->
                              IF c = 0 THEN <<>>
                              ELSE Scan(h[c - 1], [dist |-> Dist(corr, c), index |-> Index(corr, c)])]
           T == {n \in Nat : ~\E h : Def(n, h)}
<1>1. T = {}
  <2> SUFFICES ASSUME T # {} PROVE FALSE
    OBVIOUS
  <2>1. PICK n \in T : \A l \in T : n <= l
    <3> HIDE DEF Def
    <3>1. T \subseteq Nat
      OBVIOUS
    <3> HIDE DEF T
    <3> QED BY <3>1, NatMin
  <2>2. n \in Nat /\ ~\E h : Def(n, h)
    <3> HIDE DEF Def
    <3> QED BY <2>1
  <2>3. CASE n = 0
    <3> DEFINE h == [c \in 0 .. 0 |-> <<>>]
    <3>1. Def(0, h)
      OBVIOUS
    <3> HIDE DEF Def
    <3> QED BY <2>2, <2>3, <3>1
  <2>4. CASE n # 0
    <3>1. n - 1 \in Nat /\ ~(n <= n - 1)
      BY <2>2, <2>4
    <3>2. PICK g : Def(n - 1, g)
      <4> HIDE DEF Def
      <4> QED BY <2>1, <3>1
    <3> DEFINE h == [c \in 0 .. n |->
                       IF c = 0 THEN <<>>
                       ELSE Scan(g[c - 1], [dist |-> Dist(corr, c), index |-> Index(corr, c)])]
    <3>3. ASSUME NEW c \in 0 .. n - 1 PROVE h[c] = g[c]
      <4>1. c \in 0 .. n
        BY <3>1
      <4> QED BY <3>2, <4>1
    <3>4. ASSUME NEW c \in 0 .. n, c # 0 PROVE g[c - 1] = h[c - 1]
      <4>1. c - 1 \in 0 .. n - 1
        BY <2>2, <3>4
      <4> HIDE DEF h
      <4> QED BY <3>3, <4>1
    <3>5. Def(n, h)
      <4>1. PICK hh : hh = h
        OBVIOUS
      <4>2. hh = [c \in 0 .. n |->
                   IF c = 0 THEN <<>>
                   ELSE Scan(g[c - 1], [dist |-> Dist(corr, c), index |-> Index(corr, c)])]
        BY <4>1
      <4>3. \A c \in 0 .. n : c # 0 => g[c - 1] = hh[c - 1]
        BY <3>4, <4>1
      <4> HIDE DEF h
      <4>4. Def(n, hh)
        BY <4>2, <4>3
      <4> QED BY <4>1, <4>4
    <3> HIDE DEF Def
    <3> QED BY <2>2, <3>5
  <2> QED BY <2>3, <2>4
<1>2. CbSize \in Nat
  BY SearchSizes
<1>3. \E h : Def(CbSize, h)
  <2> HIDE DEF Def
  <2> QED BY <1>1, <1>2
<1>4. vq_nbest(corr) = (CHOOSE h : Def(CbSize, h))[CbSize]
  BY DEF vq_nbest
<1>5. PICK f : Def(CbSize, f) /\ vq_nbest(corr) = f[CbSize]
  <2> HIDE DEF Def
  <2> QED BY <1>3, <1>4
<1>6. f[0] = <<>>
  BY <1>2, <1>5
<1>7. ASSUME NEW c \in 1 .. CbSize PROVE f[c] = Scan(f[c - 1], Item(corr, c))
  <2>1. c \in 0 .. CbSize /\ c # 0
    BY <1>2
  <2> QED BY <1>5, <2>1 DEF Item
<1> QED BY <1>5, <1>6, <1>7

(* What vq_nbest returns: the N codewords of the smallest distance, in     *)
(* order.                                                                  *)
LEMMA NBestFound ==
  ASSUME N \in Nat \ {0}, N <= CbSize, NEW corr \in [1 .. CbSize -> Int]
  PROVE  Scanned(vq_nbest(corr), corr, CbSize) /\ Len(vq_nbest(corr)) = N
<1>1. PICK f : /\ f[0] = <<>> /\ vq_nbest(corr) = f[CbSize]
               /\ \A c \in 1 .. CbSize : f[c] = Scan(f[c - 1], Item(corr, c))
  BY ScannedFunction
<1>2. CbSize \in Nat
  BY SearchSizes
<1> DEFINE T == {n \in Nat : n <= CbSize /\ ~Scanned(f[n], corr, n)}
<1>3. T = {}
  <2> SUFFICES ASSUME T # {} PROVE FALSE
    OBVIOUS
  <2>1. PICK n \in T : \A l \in T : n <= l
    BY NatMin
  <2>2. n \in Nat /\ n <= CbSize /\ ~Scanned(f[n], corr, n)
    BY <2>1
  <2>3. CASE n = 0
    <3>1. Len(f[0]) = 0
      BY <1>1
    <3>2. BestOf(Numbers(f[0]), Dists(f[0]), 0, N, 1 .. 0, DistOf(corr))
      BY DEF BestOf
    <3>3. \A k \in 1 .. 0 : FALSE
      OBVIOUS
    <3>4. Scanned(f[0], corr, 0)
      BY <3>1, <3>2, <3>3 DEF Scanned
    <3> QED BY <2>2, <2>3, <3>4
  <2>4. CASE n # 0
    <3>1. /\ n - 1 \in Nat /\ n - 1 <= CbSize /\ ~(n <= n - 1) /\ n \in 1 .. CbSize
          /\ (n - 1) + 1 = n /\ (n - 1) + 1 <= CbSize
      BY <1>2, <2>2, <2>4
    <3>2. Scanned(f[n - 1], corr, n - 1)
      BY <2>1, <3>1
    <3>3. Scanned(Scan(f[n - 1], Item(corr, (n - 1) + 1)), corr, (n - 1) + 1)
      BY <3>1, <3>2, ScanKeeps
    <3> QED BY <1>1, <2>2, <3>1, <3>3
  <2> QED BY <2>3, <2>4
<1>4. Scanned(f[CbSize], corr, CbSize)
  BY <1>2, <1>3
<1>5. Len(f[CbSize]) = IF CbSize <= N THEN CbSize ELSE N
  BY <1>4 DEF Scanned
<1> QED BY <1>1, <1>2, <1>4, <1>5

-----------------------------------------------------------------------------
(* The list over all beginnings.                                           *)

(* The continuation an entry stands for.                                    *)
Key(x) == [ntarget |-> x.ntarget, c |-> Codeword(x.nind).c]

Keys(l) == [k \in 1 .. N |-> Key(l[k])]
Errs(l) == [k \in 1 .. N |-> l[k].err]

(* The first n entries of the list are the best of P, the others are erased. *)
Kept(l, n, P, E, F) ==
  /\ BestOf(Keys(l), Errs(l), n, N, P, E)
  /\ \A k \in 1 .. n : l[k] = F[Key(l[k])]
  /\ \A k \in n + 1 .. N : l[k].err = VERY_LARGE32

(* A continuation that is not in the list yet.                              *)
Fresh(x, P, E, F) ==
  /\ Key(x) \notin P /\ x = F[Key(x)] /\ x.err = E[Key(x)]
  /\ \A y \in P \cup {Key(x)} : E[y] \in Int /\ E[y] < VERY_LARGE32

(* The erased entries are behind every continuation, so the list is in     *)
(* order of distance to its end.                                           *)
LEMMA KeptOrder ==
  ASSUME N \in Nat \ {0}, NEW n \in 0 .. N, NEW P, NEW E, NEW F, NEW l, NEW x,
         Kept(l, n, P, E, F), Fresh(x, P, E, F)
  PROVE  /\ x.err \in Int /\ \A k \in 1 .. N : l[k].err \in Int
         /\ \A k \in n + 1 .. N : x.err < l[k].err
         /\ \A k \in 1 .. n : Errs(l)[k] = l[k].err /\ Keys(l)[k] = Key(l[k])
         /\ \A j, k \in 1 .. N : j <= k => l[j].err <= l[k].err
<1>1. VERY_LARGE32 \in Nat
  BY SearchSizes
<1>2. /\ \A k \in 1 .. n : Keys(l)[k] \in P /\ Errs(l)[k] = E[Keys(l)[k]]
      /\ \A j, k \in 1 .. n : j < k => Errs(l)[j] <= Errs(l)[k]
  BY DEF Kept, BestOf
<1>3. \A k \in 1 .. n : k \in 1 .. N
  OBVIOUS
<1>4. \A k \in 1 .. n : Errs(l)[k] = l[k].err /\ Keys(l)[k] = Key(l[k])
  BY <1>3 DEF Errs, Keys
<1>5. x.err \in Int /\ x.err < VERY_LARGE32
  BY DEF Fresh
<1>6. \A k \in 1 .. n : l[k].err \in Int /\ l[k].err < VERY_LARGE32
  BY <1>2, <1>4 DEF Fresh
<1>7. \A k \in n + 1 .. N : l[k].err = VERY_LARGE32
  BY DEF Kept
<1>8. \A k \in 1 .. N : k \in 1 .. n \/ k \in n + 1 .. N
  OBVIOUS
<1>9. ASSUME NEW j \in 1 .. N, NEW k \in 1 .. N, j <= k PROVE l[j].err <= l[k].err
  <2>1. CASE k \in 1 .. n
    <3>1. j \in 1 .. n /\ (j < k \/ j = k)
      BY <1>9, <2>1
    <3> QED BY <1>2, <1>4, <1>6, <2>1, <3>1
  <2>2. CASE k \in n + 1 .. N
    BY <1>1, <1>6, <1>7, <1>8, <2>2
  <2> QED BY <1>8, <2>1, <2>2
<1> QED BY <1>1, <1>4, <1>5, <1>6, <1>7, <1>8, <1>9

(* Where Merge puts it.                                                     *)
LEMMA MergePlace ==
  ASSUME N \in Nat \ {0}, NEW n \in 0 .. N, NEW P, NEW E, NEW F, NEW l, NEW x,
         Kept(l, n, P, E, F), Fresh(x, P, E, F), x.err < l[N].err
  PROVE  \E place \in 1 .. (IF n < N THEN n + 1 ELSE N) :
           /\ HasInserted(Merge(l, x), l, x, place, N)
           /\ \A k \in 1 .. N : k < place => l[k].err <= x.err
           /\ \A k \in 1 .. N : place <= k => x.err <= l[k].err
<1> DEFINE worse == {k \in 1 .. N : x.err < l[k].err}
<1>1. /\ x.err \in Int /\ \A k \in 1 .. N : l[k].err \in Int
      /\ \A k \in n + 1 .. N : x.err < l[k].err
      /\ \A j, k \in 1 .. N : j <= k => l[j].err <= l[k].err
  BY KeptOrder
<1>2. N \in worse
  OBVIOUS
<1>3. PICK place \in worse : \A k \in worse : place <= k
  <2>1. worse \subseteq Nat /\ worse # {}
    BY <1>2
  <2> HIDE DEF worse
  <2> QED BY <2>1, NatMin
<1>4. Min(worse) = place
  <2>1. /\ Min(worse) \in worse /\ \A k \in worse : Min(worse) <= k
    <3> HIDE DEF worse
    <3> QED BY <1>3 DEF Min
  <2>2. PICK i \in worse : i = Min(worse) /\ \A k \in worse : i <= k
    BY <2>1
  <2>3. i \in Nat /\ place \in Nat /\ i <= place /\ place <= i
    BY <1>3, <2>2
  <2> QED BY <2>2, <2>3
<1>5. place \in 1 .. N /\ x.err < l[place].err
  BY <1>3
<1>6. place <= IF n < N THEN n + 1 ELSE N
  <2>1. CASE n < N
    <3>1. n + 1 \in worse
      BY <1>1, <2>1
    <3> QED BY <1>3, <2>1, <3>1
  <2>2. CASE ~(n < N)
    BY <1>5, <2>2
  <2> QED BY <2>1, <2>2
<1>7. Merge(l, x) = Inserted(l, x, place - 1, N)
  BY <1>4 DEF Merge
<1>8. HasInserted(Merge(l, x), l, x, place, N)
  <2>1. PICK ll, cap : ll = Merge(l, x) /\ cap = N
    OBVIOUS
  <2>2. ll = Inserted(l, x, place - 1, cap) /\ cap \in Nat \ {0} /\ place \in 1 .. cap
    BY <1>5, <1>7, <2>1
  <2>3. HasInserted(ll, l, x, place, cap)
    BY ONLY <2>2, InsertedEntries
  <2> QED BY <2>1, <2>3
<1>9. ASSUME NEW k \in 1 .. N, k < place PROVE l[k].err <= x.err
  <2>1. k \notin worse
    BY <1>3, <1>5, <1>9
  <2> QED BY <1>1, <2>1
<1>10. ASSUME NEW k \in 1 .. N, place <= k PROVE x.err <= l[k].err
  BY <1>1, <1>5, <1>10
<1>11. place \in 1 .. (IF n < N THEN n + 1 ELSE N)
  BY <1>5, <1>6
<1> QED BY <1>8, <1>9, <1>10, <1>11

(* One entry merged into the list: it stays the list of the best of the    *)
(* continuations seen.                                                     *)
LEMMA MergeKeeps ==
  ASSUME N \in Nat \ {0}, NEW n \in 0 .. N, NEW P, NEW E, NEW F, NEW l, NEW x,
         Kept(l, n, P, E, F), Fresh(x, P, E, F), NEW m, m = IF n < N THEN n + 1 ELSE N
  PROVE  /\ Kept(Merge(l, x), m, P \cup {Key(x)}, E, F)
         /\ \A r \in 1 .. N : (r = 1 \/ l[r - 1].err <= x.err) => Merge(l, x)[r].err <= x.err
<1>1. /\ x.err \in Int /\ \A k \in 1 .. N : l[k].err \in Int
      /\ \A k \in n + 1 .. N : x.err < l[k].err
      /\ \A k \in 1 .. n : Errs(l)[k] = l[k].err /\ Keys(l)[k] = Key(l[k])
      /\ \A j, k \in 1 .. N : j <= k => l[j].err <= l[k].err
  BY KeptOrder
<1>2. m \in 1 .. N /\ \A k \in 1 .. m : k \in 1 .. N
  OBVIOUS
<1>3. /\ BestOf(Keys(l), Errs(l), n, N, P, E)
      /\ \A k \in 1 .. n : l[k] = F[Key(l[k])]
      /\ \A k \in n + 1 .. N : l[k].err = VERY_LARGE32
  BY DEF Kept
<1>4. CASE x.err < l[N].err
  <2>1. PICK place \in 1 .. m :
          /\ HasInserted(Merge(l, x), l, x, place, N)
          /\ \A k \in 1 .. N : k < place => l[k].err <= x.err
          /\ \A k \in 1 .. N : place <= k => x.err <= l[k].err
    BY <1>4, MergePlace
  <2>2. PICK l2 : l2 = Merge(l, x)
    OBVIOUS
  <2>3. /\ l2[place] = x
        /\ \A k \in 1 .. N : k < place => l2[k] = l[k]
        /\ \A k \in 1 .. N : k > place => l2[k] = l[k - 1]
    BY <2>1, <2>2 DEF HasInserted
  <2>4. \A k \in 1 .. m : Errs(l2)[k] = l2[k].err /\ Keys(l2)[k] = Key(l2[k])
    BY <1>2 DEF Errs, Keys
  <2>5. ASSUME NEW k \in 1 .. m
        PROVE  /\ k < place => k \in 1 .. n
               /\ k > place => k - 1 \in 1 .. n
    BY <1>2
  <2>6. BestOf(Keys(l2), Errs(l2), m, N, P \cup {Key(x)}, E)
    <3>1. PICK key, val, key2, val2, cap, y :
            /\ key = Keys(l) /\ val = Errs(l) /\ key2 = Keys(l2) /\ val2 = Errs(l2)
            /\ cap = N /\ y = Key(x)
      OBVIOUS
    <3>2. /\ cap \in Nat \ {0} /\ n \in 0 .. cap /\ m = (IF n < cap THEN n + 1 ELSE cap)
          /\ place \in 1 .. m /\ y \notin P /\ \A z \in P \cup {y} : E[z] \in Int
          /\ BestOf(key, val, n, cap, P, E)
      BY <1>3, <3>1 DEF Fresh
    <3>3. E[y] = x.err
      BY <3>1 DEF Fresh
    <3>4. /\ \A k \in 1 .. n : k < place => val[k] <= E[y]
          /\ \A k \in 1 .. n : place <= k => E[y] <= val[k]
      BY <1>1, <2>1, <3>1, <3>3
    <3>5. key2[place] = y /\ val2[place] = E[y]
      BY <2>3, <2>4, <3>1, <3>3
    <3>6. \A k \in 1 .. m : k < place => key2[k] = key[k] /\ val2[k] = val[k]
      BY <1>1, <1>2, <2>3, <2>4, <2>5, <3>1
    <3>7. \A k \in 1 .. m : k > place => key2[k] = key[k - 1] /\ val2[k] = val[k - 1]
      BY <1>1, <1>2, <2>3, <2>4, <2>5, <3>1
    <3>8. PutIn(key2, val2, m, place, y, key, val, n, cap, P, E)
      BY ONLY <3>2, <3>4, <3>5, <3>6, <3>7 DEF PutIn
    <3>9. BestOf(key2, val2, m, cap, P \cup {y}, E)
      BY ONLY <3>8, InsertKeepsBest
    <3> QED BY <3>1, <3>9
  <2>7. ASSUME NEW k \in 1 .. m PROVE l2[k] = F[Key(l2[k])]
    <3>1. CASE k < place
      BY <1>2, <1>3, <2>3, <2>5, <3>1
    <3>2. CASE k = place
      BY <2>3, <3>2 DEF Fresh
    <3>3. CASE k > place
      BY <1>2, <1>3, <2>3, <2>5, <3>3
    <3> QED BY <1>2, <3>1, <3>2, <3>3
  <2>8. ASSUME NEW k \in m + 1 .. N PROVE l2[k].err = VERY_LARGE32
    <3>1. k \in 1 .. N /\ k > place /\ k - 1 \in n + 1 .. N
      BY <1>2, <2>8
    <3> QED BY <1>3, <2>3, <3>1
  <2>9. ASSUME NEW r \in 1 .. N, r = 1 \/ l[r - 1].err <= x.err PROVE l2[r].err <= x.err
    <3>1. CASE r < place
      BY <2>1, <2>3, <3>1
    <3>2. CASE r = place
      BY <1>1, <2>3, <3>2
    <3>3. CASE r > place
      BY <2>3, <2>9, <3>3
    <3> QED BY <3>1, <3>2, <3>3
  <2> QED BY <2>2, <2>6, <2>7, <2>8, <2>9 DEF Kept
<1>5. CASE ~(x.err < l[N].err)
  <2>1. Merge(l, x) = l
    BY <1>5 DEF Merge
  <2>2. n = N /\ m = N /\ N \in 1 .. N
    BY <1>1, <1>5
  <2>3. E[Key(x)] >= Errs(l)[N]
    BY <1>1, <1>5, <2>2 DEF Fresh
  <2>4. BestOf(Keys(l), Errs(l), N, N, P \cup {Key(x)}, E)
    BY <1>3, <2>2, <2>3, WorseKeepsBest
  <2>5. ASSUME NEW r \in 1 .. N PROVE l[r].err <= x.err
    <3>1. l[r].err <= l[N].err /\ l[N].err <= x.err
      BY <1>1, <1>5, <2>2
    <3> QED BY <1>1, <2>2, <3>1
  <2> QED BY <1>3, <2>1, <2>2, <2>4, <2>5 DEF Kept
<1> QED BY <1>4, <1>5

(* The entries found for one beginning, best first, and the lists they are  *)
(* merged into one after the other.                                         *)
MergedInto(f, found, n0, P, E, F) ==
  /\ n0 \in 0 .. N /\ Kept(f[0], n0, P, E, F)
  /\ \A k \in 1 .. N : f[k] = Merge(f[k - 1], found[k])
  /\ \A k \in 1 .. N : /\ Key(found[k]) \notin P /\ found[k] = F[Key(found[k])]
                        /\ found[k].err = E[Key(found[k])]
  /\ \A j, k \in 1 .. N : j < k => /\ Key(found[j]) # Key(found[k])
                                   /\ found[j].err <= found[k].err
  /\ \A y \in P \cup {Key(found[k]) : k \in 1 .. N} : E[y] \in Int /\ E[y] < VERY_LARGE32

(* All entries found for one beginning, merged one after the other.        *)
LEMMA BeginningMerged ==
  ASSUME N \in Nat \ {0}, NEW f, NEW found, NEW n0, NEW P, NEW E, NEW F,
         MergedInto(f, found, n0, P, E, F)
  PROVE  /\ Kept(f[N], N, P \cup {Key(found[k]) : k \in 1 .. N}, E, F)
         /\ f[N][N].err <= found[N].err
<1>0. /\ n0 \in 0 .. N /\ Kept(f[0], n0, P, E, F)
      /\ \A k \in 1 .. N : f[k] = Merge(f[k - 1], found[k])
      /\ \A k \in 1 .. N : /\ Key(found[k]) \notin P /\ found[k] = F[Key(found[k])]
                            /\ found[k].err = E[Key(found[k])]
      /\ \A j, k \in 1 .. N : j < k => /\ Key(found[j]) # Key(found[k])
                                       /\ found[j].err <= found[k].err
      /\ \A y \in P \cup {Key(found[k]) : k \in 1 .. N} : E[y] \in Int /\ E[y] < VERY_LARGE32
  BY DEF MergedInto
<1> USE <1>0
<1> DEFINE Upto(k) == P \cup {Key(found[i]) : i \in 1 .. k}
           Size(k) == IF n0 + k < N THEN n0 + k ELSE N
           Holds(k) == /\ Kept(f[k], Size(k), Upto(k), E, F)
                       /\ k = 0 \/ f[k][k].err <= found[k].err
           T == {k \in Nat : k <= N /\ ~Holds(k)}
<1>1. T = {}
  <2> SUFFICES ASSUME T # {} PROVE FALSE
    OBVIOUS
  <2>1. PICK k \in T : \A i \in T : k <= i
    <3>1. T \subseteq Nat
      OBVIOUS
    <3> HIDE DEF T
    <3> QED BY <3>1, NatMin
  <2>2. k \in Nat /\ k <= N /\ ~Holds(k) /\ \A i \in Nat : i < k /\ i <= N => Holds(i)
    <3> HIDE DEF Holds
    <3> QED BY <2>1
  <2>3. CASE k = 0
    <3>1. Upto(0) = P
      OBVIOUS
    <3>2. Size(0) = n0
      OBVIOUS
    <3>3. Kept(f[0], Size(0), Upto(0), E, F)
      BY <3>1, <3>2
    <3> HIDE DEF Size, Upto
    <3> QED BY <2>2, <2>3, <3>3
  <2>4. CASE k # 0
    <3>1. k \in 1 .. N /\ k - 1 \in Nat /\ k - 1 <= N /\ k - 1 < k
      BY <2>2, <2>4
    <3>2. Holds(k - 1)
      <4> HIDE DEF Holds
      <4> QED BY <2>2, <3>1
    <3>3. Upto(k) = Upto(k - 1) \cup {Key(found[k])}
      <4>1. \A i \in Int : i \in 1 .. k <=> i \in 1 .. k - 1 \/ i = k
        BY <3>1
      <4> QED BY <4>1
    <3>4. Size(k - 1) \in 0 .. N /\ Size(k) = IF Size(k - 1) < N THEN Size(k - 1) + 1 ELSE N
      BY <3>1
    <3>5. Fresh(found[k], Upto(k - 1), E, F)
      <4>1. Key(found[k]) \notin Upto(k - 1)
        <5>1. \A i \in 1 .. k - 1 : i \in 1 .. N /\ i < k
          BY <3>1
        <5> QED BY <3>1, <5>1
      <4>2. \A y \in Upto(k - 1) \cup {Key(found[k])} : y \in P \cup {Key(found[i]) : i \in 1 .. N}
        <5>1. \A i \in 1 .. k - 1 : i \in 1 .. N
          BY <3>1
        <5> QED BY <3>1, <5>1
      <4> QED BY <3>1, <4>1, <4>2 DEF Fresh
    <3>6. PICK l, x, m, PP : l = f[k - 1] /\ x = found[k] /\ m = Size(k) /\ PP = Upto(k - 1)
      OBVIOUS
    <3>7. PICK n \in 0 .. N : n = Size(k - 1)
      BY <3>4
    <3>8. Kept(l, n, PP, E, F) /\ Fresh(x, PP, E, F) /\ m = IF n < N THEN n + 1 ELSE N
      BY <3>2, <3>4, <3>5, <3>6, <3>7
    <3>9. /\ Kept(Merge(l, x), m, PP \cup {Key(x)}, E, F)
          /\ \A r \in 1 .. N : (r = 1 \/ l[r - 1].err <= x.err) => Merge(l, x)[r].err <= x.err
      BY <3>8, MergeKeeps
    <3>10. f[k] = Merge(l, x)
      BY <3>1, <3>6
    <3>11. k = 1 \/ l[k - 1].err <= x.err
      <4>1. CASE k # 1
        <5>1. l[k - 1].err <= found[k - 1].err
          BY <3>1, <3>2, <3>6, <4>1
        <5>2. k - 1 \in 1 .. N /\ k - 1 < k
          BY <3>1, <4>1
        <5>3. found[k - 1].err <= x.err
          BY <3>1, <3>6, <5>2
        <5>4. found[k - 1].err \in Int /\ x.err \in Int
          BY <3>1, <3>6, <5>2
        <5>5. l[k - 1].err \in Int
          BY <3>8, <5>2, KeptOrder
        <5> QED BY <5>1, <5>3, <5>4, <5>5
      <4> QED BY <4>1
    <3>12. f[k][k].err <= found[k].err
      BY <3>1, <3>6, <3>9, <3>10, <3>11
    <3>13. Kept(f[k], Size(k), Upto(k), E, F)
      BY <3>3, <3>6, <3>9, <3>10
    <3> HIDE DEF Size, Upto
    <3> QED BY <2>2, <3>12, <3>13
  <2> QED BY <2>3, <2>4
<1>2. Holds(N)
  <2> HIDE DEF Holds
  <2> QED BY <1>1
<1>3. Size(N) = N
  OBVIOUS
<1> QED BY <1>2, <1>3

(* What the recursive function of TryBeginning says.                        *)
Found(j, corr, tener) ==
  [k \in 1 .. N |-> [err |-> Total(j, vq_nbest(corr)[k].dist, tener),
                     nind |-> vq_nbest(corr)[k].index, ntarget |-> j]]

(* What the recursive function of TryBeginning says.                       *)
LEMMA MergedFunction ==
  ASSUME N \in Nat \ {0}, NEW corr, NEW tener, TryBeginning(corr, tener)
  PROVE  \E f : /\ f[0] = list /\ list' = f[N]
                /\ \A k \in 1 .. N :
                     f[k] = Merge(f[k - 1], Found(Len(measured) + 1, corr, tener)[k])
<1> DEFINE found == Found(Len(measured) + 1, corr, tener)
           Def(n, h) == h = [k \in 0 .. n |-> IF k = 0 THEN list ELSE Merge(h[k - 1], found[k])]
           T == {n \in Nat : ~\E h : Def(n, h)}
<1> HIDE DEF found
<1>1. T = {}
  <2> SUFFICES ASSUME T # {} PROVE FALSE
    OBVIOUS
  <2>1. PICK n \in T : \A l \in T : n <= l
    <3> HIDE DEF Def
    <3>1. T \subseteq Nat
      OBVIOUS
    <3> HIDE DEF T
    <3> QED BY <3>1, NatMin
  <2>2. n \in Nat /\ ~\E h : Def(n, h)
    <3> HIDE DEF Def
    <3> QED BY <2>1
  <2>3. CASE n = 0
    <3> DEFINE h == [k \in 0 .. 0 |-> list]
    <3>1. Def(0, h)
      OBVIOUS
    <3> HIDE DEF Def
    <3> QED BY <2>2, <2>3, <3>1
  <2>4. CASE n # 0
    <3>1. n - 1 \in Nat /\ ~(n <= n - 1)
      BY <2>2, <2>4
    <3>2. PICK g : Def(n - 1, g)
      <4> HIDE DEF Def
      <4> QED BY <2>1, <3>1
    <3> DEFINE h == [k \in 0 .. n |-> IF k = 0 THEN list ELSE Merge(g[k - 1], found[k])]
    <3>3. ASSUME NEW k \in 0 .. n - 1 PROVE h[k] = g[k]
      <4>1. k \in 0 .. n
        BY <3>1
      <4> QED BY <3>2, <4>1
    <3>4. ASSUME NEW k \in 0 .. n, k # 0 PROVE g[k - 1] = h[k - 1]
      <4>1. k - 1 \in 0 .. n - 1
        BY <2>2, <3>4
      <4> HIDE DEF h
      <4> QED BY <3>3, <4>1
    <3>5. Def(n, h)
      <4>1. PICK hh : hh = h
        OBVIOUS
      <4>2. hh = [k \in 0 .. n |-> IF k = 0 THEN list ELSE Merge(g[k - 1], found[k])]
        BY <4>1
      <4>3. \A k \in 0 .. n : k # 0 => g[k - 1] = hh[k - 1]
        BY <3>4, <4>1
      <4> HIDE DEF h
      <4>4. Def(n, hh)
        BY <4>2, <4>3
      <4> QED BY <4>1, <4>4
    <3> HIDE DEF Def
    <3> QED BY <2>2, <3>5
  <2> QED BY <2>3, <2>4
<1>2. \E h : Def(N, h)
  <2> HIDE DEF Def
  <2> QED BY <1>1
<1>3. list' = (CHOOSE h : Def(N, h))[N]
  BY DEF TryBeginning, found, Found
<1>4. PICK f : Def(N, f) /\ list' = f[N]
  <2> HIDE DEF Def
  <2> QED BY <1>2, <1>3
<1>5. f[0] = list
  BY <1>4
<1>6. ASSUME NEW k \in 1 .. N PROVE f[k] = Merge(f[k - 1], found[k])
  <2>1. k \in 0 .. N /\ k # 0
    OBVIOUS
  <2> QED BY <1>4, <2>1
<1> QED BY <1>4, <1>5, <1>6 DEF found

-----------------------------------------------------------------------------
(* The inductive invariant of the search.                                  *)

Tries == IF done = 0 THEN 1 ELSE N
Measurements == [corr : [1 .. CbSize -> Corrs], tener : TargetEnergies]

SearchSizesOK ==
  /\ have_sign \in BOOLEAN /\ done \in 0 .. Subvectors
  /\ N \in Nat \ {0} /\ N <= CbSize
  /\ measured \in Seq(Measurements) /\ Len(measured) <= Tries
  /\ done = Subvectors => measured = <<>>

(* A beginning is known by its indices; its distance grows by a step at     *)
(* most in each subvector.                                                  *)
BeginningOK(o, n, step) ==
  /\ o.oind \in Seq(Nat) /\ Len(o.oind) = n
  /\ o.target = [k \in 1 .. n |-> Codeword(o.oind[k])]
  /\ o.odist \in Int /\ o.odist = o.true /\ o.odist <= n * step

(* The continuations of the beginnings that were tried, the distance of     *)
(* each and its entry.                                                      *)
Pairs(ms) == [ntarget : 1 .. Len(ms), c : 1 .. CbSize]
ErrOf(ms) ==
  [y \in Pairs(ms) |-> old[y.ntarget].odist + Dist(ms[y.ntarget].corr, y.c) + ms[y.ntarget].tener]
EntryOf(ms) ==
  [y \in Pairs(ms) |-> [err |-> ErrOf(ms)[y], nind |-> Index(ms[y.ntarget].corr, y.c),
                        ntarget |-> y.ntarget]]

ListOK ==
  IF measured = <<>> THEN list = Erased(N)
  ELSE Kept(list, N, Pairs(measured), ErrOf(measured), EntryOf(measured))

SearchIInv(step) ==
  /\ SearchSizesOK
  /\ \A j \in 1 .. N : BeginningOK(old[j], done, step)
  /\ ListOK

(* No path is as long as the distance of an erased entry.                   *)
StaysBelow(step) ==
  /\ step \in Nat /\ Subvectors * step < VERY_LARGE32
  /\ \A c \in 1 .. CbSize, v \in Corrs, t \in TargetEnergies :
       CodeEnergy[c] + v + t <= step /\ CodeEnergy[c] - v + t <= step

(* An erased list has its length.                                          *)
LEMMA ErasedLen == \A n \in Nat : Len(Erased(n)) = n /\ DOMAIN Erased(n) = 1 .. n
BY DEF Erased

(* The beginnings of the search are empty paths of distance zero.          *)
LEMMA FirstTargetsOK ==
  ASSUME NEW n \in Nat, NEW step \in Nat
  PROVE  /\ Len(FirstTargets(n)) = n
         /\ \A j \in 1 .. n : BeginningOK(FirstTargets(n)[j], 0, step)
<1>1. Len(FirstTargets(n)) = n
  BY DEF FirstTargets
<1>2. ASSUME NEW j \in 1 .. n PROVE BeginningOK(FirstTargets(n)[j], 0, step)
  <2> DEFINE o == [target |-> <<>>, true |-> 0, oind |-> <<>>, odist |-> 0]
  <2>1. FirstTargets(n)[j] = o
    BY DEF FirstTargets
  <2>2. /\ o.oind = <<>> /\ o.target = <<>> /\ o.odist = 0 /\ o.true = 0
    OBVIOUS
  <2>3. <<>> = [k \in 1 .. 0 |-> Codeword(o.oind[k])]
    OBVIOUS
  <2>4. 0 * step = 0
    OBVIOUS
  <2> HIDE DEF o
  <2>5. BeginningOK(o, 0, step)
    BY <2>2, <2>3, <2>4 DEF BeginningOK
  <2> QED BY <2>1, <2>5
<1> QED BY <1>1, <1>2

(* The invariant holds at the start of a frame.                            *)
LEMMA InitSearch ==
  ASSUME NEW step \in Nat, SearchInit
  PROVE  SearchIInv(step)
<1>1. PICK c \in Complexities : old = FirstTargets(NOf(c)) /\ list = Erased(NOf(c))
  BY DEF SearchInit
<1>2. NOf(c) \in Nat \ {0} /\ NOf(c) <= CbSize /\ Subvectors \in Nat
  BY SearchSizes
<1>3. /\ N = NOf(c) /\ \A j \in 1 .. N : BeginningOK(old[j], 0, step)
  BY <1>1, <1>2, FirstTargetsOK DEF N
<1>4. have_sign \in BOOLEAN /\ measured = <<>> /\ done = 0
  BY DEF SearchInit
<1>5. SearchSizesOK
  BY <1>2, <1>3, <1>4 DEF SearchSizesOK, Tries
<1> QED BY <1>1, <1>3, <1>4, <1>5 DEF SearchIInv, ListOK

(* Distances are numbers, and no path is as long as an erased entry.        *)
LEMMA ErrBelow ==
  ASSUME NEW step, StaysBelow(step), SearchSizesOK,
         \A j \in 1 .. N : BeginningOK(old[j], done, step), done < Subvectors,
         NEW ms \in Seq(Measurements), Len(ms) <= N, NEW y \in Pairs(ms)
  PROVE  /\ ErrOf(ms)[y] = old[y.ntarget].odist + Dist(ms[y.ntarget].corr, y.c) + ms[y.ntarget].tener
         /\ ErrOf(ms)[y] \in Int /\ ErrOf(ms)[y] <= (done + 1) * step
         /\ ErrOf(ms)[y] < VERY_LARGE32
<1>1. /\ y.ntarget \in 1 .. Len(ms) /\ y.c \in 1 .. CbSize
      /\ y = [ntarget |-> y.ntarget, c |-> y.c]
  BY DEF Pairs
<1>2. PICK t \in 1 .. Len(ms), c \in 1 .. CbSize : t = y.ntarget /\ c = y.c
  BY <1>1
<1>3. t \in 1 .. N /\ Len(ms) \in Nat /\ N \in Nat
  BY DEF SearchSizesOK
<1>4. ms[t] \in Measurements
  OBVIOUS
<1>5. ms[t].corr \in [1 .. CbSize -> Corrs] /\ ms[t].tener \in TargetEnergies
  BY <1>4 DEF Measurements
<1>6. PICK v \in Corrs, e \in TargetEnergies : v = ms[t].corr[c] /\ e = ms[t].tener
  BY <1>5
<1>7. v \in Int /\ e \in Int /\ CodeEnergy[c] \in Int /\ VERY_LARGE32 \in Nat /\ Subvectors \in Nat
  BY SearchSizes
<1>8. step \in Nat /\ CodeEnergy[c] + v + e <= step /\ CodeEnergy[c] - v + e <= step
      /\ Subvectors * step < VERY_LARGE32
  BY DEF StaysBelow
<1>9. /\ Dist(ms[t].corr, c) \in Int /\ Dist(ms[t].corr, c) + e <= step
  <2>1. Dist(ms[t].corr, c) = CodeEnergy[c] - v \/ Dist(ms[t].corr, c) = CodeEnergy[c] - (-v)
    BY <1>6 DEF Dist
  <2>2. PICK w, dist : w = CodeEnergy[c] /\ dist = Dist(ms[t].corr, c)
    OBVIOUS
  <2>3. w \in Int /\ v \in Int /\ e \in Int /\ step \in Int /\ w + v + e <= step /\ w - v + e <= step
    BY <1>7, <1>8, <2>2
  <2>4. dist = w - v \/ dist = w - (-v)
    BY <2>1, <2>2
  <2>5. dist \in Int /\ dist + e <= step
    BY ONLY <2>3, <2>4
  <2> QED BY <2>2, <2>5
<1>10. old[t].odist \in Int /\ old[t].odist <= done * step
  BY <1>3 DEF BeginningOK
<1>11. ErrOf(ms)[y] = old[t].odist + Dist(ms[t].corr, c) + e
  BY <1>2, <1>6 DEF ErrOf
<1>12. done \in Nat /\ done * step \in Int /\ (done + 1) * step = done * step + step
  BY <1>8 DEF SearchSizesOK
<1>13. (done + 1) * step <= Subvectors * step
  <2>1. PICK d \in Nat : Subvectors = (done + 1) + d
    <3>1. Subvectors - (done + 1) \in Nat
      BY <1>7, <1>12
    <3> QED BY <1>7, <1>12, <3>1
  <2>2. d * step \in Nat
    BY <1>8
  <2>3. ((done + 1) + d) * step = (done + 1) * step + d * step
    BY <1>8, <1>12
  <2> QED BY <1>8, <1>12, <2>1, <2>2, <2>3
<1>14. ErrOf(ms)[y] \in Int /\ ErrOf(ms)[y] <= (done + 1) * step
  <2>1. PICK od, dist, whole : od = old[t].odist /\ dist = Dist(ms[t].corr, c) /\ whole = done * step
    OBVIOUS
  <2>2. /\ od \in Int /\ dist \in Int /\ e \in Int /\ whole \in Int /\ step \in Int
        /\ od <= whole /\ dist + e <= step
    BY <1>7, <1>8, <1>9, <1>10, <1>12, <2>1
  <2>3. od + dist + e \in Int /\ od + dist + e <= whole + step
    BY ONLY <2>2
  <2> QED BY <1>11, <1>12, <2>1, <2>3
<1>15. Subvectors * step \in Int /\ (done + 1) * step \in Int
  BY <1>7, <1>8, <1>12
<1> QED BY <1>2, <1>6, <1>7, <1>8, <1>11, <1>13, <1>14, <1>15

(* Kept only looks at the distances and entries of the continuations.      *)
LEMMA KeptAgrees ==
  ASSUME N \in Nat, NEW l, NEW n \in 0 .. N, NEW P, NEW E, NEW F, NEW E2, NEW F2, Kept(l, n, P, E, F),
         \A y \in P : E2[y] = E[y] /\ F2[y] = F[y], n = N => N \in 1 .. N
  PROVE  Kept(l, n, P, E2, F2)
<1>1. /\ \A k \in 1 .. n : Keys(l)[k] \in P /\ Errs(l)[k] = E[Keys(l)[k]]
      /\ \A j, k \in 1 .. n : j < k => Keys(l)[j] # Keys(l)[k] /\ Errs(l)[j] <= Errs(l)[k]
      /\ \A x \in P : (\E k \in 1 .. n : Keys(l)[k] = x) \/ (n = N /\ E[x] >= Errs(l)[N])
  BY DEF Kept, BestOf
<1>2. /\ \A k \in 1 .. n : l[k] = F[Key(l[k])]
      /\ \A k \in n + 1 .. N : l[k].err = VERY_LARGE32
  BY DEF Kept
<1>3. \A k \in 1 .. n : Keys(l)[k] = Key(l[k])
  BY DEF Keys
<1>4. BestOf(Keys(l), Errs(l), n, N, P, E2)
  BY <1>1 DEF BestOf
<1>5. \A k \in 1 .. n : l[k] = F2[Key(l[k])]
  BY <1>1, <1>2, <1>3
<1> QED BY <1>2, <1>4, <1>5 DEF Kept

(* An erased list keeps the best of nothing.                               *)
LEMMA NothingKept ==
  ASSUME N \in Nat \ {0}, NEW E, NEW F
  PROVE  Kept(Erased(N), 0, {}, E, F)
<1>1. BestOf(Keys(Erased(N)), Errs(Erased(N)), 0, N, {}, E)
  BY DEF BestOf
<1>2. \A k \in 0 + 1 .. N : Erased(N)[k].err = VERY_LARGE32
  <2>1. ASSUME NEW k \in 1 .. N PROVE Erased(N)[k] = [err |-> VERY_LARGE32, nind |-> 0, ntarget |-> 1]
    BY DEF Erased
  <2> QED BY <2>1
<1>3. \A k \in 1 .. 0 : FALSE
  OBVIOUS
<1> QED BY <1>1, <1>2, <1>3 DEF Kept

(* A target has a correlation with every codeword.                         *)
LEMMA Corresponds ==
  ASSUME NEW corr \in [1 .. CbSize -> Corrs]
  PROVE  corr \in [1 .. CbSize -> Int]
BY SearchSizes

(* The continuations of a new beginning, as entries of the list.            *)
FoundOK(found, J, ms) ==
  /\ \A k \in 1 .. N : /\ Key(found[k]).ntarget = J /\ Key(found[k]).c \in 1 .. CbSize
                        /\ Key(found[k]) = [ntarget |-> J, c |-> Key(found[k]).c]
                        /\ Key(found[k]) \in Pairs(ms)
                        /\ found[k] = EntryOf(ms)[Key(found[k])]
                        /\ found[k].err = ErrOf(ms)[Key(found[k])]
  /\ \A i, k \in 1 .. N : i < k => /\ Key(found[i]) # Key(found[k])
                                   /\ found[i].err <= found[k].err
  /\ \A c \in 1 .. CbSize : \/ \E k \in 1 .. N : Key(found[k]) = [ntarget |-> J, c |-> c]
                            \/ ErrOf(ms)[[ntarget |-> J, c |-> c]] >= found[N].err

(* What vq_nbest returns for a beginning: N continuations of that          *)
(* beginning, the best of all of them.                                     *)
LEMMA FoundEntries ==
  ASSUME SearchSizesOK, NEW corr \in [1 .. CbSize -> Corrs], NEW tener \in TargetEnergies,
         NEW ms, NEW J, J = Len(measured) + 1, old[J].odist \in Int,
         ms = Append(measured, [corr |-> corr, tener |-> tener])
  PROVE  FoundOK(Found(J, corr, tener), J, ms)
<1> DEFINE best == vq_nbest(corr)
           found == Found(J, corr, tener)
           E == ErrOf(ms)
           num == [k \in 1 .. N |-> Number(best[k])]
           base == old[J].odist
<1>1. N \in Nat \ {0} /\ N <= CbSize /\ measured \in Seq(Measurements) /\ CbSize \in Nat
  BY SearchSizes DEF SearchSizesOK
<1>2. corr \in [1 .. CbSize -> Int]
  BY Corresponds
<1>3. Scanned(best, corr, CbSize) /\ Len(best) = N
  BY <1>1, <1>2, NBestFound
<1>4. [corr |-> corr, tener |-> tener] \in Measurements
  BY DEF Measurements
<1>5. /\ ms \in Seq(Measurements) /\ Len(ms) = J /\ ms[J] = [corr |-> corr, tener |-> tener]
  BY <1>1, <1>4, AppendProperties
<1>6. J \in 1 .. Len(ms) /\ ms[J].corr = corr /\ ms[J].tener = tener
  <2>1. J \in Nat \ {0}
    BY <1>1
  <2> QED BY <1>5, <2>1
<1>7. /\ \A k \in 1 .. N : best[k] = Item(corr, Number(best[k]))
      /\ BestOf(Numbers(best), Dists(best), N, N, 1 .. CbSize, DistOf(corr))
  BY <1>3 DEF Scanned
<1>8. \A k \in 1 .. N : Numbers(best)[k] = Number(best[k]) /\ Dists(best)[k] = best[k].dist
  BY <1>3 DEF Numbers, Dists
<1> HIDE DEF best
<1>9. ASSUME NEW k \in 1 .. N
      PROVE  /\ num[k] \in 1 .. CbSize /\ best[k] = Item(corr, num[k])
             /\ best[k].dist = Dist(corr, num[k]) /\ best[k].index = Index(corr, num[k])
  <2>1. Number(best[k]) \in 1 .. CbSize
    BY <1>7, <1>8 DEF BestOf
  <2>2. best[k] = Item(corr, num[k])
    BY <1>7
  <2> QED BY <2>1, <2>2 DEF Item
<1>10. ASSUME NEW i \in 1 .. N, NEW k \in 1 .. N, i < k
       PROVE  num[i] # num[k] /\ best[i].dist <= best[k].dist
  BY <1>7, <1>8, <1>10 DEF BestOf
<1>11. ASSUME NEW c \in 1 .. CbSize
       PROVE  (\E k \in 1 .. N : num[k] = c) \/ Dist(corr, c) >= best[N].dist
  <2>1. DistOf(corr)[c] = Dist(corr, c)
    BY DEF DistOf
  <2>2. N \in 1 .. N
    BY <1>1
  <2>3. (\E k \in 1 .. N : Numbers(best)[k] = c) \/ DistOf(corr)[c] >= Dists(best)[N]
    BY <1>7 DEF BestOf
  <2> QED BY <1>8, <2>1, <2>2, <2>3
<1>12. ASSUME NEW k \in 1 .. N
       PROVE  found[k] = [err |-> base + best[k].dist + tener, nind |-> best[k].index, ntarget |-> J]
  BY DEF Found, Total, best
<1> HIDE DEF num, found
<1>13. ASSUME NEW k \in 1 .. N
       PROVE  /\ Key(found[k]) = [ntarget |-> J, c |-> num[k]]
              /\ found[k].err = base + Dist(corr, num[k]) + tener
              /\ found[k].nind = Index(corr, num[k]) /\ found[k].ntarget = J
  <2>1. /\ found[k].err = base + Dist(corr, num[k]) + tener
        /\ found[k].nind = Index(corr, num[k]) /\ found[k].ntarget = J
    <3>1. found[k] = [err |-> base + best[k].dist + tener, nind |-> best[k].index, ntarget |-> J]
      BY <1>12
    <3>2. best[k].dist = Dist(corr, num[k]) /\ best[k].index = Index(corr, num[k])
      BY <1>9
    <3>3. PICK r : r = found[k]
      OBVIOUS
    <3>4. r = [err |-> base + Dist(corr, num[k]) + tener, nind |-> Index(corr, num[k]), ntarget |-> J]
      BY <3>1, <3>2, <3>3
    <3> QED BY <3>3, <3>4
  <2>2. Codeword(Index(corr, num[k])).c = num[k]
    BY <1>9, IndexNumbers
  <2> QED BY <2>1, <2>2 DEF Key
<1>14. ASSUME NEW c \in 1 .. CbSize
       PROVE  /\ [ntarget |-> J, c |-> c] \in Pairs(ms)
              /\ E[[ntarget |-> J, c |-> c]] = base + Dist(corr, c) + tener
              /\ EntryOf(ms)[[ntarget |-> J, c |-> c]] =
                   [err |-> base + Dist(corr, c) + tener, nind |-> Index(corr, c), ntarget |-> J]
  <2>1. PICK y : y = [ntarget |-> J, c |-> c]
    OBVIOUS
  <2>2. y \in Pairs(ms) /\ y.ntarget = J /\ y.c = c
    BY <1>6, <2>1 DEF Pairs
  <2>3. E[y] = base + Dist(corr, c) + tener
    BY <1>6, <2>2 DEF ErrOf
  <2>4. EntryOf(ms)[y] = [err |-> base + Dist(corr, c) + tener, nind |-> Index(corr, c), ntarget |-> J]
    BY <1>6, <2>2, <2>3 DEF EntryOf
  <2> QED BY <2>1, <2>2, <2>3, <2>4
<1>15. ASSUME NEW k \in 1 .. N
       PROVE  /\ Key(found[k]).ntarget = J /\ Key(found[k]).c \in 1 .. CbSize
              /\ Key(found[k]) = [ntarget |-> J, c |-> Key(found[k]).c]
              /\ Key(found[k]) \in Pairs(ms)
              /\ found[k] = EntryOf(ms)[Key(found[k])]
              /\ found[k].err = E[Key(found[k])]
  <2>1. num[k] \in 1 .. CbSize
    BY <1>9
  <2>2. /\ [ntarget |-> J, c |-> num[k]] \in Pairs(ms)
        /\ E[[ntarget |-> J, c |-> num[k]]] = base + Dist(corr, num[k]) + tener
        /\ EntryOf(ms)[[ntarget |-> J, c |-> num[k]]] =
             [err |-> base + Dist(corr, num[k]) + tener, nind |-> Index(corr, num[k]), ntarget |-> J]
    BY <1>14, <2>1
  <2>3. found[k] = [err |-> base + Dist(corr, num[k]) + tener, nind |-> Index(corr, num[k]), ntarget |-> J]
    BY <1>9, <1>12
  <2> HIDE DEF E
  <2> QED BY <1>13, <2>1, <2>2, <2>3
<1>16. ASSUME NEW i \in 1 .. N, NEW k \in 1 .. N, i < k
       PROVE  Key(found[i]) # Key(found[k])
  <2>1. num[i] # num[k]
    BY <1>10, <1>16
  <2>2. Key(found[i]) = [ntarget |-> J, c |-> num[i]] /\ Key(found[k]) = [ntarget |-> J, c |-> num[k]]
    BY <1>13
  <2>3. \A a, b : [ntarget |-> J, c |-> a] = [ntarget |-> J, c |-> b] => a = b
    <3>1. \A a : [ntarget |-> J, c |-> a].c = a
      OBVIOUS
    <3> QED BY <3>1
  <2> QED BY <2>1, <2>2, <2>3
<1>17. ASSUME NEW c \in 1 .. CbSize
       PROVE  \/ \E k \in 1 .. N : Key(found[k]) = [ntarget |-> J, c |-> c]
              \/ Dist(corr, c) >= Dist(corr, num[N])
  <2>1. CASE \E k \in 1 .. N : num[k] = c
    BY <1>13, <2>1
  <2>2. CASE Dist(corr, c) >= best[N].dist
    <3>1. N \in 1 .. N
      BY <1>1
    <3> QED BY <1>9, <2>2, <3>1
  <2> QED BY <1>11, <2>1, <2>2
<1>18. ASSUME NEW c \in 1 .. CbSize, NEW d \in 1 .. CbSize, Dist(corr, c) <= Dist(corr, d)
       PROVE  base + Dist(corr, c) + tener <= base + Dist(corr, d) + tener
  <2>1. PICK a, b, o : a = Dist(corr, c) /\ b = Dist(corr, d) /\ o = base
    OBVIOUS
  <2>2. a \in Int /\ b \in Int /\ o \in Int /\ tener \in Int /\ a <= b
    BY <1>2, <1>18, <2>1, DistIsInt, SearchSizes
  <2>3. o + a + tener <= o + b + tener
    BY ONLY <2>2
  <2> QED BY <2>1, <2>3
<1>19. ASSUME NEW i \in 1 .. N, NEW k \in 1 .. N, i < k
       PROVE  found[i].err <= found[k].err
  <2>1. Dist(corr, num[i]) <= Dist(corr, num[k])
    BY <1>9, <1>10, <1>19
  <2>2. base + Dist(corr, num[i]) + tener <= base + Dist(corr, num[k]) + tener
    BY <1>9, <1>18, <2>1
  <2> QED BY <1>13, <2>2
<1>20. ASSUME NEW c \in 1 .. CbSize
       PROVE  \/ \E k \in 1 .. N : Key(found[k]) = [ntarget |-> J, c |-> c]
              \/ E[[ntarget |-> J, c |-> c]] >= found[N].err
  <2>1. CASE Dist(corr, c) >= Dist(corr, num[N])
    <3>1. N \in 1 .. N
      BY <1>1
    <3>2. num[N] \in 1 .. CbSize
      BY <1>9, <3>1
    <3>3. Dist(corr, num[N]) <= Dist(corr, c)
      BY <1>2, <2>1, <3>2, DistIsInt
    <3>4. base + Dist(corr, num[N]) + tener <= base + Dist(corr, c) + tener
      BY <1>18, <3>2, <3>3
    <3>5. E[[ntarget |-> J, c |-> c]] = base + Dist(corr, c) + tener
      BY <1>14
    <3>6. found[N].err = base + Dist(corr, num[N]) + tener
      BY <1>13, <3>1
    <3>7. PICK a, b : a = E[[ntarget |-> J, c |-> c]] /\ b = found[N].err
      OBVIOUS
    <3>8. b <= a
      BY <3>4, <3>5, <3>6, <3>7
    <3>9. a >= b
      BY <3>8
    <3> QED BY <3>7, <3>9
  <2> QED BY <1>17, <2>1
<1> HIDE DEF E
<1>21. FoundOK(found, J, ms)
  BY <1>15, <1>16, <1>19, <1>20 DEF FoundOK, E
<1> QED BY <1>21 DEF found

SameStart(ms, ms0) == \A t \in 1 .. Len(ms0) : ms[t] = ms0[t]

(* A step of TryBeginning, and the measurements after it.                   *)
Trying(step, corr, tener, ms) ==
  /\ StaysBelow(step) /\ SearchIInv(step)
  /\ corr \in [1 .. CbSize -> Corrs] /\ tener \in TargetEnergies
  /\ TryBeginning(corr, tener)
  /\ ms = Append(measured, [corr |-> corr, tener |-> tener])

(* What is known in front of TryBeginning.                                  *)
LEMMA TryStarts ==
  ASSUME NEW step, NEW corr, NEW tener, NEW ms, Trying(step, corr, tener, ms)
  PROVE  /\ ms \in Seq(Measurements) /\ Len(ms) = Len(measured) + 1 /\ Len(ms) <= Tries /\ Len(ms) <= N
         /\ done < Subvectors /\ N \in Nat \ {0}
         /\ ms[Len(measured) + 1] = [corr |-> corr, tener |-> tener]
         /\ SameStart(ms, measured)
         /\ Len(measured) \in Nat
         /\ old[Len(measured) + 1].odist \in Int
<1> USE DEF Trying
<1>1. /\ done < Subvectors /\ Len(measured) + 1 <= Tries
  BY DEF TryBeginning, Tries
<1>2. /\ measured \in Seq(Measurements) /\ N \in Nat \ {0} /\ Len(measured) \in Nat
  BY DEF SearchIInv, SearchSizesOK
<1>3. [corr |-> corr, tener |-> tener] \in Measurements
  BY DEF Measurements
<1>4. /\ ms \in Seq(Measurements) /\ Len(ms) = Len(measured) + 1
      /\ ms[Len(measured) + 1] = [corr |-> corr, tener |-> tener]
      /\ SameStart(ms, measured)
  BY <1>2, <1>3, AppendProperties DEF SameStart
<1>5. Tries <= N
  BY <1>2 DEF Tries
<1>6. Len(measured) + 1 \in 1 .. N
  BY <1>1, <1>2, <1>5 DEF Tries
<1>7. old[Len(measured) + 1].odist \in Int
  BY <1>6 DEF SearchIInv, BeginningOK
<1> QED BY <1>1, <1>2, <1>4, <1>5, <1>6, <1>7

(* The list in front of it, as one for the longer measurements.             *)
LEMMA ListStarts ==
  ASSUME NEW step, NEW corr, NEW tener, NEW ms, Trying(step, corr, tener, ms)
  PROVE  \E n0 \in 0 .. N : Kept(list, n0, Pairs(measured), ErrOf(ms), EntryOf(ms))
<1>1. /\ ms \in Seq(Measurements) /\ Len(ms) = Len(measured) + 1 /\ N \in Nat \ {0}
      /\ SameStart(ms, measured)
      /\ Len(measured) \in Nat
  BY TryStarts
<1>2. CASE measured = <<>>
  <2>1. Pairs(measured) = {}
    <3>1. Len(measured) = 0
      BY <1>2
    <3>2. \A y \in Pairs(measured) : y.ntarget \in 1 .. 0
      BY <3>1 DEF Pairs
    <3> QED BY <3>2
  <2>2. list = Erased(N)
    BY <1>2 DEF Trying, SearchIInv, ListOK
  <2>3. Kept(list, 0, Pairs(measured), ErrOf(ms), EntryOf(ms))
    BY <1>1, <2>1, <2>2, NothingKept
  <2> QED BY <1>1, <2>3
<1>3. CASE measured # <<>>
  <2>1. Kept(list, N, Pairs(measured), ErrOf(measured), EntryOf(measured))
    BY <1>3 DEF Trying, SearchIInv, ListOK
  <2>2. ASSUME NEW y \in Pairs(measured)
        PROVE  ErrOf(ms)[y] = ErrOf(measured)[y] /\ EntryOf(ms)[y] = EntryOf(measured)[y]
    <3>1. y.ntarget \in 1 .. Len(measured) /\ y \in Pairs(ms)
      BY <1>1 DEF Pairs
    <3>2. ms[y.ntarget] = measured[y.ntarget]
      BY <1>1, <3>1 DEF SameStart
    <3>3. ErrOf(ms)[y] = ErrOf(measured)[y]
      BY <3>1, <3>2 DEF ErrOf
    <3> QED BY <3>1, <3>2, <3>3 DEF EntryOf
  <2>3. N \in 0 .. N /\ N \in 1 .. N
    BY <1>1
  <2>4. PICK P, E, F, E2, F2 :
          /\ P = Pairs(measured) /\ E = ErrOf(measured) /\ F = EntryOf(measured)
          /\ E2 = ErrOf(ms) /\ F2 = EntryOf(ms)
    OBVIOUS
  <2>5. Kept(list, N, P, E, F) /\ \A y \in P : E2[y] = E[y] /\ F2[y] = F[y]
    BY <2>1, <2>2, <2>4
  <2>6. Kept(list, N, P, E2, F2)
    BY <2>3, <2>5, KeptAgrees
  <2> QED BY <2>3, <2>4, <2>6
<1> QED BY <1>2, <1>3

(* After a beginning was tried, the list keeps the best continuations of   *)
(* the beginnings tried so far, this one included.                         *)
LEMMA TryKeeps ==
  ASSUME NEW step, NEW corr, NEW tener, NEW ms, Trying(step, corr, tener, ms)
  PROVE  Kept(list', N, Pairs(ms), ErrOf(ms), EntryOf(ms))
<1>1. PICK J \in Nat : J = Len(measured) + 1
  BY TryStarts
<1>2. /\ ms \in Seq(Measurements) /\ Len(ms) = J /\ Len(ms) <= N /\ done < Subvectors
      /\ N \in Nat \ {0} /\ Len(measured) = J - 1 /\ J \in 1 .. Len(ms)
  <2>1. /\ ms \in Seq(Measurements) /\ Len(ms) = Len(measured) + 1 /\ Len(ms) <= N
        /\ done < Subvectors /\ N \in Nat \ {0} /\ Len(measured) \in Nat
    BY TryStarts
  <2> QED BY <1>1, <2>1
<1>3. PICK n0 \in 0 .. N : Kept(list, n0, Pairs(measured), ErrOf(ms), EntryOf(ms))
  BY ListStarts
<1>4. PICK f : /\ f[0] = list /\ list' = f[N]
               /\ \A k \in 1 .. N : f[k] = Merge(f[k - 1], Found(J, corr, tener)[k])
  BY <1>1, <1>2, MergedFunction DEF Trying
<1>5. PICK P, E, F, found : /\ P = Pairs(measured) /\ E = ErrOf(ms) /\ F = EntryOf(ms)
                            /\ found = Found(J, corr, tener)
  OBVIOUS
<1>6. FoundOK(found, J, ms)
  <2>1. SearchSizesOK /\ old[J].odist \in Int
    BY <1>1, TryStarts DEF Trying, SearchIInv
  <2> QED BY <1>1, <1>5, <2>1, FoundEntries DEF Trying
<1>7. /\ \A k \in 1 .. N : /\ Key(found[k]).ntarget = J /\ Key(found[k]).c \in 1 .. CbSize
                           /\ Key(found[k]) = [ntarget |-> J, c |-> Key(found[k]).c]
                           /\ Key(found[k]) \in Pairs(ms)
                           /\ found[k] = F[Key(found[k])]
                           /\ found[k].err = E[Key(found[k])]
      /\ \A i, k \in 1 .. N : i < k => /\ Key(found[i]) # Key(found[k])
                                      /\ found[i].err <= found[k].err
      /\ \A c \in 1 .. CbSize : \/ \E k \in 1 .. N : Key(found[k]) = [ntarget |-> J, c |-> c]
                               \/ E[[ntarget |-> J, c |-> c]] >= found[N].err
  BY <1>5, <1>6 DEF FoundOK
<1>8. \A y \in P : y \in Pairs(ms) /\ y.ntarget # J
  BY <1>2, <1>5 DEF Pairs
<1>9. \A y \in Pairs(ms) : E[y] \in Int /\ E[y] < VERY_LARGE32
  BY <1>2, <1>5, ErrBelow DEF Trying, SearchIInv
<1>10. \A k \in 1 .. N : Key(found[k]) \notin P
  BY <1>7, <1>8
<1> DEFINE P2 == P \cup {Key(found[k]) : k \in 1 .. N}
<1>11. \A y \in P2 : E[y] \in Int /\ E[y] < VERY_LARGE32
  BY <1>7, <1>8, <1>9
<1>12. Kept(f[N], N, P2, E, F) /\ f[N][N].err <= found[N].err
  <2>1. Kept(f[0], n0, P, E, F)
    BY <1>3, <1>4, <1>5
  <2>2. \A k \in 1 .. N : f[k] = Merge(f[k - 1], found[k])
    BY <1>4, <1>5
  <2>3. /\ \A k \in 1 .. N : /\ Key(found[k]) \notin P /\ found[k] = F[Key(found[k])]
                             /\ found[k].err = E[Key(found[k])]
        /\ \A i, k \in 1 .. N : i < k => /\ Key(found[i]) # Key(found[k])
                                        /\ found[i].err <= found[k].err
    BY <1>7, <1>10
  <2>5. \A y \in P \cup {Key(found[k]) : k \in 1 .. N} : E[y] \in Int /\ E[y] < VERY_LARGE32
    BY <1>11
  <2> HIDE DEF P2
  <2>6. /\ Kept(f[N], N, P \cup {Key(found[k]) : k \in 1 .. N}, E, F)
        /\ f[N][N].err <= found[N].err
    <3>1. MergedInto(f, found, n0, P, E, F)
      BY ONLY n0 \in 0 .. N, <2>1, <2>2, <2>3, <2>5 DEF MergedInto
    <3> QED BY <1>2, <3>1, BeginningMerged
  <2> QED BY <2>6 DEF P2
<1> DEFINE l == f[N]
<1>13. /\ \A k \in 1 .. N : Keys(l)[k] \in P2 /\ Errs(l)[k] = E[Keys(l)[k]]
       /\ \A j, k \in 1 .. N : j < k => Keys(l)[j] # Keys(l)[k] /\ Errs(l)[j] <= Errs(l)[k]
       /\ \A x \in P2 : (\E k \in 1 .. N : Keys(l)[k] = x) \/ E[x] >= Errs(l)[N]
  BY <1>12 DEF Kept, BestOf
<1>14. \A y \in P2 : y \in Pairs(ms)
  BY <1>7, <1>8
<1>15. N \in 1 .. N /\ Errs(l)[N] = l[N].err
  BY <1>2 DEF Errs
<1>16. ASSUME NEW x \in Pairs(ms)
       PROVE  (\E k \in 1 .. N : Keys(l)[k] = x) \/ E[x] >= Errs(l)[N]
  <2>1. CASE x \in P2
    BY <1>13, <2>1
  <2>2. CASE x \notin P2
    <3>1. /\ x.ntarget \in 1 .. J /\ x.c \in 1 .. CbSize
          /\ x = [ntarget |-> x.ntarget, c |-> x.c]
      BY <1>2 DEF Pairs
    <3>2. x.ntarget = J
      <4>1. SUFFICES ASSUME x.ntarget # J PROVE FALSE
        OBVIOUS
      <4>2. x.ntarget \in 1 .. J - 1
        BY <1>1, <3>1, <4>1
      <4>3. x \in Pairs(measured)
        BY <1>2, <3>1, <4>2 DEF Pairs
      <4> QED BY <1>5, <2>2, <4>3
    <3>3. \A k \in 1 .. N : Key(found[k]) # x
      BY <2>2
    <3>4. E[x] >= found[N].err
      BY <1>7, <3>1, <3>2, <3>3
    <3>5. E[x] \in Int /\ found[N].err \in Int /\ Errs(l)[N] \in Int
      BY <1>7, <1>9, <1>13, <1>14, <1>15
    <3> QED BY <1>12, <1>15, <3>4, <3>5
  <2> QED BY <2>1, <2>2
<1>17. BestOf(Keys(l), Errs(l), N, N, Pairs(ms), E)
  BY <1>13, <1>14, <1>16 DEF BestOf
<1>18. Kept(l, N, Pairs(ms), E, F)
  BY <1>12, <1>17 DEF Kept
<1> QED BY <1>4, <1>5, <1>18

(* The list after a beginning was tried holds continuations only.           *)
LEMMA KeptEntry ==
  ASSUME NEW step, StaysBelow(step), SearchIInv(step), done < Subvectors, measured # <<>>,
         NEW j \in 1 .. N
  PROVE  \E t \in 1 .. Len(measured), c \in 1 .. CbSize :
           /\ list[j] = [err |-> old[t].odist + Dist(measured[t].corr, c) + measured[t].tener,
                         nind |-> Index(measured[t].corr, c), ntarget |-> t]
           /\ list[j].err \in Int /\ list[j].err <= (done + 1) * step
<1>1. Kept(list, N, Pairs(measured), ErrOf(measured), EntryOf(measured))
  BY DEF SearchIInv, ListOK
<1>2. Keys(list)[j] = Key(list[j])
  BY DEF Keys
<1>3. PICK y \in Pairs(measured) : y = Key(list[j])
  BY <1>1, <1>2 DEF Kept, BestOf
<1>4. list[j] = EntryOf(measured)[y]
  BY <1>1, <1>3 DEF Kept
<1>5. /\ y.ntarget \in 1 .. Len(measured) /\ y.c \in 1 .. CbSize
  BY DEF Pairs
<1>6. measured \in Seq(Measurements) /\ Len(measured) <= N /\ SearchSizesOK
  BY DEF SearchIInv, SearchSizesOK, Tries
<1>7. /\ ErrOf(measured)[y] =
           old[y.ntarget].odist + Dist(measured[y.ntarget].corr, y.c) + measured[y.ntarget].tener
      /\ ErrOf(measured)[y] \in Int /\ ErrOf(measured)[y] <= (done + 1) * step
  BY <1>6, ErrBelow DEF SearchIInv
<1>8. list[j] = [err |-> ErrOf(measured)[y], nind |-> Index(measured[y.ntarget].corr, y.c),
                 ntarget |-> y.ntarget]
  BY <1>4 DEF EntryOf
<1>9. list[j].err = ErrOf(measured)[y]
  BY <1>8
<1> QED BY <1>5, <1>7, <1>8, <1>9

(* TryBeginning keeps the invariant.                                       *)
LEMMA TryStep ==
  ASSUME NEW step, StaysBelow(step), SearchIInv(step), NEW corr \in [1 .. CbSize -> Corrs],
         NEW tener \in TargetEnergies, TryBeginning(corr, tener)
  PROVE  SearchIInv(step)'
<1>1. /\ measured' = Append(measured, [corr |-> corr, tener |-> tener])
      /\ have_sign' = have_sign /\ old' = old /\ done' = done
  BY DEF TryBeginning
<1>2. PICK ms : ms = Append(measured, [corr |-> corr, tener |-> tener])
  OBVIOUS
<1>3. Trying(step, corr, tener, ms)
  BY <1>2 DEF Trying
<1>4. /\ ms \in Seq(Measurements) /\ Len(ms) = Len(measured) + 1 /\ Len(ms) <= Tries
      /\ done < Subvectors /\ N \in Nat \ {0} /\ Len(measured) \in Nat
  BY <1>3, TryStarts
<1>5. Kept(list', N, Pairs(ms), ErrOf(ms), EntryOf(ms))
  BY <1>3, TryKeeps
<1>6. measured' = ms /\ N' = N
  BY <1>1, <1>2 DEF N
<1>7. SearchSizesOK'
  <2>1. SearchSizesOK
    BY DEF SearchIInv
  <2>2. done # Subvectors /\ done \in Nat /\ Subvectors \in Nat
    BY <1>4, <2>1, SearchSizes DEF SearchSizesOK
  <2> QED BY <1>1, <1>4, <1>6, <2>1, <2>2 DEF SearchSizesOK, Tries
<1>8. (\A j \in 1 .. N : BeginningOK(old[j], done, step))'
  BY <1>1, <1>6 DEF SearchIInv, BeginningOK
<1>9. ErrOf(measured)' = ErrOf(ms) /\ Pairs(measured)' = Pairs(ms) /\ EntryOf(measured)' = EntryOf(ms)
  <2>1. ErrOf(measured)' = ErrOf(ms) /\ Pairs(measured)' = Pairs(ms)
    BY <1>1, <1>6 DEF ErrOf, Pairs, Dist
  <2> QED BY <1>1, <1>6, <2>1 DEF EntryOf, Index
<1>10. Kept(list, N, Pairs(measured), ErrOf(measured), EntryOf(measured))'
  BY <1>5, <1>6, <1>9 DEF Kept, Keys, Errs
<1>11. measured' # <<>>
  BY <1>4, <1>6
<1>12. ListOK'
  BY <1>10, <1>11 DEF ListOK
<1> QED BY <1>7, <1>8, <1>12 DEF SearchIInv

(* NextSubvector keeps the invariant: every continuation becomes a         *)
(* beginning one subvector longer, coded by its own indices.               *)
LEMMA NextStep ==
  ASSUME NEW step, StaysBelow(step), SearchIInv(step), NextSubvector
  PROVE  SearchIInv(step)'
<1>1. /\ done < Subvectors /\ Len(measured) = Tries
      /\ list' = Erased(N) /\ measured' = <<>> /\ done' = done + 1 /\ have_sign' = have_sign
  BY DEF NextSubvector, Tries
<1>2. SearchSizesOK
  BY DEF SearchIInv
<1>3. done \in Nat /\ Subvectors \in Nat /\ N \in Nat \ {0} /\ Len(measured) <= N /\ Len(measured) # 0
  BY <1>1, <1>2, SearchSizes DEF SearchSizesOK, Tries
<1>4. measured # <<>>
  BY <1>3
<1>5. N' = N
  BY <1>3 DEF NextSubvector, N
<1>6. SearchSizesOK'
  BY <1>1, <1>2, <1>3, <1>5 DEF SearchSizesOK, Tries
<1>7. ASSUME NEW j \in 1 .. N PROVE BeginningOK(old'[j], done + 1, step)
  <2>1. PICK t \in 1 .. Len(measured), c \in 1 .. CbSize :
           /\ list[j] = [err |-> old[t].odist + Dist(measured[t].corr, c) + measured[t].tener,
                         nind |-> Index(measured[t].corr, c), ntarget |-> t]
           /\ list[j].err \in Int /\ list[j].err <= (done + 1) * step
    BY <1>1, <1>4, KeptEntry
  <2>2. PICK index, w : index = Index(measured[t].corr, c) /\ w = Codeword(index)
    OBVIOUS
  <2>3. /\ list[j].err = old[t].odist + Dist(measured[t].corr, c) + measured[t].tener
        /\ list[j].nind = index /\ list[j].ntarget = t
    BY <2>1, <2>2
  <2>4. index \in Nat /\ w.c = c /\ (w.neg <=> (have_sign /\ measured[t].corr[c] <= 0))
    <3>1. w.c = c /\ (w.neg <=> (have_sign /\ measured[t].corr[c] <= 0))
      BY <2>2, IndexNumbers
    <3>2. index \in Nat
      BY <2>2, SearchSizes DEF Index
    <3> QED BY <3>1, <3>2
  <2>5. t \in 1 .. N /\ BeginningOK(old[t], done, step)
    BY <1>3 DEF SearchIInv
  <2>6. PICK o : o = old'[j]
    OBVIOUS
  <2>7. o = [target |-> Append(old[t].target, w), true |-> old[t].true + Measured(t, w),
             oind |-> Append(old[t].oind, index), odist |-> list[j].err]
    BY <2>2, <2>3, <2>6 DEF NextSubvector, Extended
  <2>8. /\ old[t].oind \in Seq(Nat) /\ Len(old[t].oind) = done
        /\ old[t].target = [k \in 1 .. done |-> Codeword(old[t].oind[k])]
        /\ old[t].odist \in Int /\ old[t].odist = old[t].true
    BY <2>5 DEF BeginningOK
  <2>9. /\ o.oind \in Seq(Nat) /\ Len(o.oind) = done + 1
        /\ o.oind[done + 1] = index
        /\ \A k \in 1 .. done : o.oind[k] = old[t].oind[k]
    BY <2>4, <2>7, <2>8, AppendProperties
  <2>10. o.target = [k \in 1 .. done + 1 |-> Codeword(o.oind[k])]
    <3>1. PICK old_target, new_target : old_target = old[t].target /\ new_target = Append(old_target, w)
      OBVIOUS
    <3> DEFINE S == {old_target[k] : k \in 1 .. done} \cup {w}
    <3>2. old_target \in Seq(S) /\ Len(old_target) = done
      <4>1. old_target = [k \in 1 .. done |-> old_target[k]] /\ \A k \in 1 .. done : old_target[k] \in S
        BY <2>8, <3>1
      <4> HIDE DEF S
      <4>2. old_target \in [1 .. done -> S]
        BY <4>1
      <4> QED BY <1>3, <4>2
    <3>0. w \in S
      OBVIOUS
    <3> HIDE DEF S
    <3>3. /\ DOMAIN new_target = 1 .. done + 1 /\ new_target[done + 1] = w
          /\ \A k \in 1 .. done : new_target[k] = old_target[k]
          /\ new_target = [k \in 1 .. done + 1 |-> new_target[k]]
      BY <1>3, <3>0, <3>1, <3>2, AppendProperties
    <3>4. ASSUME NEW k \in 1 .. done + 1 PROVE new_target[k] = Codeword(o.oind[k])
      <4>1. CASE k = done + 1
        BY <2>2, <2>9, <3>3, <4>1
      <4>2. CASE k \in 1 .. done
        BY <2>8, <2>9, <3>1, <3>3, <4>2
      <4> QED BY <1>3, <4>1, <4>2
    <3> QED BY <2>7, <3>1, <3>3, <3>4
  <2>11. o.true = o.odist
    <3>1. /\ o.true = old[t].true + Measured(t, w)
          /\ o.odist = old[t].odist + Dist(measured[t].corr, c) + measured[t].tener
      BY <2>3, <2>7
    <3>2. measured[t] \in Measurements
      BY <1>2 DEF SearchSizesOK
    <3>3. PICK v, e, a : v = measured[t].corr[c] /\ e = measured[t].tener /\ a = CodeEnergy[c]
      OBVIOUS
    <3>4. v \in Int /\ e \in Int /\ a \in Int
      <4>1. measured[t].corr \in [1 .. CbSize -> Corrs] /\ measured[t].tener \in TargetEnergies
        BY <3>2 DEF Measurements
      <4>2. measured[t].corr[c] \in Corrs /\ CodeEnergy[c] \in Nat
        BY <4>1, SearchSizes
      <4>3. v \in Corrs /\ e \in TargetEnergies /\ a \in Nat
        BY <3>3, <4>1, <4>2
      <4>4. Corrs \subseteq Int /\ TargetEnergies \subseteq Nat
        BY SearchSizes
      <4> QED BY ONLY <4>3, <4>4
    <3>5. Measured(t, w) = a - (IF have_sign /\ v <= 0 THEN -v ELSE v) + e
      BY <2>4, <3>3 DEF Measured
    <3>6. Dist(measured[t].corr, c) = a - (IF have_sign /\ v < 0 THEN -v ELSE v)
      BY <3>3 DEF Dist
    <3>7. PICK od, d : od = old[t].odist /\ d = Dist(measured[t].corr, c)
      OBVIOUS
    <3>8. od \in Int /\ d \in Int /\ Measured(t, w) = d + e
      BY <2>8, <3>4, <3>5, <3>6, <3>7
    <3>9. od + (d + e) = od + d + e
      BY <3>4, <3>8
    <3> QED BY <2>8, <3>1, <3>3, <3>7, <3>8, <3>9
  <2>12. o.odist \in Int /\ o.odist <= (done + 1) * step
    BY <2>1, <2>7
  <2> QED BY <2>6, <2>9, <2>10, <2>11, <2>12 DEF BeginningOK
<1>8. (\A j \in 1 .. N : BeginningOK(old[j], done, step))'
  BY <1>1, <1>5, <1>7 DEF BeginningOK
<1>9. ListOK'
  BY <1>1, <1>5 DEF ListOK, Erased
<1> QED BY <1>6, <1>8, <1>9 DEF SearchIInv

(* A new frame, with the number of candidates of its complexity, starts    *)
(* with the invariant.                                                     *)
LEMMA SaveStep ==
  ASSUME NEW step, StaysBelow(step), SearchIInv(step), SaveIndices
  PROVE  SearchIInv(step)'
<1>1. /\ done = Subvectors /\ old' = FirstTargets(N) /\ done' = 0
      /\ have_sign' = have_sign /\ list' = list /\ measured' = measured
  BY DEF SaveIndices
<1>2. SearchSizesOK /\ measured = <<>> /\ list = Erased(N) /\ N \in Nat \ {0} /\ Subvectors \in Nat
  BY <1>1, SearchSizes DEF SearchIInv, SearchSizesOK, ListOK
<1>3. step \in Nat
  BY DEF StaysBelow
<1>4. N' = N /\ \A j \in 1 .. N : BeginningOK(old'[j], 0, step)
  BY <1>1, <1>2, <1>3, FirstTargetsOK DEF N
<1>5. SearchSizesOK'
  BY <1>1, <1>2, <1>4 DEF SearchSizesOK, Tries
<1>6. (\A j \in 1 .. N : BeginningOK(old[j], done, step))'
  BY <1>1, <1>4 DEF BeginningOK
<1>7. ListOK'
  BY <1>1, <1>2, <1>4 DEF ListOK, Erased
<1> QED BY <1>5, <1>6, <1>7 DEF SearchIInv

(* Every step keeps the invariant.                                         *)
LEMMA SearchStep ==
  ASSUME NEW step, StaysBelow(step), SearchIInv(step), [SearchNext]_kvars
  PROVE  SearchIInv(step)'
<1>1. CASE UNCHANGED kvars
  <2>1. /\ have_sign' = have_sign /\ old' = old /\ list' = list
        /\ measured' = measured /\ done' = done
    BY <1>1 DEF kvars
  <2>2. N' = N /\ ErrOf(measured)' = ErrOf(measured) /\ Pairs(measured)' = Pairs(measured)
    BY <2>1 DEF N, ErrOf, Pairs, Dist
  <2>3. EntryOf(measured)' = EntryOf(measured)
    BY <2>1, <2>2 DEF EntryOf, Index
  <2>4. SearchSizesOK' /\ (\A j \in 1 .. N : BeginningOK(old[j], done, step))'
    BY <2>1, <2>2 DEF SearchIInv, SearchSizesOK, Tries, BeginningOK
  <2>5. ListOK'
    BY <2>1, <2>2, <2>3 DEF SearchIInv, ListOK, Kept, Keys, Errs, Erased
  <2> QED BY <2>4, <2>5 DEF SearchIInv
<1>2. CASE \E corr \in [1 .. CbSize -> Corrs], tener \in TargetEnergies : TryBeginning(corr, tener)
  BY <1>2, TryStep
<1>3. CASE NextSubvector
  BY <1>3, NextStep
<1>4. CASE SaveIndices
  BY <1>4, SaveStep
<1> QED BY <1>1, <1>2, <1>3, <1>4 DEF SearchNext

(* What the invariant says of the two properties.                           *)
LEMMA IndicesFollow == ASSUME NEW step, SearchIInv(step) PROVE IndicesFollowTarget
BY DEF SearchIInv, BeginningOK, IndicesFollowTarget

(* A full list that keeps the best is what ContinuationsAreBest asks for.  *)
LEMMA BestFollow ==
  ASSUME NEW step, StaysBelow(step), SearchIInv(step)
  PROVE  ContinuationsAreBest
<1> SUFFICES ASSUME Len(measured) = Tries PROVE ContinuationsAreBest
  BY DEF ContinuationsAreBest, Tries
<1> DEFINE all == {[ntarget |-> j, c |-> c] : j \in DOMAIN measured, c \in 1 .. CbSize}
           kept == {[ntarget |-> list[k].ntarget, c |-> Codeword(list[k].nind).c] : k \in 1 .. N}
           E == ErrOf(measured)
           Err(x) == old[x.ntarget].odist + Dist(measured[x.ntarget].corr, x.c)
                       + measured[x.ntarget].tener
<1>1. SearchSizesOK /\ ListOK
  BY DEF SearchIInv
<1>2. /\ N \in Nat \ {0} /\ measured \in Seq(Measurements) /\ Len(measured) # 0
  BY <1>1 DEF SearchSizesOK, Tries
<1>3. Kept(list, N, Pairs(measured), E, EntryOf(measured))
  BY <1>1, <1>2 DEF ListOK
<1>4. /\ \A k \in 1 .. N : Keys(list)[k] \in Pairs(measured) /\ Errs(list)[k] = E[Keys(list)[k]]
      /\ \A j, k \in 1 .. N : j < k => Keys(list)[j] # Keys(list)[k] /\ Errs(list)[j] <= Errs(list)[k]
      /\ \A x \in Pairs(measured) : (\E k \in 1 .. N : Keys(list)[k] = x) \/ E[x] >= Errs(list)[N]
  BY <1>3 DEF Kept, BestOf
<1>5. \A k \in 1 .. N : Keys(list)[k] = Key(list[k]) /\ Errs(list)[k] = list[k].err
  BY DEF Keys, Errs
<1>6. all = Pairs(measured)
  <2>1. DOMAIN measured = 1 .. Len(measured)
    BY <1>2
  <2>2. ASSUME NEW x \in all PROVE x \in Pairs(measured)
    BY <2>1 DEF Pairs
  <2>3. ASSUME NEW x \in Pairs(measured) PROVE x \in all
    <3>1. x = [ntarget |-> x.ntarget, c |-> x.c] /\ x.ntarget \in DOMAIN measured /\ x.c \in 1 .. CbSize
      BY <2>1 DEF Pairs
    <3> QED BY <3>1
  <2> HIDE DEF all
  <2> QED BY <2>2, <2>3
<1>7. kept = {Keys(list)[k] : k \in 1 .. N}
  BY <1>5 DEF Key
<1>8. Cardinality(kept) = N
  <2>1. PICK keys, n : keys = Keys(list) /\ n = N
    OBVIOUS
  <2>2. n \in Nat /\ \A j, k \in 1 .. n : j < k => keys[j] # keys[k]
    BY <1>2, <1>4, <2>1
  <2>3. Cardinality({keys[k] : k \in 1 .. n}) = n
    BY ONLY <2>2, AllDifferent
  <2>4. kept = {keys[k] : k \in 1 .. n}
    BY <1>7, <2>1
  <2> HIDE DEF kept
  <2> QED BY <2>1, <2>3, <2>4
<1>9. kept \subseteq all
  <2> HIDE DEF kept, all
  <2> QED BY <1>4, <1>6, <1>7
<1>10. ASSUME NEW k \in 1 .. N - 1 PROVE list[k].err <= list[k + 1].err
  <2>1. k \in 1 .. N /\ k + 1 \in 1 .. N /\ k < k + 1
    BY <1>2
  <2> QED BY <1>4, <1>5, <2>1
<1>11. ASSUME NEW x \in all \ kept PROVE Err(x) >= list[N].err
  <2>1. x \in Pairs(measured) /\ \A k \in 1 .. N : Keys(list)[k] # x
    <3> HIDE DEF kept, all
    <3> QED BY <1>6, <1>7
  <2>2. E[x] >= Errs(list)[N]
    BY <1>4, <2>1
  <2>3. E[x] = Err(x)
    BY <2>1 DEF ErrOf
  <2>4. N \in 1 .. N
    BY <1>2
  <2> QED BY <1>5, <2>2, <2>3, <2>4
<1> QED BY <1>8, <1>9, <1>10, <1>11 DEF ContinuationsAreBest

(* CodebookSearch!IndicesFollowTarget: for every codebook, number of        *)
(* subvectors and complexity, the indices kept with a target are those of   *)
(* the codewords taken out of it and its distance what was measured on that *)
(* path, as long as no path is as long as the distance that marks an erased *)
(* entry (split_cb_search_shape_sign in cb_search.c).                       *)
THEOREM IndicesAlwaysFollow ==
  ASSUME NEW step, StaysBelow(step)
  PROVE  SearchSpec => []IndicesFollowTarget
<1>1. SearchInit => SearchIInv(step)
  BY InitSearch DEF StaysBelow
<1>2. SearchIInv(step) /\ [SearchNext]_kvars => SearchIInv(step)'
  BY SearchStep
<1>3. SearchIInv(step) => IndicesFollowTarget
  BY IndicesFollow
<1> QED BY <1>1, <1>2, <1>3, PTL DEF SearchSpec

(* CodebookSearch!ContinuationsAreBest: under the same condition neither    *)
(* list loses a continuation that is better than one it keeps (vq_nbest and *)
(* vq_nbest_sign in vq.c, split_cb_search_shape_sign in cb_search.c).       *)
THEOREM ContinuationsAlwaysBest ==
  ASSUME NEW step, StaysBelow(step)
  PROVE  SearchSpec => []ContinuationsAreBest
<1>1. SearchInit => SearchIInv(step)
  BY InitSearch DEF StaysBelow
<1>2. SearchIInv(step) /\ [SearchNext]_kvars => SearchIInv(step)'
  BY SearchStep
<1>3. SearchIInv(step) => ContinuationsAreBest
  BY BestFollow
<1> QED BY <1>1, <1>2, <1>3, PTL DEF SearchSpec
=============================================================================
