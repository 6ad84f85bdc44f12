--------------------------- MODULE SequenceLemmas ---------------------------
(***************************************************************************)
(* What the operators of the community modules return, for sequences of    *)
(* any length and for finite sets of naturals of any size, and those of    *)
(* RequestQueue, whatever waits: facts about the containers of the         *)
(* program, cited by the proofs about it.                                  *)
(***************************************************************************)
EXTENDS RequestQueue, SequenceTheorems, FiniteSetTheorems, TLAPS

-----------------------------------------------------------------------------
(* Among finitely many naturals, or naturals below a bound, one is greatest. *)

LEMMA GreatestOfNaturals ==
    ASSUME NEW M \in SUBSET Nat, IsFiniteSet(M), M # {}
    PROVE  \E x \in M : \A y \in M : x >= y
<1> DEFINE Above(x) == {y \in M : y > x}
           Sets == {Above(x) : x \in M}
<1>1. Sets \subseteq FiniteSubsetsOf(Nat)
  <2>1. ASSUME NEW x \in M
        PROVE  Above(x) \in SUBSET Nat /\ IsFiniteSet(Above(x))
    <3>1. Above(x) \in SUBSET M  OBVIOUS
    <3>2. IsFiniteSet(Above(x))  BY <3>1, FS_Subset
    <3>3. QED  BY <3>1, <3>2
  <2>2. QED  BY <2>1 DEF FiniteSubsetsOf
<1>2. Sets # {}  OBVIOUS
<1>3. PICK U \in Sets : \A V \in Sets : <<V, U>> \notin StrictSubsetOrdering(Nat)
  <2> HIDE DEF Sets
  <2>1. IsWellFoundedOn(StrictSubsetOrdering(Nat), FiniteSubsetsOf(Nat))
    BY FS_StrictSubsetOrderingWellFounded
  <2>2. QED  BY <1>1, <1>2, <2>1, WFMin
<1>4. PICK x \in M : U = Above(x)  BY <1>3
<1>5. ASSUME NEW y \in M, y > x
      PROVE  FALSE
  <2>1. Above(y) \in SUBSET Nat /\ Above(x) \in SUBSET Nat  OBVIOUS
  <2>2. \A z \in M : z > y => z > x  BY <1>5
  <2>3. Above(y) \subseteq Above(x)  BY <2>2
  <2>4. y \in Above(x) /\ y \notin Above(y)  BY <1>5
  <2>5. Above(y) # Above(x)  BY <2>4
  <2>6. Above(y) \in Sets /\ <<Above(y), U>> \in StrictSubsetOrdering(Nat)
    BY <1>4, <2>1, <2>3, <2>5 DEF StrictSubsetOrdering
  <2>7. QED  BY <1>3, <2>6
<1>6. \A y \in M : x >= y  BY <1>5
<1>7. QED  BY <1>6

LEMMA LeastOfNaturals ==
    ASSUME NEW M \in SUBSET Nat, M # {}
    PROVE  \E x \in M : \A y \in M : x <= y
<1>1. PICK m \in M : TRUE  OBVIOUS
<1> DEFINE Below == {d \in 0..m : m - d \in M}
<1>2. IsFiniteSet(Below) /\ Below \in SUBSET Nat /\ 0 \in Below
  <2>1. IsFiniteSet(0..m) /\ Below \in SUBSET (0..m)  BY FS_Interval
  <2>2. QED  BY <2>1, FS_Subset
<1>3. PICK d \in Below : \A e \in Below : d >= e  BY <1>2, GreatestOfNaturals
<1>4. ASSUME NEW y \in M
      PROVE  m - d <= y
  <2>1. CASE y > m  BY <2>1
  <2>2. CASE y <= m
    <3>1. m - y \in 0..m /\ m - (m - y) = y  BY <2>2
    <3>2. m - y \in Below  BY <3>1
    <3>3. QED  BY <1>3, <3>2
  <2>3. QED  BY <2>1, <2>2
<1>5. QED  BY <1>4

LEMMA MaxOfFinite ==
    ASSUME NEW M \in SUBSET Nat, IsFiniteSet(M), M # {}
    PROVE  Max(M) \in M /\ \A y \in M : Max(M) >= y
BY GreatestOfNaturals DEF Max

LEMMA MaxOfNaturals ==
    ASSUME NEW n \in Nat, NEW M \in SUBSET (0..n), M # {}
    PROVE  Max(M) \in M /\ \A y \in M : Max(M) >= y
<1>1. IsFiniteSet(0..n)  BY FS_Interval
<1>2. IsFiniteSet(M)  BY <1>1, FS_Subset
<1>3. M \in SUBSET Nat  OBVIOUS
<1>4. QED  BY <1>2, <1>3, MaxOfFinite

-----------------------------------------------------------------------------
(* The elements of a sequence without repetition, after each operation. *)

LEMMA AppendElements ==
    ASSUME NEW S, NEW s \in Seq(S), NEW x \in S
    PROVE  /\ ToSet(Append(s, x)) = ToSet(s) \cup {x}
           /\ IsInjective(s) /\ x \notin ToSet(s) => IsInjective(Append(s, x))
<1> DEFINE t == Append(s, x)
<1>1. Len(s) \in Nat /\ DOMAIN s = 1..Len(s)  BY LenProperties
<1>2. t \in Seq(S) /\ Len(t) = Len(s) + 1 /\ t[Len(s) + 1] = x
      /\ \A i \in 1..Len(s) : t[i] = s[i]
  BY AppendProperties
<1>3. DOMAIN t = 1 .. Len(s) + 1  BY <1>2, LenProperties
<1> HIDE DEF t
<1>4. ToSet(t) = ToSet(s) \cup {x}  BY <1>1, <1>2, <1>3 DEF ToSet
<1>5. ASSUME IsInjective(s), x \notin ToSet(s), NEW i \in DOMAIN t, NEW j \in DOMAIN t,
             t[i] = t[j]
      PROVE  i = j
  BY <1>1, <1>2, <1>3, <1>5 DEF ToSet, IsInjective
<1>6. IsInjective(s) /\ x \notin ToSet(s) => IsInjective(t)  BY <1>5 DEF IsInjective
<1>7. QED  BY <1>4, <1>6 DEF t

LEMMA TailElements ==
    ASSUME NEW S, NEW s \in Seq(S), s # <<>>
    PROVE  /\ Head(s) \in ToSet(s) /\ Head(s) \in S
           /\ Tail(s) \in Seq(S)
           /\ IsInjective(s) => /\ ToSet(Tail(s)) = ToSet(s) \ {Head(s)}
                                /\ IsInjective(Tail(s))
<1> DEFINE t == Tail(s)
<1>1. Len(s) \in Nat /\ DOMAIN s = 1..Len(s)  BY LenProperties
<1>2. Len(s) # 0  BY EmptySeq
<1>3. t \in Seq(S) /\ Len(t) = Len(s) - 1 /\ Head(s) \in S
      /\ \A i \in 1..Len(t) : t[i] = s[i + 1]
  BY HeadTailProperties
<1>4. DOMAIN t = 1..Len(s) - 1  BY <1>3, LenProperties
<1>5. Head(s) = s[1]  OBVIOUS
<1> HIDE DEF t
<1>6. Head(s) \in ToSet(s)  BY <1>1, <1>2, <1>5 DEF ToSet
<1>7. ASSUME IsInjective(s)
      PROVE  ToSet(t) = ToSet(s) \ {Head(s)}
  <2>1. ASSUME NEW i \in DOMAIN t
        PROVE  t[i] \in ToSet(s) /\ t[i] # Head(s)
    <3>1. i + 1 \in DOMAIN s /\ 1 \in DOMAIN s /\ i + 1 # 1 /\ t[i] = s[i + 1]
      BY <1>1, <1>3, <1>4
    <3>2. s[i + 1] # s[1]  BY <1>7, <3>1 DEF IsInjective
    <3>3. QED  BY <1>5, <3>1, <3>2 DEF ToSet
  <2>2. ASSUME NEW i \in DOMAIN s, s[i] # Head(s)
        PROVE  s[i] \in ToSet(t)
    <3>1. i - 1 \in DOMAIN t /\ s[i] = t[i - 1]  BY <1>1, <1>3, <1>4, <1>5, <2>2
    <3>2. QED  BY <3>1 DEF ToSet
  <2>3. QED  BY <2>1, <2>2 DEF ToSet
<1>8. ASSUME IsInjective(s), NEW i \in DOMAIN t, NEW j \in DOMAIN t, t[i] = t[j]
      PROVE  i = j
  <2>1. i + 1 \in DOMAIN s /\ j + 1 \in DOMAIN s /\ s[i + 1] = s[j + 1]
        /\ i \in Int /\ j \in Int
    BY <1>1, <1>3, <1>4, <1>8
  <2>2. i + 1 = j + 1  BY <1>8, <2>1 DEF IsInjective
  <2>3. QED  BY <2>1, <2>2
<1>9. IsInjective(s) => IsInjective(t)  BY <1>8 DEF IsInjective
<1>10. QED  BY <1>3, <1>6, <1>7, <1>9 DEF t

LEMMA RemoveAtProperties ==
    ASSUME NEW S, NEW s \in Seq(S), NEW k \in DOMAIN s
    PROVE  /\ RemoveAt(s, k) \in Seq(S)
           /\ Len(RemoveAt(s, k)) = Len(s) - 1
           /\ \A i \in 1..Len(s) - 1 :
                 RemoveAt(s, k)[i] = IF i < k THEN s[i] ELSE s[i + 1]
<1> DEFINE a == SubSeq(s, 1, k - 1)
           b == SubSeq(s, k + 1, Len(s))
<1>1. Len(s) \in Nat /\ k \in 1..Len(s) /\ \A i \in 1..Len(s) : s[i] \in S
  BY LenProperties, ElementOfSeq
<1>2. a \in Seq(S) /\ Len(a) = k - 1 /\ \A i \in 1..k - 1 : a[i] = s[i]
  <2>1. 1 \in Int /\ k - 1 \in Int /\ \A i \in 1..k - 1 : s[i] \in S  BY <1>1
  <2>2. /\ a \in Seq(S) /\ Len(a) = IF 1 <= k - 1 THEN k - 1 - 1 + 1 ELSE 0
        /\ \A i \in 1..k - 1 - 1 + 1 : a[i] = s[1 + i - 1]
    BY <2>1, SubSeqProperties
  <2>3. QED  BY <1>1, <2>2
<1>3. b \in Seq(S) /\ Len(b) = Len(s) - k /\ \A i \in 1..Len(s) - k : b[i] = s[k + i]
  <2>1. k + 1 \in Int /\ Len(s) \in Int /\ \A i \in k + 1..Len(s) : s[i] \in S  BY <1>1
  <2>2. /\ b \in Seq(S)
        /\ Len(b) = IF k + 1 <= Len(s) THEN Len(s) - (k + 1) + 1 ELSE 0
        /\ \A i \in 1..Len(s) - (k + 1) + 1 : b[i] = s[k + 1 + i - 1]
    BY <2>1, SubSeqProperties
  <2>3. QED  BY <1>1, <2>2
<1> HIDE DEF a, b
<1>4. /\ a \o b \in Seq(S) /\ Len(a \o b) = Len(a) + Len(b)
      /\ \A i \in 1..Len(a) + Len(b) :
            (a \o b)[i] = IF i <= Len(a) THEN a[i] ELSE b[i - Len(a)]
  BY <1>2, <1>3, ConcatProperties
<1>5. RemoveAt(s, k) = a \o b  BY Zenon DEF RemoveAt, a, b
<1>6. Len(a) + Len(b) = Len(s) - 1  BY <1>1, <1>2, <1>3
<1>7. ASSUME NEW i \in 1..Len(s) - 1
      PROVE  (a \o b)[i] = IF i < k THEN s[i] ELSE s[i + 1]
  <2>1. CASE i < k
    <3>1. i <= Len(a) /\ i \in 1..k - 1  BY <1>1, <1>2, <2>1
    <3>2. (a \o b)[i] = a[i]  BY <1>4, <1>6, <3>1
    <3>3. QED  BY <1>2, <2>1, <3>1, <3>2
  <2>2. CASE ~(i < k)
    <3>1. ~(i <= Len(a)) /\ i - Len(a) \in 1..Len(s) - k /\ k + (i - Len(a)) = i + 1
      BY <1>1, <1>2, <2>2
    <3>2. (a \o b)[i] = b[i - Len(a)]  BY <1>4, <1>6, <3>1
    <3>3. b[i - Len(a)] = s[k + (i - Len(a))]  BY <1>3, <3>1
    <3>4. QED  BY <2>2, <3>1, <3>2, <3>3
  <2>3. QED  BY <2>1, <2>2
<1>8. QED  BY <1>4, <1>5, <1>6, <1>7

LEMMA RemoveAtElements ==
    ASSUME NEW S, NEW s \in Seq(S), NEW k \in DOMAIN s, IsInjective(s)
    PROVE  /\ ToSet(RemoveAt(s, k)) = ToSet(s) \ {s[k]}
           /\ IsInjective(RemoveAt(s, k))
<1> DEFINE t == RemoveAt(s, k)
<1>1. Len(s) \in Nat /\ DOMAIN s = 1..Len(s) /\ k \in 1..Len(s)  BY LenProperties
<1>2. /\ t \in Seq(S) /\ Len(t) = Len(s) - 1
      /\ \A i \in 1..Len(s) - 1 : t[i] = IF i < k THEN s[i] ELSE s[i + 1]
  BY RemoveAtProperties
<1>3. DOMAIN t = 1..Len(s) - 1  BY <1>2, LenProperties
<1> HIDE DEF t
<1>4. ASSUME NEW i \in DOMAIN t
      PROVE  t[i] \in ToSet(s) /\ t[i] # s[k]
  <2>1. PICK j \in DOMAIN s : j # k /\ t[i] = s[j]
    <3>1. CASE i < k  BY <1>1, <1>2, <1>3, <3>1
    <3>2. CASE ~(i < k)
      <4>1. i + 1 \in DOMAIN s /\ i + 1 # k /\ t[i] = s[i + 1]
        BY <1>1, <1>2, <1>3, <3>2
      <4>2. QED  BY <4>1
    <3>3. QED  BY <3>1, <3>2
  <2>2. s[j] # s[k]  BY <2>1 DEF IsInjective
  <2>3. QED  BY <2>1, <2>2 DEF ToSet
<1>5. ASSUME NEW j \in DOMAIN s, s[j] # s[k]
      PROVE  s[j] \in ToSet(t)
  <2>1. CASE j < k
    <3>1. j \in DOMAIN t /\ t[j] = s[j]  BY <1>1, <1>2, <1>3, <2>1
    <3>2. QED  BY <3>1 DEF ToSet
  <2>2. CASE j > k
    <3>1. j - 1 \in DOMAIN t /\ t[j - 1] = s[j]  BY <1>1, <1>2, <1>3, <2>2
    <3>2. QED  BY <3>1 DEF ToSet
  <2>3. j # k  BY <1>5
  <2>4. QED  BY <1>1, <2>1, <2>2, <2>3
<1>6. ToSet(t) = ToSet(s) \ {s[k]}  BY <1>4, <1>5 DEF ToSet
<1>7. ASSUME NEW i \in DOMAIN t, NEW j \in DOMAIN t, t[i] = t[j]
      PROVE  i = j
  <2>1. \A x, y \in DOMAIN s : s[x] = s[y] => x = y  BY DEF IsInjective
  <2>2. DEFINE at(x) == IF x < k THEN x ELSE x + 1
  <2>3. at(i) \in DOMAIN s /\ at(j) \in DOMAIN s  BY <1>1, <1>3
  <2>4. t[i] = s[at(i)] /\ t[j] = s[at(j)]  BY <1>2, <1>3
  <2>5. at(i) = at(j)  BY <1>7, <2>1, <2>3, <2>4
  <2>6. i \in Int /\ j \in Int /\ k \in Int  BY <1>1, <1>3
  <2>7. QED  BY <2>5, <2>6
<1>8. IsInjective(t)  BY <1>7 DEF IsInjective
<1>9. QED  BY <1>6, <1>8 DEF t

\* A sequence without repetitions is as long as its set of elements is large.
LEMMA InjectiveLength ==
    ASSUME NEW S, NEW s \in Seq(S), IsInjective(s)
    PROVE  IsFiniteSet(ToSet(s)) /\ Cardinality(ToSet(s)) = Len(s)
<1>1. Len(s) \in Nat /\ DOMAIN s = 1..Len(s)  BY LenProperties
<1>2. s \in Bijection(1..Len(s), ToSet(s))
  <2>1. s \in [1..Len(s) -> ToSet(s)]  BY <1>1, LenProperties DEF ToSet
  <2>2. \A a, b \in 1..Len(s) : s[a] = s[b] => a = b  BY <1>1 DEF IsInjective
  <2>3. \A t \in ToSet(s) : \E a \in 1..Len(s) : s[a] = t  BY <1>1 DEF ToSet
  <2>4. QED  BY <2>1, <2>2, <2>3 DEF Bijection, Injection, Surjection, IsInjective
<1>3. ExistsBijection(1..Len(s), ToSet(s))  BY <1>2 DEF ExistsBijection
<1>4. Cardinality(ToSet(s)) = Len(s)  BY <1>1, <1>3, FS_CountingElements
<1>5. IsFiniteSet(ToSet(s))  BY <1>1, <1>3, FS_NatBijection
<1>6. QED  BY <1>4, <1>5

-----------------------------------------------------------------------------
(* Suffixes.                                                                 *)

LEMMA ReverseIs ==
    ASSUME NEW S, NEW s \in Seq(S)
    PROVE  /\ Reverse(s) \in Seq(S) /\ Len(Reverse(s)) = Len(s)
           /\ \A i \in 1..Len(s) : Reverse(s)[i] = s[Len(s) - i + 1]
<1>1. Len(s) \in Nat /\ s \in [1..Len(s) -> S]  BY LenProperties
<1>2. Reverse(s) \in [1..Len(s) -> S]  BY <1>1 DEF Reverse
<1>3. Reverse(s) \in Seq(S) /\ Len(Reverse(s)) = Len(s)  BY <1>1, <1>2, LenProperties
<1>4. QED  BY <1>1, <1>3 DEF Reverse

LEMMA SuffixIs ==
    ASSUME NEW S, NEW s \in Seq(S), NEW t \in Seq(S)
    PROVE  IsSuffix(s, t) <=>
              /\ Len(s) <= Len(t)
              /\ \A i \in 1..Len(s) : s[i] = t[Len(t) - Len(s) + i]
<1> DEFINE n == Len(s)
           m == Len(t)
           a == Reverse(s)
           b == Reverse(t)
<1>1. n \in Nat /\ m \in Nat  BY LenProperties
<1>2. /\ a \in Seq(S) /\ Len(a) = n /\ \A i \in 1..n : a[i] = s[n - i + 1]
      /\ b \in Seq(S) /\ Len(b) = m /\ \A i \in 1..m : b[i] = t[m - i + 1]
  BY ReverseIs
<1>3. IsSuffix(s, t) <=> n <= m /\ SubSeq(a, 1, n) = SubSeq(b, 1, n)
  BY <1>2 DEF IsSuffix, IsPrefix
<1> HIDE DEF a, b, n, m
<1>4. ASSUME n <= m
      PROVE  SubSeq(a, 1, n) = SubSeq(b, 1, n) <=> \A i \in 1..n : a[i] = b[i]
  <2>1. SubSeq(a, 1, n) = [i \in 1..n |-> a[i]]
    BY <1>1, <1>2
  <2>2. SubSeq(b, 1, n) = [i \in 1..n |-> b[i]]
    BY <1>1, <1>2
  <2>3. QED  BY <2>1, <2>2
<1>5. ASSUME n <= m
      PROVE  (\A i \in 1..n : a[i] = b[i]) <=> \A i \in 1..n : s[i] = t[m - n + i]
  <2>1. ASSUME \A i \in 1..n : a[i] = b[i], NEW i \in 1..n
        PROVE  s[i] = t[m - n + i]
    <3>1. n - i + 1 \in 1..n /\ n - i + 1 \in 1..m
          /\ n - (n - i + 1) + 1 = i /\ m - (n - i + 1) + 1 = m - n + i
      BY <1>1, <1>5
    <3>2. a[n - i + 1] = s[i] /\ b[n - i + 1] = t[m - n + i]  BY <1>2, <3>1
    <3>3. QED  BY <2>1, <3>1, <3>2
  <2>2. ASSUME \A i \in 1..n : s[i] = t[m - n + i], NEW i \in 1..n
        PROVE  a[i] = b[i]
    <3>1. i \in 1..m /\ n - i + 1 \in 1..n /\ m - n + (n - i + 1) = m - i + 1
      BY <1>1, <1>5
    <3>2. s[n - i + 1] = t[m - i + 1]  BY <2>2, <3>1
    <3>3. QED  BY <1>2, <3>1, <3>2
  <2>3. QED  BY <2>1, <2>2
<1>6. QED  BY <1>3, <1>4, <1>5 DEF n, m

LEMMA SuffixAppended ==
    ASSUME NEW S, NEW s \in Seq(S), NEW t \in Seq(S), NEW x \in S, IsSuffix(s, t)
    PROVE  IsSuffix(Append(s, x), Append(t, x))
<1> DEFINE n == Len(s)
           m == Len(t)
           u == Append(s, x)
           v == Append(t, x)
<1>1. n \in Nat /\ m \in Nat  BY LenProperties
<1>2. /\ u \in Seq(S) /\ Len(u) = n + 1 /\ u[n + 1] = x /\ \A i \in 1..n : u[i] = s[i]
      /\ v \in Seq(S) /\ Len(v) = m + 1 /\ v[m + 1] = x /\ \A i \in 1..m : v[i] = t[i]
  BY AppendProperties
<1>3. n <= m /\ \A i \in 1..n : s[i] = t[m - n + i]  BY SuffixIs
<1> HIDE DEF n, m, u, v
<1>4. ASSUME NEW i \in 1..n + 1
      PROVE  u[i] = v[(m + 1) - (n + 1) + i]
  <2>1. (m + 1) - (n + 1) + i = m - n + i  BY <1>1
  <2>2. CASE i = n + 1
    <3>1. m - n + i = m + 1  BY <1>1, <2>2
    <3>2. QED  BY <1>2, <2>1, <2>2, <3>1
  <2>3. CASE i \in 1..n
    <3>1. m - n + i \in 1..m  BY <1>1, <1>3, <2>3
    <3>2. QED  BY <1>2, <1>3, <2>1, <2>3, <3>1
  <2>4. QED  BY <1>1, <2>2, <2>3
<1>5. n + 1 <= m + 1  BY <1>1, <1>3
<1>6. IsSuffix(u, v)  BY <1>2, <1>4, <1>5, SuffixIs
<1>7. QED  BY <1>6 DEF u, v

LEMMA FrontOfAppend ==
    ASSUME NEW S, NEW s \in Seq(S), NEW x \in S
    PROVE  Front(Append(s, x)) = s
<1>1. Len(s) \in Nat /\ s = [i \in 1..Len(s) |-> s[i]]  BY LenProperties
<1>2. /\ Append(s, x) \in Seq(S) /\ Len(Append(s, x)) - 1 = Len(s)
      /\ \A i \in 1..Len(s) : Append(s, x)[i] = s[i]
  BY <1>1, AppendProperties
<1>3. Front(Append(s, x)) = [i \in 1..Len(s) |-> Append(s, x)[i]]
  BY <1>1, <1>2 DEF Front
<1>4. QED  BY <1>1, <1>2, <1>3

-----------------------------------------------------------------------------
(* The deque of RequestQueue.                                                *)
\* The search for a place ends behind everyone: past the last normal request
\* there are only deprioritized ones.
LEMMA InsertionPointIsEnd ==
    ASSUME NEW S, NEW q \in Seq(S), NEW priority \in [S -> {0, 1}]
    PROVE  InsertionPoint(q, priority) = Len(q) + 1
<1> DEFINE Normal == {0} \cup {i \in DOMAIN q : priority[q[i]] = 0}
           last == LastNormal(q, priority)
           Places == {i \in last + 1 .. Len(q) + 1 :
                         i = Len(q) + 1 \/ priority[q[i]] # 1}
<1>1. Len(q) \in Nat /\ DOMAIN q = 1..Len(q)  BY LenProperties
<1>2. Normal \in SUBSET (0..Len(q)) /\ Normal # {}  BY <1>1
<1>3. last \in Normal /\ \A y \in Normal : last >= y
  BY <1>1, <1>2, MaxOfNaturals DEF LastNormal
<1>4. last \in 0..Len(q)  BY <1>2, <1>3
<1>5. ASSUME NEW i \in last + 1 .. Len(q) + 1, i # Len(q) + 1
      PROVE  priority[q[i]] = 1
  <2>1. i \in 1..Len(q)  BY <1>1, <1>4, <1>5
  <2>2. q[i] \in S  BY <2>1, ElementOfSeq
  <2>3. i \notin Normal  BY <1>1, <1>3, <1>4, <1>5, <2>1
  <2>4. priority[q[i]] # 0  BY <1>1, <2>1, <2>3
  <2>5. QED  BY <2>2, <2>4
<1>6. Places = {Len(q) + 1}  BY <1>1, <1>4, <1>5
<1>7. Min({Len(q) + 1}) = Len(q) + 1  BY <1>1 DEF Min
<1>8. QED  BY <1>6, <1>7 DEF InsertionPoint

\* push_front_priority_aware appends a deprioritized request: with the two
\* priorities the scheduler knows, its search of an earlier place finds none.
THEOREM DeprioritizedIsAppended ==
    ASSUME NEW S, NEW q \in Seq(S), NEW r \in S, NEW priority \in [S -> {0, 1}],
           priority[r] = 1
    PROVE  PushFrontPriorityAware(q, r, priority) = Append(q, r)
<1>1. Len(q) \in Nat  BY LenProperties
<1>2. PushFrontPriorityAware(q, r, priority) = InsertAt(q, Len(q) + 1, r)
  BY InsertionPointIsEnd DEF PushFrontPriorityAware
<1>3. SubSeq(q, 1, Len(q) + 1 - 1) = q
  <2>1. Len(q) + 1 - 1 = Len(q)  BY <1>1
  <2>2. QED  BY <2>1, SubSeqFull
<1>4. SubSeq(q, Len(q) + 1, Len(q)) = <<>>  BY <1>1, SubSeqEmpty
<1>5. q \o <<r>> = Append(q, r)  BY AppendIsConcat
<1>6. Append(q, r) \o <<>> = Append(q, r)  BY AppendProperties, ConcatEmptySeq
<1>7. InsertAt(q, Len(q) + 1, r)
        = SubSeq(q, 1, Len(q) + 1 - 1) \o <<r>> \o SubSeq(q, Len(q) + 1, Len(q))
  BY DEF InsertAt
<1>8. InsertAt(q, Len(q) + 1, r) = Append(q, r) \o <<>>  BY <1>3, <1>4, <1>5, <1>7, Zenon
<1>9. QED  BY <1>2, <1>6, <1>8, Zenon
================================================================================
