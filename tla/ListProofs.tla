----------------------------- MODULE ListProofs -----------------------------
(***************************************************************************)
(* What Filter returns, for every list. Filter is defined by recursion;    *)
(* the proofs are inductions on the length of a prefix of the list, each   *)
(* done by looking at the shortest prefix for which the claim fails.       *)
(***************************************************************************)
EXTENDS Lists, FiniteSetTheorems, TLAPS

\* Every set of natural numbers but the empty one has a least element: the
\* intervals 0 .. n are well founded under strict inclusion.
LEMMA LeastNumber ==
    ASSUME NEW T \in SUBSET Nat, T # {}
    PROVE  \E m \in T : \A k \in T : m <= k
<1> DEFINE below(n) == 0 .. n
           F == {below(n) : n \in T}
<1>1. IsWellFoundedOn(StrictSubsetOrdering(Nat), FiniteSubsetsOf(Nat))
  BY FS_StrictSubsetOrderingWellFounded
<1>2. F \subseteq FiniteSubsetsOf(Nat)
  <2> SUFFICES ASSUME NEW n \in T
               PROVE  0 .. n \in FiniteSubsetsOf(Nat)
    OBVIOUS
  <2>1. 0 .. n \in SUBSET Nat
    OBVIOUS
  <2>2. IsFiniteSet(0 .. n)
    BY FS_Interval
  <2> QED BY <2>1, <2>2 DEF FiniteSubsetsOf
<1>3. F # {}
  OBVIOUS
<1>4. PICK x \in F : \A y \in F : ~ (<<y, x>> \in StrictSubsetOrdering(Nat))
  <2> HIDE DEF F
  <2> QED BY <1>1, <1>2, <1>3, WFMin
<1>5. PICK m \in T : x = below(m)
  OBVIOUS
<1>6. ASSUME NEW k \in T, k < m PROVE FALSE
  <2>1. below(k) \in F
    OBVIOUS
  <2>2. below(k) \subseteq below(m) /\ m \in below(m) /\ m \notin below(k)
    BY <1>6
  <2>3. below(k) # below(m) /\ below(m) \subseteq Nat /\ below(k) \subseteq Nat
    BY <2>2
  <2>4. <<below(k), below(m)>> \in StrictSubsetOrdering(Nat)
    BY <2>2, <2>3 DEF StrictSubsetOrdering
  <2> QED BY <1>4, <1>5, <2>1, <2>4
<1> QED BY <1>5, <1>6

-----------------------------------------------------------------------------
\* k obeys the recursion of Kept as far as the first n entries.
KeptTo(k, n, list, S) ==
    k = [m \in 0 .. n |->
            IF m = 0 THEN <<>>
            ELSE IF list[m] \in S THEN Append(k[m - 1], list[m])
            ELSE k[m - 1]]

\* What obeys the recursion for a prefix is continued by one entry.
LEMMA Continued ==
    ASSUME NEW list, NEW S, NEW n \in Nat, NEW k, KeptTo(k, n, list, S)
    PROVE  \E next : KeptTo(next, n + 1, list, S)
<1> DEFINE value == IF list[n + 1] \in S THEN Append(k[n], list[n + 1])
                    ELSE k[n]
           next == [m \in 0 .. n + 1 |-> IF m <= n THEN k[m] ELSE value]
<1>1. \A m \in 0 .. n : next[m] = k[m]
  OBVIOUS
<1>2. next[n + 1] = value
  OBVIOUS
<1>3. ASSUME NEW m \in 0 .. n + 1
      PROVE  next[m] = IF m = 0 THEN <<>>
                       ELSE IF list[m] \in S THEN Append(next[m - 1], list[m])
                       ELSE next[m - 1]
  <2>1. CASE m = n + 1
    BY <1>1, <1>2, <2>1
  <2>2. CASE m \in 0 .. n
    <3>1. m # 0 => m - 1 \in 0 .. n
      BY <2>2
    <3>2. k[m] = IF m = 0 THEN <<>>
                 ELSE IF list[m] \in S THEN Append(k[m - 1], list[m])
                 ELSE k[m - 1]
      BY <2>2 DEF KeptTo
    <3> HIDE DEF next
    <3> QED BY <1>1, <2>2, <3>1, <3>2
  <2> QED BY <2>1, <2>2
<1>4. next = [m \in 0 .. n + 1 |->
                 IF m = 0 THEN <<>>
                 ELSE IF list[m] \in S THEN Append(next[m - 1], list[m])
                 ELSE next[m - 1]]
  BY <1>3
<1> QED BY <1>4 DEF KeptTo

\* The recursion has a solution for every list.
LEMMA KeptExists ==
    ASSUME NEW list, NEW S, Len(list) \in Nat
    PROVE  KeptTo(Kept(list, S), Len(list), list, S)
<1> DEFINE T == {n \in Nat : ~\E k : KeptTo(k, n, list, S)}
<1>1. T = {}
  <2> SUFFICES ASSUME T # {} PROVE FALSE
    OBVIOUS
  <2>1. PICK n \in T : \A m \in T : n <= m
    BY LeastNumber
  <2>2. n # 0
    <3> DEFINE k == [m \in 0 .. 0 |-> <<>>]
    <3>1. KeptTo(k, 0, list, S)
      BY DEF KeptTo
    <3> QED BY <3>1
  <2>3. n - 1 \in Nat /\ n - 1 \notin T
    BY <2>1, <2>2
  <2>4. PICK k : KeptTo(k, n - 1, list, S)
    BY <2>3
  <2>5. \E next : KeptTo(next, (n - 1) + 1, list, S)
    BY <2>3, <2>4, Continued
  <2> QED BY <2>3, <2>5
<1>2. \E k : KeptTo(k, Len(list), list, S)
  BY <1>1
<1> QED BY <1>2, Zenon DEF Kept, KeptTo

-----------------------------------------------------------------------------
\* What push() does to the entries of a list.
LEMMA AppendFacts ==
    ASSUME NEW U, NEW s \in Seq(U), NEW e \in U
    PROVE  /\ Append(s, e) \in Seq(U)
           /\ ToSet(Append(s, e)) = ToSet(s) \cup {e}
           /\ IsInjective(s) /\ e \notin ToSet(s) => IsInjective(Append(s, e))
<1> DEFINE t == Append(s, e)
           n == Len(s)
<1>1. n \in Nat /\ DOMAIN s = 1 .. n /\ DOMAIN t = 1 .. n + 1
  OBVIOUS
<1>2. (\A i \in 1 .. n : t[i] = s[i]) /\ t[n + 1] = e
  OBVIOUS
<1>3. t \in Seq(U)
  OBVIOUS
<1> HIDE DEF t, n
<1>4. 1 .. n + 1 = (1 .. n) \cup {n + 1}
  BY <1>1
<1>5. ToSet(t) = ToSet(s) \cup {e}
  <2>1. /\ ToSet(s) = {s[i] : i \in 1 .. n}
        /\ ToSet(t) = {t[i] : i \in 1 .. n + 1}
    BY <1>1 DEF ToSet
  <2>2. {t[i] : i \in 1 .. n + 1} = {t[i] : i \in 1 .. n} \cup {e}
    BY <1>2, <1>4
  <2>3. {t[i] : i \in 1 .. n} = {s[i] : i \in 1 .. n}
    BY <1>2
  <2> QED BY <2>1, <2>2, <2>3
<1>6. ASSUME IsInjective(s), e \notin ToSet(s) PROVE IsInjective(t)
  <2> SUFFICES ASSUME NEW a \in 1 .. n + 1, NEW b \in 1 .. n + 1, t[a] = t[b]
               PROVE  a = b
    BY <1>1 DEF IsInjective
  <2>1. CASE a \in 1 .. n /\ b \in 1 .. n
    BY <1>1, <1>2, <1>6, <2>1 DEF IsInjective
  <2>2. CASE a = n + 1 /\ b \in 1 .. n
    BY <1>1, <1>2, <1>6, <2>2 DEF ToSet
  <2>3. CASE b = n + 1 /\ a \in 1 .. n
    BY <1>1, <1>2, <1>6, <2>3 DEF ToSet
  <2> QED BY <1>4, <2>1, <2>2, <2>3
<1> QED BY <1>3, <1>5, <1>6 DEF t

\* What is kept of a prefix: its entries in S, each as often as it was there.
KeptWell(list, S, U, n) ==
    LET k == Kept(list, S)
    IN  /\ k[n] \in Seq(U)
        /\ ToSet(k[n]) = {list[i] : i \in 1 .. n} \cap S
        /\ IsInjective(list) => IsInjective(k[n])

\* It holds for every prefix: if not, look at the shortest for which it fails.
LEMMA KeptIsWell ==
    ASSUME NEW U, NEW list \in Seq(U), NEW S, NEW n \in 0 .. Len(list)
    PROVE  KeptWell(list, S, U, n)
<1> DEFINE k == Kept(list, S)
           T == {m \in 0 .. Len(list) : ~KeptWell(list, S, U, m)}
<1>1. \A m \in 0 .. Len(list) :
          k[m] = IF m = 0 THEN <<>>
                 ELSE IF list[m] \in S THEN Append(k[m - 1], list[m])
                 ELSE k[m - 1]
  <2>1. KeptTo(k, Len(list), list, S)
    BY KeptExists
  <2> HIDE DEF k
  <2> QED BY <2>1 DEF KeptTo
<1> HIDE DEF k
<1>2. SUFFICES ASSUME T # {} PROVE FALSE
  OBVIOUS
<1>3. PICK m \in T : \A i \in T : m <= i
  <2> T \in SUBSET Nat
    OBVIOUS
  <2> HIDE DEF T
  <2> QED BY <1>2, LeastNumber
<1>4. KeptWell(list, S, U, 0)
  <2>1. k[0] = <<>>
    BY <1>1
  <2> QED BY <2>1 DEF KeptWell, k, ToSet, IsInjective
<1>5. m \in 1 .. Len(list) /\ m - 1 \in 0 .. Len(list)
  BY <1>3, <1>4
<1>6. k[m] = IF list[m] \in S THEN Append(k[m - 1], list[m]) ELSE k[m - 1]
  <2>1. m \in 0 .. Len(list) /\ m # 0
    BY <1>5
  <2> QED BY <1>1, <2>1
<1>7. KeptWell(list, S, U, m - 1)
  BY <1>3, <1>5
<1> DEFINE s == k[m - 1]
           e == list[m]
           before == {list[i] : i \in 1 .. m - 1}
<1>8. /\ s \in Seq(U)
      /\ ToSet(s) = before \cap S
      /\ IsInjective(list) => IsInjective(s)
  BY <1>7 DEF KeptWell, k
<1>9. e \in U
  BY <1>5
<1>10. {list[i] : i \in 1 .. m} = before \cup {e}
  <2>1. 1 .. m = (1 .. m - 1) \cup {m}
    BY <1>5
  <2> QED BY <2>1
<1>11. ASSUME IsInjective(list) PROVE e \notin before
  <2> SUFFICES ASSUME NEW i \in 1 .. m - 1, list[i] = list[m] PROVE FALSE
    OBVIOUS
  <2>1. i \in DOMAIN list /\ m \in DOMAIN list /\ i # m
    BY <1>5
  <2> QED BY <1>11, <2>1 DEF IsInjective
<1> HIDE DEF s, e, before, T
<1>12. KeptWell(list, S, U, m)
  <2>1. CASE e \in S
    <3>1. k[m] = Append(s, e)
      BY <1>6, <2>1 DEF s, e
    <3>2. /\ Append(s, e) \in Seq(U)
          /\ ToSet(Append(s, e)) = ToSet(s) \cup {e}
          /\ IsInjective(s) /\ e \notin ToSet(s) => IsInjective(Append(s, e))
      <4> HIDE DEF k
      <4>1. s \in Seq(U) /\ e \in U
        BY <1>8, <1>9
      <4> QED BY <4>1, AppendFacts
    <3>3. ToSet(k[m]) = {list[i] : i \in 1 .. m} \cap S
      BY <1>8, <1>10, <2>1, <3>1, <3>2
    <3>4. IsInjective(list) => IsInjective(k[m])
      BY <1>8, <1>11, <3>1, <3>2
    <3> QED BY <3>1, <3>2, <3>3, <3>4 DEF KeptWell, k
  <2>2. CASE e \notin S
    <3>1. k[m] = s
      BY <1>6, <2>2 DEF s, e
    <3>2. ToSet(k[m]) = {list[i] : i \in 1 .. m} \cap S
      BY <1>8, <1>10, <2>2, <3>1
    <3> QED BY <1>8, <3>1, <3>2 DEF KeptWell, k
  <2> QED BY <2>1, <2>2
<1> QED BY <1>3, <1>12 DEF T

\* Filtering a list keeps its entries in S, no others, and no entry twice
\* that was there once.
LEMMA FilterFacts ==
    ASSUME NEW U, NEW list \in Seq(U), NEW S
    PROVE  /\ Filter(list, S) \in Seq(U)
           /\ ToSet(Filter(list, S)) = ToSet(list) \cap S
           /\ IsInjective(list) => IsInjective(Filter(list, S))
<1>1. Len(list) \in 0 .. Len(list)
  OBVIOUS
<1>2. KeptWell(list, S, U, Len(list))
  BY <1>1, KeptIsWell
<1>3. ToSet(list) = {list[i] : i \in 1 .. Len(list)}
  BY DEF ToSet
<1> QED BY <1>2, <1>3 DEF KeptWell, Filter

-----------------------------------------------------------------------------
(* The order of what is kept.                                              *)

\* The positions pos, in the first n entries of the list, of those in S, in
\* their order, and nothing else; kept has the entries at these positions.
Picks(pos, kept, list, S, n) ==
    /\ Len(kept) \in 0 .. n
    /\ pos \in [1 .. Len(kept) -> 1 .. n]
    /\ \A i, j \in 1 .. Len(kept) : i < j => pos[i] < pos[j]
    /\ \A j \in 1 .. Len(kept) : list[pos[j]] \in S /\ kept[j] = list[pos[j]]
    /\ \A m \in 1 .. n : list[m] \in S => \E j \in 1 .. Len(kept) : pos[j] = m

\* One more entry that is not kept.
LEMMA PicksSkip ==
    ASSUME NEW pos, NEW kept, NEW list, NEW S, NEW n \in Nat,
           Picks(pos, kept, list, S, n), list[n + 1] \notin S
    PROVE  Picks(pos, kept, list, S, n + 1)
<1> DEFINE l == Len(kept)
<1>1. l \in 0 .. n /\ l \in Nat
  BY DEF Picks
<1>2. pos \in [1 .. l -> 1 .. n + 1]
  BY DEF Picks
<1>3. ASSUME NEW m \in 1 .. n + 1, list[m] \in S
      PROVE  \E j \in 1 .. l : pos[j] = m
  <2>1. m \in 1 .. n
    BY <1>3
  <2> QED BY <1>3, <2>1 DEF Picks
<1>4. l \in 0 .. n + 1
  BY <1>1
<1> QED BY <1>2, <1>3, <1>4 DEF Picks

\* One more entry that is kept: its position is the last.
LEMMA PicksTake ==
    ASSUME NEW U, NEW pos, NEW kept \in Seq(U), NEW list, NEW S, NEW n \in Nat,
           list[n + 1] \in U, Picks(pos, kept, list, S, n), list[n + 1] \in S
    PROVE  \E next : Picks(next, Append(kept, list[n + 1]), list, S, n + 1)
<1> DEFINE e == list[n + 1]
           more == Append(kept, e)
           l == Len(kept)
           next == [j \in 1 .. l + 1 |-> IF j <= l THEN pos[j] ELSE n + 1]
<1>1. l \in 0 .. n /\ l \in Nat
  BY DEF Picks
<1>2. /\ Len(more) = l + 1 /\ more[l + 1] = e
      /\ \A j \in 1 .. l : more[j] = kept[j]
  OBVIOUS
<1>3. /\ pos \in [1 .. l -> 1 .. n]
      /\ \A i, j \in 1 .. l : i < j => pos[i] < pos[j]
      /\ \A j \in 1 .. l : list[pos[j]] \in S /\ kept[j] = list[pos[j]]
      /\ \A m \in 1 .. n : list[m] \in S => \E j \in 1 .. l : pos[j] = m
  BY DEF Picks
<1> HIDE DEF more, l, e
<1>4. /\ \A j \in 1 .. l : j \in 1 .. l + 1 /\ next[j] = pos[j]
      /\ next[l + 1] = n + 1 /\ l + 1 \in 1 .. l + 1
  BY <1>1
<1>5. \A j \in 1 .. l + 1 : j \in 1 .. l \/ j = l + 1
  BY <1>1
<1>6. \A j \in 1 .. l : pos[j] \in 1 .. n
  BY <1>3
<1>7. next \in [1 .. l + 1 -> 1 .. n + 1]
  BY <1>1, <1>6
<1> HIDE DEF next
<1>8. ASSUME NEW i \in 1 .. l + 1, NEW j \in 1 .. l + 1, i < j
      PROVE  next[i] < next[j]
  <2>1. i \in 1 .. l
    BY <1>1, <1>8
  <2>2. CASE j \in 1 .. l
    BY <1>3, <1>4, <1>8, <2>1, <2>2
  <2>3. CASE j = l + 1
    <3>1. next[i] \in 1 .. n /\ next[j] = n + 1
      BY <1>4, <1>6, <2>1, <2>3
    <3> QED BY <3>1
  <2> QED BY <1>5, <2>2, <2>3
<1>9. ASSUME NEW j \in 1 .. l + 1
      PROVE  list[next[j]] \in S /\ more[j] = list[next[j]]
  <2>1. CASE j \in 1 .. l
    BY <1>2, <1>3, <1>4, <2>1
  <2>2. CASE j = l + 1
    BY <1>2, <1>4, <2>2 DEF e
  <2> QED BY <1>5, <2>1, <2>2
<1>10. ASSUME NEW m \in 1 .. n + 1, list[m] \in S
       PROVE  \E j \in 1 .. l + 1 : next[j] = m
  <2>1. CASE m = n + 1
    BY <1>4, <2>1
  <2>2. CASE m \in 1 .. n
    BY <1>3, <1>4, <1>10, <2>2
  <2> QED BY <2>1, <2>2
<1>11. l + 1 \in 0 .. n + 1
  BY <1>1
<1>12. Picks(next, more, list, S, n + 1)
  BY <1>2, <1>7, <1>8, <1>9, <1>10, <1>11 DEF Picks
<1> QED BY <1>12 DEF more, e

\* Filter keeps the entries that are in S at their positions' order.
LEMMA FilterPicks ==
    ASSUME NEW U, NEW list \in Seq(U), NEW S
    PROVE  \E pos : Picks(pos, Filter(list, S), list, S, Len(list))
<1> DEFINE k == Kept(list, S)
           T == {m \in 0 .. Len(list) : ~\E pos : Picks(pos, k[m], list, S, m)}
<1>1. \A m \in 0 .. Len(list) :
          k[m] = IF m = 0 THEN <<>>
                 ELSE IF list[m] \in S THEN Append(k[m - 1], list[m])
                 ELSE k[m - 1]
  <2>1. KeptTo(k, Len(list), list, S)
    BY KeptExists
  <2> HIDE DEF k
  <2> QED BY <2>1 DEF KeptTo
<1>2. \A m \in 0 .. Len(list) : k[m] \in Seq(U)
  BY KeptIsWell DEF KeptWell
<1> HIDE DEF k
<1>3. T = {}
  <2> SUFFICES ASSUME T # {} PROVE FALSE
    OBVIOUS
  <2>1. PICK m \in T : \A i \in T : m <= i
    <3> T \in SUBSET Nat
      OBVIOUS
    <3> HIDE DEF T
    <3> QED BY LeastNumber
  <2>2. m # 0
    <3>1. k[0] = <<>>
      BY <1>1
    <3>2. Picks(<<>>, <<>>, list, S, 0)
      BY DEF Picks
    <3> QED BY <2>1, <3>1, <3>2
  <2>3. m \in 1 .. Len(list) /\ m - 1 \in 0 .. Len(list) /\ m - 1 \in Nat
    BY <2>1, <2>2
  <2>4. PICK pos : Picks(pos, k[m - 1], list, S, m - 1)
    BY <2>1, <2>3
  <2>5. (m - 1) + 1 = m /\ list[m] \in U /\ k[m - 1] \in Seq(U)
    BY <1>2, <2>3
  <2>6. k[m] = IF list[m] \in S THEN Append(k[m - 1], list[m]) ELSE k[m - 1]
    <3>1. m \in 0 .. Len(list)
      BY <2>3
    <3> QED BY <1>1, <2>2, <3>1
  <2>7. CASE list[m] \in S
    <3>1. \E next : Picks(next, Append(k[m - 1], list[(m - 1) + 1]), list, S,
                          (m - 1) + 1)
      BY <2>3, <2>4, <2>5, <2>7, PicksTake
    <3>2. \E next : Picks(next, k[m], list, S, m)
      BY <2>5, <2>6, <2>7, <3>1
    <3> QED BY <2>1, <3>2
  <2>8. CASE list[m] \notin S
    <3>1. Picks(pos, k[m - 1], list, S, (m - 1) + 1)
      BY <2>3, <2>4, <2>5, <2>8, PicksSkip
    <3>2. Picks(pos, k[m], list, S, m)
      BY <2>5, <2>6, <2>8, <3>1
    <3> QED BY <2>1, <3>2
  <2> QED BY <2>7, <2>8
<1>4. Len(list) \in 0 .. Len(list)
  OBVIOUS
<1> QED BY <1>3, <1>4 DEF Filter, k
=============================================================================
