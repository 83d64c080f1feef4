------------------------------ MODULE PatchProofs ------------------------------
(***************************************************************************)
(* The patch screen and its patchers, for every shelf that the            *)
(* assumption allows: patches of any number of records, actions or         *)
(* windows, ROMs of any size, buffers of any size. SessionInv has one part *)
(* for the screen and one for the job of each patcher.                     *)
(***************************************************************************)
EXTENDS PatchSession, FiniteSetTheorems, WellFoundedInduction, TLAPS

-----------------------------------------------------------------------------
\* Numbers and lists.

LEMMA LeastMember ==
  ASSUME NEW T, T \subseteq Nat, T # {}
  PROVE  \E n \in T : \A m \in T : n <= m
<1>1. PICK n \in T : \A m \in T : <<m, n>> \notin OpToRel(<, Nat)
  BY NatLessThanWellFounded, WFMin
<1>2. \A m \in T : ~(m < n)
  BY <1>1 DEF OpToRel
<1>3. QED
  BY <1>2

LEMMA Element ==
  ASSUME NEW S, NEW q \in Seq(S), NEW j \in 1..Len(q)
  PROVE  q[j] \in S
  OBVIOUS

\* What Append does to a list.
LEMMA ListGrows ==
  ASSUME NEW S, NEW s \in Seq(S)
  PROVE  /\ Len(s) \in Nat /\ DOMAIN s = 1..Len(s)
         /\ \A e \in S : /\ Append(s, e) \in Seq(S) /\ Len(Append(s, e)) = Len(s) + 1
                         /\ Append(s, e)[Len(s) + 1] = e
                         /\ \A k \in 1..Len(s) : Append(s, e)[k] = s[k]
  OBVIOUS

LEMMA SameList ==
  ASSUME NEW S, NEW s \in Seq(S), NEW t \in Seq(S), Len(s) = Len(t),
         \A i \in 1..Len(t) : s[i] = t[i]
  PROVE  s = t
  OBVIOUS

LEMMA SubSeqBytes ==
  ASSUME NEW S, NEW f \in Seq(S), NEW a \in Nat, NEW b \in Nat, a <= b, b <= Len(f)
  PROVE  /\ SubSeq(f, a + 1, b) \in Seq(S) /\ Len(SubSeq(f, a + 1, b)) = b - a
         /\ \A i \in 1..(b - a) : SubSeq(f, a + 1, b)[i] = f[a + i]
  OBVIOUS

LEMMA JoinBytes ==
  ASSUME NEW S, NEW f \in Seq(S), NEW g \in Seq(S), NEW n, n = Len(f)
  PROVE  /\ (f \o g) \in Seq(S) /\ Len(f \o g) = n + Len(g)
         /\ \A i \in 1..n : (f \o g)[i] = f[i]
         /\ \A i \in 1..Len(g) : (f \o g)[n + i] = g[i]
  OBVIOUS

\* A list is given by its elements.
LEMMA GivenList ==
  ASSUME NEW S, NEW n \in Nat, NEW s, s = [i \in 1..n |-> s[i]], \A i \in 1..n : s[i] \in S
  PROVE  s \in Seq(S) /\ Len(s) = n
  OBVIOUS

LEMMA AllOf ==
  ASSUME NEW S, NEW s \in Seq(S)
  PROVE  SubSeq(s, 1, Len(s)) = s
  OBVIOUS

-----------------------------------------------------------------------------
\* Lists of lists, joined.

\* The first n of the lists of s joined: F[k] is the first k of them, P[k] its
\* length.
JoinedTo(S, s, n, F, P) ==
  /\ F \in [1..n -> Seq(S)] /\ P \in [0..n -> Nat] /\ P[0] = 0
  /\ \A k \in 1..n :
       /\ P[k] = P[k - 1] + Len(s[k])
       /\ F[k] = IF k = 1 THEN s[k] ELSE F[k - 1] \o s[k]
       /\ Len(F[k]) = P[k]
       /\ \A j \in 1..k : \A i \in 1..Len(s[j]) : F[k][P[j - 1] + i] = s[j][i]

LEMMA PlacesAscend ==
  ASSUME NEW S, NEW s, NEW n \in Nat, NEW F, NEW P, JoinedTo(S, s, n, F, P),
         \A k \in 1..n : Len(s[k]) \in Nat
  PROVE  \A k \in 0..n : \A j \in 0..k : P[j] <= P[k]
<1> DEFINE T == {k \in 0..n : \E j \in 0..k : ~(P[j] <= P[k])}
<1>1. /\ P \in [0..n -> Nat] /\ \A k \in 1..n : P[k] = P[k - 1] + Len(s[k])
  BY DEF JoinedTo
<1>2. SUFFICES ASSUME T # {} PROVE FALSE
  OBVIOUS
<1>3. PICK k \in T : \A m \in T : k <= m
  <2>1. T \subseteq Nat
    OBVIOUS
  <2> HIDE DEF T
  <2>2. QED
    BY <1>2, <2>1, LeastMember
<1>4. k \in 0..n
  OBVIOUS
<1>5. PICK j \in 0..k : ~(P[j] <= P[k])
  BY <1>3
<1>6. j # k /\ k # 0 /\ j \in 0..(k - 1) /\ k - 1 \in 0..n /\ k \in 1..n
  BY <1>1, <1>4, <1>5
<1>7. k - 1 \notin T
  BY <1>3, <1>4
<1>8. P[j] <= P[k - 1]
  BY <1>6, <1>7
<1>9. P[k] = P[k - 1] + Len(s[k]) /\ Len(s[k]) \in Nat
  BY <1>1, <1>6
<1>10. P[j] \in Nat /\ P[k - 1] \in Nat /\ P[k] \in Nat
  BY <1>1, <1>6
<1>11. QED
  BY <1>5, <1>8, <1>9, <1>10

LEMMA JoinMore ==
  ASSUME NEW S, NEW s \in Seq(Seq(S)), NEW n \in Nat, n + 1 <= Len(s),
         NEW F, NEW P, JoinedTo(S, s, n, F, P)
  PROVE  \E G, Q : JoinedTo(S, s, n + 1, G, Q)
<1> DEFINE e == s[n + 1]
           last == IF n + 1 = 1 THEN e ELSE F[n] \o e
           G == [k \in 1..(n + 1) |-> IF k <= n THEN F[k] ELSE last]
           Q == [k \in 0..(n + 1) |-> IF k <= n THEN P[k] ELSE P[n] + Len(e)]
<1>1. \A k \in 1..(n + 1) : s[k] \in Seq(S) /\ Len(s[k]) \in Nat
  <2>1. ASSUME NEW k \in 1..(n + 1) PROVE s[k] \in Seq(S) /\ Len(s[k]) \in Nat
    <3>1. k \in 1..Len(s)
      OBVIOUS
    <3>2. s[k] \in Seq(S)
      BY <3>1
    <3>3. QED
      BY <3>2
  <2>2. QED
    BY <2>1
<1>2. /\ F \in [1..n -> Seq(S)] /\ P \in [0..n -> Nat] /\ P[0] = 0
      /\ \A k \in 1..n :
           /\ P[k] = P[k - 1] + Len(s[k])
           /\ F[k] = IF k = 1 THEN s[k] ELSE F[k - 1] \o s[k]
           /\ Len(F[k]) = P[k]
           /\ \A j \in 1..k : \A i \in 1..Len(s[j]) : F[k][P[j - 1] + i] = s[j][i]
  BY DEF JoinedTo
<1>3. e \in Seq(S) /\ Len(e) \in Nat
  <2>1. n + 1 \in 1..(n + 1)
    OBVIOUS
  <2>2. QED
    BY <1>1, <2>1
<1>4. P[n] \in Nat
  BY <1>2
<1> HIDE DEF e
<1>5. /\ last \in Seq(S) /\ Len(last) = P[n] + Len(e)
      /\ \A i \in 1..Len(e) : last[P[n] + i] = e[i]
      /\ n >= 1 => \A i \in 1..P[n] : last[i] = F[n][i]
  <2>1. CASE n = 0
    BY <1>2, <1>3, <2>1
  <2>2. CASE n # 0
    <3>1. n \in 1..n /\ n + 1 # 1
      BY <2>2
    <3>2. F[n] \in Seq(S) /\ Len(F[n]) = P[n]
      BY <1>2, <3>1
    <3>3. last = F[n] \o e
      BY <3>1
    <3> HIDE DEF last
    <3> DEFINE f == F[n]
               p == P[n]
    <3> HIDE DEF f, p
    <3>4. /\ (f \o e) \in Seq(S) /\ Len(f \o e) = p + Len(e)
          /\ \A i \in 1..p : (f \o e)[i] = f[i]
          /\ \A i \in 1..Len(e) : (f \o e)[p + i] = e[i]
      <4>1. f \in Seq(S) /\ p = Len(f) /\ e \in Seq(S)
        BY <1>3, <3>2 DEF f, p
      <4>2. QED
        BY <4>1, JoinBytes
    <3>5. QED
      BY <3>3, <3>4 DEF f, p
  <2>3. QED
    BY <2>1, <2>2
<1>6. \A j \in 0..n : P[j] <= P[n]
  <2>1. \A k \in 1..n : Len(s[k]) \in Nat
    BY <1>1
  <2>2. n \in 0..n
    OBVIOUS
  <2>3. QED
    BY <2>1, <2>2, PlacesAscend
<1> HIDE DEF last
<1>7. /\ G \in [1..(n + 1) -> Seq(S)] /\ Q \in [0..(n + 1) -> Nat] /\ Q[0] = 0
  <2>1. ASSUME NEW k \in 1..(n + 1), k <= n PROVE F[k] \in Seq(S)
    <3>1. k \in 1..n
      BY <2>1
    <3>2. F \in [1..n -> Seq(S)]
      BY <1>2
    <3>3. QED
      BY <3>1, <3>2
  <2>2. G \in [1..(n + 1) -> Seq(S)]
    BY <1>5, <2>1
  <2>3. ASSUME NEW k \in 0..(n + 1), k <= n PROVE P[k] \in Nat
    <3>1. k \in 0..n
      BY <2>3
    <3>2. P \in [0..n -> Nat]
      BY <1>2
    <3>3. QED
      BY <3>1, <3>2
  <2>4. Q \in [0..(n + 1) -> Nat]
    BY <1>3, <1>4, <2>3
  <2>5. Q[0] = 0
    BY <1>2
  <2>6. QED
    BY <2>2, <2>4, <2>5
<1>8. ASSUME NEW k \in 1..(n + 1)
      PROVE  /\ Q[k] = Q[k - 1] + Len(s[k])
             /\ G[k] = IF k = 1 THEN s[k] ELSE G[k - 1] \o s[k]
             /\ Len(G[k]) = Q[k]
             /\ \A j \in 1..k : \A i \in 1..Len(s[j]) : G[k][Q[j - 1] + i] = s[j][i]
  <2>1. CASE k <= n
    <3>1. k \in 1..n /\ k - 1 \in 0..(n + 1) /\ k - 1 <= n /\ k \in 0..(n + 1)
      BY <2>1
    <3>2. Q[k] = P[k] /\ Q[k - 1] = P[k - 1] /\ G[k] = F[k]
      BY <2>1, <3>1
    <3>3. k # 1 => G[k - 1] = F[k - 1]
      BY <3>1
    <3>4. ASSUME NEW j \in 1..k, NEW i \in 1..Len(s[j])
          PROVE  G[k][Q[j - 1] + i] = s[j][i]
      <4>1. Q[j - 1] = P[j - 1]
        BY <3>1
      <4> HIDE DEF G, Q
      <4>2. F[k][P[j - 1] + i] = s[j][i]
        BY <1>2, <3>1
      <4>3. QED
        BY <3>2, <4>1, <4>2
    <3> HIDE DEF G, Q
    <3>5. QED
      BY <1>2, <3>1, <3>2, <3>3, <3>4
  <2>2. CASE k = n + 1
    <3>1. /\ Q[k] = P[n] + Len(e) /\ Q[k - 1] = P[n] /\ G[k] = last /\ s[k] = e
          /\ k # 1 => G[k - 1] = F[n]
      BY <2>2 DEF e
    <3>2. G[k] = IF k = 1 THEN s[k] ELSE G[k - 1] \o s[k]
      BY <2>2, <3>1 DEF last
    <3>3. ASSUME NEW j \in 1..k, NEW i \in 1..Len(s[j])
          PROVE  G[k][Q[j - 1] + i] = s[j][i]
      <4>1. CASE j = n + 1
        BY <1>5, <2>2, <3>1, <4>1
      <4>2. CASE j # n + 1
        <5>1. j \in 1..n /\ n \in 1..n /\ j - 1 \in 0..n /\ j \in 0..n /\ n >= 1
          BY <2>2, <4>2
        <5>7. Q[j - 1] = P[j - 1]
          BY <5>1
        <5> HIDE DEF G, Q
        <5>2. F[n][P[j - 1] + i] = s[j][i]
          BY <1>2, <5>1
        <5>3. P[j] = P[j - 1] + Len(s[j]) /\ P[j] <= P[n] /\ P[j - 1] \in Nat /\ Len(s[j]) \in Nat
          <6>1. j \in 1..(n + 1)
            BY <5>1
          <6>2. QED
            BY <1>1, <1>2, <1>6, <5>1, <6>1
        <5>4. P[j - 1] + i \in 1..P[n]
          <6> DEFINE a == P[j - 1]
                     b == P[n]
                     c == Len(s[j])
          <6>1. a \in Nat /\ b \in Nat /\ c \in Nat /\ a + c <= b /\ i \in 1..c
            BY <1>4, <5>3
          <6> HIDE DEF a, b, c
          <6>2. a + i \in 1..b
            BY <6>1
          <6>3. QED
            BY <6>2 DEF a, b
        <5>5. last[P[j - 1] + i] = F[n][P[j - 1] + i]
          BY <1>5, <5>1, <5>4
        <5>6. QED
          BY <3>1, <5>2, <5>5, <5>7
      <4>3. QED
        BY <4>1, <4>2
    <3> HIDE DEF G, Q
    <3>4. QED
      BY <1>5, <3>1, <3>2, <3>3
  <2> HIDE DEF G, Q
  <2>3. QED
    BY <2>1, <2>2
<1> HIDE DEF G, Q
<1>9. JoinedTo(S, s, n + 1, G, Q)
  BY <1>7, <1>8 DEF JoinedTo
<1>10. QED
  BY <1>9

LEMMA JoinAll ==
  ASSUME NEW S, NEW s \in Seq(Seq(S))
  PROVE  \E F, P : JoinedTo(S, s, Len(s), F, P)
<1> DEFINE T == {n \in 0..Len(s) : ~\E F, P : JoinedTo(S, s, n, F, P)}
<1>0. Len(s) \in Nat
  OBVIOUS
<1>1. SUFFICES ASSUME T # {} PROVE FALSE
  BY <1>0
<1>2. PICK n \in T : \A m \in T : n <= m
  <2>1. T \subseteq Nat
    BY <1>0
  <2> HIDE DEF T
  <2>2. QED
    BY <1>1, <2>1, LeastMember
<1>3. n \in 0..Len(s) /\ ~\E F, P : JoinedTo(S, s, n, F, P)
  OBVIOUS
<1>4. CASE n = 0
  <2>1. JoinedTo(S, s, 0, [k \in 1..0 |-> << >>], [k \in 0..0 |-> 0])
    BY DEF JoinedTo
  <2>2. QED
    BY <1>3, <1>4, <2>1
<1>5. CASE n # 0
  <2>1. n - 1 \in 0..Len(s) /\ (n - 1) + 1 = n /\ n - 1 \in Nat /\ ~(n <= n - 1)
    BY <1>0, <1>3, <1>5
  <2>4. n - 1 \notin T
    <3> HIDE DEF T
    <3>1. QED
      BY <1>2, <2>1
  <2>2. PICK F, P : JoinedTo(S, s, n - 1, F, P)
    BY <2>1, <2>4
  <2>3. \E G, Q : JoinedTo(S, s, (n - 1) + 1, G, Q)
    BY <1>3, <2>1, <2>2, JoinMore
  <2>5. QED
    BY <1>3, <2>1, <2>3
<1>6. QED
  BY <1>4, <1>5

\* FlattenSeq is what the recursion says, and that is defined.
LEMMA FlattenIs ==
  ASSUME NEW S, NEW s \in Seq(Seq(S)), NEW F, NEW P, JoinedTo(S, s, Len(s), F, P)
  PROVE  Lists!FlattenSeq(s) = IF Len(s) = 0 THEN << >> ELSE F[Len(s)]
<1> DEFINE N == Len(s)
           Eq(f) == f = [i \in 1..N |-> IF i = 1 THEN s[i] ELSE f[i - 1] \o s[i]]
           flatten == CHOOSE f : Eq(f)
<1>0. N \in Nat
  OBVIOUS
<1>1. CASE N = 0
  BY <1>1 DEF Lists!FlattenSeq
<1>2. CASE N # 0
  <2>1. Lists!FlattenSeq(s) = flatten[N]
    BY <1>2 DEF Lists!FlattenSeq
  <2>2. F \in [1..N -> Seq(S)]
        /\ \A k \in 1..N : F[k] = IF k = 1 THEN s[k] ELSE F[k - 1] \o s[k]
    BY DEF JoinedTo
  <2>3. Eq(F)
    BY <2>2
  <2>4. Eq(flatten)
    <3> HIDE DEF Eq
    <3>1. QED
      BY <2>3
  <2> HIDE DEF flatten
  <2>5. \A k \in 1..N : flatten[k] = IF k = 1 THEN s[k] ELSE flatten[k - 1] \o s[k]
    BY <2>4
  <2>6. \A k \in 1..N : flatten[k] = F[k]
    <3> DEFINE T == {k \in 1..N : flatten[k] # F[k]}
    <3>1. SUFFICES ASSUME T # {} PROVE FALSE
      OBVIOUS
    <3>2. PICK k \in T : \A m \in T : k <= m
      <4>1. T \subseteq Nat
        BY <1>0
      <4> HIDE DEF T
      <4>2. QED
        BY <3>1, <4>1, LeastMember
    <3>3. k \in 1..N /\ flatten[k] # F[k]
      OBVIOUS
    <3>4. CASE k = 1
      BY <2>2, <2>5, <3>3, <3>4
    <3>5. CASE k # 1
      <4>1. k - 1 \in 1..N /\ ~(k <= k - 1)
        BY <1>0, <3>3, <3>5
      <4>4. k - 1 \notin T
        <5> HIDE DEF T
        <5>1. QED
          BY <3>2, <4>1
      <4>2. flatten[k - 1] = F[k - 1]
        BY <4>1, <4>4
      <4>3. QED
        BY <2>2, <2>5, <3>3, <3>5, <4>2
    <3>6. QED
      BY <3>4, <3>5
  <2>7. N \in 1..N
    BY <1>0, <1>2
  <2>8. QED
    BY <1>2, <2>1, <2>6, <2>7
<1>3. QED
  BY <1>1, <1>2

\* What the lists of s joined are.
LEMMA FlattenPlaces ==
  ASSUME NEW S, NEW s \in Seq(Seq(S))
  PROVE  /\ Lists!FlattenSeq(s) \in Seq(S)
         /\ \E P \in [0..Len(s) -> Nat] :
              /\ P[0] = 0 /\ \A k \in 1..Len(s) : P[k] = P[k - 1] + Len(s[k])
              /\ Len(Lists!FlattenSeq(s)) = P[Len(s)]
              /\ \A k \in 0..Len(s) : \A j \in 0..k : P[j] <= P[k]
              /\ \A k \in 1..Len(s) : \A i \in 1..Len(s[k]) :
                   Lists!FlattenSeq(s)[P[k - 1] + i] = s[k][i]
<1>0. Len(s) \in Nat /\ \A k \in 1..Len(s) : Len(s[k]) \in Nat
  <2>1. ASSUME NEW k \in 1..Len(s) PROVE Len(s[k]) \in Nat
    <3>1. s[k] \in Seq(S)
      OBVIOUS
    <3>2. QED
      BY <3>1
  <2>2. QED
    BY <2>1
<1>1. PICK F, P : JoinedTo(S, s, Len(s), F, P)
  BY JoinAll
<1>2. Lists!FlattenSeq(s) = IF Len(s) = 0 THEN << >> ELSE F[Len(s)]
  BY <1>1, FlattenIs
<1>3. \A k \in 0..Len(s) : \A j \in 0..k : P[j] <= P[k]
  BY <1>0, <1>1, PlacesAscend
<1>4. /\ F \in [1..Len(s) -> Seq(S)] /\ P \in [0..Len(s) -> Nat] /\ P[0] = 0
      /\ \A k \in 1..Len(s) :
           /\ P[k] = P[k - 1] + Len(s[k])
           /\ Len(F[k]) = P[k]
           /\ \A j \in 1..k : \A i \in 1..Len(s[j]) : F[k][P[j - 1] + i] = s[j][i]
  BY <1>1 DEF JoinedTo
<1> DEFINE all == Lists!FlattenSeq(s)
<1>5. CASE Len(s) = 0
  <2>1. all = << >>
    BY <1>2, <1>5
  <2> HIDE DEF all
  <2>2. all \in Seq(S) /\ Len(all) = P[Len(s)]
    BY <1>4, <1>5, <2>1
  <2>3. QED
    BY <1>3, <1>4, <1>5, <2>2 DEF all
<1>6. CASE Len(s) # 0
  <2>1. Len(s) \in 1..Len(s) /\ all = F[Len(s)]
    BY <1>0, <1>2, <1>6
  <2> HIDE DEF all
  <2>2. /\ all \in Seq(S) /\ Len(all) = P[Len(s)]
        /\ \A k \in 1..Len(s) : \A i \in 1..Len(s[k]) : all[P[k - 1] + i] = s[k][i]
    BY <1>4, <2>1
  <2>3. QED
    BY <1>3, <1>4, <2>2 DEF all
<1>7. QED
  BY <1>5, <1>6

-----------------------------------------------------------------------------
\* Functions that are defined by recursion.

\* f has the first n values of the function that G defines, each from those before.
ValuesTo(S, G, n, f) ==
  /\ f \in [0..(n - 1) -> S]
  /\ \A k \in 0..(n - 1) : f[k] = G[k][[j \in 0..(k - 1) |-> f[j]]]

LEMMA SameValues ==
  ASSUME NEW S, NEW G, NEW n \in Nat, NEW m \in Nat, n <= m, NEW f, NEW g,
         ValuesTo(S, G, n, f), ValuesTo(S, G, m, g)
  PROVE  \A k \in 0..(n - 1) : f[k] = g[k]
<1> DEFINE T == {k \in 0..(n - 1) : f[k] # g[k]}
<1>1. SUFFICES ASSUME T # {} PROVE FALSE
  OBVIOUS
<1>2. T \subseteq Nat
  OBVIOUS
<1>3. PICK k \in T : \A i \in T : k <= i
  <2> HIDE DEF T
  <2>1. QED
    BY <1>1, <1>2, LeastMember
<1>4. k \in 0..(n - 1) /\ k \in 0..(m - 1) /\ f[k] # g[k]
  OBVIOUS
<1>5. \A j \in 0..(k - 1) : j \in 0..(n - 1) /\ ~(k <= j)
  BY <1>4
<1>6. \A j \in 0..(k - 1) : j \notin T
  <2> HIDE DEF T
  <2>1. QED
    BY <1>3, <1>5
<1>7. \A j \in 0..(k - 1) : f[j] = g[j]
  BY <1>5, <1>6
<1>8. [j \in 0..(k - 1) |-> f[j]] = [j \in 0..(k - 1) |-> g[j]]
  BY <1>7
<1>9. f[k] = G[k][[j \in 0..(k - 1) |-> f[j]]] /\ g[k] = G[k][[j \in 0..(k - 1) |-> g[j]]]
  BY <1>4 DEF ValuesTo
<1>10. QED
  BY <1>4, <1>8, <1>9

LEMMA MoreValues ==
  ASSUME NEW S, NEW G, NEW n \in Nat, NEW f, ValuesTo(S, G, n, f),
         \A h \in [0..(n - 1) -> S] : G[n][h] \in S
  PROVE  \E g : ValuesTo(S, G, n + 1, g)
<1> DEFINE g == [k \in 0..n |-> IF k = n THEN G[n][f] ELSE f[k]]
<1>1. /\ f \in [0..(n - 1) -> S]
      /\ \A k \in 0..(n - 1) : f[k] = G[k][[j \in 0..(k - 1) |-> f[j]]]
  BY DEF ValuesTo
<1>2. f = [j \in 0..(n - 1) |-> f[j]] /\ G[n][f] \in S
  BY <1>1
<1>3. \A k \in 0..n : k # n => k \in 0..(n - 1)
  OBVIOUS
<1>4. g \in [0..n -> S]
  BY <1>1, <1>2, <1>3
<1>5. ASSUME NEW k \in 0..n PROVE g[k] = G[k][[j \in 0..(k - 1) |-> g[j]]]
  <2>1. \A j \in 0..(k - 1) : j \in 0..n /\ j # n
    OBVIOUS
  <2>2. \A j \in 0..(k - 1) : g[j] = f[j]
    BY <2>1
  <2>3. [j \in 0..(k - 1) |-> g[j]] = [j \in 0..(k - 1) |-> f[j]]
    BY <2>2
  <2>4. g[k] = G[k][[j \in 0..(k - 1) |-> f[j]]]
    <3>1. CASE k = n
      <4>1. g[k] = G[k][f] /\ [j \in 0..(k - 1) |-> f[j]] = f
        BY <1>2, <3>1
      <4>2. QED
        BY <4>1
    <3>2. CASE k # n
      <4>1. k \in 0..(n - 1)
        BY <3>2
      <4>2. g[k] = f[k]
        BY <3>2
      <4>3. QED
        BY <1>1, <4>1, <4>2
    <3>3. QED
      BY <3>1, <3>2
  <2>5. QED
    BY <2>3, <2>4
<1> HIDE DEF g
<1>6. (n + 1) - 1 = n
  OBVIOUS
<1>7. ValuesTo(S, G, n + 1, g)
  BY <1>4, <1>5, <1>6 DEF ValuesTo
<1>8. QED
  BY <1>7

LEMMA AllValues ==
  ASSUME NEW S, NEW G, \A n \in Nat : \A h \in [0..(n - 1) -> S] : G[n][h] \in S,
         NEW n \in Nat
  PROVE  \E f : ValuesTo(S, G, n, f)
<1> DEFINE T == {k \in Nat : ~\E f : ValuesTo(S, G, k, f)}
<1>1. SUFFICES ASSUME T # {} PROVE FALSE
  OBVIOUS
<1>2. T \subseteq Nat
  OBVIOUS
<1>3. PICK k \in T : \A i \in T : k <= i
  <2> HIDE DEF T
  <2>1. QED
    BY <1>1, <1>2, LeastMember
<1>4. k \in Nat /\ ~\E f : ValuesTo(S, G, k, f)
  OBVIOUS
<1>5. CASE k = 0
  <2>1. ValuesTo(S, G, 0, [i \in 0..(0 - 1) |-> 0])
    BY DEF ValuesTo
  <2>2. QED
    BY <1>4, <1>5, <2>1
<1>6. CASE k # 0
  <2>1. k - 1 \in Nat /\ ~(k <= k - 1) /\ (k - 1) + 1 = k
    BY <1>4, <1>6
  <2>2. k - 1 \notin T
    <3> HIDE DEF T
    <3>1. QED
      BY <1>3, <2>1
  <2>3. PICK f : ValuesTo(S, G, k - 1, f)
    BY <2>1, <2>2
  <2>4. \A h \in [0..((k - 1) - 1) -> S] : G[k - 1][h] \in S
    BY <2>1
  <2>5. \E g : ValuesTo(S, G, (k - 1) + 1, g)
    BY <2>1, <2>3, <2>4, MoreValues
  <2>6. QED
    BY <1>4, <2>1, <2>5
<1>7. QED
  BY <1>5, <1>6

\* G gives a value from any values before it.
Gives(S, G) == \A n \in Nat : \A h \in [0..(n - 1) -> S] : G[n][h] \in S

\* F is the function whose values G gives.
IsGiven(S, G, F) ==
  F \in [Nat -> S] /\ \A n \in Nat : F[n] = G[n][[j \in 0..(n - 1) |-> F[j]]]

LEMMA Recursion ==
  ASSUME NEW S, NEW G, Gives(S, G)
  PROVE  \E F : IsGiven(S, G, F)
<1> DEFINE f(n) == CHOOSE g : ValuesTo(S, G, n, g)
           F == [n \in Nat |-> f(n + 1)[n]]
<1>1. \A n \in Nat : ValuesTo(S, G, n, f(n))
  <2>1. ASSUME NEW n \in Nat PROVE \E g : ValuesTo(S, G, n, g)
    BY AllValues DEF Gives
  <2>2. QED
    BY <2>1
<1> HIDE DEF f
<1>2. ASSUME NEW n \in Nat
      PROVE  /\ f(n + 1)[n] \in S
             /\ f(n + 1)[n] = G[n][[j \in 0..(n - 1) |-> f(n + 1)[j]]]
             /\ \A j \in 0..(n - 1) : f(n + 1)[j] = f(j + 1)[j]
  <2> DEFINE e == f(n + 1)
  <2>1. n + 1 \in Nat /\ (n + 1) - 1 = n /\ n \in 0..n
    OBVIOUS
  <2>2. ValuesTo(S, G, n + 1, e)
    BY <1>1, <2>1
  <2> HIDE DEF e
  <2>3. e \in [0..n -> S] /\ e[n] = G[n][[j \in 0..(n - 1) |-> e[j]]]
    BY <2>1, <2>2 DEF ValuesTo
  <2>4. ASSUME NEW j \in 0..(n - 1) PROVE e[j] = f(j + 1)[j]
    <3>1. j + 1 \in Nat /\ j + 1 <= n + 1 /\ j \in 0..((j + 1) - 1)
      OBVIOUS
    <3>2. ValuesTo(S, G, j + 1, f(j + 1))
      BY <1>1, <3>1
    <3> DEFINE d == f(j + 1)
    <3> HIDE DEF d
    <3>3. ValuesTo(S, G, j + 1, d)
      BY <3>2 DEF d
    <3>4. \A k \in 0..((j + 1) - 1) : d[k] = e[k]
      <4> DEFINE a == j + 1
                 b == n + 1
      <4>1. a \in Nat /\ b \in Nat /\ a <= b /\ ValuesTo(S, G, a, d) /\ ValuesTo(S, G, b, e)
        BY <2>1, <2>2, <3>1, <3>3
      <4> HIDE DEF a, b
      <4>2. \A k \in 0..(a - 1) : d[k] = e[k]
        BY <4>1, SameValues
      <4>3. QED
        BY <4>2 DEF a
    <3>5. QED
      BY <3>1, <3>4 DEF d
  <2>5. QED
    BY <2>1, <2>3, <2>4 DEF e
<1>3. F \in [Nat -> S]
  BY <1>2
<1>4. ASSUME NEW n \in Nat PROVE F[n] = G[n][[j \in 0..(n - 1) |-> F[j]]]
  <2>1. ASSUME NEW j \in 0..(n - 1) PROVE F[j] = f(n + 1)[j]
    <3>1. j \in Nat
      OBVIOUS
    <3>2. F[j] = f(j + 1)[j]
      BY <3>1
    <3>3. f(n + 1)[j] = f(j + 1)[j]
      BY <1>2
    <3>4. QED
      BY <3>2, <3>3
  <2>2. [j \in 0..(n - 1) |-> F[j]] = [j \in 0..(n - 1) |-> f(n + 1)[j]]
    BY <2>1
  <2>3. F[n] = f(n + 1)[n]
    OBVIOUS
  <2> HIDE DEF F
  <2>4. QED
    BY <1>2, <2>2, <2>3
<1> HIDE DEF F
<1>5. IsGiven(S, G, F)
  BY <1>3, <1>4 DEF IsGiven
<1>6. QED
  BY <1>5

-----------------------------------------------------------------------------
\* IPS and APS for N64: what one pass has written is what the patch means so far.

\* The output as a patch means it, as far as byte n.
MeantUpTo(n) == [i \in 1..n |-> MeantByte(i - 1)]

\* A list that goes on as the patch means it.
GoesOn(d, n, m) == d = [i \in 1..m |-> d[i]] /\ \A i \in 1..m : d[i] = MeantByte(n + i - 1)

LEMMA MeantMore ==
  ASSUME NEW n \in Nat, NEW m \in Nat, NEW d, GoesOn(d, n, m)
  PROVE  MeantUpTo(n) \o d = MeantUpTo(n + m)
<1> DEFINE S == {MeantByte(x) : x \in Int}
           s == MeantUpTo(n)
           all == MeantUpTo(n + m)
<1>1. /\ s \in Seq(S) /\ Len(s) = n /\ \A i \in 1..n : s[i] = MeantByte(i - 1)
  <2>1. s = [i \in 1..n |-> s[i]] /\ \A i \in 1..n : s[i] = MeantByte(i - 1)
    BY DEF MeantUpTo
  <2>2. \A i \in 1..n : i - 1 \in Int
    OBVIOUS
  <2>3. \A i \in 1..n : s[i] \in S
    BY <2>1, <2>2, Zenon
  <2> HIDE DEF s, S
  <2>4. QED
    BY <2>1, <2>3
<1>2. d \in Seq(S) /\ Len(d) = m
  <2>1. \A i \in 1..m : n + i - 1 \in Int
    OBVIOUS
  <2>2. \A i \in 1..m : d[i] \in S
    BY <2>1, Zenon DEF GoesOn
  <2>3. d = [i \in 1..m |-> d[i]]
    BY DEF GoesOn
  <2> HIDE DEF S
  <2>4. QED
    BY <2>2, <2>3
<1>3. /\ all \in Seq(S) /\ Len(all) = n + m
      /\ \A i \in 1..(n + m) : all[i] = MeantByte(i - 1)
  <2>1. all = [i \in 1..(n + m) |-> all[i]] /\ \A i \in 1..(n + m) : all[i] = MeantByte(i - 1)
    BY DEF MeantUpTo
  <2>2. \A i \in 1..(n + m) : i - 1 \in Int
    OBVIOUS
  <2>3. \A i \in 1..(n + m) : all[i] \in S
    BY <2>1, <2>2, Zenon
  <2> HIDE DEF all, S
  <2>4. QED
    BY <2>1, <2>3
<1> HIDE DEF S, s, all
<1>4. /\ (s \o d) \in Seq(S) /\ Len(s \o d) = n + m
      /\ \A i \in 1..n : (s \o d)[i] = s[i]
      /\ \A i \in 1..m : (s \o d)[n + i] = d[i]
  BY <1>1, <1>2
<1>5. ASSUME NEW i \in 1..(n + m) PROVE (s \o d)[i] = all[i]
  <2>1. CASE i <= n
    BY <1>1, <1>3, <1>4, <2>1
  <2>2. CASE ~(i <= n)
    <3>1. PICK k \in 1..m : i = n + k
      <4>1. i - n \in 1..m /\ i = n + (i - n)
        BY <2>2
      <4>2. QED
        BY <4>1
    <3>2. (s \o d)[n + k] = d[k] /\ d[k] = MeantByte(n + k - 1)
      BY <1>4 DEF GoesOn
    <3>3. QED
      BY <1>3, <3>1, <3>2
  <2>3. QED
    BY <2>1, <2>2
<1> DEFINE joined == s \o d
<1>6. joined = all
  <2>1. /\ joined \in Seq(S) /\ Len(joined) = Len(all)
        /\ \A i \in 1..Len(all) : joined[i] = all[i]
    BY <1>3, <1>4, <1>5
  <2> HIDE DEF joined
  <2>2. QED
    BY <1>3, <2>1, SameList
<1>7. QED
  BY <1>6 DEF s, all

\* The same of a list that is written so far, and of one that goes on from it.
WrittenTo(w, n) == n \in Nat /\ w = MeantUpTo(n)

Continues(d, n, m) == m \in Nat /\ GoesOn(d, n, m)

LEMMA WrittenMore ==
  ASSUME NEW n, NEW m, NEW w, NEW d, WrittenTo(w, n), Continues(d, n, m)
  PROVE  WrittenTo(w \o d, n + m)
<1>1. n \in Nat /\ m \in Nat /\ w = MeantUpTo(n) /\ GoesOn(d, n, m) /\ n + m \in Nat
  BY DEF WrittenTo, Continues
<1>2. QED
  BY <1>1, MeantMore DEF WrittenTo

LEMMA NothingMore ==
  ASSUME NEW n \in Nat, NEW d, d = << >>
  PROVE  MeantUpTo(n) \o d = MeantUpTo(n)
<1>1. GoesOn(d, n, 0)
  BY DEF GoesOn
<1>2. n + 0 = n
  OBVIOUS
<1>3. MeantUpTo(n) \o d = MeantUpTo(n + 0)
  BY <1>1, MeantMore
<1>4. QED
  BY <1>2, <1>3

-----------------------------------------------------------------------------
LEMMA StreamTypes ==
  ASSUME StreamInv, job # NoStreamJob
  PROVE  /\ StreamJobOK(job)
         /\ job.romSize \in Nat /\ job.missing \in Nat /\ job.outSize \in Nat
         /\ job.cutAt \in Nat \cup {-1} /\ job.fmt \in {"ips", "n64"}
         /\ Len(job.records) \in Nat /\ DOMAIN job.records = 1..Len(job.records)
         /\ job.records = << >> <=> Len(job.records) = 0
         /\ \A k \in 1..Len(job.records) :
              /\ job.records[k].at \in Nat /\ job.records[k].len \in Nat
              /\ EndOf(job.records[k]) = job.records[k].at + job.records[k].len
              /\ EndOf(job.records[k]) \in Nat
<1>1. StreamJobOK(job)
  BY DEF StreamInv
<1>2. /\ job.romSize \in Nat /\ job.missing \in Nat /\ job.outSize \in Nat
      /\ job.cutAt \in Nat \cup {-1} /\ job.fmt \in {"ips", "n64"}
      /\ job.records \in Seq([at : Nat, len : Nat, run : BOOLEAN])
  BY <1>1 DEF StreamJobOK
<1>3. ASSUME NEW k \in 1..Len(job.records)
      PROVE  /\ job.records[k].at \in Nat /\ job.records[k].len \in Nat
             /\ EndOf(job.records[k]) = job.records[k].at + job.records[k].len
             /\ EndOf(job.records[k]) \in Nat
  <2>1. job.records[k] \in [at : Nat, len : Nat, run : BOOLEAN]
    BY <1>2, Element
  <2>2. QED
    BY <2>1 DEF EndOf
<1>4. QED
  BY <1>1, <1>2, <1>3

\* Of records that ascend each starts where every one before it has ended.
LEMMA RecordsAscend ==
  ASSUME StreamInv, job # NoStreamJob, Usual
  PROVE  \A l \in 1..Len(job.records) : \A k \in 1..(l - 1) :
           EndOf(job.records[k]) <= job.records[l].at
<1> DEFINE N == Len(job.records)
           T == {l \in 1..N : \E k \in 1..(l - 1) :
                   ~(EndOf(job.records[k]) <= job.records[l].at)}
<1>1. N \in Nat /\ \A k \in 1..N : /\ job.records[k].at \in Nat /\ job.records[k].len \in Nat
                                   /\ EndOf(job.records[k]) \in Nat
                                   /\ job.records[k].at <= EndOf(job.records[k])
  <2>1. N \in Nat
    BY StreamTypes
  <2>2. ASSUME NEW k \in 1..N
        PROVE  /\ job.records[k].at \in Nat /\ job.records[k].len \in Nat
               /\ EndOf(job.records[k]) \in Nat
               /\ job.records[k].at <= EndOf(job.records[k])
    <3>1. /\ job.records[k].at \in Nat /\ job.records[k].len \in Nat
          /\ EndOf(job.records[k]) = job.records[k].at + job.records[k].len
      BY StreamTypes
    <3>2. QED
      BY <3>1
  <2>3. QED
    BY <2>1, <2>2
<1>2. \A k \in 2..N : EndOf(job.records[k - 1]) <= job.records[k].at
  BY DEF Usual
<1>3. SUFFICES ASSUME T # {} PROVE FALSE
  OBVIOUS
<1>4. PICK l \in T : \A m \in T : l <= m
  <2>1. T \subseteq Nat
    BY <1>1
  <2> HIDE DEF T
  <2>2. QED
    BY <1>3, <2>1, LeastMember
<1>5. l \in 1..N
  BY <1>4
<1>6. PICK k \in 1..(l - 1) : ~(EndOf(job.records[k]) <= job.records[l].at)
  BY <1>4
<1>7. PICK m \in 1..N : m = l - 1 /\ l \in 2..N /\ k \in 1..N /\ k <= m
  BY <1>1, <1>5, <1>6
<1>8. EndOf(job.records[m]) <= job.records[l].at
  BY <1>2, <1>7
<1>9. CASE k = m
  BY <1>6, <1>8, <1>9
<1>10. CASE k < m
  <2>1. m \notin T
    BY <1>4, <1>7
  <2>2. k \in 1..(m - 1)
    BY <1>7, <1>10
  <2>3. EndOf(job.records[k]) <= job.records[m].at
    BY <1>7, <2>1, <2>2
  <2> HIDE DEF T
  <2>4. /\ EndOf(job.records[k]) \in Nat /\ job.records[m].at \in Nat
        /\ EndOf(job.records[m]) \in Nat /\ job.records[l].at \in Nat
        /\ job.records[m].at <= EndOf(job.records[m])
    BY <1>1, <1>5, <1>7
  <2>5. EndOf(job.records[k]) <= EndOf(job.records[m])
    BY <2>3, <2>4
  <2>6. EndOf(job.records[k]) <= job.records[l].at
    BY <1>8, <2>4, <2>5
  <2>7. QED
    BY <1>6, <2>6
<1>11. QED
  BY <1>7, <1>9, <1>10

\* A byte of a record is meant to be that record's.
LEMMA MeantInRecord ==
  ASSUME StreamInv, job # NoStreamJob, Usual, NEW k \in 1..Len(job.records),
         NEW x \in Int, job.records[k].at <= x, x < EndOf(job.records[k])
  PROVE  MeantByte(x) = <<"rec", k, IF job.records[k].run THEN 0
                                    ELSE x - job.records[k].at + 1>>
<1>1. /\ DOMAIN job.records = 1..Len(job.records) /\ Len(job.records) \in Nat
      /\ \A m \in 1..Len(job.records) :
           job.records[m].at \in Nat /\ EndOf(job.records[m]) \in Nat
  BY StreamTypes
<1>2. k \in Covering(x)
  BY <1>1 DEF Covering
<1>3. ASSUME NEW l \in Covering(x) PROVE l = k
  <2>1. /\ l \in 1..Len(job.records) /\ job.records[l].at <= x
        /\ x < EndOf(job.records[l])
    BY <1>1 DEF Covering
  <2>2. CASE l < k
    <3>1. l \in 1..(k - 1)
      BY <2>1, <2>2
    <3>2. EndOf(job.records[l]) <= job.records[k].at
      BY <3>1, RecordsAscend
    <3>3. QED
      BY <1>1, <2>1, <3>2
  <2>3. CASE k < l
    <3>1. k \in 1..(l - 1)
      BY <2>1, <2>3
    <3>2. EndOf(job.records[k]) <= job.records[l].at
      BY <2>1, <3>1, RecordsAscend
    <3>3. QED
      BY <1>1, <2>1, <3>2
  <2>4. QED
    BY <2>1, <2>2, <2>3
<1>4. Covering(x) = {k}
  BY <1>2, <1>3
<1>5. (CHOOSE m \in Covering(x) : \A l \in Covering(x) : l <= m) = k
  <2>1. k <= k
    OBVIOUS
  <2>2. QED
    BY <1>4, <2>1
<1>6. QED
  BY <1>4, <1>5 DEF MeantByte

\* A byte before a record and after the one before it is the ROM's, or a zero.
LEMMA MeantOutside ==
  ASSUME StreamInv, job # NoStreamJob, Usual, NEW x \in Int,
         rec \in 1..(Len(job.records) + 1), PrevEnd <= x, HasRecord => x < Rec.at
  PROVE  MeantByte(x) = IF x < job.romSize THEN <<"rom", x>> ELSE Zero
<1>1. /\ DOMAIN job.records = 1..Len(job.records) /\ Len(job.records) \in Nat
      /\ \A m \in 1..Len(job.records) :
           /\ job.records[m].at \in Nat /\ job.records[m].len \in Nat
           /\ EndOf(job.records[m]) \in Nat /\ job.records[m].at <= EndOf(job.records[m])
  <2>1. DOMAIN job.records = 1..Len(job.records) /\ Len(job.records) \in Nat
    BY StreamTypes
  <2>2. ASSUME NEW m \in 1..Len(job.records)
        PROVE  /\ job.records[m].at \in Nat /\ job.records[m].len \in Nat
               /\ EndOf(job.records[m]) \in Nat /\ job.records[m].at <= EndOf(job.records[m])
    <3>1. /\ job.records[m].at \in Nat /\ job.records[m].len \in Nat
          /\ EndOf(job.records[m]) = job.records[m].at + job.records[m].len
      BY StreamTypes
    <3>2. QED
      BY <3>1
  <2>3. QED
    BY <2>1, <2>2
<1>2. ASSUME NEW l \in 1..Len(job.records) PROVE ~(job.records[l].at <= x /\ x < EndOf(job.records[l]))
  <2>1. CASE l < rec
    <3>1. PICK p \in 1..Len(job.records) : p = rec - 1 /\ l <= p
      BY <1>1, <2>1
    <3>2. PrevEnd = EndOf(job.records[p])
      BY <2>1, <3>1 DEF PrevEnd
    <3>3. EndOf(job.records[l]) <= EndOf(job.records[p])
      <4>1. CASE l = p
        BY <1>1, <4>1
      <4>2. CASE l < p
        <5>1. l \in 1..(p - 1)
          BY <4>2
        <5>2. EndOf(job.records[l]) <= job.records[p].at
          BY <5>1, RecordsAscend
        <5>3. QED
          BY <1>1, <5>2
      <4>3. QED
        BY <3>1, <4>1, <4>2
    <3>4. QED
      BY <1>1, <3>2, <3>3
  <2>2. CASE rec <= l
    <3>1. HasRecord /\ rec \in 1..Len(job.records)
      BY <1>1, <2>2 DEF HasRecord
    <3>2. Rec = job.records[rec] /\ x < job.records[rec].at
      BY <3>1 DEF Rec
    <3>3. job.records[rec].at <= job.records[l].at
      <4>1. CASE l = rec
        BY <1>1, <4>1
      <4>2. CASE rec < l
        <5>1. rec \in 1..(l - 1)
          BY <3>1, <4>2
        <5>2. EndOf(job.records[rec]) <= job.records[l].at
          BY <5>1, RecordsAscend
        <5>3. QED
          BY <1>1, <3>1, <5>2
      <4>3. QED
        BY <2>2, <3>1, <4>1, <4>2
    <3>4. QED
      BY <1>1, <3>1, <3>2, <3>3
  <2>3. QED
    BY <2>1, <2>2
<1>3. Covering(x) = {}
  BY <1>1, <1>2 DEF Covering
<1>4. QED
  BY <1>3 DEF MeantByte

\* What the invariant says of a usual patch between two steps.
LEMMA StreamAt ==
  ASSUME StreamInv, job # NoStreamJob, Usual
  PROVE  /\ rec \in 1..(Len(job.records) + 1) /\ handle \in Nat /\ rec \in Nat
         /\ PrevEnd \in Nat
         /\ HasRecord => /\ rec \in 1..Len(job.records) /\ Rec = job.records[rec]
                         /\ Rec.at \in Nat /\ Rec.len \in Nat /\ EndOf(Rec) \in Nat
                         /\ EndOf(Rec) = Rec.at + Rec.len
                         /\ PrevEnd <= Rec.at
         /\ ~HasRecord => rec = Len(job.records) + 1 /\ PrevEnd = LastEnd
         /\ step = "record" => /\ outPos = PrevEnd /\ romPos = Least(PrevEnd, job.romSize)
                               /\ PrevEnd <= job.romSize => handle = PrevEnd
         /\ step = "data" => /\ HasRecord /\ outPos = Rec.at
                             /\ romPos = Least(Rec.at, job.romSize)
                             /\ Rec.at <= job.romSize => handle = Rec.at
         /\ step = "skip" => /\ HasRecord /\ outPos = EndOf(Rec)
                             /\ romPos = Least(Rec.at, job.romSize)
                             /\ Rec.at <= job.romSize => handle = Rec.at
         /\ step # "done" => written = MeantUpTo(outPos)
<1>1. /\ Len(job.records) \in Nat
      /\ job.records = << >> <=> Len(job.records) = 0
      /\ \A k \in 1..Len(job.records) :
           /\ job.records[k].at \in Nat /\ job.records[k].len \in Nat
           /\ EndOf(job.records[k]) = job.records[k].at + job.records[k].len
           /\ EndOf(job.records[k]) \in Nat
  BY StreamTypes
<1>2. rec \in 1..(Len(job.records) + 1) /\ handle \in Nat /\ rec \in Nat
  BY DEF StreamInv
<1>3. PrevEnd \in Nat
  <2>1. CASE rec = 1
    BY <2>1 DEF PrevEnd
  <2>2. CASE rec # 1
    <3>1. rec - 1 \in 1..Len(job.records)
      BY <1>1, <1>2, <2>2
    <3>2. QED
      BY <1>1, <2>2, <3>1 DEF PrevEnd
  <2>3. QED
    BY <2>1, <2>2
<1>4. ASSUME HasRecord
      PROVE  /\ rec \in 1..Len(job.records) /\ Rec = job.records[rec]
             /\ Rec.at \in Nat /\ Rec.len \in Nat /\ EndOf(Rec) \in Nat
             /\ EndOf(Rec) = Rec.at + Rec.len
             /\ PrevEnd <= Rec.at
  <2>1. rec \in 1..Len(job.records) /\ Rec = job.records[rec]
    BY <1>1, <1>2, <1>4 DEF HasRecord, Rec
  <2>2. Rec.at \in Nat /\ Rec.len \in Nat /\ EndOf(Rec) \in Nat /\ EndOf(Rec) = Rec.at + Rec.len
    BY <1>1, <2>1
  <2>3. PrevEnd <= Rec.at
    <3>1. CASE rec = 1
      BY <2>2, <3>1 DEF PrevEnd
    <3>2. CASE rec # 1
      <4>1. rec \in 2..Len(job.records)
        BY <1>1, <2>1, <3>2
      <4>2. EndOf(job.records[rec - 1]) <= job.records[rec].at
        BY <4>1 DEF Usual
      <4>3. QED
        BY <2>1, <3>2, <4>2 DEF PrevEnd
    <3>3. QED
      BY <3>1, <3>2
  <2>4. QED
    BY <2>1, <2>2, <2>3
<1>5. ASSUME ~HasRecord PROVE rec = Len(job.records) + 1 /\ PrevEnd = LastEnd
  <2>1. rec = Len(job.records) + 1
    BY <1>1, <1>2, <1>5 DEF HasRecord
  <2>2. PrevEnd = LastEnd
    <3>1. CASE rec = 1
      BY <1>1, <2>1, <3>1 DEF PrevEnd, LastEnd
    <3>2. CASE rec # 1
      <4>1. rec - 1 = Len(job.records) /\ job.records # << >>
        BY <1>1, <2>1, <3>2
      <4>2. QED
        BY <3>2, <4>1 DEF PrevEnd, LastEnd
    <3>3. QED
      BY <3>1, <3>2
  <2>3. QED
    BY <2>1, <2>2
<1>6. /\ step = "record" => /\ outPos = PrevEnd /\ romPos = Least(PrevEnd, job.romSize)
                            /\ PrevEnd <= job.romSize => handle = PrevEnd
      /\ step = "data" => /\ HasRecord /\ outPos = Rec.at
                          /\ romPos = Least(Rec.at, job.romSize)
                          /\ Rec.at <= job.romSize => handle = Rec.at
      /\ step = "skip" => /\ HasRecord /\ outPos = EndOf(Rec)
                          /\ romPos = Least(Rec.at, job.romSize)
                          /\ Rec.at <= job.romSize => handle = Rec.at
  BY DEF StreamInv
<1>7. step # "done" => written = MeantUpTo(outPos)
  BY DEF StreamInv, MeantUpTo
<1>8. QED
  BY <1>2, <1>3, <1>4, <1>5, <1>6, <1>7

\* A patch that is not usual is of no concern.
LEMMA StreamUnusual ==
  ASSUME StreamInv, job # NoStreamJob, ~Usual, job' = job,
         step' \in {"record", "data", "skip", "done"}
  PROVE  StreamInv'
<1>1. ~Usual'
  BY DEF Usual, LastEnd, EndOf
<1>2. StreamJobOK(job)
  BY DEF StreamInv
<1>3. QED
  BY <1>1, <1>2 DEF StreamInv

\* The definitions of what is meant only look at the job.
LEMMA SameJob ==
  ASSUME job' = job
  PROVE  /\ Usual' <=> Usual
         /\ MeantSize' = MeantSize /\ LastEnd' = LastEnd
         /\ \A n : [i \in 1..n |-> MeantByte(i - 1)'] = MeantUpTo(n)
         /\ rec' = rec => PrevEnd' = PrevEnd /\ Rec' = Rec /\ (HasRecord' <=> HasRecord)
<1>1. /\ Usual' <=> Usual
      /\ MeantSize' = MeantSize /\ LastEnd' = LastEnd
  BY DEF Usual, LastEnd, EndOf, MeantSize, Least
<1>2. \A x : MeantByte(x)' = MeantByte(x)
  BY DEF MeantByte, Covering, EndOf, Zero
<1>3. \A n : [i \in 1..n |-> MeantByte(i - 1)'] = MeantUpTo(n)
  BY <1>2 DEF MeantUpTo
<1>4. rec' = rec => PrevEnd' = PrevEnd /\ Rec' = Rec /\ (HasRecord' <=> HasRecord)
  BY DEF PrevEnd, Rec, HasRecord, EndOf
<1>5. QED
  BY <1>1, <1>3, <1>4

\* The bytes of the ROM that are there.
LEMMA RomRun ==
  ASSUME StreamInv, job # NoStreamJob, NEW h \in Nat, NEW n \in Int
  PROVE  /\ n <= 0 => RomBytes(h, n) = << >> /\ Len(RomBytes(h, n)) = 0
         /\ \A m \in Nat : m = Least(n, job.romSize - h) =>
              /\ RomBytes(h, n) = [i \in 1..m |-> <<"rom", h + i - 1>>]
              /\ Len(RomBytes(h, n)) = m
<1>1. job.romSize \in Nat
  BY StreamTypes
<1>2. ASSUME NEW m \in Nat, AtLeast0(Least(n, job.romSize - h)) = m
      PROVE  /\ RomBytes(h, n) = [i \in 1..m |-> <<"rom", h + i - 1>>]
             /\ Len(RomBytes(h, n)) = m
  BY <1>2 DEF RomBytes
<1>3. ASSUME n <= 0 PROVE RomBytes(h, n) = << >> /\ Len(RomBytes(h, n)) = 0
  <2>1. AtLeast0(Least(n, job.romSize - h)) = 0
    BY <1>1, <1>3 DEF AtLeast0, Least
  <2>2. QED
    BY <1>2, <2>1
<1>4. ASSUME NEW m \in Nat, m = Least(n, job.romSize - h)
      PROVE  AtLeast0(Least(n, job.romSize - h)) = m
  BY <1>4 DEF AtLeast0
<1>5. QED
  BY <1>2, <1>3, <1>4

LEMMA RomThere ==
  ASSUME StreamInv, job # NoStreamJob, NEW h, NEW n, NEW m,
         h \in Nat, n \in Int, m \in Nat, m = Least(n, job.romSize - h)
  PROVE  RomBytes(h, n) = [i \in 1..m |-> <<"rom", h + i - 1>>] /\ Len(RomBytes(h, n)) = m
  BY RomRun

\* Zeros and bytes of the ROM that are meant where they are put.
LEMMA ZerosGoOn ==
  ASSUME NEW n \in Nat, NEW m \in Nat,
         \A i \in 1..m : MeantByte(n + i - 1) = Zero
  PROVE  GoesOn(Zeros(m), n, m)
<1>1. AtLeast0(m) = m
  BY DEF AtLeast0
<1>2. QED
  BY <1>1 DEF GoesOn, Zeros

LEMMA CopyToOffsetKeeps ==
  ASSUME StreamInv, job # NoStreamJob, CopyToOffset
  PROVE  StreamInv'
<1> DEFINE upto == Least(Rec.at, job.romSize)
           copied == AtLeast0(upto - outPos)
           fill == IF Rec.at > job.romSize THEN Rec.at - (outPos + copied) ELSE 0
           data == RomBytes(handle, copied)
<1>1. /\ step = "record" /\ HasRecord /\ step' = "data" /\ job' = job /\ rec' = rec
      /\ written' = (written \o data) \o Zeros(fill)
      /\ handle' = handle + Len(data) /\ romPos' = romPos + copied
      /\ outPos' = outPos + copied + AtLeast0(fill)
  BY DEF CopyToOffset
<1>2. CASE ~Usual
  BY <1>1, <1>2, StreamUnusual
<1>3. CASE Usual
  <2>1. /\ rec \in 1..(Len(job.records) + 1) /\ rec \in 1..Len(job.records) /\ handle \in Nat
        /\ PrevEnd \in Nat /\ Rec.at \in Nat /\ PrevEnd <= Rec.at
        /\ outPos = PrevEnd /\ romPos = Least(PrevEnd, job.romSize)
        /\ PrevEnd <= job.romSize => handle = PrevEnd
        /\ written = MeantUpTo(PrevEnd)
    BY <1>1, <1>3, StreamAt
  <2>2. job.romSize \in Nat /\ StreamJobOK(job)
    BY StreamTypes
  <2>3. ASSUME NEW x \in Int, PrevEnd <= x, x < Rec.at
        PROVE  MeantByte(x) = IF x < job.romSize THEN <<"rom", x>> ELSE Zero
    BY <1>3, <2>1, <2>3, MeantOutside
  <2>4. SUFFICES /\ written' = MeantUpTo(Rec.at) /\ outPos' = Rec.at
                 /\ romPos' = Least(Rec.at, job.romSize)
                 /\ handle' \in Nat /\ (Rec.at <= job.romSize => handle' = Rec.at)
    <3>1. /\ Usual' /\ Rec' = Rec /\ HasRecord' /\ \A n : [i \in 1..n |-> MeantByte(i - 1)'] = MeantUpTo(n)
      BY <1>1, <1>3, SameJob
    <3>2. written' = [i \in 1..outPos' |-> MeantByte(i - 1)']
      BY <2>4, <3>1
    <3>3. QED
      BY <1>1, <2>1, <2>2, <2>4, <3>1, <3>2 DEF StreamInv
  <2>5. CASE Rec.at <= job.romSize
    <3>1. upto = Rec.at /\ copied = Rec.at - PrevEnd /\ fill = 0 /\ copied \in Nat
          /\ AtLeast0(fill) = 0 /\ handle = PrevEnd /\ romPos = PrevEnd
      BY <2>1, <2>2, <2>5 DEF Least, AtLeast0
    <3>2. copied = Least(copied, job.romSize - handle)
      BY <2>1, <2>2, <2>5, <3>1 DEF Least
    <3> HIDE DEF upto, copied, fill, data
    <3>3. data = [i \in 1..copied |-> <<"rom", PrevEnd + i - 1>>] /\ Len(data) = copied
      <4>1. copied \in Int /\ copied \in Nat /\ handle \in Nat
        BY <2>1, <3>1
      <4>2. /\ RomBytes(handle, copied) = [i \in 1..copied |-> <<"rom", handle + i - 1>>]
            /\ Len(RomBytes(handle, copied)) = copied
        BY <3>2, <4>1, RomThere
      <4>3. QED
        BY <3>1, <4>2 DEF data
    <3>4. GoesOn(data, PrevEnd, copied)
      <4>1. ASSUME NEW i \in 1..copied
            PROVE  MeantByte(PrevEnd + i - 1) = <<"rom", PrevEnd + i - 1>>
        <5>1. /\ PrevEnd + i - 1 \in Int /\ PrevEnd <= PrevEnd + i - 1
              /\ PrevEnd + i - 1 < Rec.at /\ PrevEnd + i - 1 < job.romSize
          BY <2>1, <2>2, <2>5, <3>1
        <5>2. QED
          BY <2>3, <5>1
      <4>2. QED
        BY <3>3, <4>1 DEF GoesOn
    <3>5. PrevEnd + copied = Rec.at
      BY <2>1, <3>1
    <3>6. written \o data = MeantUpTo(Rec.at)
      <4>1. WrittenTo(written, PrevEnd) /\ Continues(data, PrevEnd, copied)
        BY <2>1, <3>1, <3>4 DEF WrittenTo, Continues
      <4>2. WrittenTo(written \o data, PrevEnd + copied)
        BY <4>1, WrittenMore
      <4>3. QED
        BY <3>5, <4>2 DEF WrittenTo
    <3>7. Zeros(fill) = << >>
      BY <3>1 DEF Zeros
    <3>8. written' = MeantUpTo(Rec.at)
      BY <1>1, <2>1, <3>6, <3>7, NothingMore
    <3>9. /\ handle' = PrevEnd + copied /\ romPos' = PrevEnd + copied
          /\ outPos' = (PrevEnd + copied) + 0
      BY <1>1, <2>1, <3>1, <3>3
    <3>10. handle' = Rec.at /\ romPos' = Rec.at /\ outPos' = Rec.at
      BY <2>1, <3>5, <3>9
    <3>11. Least(Rec.at, job.romSize) = Rec.at
      BY <2>5 DEF Least
    <3>12. QED
      BY <2>1, <3>8, <3>10, <3>11
  <2>6. CASE ~(Rec.at <= job.romSize) /\ PrevEnd <= job.romSize
    <3>1. /\ upto = job.romSize /\ copied = job.romSize - PrevEnd /\ copied \in Nat
          /\ fill = Rec.at - job.romSize /\ fill \in Nat /\ AtLeast0(fill) = fill
          /\ handle = PrevEnd /\ romPos = PrevEnd
      BY <2>1, <2>2, <2>6 DEF Least, AtLeast0
    <3>2. copied = Least(copied, job.romSize - handle)
      BY <2>1, <2>2, <3>1 DEF Least
    <3> HIDE DEF upto, copied, fill, data
    <3>3. data = [i \in 1..copied |-> <<"rom", PrevEnd + i - 1>>] /\ Len(data) = copied
      <4>1. copied \in Int /\ copied \in Nat /\ handle \in Nat
        BY <2>1, <3>1
      <4>2. /\ RomBytes(handle, copied) = [i \in 1..copied |-> <<"rom", handle + i - 1>>]
            /\ Len(RomBytes(handle, copied)) = copied
        BY <3>2, <4>1, RomThere
      <4>3. QED
        BY <3>1, <4>2 DEF data
    <3>4. GoesOn(data, PrevEnd, copied)
      <4>1. ASSUME NEW i \in 1..copied
            PROVE  MeantByte(PrevEnd + i - 1) = <<"rom", PrevEnd + i - 1>>
        <5>1. /\ PrevEnd + i - 1 \in Int /\ PrevEnd <= PrevEnd + i - 1
              /\ PrevEnd + i - 1 < job.romSize
          BY <2>1, <2>2, <3>1
        <5>2. PrevEnd + i - 1 < Rec.at
          BY <2>1, <2>2, <2>6, <5>1
        <5>3. QED
          BY <2>3, <5>1, <5>2
      <4>2. QED
        BY <3>3, <4>1 DEF GoesOn
    <3>5. PrevEnd + copied = job.romSize
      BY <2>1, <2>2, <3>1
    <3>6. WrittenTo(written \o data, job.romSize)
      <4>1. WrittenTo(written, PrevEnd) /\ Continues(data, PrevEnd, copied)
        BY <2>1, <3>1, <3>4 DEF WrittenTo, Continues
      <4>2. WrittenTo(written \o data, PrevEnd + copied)
        BY <4>1, WrittenMore
      <4>3. QED
        BY <3>5, <4>2
    <3>7. GoesOn(Zeros(fill), job.romSize, fill)
      <4>1. ASSUME NEW i \in 1..fill PROVE MeantByte(job.romSize + i - 1) = Zero
        <5>1. job.romSize + i - 1 \in Int /\ job.romSize + i - 1 >= job.romSize
          BY <2>2
        <5>2. job.romSize + i - 1 < Rec.at
          BY <2>1, <2>2, <3>1
        <5>3. PrevEnd <= job.romSize + i - 1 /\ ~(job.romSize + i - 1 < job.romSize)
          BY <2>1, <2>2, <2>6, <5>1
        <5>4. QED
          BY <2>3, <5>1, <5>2, <5>3
      <4>2. QED
        BY <2>2, <3>1, <4>1, ZerosGoOn
    <3>8. job.romSize + fill = Rec.at
      BY <2>1, <2>2, <3>1
    <3>9. written' = MeantUpTo(Rec.at)
      <4>1. Continues(Zeros(fill), job.romSize, fill)
        BY <3>1, <3>7 DEF Continues
      <4>2. WrittenTo((written \o data) \o Zeros(fill), job.romSize + fill)
        BY <3>6, <4>1, WrittenMore
      <4>3. QED
        BY <1>1, <3>8, <4>2 DEF WrittenTo
    <3>10. /\ handle' = PrevEnd + copied /\ romPos' = PrevEnd + copied
           /\ outPos' = (PrevEnd + copied) + fill
      BY <1>1, <2>1, <3>1, <3>3
    <3>11. handle' = job.romSize /\ romPos' = job.romSize /\ outPos' = Rec.at
      BY <3>5, <3>8, <3>10
    <3>12. Least(Rec.at, job.romSize) = job.romSize
      BY <2>6 DEF Least
    <3>13. QED
      BY <2>2, <2>6, <3>9, <3>11, <3>12
  <2>7. CASE ~(PrevEnd <= job.romSize)
    <3>1. /\ upto = job.romSize /\ copied = 0
          /\ fill = Rec.at - PrevEnd /\ fill \in Nat /\ AtLeast0(fill) = fill
          /\ romPos = job.romSize
      BY <2>1, <2>2, <2>7 DEF Least, AtLeast0
    <3> HIDE DEF upto, copied, fill, data
    <3>2. data = << >> /\ Len(data) = 0
      BY <2>1, <3>1, RomRun DEF data
    <3>3. WrittenTo(written \o data, PrevEnd)
      BY <2>1, <3>2, NothingMore DEF WrittenTo
    <3>4. GoesOn(Zeros(fill), PrevEnd, fill)
      <4>1. ASSUME NEW i \in 1..fill PROVE MeantByte(PrevEnd + i - 1) = Zero
        <5>1. /\ PrevEnd + i - 1 \in Int /\ PrevEnd <= PrevEnd + i - 1
              /\ PrevEnd + i - 1 < Rec.at /\ ~(PrevEnd + i - 1 < job.romSize)
          BY <2>1, <2>2, <2>7, <3>1
        <5>2. QED
          BY <2>3, <5>1
      <4>2. QED
        BY <2>1, <3>1, <4>1, ZerosGoOn
    <3>5. PrevEnd + fill = Rec.at
      BY <2>1, <3>1
    <3>6. written' = MeantUpTo(Rec.at)
      <4>1. Continues(Zeros(fill), PrevEnd, fill)
        BY <3>1, <3>4 DEF Continues
      <4>2. WrittenTo((written \o data) \o Zeros(fill), PrevEnd + fill)
        BY <3>3, <4>1, WrittenMore
      <4>3. QED
        BY <1>1, <3>5, <4>2 DEF WrittenTo
    <3>7. /\ handle' = handle + 0 /\ romPos' = job.romSize + 0
          /\ outPos' = (PrevEnd + 0) + fill
      BY <1>1, <2>1, <3>1, <3>2
    <3>8. handle' = handle /\ romPos' = job.romSize /\ outPos' = Rec.at
      BY <2>1, <2>2, <3>5, <3>7
    <3>9. Least(Rec.at, job.romSize) = job.romSize /\ ~(Rec.at <= job.romSize)
      BY <2>1, <2>2, <2>7 DEF Least
    <3>10. QED
      BY <2>1, <3>6, <3>8, <3>9
  <2>8. QED
    BY <2>5, <2>6, <2>7
<1>4. QED
  BY <1>2, <1>3

LEMMA WriteDataKeeps ==
  ASSUME StreamInv, job # NoStreamJob, WriteData
  PROVE  StreamInv'
<1> DEFINE have == IF Short THEN Rec.len - job.missing ELSE Rec.len
           data == [j \in 1..have |-> <<"rec", rec, IF Rec.run THEN 0 ELSE j>>]
<1>1. /\ step = "data" /\ step' = "skip" /\ UNCHANGED <<job, rec, romPos, handle>>
      /\ written' = written \o data /\ outPos' = outPos + Rec.len
  BY DEF WriteData
<1>2. CASE ~Usual
  BY <1>1, <1>2, StreamUnusual
<1>3. CASE Usual
  <2>1. /\ rec \in 1..(Len(job.records) + 1) /\ handle \in Nat /\ HasRecord
        /\ rec \in 1..Len(job.records) /\ Rec = job.records[rec]
        /\ Rec.at \in Nat /\ Rec.len \in Nat /\ EndOf(Rec) = Rec.at + Rec.len
        /\ outPos = Rec.at /\ romPos = Least(Rec.at, job.romSize)
        /\ Rec.at <= job.romSize => handle = Rec.at
        /\ written = MeantUpTo(Rec.at)
    BY <1>1, <1>3, StreamAt
  <2>2. StreamJobOK(job)
    BY StreamTypes
  <2>3. have = Rec.len
    BY <1>3 DEF Usual, Short
  <2> HIDE DEF have
  <2>4. GoesOn(data, Rec.at, Rec.len)
    <3>1. ASSUME NEW j \in 1..Rec.len
          PROVE  MeantByte(Rec.at + j - 1) = <<"rec", rec, IF Rec.run THEN 0 ELSE j>>
      <4>1. /\ Rec.at + j - 1 \in Int /\ Rec.at <= Rec.at + j - 1
            /\ Rec.at + j - 1 < EndOf(Rec) /\ (Rec.at + j - 1) - Rec.at + 1 = j
        BY <2>1
      <4>2. QED
        BY <1>3, <2>1, <4>1, MeantInRecord
    <3>2. QED
      BY <2>3, <3>1 DEF GoesOn
  <2> HIDE DEF data
  <2>5. written' = MeantUpTo(EndOf(Rec)) /\ outPos' = EndOf(Rec)
    <3>1. WrittenTo(written, Rec.at) /\ Continues(data, Rec.at, Rec.len)
      BY <2>1, <2>4 DEF WrittenTo, Continues
    <3>2. WrittenTo(written \o data, Rec.at + Rec.len)
      BY <3>1, WrittenMore
    <3>3. QED
      BY <1>1, <2>1, <3>2 DEF WrittenTo
  <2>6. /\ Usual' /\ Rec' = Rec /\ HasRecord' /\ \A n : [i \in 1..n |-> MeantByte(i - 1)'] = MeantUpTo(n)
        /\ EndOf(Rec)' = EndOf(Rec)
    BY <1>1, <1>3, <2>1, SameJob DEF EndOf
  <2>7. written' = [i \in 1..outPos' |-> MeantByte(i - 1)']
    BY <2>5, <2>6
  <2>8. QED
    BY <1>1, <2>1, <2>2, <2>5, <2>6, <2>7 DEF StreamInv
<1>4. QED
  BY <1>2, <1>3

LEMMA SkipReplacedKeeps ==
  ASSUME StreamInv, job # NoStreamJob, SkipReplaced
  PROVE  StreamInv'
<1>1. /\ step = "skip" /\ step' = "record" /\ rec' = rec + 1
      /\ UNCHANGED <<job, outPos, written>>
      /\ Rec.at > job.romSize => romPos' = romPos /\ handle' = handle
      /\ ~(Rec.at > job.romSize) =>
           IF romPos + Rec.len > job.romSize
           THEN romPos' = job.romSize /\ handle' = handle
           ELSE romPos' = romPos + Rec.len /\ handle' = romPos + Rec.len
  BY DEF SkipReplaced
<1>2. CASE ~Usual
  BY <1>1, <1>2, StreamUnusual
<1>3. CASE Usual
  <2>1. /\ handle \in Nat /\ rec \in Nat
        /\ rec \in 1..Len(job.records) /\ Rec = job.records[rec]
        /\ Rec.at \in Nat /\ Rec.len \in Nat /\ EndOf(Rec) = Rec.at + Rec.len
        /\ outPos = EndOf(Rec) /\ romPos = Least(Rec.at, job.romSize)
        /\ Rec.at <= job.romSize => handle = Rec.at
        /\ written = MeantUpTo(outPos)
    BY <1>1, <1>3, StreamAt
  <2>2. StreamJobOK(job) /\ job.romSize \in Nat /\ Len(job.records) \in Nat
    BY StreamTypes
  <2>3. /\ Usual' /\ \A n : [i \in 1..n |-> MeantByte(i - 1)'] = MeantUpTo(n)
    BY <1>1, <1>3, SameJob
  <2>4. PrevEnd' = EndOf(Rec)
    <3>1. rec' # 1 /\ rec' - 1 = rec
      BY <1>1, <2>1
    <3>2. QED
      BY <1>1, <2>1, <3>1 DEF PrevEnd, EndOf
  <2>5. rec' \in 1..(Len(job.records) + 1)
    BY <1>1, <2>1, <2>2
  <2>6. /\ romPos' = Least(EndOf(Rec), job.romSize)
        /\ handle' \in Nat /\ (EndOf(Rec) <= job.romSize => handle' = EndOf(Rec))
    <3>1. CASE Rec.at > job.romSize
      <4>1. romPos' = job.romSize /\ handle' = handle /\ ~(EndOf(Rec) <= job.romSize)
        BY <1>1, <2>1, <2>2, <3>1 DEF Least
      <4>2. QED
        BY <2>1, <2>2, <4>1 DEF Least
    <3>2. CASE Rec.at <= job.romSize /\ EndOf(Rec) > job.romSize
      <4>1. romPos = Rec.at /\ romPos + Rec.len > job.romSize /\ ~(Rec.at > job.romSize)
        BY <2>1, <2>2, <3>2 DEF Least
      <4>2. romPos' = job.romSize /\ handle' = handle /\ ~(EndOf(Rec) <= job.romSize)
        BY <1>1, <2>1, <2>2, <3>2, <4>1
      <4>3. QED
        BY <2>1, <2>2, <4>2 DEF Least
    <3>3. CASE EndOf(Rec) <= job.romSize
      <4>1. Rec.at <= job.romSize /\ ~(Rec.at > job.romSize)
        BY <2>1, <2>2, <3>3
      <4>2. romPos = Rec.at /\ ~(romPos + Rec.len > job.romSize)
        BY <2>1, <2>2, <3>3, <4>1 DEF Least
      <4>3. romPos' = EndOf(Rec) /\ handle' = EndOf(Rec)
        BY <1>1, <2>1, <4>1, <4>2
      <4>4. EndOf(Rec) \in Nat /\ Least(EndOf(Rec), job.romSize) = EndOf(Rec)
        BY <2>1, <3>3 DEF Least
      <4>5. QED
        BY <4>3, <4>4
    <3>4. Rec.at <= EndOf(Rec) /\ EndOf(Rec) \in Nat
      BY <2>1
    <3>5. QED
      BY <2>1, <2>2, <3>1, <3>2, <3>3, <3>4
  <2>7. written' = [i \in 1..outPos' |-> MeantByte(i - 1)']
    BY <1>1, <2>1, <2>3
  <2>8. QED
    BY <1>1, <2>1, <2>2, <2>3, <2>4, <2>5, <2>6, <2>7 DEF StreamInv
<1>4. QED
  BY <1>2, <1>3

\* The rest of the ROM, as far as byte `end'.
LEMMA TailRight ==
  ASSUME StreamInv, job # NoStreamJob, Usual, rec = Len(job.records) + 1, ~HasRecord,
         PrevEnd \in Nat, written = MeantUpTo(PrevEnd), handle = PrevEnd,
         NEW end \in Nat, PrevEnd <= end, end <= job.romSize,
         NEW n, n \in Int, end - PrevEnd = Least(n, job.romSize - PrevEnd)
  PROVE  written \o RomBytes(handle, n) = MeantUpTo(end)
<1>1. Len(job.records) \in Nat /\ job.romSize \in Nat
  BY StreamTypes
<1>2. PICK m \in Nat : m = end - PrevEnd /\ PrevEnd + m = end
  OBVIOUS
<1>3. RomBytes(PrevEnd, n) = [i \in 1..m |-> <<"rom", PrevEnd + i - 1>>]
  BY <1>2, RomThere
<1>4. ASSUME NEW i \in 1..m PROVE MeantByte(PrevEnd + i - 1) = <<"rom", PrevEnd + i - 1>>
  <2>1. /\ PrevEnd + i - 1 \in Int /\ PrevEnd <= PrevEnd + i - 1
        /\ PrevEnd + i - 1 < job.romSize /\ rec \in 1..(Len(job.records) + 1)
    BY <1>1, <1>2
  <2>2. QED
    BY <2>1, MeantOutside
<1>5. WrittenTo(written, PrevEnd) /\ Continues(RomBytes(PrevEnd, n), PrevEnd, m)
  BY <1>2, <1>3, <1>4 DEF WrittenTo, Continues, GoesOn
<1>6. WrittenTo(written \o RomBytes(PrevEnd, n), PrevEnd + m)
  BY <1>5, WrittenMore
<1>7. QED
  BY <1>2, <1>6 DEF WrittenTo

\* How a run ends.
LEMMA StreamEnds ==
  ASSUME StreamInv, job # NoStreamJob, Usual, step' = "done",
         UNCHANGED <<job, rec, handle>>, written' = MeantUpTo(MeantSize)
  PROVE  StreamInv'
<1>1. /\ Usual' /\ MeantSize' = MeantSize
      /\ \A n : [i \in 1..n |-> MeantByte(i - 1)'] = MeantUpTo(n)
  BY SameJob
<1>2. written' = [i \in 1..MeantSize' |-> MeantByte(i - 1)']
  BY <1>1
<1>3. /\ StreamJobOK(job) /\ rec \in 1..(Len(job.records) + 1) /\ handle \in Nat
  BY StreamTypes, StreamAt
<1>4. QED
  BY <1>1, <1>2, <1>3 DEF StreamInv

\* Where the patch has no record left.
LEMMA AfterRecords ==
  ASSUME StreamInv, job # NoStreamJob, Usual, step = "record", ~HasRecord
  PROVE  /\ rec = Len(job.records) + 1 /\ PrevEnd = LastEnd /\ PrevEnd \in Nat
         /\ outPos = PrevEnd /\ romPos = Least(PrevEnd, job.romSize)
         /\ PrevEnd <= job.romSize => handle = PrevEnd
         /\ handle \in Nat /\ written = MeantUpTo(PrevEnd)
         /\ job.romSize \in Nat /\ job.outSize \in Nat /\ job.cutAt \in Nat \cup {-1}
  BY StreamAt, StreamTypes

LEMMA IpsEndKeeps ==
  ASSUME StreamInv, job # NoStreamJob, IpsEnd
  PROVE  StreamInv'
<1> DEFINE n == (IF job.cutAt >= romPos THEN job.cutAt ELSE job.romSize) - romPos
<1>1. /\ step = "record" /\ ~HasRecord /\ job.fmt = "ips" /\ job.eof /\ step' = "done"
      /\ UNCHANGED <<job, rec, romPos, outPos, handle>>
      /\ romPos < job.romSize => written' = written \o RomBytes(handle, n)
      /\ ~(romPos < job.romSize) => written' = written \o << >>
  BY DEF IpsEnd
<1>2. CASE ~Usual
  BY <1>1, <1>2, StreamUnusual
<1>3. CASE Usual
  <2>1. /\ rec = Len(job.records) + 1 /\ PrevEnd = LastEnd /\ PrevEnd \in Nat
        /\ romPos = Least(PrevEnd, job.romSize)
        /\ PrevEnd <= job.romSize => handle = PrevEnd
        /\ handle \in Nat /\ written = MeantUpTo(PrevEnd)
        /\ job.romSize \in Nat /\ job.cutAt \in Nat \cup {-1}
    BY <1>1, <1>3, AfterRecords
  <2>2. job.cutAt # -1 => PrevEnd <= Least(job.cutAt, job.romSize)
    BY <1>1, <1>3, <2>1 DEF Usual
  <2>3. MeantSize = IF job.cutAt # -1 THEN Least(job.cutAt, job.romSize)
                    ELSE IF PrevEnd > job.romSize THEN PrevEnd ELSE job.romSize
    BY <1>1, <2>1 DEF MeantSize
  <2>4. SUFFICES written' = MeantUpTo(MeantSize)
    BY <1>1, <1>3, StreamEnds
  <2>5. CASE romPos < job.romSize
    <3>1. PrevEnd < job.romSize /\ romPos = PrevEnd /\ handle = PrevEnd
      BY <2>1, <2>5 DEF Least
    <3>2. /\ MeantSize \in Nat /\ PrevEnd <= MeantSize /\ MeantSize <= job.romSize
          /\ n \in Int /\ MeantSize - PrevEnd = Least(n, job.romSize - PrevEnd)
      BY <2>1, <2>2, <2>3, <3>1 DEF Least
    <3> HIDE DEF n
    <3>3. written \o RomBytes(handle, n) = MeantUpTo(MeantSize)
      BY <1>1, <1>3, <2>1, <3>1, <3>2, TailRight
    <3>4. QED
      BY <1>1, <2>5, <3>3
  <2>6. CASE ~(romPos < job.romSize)
    <3>1. PrevEnd >= job.romSize
      BY <2>1, <2>6 DEF Least
    <3>2. MeantSize = PrevEnd
      BY <2>1, <2>2, <2>3, <3>1 DEF Least
    <3>3. written \o << >> = MeantUpTo(PrevEnd)
      BY <2>1, NothingMore
    <3>4. QED
      BY <1>1, <2>6, <3>2, <3>3
  <2>7. QED
    BY <2>5, <2>6
<1>4. QED
  BY <1>2, <1>3

LEMMA IpsRunsOutKeeps ==
  ASSUME StreamInv, job # NoStreamJob, IpsRunsOut
  PROVE  StreamInv'
<1>1. /\ job.fmt = "ips" /\ ~job.eof /\ step' = "done" /\ job' = job
  BY DEF IpsRunsOut
<1>2. ~Usual
  BY <1>1 DEF Usual
<1>3. QED
  BY <1>1, <1>2, StreamUnusual

LEMMA N64EndKeeps ==
  ASSUME StreamInv, job # NoStreamJob, N64End
  PROVE  StreamInv'
<1>1. /\ step = "record" /\ ~HasRecord /\ job.fmt = "n64" /\ step' = "done"
      /\ UNCHANGED <<job, rec, romPos, outPos, handle>>
      /\ written' = written \o RomBytes(handle, job.outSize - outPos)
  BY DEF N64End
<1>2. CASE ~Usual
  BY <1>1, <1>2, StreamUnusual
<1>3. CASE Usual
  <2>1. /\ rec = Len(job.records) + 1 /\ PrevEnd = LastEnd /\ PrevEnd \in Nat
        /\ outPos = PrevEnd
        /\ PrevEnd <= job.romSize => handle = PrevEnd
        /\ handle \in Nat /\ written = MeantUpTo(PrevEnd)
        /\ job.romSize \in Nat /\ job.outSize \in Nat
    BY <1>1, <1>3, AfterRecords
  <2>2. PrevEnd = job.outSize \/ (PrevEnd < job.outSize /\ job.outSize <= job.romSize)
    BY <1>1, <1>3, <2>1 DEF Usual
  <2>3. MeantSize = job.outSize
    BY <1>1 DEF MeantSize
  <2>4. SUFFICES written' = MeantUpTo(MeantSize)
    BY <1>1, <1>3, StreamEnds
  <2>5. CASE PrevEnd = job.outSize
    <3>1. job.outSize - outPos = 0
      BY <2>1, <2>5
    <3>2. RomBytes(handle, 0) = << >>
      BY <2>1, RomRun
    <3>3. written \o << >> = MeantUpTo(PrevEnd)
      BY <2>1, NothingMore
    <3>4. QED
      BY <1>1, <2>3, <2>5, <3>1, <3>2, <3>3
  <2>6. CASE PrevEnd < job.outSize /\ job.outSize <= job.romSize
    <3> DEFINE n == job.outSize - outPos
    <3>1. /\ PrevEnd <= job.outSize /\ handle = PrevEnd /\ n \in Int
          /\ job.outSize - PrevEnd = Least(n, job.romSize - PrevEnd)
      BY <2>1, <2>6 DEF Least
    <3>2. written' = written \o RomBytes(handle, n)
      BY <1>1
    <3> HIDE DEF n
    <3>3. written \o RomBytes(handle, n) = MeantUpTo(job.outSize)
      BY <1>1, <1>3, <2>1, <2>6, <3>1, TailRight
    <3>4. QED
      BY <2>3, <3>2, <3>3
  <2>7. QED
    BY <2>2, <2>5, <2>6
<1>4. QED
  BY <1>2, <1>3

LEMMA StreamInit == StreamIdle => StreamInv
  BY DEF StreamIdle, StreamInv

LEMMA StreamUnchanged ==
  ASSUME StreamInv, UNCHANGED streamVars
  PROVE  StreamInv'
<1>1. UNCHANGED <<job, step, rec, romPos, outPos, handle, written>>
  BY DEF streamVars
<1>2. CASE job = NoStreamJob
  BY <1>1, <1>2 DEF StreamInv
<1>3. CASE job # NoStreamJob /\ ~Usual
  <2>1. step' \in {"record", "data", "skip", "done"}
    BY <1>1, <1>3 DEF StreamInv
  <2>2. QED
    BY <1>1, <1>3, <2>1, StreamUnusual
<1>4. CASE job # NoStreamJob /\ Usual
  <2>1. /\ Usual' /\ MeantSize' = MeantSize /\ PrevEnd' = PrevEnd /\ Rec' = Rec
        /\ HasRecord' <=> HasRecord
        /\ \A n : [i \in 1..n |-> MeantByte(i - 1)'] = MeantUpTo(n)
    BY <1>1, <1>4, SameJob
  <2>2. written = MeantUpTo(IF step = "done" THEN MeantSize ELSE outPos)
    BY <1>4 DEF StreamInv, MeantUpTo
  <2>3. written' = [i \in 1..(IF step' = "done" THEN MeantSize' ELSE outPos')
                      |-> MeantByte(i - 1)']
    BY <1>1, <2>1, <2>2
  <2>4. EndOf(Rec)' = EndOf(Rec)
    BY <2>1 DEF EndOf
  <2>5. /\ StreamJobOK(job)
        /\ step \in {"record", "data", "skip", "done"}
        /\ rec \in 1..(Len(job.records) + 1)
        /\ step \in {"data", "skip"} => HasRecord
        /\ outPos = CASE step = "record" -> PrevEnd
                      [] step = "data" -> Rec.at
                      [] step = "skip" -> EndOf(Rec)
                      [] OTHER -> outPos
        /\ handle \in Nat
        /\ step # "done" =>
             LET inRom == IF step = "record" THEN PrevEnd ELSE Rec.at
             IN /\ romPos = Least(inRom, job.romSize)
                /\ inRom <= job.romSize => handle = inRom
    BY <1>4 DEF StreamInv
  <2>6. QED
    BY <1>1, <1>4, <2>1, <2>3, <2>4, <2>5 DEF StreamInv
<1>5. QED
  BY <1>2, <1>3, <1>4

\* A job is taken as it is made from a selection.
LEMMA StartStreamKeeps ==
  ASSUME StreamInv, NEW j, StreamJobOK(j), StartStream(j)
  PROVE  StreamInv'
<1>1. /\ job = NoStreamJob /\ job' = j /\ step' = "record"
      /\ UNCHANGED <<rec, romPos, outPos, handle, written>>
      /\ rec = 1 /\ romPos = 0 /\ outPos = 0 /\ handle = 0 /\ written = << >>
  BY DEF StartStream, StreamInv
<1>2. CASE j = NoStreamJob
  BY <1>1, <1>2 DEF StreamInv
<1>3. CASE j # NoStreamJob
  <2>1. j.romSize \in Nat /\ Len(j.records) \in Nat
    BY DEF StreamJobOK
  <2>2. PrevEnd' = 0
    BY <1>1 DEF PrevEnd
  <2>3. Least(0, j.romSize) = 0
    BY <2>1 DEF Least
  <2>4. written' = [i \in 1..outPos' |-> MeantByte(i - 1)']
    BY <1>1
  <2>5. rec' \in 1..(Len(j.records) + 1)
    BY <1>1, <2>1
  <2>6. QED
    BY <1>1, <1>3, <2>1, <2>2, <2>3, <2>4, <2>5 DEF StreamInv
<1>4. QED
  BY <1>2, <1>3

LEMMA StreamKeeps ==
  ASSUME StreamInv, StreamStep
  PROVE  StreamInv'
<1>1. job # NoStreamJob
  BY DEF StreamStep, CopyToOffset, WriteData, SkipReplaced, IpsEnd, IpsRunsOut, N64End
<1>2. QED
  BY <1>1, CopyToOffsetKeeps, WriteDataKeeps, SkipReplacedKeeps, IpsEndKeeps,
     IpsRunsOutKeeps, N64EndKeeps DEF StreamStep

LEMMA StreamRight == StreamInv => PatchedRight
  BY DEF StreamInv, PatchedRight

-----------------------------------------------------------------------------
\* BPS: the next action is one that the maker of the patch can have written.

\* The numbers of an action, as the patcher reads them back.
LEMMA SignedBack ==
  ASSUME NEW d \in Int
  PROVE  Offset(Signed(d)) = d
<1>1. CASE d >= 0
  <2>1. (2 * d) % 2 = 0 /\ (2 * d) \div 2 = d
    BY <1>1
  <2>2. QED
    BY <1>1, <2>1 DEF Offset, Signed
<1>2. CASE d < 0
  <2>1. (1 - 2 * d) % 2 = 1 /\ (1 - 2 * d) \div 2 = -d
    BY <1>2
  <2>2. QED
    BY <1>2, <2>1 DEF Offset, Signed
<1>3. QED
  BY <1>1, <1>2

LEMMA LengthBack ==
  ASSUME NEW len \in Nat, len >= 1, NEW mode \in 0..3,
         NEW n, n = 4 * (len - 1) + mode
  PROVE  Mode(n) = mode /\ Length(n) = len
<1>1. (4 * (len - 1) + mode) % 4 = mode /\ (4 * (len - 1) + mode) \div 4 = len - 1
  OBVIOUS
<1>2. QED
  BY <1>1 DEF Mode, Length

\* The output has the bytes of the other file so far, and there is room for a run.
Fits(out, pos, len, y) ==
  /\ out \in Seq(Int) /\ y \in Seq(Int) /\ Len(out) = Len(y)
  /\ pos \in Nat /\ len \in Nat /\ pos + len <= Len(y)
  /\ \A i \in 1..pos : out[i] = y[i]

\* The bytes of a run are those of the other file.
Copies(v, from, len, y, pos) == \A k \in 1..len : v[from + k] = y[pos + k]

RunIn(out, pos, len, v, from) ==
  [i \in DOMAIN out |-> IF pos < i /\ i <= pos + len THEN v[from + (i - pos)] ELSE out[i]]

Good(new, y, pos) ==
  new \in Seq(Int) /\ Len(new) = Len(y) /\ \A i \in 1..pos : new[i] = y[i]

LEMMA RunRight ==
  ASSUME NEW out, NEW pos, NEW len, NEW y, NEW v, NEW from,
         Fits(out, pos, len, y), Copies(v, from, len, y, pos)
  PROVE  Good(RunIn(out, pos, len, v, from), y, pos + len)
<1> DEFINE new == RunIn(out, pos, len, v, from)
<1>1. /\ out \in Seq(Int) /\ y \in Seq(Int) /\ Len(out) = Len(y) /\ Len(out) \in Nat
      /\ pos \in Nat /\ len \in Nat /\ pos + len <= Len(y)
      /\ \A i \in 1..pos : out[i] = y[i]
      /\ DOMAIN out = 1..Len(out)
  <2>1. /\ out \in Seq(Int) /\ y \in Seq(Int) /\ Len(out) = Len(y)
        /\ pos \in Nat /\ len \in Nat /\ pos + len <= Len(y)
        /\ \A i \in 1..pos : out[i] = y[i]
    BY DEF Fits
  <2>2. Len(out) \in Nat /\ DOMAIN out = 1..Len(out)
    BY <2>1
  <2>3. QED
    BY <2>1, <2>2
<1>2. ASSUME NEW i \in 1..Len(out)
      PROVE  /\ pos < i /\ i <= pos + len => new[i] = y[i]
             /\ ~(pos < i /\ i <= pos + len) => new[i] = out[i]
  <2>1. CASE pos < i /\ i <= pos + len
    <3>1. i - pos \in 1..len /\ pos + (i - pos) = i
      BY <1>1, <2>1
    <3>2. v[from + (i - pos)] = y[pos + (i - pos)]
      BY <3>1 DEF Copies
    <3>3. new[i] = v[from + (i - pos)]
      BY <1>1, <2>1 DEF RunIn
    <3>4. QED
      BY <2>1, <3>1, <3>2, <3>3
  <2>2. CASE ~(pos < i /\ i <= pos + len)
    BY <1>1, <2>2 DEF RunIn
  <2>3. QED
    BY <2>1, <2>2
<1>3. new = [i \in 1..Len(out) |-> new[i]]
  BY <1>1 DEF RunIn
<1> HIDE DEF new
<1>4. \A i \in 1..Len(out) : new[i] \in Int
  BY <1>1, <1>2
<1>5. new \in Seq(Int) /\ Len(new) = Len(out)
  BY <1>1, <1>3, <1>4
<1>6. ASSUME NEW i \in 1..(pos + len) PROVE new[i] = y[i]
  <2>1. i \in 1..Len(out) /\ i <= pos + len
    BY <1>1
  <2>2. CASE pos < i
    BY <1>2, <2>1, <2>2
  <2>3. CASE ~(pos < i)
    <3>1. i \in 1..pos
      BY <1>1, <2>3
    <3>2. new[i] = out[i] /\ out[i] = y[i]
      BY <1>1, <1>2, <2>1, <2>3, <3>1
    <3>3. QED
      BY <3>2
  <2>4. QED
    BY <2>2, <2>3
<1>7. QED
  BY <1>1, <1>5, <1>6 DEF Good, new

LEMMA SubSeqAt ==
  ASSUME NEW y \in Seq(Int), NEW p \in Nat, NEW len \in Nat, p + len <= Len(y),
         NEW k \in 1..len
  PROVE  SubSeq(y, p + 1, p + len)[k] = y[p + k]
<1>1. k \in 1..((p + len) - (p + 1) + 1) /\ (p + 1) + k - 1 = p + k
  OBVIOUS
<1>2. QED
  BY <1>1

\* The copy out of the output itself: whatever it reads of its own bytes, they are
\* those of the other file.
LEMMA CopiedRight ==
  ASSUME NEW from \in Nat, from < outputPos, NEW len, NEW y,
         Fits(bpsOut, outputPos, len, y), Copies(y, from, len, y, outputPos)
  PROVE  Good(Copied(from, len), y, outputPos + len)
<1> DEFINE Eqn(f) ==
      f = [i \in DOMAIN bpsOut |->
             IF outputPos < i /\ i <= outputPos + len
             THEN IF from < outputPos THEN f[i - (outputPos - from)]
                  ELSE bpsOut[i + (from - outputPos)]
             ELSE bpsOut[i]]
           new == Copied(from, len)
           w == [i \in DOMAIN bpsOut |->
                   IF outputPos < i /\ i <= outputPos + len THEN y[i] ELSE bpsOut[i]]
<1>1. /\ bpsOut \in Seq(Int) /\ y \in Seq(Int) /\ Len(bpsOut) = Len(y)
      /\ DOMAIN bpsOut = 1..Len(bpsOut) /\ Len(bpsOut) \in Nat
      /\ outputPos \in Nat /\ len \in Nat /\ outputPos + len <= Len(y)
      /\ \A i \in 1..outputPos : bpsOut[i] = y[i]
  BY DEF Fits
<1>2. ASSUME NEW i \in 1..Len(bpsOut), outputPos < i, i <= outputPos + len
      PROVE  /\ i - (outputPos - from) \in 1..Len(bpsOut)
             /\ i - (outputPos - from) < i
             /\ y[i - (outputPos - from)] = y[i]
             /\ i - (outputPos - from) <= outputPos + len
  <2>1. /\ i - outputPos \in 1..len /\ from + (i - outputPos) = i - (outputPos - from)
        /\ outputPos + (i - outputPos) = i
    BY <1>1, <1>2
  <2>2. y[from + (i - outputPos)] = y[outputPos + (i - outputPos)]
    BY <2>1 DEF Copies
  <2>3. QED
    BY <1>1, <1>2, <2>1, <2>2
<1>3. ASSUME NEW i \in 1..Len(bpsOut), outputPos < i, i <= outputPos + len
      PROVE  w[i - (outputPos - from)] = y[i]
  <2>1. PICK j \in 1..Len(bpsOut) : j = i - (outputPos - from) /\ y[j] = y[i]
                                    /\ j <= outputPos + len
    BY <1>2, <1>3
  <2>2. w[j] = IF outputPos < j /\ j <= outputPos + len THEN y[j] ELSE bpsOut[j]
    BY <1>1
  <2>3. ~(outputPos < j) => bpsOut[j] = y[j]
    BY <1>1
  <2>4. QED
    BY <1>1, <2>1, <2>2, <2>3
<1>4. Eqn(w)
  BY <1>1, <1>3
<1>5. Eqn(new)
  <2>1. new = CHOOSE f : Eqn(f)
    BY DEF Copied
  <2>2. \E f : Eqn(f)
    BY <1>4
  <2> HIDE DEF Eqn, new
  <2>3. QED
    BY <2>1, <2>2
<1>6. DOMAIN new = 1..Len(bpsOut)
  BY <1>1, <1>5
<1>7. ASSUME NEW i \in 1..Len(bpsOut)
      PROVE  /\ outputPos < i /\ i <= outputPos + len => new[i] = new[i - (outputPos - from)]
             /\ ~(outputPos < i /\ i <= outputPos + len) => new[i] = bpsOut[i]
  BY <1>1, <1>5
<1> HIDE DEF Eqn, new, w
<1>8. \A i \in 1..(outputPos + len) : new[i] = y[i]
  <2> DEFINE T == {i \in 1..(outputPos + len) : new[i] # y[i]}
  <2> SUFFICES ASSUME T # {} PROVE FALSE
    OBVIOUS
  <2>1. PICK i \in T : \A j \in T : i <= j
    <3>1. T \subseteq Nat
      BY <1>1
    <3> HIDE DEF T
    <3>2. QED
      BY <3>1, LeastMember
  <2>2. i \in 1..Len(bpsOut) /\ new[i] # y[i] /\ i <= outputPos + len
    BY <1>1, <2>1
  <2>3. outputPos < i /\ i <= outputPos + len
    <3>1. i <= outputPos => bpsOut[i] = y[i]
      BY <1>1, <2>2
    <3>2. QED
      BY <1>1, <1>7, <2>2, <3>1
  <2>4. PICK j \in 1..Len(bpsOut) : /\ j = i - (outputPos - from) /\ y[j] = y[i]
                                    /\ j < i /\ j <= outputPos + len
    BY <1>2, <2>2, <2>3
  <2>5. new[i] = new[j]
    BY <1>7, <2>2, <2>3, <2>4
  <2>6. j \in T
    BY <1>1, <2>2, <2>4, <2>5
  <2>7. i <= j
    BY <2>1, <2>6
  <2>8. QED
    BY <2>2, <2>4, <2>7
<1>9. ASSUME NEW i \in 1..Len(bpsOut) PROVE new[i] \in Int
  <2>1. CASE i <= outputPos + len
    BY <1>1, <1>8, <2>1
  <2>2. CASE ~(i <= outputPos + len)
    BY <1>1, <1>7, <2>2
  <2>3. QED
    BY <2>1, <2>2
<1>10. new = [i \in 1..Len(bpsOut) |-> new[i]]
  BY <1>1, <1>5 DEF Eqn
<1>11. new \in Seq(Int) /\ Len(new) = Len(bpsOut)
  BY <1>1, <1>9, <1>10
<1>12. QED
  BY <1>1, <1>8, <1>11 DEF Good, new

-----------------------------------------------------------------------------
\* What the invariant says while a patch for the ROM is applied.
LEMMA BpsTypes ==
  ASSUME BpsInv, bps # NoBpsJob, bps.intact, bps.rom = bps.x, bpsStep = "apply"
  PROVE  /\ bps.x \in Seq(Int) /\ bps.y \in Seq(Int)
         /\ Len(bps.x) \in Nat /\ Len(bps.y) \in Nat
         /\ enc = [pos |-> outputPos, src |-> romRelOffset, tgt |-> outRelOffset]
         /\ enc.pos = outputPos /\ enc.src = romRelOffset /\ enc.tgt = outRelOffset
         /\ outputPos \in Nat /\ outputPos <= Len(bps.y)
         /\ romRelOffset \in Nat /\ outRelOffset \in Nat
         /\ bpsOut \in Seq(Int) /\ Len(bpsOut) = Len(bps.y)
         /\ \A i \in 1..outputPos : bpsOut[i] = bps.y[i]
<1>1. bps.x \in Seq(Int) /\ bps.y \in Seq(Int)
  BY DEF BpsInv, BpsJobOK
<1>2. /\ enc = [pos |-> outputPos, src |-> romRelOffset, tgt |-> outRelOffset]
      /\ outputPos \in 0..Len(bps.y) /\ romRelOffset \in Nat /\ outRelOffset \in Nat
      /\ bpsOut \in Seq(Int) /\ Len(bpsOut) = Len(bps.y)
      /\ \A i \in 1..outputPos : bpsOut[i] = bps.y[i]
  BY DEF BpsInv
<1>3. QED
  BY <1>1, <1>2

\* The next action of the encoder, read back.
ActionIs(a, len) == len >= 1 /\ outputPos + len <= Len(bps.y) /\ Length(a.n) = len

After(len, src, tgt) == [pos |-> outputPos + len, src |-> src, tgt |-> tgt]

ReadsSource(a, len) ==
  Copies(bps.rom, outputPos, len, bps.y, outputPos)
  /\ outputPos + len <= Len(bps.rom) /\ a.after = After(len, romRelOffset, outRelOffset)

ReadsTarget(a, len) ==
  Copies(a.data, 0, len, bps.y, outputPos)
  /\ a.after = After(len, romRelOffset, outRelOffset)

CopiesSource(a, len, from) ==
  Copies(bps.rom, from, len, bps.y, outputPos)
  /\ from + len <= Len(bps.rom) /\ romRelOffset + Offset(a.rel) = from
  /\ a.after = After(len, from + len, outRelOffset)

CopiesTarget(a, len, from) ==
  Copies(bps.y, from, len, bps.y, outputPos)
  /\ from < outputPos /\ from + len <= Len(bps.y) /\ outRelOffset + Offset(a.rel) = from
  /\ a.after = After(len, romRelOffset, from + len)

LEMMA NextIs ==
  ASSUME BpsInv, bps # NoBpsJob, bps.intact, bps.rom = bps.x, bpsStep = "apply",
         NEW a \in NextActions
  PROVE  \E len \in Nat :
           /\ ActionIs(a, len)
           /\ Mode(a.n) = 0 => ReadsSource(a, len)
           /\ Mode(a.n) = 1 => ReadsTarget(a, len)
           /\ Mode(a.n) = 2 => \E from \in Nat : CopiesSource(a, len, from)
           /\ Mode(a.n) = 3 => \E from \in Nat : CopiesTarget(a, len, from)
<1>1. /\ Len(bps.y) \in Nat /\ Len(bps.x) \in Nat /\ outputPos \in Nat
      /\ enc.pos = outputPos /\ enc.src = romRelOffset /\ enc.tgt = outRelOffset
      /\ romRelOffset \in Nat /\ outRelOffset \in Nat /\ bps.y \in Seq(Int)
  BY BpsTypes
<1>2. ASSUME NEW len \in Lengths
      PROVE  len \in Nat /\ len >= 1 /\ outputPos + len <= Len(bps.y)
  BY <1>1 DEF Lengths
<1>3. ASSUME NEW s, NEW from, NEW len, Agree(s, from, len)
      PROVE  from + len <= Len(s) /\ Copies(s, from, len, bps.y, outputPos)
  BY <1>1, <1>3 DEF Agree, Copies
<1>4. ASSUME NEW l \in Lengths, Agree(bps.x, enc.pos, l),
             a = Action(0, l, 0, << >>, enc.src, enc.tgt)
      PROVE  Mode(a.n) = 0 /\ ActionIs(a, l) /\ ReadsSource(a, l)
  <2>1. a.n = 4 * (l - 1) /\ a.after = After(l, romRelOffset, outRelOffset)
    BY <1>1, <1>2, <1>4 DEF Action, After
  <2>2. Mode(a.n) = 0 /\ Length(a.n) = l
    BY <1>2, <2>1 DEF Mode, Length
  <2>3. outputPos + l <= Len(bps.rom) /\ Copies(bps.rom, outputPos, l, bps.y, outputPos)
    BY <1>1, <1>3, <1>4
  <2>4. QED
    BY <1>2, <2>1, <2>2, <2>3 DEF ActionIs, ReadsSource
<1>5. ASSUME NEW l \in Lengths,
             a = Action(1, l, 0, SubSeq(bps.y, enc.pos + 1, enc.pos + l), enc.src, enc.tgt)
      PROVE  Mode(a.n) = 1 /\ ActionIs(a, l) /\ ReadsTarget(a, l)
  <2>1. /\ a.n = 4 * (l - 1) + 1 /\ a.after = After(l, romRelOffset, outRelOffset)
        /\ a.data = SubSeq(bps.y, outputPos + 1, outputPos + l)
    BY <1>1, <1>5 DEF Action, After
  <2>2. Mode(a.n) = 1 /\ Length(a.n) = l
    <3>1. l \in Nat /\ l >= 1 /\ 1 \in 0..3 /\ a.n = 4 * (l - 1) + 1
      BY <1>2, <2>1
    <3>2. QED
      BY <3>1, LengthBack
  <2>3. \A k \in 1..l : a.data[k] = bps.y[outputPos + k]
    <3>1. l \in Nat /\ outputPos + l <= Len(bps.y) /\ bps.y \in Seq(Int) /\ outputPos \in Nat
      BY <1>1, <1>2
    <3>2. \A k \in 1..l : SubSeq(bps.y, outputPos + 1, outputPos + l)[k] = bps.y[outputPos + k]
      BY <3>1, SubSeqAt
    <3>3. QED
      BY <2>1, <3>2
  <2>4. Copies(a.data, 0, l, bps.y, outputPos)
    BY <1>2, <2>3 DEF Copies
  <2>5. QED
    BY <1>2, <2>1, <2>2, <2>4 DEF ActionIs, ReadsTarget
<1>6. ASSUME NEW len \in Lengths, NEW from \in 0..Len(bps.x), Agree(bps.x, from, len),
             a = Action(2, len, from - enc.src, << >>, from + len, enc.tgt)
      PROVE  from \in Nat /\ Mode(a.n) = 2 /\ ActionIs(a, len) /\ CopiesSource(a, len, from)
  <2>1. /\ a.n = 4 * (len - 1) + 2 /\ a.after = After(len, from + len, outRelOffset)
        /\ a.rel = Signed(from - romRelOffset)
    BY <1>1, <1>6 DEF Action, After
  <2>2. Mode(a.n) = 2 /\ Length(a.n) = len
    <3>1. len \in Nat /\ len >= 1 /\ 2 \in 0..3 /\ a.n = 4 * (len - 1) + 2
      BY <1>2, <2>1
    <3>2. QED
      BY <3>1, LengthBack
  <2>3. from - romRelOffset \in Int /\ romRelOffset + (from - romRelOffset) = from
    BY <1>1
  <2>4. romRelOffset + Offset(a.rel) = from
    BY <2>1, <2>3, SignedBack
  <2>5. from + len <= Len(bps.rom) /\ Copies(bps.rom, from, len, bps.y, outputPos)
    BY <1>3, <1>6
  <2>6. QED
    BY <1>1, <1>2, <2>1, <2>2, <2>4, <2>5 DEF ActionIs, CopiesSource
<1>7. ASSUME NEW len \in Lengths, NEW from \in 0..(enc.pos - 1), Agree(bps.y, from, len),
             a = Action(3, len, from - enc.tgt, << >>, enc.src, from + len)
      PROVE  from \in Nat /\ Mode(a.n) = 3 /\ ActionIs(a, len) /\ CopiesTarget(a, len, from)
  <2>1. /\ a.n = 4 * (len - 1) + 3 /\ a.after = After(len, romRelOffset, from + len)
        /\ a.rel = Signed(from - outRelOffset)
    BY <1>1, <1>7 DEF Action, After
  <2>2. Mode(a.n) = 3 /\ Length(a.n) = len
    <3>1. len \in Nat /\ len >= 1 /\ 3 \in 0..3 /\ a.n = 4 * (len - 1) + 3
      BY <1>2, <2>1
    <3>2. QED
      BY <3>1, LengthBack
  <2>3. /\ from - outRelOffset \in Int /\ outRelOffset + (from - outRelOffset) = from
        /\ from < outputPos
    BY <1>1
  <2>4. outRelOffset + Offset(a.rel) = from
    BY <2>1, <2>3, SignedBack
  <2>5. from + len <= Len(bps.y) /\ Copies(bps.y, from, len, bps.y, outputPos)
    BY <1>3, <1>7
  <2>6. QED
    BY <1>1, <1>2, <2>1, <2>2, <2>3, <2>4, <2>5 DEF ActionIs, CopiesTarget
<1>8. CASE a \in {Action(0, l, 0, << >>, enc.src, enc.tgt) :
                   l \in {k \in Lengths : Agree(bps.x, enc.pos, k)}}
  <2>1. PICK l \in Lengths : /\ Agree(bps.x, enc.pos, l)
                             /\ a = Action(0, l, 0, << >>, enc.src, enc.tgt)
    BY <1>8
  <2>2. Mode(a.n) = 0 /\ ActionIs(a, l) /\ ReadsSource(a, l)
    BY <1>4, <2>1
  <2>3. QED
    BY <1>2, <2>2
<1>9. CASE a \in {Action(1, l, 0, SubSeq(bps.y, enc.pos + 1, enc.pos + l), enc.src, enc.tgt) :
                   l \in Lengths}
  <2>1. PICK l \in Lengths :
           a = Action(1, l, 0, SubSeq(bps.y, enc.pos + 1, enc.pos + l), enc.src, enc.tgt)
    BY <1>9
  <2>2. Mode(a.n) = 1 /\ ActionIs(a, l) /\ ReadsTarget(a, l)
    BY <1>5, <2>1
  <2>3. QED
    BY <1>2, <2>2
<1>10. CASE a \in {Action(2, c[1], c[2] - enc.src, << >>, c[2] + c[1], enc.tgt) :
                    c \in {d \in Lengths \X (0..Len(bps.x)) : Agree(bps.x, d[2], d[1])}}
  <2>1. PICK len \in Lengths : \E from \in 0..Len(bps.x) :
           /\ Agree(bps.x, from, len)
           /\ a = Action(2, len, from - enc.src, << >>, from + len, enc.tgt)
    BY <1>10
  <2>2. PICK from \in 0..Len(bps.x) :
           /\ Agree(bps.x, from, len)
           /\ a = Action(2, len, from - enc.src, << >>, from + len, enc.tgt)
    BY <2>1
  <2>3. from \in Nat /\ Mode(a.n) = 2 /\ ActionIs(a, len) /\ CopiesSource(a, len, from)
    BY <1>6, <2>2
  <2>4. QED
    BY <1>2, <2>3
<1>11. CASE a \in {Action(3, c[1], c[2] - enc.tgt, << >>, enc.src, c[2] + c[1]) :
                    c \in {d \in Lengths \X (0..(enc.pos - 1)) : Agree(bps.y, d[2], d[1])}}
  <2>1. PICK len \in Lengths : \E from \in 0..(enc.pos - 1) :
           /\ Agree(bps.y, from, len)
           /\ a = Action(3, len, from - enc.tgt, << >>, enc.src, from + len)
    BY <1>11
  <2>2. PICK from \in 0..(enc.pos - 1) :
           /\ Agree(bps.y, from, len)
           /\ a = Action(3, len, from - enc.tgt, << >>, enc.src, from + len)
    BY <2>1
  <2>3. from \in Nat /\ Mode(a.n) = 3 /\ ActionIs(a, len) /\ CopiesTarget(a, len, from)
    BY <1>7, <2>2
  <2>4. QED
    BY <1>2, <2>3
<1>12. QED
  BY <1>8, <1>9, <1>10, <1>11, Zenon DEF NextActions

LEMMA BpsInit == BpsIdle => BpsInv
  BY DEF BpsIdle, BpsInv

LEMMA BpsUnchanged ==
  ASSUME BpsInv, UNCHANGED bpsVars
  PROVE  BpsInv'
  BY DEF BpsInv, bpsVars

LEMMA StartBpsKeeps ==
  ASSUME BpsInv, NEW j, BpsJobOK(j), StartBps(j)
  PROVE  BpsInv'
<1>1. /\ bps = NoBpsJob /\ bps' = j
      /\ UNCHANGED <<bpsStep, enc, outputPos, romRelOffset, outRelOffset, bpsOut>>
  BY DEF StartBps
<1>2. /\ bpsStep = "open" /\ enc = [pos |-> 0, src |-> 0, tgt |-> 0]
      /\ outputPos = 0 /\ romRelOffset = 0 /\ outRelOffset = 0
  BY <1>1 DEF BpsInv
<1>3. 0 \in 0..Len(j.y)
  BY DEF BpsJobOK
<1>4. QED
  BY <1>1, <1>2, <1>3 DEF BpsInv

\* A patch that does not fit is of no concern.
LEMMA BpsForeign ==
  ASSUME BpsInv, bps # NoBpsJob, ~(bps.intact /\ bps.rom = bps.x), bps' = bps
  PROVE  BpsInv'
  BY DEF BpsInv

LEMMA BpsOpenKeeps ==
  ASSUME BpsInv, BpsOpen
  PROVE  BpsInv'
<1>1. bps # NoBpsJob /\ bpsStep = "open" /\ bps' = bps
  BY DEF BpsOpen, BpsFail
<1>2. CASE ~(bps.intact /\ bps.rom = bps.x)
  BY <1>1, <1>2, BpsForeign
<1>3. CASE bps.intact /\ bps.rom = bps.x
  <2>1. /\ bpsOut' = [i \in 1..Len(bps.y) |-> 0] /\ bpsStep' = "apply"
        /\ UNCHANGED <<bps, enc, outputPos, romRelOffset, outRelOffset>>
    BY <1>3 DEF BpsOpen
  <2>2. /\ BpsJobOK(bps) /\ bps.y \in Seq(Int)
        /\ enc = [pos |-> outputPos, src |-> romRelOffset, tgt |-> outRelOffset]
        /\ outputPos \in 0..Len(bps.y) /\ romRelOffset \in Nat /\ outRelOffset \in Nat
    BY <1>1, <1>3 DEF BpsInv, BpsJobOK
  <2>3. outputPos = 0
    BY <1>1, <1>3 DEF BpsInv
  <2>4. QED
    BY <1>1, <2>1, <2>2, <2>3 DEF BpsInv
<1>4. QED
  BY <1>2, <1>3

LEMMA BpsEndKeeps ==
  ASSUME BpsInv, BpsEnd
  PROVE  BpsInv'
<1>1. /\ bps # NoBpsJob /\ bpsStep = "apply" /\ enc.pos = Len(bps.y)
      /\ bpsStep' = IF ~bps.ignore /\ bpsOut # bps.y THEN "failed" ELSE "done"
      /\ UNCHANGED <<bps, enc, outputPos, romRelOffset, outRelOffset, bpsOut>>
  BY DEF BpsEnd
<1>2. CASE ~(bps.intact /\ bps.rom = bps.x)
  BY <1>1, <1>2, BpsForeign
<1>3. CASE bps.intact /\ bps.rom = bps.x
  <2>1. bpsOut = bps.y
    <3>1. /\ bpsOut \in Seq(Int) /\ bps.y \in Seq(Int) /\ Len(bpsOut) = Len(bps.y)
          /\ \A i \in 1..Len(bps.y) : bpsOut[i] = bps.y[i]
      BY <1>1, <1>3, BpsTypes
    <3>2. QED
      BY <3>1, SameList
  <2>2. bpsStep' = "done"
    BY <1>1, <2>1
  <2>3. QED
    BY <1>1, <1>3, <2>1, <2>2 DEF BpsInv
<1>4. QED
  BY <1>2, <1>3

\* Any action of a right encoder.
LEMMA BpsActionKeeps ==
  ASSUME BpsInv, bps # NoBpsJob, bpsStep = "apply", NEW a \in NextActions,
         SourceRead(a) \/ TargetRead(a) \/ SourceCopy(a) \/ TargetCopy(a)
  PROVE  BpsInv'
<1>1. bps' = bps
  BY DEF SourceRead, TargetRead, SourceCopy, TargetCopy
<1>2. CASE ~(bps.intact /\ bps.rom = bps.x)
  BY <1>1, <1>2, BpsForeign
<1>3. CASE bps.intact /\ bps.rom = bps.x
  <2>1. PICK len \in Nat :
           /\ ActionIs(a, len)
           /\ Mode(a.n) = 0 => ReadsSource(a, len)
           /\ Mode(a.n) = 1 => ReadsTarget(a, len)
           /\ Mode(a.n) = 2 => \E from \in Nat : CopiesSource(a, len, from)
           /\ Mode(a.n) = 3 => \E from \in Nat : CopiesTarget(a, len, from)
    BY <1>3, NextIs
  <2>2. /\ bps.rom \in Seq(Int) /\ Len(bps.rom) \in Nat /\ Len(bps.y) \in Nat
        /\ outputPos \in Nat /\ romRelOffset \in Nat /\ outRelOffset \in Nat
        /\ Len(bpsOut) = Len(bps.y) /\ DOMAIN bpsOut = 1..Len(bpsOut)
    BY <1>3, BpsTypes
  <2>3. /\ Fits(bpsOut, outputPos, len, bps.y)
        /\ Length(a.n) = len /\ outputPos + len \in 0..Len(bps.y)
    <3>1. Length(a.n) = len /\ outputPos + len <= Len(bps.y)
      BY <2>1 DEF ActionIs
    <3>2. /\ bpsOut \in Seq(Int) /\ bps.y \in Seq(Int)
          /\ \A i \in 1..outputPos : bpsOut[i] = bps.y[i]
      BY <1>3, BpsTypes
    <3>3. Fits(bpsOut, outputPos, len, bps.y)
      BY <2>1, <2>2, <3>1, <3>2 DEF Fits
    <3>4. QED
      BY <2>1, <2>2, <3>1, <3>3
  <2>4. SUFFICES
          /\ bpsStep' = "apply" /\ enc' = a.after
          /\ outputPos' = outputPos + len /\ romRelOffset' \in Nat /\ outRelOffset' \in Nat
          /\ a.after = After(len, romRelOffset', outRelOffset')
          /\ Good(bpsOut', bps.y, outputPos + len)
    <3>1. BpsJobOK(bps)
      BY DEF BpsInv
    <3>2. QED
      BY <1>1, <2>3, <3>1 DEF BpsInv, Good, After
  <2>5. CASE SourceRead(a)
    <3>1. Mode(a.n) = 0 /\ enc' = a.after
      BY <2>5 DEF SourceRead, Applying
    <3>2. ReadsSource(a, len)
      BY <2>1, <3>1
    <3>3. InRange(bps.rom, outputPos, len)
      BY <2>2, <2>3, <3>2 DEF InRange, ReadsSource
    <3>4. /\ bpsOut' = Written(len, LAMBDA k : bps.rom[outputPos + k])
          /\ outputPos' = outputPos + len
          /\ UNCHANGED <<bpsStep, romRelOffset, outRelOffset>>
      BY <2>3, <2>5, <3>3 DEF SourceRead
    <3>5. bpsOut' = RunIn(bpsOut, outputPos, len, bps.rom, outputPos)
      BY <3>4 DEF Written, RunIn
    <3>6. Good(bpsOut', bps.y, outputPos + len)
      BY <2>3, <3>2, <3>5, RunRight DEF ReadsSource
    <3>7. QED
      BY <2>2, <3>1, <3>2, <3>4, <3>6 DEF ReadsSource
  <2>6. CASE TargetRead(a)
    <3>1. Mode(a.n) = 1 /\ enc' = a.after
      BY <2>6 DEF TargetRead, Applying
    <3>2. ReadsTarget(a, len)
      BY <2>1, <3>1
    <3>3. /\ bpsOut' = Written(len, LAMBDA k : a.data[k])
          /\ outputPos' = outputPos + len
          /\ UNCHANGED <<bpsStep, romRelOffset, outRelOffset>>
      BY <2>3, <2>6 DEF TargetRead
    <3>4. \A i \in DOMAIN bpsOut : 0 + (i - outputPos) = i - outputPos
      BY <2>2
    <3>5. bpsOut' = RunIn(bpsOut, outputPos, len, a.data, 0)
      BY <3>3, <3>4 DEF Written, RunIn
    <3>6. Good(bpsOut', bps.y, outputPos + len)
      BY <2>3, <3>2, <3>5, RunRight DEF ReadsTarget
    <3>7. QED
      BY <2>2, <3>1, <3>2, <3>3, <3>6 DEF ReadsTarget
  <2>7. CASE SourceCopy(a)
    <3>1. Mode(a.n) = 2 /\ enc' = a.after
      BY <2>7 DEF SourceCopy, Applying
    <3>2. PICK from \in Nat : CopiesSource(a, len, from)
      BY <2>1, <3>1
    <3>3. InRange(bps.rom, from, len) /\ romRelOffset + Offset(a.rel) = from
      BY <2>2, <2>3, <3>2 DEF InRange, CopiesSource
    <3> DEFINE there == romRelOffset + Offset(a.rel)
    <3>4. InRange(bps.rom, there, Length(a.n))
      BY <2>3, <3>3
    <3>5. /\ bpsOut' = Written(Length(a.n), LAMBDA k : bps.rom[there + k])
           /\ outputPos' = outputPos + Length(a.n) /\ romRelOffset' = there + Length(a.n)
           /\ UNCHANGED <<bpsStep, outRelOffset>>
      BY <2>7, <3>4 DEF SourceCopy
    <3>6. bpsOut' = RunIn(bpsOut, outputPos, Length(a.n), bps.rom, there)
      BY <3>5 DEF Written, RunIn
    <3> HIDE DEF there
    <3>7. there = from
      BY <3>3 DEF there
    <3>8. /\ outputPos' = outputPos + len /\ romRelOffset' = from + len
          /\ UNCHANGED <<bpsStep, outRelOffset>>
      BY <2>3, <3>5, <3>7
    <3>9. bpsOut' = RunIn(bpsOut, outputPos, len, bps.rom, from)
      BY <2>3, <3>6, <3>7
    <3>10. Good(bpsOut', bps.y, outputPos + len)
      BY <2>3, <3>2, <3>9, RunRight DEF CopiesSource
    <3>11. romRelOffset' \in Nat
      BY <3>8
    <3>12. QED
      BY <2>2, <3>1, <3>2, <3>8, <3>10, <3>11 DEF CopiesSource
  <2>8. CASE TargetCopy(a)
    <3>1. Mode(a.n) = 3 /\ enc' = a.after
      BY <2>8 DEF TargetCopy, Applying
    <3>2. PICK from \in Nat : CopiesTarget(a, len, from)
      BY <2>1, <3>1
    <3>3. InRange(bpsOut, from, len) /\ outRelOffset + Offset(a.rel) = from
      BY <2>2, <2>3, <3>2 DEF InRange, CopiesTarget
    <3>4. /\ bpsOut' = Copied(from, len)
          /\ outputPos' = outputPos + len /\ outRelOffset' = from + len
          /\ UNCHANGED <<bpsStep, romRelOffset>>
      BY <2>3, <2>8, <3>3 DEF TargetCopy
    <3>5. Good(bpsOut', bps.y, outputPos + len)
      BY <2>3, <3>2, <3>4, CopiedRight DEF CopiesTarget
    <3>6. outRelOffset' \in Nat
      BY <3>4
    <3>7. QED
      BY <2>2, <3>1, <3>2, <3>4, <3>5, <3>6 DEF CopiesTarget
  <2>9. QED
    BY <2>5, <2>6, <2>7, <2>8
<1>4. QED
  BY <1>2, <1>3

LEMMA BpsKeeps ==
  ASSUME BpsInv, BpsStep
  PROVE  BpsInv'
  BY BpsOpenKeeps, BpsActionKeeps, BpsEndKeeps DEF BpsStep

LEMMA BpsRight == BpsInv => BpsApplies
  BY DEF BpsInv, BpsApplies

-----------------------------------------------------------------------------
\* xdelta: the windows written are the windows of the target.

\* What the invariant says of a job of the xdelta loop, in a form that fits the
\* provers.
LEMMA XdTypes ==
  ASSUME XdInv, xd # NoXdJob
  PROVE  /\ XdJobOK(xd)
         /\ xd.header \in Nat /\ xd.kept \in Nat /\ xd.room \in Nat /\ Buffer \in Nat /\ Buffer > 0
         /\ xd.x \in Seq(Nat) /\ xd.rom \in Seq(Nat)
         /\ xd.windows \in Seq([end : Nat, blocks : Seq(Nat), sum : BOOLEAN]) /\ Len(xd.windows) \in Nat
         /\ DOMAIN xd.windows = 1..Len(xd.windows)
         /\ fed \in Nat /\ fed <= xd.kept /\ readLen \in Nat /\ readLen <= Buffer
         /\ winDone \in Nat /\ winDone <= Len(xd.windows)
         /\ curblkno \in Nat /\ curblk = Fetched(curblkno)
<1>1. /\ XdJobOK(xd) /\ fed \in 0..xd.kept /\ readLen \in 0..Buffer
      /\ winDone \in 0..Len(xd.windows) /\ curblkno \in Nat
      /\ curblk = Fetched(curblkno)
  BY DEF XdInv
<1>2. /\ xd.header \in Nat /\ xd.kept \in Nat /\ xd.room \in Nat
      /\ xd.x \in Seq(Nat) /\ xd.rom \in Seq(Nat)
      /\ xd.windows \in Seq([end : Nat, blocks : Seq(Nat), sum : BOOLEAN])
  BY <1>1 DEF XdJobOK
<1>3. Buffer \in Nat /\ Buffer > 0
  BY BufferAssumption DEF BufferAssumption
<1>4. Len(xd.windows) \in Nat /\ DOMAIN xd.windows = 1..Len(xd.windows)
  BY <1>2, ListGrows
<1>5. /\ fed \in Nat /\ fed <= xd.kept /\ readLen \in Nat /\ readLen <= Buffer
      /\ winDone \in Nat /\ winDone <= Len(xd.windows)
  BY <1>1, <1>2, <1>3, <1>4
<1>6. QED
  BY <1>1, <1>2, <1>3, <1>4, <1>5

\* The blocks of a window.
LEMMA WindowTypes ==
  ASSUME XdInv, xd # NoXdJob, NEW w \in 1..Len(xd.windows)
  PROVE  /\ xd.windows[w].blocks \in Seq(Nat) /\ xd.windows[w].end \in Nat
         /\ Len(xd.windows[w].blocks) \in Nat
         /\ DOMAIN xd.windows[w].blocks = 1..Len(xd.windows[w].blocks)
         /\ \A k \in 1..Len(xd.windows[w].blocks) :
              xd.windows[w].blocks[k] \in Nat /\ xd.windows[w].blocks[k] < Len(xd.x)
<1>1. xd.windows[w] \in [end : Nat, blocks : Seq(Nat), sum : BOOLEAN]
  <2>1. xd.windows \in Seq([end : Nat, blocks : Seq(Nat), sum : BOOLEAN])
    BY XdTypes
  <2>2. QED
    BY <2>1, Element
<1>2. /\ xd.windows[w].blocks \in Seq(Nat) /\ xd.windows[w].end \in Nat
  BY <1>1
<1>3. /\ Len(xd.windows[w].blocks) \in Nat
      /\ DOMAIN xd.windows[w].blocks = 1..Len(xd.windows[w].blocks)
      /\ \A k \in 1..Len(xd.windows[w].blocks) : xd.windows[w].blocks[k] \in Nat
  <2> DEFINE blocks == xd.windows[w].blocks
  <2>1. blocks \in Seq(Nat)
    BY <1>2
  <2> HIDE DEF blocks
  <2>2. /\ Len(blocks) \in Nat /\ DOMAIN blocks = 1..Len(blocks)
        /\ \A k \in 1..Len(blocks) : blocks[k] \in Nat
    BY <2>1
  <2>3. QED
    BY <2>2 DEF blocks
<1>4. w \in DOMAIN xd.windows /\ XdJobOK(xd)
  BY XdTypes
<1>5. \A k \in DOMAIN xd.windows[w].blocks : xd.windows[w].blocks[k] < Len(xd.x)
  BY <1>4 DEF XdJobOK
<1>6. QED
  BY <1>2, <1>3, <1>5

\* A block that is there is read.
LEMMA BlockThere ==
  ASSUME NEW file \in Seq(Nat), NEW b \in Nat
  PROVE  /\ b < Len(file) => BlockOf(file, b) \in Nat /\ BlockOf(file, b) # NoBlock
         /\ BlockOf(file, b) # NoBlock => BlockOf(file, b) \in Nat
<1>1. b < Len(file) => file[b + 1] \in Nat
  OBVIOUS
<1>2. QED
  BY <1>1 DEF BlockOf, NoBlock

\* A block that a long reaches is found at its own place.
LEMMA BlockFetched ==
  ASSUME XdInv, xd # NoXdJob, NEW b \in Nat
  PROVE  /\ SeekBlock(b) \in Nat
         /\ b < LongBlocks => SeekBlock(b) = b /\ Seeks(b)
         /\ Fetched(b) # NoBlock => Fetched(b) \in Nat
<1>1. LongBlocks \in Nat /\ LongBlocks > 0
  BY LongAssumption DEF LongAssumption
<1>2. b % (2 * LongBlocks) \in Nat
  BY <1>1
<1>3. b < LongBlocks => b % (2 * LongBlocks) = b
  BY <1>1
<1>4. Fetched(b) # NoBlock => Fetched(b) \in Nat
  BY <1>2, XdTypes, BlockThere DEF Fetched, SeekBlock
<1>. QED
  BY <1>2, <1>3, <1>4 DEF SeekBlock, Seeks

\* The steps that write no window keep those that are written.
LEMMA WrittenKept ==
  ASSUME XdInv, xd # NoXdJob, UNCHANGED <<xd, winDone, xdOut>>
  PROVE  /\ XdJobOK(xd)' /\ (winDone \in 0..Len(xd.windows))'
         /\ (xdOut \in Seq(Seq(Nat)) /\ Len(xdOut) = winDone)'
         /\ (\A w \in 1..winDone : Compared(w) \/ OwnRom => xdOut[w] = Decoding(xd.x, w))'
         /\ Blocks' = Blocks /\ OwnRom' = OwnRom
         /\ \A b : Fetched(b)' = Fetched(b)
         /\ WindowComplete' = (winDone < Len(xd.windows) /\ WindowEnd(winDone + 1) <= fed')
<1>1. /\ XdJobOK(xd) /\ winDone \in 0..Len(xd.windows)
      /\ xdOut \in Seq(Seq(Nat)) /\ Len(xdOut) = winDone
      /\ \A w \in 1..winDone : Compared(w) \/ OwnRom => xdOut[w] = Decoding(xd.x, w)
  BY DEF XdInv
<1>2. /\ Blocks' = Blocks /\ OwnRom' = OwnRom
      /\ \A b : Fetched(b)' = Fetched(b)
      /\ \A w : Compared(w)' = Compared(w) /\ Decoding(xd.x, w)' = Decoding(xd.x, w)
  BY DEF Blocks, OwnRom, Fetched, Compared, Decoding
<1>3. WindowComplete' = (winDone < Len(xd.windows) /\ WindowEnd(winDone + 1) <= fed')
  BY DEF WindowComplete, WindowEnd
<1>. QED
  BY <1>1, <1>2, <1>3

LEMMA XdInit == XdIdle => XdInv
  BY DEF XdIdle, XdInv

LEMMA ReadPatchKeeps ==
  ASSUME XdInv, xd # NoXdJob, ReadPatch
  PROVE  XdInv'
<1>1. /\ xdStep = "read" /\ xdStep' = "decode" /\ fed' = fed + readLen'
      /\ readLen' = IF xd.kept - fed < Buffer THEN xd.kept - fed ELSE Buffer
      /\ UNCHANGED <<xd, winDone, decoded, curblkno, curblk, xdOut>>
  BY DEF ReadPatch
<1>2. /\ xd.kept \in Nat /\ Buffer \in Nat /\ fed \in Nat /\ fed <= xd.kept
  BY XdTypes
<1>3. /\ readLen' \in 0..Buffer /\ fed' \in 0..xd.kept /\ (readLen' = Buffer \/ fed' = xd.kept)
  BY <1>1, <1>2
<1>4. curblkno' \in Nat /\ curblk' = Fetched(curblkno)'
  BY <1>1, WrittenKept DEF XdInv
<1>5. QED
  BY <1>1, <1>3, <1>4, WrittenKept DEF XdInv

LEMMA WantsInputKeeps ==
  ASSUME XdInv, xd # NoXdJob, WantsInput
  PROVE  XdInv'
<1>1. /\ xdStep = "decode" /\ ~WindowComplete
      /\ xdStep' = IF readLen = Buffer THEN "read" ELSE "done"
      /\ UNCHANGED <<xd, fed, readLen, winDone, decoded, curblkno, curblk, xdOut>>
  BY DEF WantsInput
<1>2. /\ fed \in 0..xd.kept /\ readLen \in 0..Buffer
      /\ curblkno \in Nat /\ curblk = Fetched(curblkno)
      /\ readLen = Buffer \/ fed = xd.kept
  BY <1>1 DEF XdInv
<1>3. ~WindowComplete' /\ curblk' = Fetched(curblkno)'
  BY <1>1, <1>2, WrittenKept DEF WindowComplete
<1>4. readLen # Buffer => readLen < Buffer
  BY XdTypes
<1>5. QED
  BY <1>1, <1>2, <1>3, <1>4, WrittenKept DEF XdInv

LEMMA WindowStartsKeeps ==
  ASSUME XdInv, xd # NoXdJob, WindowStarts
  PROVE  XdInv'
<1>1. /\ xdStep = "decode" /\ WindowComplete /\ xdStep' = "window" /\ decoded' = << >>
      /\ UNCHANGED <<xd, fed, readLen, winDone, curblkno, curblk, xdOut>>
  BY DEF WindowStarts
<1>2. /\ fed \in 0..xd.kept /\ readLen \in 0..Buffer
      /\ curblkno \in Nat /\ curblk = Fetched(curblkno)
      /\ readLen = Buffer \/ fed = xd.kept
  BY <1>1 DEF XdInv
<1>3. Blocks' = Blocks /\ curblk' = Fetched(curblkno)'
  BY <1>1, <1>2, WrittenKept
<1>4. winDone < Len(xd.windows) /\ winDone + 1 \in 1..Len(xd.windows)
  <2>1. winDone \in Nat /\ Len(xd.windows) \in Nat
    BY XdTypes
  <2>2. winDone < Len(xd.windows)
    BY <1>1 DEF WindowComplete
  <2>3. QED
    BY <2>1, <2>2
<1>5. Len(Blocks) \in Nat
  BY <1>4, WindowTypes DEF Blocks
<1>6. /\ decoded' \in Seq(Nat) /\ Len(decoded') = 0 /\ Len(decoded') <= Len(Blocks')
  BY <1>1, <1>3, <1>5
<1>7. QED
  BY <1>1, <1>2, <1>3, <1>4, <1>6, WrittenKept DEF XdInv

\* What holds while a window is decoded.
LEMMA InWindow ==
  ASSUME XdInv, xd # NoXdJob, xdStep = "window"
  PROVE  /\ winDone + 1 \in 1..Len(xd.windows) /\ winDone < Len(xd.windows)
         /\ Blocks \in Seq(Nat) /\ Len(Blocks) \in Nat
         /\ \A k \in 1..Len(Blocks) : Blocks[k] \in Nat /\ Blocks[k] < Len(xd.x)
         /\ decoded \in Seq(Nat) /\ Len(decoded) \in Nat /\ Len(decoded) <= Len(Blocks)
         /\ \A k \in 1..Len(decoded) : decoded[k] = Fetched(Blocks[k])
<1>1. winDone + 1 \in 1..Len(xd.windows) /\ winDone < Len(xd.windows)
  <2>1. winDone < Len(xd.windows)
    BY DEF XdInv
  <2>2. winDone \in Nat /\ Len(xd.windows) \in Nat
    BY XdTypes
  <2>3. QED
    BY <2>1, <2>2
<1>2. /\ decoded \in Seq(Nat) /\ Len(decoded) <= Len(Blocks)
      /\ \A k \in 1..Len(decoded) : decoded[k] = Fetched(Blocks[k])
  BY DEF XdInv
<1>3. /\ Blocks \in Seq(Nat) /\ Len(Blocks) \in Nat
      /\ \A k \in 1..Len(Blocks) : Blocks[k] \in Nat /\ Blocks[k] < Len(xd.x)
  BY <1>1, WindowTypes DEF Blocks
<1>4. QED
  BY <1>1, <1>2, <1>3

LEMMA GetSourceBlockKeeps ==
  ASSUME XdInv, xd # NoXdJob, GetSourceBlock
  PROVE  XdInv'
<1>1. /\ xdStep = "window" /\ Len(decoded) < Len(Blocks)
      /\ UNCHANGED <<xd, fed, readLen, winDone, decoded, xdOut>>
      /\ Seeks(Wanted) => curblkno' = Wanted /\ curblk' = Fetched(Wanted) /\ xdStep' = xdStep
      /\ ~Seeks(Wanted) => xdStep' = "failed" /\ UNCHANGED <<curblkno, curblk>>
  BY DEF GetSourceBlock
<1>2. Len(decoded) + 1 \in 1..Len(Blocks)
  BY <1>1, InWindow
<1>3. Wanted \in Nat /\ Wanted < Len(xd.x)
  BY <1>1, <1>2, InWindow DEF Wanted
<1>4. ~Seeks(Wanted) => ~OwnRom
  <2>1. LongBlocks \in Nat /\ Len(xd.x) \in Nat
    BY LongAssumption, XdTypes DEF LongAssumption
  <2>2. OwnRom => Wanted < LongBlocks
    BY <1>3, <2>1 DEF OwnRom
  <2>. QED
    BY <1>3, <2>2, BlockFetched
<1>5. /\ curblkno' \in Nat /\ curblk' = Fetched(curblkno)'
  <2>1. curblkno \in Nat /\ curblk = Fetched(curblkno)
    BY XdTypes
  <2>. QED
    BY <1>1, <1>3, <2>1, WrittenKept
<1>6. /\ fed \in 0..xd.kept /\ readLen \in 0..Buffer
      /\ readLen = Buffer \/ fed = xd.kept
      /\ winDone < Len(xd.windows)
      /\ decoded \in Seq(Nat) /\ Len(decoded) <= Len(Blocks)
      /\ \A k \in 1..Len(decoded) : decoded[k] = Fetched(Blocks[k])
  BY <1>1 DEF XdInv
<1>7. \A k \in 1..Len(decoded') : decoded'[k] = Fetched(Blocks[k])'
  BY <1>1, <1>6, WrittenKept
<1>8. CASE Seeks(Wanted)
  BY <1>1, <1>5, <1>6, <1>7, <1>8, WrittenKept DEF XdInv
<1>9. CASE ~Seeks(Wanted)
  BY <1>1, <1>4, <1>5, <1>6, <1>9, WrittenKept DEF XdInv
<1>. QED
  BY <1>8, <1>9

LEMMA CopyFromBlockKeeps ==
  ASSUME XdInv, xd # NoXdJob, CopyFromBlock
  PROVE  XdInv'
<1>1. /\ xdStep = "window" /\ Len(decoded) < Len(Blocks) /\ Wanted = curblkno
      /\ UNCHANGED <<xd, fed, readLen, winDone, curblkno, curblk, xdOut>>
      /\ IF curblk = NoBlock THEN xdStep' = "failed" /\ decoded' = decoded
         ELSE decoded' = Append(decoded, curblk) /\ xdStep' = xdStep
  BY DEF CopyFromBlock
<1>2. /\ Len(decoded) + 1 \in 1..Len(Blocks) /\ Len(decoded) \in Nat /\ Len(Blocks) \in Nat
      /\ decoded \in Seq(Nat)
      /\ \A k \in 1..Len(decoded) : decoded[k] = Fetched(Blocks[k])
  BY <1>1, InWindow
<1>3. Wanted = Blocks[Len(decoded) + 1] /\ Wanted \in Nat /\ Wanted < Len(xd.x)
  BY <1>1, <1>2, InWindow DEF Wanted
<1>4. /\ Blocks' = Blocks /\ curblkno' \in Nat /\ curblk' = Fetched(curblkno)'
      /\ \A b : Fetched(b)' = Fetched(b)
  BY <1>1, XdTypes, WrittenKept
<1>5. curblk = Fetched(Wanted) /\ xd.rom \in Seq(Nat)
  BY <1>1, XdTypes
<1>0. /\ fed \in 0..xd.kept /\ readLen \in 0..Buffer
      /\ readLen = Buffer \/ fed = xd.kept
      /\ winDone < Len(xd.windows)
  BY <1>1 DEF XdInv
<1>6. CASE curblk = NoBlock
  <2>1. ~OwnRom
    <3>1. LongBlocks \in Nat /\ Len(xd.x) \in Nat
      BY LongAssumption, XdTypes DEF LongAssumption
    <3>2. OwnRom => Wanted < LongBlocks
      BY <1>3, <3>1 DEF OwnRom
    <3>3. OwnRom => curblk = BlockOf(xd.rom, Wanted) /\ Wanted < Len(xd.rom)
      BY <1>3, <1>5, <3>2, BlockFetched DEF Fetched, OwnRom
    <3>. QED
      BY <1>3, <1>5, <1>6, <3>3, BlockThere
  <2>2. xdStep' = "failed" /\ decoded' = decoded
    BY <1>1, <1>6
  <2>3. QED
    BY <1>0, <1>1, <1>4, <2>1, <2>2, WrittenKept DEF XdInv
<1>7. CASE curblk # NoBlock
  <2>1. curblk \in Nat
    BY <1>3, <1>5, <1>7, BlockFetched
  <2>2. xdStep' = "window" /\ decoded' = Append(decoded, curblk)
    BY <1>1, <1>7
  <2>3. /\ decoded' \in Seq(Nat) /\ Len(decoded') = Len(decoded) + 1
        /\ \A k \in 1..Len(decoded) : decoded'[k] = decoded[k]
        /\ decoded'[Len(decoded) + 1] = curblk
    BY <1>2, <2>1, <2>2
  <2>4. Len(decoded') <= Len(Blocks')
    BY <1>2, <1>4, <2>3
  <2>5. ASSUME NEW k \in 1..Len(decoded')
        PROVE  decoded'[k] = Fetched(Blocks[k])
    <3>1. k \in 1..Len(decoded) \/ k = Len(decoded) + 1
      BY <1>2, <2>3
    <3>2. QED
      BY <1>2, <1>3, <1>5, <2>3, <3>1
  <2>6. \A k \in 1..Len(decoded') : decoded'[k] = Fetched(Blocks[k])'
    BY <1>1, <1>4, <2>5
  <2>7. QED
    BY <1>0, <1>1, <1>4, <2>2, <2>3, <2>4, <2>6, WrittenKept DEF XdInv
<1>8. QED
  BY <1>6, <1>7

LEMMA WindowEndsKeeps ==
  ASSUME XdInv, xd # NoXdJob, WindowEnds
  PROVE  XdInv'
<1> DEFINE bad == \/ Compared(winDone + 1) /\ decoded # Decoding(xd.x, winDone + 1)
                  \/ winDone = xd.room
<1>1. /\ xdStep = "window" /\ Len(decoded) = Len(Blocks)
      /\ UNCHANGED <<xd, fed, readLen, decoded, curblkno, curblk>>
      /\ bad => xdStep' = "failed" /\ UNCHANGED <<winDone, xdOut>>
      /\ ~bad => xdOut' = Append(xdOut, decoded) /\ winDone' = winDone + 1 /\ xdStep' = "decode"
  BY DEF WindowEnds
<1>2. /\ winDone + 1 \in 1..Len(xd.windows) /\ winDone < Len(xd.windows)
      /\ Blocks \in Seq(Nat) /\ DOMAIN Blocks = 1..Len(Blocks) /\ Len(Blocks) \in Nat
      /\ decoded \in Seq(Nat) /\ DOMAIN decoded = 1..Len(decoded)
      /\ \A k \in 1..Len(decoded) : decoded[k] = Fetched(Blocks[k])
  <2>1. /\ winDone + 1 \in 1..Len(xd.windows) /\ winDone < Len(xd.windows)
        /\ Blocks \in Seq(Nat) /\ decoded \in Seq(Nat)
        /\ \A k \in 1..Len(decoded) : decoded[k] = Fetched(Blocks[k])
    BY <1>1, InWindow
  <2>2. /\ DOMAIN Blocks = 1..Len(Blocks) /\ Len(Blocks) \in Nat
        /\ DOMAIN decoded = 1..Len(decoded)
    BY <2>1
  <2>3. QED
    BY <2>1, <2>2
<1>3. decoded = [k \in DOMAIN Blocks |-> Fetched(Blocks[k])]
  BY <1>1, <1>2
<1>4. winDone \in Nat /\ xd.room \in Nat /\ Len(xd.windows) \in Nat
  BY XdTypes
<1>5. OwnRom => decoded = Decoding(xd.x, winDone + 1)
  <2>1. LongBlocks \in Nat /\ Len(xd.x) \in Nat
    BY LongAssumption, XdTypes DEF LongAssumption
  <2>2. ASSUME OwnRom, NEW k \in DOMAIN Blocks PROVE Fetched(Blocks[k]) = BlockOf(xd.x, Blocks[k])
    <3>1. Blocks[k] \in Nat /\ Blocks[k] < Len(xd.x)
      BY <1>1, <1>2, InWindow
    <3>2. Blocks[k] < LongBlocks /\ xd.rom = xd.x
      BY <2>1, <2>2, <3>1 DEF OwnRom
    <3>. QED
      BY <3>1, <3>2, BlockFetched DEF Fetched
  <2>3. Decoding(xd.x, winDone + 1) = [k \in DOMAIN Blocks |-> BlockOf(xd.x, Blocks[k])]
    BY DEF Decoding, Blocks
  <2>. QED
    BY <1>3, <2>2, <2>3
<1>6. /\ fed \in 0..xd.kept /\ readLen \in 0..Buffer /\ XdJobOK(xd)
      /\ readLen = Buffer \/ fed = xd.kept
      /\ xdOut \in Seq(Seq(Nat)) /\ Len(xdOut) = winDone
      /\ curblkno' \in Nat
  BY <1>1 DEF XdInv
<1>7. curblk' = Fetched(curblkno)' /\ OwnRom' = OwnRom
  BY <1>1, XdTypes DEF Fetched, OwnRom
<1>8. CASE bad
  <2>1. ~(OwnRom /\ xd.room >= Len(xd.windows))
    BY <1>2, <1>4, <1>5, <1>8
  <2>2. xdStep' = "failed" /\ UNCHANGED <<winDone, xdOut>>
    BY <1>1, <1>8
  <2> HIDE DEF bad
  <2>3. QED
    BY <1>1, <1>6, <1>7, <2>1, <2>2, WrittenKept DEF XdInv
<1>9. CASE ~bad
  <2>1. xdOut' = Append(xdOut, decoded) /\ winDone' = winDone + 1 /\ xdStep' = "decode"
    BY <1>1, <1>9
  <2>2. /\ xdOut' \in Seq(Seq(Nat)) /\ Len(xdOut') = winDone'
        /\ xdOut'[winDone + 1] = decoded
        /\ \A w \in 1..winDone : xdOut'[w] = xdOut[w]
    BY <1>2, <1>6, <2>1, ListGrows
  <2>3. ASSUME NEW w \in 1..winDone', (Compared(w) \/ OwnRom)'
        PROVE  xdOut'[w] = Decoding(xd.x, w)'
    <3>1. (Compared(w) \/ OwnRom) /\ Decoding(xd.x, w)' = Decoding(xd.x, w)
      BY <1>1, <1>7, <2>3 DEF Compared, Decoding
    <3>2. CASE w = winDone + 1
      BY <1>5, <1>9, <2>2, <3>1, <3>2
    <3>3. CASE w # winDone + 1
      <4>1. w \in 1..winDone
        BY <1>4, <2>1, <3>3
      <4>. QED
        BY <2>2, <3>1, <4>1 DEF XdInv
    <3>. QED
      BY <3>2, <3>3
  <2>4. winDone' \in 0..Len(xd.windows)
    BY <1>2, <1>4, <2>1
  <2> HIDE DEF bad
  <2>5. QED
    BY <1>1, <1>6, <1>7, <2>1, <2>2, <2>3, <2>4 DEF XdInv
<1>. QED
  BY <1>8, <1>9

\* A job is taken as it is made from a selection; the first block is read.
LEMMA StartXdeltaKeeps ==
  ASSUME XdInv, NEW j, XdJobOK(j), StartXdelta(j)
  PROVE  XdInv'
<1>1. /\ xd = NoXdJob /\ xd' = j /\ curblk' = BlockOf(j.rom, 0)
      /\ UNCHANGED <<xdStep, fed, readLen, winDone, decoded, curblkno, xdOut>>
  BY DEF StartXdelta
<1>2. /\ xdStep = "read" /\ fed = 0 /\ readLen = 0 /\ winDone = 0
      /\ decoded = << >> /\ curblkno = 0 /\ xdOut = << >>
  BY <1>1 DEF XdInv
<1>3. CASE j = NoXdJob
  BY <1>1, <1>2, <1>3 DEF XdInv
<1>4. CASE j # NoXdJob
  <2>1. /\ j.kept \in Nat /\ Len(j.windows) \in Nat /\ Buffer \in Nat
    BY BufferAssumption DEF XdJobOK, BufferAssumption
  <2>2. curblk' = Fetched(curblkno)'
    <3>1. LongBlocks \in Nat /\ LongBlocks > 0
      BY LongAssumption DEF LongAssumption
    <3>2. SeekBlock(0) = 0
      BY <3>1 DEF SeekBlock
    <3>. QED
      BY <1>1, <1>2, <3>2 DEF Fetched, SeekBlock
  <2>3. xdOut' \in Seq(Seq(Nat)) /\ Len(xdOut') = 0
    BY <1>1, <1>2
  <2>4. QED
    BY <1>1, <1>2, <1>4, <2>1, <2>2, <2>3 DEF XdInv
<1>5. QED
  BY <1>3, <1>4

LEMMA XdKeeps ==
  ASSUME XdInv, XdStep
  PROVE  XdInv'
  BY ReadPatchKeeps, WantsInputKeeps, WindowStartsKeeps, GetSourceBlockKeeps,
     CopyFromBlockKeeps, WindowEndsKeeps DEF XdStep

LEMMA XdUnchanged ==
  ASSUME XdInv, UNCHANGED xdVars
  PROVE  XdInv'
<1>1. /\ UNCHANGED <<xd, xdStep, fed, readLen, winDone, decoded, curblkno, curblk, xdOut>>
  BY DEF xdVars
<1>2. CASE xd = NoXdJob
  BY <1>1, <1>2 DEF XdInv
<1>3. CASE xd # NoXdJob
  <2>1. /\ WindowComplete' <=> WindowComplete
        /\ Blocks' = Blocks /\ \A b : Fetched(b)' = Fetched(b)
    BY <1>1, <1>3, WrittenKept DEF WindowComplete
  <2>2. /\ curblk' = Fetched(curblkno)'
    BY <1>1, <1>3, <2>1, XdTypes
  <2>. QED
    BY <1>1, <1>3, <2>1, <2>2, WrittenKept DEF XdInv
<1>. QED
  BY <1>2, <1>3

\* Of a patch that is whole the loop leaves no window out.
LEMMA XdRight == XdInv => XdeltaApplies
<1> SUFFICES ASSUME XdInv, xd # NoXdJob PROVE XdeltaApplies
  BY DEF XdeltaApplies
<1> DEFINE all == Len(xd.windows)
           whole == xd.kept >= WindowEnd(all)
<1>1. /\ all \in Nat /\ winDone \in Nat /\ winDone <= all /\ xd.kept \in Nat
      /\ fed \in Nat /\ fed <= xd.kept
  BY XdTypes
<1>2. ASSUME xdStep = "done", whole PROVE winDone = all
  <2>1. ~WindowComplete /\ readLen < Buffer /\ (readLen = Buffer \/ fed = xd.kept)
    BY <1>2 DEF XdInv
  <2>2. fed = xd.kept
    BY <2>1, XdTypes
  <2>3. CASE winDone < all
    <3>1. WindowEnd(winDone + 1) <= WindowEnd(all)
      <4>1. winDone + 1 \in 0..all /\ all \in 0..all /\ winDone + 1 <= all
        BY <1>1, <2>3
      <4>2. XdJobOK(xd)
        BY XdTypes
      <4>3. QED
        BY <4>1, <4>2 DEF XdJobOK, WindowEnd
    <3>2. WindowEnd(winDone + 1) \in Nat /\ WindowEnd(all) \in Nat
      <4>1. winDone + 1 \in 1..all /\ all \in 1..all
        BY <1>1, <2>3
      <4>2. xd.windows[winDone + 1].end \in Nat /\ xd.windows[all].end \in Nat
        BY <4>1, WindowTypes
      <4>3. QED
        BY <4>1, <4>2 DEF WindowEnd, EndIn
    <3>3. QED
      BY <1>1, <1>2, <2>1, <2>2, <2>3, <3>1, <3>2 DEF WindowComplete
  <2>4. QED
    BY <1>1, <2>3
<1>3. /\ xdOut \in Seq(Seq(Nat)) /\ Len(xdOut) = winDone
      /\ \A w \in 1..winDone : Compared(w) \/ OwnRom => xdOut[w] = Decoding(xd.x, w)
      /\ OwnRom /\ xd.room >= all => xdStep # "failed"
  BY DEF XdInv
<1>4. OwnRom => xdOut = Target(winDone)
  <2>1. xdOut = [w \in 1..winDone |-> xdOut[w]]
    BY <1>3
  <2>. QED
    BY <1>3, <2>1 DEF Target
<1>. QED
  BY <1>2, <1>3, <1>4 DEF XdeltaApplies

-----------------------------------------------------------------------------
\* PPF, DPS and APS for GBA: what bytes of the output a write changes.

LEMMA FillBytes ==
  ASSUME NEW n \in Nat
  PROVE  Fill(n) \in Seq({0}) /\ Len(Fill(n)) = n /\ \A i \in 1..n : Fill(n)[i] = 0
  BY DEF Fill

\* A file with zeros behind it.
LEMMA FilledBytes ==
  ASSUME NEW S, 0 \in S, NEW f \in Seq(S), NEW n \in Nat
  PROVE  /\ (f \o Fill(n)) \in Seq(S) /\ Len(f \o Fill(n)) = Len(f) + n
         /\ \A i \in 1..(Len(f) + n) : (f \o Fill(n))[i] = ByteAt(f, i - 1)
<1> DEFINE z == Fill(n)
<1>1. z \in Seq(S) /\ Len(z) = n /\ \A i \in 1..n : z[i] = 0
  BY FillBytes
<1> HIDE DEF z
<1>2. /\ (f \o z) \in Seq(S) /\ Len(f \o z) = Len(f) + n
      /\ \A i \in 1..(Len(f) + n) : (f \o z)[i] = IF i <= Len(f) THEN f[i] ELSE z[i - Len(f)]
  BY <1>1
<1>3. ASSUME NEW i \in 1..(Len(f) + n) PROVE (f \o z)[i] = ByteAt(f, i - 1)
  <2>1. CASE i <= Len(f)
    BY <1>2, <2>1 DEF ByteAt
  <2>2. CASE ~(i <= Len(f))
    BY <1>1, <1>2, <2>2 DEF ByteAt
  <2>3. QED
    BY <2>1, <2>2
<1>4. QED
  BY <1>2, <1>3 DEF z

LEMMA TruncateBytes ==
  ASSUME NEW S, 0 \in S, NEW f \in Seq(S), NEW n \in Nat
  PROVE  /\ Truncate(f, n) \in Seq(S) /\ Len(Truncate(f, n)) = n
         /\ \A i \in 1..n : Truncate(f, n)[i] = ByteAt(f, i - 1)
<1> DEFINE m == Larger(n - Len(f), 0)
           g == f \o Fill(m)
<1>1. m \in Nat /\ n <= Len(f) + m
  BY DEF Larger
<1> HIDE DEF m
<1>2. /\ g \in Seq(S) /\ Len(g) = Len(f) + m
      /\ \A i \in 1..(Len(f) + m) : g[i] = ByteAt(f, i - 1)
  BY <1>1, FilledBytes
<1> HIDE DEF g
<1>3. /\ SubSeq(g, 0 + 1, n) \in Seq(S) /\ Len(SubSeq(g, 0 + 1, n)) = n - 0
      /\ \A i \in 1..(n - 0) : SubSeq(g, 0 + 1, n)[i] = g[0 + i]
  BY <1>1, <1>2, SubSeqBytes
<1>4. Truncate(f, n) = SubSeq(g, 0 + 1, n)
  BY DEF Truncate, g, m
<1>5. QED
  BY <1>1, <1>2, <1>3, <1>4

LEMMA ReadBytes ==
  ASSUME NEW S, NEW f \in Seq(S), NEW from \in Nat, NEW n \in Nat
  PROVE  /\ ReadAt(f, from, n) \in Seq(S)
         /\ Len(ReadAt(f, from, n)) = IF from + n <= Len(f) THEN n
                                      ELSE IF from <= Len(f) THEN Len(f) - from ELSE 0
         /\ \A i \in 1..Len(ReadAt(f, from, n)) : ReadAt(f, from, n)[i] = f[from + i]
<1>1. CASE from <= Len(f)
  <2> DEFINE b == Smaller(from + n, Len(f))
  <2>1. b \in Nat /\ from <= b /\ b <= Len(f)
        /\ b - from = IF from + n <= Len(f) THEN n ELSE Len(f) - from
    BY <1>1 DEF Smaller
  <2> HIDE DEF b
  <2>2. /\ SubSeq(f, from + 1, b) \in Seq(S) /\ Len(SubSeq(f, from + 1, b)) = b - from
        /\ \A i \in 1..(b - from) : SubSeq(f, from + 1, b)[i] = f[from + i]
    BY <2>1, SubSeqBytes
  <2>3. ReadAt(f, from, n) = SubSeq(f, from + 1, b)
    BY DEF ReadAt, b
  <2>4. QED
    BY <1>1, <2>1, <2>2, <2>3
<1>2. CASE ~(from <= Len(f))
  <2>1. Smaller(from + n, Len(f)) = Len(f)
    BY <1>2 DEF Smaller
  <2>2. SubSeq(f, from + 1, Len(f)) = << >>
    BY <1>2
  <2>3. ReadAt(f, from, n) = << >>
    BY <2>1, <2>2 DEF ReadAt
  <2>4. QED
    BY <1>2, <2>3
<1>3. QED
  BY <1>1, <1>2

LEMMA PaddedBytes ==
  ASSUME NEW S, 0 \in S, NEW f \in Seq(S), NEW from \in Nat
  PROVE  /\ Padded(f, from) \in Seq(S) /\ Len(Padded(f, from)) = Chunk
         /\ \A i \in 1..Chunk : Padded(f, from)[i] = ByteAt(f, from + i - 1)
<1> DEFINE g == ReadAt(f, from, Chunk)
<1>0. Chunk \in Nat
  BY BlockAssumption
<1>1. /\ g \in Seq(S)
      /\ Len(g) = IF from + Chunk <= Len(f) THEN Chunk
                  ELSE IF from <= Len(f) THEN Len(f) - from ELSE 0
      /\ \A i \in 1..Len(g) : g[i] = f[from + i]
  BY <1>0, ReadBytes
<1> HIDE DEF g
<1>2. /\ Truncate(g, Chunk) \in Seq(S) /\ Len(Truncate(g, Chunk)) = Chunk
      /\ \A i \in 1..Chunk : Truncate(g, Chunk)[i] = ByteAt(g, i - 1)
  BY <1>0, <1>1, TruncateBytes
<1>3. ASSUME NEW i \in 1..Chunk PROVE ByteAt(g, i - 1) = ByteAt(f, from + i - 1)
  <2>1. CASE i <= Len(g)
    <3>1. i \in 1..Len(g) /\ from + i <= Len(f)
      BY <1>0, <1>1, <2>1
    <3>2. ByteAt(g, i - 1) = g[i] /\ ByteAt(f, from + i - 1) = f[from + i]
      BY <1>1, <3>1 DEF ByteAt
    <3>3. QED
      BY <1>1, <3>1, <3>2
  <2>2. CASE ~(i <= Len(g))
    BY <1>0, <1>1, <2>2 DEF ByteAt
  <2>3. QED
    BY <2>1, <2>2
<1>4. QED
  BY <1>2, <1>3 DEF Padded, g

LEMMA OverwriteBytes ==
  ASSUME NEW S, 0 \in S, NEW f \in Seq(S), NEW b \in Seq(S), b # << >>, NEW from \in Nat
  PROVE  /\ Overwrite(f, from, b) \in Seq(S)
         /\ Len(Overwrite(f, from, b)) = Larger(Len(f), from + Len(b))
         /\ \A p \in Nat : ByteAt(Overwrite(f, from, b), p)
              = IF from <= p /\ p < from + Len(b) THEN b[p - from + 1] ELSE ByteAt(f, p)
<1> DEFINE m == Larger(from - Len(f), 0)
           g == f \o Fill(m)
           h == SubSeq(g, 1, from)
           t == SubSeq(f, from + Len(b) + 1, Len(f))
           out == h \o b \o t
<1>1. m \in Nat /\ from <= Len(f) + m
  BY DEF Larger
<1> HIDE DEF m
<1>2. /\ g \in Seq(S) /\ Len(g) = Len(f) + m
      /\ \A i \in 1..(Len(f) + m) : g[i] = ByteAt(f, i - 1)
  BY <1>1, FilledBytes
<1> HIDE DEF g
<1>3. /\ h \in Seq(S) /\ Len(h) = from /\ \A i \in 1..from : h[i] = ByteAt(f, i - 1)
  <2>1. /\ SubSeq(g, 0 + 1, from) \in Seq(S) /\ Len(SubSeq(g, 0 + 1, from)) = from - 0
        /\ \A i \in 1..(from - 0) : SubSeq(g, 0 + 1, from)[i] = g[0 + i]
    BY <1>1, <1>2, SubSeqBytes
  <2>2. QED
    BY <1>1, <1>2, <2>1
<1>4. /\ t \in Seq(S)
      /\ Len(t) = IF from + Len(b) <= Len(f) THEN Len(f) - (from + Len(b)) ELSE 0
      /\ \A i \in 1..Len(t) : t[i] = f[from + Len(b) + i]
  <2>1. CASE from + Len(b) <= Len(f)
    BY <2>1, SubSeqBytes
  <2>2. CASE ~(from + Len(b) <= Len(f))
    <3>1. t = << >>
      BY <2>2
    <3>2. QED
      BY <2>2, <3>1
  <2>3. QED
    BY <2>1, <2>2
<1> HIDE DEF h, t
<1>5. /\ out \in Seq(S) /\ Len(out) = from + Len(b) + Len(t)
      /\ \A i \in 1..from : out[i] = h[i]
      /\ \A i \in 1..Len(b) : out[from + i] = b[i]
      /\ \A i \in 1..Len(t) : out[from + Len(b) + i] = t[i]
  <2> DEFINE u == h \o b
  <2>1. /\ u \in Seq(S) /\ Len(u) = from + Len(b)
        /\ \A i \in 1..from : u[i] = h[i]
        /\ \A i \in 1..Len(b) : u[from + i] = b[i]
    <3>1. from = Len(h) /\ h \in Seq(S)
      BY <1>3
    <3>2. /\ (h \o b) \in Seq(S) /\ Len(h \o b) = from + Len(b)
          /\ \A i \in 1..from : (h \o b)[i] = h[i]
          /\ \A i \in 1..Len(b) : (h \o b)[from + i] = b[i]
      BY <3>1, JoinBytes
    <3>3. QED
      BY <3>2
  <2> HIDE DEF u
  <2>2. /\ (u \o t) \in Seq(S) /\ Len(u \o t) = from + Len(b) + Len(t)
        /\ \A i \in 1..(from + Len(b)) : (u \o t)[i] = u[i]
        /\ \A i \in 1..Len(t) : (u \o t)[from + Len(b) + i] = t[i]
    <3> DEFINE n == from + Len(b)
    <3>1. n = Len(u) /\ u \in Seq(S) /\ t \in Seq(S)
      BY <1>4, <2>1
    <3> HIDE DEF n
    <3>2. /\ (u \o t) \in Seq(S) /\ Len(u \o t) = n + Len(t)
          /\ \A i \in 1..n : (u \o t)[i] = u[i]
          /\ \A i \in 1..Len(t) : (u \o t)[n + i] = t[i]
      BY <3>1, JoinBytes
    <3>3. QED
      BY <3>2 DEF n
  <2>3. out = u \o t
    BY DEF u
  <2>4. \A i \in 1..from : i \in 1..(from + Len(b))
    OBVIOUS
  <2>5. \A i \in 1..Len(b) : from + i \in 1..(from + Len(b))
    OBVIOUS
  <2> HIDE DEF out
  <2>6. QED
    BY <2>1, <2>2, <2>3, <2>4, <2>5
<1> HIDE DEF out
<1>6. Len(out) = Larger(Len(f), from + Len(b))
  <2>1. Len(out) = from + Len(b) + Len(t)
    BY <1>5
  <2>2. Len(t) = IF from + Len(b) <= Len(f) THEN Len(f) - (from + Len(b)) ELSE 0
    BY <1>4
  <2>3. Len(f) \in Nat /\ Len(b) \in Nat
    OBVIOUS
  <2>4. CASE from + Len(b) <= Len(f)
    BY <2>1, <2>2, <2>3, <2>4 DEF Larger
  <2>5. CASE ~(from + Len(b) <= Len(f))
    BY <2>1, <2>2, <2>3, <2>5 DEF Larger
  <2>6. QED
    BY <2>4, <2>5
<1>7. ASSUME NEW p \in Nat
      PROVE  ByteAt(out, p) = IF from <= p /\ p < from + Len(b) THEN b[p - from + 1]
                              ELSE ByteAt(f, p)
  <2>0. Len(f) \in Nat /\ Len(b) \in Nat /\ Len(t) \in Nat
    BY <1>4
  <2>1. CASE p < from
    <3>1. p + 1 \in 1..from /\ p < Len(out) /\ (p + 1) - 1 = p
      BY <1>5, <2>0, <2>1
    <3>2. ByteAt(out, p) = out[p + 1]
      BY <3>1 DEF ByteAt
    <3>3. out[p + 1] = ByteAt(f, p)
      BY <1>3, <1>5, <3>1
    <3>4. QED
      BY <2>1, <3>2, <3>3
  <2>2. CASE from <= p /\ p < from + Len(b)
    <3>1. p - from + 1 \in 1..Len(b) /\ p < Len(out) /\ from + (p - from + 1) = p + 1
      BY <1>5, <2>0, <2>2
    <3>2. out[p + 1] = b[p - from + 1]
      BY <1>5, <3>1
    <3>3. QED
      BY <2>2, <3>1, <3>2 DEF ByteAt
  <2>3. CASE from + Len(b) <= p /\ p < Len(out)
    <3>1. /\ p - from - Len(b) + 1 \in 1..Len(t) /\ p < Len(f)
          /\ from + Len(b) + (p - from - Len(b) + 1) = p + 1
      <4> DEFINE x == Len(b)
                 y == Len(t)
                 z == Len(f)
      <4>1. /\ x \in Nat /\ y \in Nat /\ z \in Nat /\ from + x <= p /\ p < from + x + y
            /\ y = IF from + x <= z THEN z - (from + x) ELSE 0
        BY <1>4, <1>5, <2>0, <2>3
      <4> HIDE DEF x, y, z
      <4>2. p - from - x + 1 \in 1..y /\ p < z /\ from + x + (p - from - x + 1) = p + 1
        BY <4>1
      <4>3. QED
        BY <4>2 DEF x, y, z
    <3>2. PICK k \in 1..Len(t) : from + Len(b) + k = p + 1
      BY <3>1
    <3>3. out[p + 1] = t[k]
      BY <1>5, <3>2
    <3>4. t[k] = f[p + 1]
      BY <1>4, <3>2
    <3>5. QED
      BY <2>0, <2>3, <3>1, <3>3, <3>4 DEF ByteAt
  <2>4. CASE from + Len(b) <= p /\ ~(p < Len(out))
    <3>1. ~(p < Len(f))
      BY <1>6, <2>0, <2>4 DEF Larger
    <3>2. QED
      BY <2>0, <2>4, <3>1 DEF ByteAt
  <2>5. QED
    BY <2>0, <2>1, <2>2, <2>3, <2>4
<1>8. Overwrite(f, from, b) = out
  BY DEF Overwrite, out, h, g, m, t
<1>9. QED
  BY <1>5, <1>6, <1>7, <1>8

-----------------------------------------------------------------------------
\* APS for GBA: each block, once, becomes the other file's.

LEMMA ByteIn ==
  ASSUME NEW S, 0 \in S, NEW f \in Seq(S), NEW p \in Nat
  PROVE  ByteAt(f, p) \in S
  BY DEF ByteAt

LEMMA XorBack ==
  ASSUME NEW a \in {0, 1}, NEW b \in {0, 1}
  PROVE  /\ XorBit(a, XorBit(a, b)) = b /\ XorBit(b, XorBit(a, b)) = a
         /\ XorBit(a, b) \in {0, 1}
  BY DEF XorBit

LEMMA GbaTypes ==
  ASSUME GbaJobOK(blk)
  PROVE  /\ blk.x \in Seq({0, 1}) /\ blk.y \in Seq({0, 1}) /\ blk.rom \in Seq({0, 1})
         /\ GbaGoal \in Seq({0, 1})
         /\ Len(blk.blocks) \in Nat /\ DOMAIN blk.blocks = 1..Len(blk.blocks)
         /\ blk.blocks = << >> <=> Len(blk.blocks) = 0
         /\ \A b \in 1..Len(blk.blocks) :
              /\ blk.blocks[b].at \in Nat
              /\ blk.blocks[b].crc1 = Padded(blk.x, blk.blocks[b].at)
              /\ blk.blocks[b].crc2 = Padded(blk.y, blk.blocks[b].at)
              /\ \A i \in 1..Chunk : blk.blocks[b].xor[i]
                   = XorBit(Padded(blk.x, blk.blocks[b].at)[i],
                            Padded(blk.y, blk.blocks[b].at)[i])
<1>1. /\ blk.x \in Seq({0, 1}) /\ blk.y \in Seq({0, 1}) /\ blk.rom \in Seq({0, 1})
      /\ blk.blocks \in Seq({StoredBlock(blk.x, blk.y, blk.blocks[b].at) : b \in DOMAIN blk.blocks})
      /\ \A b \in DOMAIN blk.blocks :
           /\ blk.blocks[b].at \in Nat
           /\ blk.blocks[b] = StoredBlock(blk.x, blk.y, blk.blocks[b].at)
  BY DEF GbaJobOK
<1>2. GbaGoal \in Seq({0, 1})
  BY <1>1 DEF GbaGoal
<1>3. \E T : blk.blocks \in Seq(T)
  BY <1>1
<1>4. /\ Len(blk.blocks) \in Nat /\ DOMAIN blk.blocks = 1..Len(blk.blocks)
      /\ blk.blocks = << >> <=> Len(blk.blocks) = 0
  BY <1>3
<1>5. ASSUME NEW b \in 1..Len(blk.blocks)
      PROVE  /\ blk.blocks[b].at \in Nat
             /\ blk.blocks[b].crc1 = Padded(blk.x, blk.blocks[b].at)
             /\ blk.blocks[b].crc2 = Padded(blk.y, blk.blocks[b].at)
             /\ \A i \in 1..Chunk : blk.blocks[b].xor[i]
                   = XorBit(Padded(blk.x, blk.blocks[b].at)[i],
                            Padded(blk.y, blk.blocks[b].at)[i])
  <2> DEFINE from == blk.blocks[b].at
  <2>1. from \in Nat /\ blk.blocks[b] = StoredBlock(blk.x, blk.y, from)
    BY <1>1, <1>4
  <2> HIDE DEF from
  <2>2. /\ blk.blocks[b].crc1 = Padded(blk.x, from)
        /\ blk.blocks[b].crc2 = Padded(blk.y, from)
        /\ \A i \in 1..Chunk : blk.blocks[b].xor[i]
                   = XorBit(Padded(blk.x, from)[i], Padded(blk.y, from)[i])
    BY <2>1 DEF StoredBlock
  <2>3. QED
    BY <2>1, <2>2 DEF from
<1>6. QED
  BY <1>1, <1>2, <1>4, <1>5

\* Which file the ROM is.
Which == IF blk.rom = blk.x THEN "original" ELSE "modified"

\* What the next block finds: it is still the ROM's, and known as such.
LEMMA NextBlock ==
  ASSUME GbaJobOK(blk), Reversible, GbaInv, blkStep = "apply", at < Len(blk.blocks)
  PROVE  LET block == blk.blocks[at + 1]
             bytes == Padded(image, block.at)
         IN /\ \A i \in 1..Chunk : XorBit(bytes[i], block.xor[i])
                                     = ByteAt(GbaGoal, block.at + i - 1)
            /\ Recognised(block, bytes) = {Which}
<1> DEFINE block == blk.blocks[at + 1]
           bytes == Padded(image, block.at)
<1>0. /\ at \in Nat /\ at + 1 \in 1..Len(blk.blocks) /\ Len(blk.blocks) \in Nat
      /\ Chunk \in Nat /\ image \in Seq({0, 1})
  BY GbaTypes, BlockAssumption DEF GbaInv
<1>1. /\ block.at \in Nat
      /\ block.crc1 = Padded(blk.x, block.at) /\ block.crc2 = Padded(blk.y, block.at)
      /\ \A i \in 1..Chunk : block.xor[i]
                   = XorBit(Padded(blk.x, block.at)[i], Padded(blk.y, block.at)[i])
  BY <1>0, GbaTypes
<1>2. ASSUME NEW i \in 1..Chunk
      PROVE  ByteAt(image, block.at + i - 1) = ByteAt(blk.rom, block.at + i - 1)
  <2>1. block.at + i - 1 \in Nat /\ block.at + i - 1 \in block.at..(block.at + Chunk - 1)
    BY <1>0, <1>1
  <2>2. ASSUME NEW b \in 1..at
        PROVE  block.at + i - 1 \notin blk.blocks[b].at..(blk.blocks[b].at + Chunk - 1)
    <3>1. b \in 1..Len(blk.blocks) /\ b # at + 1
      BY <1>0
    <3>2. \/ blk.blocks[b].at + Chunk <= block.at
          \/ block.at + Chunk <= blk.blocks[b].at
      BY <1>0, <3>1, GbaTypes DEF GbaJobOK
    <3>3. blk.blocks[b].at \in Nat
      BY <3>1, GbaTypes
    <3> DEFINE o == blk.blocks[b].at
               n == block.at
    <3>4. /\ o \in Nat /\ n \in Nat /\ Chunk \in Nat
          /\ o + Chunk <= n \/ n + Chunk <= o
      BY <1>0, <1>1, <3>2, <3>3
    <3> HIDE DEF o, n, block
    <3>5. n + i - 1 \notin o..(o + Chunk - 1)
      BY <3>4
    <3>6. QED
      BY <3>5 DEF o, n
  <2>3. ~InBlocks(at, block.at + i - 1)
    BY <2>2 DEF InBlocks
  <2>4. QED
    BY <2>1, <2>3 DEF GbaInv
<1> HIDE DEF block
<1>3. /\ bytes \in Seq({0, 1}) /\ Len(bytes) = Chunk
      /\ \A i \in 1..Chunk : bytes[i] = ByteAt(image, block.at + i - 1)
  BY <1>0, <1>1, PaddedBytes
<1>4. ASSUME NEW f \in Seq({0, 1})
      PROVE  /\ Padded(f, block.at) \in Seq({0, 1}) /\ Len(Padded(f, block.at)) = Chunk
             /\ \A i \in 1..Chunk : /\ Padded(f, block.at)[i] = ByteAt(f, block.at + i - 1)
                                    /\ Padded(f, block.at)[i] \in {0, 1}
  <2>1. /\ Padded(f, block.at) \in Seq({0, 1}) /\ Len(Padded(f, block.at)) = Chunk
        /\ \A i \in 1..Chunk : Padded(f, block.at)[i] = ByteAt(f, block.at + i - 1)
    BY <1>0, <1>1, PaddedBytes
  <2>2. QED
    BY <1>0, <2>1
<1>5. bytes = Padded(blk.rom, block.at)
  <2> HIDE DEF bytes
  <2>1. \A i \in 1..Chunk : bytes[i] = Padded(blk.rom, block.at)[i]
    BY <1>2, <1>3, <1>4, GbaTypes
  <2>2. QED
    BY <1>3, <1>4, <2>1, SameList, GbaTypes
<1>6. ASSUME NEW i \in 1..Chunk
      PROVE  XorBit(bytes[i], block.xor[i]) = ByteAt(GbaGoal, block.at + i - 1)
  <2> DEFINE a == Padded(blk.x, block.at)[i]
             b == Padded(blk.y, block.at)[i]
  <2>1. /\ a = ByteAt(blk.x, block.at + i - 1) /\ b = ByteAt(blk.y, block.at + i - 1)
        /\ a \in {0, 1} /\ b \in {0, 1} /\ block.xor[i] = XorBit(a, b)
    BY <1>1, <1>4, GbaTypes
  <2>2. bytes[i] = IF blk.rom = blk.x THEN a ELSE b
    BY <1>5 DEF Reversible
  <2> HIDE DEF a, b, bytes
  <2>3. XorBit(a, XorBit(a, b)) = b /\ XorBit(b, XorBit(a, b)) = a
    BY <2>1, XorBack
  <2>4. QED
    BY <2>1, <2>2, <2>3 DEF GbaGoal
<1>7. Recognised(block, bytes) = {Which}
  <2>1. CASE blk.rom = blk.x
    <3>1. bytes = block.crc1
      BY <1>1, <1>5, <2>1
    <3>2. QED
      BY <2>1, <3>1 DEF Recognised, Which
  <2>2. CASE blk.rom # blk.x
    <3>1. blk.rom = blk.y /\ block.crc1 # block.crc2
      BY <1>0, <2>2, GbaTypes DEF Reversible, block
    <3>2. bytes = block.crc2
      BY <1>1, <1>5, <3>1
    <3>3. QED
      BY <2>2, <3>1, <3>2 DEF Recognised, Which
  <2>3. QED
    BY <2>1, <2>2
<1>8. QED
  BY <1>6, <1>7 DEF block

LEMMA GbaBlockKeeps ==
  ASSUME BlkInv, GbaBlock
  PROVE  BlkInv'
<1>1. /\ blk # NoBlockJob /\ blk.fmt = "gba" /\ blkStep = "apply" /\ at < Len(blk.blocks)
      /\ GbaJobOK(blk) /\ (Reversible => GbaInv) /\ BlockJobOK(blk)
  BY DEF BlkInv, GbaBlock, Runs, BlockJobOK, Stored
<1>2. blk' = blk
  BY DEF GbaBlock, BlockFail
<1>3. SUFFICES ASSUME Reversible PROVE GbaInv'
  BY <1>1, <1>2 DEF BlkInv, Reversible
<1> DEFINE block == blk.blocks[at + 1]
           bytes == Padded(image, block.at)
           new == [i \in 1..Chunk |-> XorBit(bytes[i], block.xor[i])]
<1>4. /\ at \in Nat /\ at + 1 \in 1..Len(blk.blocks) /\ Len(blk.blocks) \in Nat
      /\ Chunk \in Nat /\ Chunk >= 1 /\ image \in Seq({0, 1}) /\ block.at \in Nat
      /\ GbaGoal \in Seq({0, 1})
      /\ seen = IF at = 0 THEN {} ELSE {Which}
  BY <1>1, <1>3, GbaTypes, BlockAssumption DEF GbaInv, Which
<1>5. /\ \A i \in 1..Chunk : XorBit(bytes[i], block.xor[i]) = ByteAt(GbaGoal, block.at + i - 1)
      /\ Recognised(block, bytes) = {Which}
  BY <1>1, <1>3, NextBlock
<1>6. /\ image' = Overwrite(image, block.at, new) /\ seen' = seen \cup {Which}
      /\ at' = at + 1 /\ blkStep' = blkStep
  <2>1. seen \cup {Which} = {Which}
    BY <1>4
  <2>2. Cardinality(seen \cup {Which}) # 2
    <3>1. Cardinality({Which}) = 1
      BY FS_Singleton
    <3>2. QED
      BY <2>1, <3>1
  <2>3. ~blk.cut
    BY <1>3 DEF Reversible
  <2> HIDE DEF bytes, new
  <2>4. Stored = blk.blocks
    BY <1>1 DEF Stored
  <2> DEFINE known == Recognised(block, bytes)
  <2>5. IF \/ blk.cut /\ at + 1 = Len(Stored)
           \/ known = {} /\ ~blk.ignore
           \/ Cardinality(seen \cup known) = 2
        THEN BlockFail
        ELSE /\ image' = Overwrite(image, block.at, new) /\ seen' = seen \cup known
             /\ at' = at + 1 /\ UNCHANGED <<blk, blkStep>>
    BY <2>4 DEF GbaBlock, bytes, new
  <2> HIDE DEF known, block
  <2>6. known = {Which} /\ known # {}
    BY <1>5 DEF known
  <2>7. QED
    BY <2>2, <2>3, <2>5, <2>6
<1>7. /\ new \in Seq({0, 1}) /\ Len(new) = Chunk /\ new # << >>
      /\ \A i \in 1..Chunk : new[i] = ByteAt(GbaGoal, block.at + i - 1)
  <2>1. new = [i \in 1..Chunk |-> new[i]] /\ \A i \in 1..Chunk : new[i] = XorBit(bytes[i], block.xor[i])
    OBVIOUS
  <2>2. \A i \in 1..Chunk : new[i] = ByteAt(GbaGoal, block.at + i - 1)
    BY <1>5, <2>1
  <2> HIDE DEF new, block
  <2>3. ASSUME NEW i \in 1..Chunk PROVE new[i] \in {0, 1}
    <3>1. block.at + i - 1 \in Nat
      BY <1>4
    <3>2. ByteAt(GbaGoal, block.at + i - 1) \in {0, 1}
      BY <1>4, <3>1, ByteIn
    <3>3. QED
      BY <2>2, <3>2
  <2>4. new \in Seq({0, 1}) /\ Len(new) = Chunk
    BY <1>4, <2>1, <2>3, GivenList
  <2>5. QED
    BY <1>4, <2>2, <2>4
<1> HIDE DEF new, bytes, block
<1>8. /\ image' \in Seq({0, 1})
      /\ \A p \in Nat : ByteAt(image', p)
           = IF block.at <= p /\ p < block.at + Chunk THEN new[p - block.at + 1]
             ELSE ByteAt(image, p)
  <2>1. /\ 0 \in {0, 1} /\ image \in Seq({0, 1}) /\ new \in Seq({0, 1}) /\ new # << >>
        /\ block.at \in Nat /\ Len(new) = Chunk
    BY <1>4, <1>7
  <2>2. /\ Overwrite(image, block.at, new) \in Seq({0, 1})
        /\ \A p \in Nat : ByteAt(Overwrite(image, block.at, new), p)
             = IF block.at <= p /\ p < block.at + Len(new) THEN new[p - block.at + 1]
               ELSE ByteAt(image, p)
    BY <2>1, OverwriteBytes
  <2>3. QED
    BY <1>6, <2>1, <2>2
<1>9. ASSUME NEW p \in Nat
      PROVE  ByteAt(image', p) = IF InBlocks(at + 1, p) THEN ByteAt(GbaGoal, p)
                                 ELSE ByteAt(blk.rom, p)
  <2>1. CASE block.at <= p /\ p < block.at + Chunk
    <3>1. InBlocks(at + 1, p)
      BY <1>4, <2>1 DEF InBlocks, block
    <3>2. p - block.at + 1 \in 1..Chunk /\ block.at + (p - block.at + 1) - 1 = p
      <4>1. block.at \in Nat /\ Chunk \in Nat
        BY <1>4
      <4>2. QED
        BY <2>1, <4>1
    <3>3. new[p - block.at + 1] = ByteAt(GbaGoal, block.at + (p - block.at + 1) - 1)
      BY <1>7, <3>2
    <3>4. QED
      BY <1>8, <2>1, <3>1, <3>2, <3>3
  <2>2. CASE ~(block.at <= p /\ p < block.at + Chunk)
    <3>1. p \notin block.at..(block.at + Chunk - 1)
      BY <1>4, <2>2
    <3>2. \A b \in 1..(at + 1) : b \in 1..at \/ b = at + 1
      BY <1>4
    <3>3. \A b \in 1..at : b \in 1..(at + 1)
      BY <1>4
    <3>4. InBlocks(at + 1, p) <=> InBlocks(at, p)
      BY <3>1, <3>2, <3>3 DEF InBlocks, block
    <3>5. ByteAt(image, p) = IF InBlocks(at, p) THEN ByteAt(GbaGoal, p) ELSE ByteAt(blk.rom, p)
      BY <1>1, <1>3 DEF GbaInv
    <3>6. QED
      BY <1>8, <2>2, <3>4, <3>5
  <2>3. QED
    BY <2>1, <2>2
<1>10. QED
  <2>1. blkStep' = "apply" /\ at' \in 0..Len(blk.blocks) /\ at' # 0 /\ seen' = {Which}
    BY <1>1, <1>4, <1>6
  <2>2. \A p \in Nat : ByteAt(image', p)
          = IF InBlocks(at', p) THEN ByteAt(GbaGoal, p) ELSE ByteAt(blk.rom, p)
    BY <1>6, <1>9
  <2>3. QED
    BY <1>2, <1>8, <2>1, <2>2 DEF GbaInv, GbaGoal, InBlocks, Which

LEMMA GbaOpenKeeps ==
  ASSUME BlkInv, GbaOpen
  PROVE  BlkInv'
<1>1. /\ blk # NoBlockJob /\ blk.fmt = "gba" /\ blkStep = "open" /\ blk' = blk
      /\ GbaJobOK(blk) /\ (Reversible => GbaInv) /\ BlockJobOK(blk)
      /\ image' = blk.rom /\ blkStep' = "apply" /\ at' = at /\ seen' = seen
  BY DEF BlkInv, GbaOpen, Runs, BlockJobOK
<1>2. SUFFICES ASSUME Reversible PROVE GbaInv'
  BY <1>1 DEF BlkInv, Reversible
<1>3. at' = 0 /\ seen' = {}
  BY <1>1, <1>2 DEF GbaInv
<1>4. \A p \in Nat : ~InBlocks(0, p)
  BY DEF InBlocks
<1>5. image' \in Seq({0, 1}) /\ at' \in 0..Len(blk.blocks)
  BY <1>1, <1>3, GbaTypes
<1>6. QED
  BY <1>1, <1>3, <1>4, <1>5 DEF GbaInv, InBlocks

LEMMA GbaEndKeeps ==
  ASSUME BlkInv, GbaEnd
  PROVE  BlkInv'
<1>1. /\ blk # NoBlockJob /\ blk.fmt = "gba" /\ blkStep = "apply" /\ blk' = blk
      /\ GbaJobOK(blk) /\ (Reversible => GbaInv) /\ BlockJobOK(blk)
      /\ at = Len(blk.blocks) /\ blkStep' = "done"
      /\ image' = IF "original" \in seen THEN Truncate(image, Len(blk.y))
                  ELSE IF "modified" \in seen THEN Truncate(image, Len(blk.x))
                  ELSE image
  BY DEF BlkInv, GbaEnd, Runs, BlockJobOK, Stored
<1>2. SUFFICES ASSUME Reversible PROVE GbaInv'
  BY <1>1 DEF BlkInv, Reversible
<1>3. /\ image \in Seq({0, 1}) /\ seen = {Which}
      /\ \A p \in Nat : ByteAt(image, p)
           = IF InBlocks(Len(blk.blocks), p) THEN ByteAt(GbaGoal, p) ELSE ByteAt(blk.rom, p)
  BY <1>1, <1>2, GbaTypes DEF GbaInv, Reversible, Which
<1>4. /\ blk.x \in Seq({0, 1}) /\ blk.y \in Seq({0, 1}) /\ GbaGoal \in Seq({0, 1})
      /\ blk.rom = blk.x \/ blk.rom = blk.y
  BY <1>1, <1>2, GbaTypes DEF Reversible
<1>5. image' = Truncate(image, Len(GbaGoal))
  BY <1>1, <1>3 DEF Which, GbaGoal
<1>6. /\ image' \in Seq({0, 1}) /\ Len(image') = Len(GbaGoal)
      /\ \A i \in 1..Len(GbaGoal) : image'[i] = ByteAt(image, i - 1)
  <2>1. 0 \in {0, 1} /\ Len(GbaGoal) \in Nat
    BY <1>4
  <2>2. QED
    BY <1>3, <1>5, <2>1, TruncateBytes
<1>7. ASSUME NEW i \in 1..Len(GbaGoal) PROVE image'[i] = GbaGoal[i]
  <2>1. i - 1 \in Nat /\ i - 1 < Len(GbaGoal) /\ (i - 1) + 1 = i /\ Len(blk.x) \in Nat
        /\ Len(blk.y) \in Nat
    BY <1>4
  <2>2. ByteAt(GbaGoal, i - 1) = GbaGoal[i]
    BY <2>1 DEF ByteAt
  <2>3. CASE InBlocks(Len(blk.blocks), i - 1)
    BY <1>3, <1>6, <2>1, <2>2, <2>3
  <2>4. CASE ~InBlocks(Len(blk.blocks), i - 1)
    <3>1. i - 1 \in 0..(Larger(Len(blk.x), Len(blk.y)) - 1)
      BY <2>1 DEF GbaGoal, Larger
    <3>2. ByteAt(blk.x, i - 1) = ByteAt(blk.y, i - 1)
      BY <1>1, <2>4, <3>1, GbaTypes DEF GbaJobOK, InBlocks
    <3>3. ByteAt(blk.rom, i - 1) = ByteAt(GbaGoal, i - 1)
      BY <1>4, <3>2 DEF GbaGoal
    <3>4. QED
      BY <1>3, <1>6, <2>1, <2>2, <2>4, <3>3
  <2>5. QED
    BY <2>3, <2>4
<1>8. image' = GbaGoal
  BY <1>4, <1>6, <1>7, SameList
<1>9. QED
  BY <1>1, <1>8 DEF GbaInv, GbaGoal

-----------------------------------------------------------------------------
\* PPF and DPS: the records are found one behind the other, and each is applied.

\* The cells of a PPF or DPS patch.
Cells ==
  ({"head", "data"} \X Int \X Int) \cup ({"copy"} \X Int \X Int \X Int)
  \cup ({"byte"} \X Int)

\* The cells of record k.
RecordCells(k) == IF blk.fmt = "ppf" THEN PpfCellsOf(blk, k) ELSE DpsCellsOf(blk, k)

RecordList == [k \in DOMAIN blk.records |-> RecordCells(k)]

LEMMA RecordTypes ==
  ASSUME RecordJobOK(blk), WholePatch
  PROVE  /\ blk.rom \in Seq(Int) /\ Len(blk.rom) \in Nat
         /\ Len(blk.records) \in Nat /\ DOMAIN blk.records = 1..Len(blk.records)
         /\ \A k \in 1..Len(blk.records) :
              /\ blk.records[k].at \in Nat /\ blk.records[k].len \in Nat
              /\ blk.records[k].len > 0 /\ blk.records[k].src \in Nat \cup {-1}
              /\ blk.records[k].src >= 0 =>
                   blk.records[k].src + blk.records[k].len <= Len(blk.rom)
              /\ EndOfRecord(k) = blk.records[k].at + blk.records[k].len
              /\ EndOfRecord(k) \in Nat
<1>1. blk.rom \in Seq(Int) /\ blk.records \in Seq([at : Nat, len : Nat, src : Nat \cup {-1}])
  BY DEF RecordJobOK
<1>2. /\ Len(blk.rom) \in Nat
      /\ Len(blk.records) \in Nat /\ DOMAIN blk.records = 1..Len(blk.records)
  BY <1>1
<1>3. ASSUME NEW k \in 1..Len(blk.records)
      PROVE  /\ blk.records[k].at \in Nat /\ blk.records[k].len \in Nat
             /\ blk.records[k].len > 0 /\ blk.records[k].src \in Nat \cup {-1}
             /\ blk.records[k].src >= 0 =>
                   blk.records[k].src + blk.records[k].len <= Len(blk.rom)
             /\ EndOfRecord(k) = blk.records[k].at + blk.records[k].len
             /\ EndOfRecord(k) \in Nat
  <2> DEFINE R == [at : Nat, len : Nat, src : Nat \cup {-1}]
  <2>1. blk.records[k] \in R
    <3>1. blk.records \in Seq(R)
      BY <1>1
    <3> HIDE DEF R
    <3>2. QED
      BY <3>1, Element
  <2>2. /\ blk.records[k].len > 0
        /\ blk.records[k].src >= 0 =>
              blk.records[k].src + blk.records[k].len <= Len(blk.rom)
    BY <1>2 DEF WholePatch
  <2>3. QED
    BY <2>1, <2>2 DEF EndOfRecord
<1>4. QED
  BY <1>1, <1>2, <1>3

\* The bytes of a record in the patch.
LEMMA LiteralData ==
  ASSUME NEW k \in Nat, NEW n \in Nat
  PROVE  /\ Literal(DataByte, k, n) \in Seq(Cells) /\ Len(Literal(DataByte, k, n)) = n
         /\ \A i \in 1..n : Literal(DataByte, k, n)[i] = <<"byte", DataByte(k, i)>>
<1>1. Literal(DataByte, k, n) = [i \in 1..n |-> <<"byte", DataByte(k, i)>>]
  BY DEF Literal
<1>2. \A i \in 1..n : DataByte(k, i) \in Int
  BY DEF DataByte
<1>3. \A i \in 1..n : <<"byte", DataByte(k, i)>> \in Cells
  BY <1>2 DEF Cells
<1> DEFINE l == Literal(DataByte, k, n)
<1>4. l = [i \in 1..n |-> l[i]] /\ \A i \in 1..n : l[i] = <<"byte", DataByte(k, i)>>
  BY <1>1
<1>5. \A i \in 1..n : l[i] \in Cells
  BY <1>3, <1>4
<1> HIDE DEF l
<1>6. l \in Seq(Cells) /\ Len(l) = n
  BY <1>4, <1>5, GivenList
<1>7. QED
  BY <1>4, <1>6 DEF l

LEMMA LiteralUndo ==
  ASSUME NEW k \in Nat, NEW n \in Nat
  PROVE  Literal(UndoByte, k, n) \in Seq(Cells) /\ Len(Literal(UndoByte, k, n)) = n
<1>1. Literal(UndoByte, k, n) = [i \in 1..n |-> <<"byte", UndoByte(k, i)>>]
  BY DEF Literal
<1>2. \A i \in 1..n : UndoByte(k, i) \in Int
  BY DEF UndoByte
<1>3. \A i \in 1..n : <<"byte", UndoByte(k, i)>> \in Cells
  BY <1>2 DEF Cells
<1> DEFINE l == Literal(UndoByte, k, n)
<1>4. l = [i \in 1..n |-> l[i]] /\ \A i \in 1..n : l[i] = <<"byte", UndoByte(k, i)>>
  BY <1>1
<1>5. \A i \in 1..n : l[i] \in Cells
  BY <1>3, <1>4
<1> HIDE DEF l
<1>6. QED
  BY <1>4, <1>5, GivenList DEF l

\* Behind a head its bytes, and perhaps more.
LEMMA HeadAndBytes ==
  ASSUME NEW h \in Cells, NEW n \in Nat, NEW d \in Seq(Cells), Len(d) = n, NEW u \in Seq(Cells)
  PROVE  /\ (<<h>> \o d \o u) \in Seq(Cells) /\ Len(<<h>> \o d \o u) = 1 + n + Len(u)
         /\ (<<h>> \o d \o u)[1] = h
         /\ \A i \in 1..n : (<<h>> \o d \o u)[1 + i] = d[i]
<1> HIDE DEF Cells
<1> DEFINE v == <<h>> \o d
<1>1. /\ v \in Seq(Cells) /\ Len(v) = 1 + n /\ v[1] = h
      /\ \A i \in 1..n : v[1 + i] = d[i]
  OBVIOUS
<1> HIDE DEF v
<1>2. /\ (v \o u) \in Seq(Cells) /\ Len(v \o u) = 1 + n + Len(u)
      /\ \A i \in 1..(1 + n) : (v \o u)[i] = v[i]
  BY <1>1
<1>3. \A i \in 1..n : 1 + i \in 1..(1 + n)
  OBVIOUS
<1>4. 1 \in 1..(1 + n)
  OBVIOUS
<1>5. QED
  BY <1>1, <1>2, <1>3, <1>4 DEF v

\* What a record is in the patch.
LEMMA CellsOfRecord ==
  ASSUME RecordJobOK(blk), WholePatch, blk.fmt \in {"ppf", "dps"},
         NEW k \in 1..Len(blk.records)
  PROVE  LET r == blk.records[k]
         IN /\ RecordCells(k) \in Seq(Cells) /\ Len(RecordCells(k)) = CellCount(k)
            /\ CellCount(k) \in Nat /\ CellCount(k) >= 1
            /\ RecordCells(k)[1] = IF blk.fmt = "ppf" THEN <<"head", r.at, r.len>>
                                   ELSE IF r.src >= 0 THEN <<"copy", r.at, r.src, r.len>>
                                   ELSE <<"data", r.at, r.len>>
            /\ r.src < 0 => /\ CellCount(k) >= 1 + r.len
                            /\ \A i \in 1..r.len :
                                 RecordCells(k)[1 + i] = <<"byte", DataByte(k, i)>>
<1> DEFINE r == blk.records[k]
           d == Literal(DataByte, k, r.len)
<1>1. /\ r.at \in Nat /\ r.len \in Nat /\ r.src \in Nat \cup {-1} /\ k \in Nat
  BY RecordTypes
<1>2. /\ d \in Seq(Cells) /\ Len(d) = r.len
      /\ \A i \in 1..r.len : d[i] = <<"byte", DataByte(k, i)>>
  BY <1>1, LiteralData
<1>3. CASE blk.fmt = "ppf"
  <2> DEFINE u == IF blk.undo THEN Literal(UndoByte, k, r.len) ELSE << >>
             h == <<"head", r.at, r.len>>
  <2>1. r.src = -1 /\ blk.undo \in BOOLEAN
    BY <1>3, RecordTypes DEF RecordJobOK
  <2>2. u \in Seq(Cells) /\ Len(u) = IF blk.undo THEN r.len ELSE 0
    <3>1. CASE blk.undo
      <4>1. u = Literal(UndoByte, k, r.len)
        BY <3>1
      <4> HIDE DEF u, Cells, r
      <4>2. QED
        BY <1>1, <3>1, <4>1, LiteralUndo
    <3>2. CASE ~blk.undo
      <4>1. u = << >>
        BY <3>2
      <4> HIDE DEF u, Cells, r
      <4>2. QED
        BY <3>2, <4>1
    <3>3. QED
      BY <3>1, <3>2
  <2>3. h \in Cells
    BY <1>1 DEF Cells
  <2>4. RecordCells(k) = <<h>> \o d \o u
    BY <1>3 DEF RecordCells, PpfCellsOf
  <2>6. Len(u) \in Nat
    <3> HIDE DEF u, r
    <3>1. QED
      BY <1>1, <2>2
  <2>5. CellCount(k) = 1 + r.len + Len(u)
    <3>1. CellCount(k) = 1 + IF blk.undo THEN 2 * r.len ELSE r.len
      BY <1>3, <2>1 DEF CellCount
    <3> HIDE DEF u, r
    <3>2. QED
      BY <1>1, <2>2, <3>1
  <2> HIDE DEF u, d, h, r, Cells
  <2>61. h \in Cells /\ r.len \in Nat /\ d \in Seq(Cells) /\ Len(d) = r.len /\ u \in Seq(Cells)
    BY <1>1, <1>2, <2>2, <2>3
  <2>7. /\ (<<h>> \o d \o u) \in Seq(Cells) /\ Len(<<h>> \o d \o u) = 1 + r.len + Len(u)
         /\ (<<h>> \o d \o u)[1] = h
         /\ \A i \in 1..r.len : (<<h>> \o d \o u)[1 + i] = d[i]
    BY <2>61, HeadAndBytes
  <2>8. /\ RecordCells(k) \in Seq(Cells) /\ Len(RecordCells(k)) = CellCount(k)
        /\ RecordCells(k)[1] = h /\ CellCount(k) \in Nat /\ CellCount(k) >= 1 + r.len
        /\ \A i \in 1..r.len : RecordCells(k)[1 + i] = d[i]
    BY <1>1, <2>4, <2>5, <2>6, <2>7
  <2>9. \A i \in 1..r.len : RecordCells(k)[1 + i] = <<"byte", DataByte(k, i)>>
    BY <1>2, <2>8
  <2>10. CellCount(k) >= 1
    BY <1>1, <2>8
  <2>11. QED
    BY <1>3, <2>8, <2>9, <2>10 DEF h, r
<1>4. CASE blk.fmt = "dps" /\ r.src >= 0
  <2> DEFINE h == <<"copy", r.at, r.src, r.len>>
  <2>1. h \in Cells
    BY <1>1, <1>4 DEF Cells
  <2>2. RecordCells(k) = <<h>> /\ CellCount(k) = 1
    BY <1>4 DEF RecordCells, DpsCellsOf, CellCount
  <2> HIDE DEF h
  <2>3. <<h>> \in Seq(Cells) /\ Len(<<h>>) = 1 /\ <<h>>[1] = h
    BY <2>1
  <2>4. /\ RecordCells(k) \in Seq(Cells) /\ Len(RecordCells(k)) = CellCount(k)
        /\ CellCount(k) \in Nat /\ CellCount(k) >= 1 /\ RecordCells(k)[1] = h
    BY <2>2, <2>3
  <2>5. r.src >= 0 /\ ~(r.src < 0) /\ blk.fmt # "ppf"
    BY <1>1, <1>4
  <2> HIDE DEF r, Cells
  <2>6. QED
    BY <2>4, <2>5 DEF h, r
<1>5. CASE blk.fmt = "dps" /\ ~(r.src >= 0)
  <2> DEFINE h == <<"data", r.at, r.len>>
  <2>1. h \in Cells
    BY <1>1 DEF Cells
  <2>2. RecordCells(k) = <<h>> \o d /\ CellCount(k) = 1 + r.len
    BY <1>5 DEF RecordCells, DpsCellsOf, CellCount
  <2>3. << >> \in Seq(Cells) /\ Len(<< >>) = 0
    OBVIOUS
  <2> HIDE DEF d, h
  <2>4. (<<h>> \o d) \o << >> = <<h>> \o d
    BY <1>2, <2>1
  <2>5. /\ (<<h>> \o d \o << >>) \in Seq(Cells)
        /\ Len(<<h>> \o d \o << >>) = 1 + r.len + Len(<< >>)
        /\ (<<h>> \o d \o << >>)[1] = h
        /\ \A i \in 1..r.len : (<<h>> \o d \o << >>)[1 + i] = d[i]
    BY <1>1, <1>2, <2>1, <2>3, HeadAndBytes
  <2> HIDE DEF r
  <2>6. /\ RecordCells(k) \in Seq(Cells) /\ Len(RecordCells(k)) = 1 + r.len
        /\ RecordCells(k)[1] = h /\ \A i \in 1..r.len : RecordCells(k)[1 + i] = d[i]
    BY <1>1, <2>2, <2>3, <2>4, <2>5
  <2> HIDE DEF Cells
  <2>7. \A i \in 1..r.len : RecordCells(k)[1 + i] = <<"byte", DataByte(k, i)>>
    BY <1>2, <2>6
  <2>8. CellCount(k) \in Nat /\ CellCount(k) >= 1 /\ CellCount(k) >= 1 + r.len
        /\ Len(RecordCells(k)) = CellCount(k)
    BY <1>1, <2>2, <2>6
  <2>9. QED
    BY <1>5, <2>6, <2>7, <2>8 DEF h, r
<1>6. QED
  BY <1>3, <1>4, <1>5

\* There is only one way in which the records follow each other.
LEMMA OnePlace ==
  ASSUME Len(blk.records) \in Nat, NEW P \in Places, NEW Q \in Places
  PROVE  P = Q
<1> DEFINE N == Len(blk.records)
           T == {k \in 0..N : P[k] # Q[k]}
<1>1. /\ P \in [0..N -> Nat] /\ P[0] = 0 /\ \A k \in 1..N : P[k] = P[k - 1] + CellCount(k)
      /\ Q \in [0..N -> Nat] /\ Q[0] = 0 /\ \A k \in 1..N : Q[k] = Q[k - 1] + CellCount(k)
  BY DEF Places
<1>2. CASE T # {}
  <2>1. PICK k \in T : \A m \in T : k <= m
    <3>1. T \subseteq Nat
      OBVIOUS
    <3> HIDE DEF T
    <3>2. QED
      BY <1>2, <3>1, LeastMember
  <2>2. k \in 0..N /\ P[k] # Q[k]
    OBVIOUS
  <2>3. k \in 1..N /\ k - 1 \in 0..N /\ ~(k <= k - 1)
    BY <1>1, <2>2
  <2>4. k - 1 \notin T
    <3> HIDE DEF T
    <3>1. QED
      BY <2>1, <2>3
  <2>5. P[k - 1] = Q[k - 1]
    BY <2>3, <2>4
  <2>6. QED
    BY <1>1, <2>2, <2>3, <2>5
<1>3. CASE T = {}
  BY <1>1, <1>3
<1>4. QED
  BY <1>2, <1>3

\* The records, one after the other.
LEMMA RecordsLaid ==
  ASSUME RecordJobOK(blk), WholePatch, blk.fmt \in {"ppf", "dps"}
  PROVE  \E P \in Places :
           /\ Lists!FlattenSeq(RecordList) \in Seq(Cells)
           /\ Len(Lists!FlattenSeq(RecordList)) = P[Len(blk.records)]
           /\ \A k \in 0..Len(blk.records) : P[k] <= P[Len(blk.records)]
           /\ \A k \in 1..Len(blk.records) : \A i \in 1..CellCount(k) :
                Lists!FlattenSeq(RecordList)[P[k - 1] + i] = RecordCells(k)[i]
<1> DEFINE N == Len(blk.records)
<1>1. N \in Nat /\ DOMAIN blk.records = 1..N
  BY RecordTypes
<1>2. \A k \in 1..N : RecordCells(k) \in Seq(Cells) /\ Len(RecordCells(k)) = CellCount(k)
  BY CellsOfRecord
<1>3. /\ RecordList = [k \in 1..N |-> RecordList[k]]
      /\ \A k \in 1..N : RecordList[k] = RecordCells(k)
  BY <1>1 DEF RecordList
<1>4. RecordList \in Seq(Seq(Cells)) /\ Len(RecordList) = N
  <2>1. \A k \in 1..N : RecordList[k] \in Seq(Cells)
    BY <1>2, <1>3
  <2> HIDE DEF RecordList, Cells, N
  <2>2. QED
    BY <1>1, <1>3, <2>1, GivenList
<1> HIDE DEF N, Cells
<1>5. /\ Lists!FlattenSeq(RecordList) \in Seq(Cells)
      /\ \E P \in [0..N -> Nat] :
           /\ P[0] = 0 /\ \A k \in 1..N : P[k] = P[k - 1] + Len(RecordList[k])
           /\ Len(Lists!FlattenSeq(RecordList)) = P[N]
           /\ \A k \in 0..N : \A j \in 0..k : P[j] <= P[k]
           /\ \A k \in 1..N : \A i \in 1..Len(RecordList[k]) :
                Lists!FlattenSeq(RecordList)[P[k - 1] + i] = RecordList[k][i]
  <2> HIDE DEF RecordList
  <2> DEFINE L == RecordList
  <2>1. L \in Seq(Seq(Cells)) /\ Len(L) = N
    BY <1>4
  <2> HIDE DEF L
  <2>2. /\ Lists!FlattenSeq(L) \in Seq(Cells)
        /\ \E P \in [0..Len(L) -> Nat] :
             /\ P[0] = 0 /\ \A k \in 1..Len(L) : P[k] = P[k - 1] + Len(L[k])
             /\ Len(Lists!FlattenSeq(L)) = P[Len(L)]
             /\ \A k \in 0..Len(L) : \A j \in 0..k : P[j] <= P[k]
             /\ \A k \in 1..Len(L) : \A i \in 1..Len(L[k]) :
                  Lists!FlattenSeq(L)[P[k - 1] + i] = L[k][i]
    BY <2>1, FlattenPlaces
  <2>3. QED
    BY <2>1, <2>2 DEF L
<1>6. PICK P \in [0..N -> Nat] :
           /\ P[0] = 0 /\ \A k \in 1..N : P[k] = P[k - 1] + Len(RecordList[k])
           /\ Len(Lists!FlattenSeq(RecordList)) = P[N]
           /\ \A k \in 0..N : \A j \in 0..k : P[j] <= P[k]
           /\ \A k \in 1..N : \A i \in 1..Len(RecordList[k]) :
                Lists!FlattenSeq(RecordList)[P[k - 1] + i] = RecordList[k][i]
  BY <1>5
<1>7. P \in Places
  BY <1>2, <1>3, <1>6 DEF Places, N
<1>8. \A k \in 0..N : P[k] <= P[N]
  BY <1>1, <1>6
<1>9. \A k \in 1..N : \A i \in 1..CellCount(k) :
        Lists!FlattenSeq(RecordList)[P[k - 1] + i] = RecordCells(k)[i]
  BY <1>2, <1>3, <1>6
<1>10. QED
  BY <1>5, <1>6, <1>7, <1>8, <1>9 DEF N

\* The cells of a patch that may have a FileID block.
AllCells == Cells \cup ({"size"} \X Int) \cup {<<"begin">>, <<"text">>, <<"end">>}

\* No cell of a record ends a FileID block.
LEMMA NoEndCell ==
  ASSUME NEW c \in Cells
  PROVE  c # <<"end">>
<1>1. c[1] \in {"head", "data", "copy", "byte"}
  BY DEF Cells
<1>2. <<"end">>[1] = "end"
  OBVIOUS
<1>3. QED
  BY <1>1, <1>2

\* What ends a FileID block.
LEMMA FileIdCells ==
  ASSUME NEW n \in Nat \ {0}
  PROVE  /\ FileIdBlock(n) \in Seq(AllCells) /\ Len(FileIdBlock(n)) = n + 3
         /\ FileIdBlock(n)[n + 2] = <<"end">> /\ FileIdBlock(n)[n + 3] = <<"size", n>>
<1> DEFINE text == [i \in 1..n |-> <<"text">>]
           e == <<"end">>
           z == <<"size", n>>
           b == <<"begin">>
<1>1. FileIdBlock(n) = <<b>> \o text \o <<e, z>>
  BY DEF FileIdBlock
<1>2. e \in AllCells /\ z \in AllCells /\ b \in AllCells /\ <<"text">> \in AllCells
  BY DEF AllCells
<1>3. text \in Seq(AllCells) /\ Len(text) = n
  <2>1. text = [i \in 1..n |-> text[i]] /\ \A i \in 1..n : text[i] \in AllCells
    BY <1>2
  <2> HIDE DEF text
  <2>2. QED
    BY <2>1, GivenList
<1> HIDE DEF text, e, z, b
<1>4. <<b>> \o text \in Seq(AllCells) /\ Len(<<b>> \o text) = n + 1
  BY <1>2, <1>3
<1> DEFINE v == <<b>> \o text
<1> HIDE DEF v
<1>5. /\ v \o <<e, z>> \in Seq(AllCells) /\ Len(v \o <<e, z>>) = n + 3
      /\ (v \o <<e, z>>)[n + 2] = e /\ (v \o <<e, z>>)[n + 3] = z
  <2>1. v \in Seq(AllCells) /\ Len(v) = n + 1
    BY <1>4 DEF v
  <2>2. QED
    BY <1>2, <2>1
<1>6. QED
  BY <1>1, <1>5 DEF v, e, z

\* The patch is its records, one after the other.
LEMMA PatchLaid ==
  ASSUME RecordJobOK(blk), WholePatch, blk.fmt \in {"ppf", "dps"}
  PROVE  \E P \in Places :
           /\ Stored \in Seq(AllCells)
           /\ \A k \in 0..Len(blk.records) : P[k] <= P[Len(blk.records)]
           /\ P[Len(blk.records)] <= Len(Stored)
           /\ \A k \in 1..Len(blk.records) : \A i \in 1..CellCount(k) :
                Stored[P[k - 1] + i] = RecordCells(k)[i]
           /\ P[Len(blk.records)] = IF blk.fmt = "ppf" THEN DataEnd ELSE Len(Stored)
<1> DEFINE N == Len(blk.records)
           all == Lists!FlattenSeq(RecordList)
<1>1. N \in Nat /\ DOMAIN blk.records = 1..N /\ MaxFileId \in Nat
  BY RecordTypes, BlockAssumption
<1>2. PICK P \in Places :
           /\ all \in Seq(Cells) /\ Len(all) = P[N]
           /\ \A k \in 0..N : P[k] <= P[N]
           /\ \A k \in 1..N : \A i \in 1..CellCount(k) :
                all[P[k - 1] + i] = RecordCells(k)[i]
  BY RecordsLaid
<1>3. P \in [0..N -> Nat] /\ \A k \in 1..N : P[k] = P[k - 1] + CellCount(k)
  BY DEF Places
<1>4. \A k \in 0..N : P[k] \in Nat /\ P[k] <= P[N]
  BY <1>1, <1>2, <1>3
<1>5. \A k \in 1..N : \A i \in 1..CellCount(k) : P[k - 1] + i \in 1..P[N]
  <2> SUFFICES ASSUME NEW k \in 1..N, NEW i \in 1..CellCount(k) PROVE P[k - 1] + i \in 1..P[N]
    OBVIOUS
  <2>1. k - 1 \in 0..N /\ k \in 0..N /\ P[k] = P[k - 1] + CellCount(k)
    BY <1>1, <1>3
  <2>2. CellCount(k) \in Nat
    BY CellsOfRecord
  <2> DEFINE a == P[k - 1]
             b == P[N]
             c == CellCount(k)
  <2>3. a \in Nat /\ b \in Nat /\ c \in Nat /\ a + c <= b /\ i \in 1..c
    BY <1>1, <1>4, <2>1, <2>2
  <2> HIDE DEF a, b, c
  <2>4. a + i \in 1..b
    BY <2>3
  <2>5. QED
    BY <2>4 DEF a, b
<1>6. P[N] \in Nat
  BY <1>1, <1>4
<1>7. all \in Seq(AllCells)
  BY <1>2 DEF AllCells
<1>8. CASE blk.fmt = "dps"
  <2>1. DpsCells(blk) = all
    <3>1. \A k \in DOMAIN blk.records : RecordCells(k) = DpsCellsOf(blk, k)
      BY <1>8 DEF RecordCells
    <3>2. RecordList = [k \in DOMAIN blk.records |-> DpsCellsOf(blk, k)]
      BY <3>1 DEF RecordList
    <3>3. QED
      BY <3>2 DEF DpsCells
  <2> HIDE DEF all
  <2>2. Stored = SubSeq(all, 1, Len(all))
    BY <1>8, <2>1 DEF Stored, WholePatch
  <2>3. Stored = all
    BY <1>7, <2>2, AllOf
  <2>4. QED
    BY <1>2, <1>6, <1>7, <1>8, <2>3
<1>9. CASE blk.fmt = "ppf"
  <2> DEFINE f == FileIdBlock(blk.fileId)
  <2>1. PpfCells(blk) = all \o f
    <3>1. \A k \in DOMAIN blk.records : RecordCells(k) = PpfCellsOf(blk, k)
      BY <1>9 DEF RecordCells
    <3>2. RecordList = [k \in DOMAIN blk.records |-> PpfCellsOf(blk, k)]
      BY <3>1 DEF RecordList
    <3>3. QED
      BY <3>2 DEF PpfCells
  <2>2. /\ blk.fileId \in Nat /\ blk.version \in 1..3 /\ (blk.version = 1 => blk.fileId = 0)
        /\ blk.fileId <= MaxFileId
    BY <1>9 DEF RecordJobOK, WholePatch
  <2>3. f \in Seq(AllCells) /\ Len(f) = IF blk.fileId = 0 THEN 0 ELSE blk.fileId + 3
    <3>1. CASE blk.fileId = 0
      <4>1. f = << >>
        BY <3>1 DEF FileIdBlock
      <4> HIDE DEF f
      <4>2. QED
        BY <3>1, <4>1
    <3>2. CASE blk.fileId # 0
      BY <2>2, <3>2, FileIdCells
    <3>3. QED
      BY <3>1, <3>2
  <2>4. blk.kept = Len(all \o f) /\ Stored = SubSeq(all \o f, 1, blk.kept)
    BY <1>9, <2>1 DEF Stored, WholePatch
  <2> HIDE DEF all, f
  <2>5. /\ (all \o f) \in Seq(AllCells) /\ Len(all \o f) = P[N] + Len(f)
        /\ \A i \in 1..P[N] : (all \o f)[i] = all[i]
        /\ \A i \in 1..Len(f) : (all \o f)[P[N] + i] = f[i]
    <3> DEFINE n == P[N]
    <3>1. n = Len(all)
      BY <1>2
    <3> HIDE DEF n
    <3>2. /\ (all \o f) \in Seq(AllCells) /\ Len(all \o f) = n + Len(f)
          /\ \A i \in 1..n : (all \o f)[i] = all[i]
          /\ \A i \in 1..Len(f) : (all \o f)[n + i] = f[i]
      BY <1>7, <2>3, <3>1, JoinBytes
    <3>3. QED
      BY <3>2 DEF n
  <2>6. Stored = all \o f
    BY <2>4, <2>5, AllOf
  <2>7. \A k \in 1..N : \A i \in 1..CellCount(k) : Stored[P[k - 1] + i] = RecordCells(k)[i]
    BY <1>2, <1>5, <2>5, <2>6
  <2>8. Len(f) \in Nat /\ Len(Stored) = P[N] + Len(f)
    BY <2>2, <2>3, <2>5, <2>6
  <2>9. DataEnd = P[N]
    <3> DEFINE n == P[N]
               m == blk.fileId
    <3>1. CASE blk.fileId = 0
      <4>1. Len(Stored) = P[N]
        BY <1>6, <2>3, <2>8, <3>1
      <4>2. n > 1 => Stored[n - 1] # <<"end">>
        <5>1. SUFFICES ASSUME n > 1 PROVE Stored[n - 1] # <<"end">>
          OBVIOUS
        <5>2. n - 1 \in 1..n
          BY <1>6, <5>1
        <5>3. Stored[n - 1] = all[n - 1] /\ all[n - 1] \in Cells
          BY <1>2, <2>5, <2>6, <5>2
        <5>4. QED
          BY <5>3, NoEndCell
      <4>3. FileIdSize = 0
        BY <4>1, <4>2 DEF FileIdSize
      <4>4. QED
        BY <4>1, <4>3 DEF DataEnd
    <3>2. CASE blk.fileId # 0
      <4>1. /\ Len(f) = m + 3 /\ f[m + 2] = <<"end">> /\ f[m + 3] = <<"size", m>>
            /\ blk.version > 1 /\ m \in Nat
        <5>1. m \in Nat \ {0} /\ blk.version > 1 /\ m \in Nat
          BY <2>2, <3>2
        <5>2. f = FileIdBlock(m)
          BY DEF f
        <5> HIDE DEF m
        <5>3. /\ Len(FileIdBlock(m)) = m + 3
              /\ FileIdBlock(m)[m + 2] = <<"end">> /\ FileIdBlock(m)[m + 3] = <<"size", m>>
          BY <5>1, FileIdCells
        <5>4. QED
          BY <5>1, <5>2, <5>3
      <4>2. n \in Nat
        BY <1>6
      <4> HIDE DEF n, m
      <4>3. m + 2 \in 1..Len(f) /\ m + 3 \in 1..Len(f)
        BY <4>1
      <4>4. Stored[n + (m + 2)] = <<"end">> /\ Stored[n + (m + 3)] = <<"size", m>>
        BY <2>5, <2>6, <4>1, <4>3 DEF n
      <4>5. Len(Stored) = n + (m + 3)
        BY <2>8, <4>1 DEF n
      <4>6. Len(Stored) - 1 = n + (m + 2) /\ Len(Stored) > 1
        BY <4>1, <4>2, <4>5
      <4>7. Stored[Len(Stored) - 1] = <<"end">> /\ Stored[Len(Stored)][2] = m
        BY <4>4, <4>5, <4>6
      <4>8. FileIdSize = Smaller(m, MaxFileId)
        BY <4>1, <4>6, <4>7 DEF FileIdSize
      <4>9. FileIdSize = m /\ m > 0
        BY <2>2, <3>2, <4>8, <4>1 DEF m, Smaller
      <4>10. DataEnd = n
        BY <4>1, <4>2, <4>5, <4>9 DEF DataEnd
      <4>11. QED
        BY <4>10 DEF n
    <3>3. QED
      BY <3>1, <3>2
  <2>10. P[N] <= Len(Stored)
    BY <1>6, <2>8
  <2>11. QED
    BY <1>2, <1>4, <1>9, <2>5, <2>6, <2>7, <2>9, <2>10
<1>10. QED
  BY <1>8, <1>9

LEMMA ApplyRecord ==
  ASSUME RecordJobOK(blk), WholePatch, NEW n \in 0..Len(blk.records), n < Len(blk.records),
         AppliedTo(n), NEW b \in Seq(Int), Len(b) = blk.records[n + 1].len,
         \A i \in 1..blk.records[n + 1].len :
           b[i] = ByteOf(n + 1, blk.records[n + 1].at + i - 1),
         image' = Overwrite(image, blk.records[n + 1].at, b), blk' = blk
  PROVE  AppliedTo(n + 1)'
<1> DEFINE N == Len(blk.records)
           from == blk.records[n + 1].at
           m == blk.records[n + 1].len
           base == Len(Base)
<1>1. /\ N \in Nat /\ n \in Nat /\ n + 1 \in 1..N /\ from \in Nat /\ m \in Nat /\ m > 0
      /\ EndOfRecord(n + 1) = from + m
  <2>1. N \in Nat
    BY RecordTypes
  <2>2. n \in Nat /\ n + 1 \in 1..N
    BY <2>1
  <2>3. QED
    BY <2>1, <2>2, RecordTypes
<1>2. base \in Nat
  <2>1. Base \in Seq(Int)
    BY DEF Base, RecordJobOK
  <2>2. QED
    BY <2>1
<1>3. /\ image \in Seq(Int) /\ Len(image) >= base
      /\ Len(image) = base \/ \E k \in 1..n : Len(image) = EndOfRecord(k)
      /\ \A k \in 1..n : EndOfRecord(k) <= Len(image)
      /\ \A p \in Nat :
           \/ \E k \in 1..n : LastAt(n, k, p) /\ ByteAt(image, p) = ByteOf(k, p)
           \/ /\ \A k \in 1..n : k \notin Hits(p)
              /\ ByteAt(image, p) = ByteAt(Base, p)
  BY DEF AppliedTo
<1>4. \A k \in 1..n : EndOfRecord(k) \in Nat
  BY <1>1, RecordTypes
<1>5. \A p \in Nat : n + 1 \in Hits(p) <=> from <= p /\ p < from + m
  <2>1. n + 1 \in DOMAIN blk.records
    BY <1>1, RecordTypes
  <2>2. QED
    BY <2>1 DEF Hits
<1>6. Len(b) = m /\ \A i \in 1..m : b[i] = ByteOf(n + 1, from + i - 1)
  OBVIOUS
<1>7. image' = Overwrite(image, from, b)
  OBVIOUS
<1> HIDE DEF from, m, base, N
<1>8. /\ image' \in Seq(Int) /\ Len(image') = Larger(Len(image), from + m)
      /\ \A p \in Nat : ByteAt(image', p)
           = IF from <= p /\ p < from + m THEN b[p - from + 1] ELSE ByteAt(image, p)
  <2>1. 0 \in Int /\ b # << >> /\ Len(b) = m /\ image \in Seq(Int) /\ from \in Nat
    BY <1>1, <1>3, <1>6
  <2>2. /\ Overwrite(image, from, b) \in Seq(Int)
        /\ Len(Overwrite(image, from, b)) = Larger(Len(image), from + Len(b))
        /\ \A p \in Nat : ByteAt(Overwrite(image, from, b), p)
             = IF from <= p /\ p < from + Len(b) THEN b[p - from + 1] ELSE ByteAt(image, p)
    BY <2>1, OverwriteBytes
  <2>3. QED
    BY <1>7, <2>1, <2>2
<1>9. Len(image) \in Nat /\ Len(image') \in Nat
  BY <1>3, <1>8
<1>10. /\ Len(image') >= base
       /\ Len(image') = base \/ \E k \in 1..(n + 1) : Len(image') = EndOfRecord(k)
       /\ \A k \in 1..(n + 1) : EndOfRecord(k) <= Len(image')
  <2>1. /\ Len(image') = Len(image) \/ Len(image') = from + m
        /\ Len(image') >= Len(image) /\ Len(image') >= from + m
    BY <1>1, <1>8, <1>9 DEF Larger
  <2>2. \A k \in 1..n : k \in 1..(n + 1)
    BY <1>1
  <2>3. \A k \in 1..(n + 1) : k \in 1..n \/ k = n + 1
    BY <1>1
  <2>4. n + 1 \in 1..(n + 1)
    BY <1>1
  <2>5. Len(image') = base \/ \E k \in 1..(n + 1) : Len(image') = EndOfRecord(k)
    BY <1>1, <1>3, <2>1, <2>2, <2>4
  <2>6. ASSUME NEW k \in 1..(n + 1) PROVE EndOfRecord(k) <= Len(image')
    <3>1. CASE k \in 1..n
      BY <1>3, <1>4, <1>9, <2>1, <3>1
    <3>2. CASE k = n + 1
      BY <1>1, <2>1, <3>2
    <3>3. QED
      BY <2>3, <3>1, <3>2
  <2>7. QED
    BY <1>2, <1>3, <1>9, <2>1, <2>5, <2>6
<1>11. ASSUME NEW p \in Nat
       PROVE  \/ \E k \in 1..(n + 1) : LastAt(n + 1, k, p) /\ ByteAt(image', p) = ByteOf(k, p)
              \/ /\ \A k \in 1..(n + 1) : k \notin Hits(p)
                 /\ ByteAt(image', p) = ByteAt(Base, p)
  <2>1. CASE from <= p /\ p < from + m
    <3>1. n + 1 \in 1..(n + 1) /\ n + 1 \in Hits(p) /\ ((n + 1) + 1)..(n + 1) = {}
      BY <1>1, <1>5, <2>1
    <3>2. LastAt(n + 1, n + 1, p)
      BY <3>1 DEF LastAt
    <3>3. p - from + 1 \in 1..m /\ from + (p - from + 1) - 1 = p
      BY <1>1, <2>1
    <3>4. ByteAt(image', p) = ByteOf(n + 1, from + (p - from + 1) - 1)
      BY <1>6, <1>8, <2>1, <3>3
    <3>5. QED
      BY <3>1, <3>2, <3>3, <3>4
  <2>2. CASE ~(from <= p /\ p < from + m)
    <3>1. n + 1 \notin Hits(p) /\ ByteAt(image', p) = ByteAt(image, p)
      BY <1>5, <1>8, <2>2
    <3>2. \A k \in 1..(n + 1) : k \in 1..n \/ k = n + 1
      BY <1>1
    <3>3. \A k \in 1..n : k \in 1..(n + 1)
      BY <1>1
    <3>4. ASSUME NEW k \in 1..n, LastAt(n, k, p) PROVE LastAt(n + 1, k, p)
      <4>1. k \in 1..n /\ k \in Hits(p) /\ \A l \in (k + 1)..n : l \notin Hits(p)
        BY <3>4 DEF LastAt
      <4>2. \A l \in (k + 1)..(n + 1) : l \in (k + 1)..n \/ l = n + 1
        BY <1>1
      <4>3. QED
        BY <3>1, <3>3, <4>1, <4>2 DEF LastAt
    <3>5. QED
      BY <1>3, <3>1, <3>2, <3>3, <3>4
  <2>3. QED
    BY <2>1, <2>2
<1>12. QED
  BY <1>8, <1>10, <1>11 DEF AppliedTo, Base, Hits, LastAt, ByteOf, EndOfRecord, base

\* Where the n-th record ends: at the next one, or at the end of the data.
LEMMA AtRecord ==
  ASSUME RecordJobOK(blk), WholePatch, blk.fmt \in {"ppf", "dps"},
         NEW n \in 0..Len(blk.records), NEW P \in Places, at = P[n]
  PROVE  /\ at \in Nat /\ Stored \in Seq(AllCells)
         /\ P[Len(blk.records)] = IF blk.fmt = "ppf" THEN DataEnd ELSE Len(Stored)
         /\ P[Len(blk.records)] \in Nat
         /\ n = Len(blk.records) => at = P[Len(blk.records)]
         /\ n < Len(blk.records) =>
              /\ at < P[Len(blk.records)]
              /\ n + 1 \in 0..Len(blk.records) /\ P[n + 1] = at + CellCount(n + 1)
              /\ at + CellCount(n + 1) <= Len(Stored)
              /\ \A i \in 1..CellCount(n + 1) : Stored[at + i] = RecordCells(n + 1)[i]
<1> DEFINE N == Len(blk.records)
<1>1. PICK Q \in Places :
        /\ Stored \in Seq(AllCells)
        /\ \A k \in 0..N : Q[k] <= Q[N]
        /\ Q[N] <= Len(Stored)
        /\ \A k \in 1..N : \A i \in 1..CellCount(k) :
             Stored[Q[k - 1] + i] = RecordCells(k)[i]
        /\ Q[N] = IF blk.fmt = "ppf" THEN DataEnd ELSE Len(Stored)
  BY PatchLaid
<1>2. N \in Nat
  BY RecordTypes
<1>3. P = Q
  BY <1>2, OnePlace
<1>4. P \in [0..N -> Nat] /\ \A k \in 1..N : P[k] = P[k - 1] + CellCount(k)
  BY DEF Places
<1>5. at \in Nat /\ P[N] \in Nat /\ Len(Stored) \in Nat
  BY <1>1, <1>2, <1>4
<1>6. CASE n < N
  <2>1. n + 1 \in 1..N /\ n + 1 \in 0..N /\ (n + 1) - 1 = n
    BY <1>2, <1>6
  <2>2. P[n + 1] = at + CellCount(n + 1) /\ P[n + 1] <= P[N] /\ P[N] <= Len(Stored)
    BY <1>1, <1>3, <1>4, <2>1
  <2>3. CellCount(n + 1) \in Nat /\ CellCount(n + 1) >= 1
    BY <2>1, CellsOfRecord
  <2>4. at < P[N] /\ at + CellCount(n + 1) <= Len(Stored)
    <3> DEFINE c == CellCount(n + 1)
               e == P[N]
               z == Len(Stored)
    <3>1. at \in Nat /\ e \in Nat /\ z \in Nat /\ c \in Nat /\ c >= 1 /\ at + c <= e /\ e <= z
      BY <1>5, <2>2, <2>3
    <3> HIDE DEF c, e, z
    <3>2. at < e /\ at + c <= z
      BY <3>1
    <3>3. QED
      BY <3>2 DEF c, e, z
  <2>5. \A i \in 1..CellCount(n + 1) : Stored[at + i] = RecordCells(n + 1)[i]
    BY <1>1, <1>3, <2>1
  <2>6. QED
    BY <1>1, <1>3, <1>5, <1>6, <2>1, <2>2, <2>4, <2>5
<1>7. CASE ~(n < N)
  <2>1. n = N
    BY <1>2, <1>7
  <2>2. QED
    BY <1>1, <1>3, <1>5, <1>7, <2>1
<1>8. QED
  BY <1>6, <1>7

\* The bytes behind the head of a record.
LEMMA BytesBehind ==
  ASSUME RecordJobOK(blk), WholePatch, blk.fmt \in {"ppf", "dps"},
         NEW n \in 0..Len(blk.records), NEW P \in Places, at = P[n],
         n < Len(blk.records), blk.records[n + 1].src < 0
  PROVE  LET len == blk.records[n + 1].len
             chunk == ReadAt(Stored, at + 1, len)
             bytes == [j \in DOMAIN chunk |-> chunk[j][2]]
         IN /\ Len(chunk) = len /\ bytes \in Seq(Int) /\ Len(bytes) = len
            /\ \A i \in 1..len : bytes[i] = ByteOf(n + 1, blk.records[n + 1].at + i - 1)
<1> DEFINE len == blk.records[n + 1].len
           from == blk.records[n + 1].at
           chunk == ReadAt(Stored, at + 1, len)
           bytes == [j \in DOMAIN chunk |-> chunk[j][2]]
<1>1. /\ n + 1 \in 1..Len(blk.records) /\ len \in Nat /\ from \in Nat /\ n + 1 \in Nat
      /\ ~(blk.records[n + 1].src >= 0)
  <2>1. Len(blk.records) \in Nat
    BY RecordTypes
  <2>2. n + 1 \in 1..Len(blk.records) /\ n + 1 \in Nat
    BY <2>1
  <2>3. blk.records[n + 1].src \in Nat \cup {-1} /\ len \in Nat /\ from \in Nat
    BY <2>2, RecordTypes
  <2>4. ~(blk.records[n + 1].src >= 0)
    BY <2>3
  <2>5. QED
    BY <2>2, <2>3, <2>4
<1>2. /\ at \in Nat /\ Stored \in Seq(AllCells)
      /\ at + CellCount(n + 1) <= Len(Stored)
      /\ \A i \in 1..CellCount(n + 1) : Stored[at + i] = RecordCells(n + 1)[i]
  BY AtRecord
<1>3. /\ CellCount(n + 1) \in Nat /\ CellCount(n + 1) >= 1 + len
      /\ \A i \in 1..len : RecordCells(n + 1)[1 + i] = <<"byte", DataByte(n + 1, i)>>
  BY <1>1, CellsOfRecord
<1>4. \A i \in 1..len : ByteOf(n + 1, from + i - 1) = DataByte(n + 1, i)
  <2>1. ASSUME NEW i \in 1..len PROVE ByteOf(n + 1, from + i - 1) = DataByte(n + 1, i)
    <3>1. (from + i - 1) - from + 1 = i
      BY <1>1
    <3>2. ByteOf(n + 1, from + i - 1) = DataByte(n + 1, (from + i - 1) - from + 1)
      BY <1>1 DEF ByteOf
    <3>3. QED
      BY <3>1, <3>2
  <2>2. QED
    BY <2>1
<1> HIDE DEF len, from
<1>5. Len(Stored) \in Nat /\ (at + 1) + len <= Len(Stored)
  <2> DEFINE c == CellCount(n + 1)
             z == Len(Stored)
  <2>1. z \in Nat /\ c \in Nat /\ at + c <= z /\ c >= 1 + len /\ len \in Nat /\ at \in Nat
    BY <1>1, <1>2, <1>3
  <2> HIDE DEF c, z
  <2>2. (at + 1) + len <= z
    BY <2>1
  <2>3. QED
    BY <2>1, <2>2 DEF z
<1>6. /\ chunk \in Seq(AllCells) /\ Len(chunk) = len
      /\ \A i \in 1..len : chunk[i] = Stored[(at + 1) + i]
  <2> HIDE DEF AllCells
  <2>1. at + 1 \in Nat /\ Stored \in Seq(AllCells)
    BY <1>2
  <2>2. /\ chunk \in Seq(AllCells)
        /\ Len(chunk) = IF (at + 1) + len <= Len(Stored) THEN len
                        ELSE IF at + 1 <= Len(Stored) THEN Len(Stored) - (at + 1) ELSE 0
        /\ \A i \in 1..Len(chunk) : chunk[i] = Stored[(at + 1) + i]
    BY <1>1, <2>1, ReadBytes
  <2>3. QED
    BY <1>5, <2>2
<1>7. \A i \in 1..len : chunk[i] = <<"byte", DataByte(n + 1, i)>>
  <2>1. ASSUME NEW i \in 1..len PROVE chunk[i] = <<"byte", DataByte(n + 1, i)>>
    <3>1. (at + 1) + i = at + (1 + i) /\ 1 + i \in 1..CellCount(n + 1)
      <4> DEFINE c == CellCount(n + 1)
      <4>1. c \in Nat /\ c >= 1 + len /\ at \in Nat /\ len \in Nat
        BY <1>1, <1>2, <1>3
      <4> HIDE DEF c
      <4>2. (at + 1) + i = at + (1 + i) /\ 1 + i \in 1..c
        BY <4>1
      <4>3. QED
        BY <4>2 DEF c
    <3>2. Stored[at + (1 + i)] = RecordCells(n + 1)[1 + i]
      BY <1>2, <3>1
    <3>3. QED
      BY <1>3, <1>6, <3>1, <3>2
  <2>2. QED
    BY <2>1
<1>8. DOMAIN chunk = 1..len
  BY <1>1, <1>6
<1> HIDE DEF chunk
<1>9. bytes = [i \in 1..len |-> bytes[i]] /\ \A i \in 1..len : bytes[i] = DataByte(n + 1, i)
  BY <1>7, <1>8
<1>10. \A i \in 1..len : bytes[i] \in Int
  BY <1>1, <1>9 DEF DataByte
<1> HIDE DEF bytes
<1>11. bytes \in Seq(Int) /\ Len(bytes) = len
  BY <1>1, <1>9, <1>10, GivenList
<1>12. QED
  BY <1>4, <1>6, <1>9, <1>11 DEF bytes, chunk, len, from

\* What the invariant says while records are written.
LEMMA OnRecords ==
  ASSUME BlkInv, WholePatch, NEW f, Runs(f, "apply"), f \in {"ppf", "dps"}
  PROVE  /\ blk # NoBlockJob /\ blk.fmt = f /\ RecordJobOK(blk) /\ BlockJobOK(blk)
         /\ \E n \in 0..Len(blk.records) : AppliedTo(n) /\ \E P \in Places : at = P[n]
  BY DEF BlkInv, Runs, BlockJobOK, RecordInv

LEMMA PpfRecordKeeps ==
  ASSUME BlkInv, PpfRecord
  PROVE  BlkInv'
<1>1. blk' = blk /\ blk # NoBlockJob /\ blk.fmt = "ppf" /\ blkStep = "apply" /\ BlockJobOK(blk)
  BY DEF BlkInv, PpfRecord, Runs
<1>2. SUFFICES ASSUME WholePatch PROVE RecordInv'
  BY <1>1 DEF BlkInv, WholePatch, Refused, TooSmall
<1>3. PICK n \in 0..Len(blk.records) : AppliedTo(n) /\ \E P \in Places : at = P[n]
  BY <1>2, OnRecords DEF PpfRecord
<1>4. PICK P \in Places : at = P[n]
  BY <1>3
<1>5. RecordJobOK(blk) /\ at < DataEnd /\ Len(blk.records) \in Nat
  BY <1>1, RecordTypes, <1>2 DEF BlockJobOK, PpfRecord
<1>6. n < Len(blk.records)
  <2>1. n = Len(blk.records) => at = DataEnd /\ DataEnd \in Nat
    BY <1>1, <1>2, <1>4, <1>5, AtRecord
  <2>2. QED
    BY <1>5, <2>1
<1> DEFINE r == blk.records[n + 1]
           len == r.len
           chunk == ReadAt(Stored, at + 1, len)
           bytes == [j \in DOMAIN chunk |-> chunk[j][2]]
<1>7. /\ n + 1 \in 1..Len(blk.records) /\ r.src = -1 /\ r.src < 0 /\ len \in Nat /\ len > 0
  <2>1. n + 1 \in DOMAIN blk.records /\ n + 1 \in 1..Len(blk.records)
    BY <1>2, <1>5, <1>6, RecordTypes
  <2>2. r.src = -1
    BY <1>1, <1>5, <2>1 DEF RecordJobOK
  <2>3. QED
    BY <1>2, <1>5, <2>1, <2>2, RecordTypes
<1>8. /\ n + 1 \in 0..Len(blk.records) /\ P[n + 1] = at + CellCount(n + 1)
      /\ Stored[at + 1] = RecordCells(n + 1)[1] /\ at \in Nat
  <2>1. 1 \in 1..CellCount(n + 1)
    BY <1>1, <1>2, <1>5, <1>7, CellsOfRecord
  <2>2. QED
    BY <1>1, <1>2, <1>4, <1>5, <1>6, <2>1, AtRecord
<1>9. RecordCells(n + 1)[1] = <<"head", r.at, r.len>>
  BY <1>1, <1>2, <1>5, <1>7, CellsOfRecord
<1>10. /\ Len(chunk) = len /\ bytes \in Seq(Int) /\ Len(bytes) = len
       /\ \A i \in 1..len : bytes[i] = ByteOf(n + 1, r.at + i - 1)
  BY <1>1, <1>2, <1>4, <1>5, <1>6, <1>7, BytesBehind
<1>11. CellCount(n + 1) = 1 + len + IF blk.undo THEN len ELSE 0
  <2>1. CellCount(n + 1) = 1 + IF blk.undo THEN 2 * len ELSE len
    <3>1. ~(r.src >= 0)
      BY <1>7
    <3>2. QED
      BY <1>1, <3>1 DEF CellCount
  <2>2. QED
    BY <1>7, <2>1
<1>12. /\ image' = Overwrite(image, r.at, bytes)
       /\ at' = at + 1 + Len(chunk) + (IF blk.undo THEN len ELSE 0)
       /\ blkStep' = blkStep
  <2> DEFINE head == Stored[at + 1]
  <2>1. head[1] = "head" /\ head[2] = r.at /\ head[3] = len
    BY <1>8, <1>9
  <2> HIDE DEF head, r, len
  <2>2. IF head[3] = 0
        THEN blkStep' = "done" /\ UNCHANGED <<at, image>>
        ELSE /\ image' = Overwrite(image, head[2],
                [j \in DOMAIN ReadAt(Stored, at + 1, head[3]) |->
                   ReadAt(Stored, at + 1, head[3])[j][2]])
             /\ at' = at + 1 + Len(ReadAt(Stored, at + 1, head[3]))
                        + (IF blk.undo THEN head[3] ELSE 0)
             /\ UNCHANGED blkStep
    BY DEF PpfRecord, head
  <2>3. QED
    BY <1>7, <2>1, <2>2
<1>13. at' = P[n + 1]
  <2> DEFINE c == CellCount(n + 1)
             u == IF blk.undo THEN len ELSE 0
  <2>1. at' = at + 1 + len + u /\ P[n + 1] = at + c /\ c = 1 + len + u
    BY <1>8, <1>10, <1>11, <1>12
  <2>2. u \in Nat /\ at \in Nat /\ len \in Nat
    BY <1>7, <1>8
  <2> HIDE DEF c, u, len
  <2>3. QED
    BY <2>1, <2>2
<1>14. AppliedTo(n + 1)'
  <2> HIDE DEF bytes, chunk
  <2>1. QED
    BY <1>1, <1>2, <1>3, <1>5, <1>6, <1>10, <1>12, ApplyRecord
<1>15. Places' = Places
  BY <1>1 DEF Places, CellCount
<1>16. QED
  BY <1>1, <1>8, <1>12, <1>13, <1>14, <1>15 DEF RecordInv

LEMMA PpfGarbledKeeps ==
  ASSUME BlkInv, PpfGarbled
  PROVE  BlkInv'
<1>1. /\ blk' = blk /\ blk # NoBlockJob /\ blk.fmt = "ppf" /\ blkStep = "apply" /\ BlockJobOK(blk)
      /\ RecordJobOK(blk) /\ at < DataEnd /\ Stored[at + 1][1] # "head"
  BY DEF BlkInv, PpfGarbled, Runs, BlockJobOK
<1>2. SUFFICES ASSUME WholePatch PROVE FALSE
  BY <1>1 DEF BlkInv, WholePatch, Refused, TooSmall
<1>3. PICK n \in 0..Len(blk.records) : AppliedTo(n) /\ \E P \in Places : at = P[n]
  BY <1>2, OnRecords DEF PpfGarbled
<1>4. PICK P \in Places : at = P[n]
  BY <1>3
<1>5. Len(blk.records) \in Nat
  BY <1>1, <1>2, RecordTypes
<1>6. n < Len(blk.records)
  <2>1. n = Len(blk.records) => at = DataEnd /\ DataEnd \in Nat
    BY <1>1, <1>2, <1>4, AtRecord
  <2>2. QED
    BY <1>1, <1>5, <2>1
<1>7. n + 1 \in 1..Len(blk.records)
  BY <1>5, <1>6
<1>8. Stored[at + 1] = RecordCells(n + 1)[1]
  <2>1. 1 \in 1..CellCount(n + 1)
    BY <1>1, <1>2, <1>7, CellsOfRecord
  <2>2. QED
    BY <1>1, <1>2, <1>4, <1>6, <2>1, AtRecord
<1>9. RecordCells(n + 1)[1] = <<"head", blk.records[n + 1].at, blk.records[n + 1].len>>
  BY <1>1, <1>2, <1>7, CellsOfRecord
<1>10. QED
  BY <1>1, <1>8, <1>9

\* At the end of the data all records are applied.
LEMMA EndsKeep ==
  ASSUME BlkInv, PpfEnd \/ DpsEnd
  PROVE  BlkInv'
<1>1. /\ blk' = blk /\ blk # NoBlockJob /\ blk.fmt \in {"ppf", "dps"} /\ blkStep = "apply"
      /\ BlockJobOK(blk) /\ RecordJobOK(blk) /\ blkStep' = "done" /\ image' = image
      /\ IF blk.fmt = "ppf" THEN at >= DataEnd ELSE at = Len(Stored)
  BY DEF BlkInv, PpfEnd, DpsEnd, Runs, BlockJobOK
<1>2. SUFFICES ASSUME WholePatch PROVE RecordInv'
  BY <1>1 DEF BlkInv, WholePatch, Refused, TooSmall
<1>3. PICK n \in 0..Len(blk.records) : AppliedTo(n) /\ \E P \in Places : at = P[n]
  BY <1>1, <1>2 DEF BlkInv, RecordInv
<1>4. PICK P \in Places : at = P[n]
  BY <1>3
<1>5. Len(blk.records) \in Nat
  BY <1>1, <1>2, RecordTypes
<1>6. n = Len(blk.records)
  <2>1. SUFFICES ASSUME n < Len(blk.records) PROVE FALSE
    BY <1>5
  <2>2. /\ at < P[Len(blk.records)] /\ at \in Nat /\ P[Len(blk.records)] \in Nat
        /\ P[Len(blk.records)] = IF blk.fmt = "ppf" THEN DataEnd ELSE Len(Stored)
    BY <1>1, <1>2, <1>4, <2>1, AtRecord
  <2>3. QED
    BY <1>1, <2>2
<1>7. AppliedTo(n)'
  BY <1>1, <1>3 DEF AppliedTo, Base, Hits, LastAt, ByteOf, EndOfRecord
<1>8. QED
  BY <1>1, <1>6, <1>7 DEF RecordInv

\* Before the first record the output is what the patch starts from.
LEMMA OpensKeep ==
  ASSUME BlkInv, PpfOpen \/ DpsOpen
  PROVE  BlkInv'
<1>1. /\ blk' = blk /\ blk # NoBlockJob /\ blk.fmt \in {"ppf", "dps"} /\ blkStep = "open"
      /\ BlockJobOK(blk) /\ RecordJobOK(blk) /\ at' = at
      /\ (blk.fmt = "ppf" => ~TooSmall) =>
           /\ image' = IF blk.fmt = "ppf" THEN blk.rom ELSE image
           /\ blkStep' = IF Refused THEN "failed" ELSE "apply"
  BY DEF BlkInv, PpfOpen, DpsOpen, Runs, BlockJobOK, BlockFail
<1>2. SUFFICES ASSUME WholePatch PROVE RecordInv'
  BY <1>1 DEF BlkInv, WholePatch, Refused, TooSmall
<1>3. at = 0 /\ image = << >>
  BY <1>1, <1>2 DEF BlkInv, RecordInv
<1>4. blkStep' = "apply" /\ image' = IF blk.fmt = "ppf" THEN blk.rom ELSE image
  BY <1>1, <1>2 DEF WholePatch
<1>5. image' = Base /\ Base \in Seq(Int)
  BY <1>1, <1>3, <1>4 DEF Base, RecordJobOK
<1>6. AppliedTo(0)'
  <2>1. Base' = Base
    BY <1>1 DEF Base
  <2> HIDE DEF Base
  <2>2. QED
    BY <1>5, <2>1 DEF AppliedTo, ByteAt
<1>7. Len(blk.records) \in Nat
  BY <1>1, <1>2, RecordTypes
<1>8. PICK P \in Places : TRUE
  BY <1>1, <1>2, PatchLaid
<1>9. P[0] = 0 /\ 0 \in 0..Len(blk.records)
  BY <1>7 DEF Places
<1>10. Places' = Places
  BY <1>1 DEF Places, CellCount
<1>11. QED
  BY <1>1, <1>3, <1>4, <1>6, <1>8, <1>9, <1>10 DEF RecordInv

LEMMA DpsRecordKeeps ==
  ASSUME BlkInv, DpsRecord
  PROVE  BlkInv'
<1>1. blk' = blk /\ blk # NoBlockJob /\ blk.fmt = "dps" /\ blkStep = "apply" /\ BlockJobOK(blk)
  BY DEF BlkInv, DpsRecord, Runs
<1>2. SUFFICES ASSUME WholePatch PROVE RecordInv'
  BY <1>1 DEF BlkInv, WholePatch, Refused, TooSmall
<1>3. PICK n \in 0..Len(blk.records) : AppliedTo(n) /\ \E P \in Places : at = P[n]
  BY <1>2, OnRecords DEF DpsRecord
<1>4. PICK P \in Places : at = P[n]
  BY <1>3
<1>5. RecordJobOK(blk) /\ at < Len(Stored) /\ Len(blk.records) \in Nat
  BY <1>1, RecordTypes, <1>2 DEF BlockJobOK, DpsRecord
<1>6. n < Len(blk.records)
  <2>1. n = Len(blk.records) => at = Len(Stored) /\ Len(Stored) \in Nat
    BY <1>1, <1>2, <1>4, <1>5, AtRecord
  <2>2. QED
    BY <1>5, <2>1
<1> DEFINE r == blk.records[n + 1]
           head == Stored[at + 1]
<1>7. /\ n + 1 \in 1..Len(blk.records) /\ r.src \in Nat \cup {-1} /\ r.len \in Nat
      /\ r.at \in Nat /\ (r.src >= 0 => r.src + r.len <= Len(blk.rom))
      /\ blk.rom \in Seq(Int) /\ Len(blk.rom) \in Nat
  <2>1. n + 1 \in 1..Len(blk.records)
    BY <1>5, <1>6
  <2>2. QED
    BY <1>2, <1>5, <2>1, RecordTypes
<1>8. /\ n + 1 \in 0..Len(blk.records) /\ P[n + 1] = at + CellCount(n + 1)
      /\ head = RecordCells(n + 1)[1] /\ at \in Nat
  <2>1. 1 \in 1..CellCount(n + 1)
    <3>1. CellCount(n + 1) \in Nat /\ CellCount(n + 1) >= 1
      BY <1>1, <1>2, <1>5, <1>7, CellsOfRecord
    <3>2. QED
      BY <3>1
  <2>2. QED
    BY <1>1, <1>2, <1>4, <1>5, <1>6, <2>1, AtRecord
<1>9. head = IF r.src >= 0 THEN <<"copy", r.at, r.src, r.len>> ELSE <<"data", r.at, r.len>>
  BY <1>1, <1>2, <1>5, <1>7, <1>8, CellsOfRecord
<1>10. blkStep' = blkStep
  BY DEF DpsRecord
<1>11. Places' = Places
  BY <1>1 DEF Places, CellCount
<1>12. SUFFICES AppliedTo(n + 1)' /\ at' = at + CellCount(n + 1)
  BY <1>1, <1>8, <1>10, <1>11 DEF RecordInv
<1>13. CASE r.src >= 0
  <2> DEFINE bytes == ReadAt(blk.rom, r.src, r.len)
  <2>1. head[1] = "copy" /\ head[2] = r.at /\ head[3] = r.src /\ head[4] = r.len
    BY <1>9, <1>13
  <2>2. image' = Overwrite(image, r.at, bytes) /\ at' = at + 1 + 0
    <3> HIDE DEF r, head
    <3>1. QED
      BY <2>1 DEF DpsRecord, head
  <2>3. /\ bytes \in Seq(Int) /\ Len(bytes) = r.len
        /\ \A i \in 1..r.len : bytes[i] = blk.rom[r.src + i]
    <3>1. r.src \in Nat
      BY <1>7, <1>13
    <3> HIDE DEF r
    <3>2. /\ bytes \in Seq(Int)
          /\ Len(bytes) = IF r.src + r.len <= Len(blk.rom) THEN r.len
                          ELSE IF r.src <= Len(blk.rom) THEN Len(blk.rom) - r.src ELSE 0
          /\ \A i \in 1..Len(bytes) : bytes[i] = blk.rom[r.src + i]
      BY <1>7, <3>1, ReadBytes
    <3>3. QED
      BY <1>7, <1>13, <3>2
  <2>4. \A i \in 1..r.len : bytes[i] = ByteOf(n + 1, r.at + i - 1)
    <3>1. ASSUME NEW i \in 1..r.len PROVE bytes[i] = ByteOf(n + 1, r.at + i - 1)
      <4>1. r.src + (r.at + i - 1) - r.at + 1 = r.src + i
        BY <1>7
      <4>2. ByteOf(n + 1, r.at + i - 1) = blk.rom[r.src + (r.at + i - 1) - r.at + 1]
        BY <1>13 DEF ByteOf
      <4> HIDE DEF r, bytes
      <4>3. QED
        BY <2>3, <4>1, <4>2
    <3>2. QED
      BY <3>1
  <2>5. CellCount(n + 1) = 1
    BY <1>13 DEF CellCount
  <2> HIDE DEF bytes
  <2>6. AppliedTo(n + 1)'
    BY <1>1, <1>2, <1>3, <1>5, <1>6, <2>2, <2>3, <2>4, ApplyRecord
  <2>7. QED
    BY <1>8, <2>2, <2>5, <2>6
<1>14. CASE ~(r.src >= 0)
  <2> DEFINE chunk == ReadAt(Stored, at + 1, r.len)
             bytes == [j \in DOMAIN chunk |-> chunk[j][2]]
  <2>1. head[1] = "data" /\ head[1] # "copy" /\ head[2] = r.at /\ head[3] = r.len
    BY <1>9, <1>14
  <2>2. image' = Overwrite(image, r.at, bytes) /\ at' = at + 1 + Len(bytes)
    <3> HIDE DEF r, head
    <3>1. QED
      BY <2>1 DEF DpsRecord, head
  <2>3. r.src < 0
    BY <1>7, <1>14
  <2>4. /\ bytes \in Seq(Int) /\ Len(bytes) = r.len
        /\ \A i \in 1..r.len : bytes[i] = ByteOf(n + 1, r.at + i - 1)
    BY <1>1, <1>2, <1>4, <1>5, <1>6, <2>3, BytesBehind
  <2>5. CellCount(n + 1) = 1 + r.len
    BY <1>1, <1>14 DEF CellCount
  <2> HIDE DEF bytes
  <2>6. AppliedTo(n + 1)'
    BY <1>1, <1>2, <1>3, <1>5, <1>6, <2>2, <2>4, ApplyRecord
  <2> DEFINE m == r.len
             c == CellCount(n + 1)
             z == Len(bytes)
  <2>7. m \in Nat /\ at \in Nat /\ at' = at + 1 + z /\ z = m /\ c = 1 + m
    BY <1>7, <1>8, <2>2, <2>4, <2>5
  <2> HIDE DEF m, c, z
  <2>8. at' = at + c
    BY <2>7
  <2>9. QED
    BY <2>6, <2>8 DEF c
<1>15. QED
  BY <1>13, <1>14

LEMMA BlockStepKeeps ==
  ASSUME BlkInv, BlockStep
  PROVE  BlkInv'
  BY PpfRecordKeeps, PpfGarbledKeeps, EndsKeep, OpensKeep, DpsRecordKeeps,
     GbaOpenKeeps, GbaBlockKeeps, GbaEndKeeps DEF BlockStep

LEMMA StartBlockKeeps ==
  ASSUME BlkInv, NEW j, BlockJobOK(j), StartBlock(j)
  PROVE  BlkInv'
<1>1. /\ blkStep' = "open" /\ at' = 0 /\ seen' = {} /\ image' = << >> /\ blk' = j
  BY DEF BlkInv, StartBlock
<1>2. BlockJobOK(blk)'
  BY <1>1
<1>3. GbaInv' /\ RecordInv'
  BY <1>1 DEF GbaInv, RecordInv
<1>4. QED
  BY <1>1, <1>2, <1>3 DEF BlkInv

\* Whoever is last up to the last record is the one that Meant chooses.
LEMMA ByteFound ==
  ASSUME RecordJobOK(blk), WholePatch, AppliedTo(Len(blk.records)), NEW p \in Nat
  PROVE  Meant(p) = ByteAt(image, p)
<1> DEFINE N == Len(blk.records)
<1>1. N \in Nat /\ DOMAIN blk.records = 1..N
  BY RecordTypes
<1>2. Hits(p) \subseteq 1..N
  BY <1>1 DEF Hits
<1>3. \/ \E k \in 1..N : LastAt(N, k, p) /\ ByteAt(image, p) = ByteOf(k, p)
      \/ /\ \A k \in 1..N : k \notin Hits(p)
         /\ ByteAt(image, p) = ByteAt(Base, p)
  BY DEF AppliedTo
<1>4. CASE \E k \in 1..N : LastAt(N, k, p) /\ ByteAt(image, p) = ByteOf(k, p)
  <2>1. PICK k \in 1..N : LastAt(N, k, p) /\ ByteAt(image, p) = ByteOf(k, p)
    BY <1>4
  <2>2. k \in Hits(p) /\ \A l \in (k + 1)..N : l \notin Hits(p)
    BY <2>1 DEF LastAt
  <2>3. \A l \in Hits(p) : l <= k
    BY <1>1, <1>2, <2>2
  <2>4. \A m \in Hits(p) : (\A l \in Hits(p) : l <= m) => m = k
    BY <1>1, <1>2, <2>2, <2>3
  <2> DEFINE c == CHOOSE m \in Hits(p) : \A l \in Hits(p) : l <= m
  <2>5. c = k
    <3>1. c \in Hits(p) /\ \A l \in Hits(p) : l <= c
      BY <2>2, <2>3
    <3> HIDE DEF c
    <3>2. QED
      BY <2>4, <3>1
  <2>6. Meant(p) = IF blk.records[c].src >= 0
                   THEN blk.rom[blk.records[c].src + p - blk.records[c].at + 1]
                   ELSE DataByte(c, p - blk.records[c].at + 1)
    BY <2>2 DEF Meant
  <2> HIDE DEF c
  <2>7. QED
    BY <2>1, <2>5, <2>6 DEF ByteOf
<1>5. CASE /\ \A k \in 1..N : k \notin Hits(p)
           /\ ByteAt(image, p) = ByteAt(Base, p)
  <2>1. Hits(p) = {}
    BY <1>2, <1>5
  <2>2. QED
    BY <1>5, <2>1 DEF Meant, ByteAt
<1>6. QED
  BY <1>3, <1>4, <1>5

LEMMA LengthFound ==
  ASSUME RecordJobOK(blk), WholePatch, AppliedTo(Len(blk.records))
  PROVE  MeantLength = Len(image) /\ Len(image) \in Nat
<1> DEFINE N == Len(blk.records)
           z == Len(image)
           S == {Len(Base)} \cup {blk.records[k].at + blk.records[k].len : k \in DOMAIN blk.records}
           Most(n) == /\ n >= Len(Base)
                      /\ \A k \in DOMAIN blk.records :
                           blk.records[k].at + blk.records[k].len <= n
<1>1. N \in Nat /\ DOMAIN blk.records = 1..N
  BY RecordTypes
<1>2. Base \in Seq(Int) /\ Len(Base) \in Nat
  <2>1. Base \in Seq(Int)
    BY DEF Base, RecordJobOK
  <2>2. QED
    BY <2>1
<1>3. \A k \in DOMAIN blk.records : /\ blk.records[k].at + blk.records[k].len \in Nat
                                    /\ EndOfRecord(k) = blk.records[k].at + blk.records[k].len
  BY <1>1, RecordTypes
<1>4. S \subseteq Nat
  BY <1>2, <1>3
<1>5. z \in S /\ z \in Nat
  <2>1. image \in Seq(Int) /\ (z = Len(Base) \/ \E k \in 1..N : z = EndOfRecord(k))
    BY DEF AppliedTo
  <2>2. QED
    BY <1>1, <1>3, <2>1
<1>6. Most(z)
  BY <1>1, <1>3 DEF AppliedTo
<1>7. \A n \in S : Most(n) => n = z
  <2>1. ASSUME NEW n \in S, Most(n) PROVE n >= z
    BY <1>1, <1>3, <1>5, <2>1
  <2>2. ASSUME NEW n \in S, Most(n) PROVE z >= n
    BY <1>1, <1>3, <1>5, <1>6, <2>2
  <2>3. QED
    BY <1>4, <1>5, <2>1, <2>2
<1>8. MeantLength = CHOOSE n \in S : Most(n)
  BY DEF MeantLength
<1> HIDE DEF S, Most
<1>9. (CHOOSE n \in S : Most(n)) = z
  BY <1>5, <1>6, <1>7
<1>10. QED
  BY <1>5, <1>8, <1>9

LEMMA BlkRight ==
  ASSUME BlkInv
  PROVE  BlocksApplied
<1>1. CASE blk = NoBlockJob
  BY <1>1 DEF BlocksApplied
<1>2. CASE blk # NoBlockJob /\ blk.fmt = "gba"
  BY <1>2 DEF BlkInv, BlocksApplied, GbaInv
<1>3. CASE blk # NoBlockJob /\ blk.fmt # "gba"
  <2>1. SUFFICES ASSUME WholePatch
                 PROVE  /\ blkStep # "failed"
                        /\ blkStep = "done" =>
                             image = [i \in 1..MeantLength |-> Meant(i - 1)]
    BY <1>3 DEF BlocksApplied
  <2>2. RecordInv /\ RecordJobOK(blk)
    BY <1>3, <2>1 DEF BlkInv, BlockJobOK
  <2>3. blkStep # "failed"
    BY <2>2 DEF RecordInv
  <2>4. ASSUME blkStep = "done" PROVE image = [i \in 1..MeantLength |-> Meant(i - 1)]
    <3>1. AppliedTo(Len(blk.records))
      BY <2>2, <2>4 DEF RecordInv
    <3>2. MeantLength = Len(image) /\ Len(image) \in Nat
      BY <2>1, <2>2, <3>1, LengthFound
    <3>3. \A i \in 1..Len(image) : Meant(i - 1) = image[i]
      <4>1. ASSUME NEW i \in 1..Len(image) PROVE Meant(i - 1) = image[i]
        <5>1. i - 1 \in Nat /\ (i - 1) < Len(image) /\ (i - 1) + 1 = i
          BY <3>2
        <5>2. Meant(i - 1) = ByteAt(image, i - 1)
          BY <2>1, <2>2, <3>1, <5>1, ByteFound
        <5>3. QED
          BY <5>1, <5>2 DEF ByteAt
      <4>2. QED
        BY <4>1
    <3>4. image \in Seq(Int)
      BY <3>1 DEF AppliedTo
    <3>5. image = [i \in 1..Len(image) |-> image[i]]
      BY <3>4
    <3>6. QED
      BY <3>2, <3>3, <3>5
  <2>5. QED
    BY <2>3, <2>4
<1>4. QED
  BY <1>1, <1>2, <1>3

LEMMA BlkInit == BlockIdle => BlkInv
  BY DEF BlockIdle, BlkInv

LEMMA BlkUnchanged ==
  ASSUME BlkInv, UNCHANGED blkVars
  PROVE  BlkInv'
<1>1. UNCHANGED <<blk, blkStep, at, seen, image>>
  BY DEF blkVars
<1>2. BlockJobOK(blk)' <=> BlockJobOK(blk)
  BY <1>1
<1>3. /\ Reversible' <=> Reversible
      /\ WholePatch' <=> WholePatch
  BY <1>1 DEF Reversible, WholePatch, Refused, TooSmall
<1>4. GbaInv' <=> GbaInv
  BY <1>1 DEF GbaInv, InBlocks, GbaGoal
<1>5. RecordInv' <=> RecordInv
  BY <1>1 DEF RecordInv, AppliedTo, Base, Hits, LastAt, ByteOf, EndOfRecord, Places, CellCount
<1>6. QED
  BY <1>1, <1>2, <1>3, <1>4, <1>5 DEF BlkInv

-----------------------------------------------------------------------------
\* UPS: the numbers.

LEMMA Bits ==
  ASSUME NEW a \in 0..3, NEW b \in 0..3
  PROVE  /\ Bit(a, 0) \in {0, 1} /\ Bit(a, 1) \in {0, 1} /\ a = Bit(a, 0) + 2 * Bit(a, 1)
         /\ XorByte(a, b) \in 0..3
         /\ XorByte(XorByte(a, b), a) = b /\ XorByte(XorByte(a, b), b) = a
         /\ a # b => XorByte(a, b) # 0
<1>1. /\ Bit(a, 0) \in {0, 1} /\ Bit(a, 1) \in {0, 1} /\ a = Bit(a, 0) + 2 * Bit(a, 1)
      /\ Bit(b, 0) \in {0, 1} /\ Bit(b, 1) \in {0, 1} /\ b = Bit(b, 0) + 2 * Bit(b, 1)
  BY DEF Bit
<1> DEFINE x == (Bit(a, 0) + Bit(b, 0)) % 2
           y == (Bit(a, 1) + Bit(b, 1)) % 2
<1>2. x \in {0, 1} /\ y \in {0, 1} /\ XorByte(a, b) = x + 2 * y
  BY <1>1 DEF XorByte
<1>3. Bit(x + 2 * y, 0) = x /\ Bit(x + 2 * y, 1) = y
  <2> HIDE DEF x, y
  <2>1. QED
    BY <1>2 DEF Bit
<1>4. /\ (x + Bit(a, 0)) % 2 = Bit(b, 0) /\ (y + Bit(a, 1)) % 2 = Bit(b, 1)
      /\ (x + Bit(b, 0)) % 2 = Bit(a, 0) /\ (y + Bit(b, 1)) % 2 = Bit(a, 1)
      /\ a # b => x # 0 \/ y # 0
  BY <1>1
<1> HIDE DEF x, y
<1>5. XorByte(a, b) \in 0..3 /\ (a # b => XorByte(a, b) # 0)
  BY <1>2, <1>4
<1>6. XorByte(XorByte(a, b), a) = b /\ XorByte(XorByte(a, b), b) = a
  BY <1>1, <1>2, <1>3, <1>4 DEF XorByte
<1>7. QED
  BY <1>1, <1>5, <1>6

\* The bytes of a number are as its definition says.
LEMMA NumberIs ==
  \A n \in Nat : Number[n] = IF n <= 1 THEN <<n + 2>> ELSE <<n % 2>> \o Number[n \div 2 - 1]
<1> DEFINE S == Seq(0..3)
           Eq(f) == f = [n \in Nat |-> IF n <= 1 THEN <<n + 2>>
                                       ELSE <<n % 2>> \o f[n \div 2 - 1]]
           G == [n \in Nat |-> [h \in [0..(n - 1) -> S] |->
                   IF n <= 1 THEN <<n + 2>> ELSE <<n % 2>> \o h[n \div 2 - 1]]]
<1>1. \A n \in Nat : n > 1 => n \div 2 - 1 \in 0..(n - 1)
  OBVIOUS
<1>2. ASSUME NEW n \in Nat, NEW h \in [0..(n - 1) -> S]
      PROVE  /\ G[n][h] = IF n <= 1 THEN <<n + 2>> ELSE <<n % 2>> \o h[n \div 2 - 1]
             /\ G[n][h] \in S
  <2>1. G[n][h] = IF n <= 1 THEN <<n + 2>> ELSE <<n % 2>> \o h[n \div 2 - 1]
    OBVIOUS
  <2> HIDE DEF G
  <2>2. CASE n <= 1
    <3>1. n + 2 \in 0..3
      BY <2>2
    <3>2. QED
      BY <2>1, <2>2, <3>1
  <2>3. CASE ~(n <= 1)
    <3> DEFINE t == h[n \div 2 - 1]
    <3>1. n % 2 \in 0..3 /\ t \in S
      BY <1>1, <2>3
    <3>2. G[n][h] = <<n % 2>> \o t
      BY <2>1, <2>3
    <3> DEFINE d == n % 2
    <3>3. d \in 0..3 /\ G[n][h] = <<d>> \o t
      BY <3>1, <3>2
    <3> HIDE DEF t, d
    <3>4. <<d>> \o t \in S
      BY <3>1, <3>3
    <3>5. QED
      BY <2>1, <3>3, <3>4
  <2>4. QED
    BY <2>1, <2>2, <2>3
<1> HIDE DEF G
<1>3. PICK F : IsGiven(S, G, F)
  <2>1. Gives(S, G)
    BY <1>2 DEF Gives
  <2> HIDE DEF S
  <2>2. QED
    BY <2>1, Recursion
<1>4. ASSUME NEW n \in Nat
      PROVE  F[n] = IF n <= 1 THEN <<n + 2>> ELSE <<n % 2>> \o F[n \div 2 - 1]
  <2> DEFINE h == [j \in 0..(n - 1) |-> F[j]]
  <2>0. F \in [Nat -> S] /\ F[n] = G[n][h]
    BY <1>3 DEF IsGiven
  <2>1. h \in [0..(n - 1) -> S]
    BY <2>0
  <2>2. n > 1 => h[n \div 2 - 1] = F[n \div 2 - 1]
    BY <1>1
  <2>3. F[n] = G[n][h]
    BY <2>0
  <2> HIDE DEF h, S
  <2>4. F[n] = IF n <= 1 THEN <<n + 2>> ELSE <<n % 2>> \o h[n \div 2 - 1]
    BY <1>2, <2>1, <2>3
  <2>5. QED
    BY <2>2, <2>4
<1>5. Eq(F)
  BY <1>3, <1>4 DEF IsGiven
<1>6. Number = CHOOSE f : Eq(f)
  BY DEF Number
<1>7. Eq(Number)
  <2> HIDE DEF Eq
  <2>1. QED
    BY <1>5, <1>6
<1>8. QED
  BY <1>7

\* Only the last byte of a number has the stop bit.
LEMMA NumberBytes ==
  ASSUME NEW n \in Nat
  PROVE  /\ Number[n] \in Seq(0..3) /\ Len(Number[n]) \in Nat /\ Len(Number[n]) >= 1
         /\ Number[n][Len(Number[n])] >= 2
         /\ \A i \in 1..(Len(Number[n]) - 1) : Number[n][i] < 2
<1> DEFINE Right(k) == /\ Number[k] \in Seq(0..3) /\ Len(Number[k]) \in Nat /\ Len(Number[k]) >= 1
                       /\ Number[k][Len(Number[k])] >= 2
                       /\ \A i \in 1..(Len(Number[k]) - 1) : Number[k][i] < 2
           T == {k \in Nat : ~Right(k)}
<1>1. SUFFICES ASSUME T # {} PROVE FALSE
  OBVIOUS
<1>2. T \subseteq Nat
  OBVIOUS
<1>3. PICK k \in T : \A i \in T : k <= i
  <2> HIDE DEF T
  <2>1. QED
    BY <1>1, <1>2, LeastMember
<1>4. k \in Nat /\ ~Right(k)
  OBVIOUS
<1>5. CASE k <= 1
  <2>0. k + 2 \in 0..3 /\ k + 2 >= 2
    BY <1>4, <1>5
  <2>1. Number[k] = <<k + 2>>
    BY <1>4, <1>5, NumberIs
  <2> DEFINE v == <<k + 2>>
  <2>2. v \in Seq(0..3) /\ Len(v) = 1 /\ v[1] >= 2
    BY <2>0
  <2>4. Number[k] = v
    BY <2>1
  <2> HIDE DEF v
  <2>7. /\ Number[k] \in Seq(0..3) /\ Len(Number[k]) = 1 /\ Number[k][1] >= 2
    BY <2>2, <2>4
  <2>8. \A i \in 1..(1 - 1) : Number[k][i] < 2
    OBVIOUS
  <2>9. 1 \in Nat
    OBVIOUS
  <2>10. Right(k)
    BY <2>7, <2>8, <2>9
  <2>3. QED
    BY <1>4, <2>10
<1>6. CASE ~(k <= 1)
  <2> DEFINE m == k \div 2 - 1
             d == k % 2
             t == Number[m]
             z == Len(t)
  <2>1. m \in Nat /\ ~(k <= m) /\ d \in 0..3 /\ d < 2
    BY <1>4, <1>6
  <2>2. m \notin T
    <3> HIDE DEF T, m
    <3>1. QED
      BY <1>3, <2>1
  <2>3. Right(m)
    <3> HIDE DEF m, Right
    <3>1. QED
      BY <2>1, <2>2
  <2>4. Number[k] = <<d>> \o t
    BY <1>4, <1>6, NumberIs
  <2>5. t \in Seq(0..3) /\ z \in Nat /\ z >= 1 /\ t[z] >= 2 /\ \A i \in 1..(z - 1) : t[i] < 2
    BY <2>3
  <2> HIDE DEF d
  <2> DEFINE v == <<d>> \o t
  <2>6. z = Len(t)
    OBVIOUS
  <2> HIDE DEF m, t, z
  <2>7. /\ v \in Seq(0..3) /\ Len(v) = 1 + z /\ v[1] = d /\ \A i \in 1..z : v[1 + i] = t[i]
    BY <2>1, <2>5, <2>6
  <2> HIDE DEF v
  <2>8. /\ v[1 + z] >= 2 /\ \A i \in 1..((1 + z) - 1) : v[i] < 2
    <3>1. v[1 + z] >= 2
      BY <2>5, <2>7
    <3>2. ASSUME NEW i \in 1..((1 + z) - 1) PROVE v[i] < 2
      <4>1. CASE i = 1
        BY <2>1, <2>7, <4>1
      <4>2. CASE i # 1
        <5>1. i - 1 \in 1..(z - 1) /\ i - 1 \in 1..z /\ 1 + (i - 1) = i
          BY <2>5, <4>2
        <5>2. v[1 + (i - 1)] = t[i - 1] /\ t[i - 1] < 2
          BY <2>5, <2>7, <5>1
        <5>3. QED
          BY <5>1, <5>2
      <4>3. QED
        BY <4>1, <4>2
    <3>3. QED
      BY <3>1, <3>2
  <2>9. Number[k] = v /\ 1 + z \in Nat /\ 1 + z >= 1
    BY <2>4, <2>5 DEF v
  <2>10. Right(k)
    BY <2>7, <2>8, <2>9
  <2>11. QED
    BY <1>4, <2>10
<1>7. QED
  BY <1>4, <1>5, <1>6

\* The loop of decode() is as its definition says.
LEMMA ReadIs ==
  ASSUME Patch \in Seq(0..3), NEW p \in 0..Len(Patch)
  PROVE  /\ NumberRead(p)[0] = [sum |-> 0, shift |-> 1]
         /\ \A k \in 1..(Len(Patch) - p) :
              NumberRead(p)[k] =
                [sum |-> NumberRead(p)[k - 1].sum
                           + Bit(Patch[p + k], 0) * NumberRead(p)[k - 1].shift
                           + 2 * NumberRead(p)[k - 1].shift,
                 shift |-> 2 * NumberRead(p)[k - 1].shift]
<1> DEFINE m == Len(Patch) - p
           S == [sum : Nat, shift : Nat]
           Next1(k, r) == [sum |-> r.sum + Bit(Patch[p + k], 0) * r.shift + 2 * r.shift,
                           shift |-> 2 * r.shift]
           Eq(f) == f = [k \in 0..m |-> IF k = 0 THEN [sum |-> 0, shift |-> 1]
                                        ELSE Next1(k, f[k - 1])]
           G == [n \in Nat |-> [h \in [0..(n - 1) -> S] |->
                   IF n \in 1..m THEN Next1(n, h[n - 1]) ELSE [sum |-> 0, shift |-> 1]]]
<1>1. Len(Patch) \in Nat /\ m \in Nat
  OBVIOUS
<1>2. ASSUME NEW k \in 1..m, NEW r \in S PROVE Next1(k, r) \in S
  <2>1. p + k \in 1..Len(Patch)
    BY <1>1
  <2>2. Patch[p + k] \in 0..3
    BY <2>1
  <2>3. Bit(Patch[p + k], 0) \in {0, 1}
    BY <2>2, Bits
  <2> DEFINE b == Bit(Patch[p + k], 0)
  <2> HIDE DEF b
  <2>4. r.sum \in Nat /\ r.shift \in Nat /\ b \in {0, 1}
    BY <2>3 DEF b
  <2>5. b * r.shift \in Nat
    BY <2>4
  <2> DEFINE s == r.sum
             h == r.shift
             c == b * r.shift
  <2>6. s \in Nat /\ h \in Nat /\ c \in Nat
    BY <2>4, <2>5
  <2>7. Next1(k, r) = [sum |-> s + c + 2 * h, shift |-> 2 * h]
    BY DEF b
  <2> HIDE DEF Next1, s, h, c
  <2>8. s + c + 2 * h \in Nat /\ 2 * h \in Nat
    BY <2>6
  <2>9. QED
    BY <2>7, <2>8
<1> HIDE DEF Next1, m
<1>3. [sum |-> 0, shift |-> 1] \in S
  OBVIOUS
<1>4. ASSUME NEW n \in Nat, NEW h \in [0..(n - 1) -> S]
      PROVE  /\ G[n][h] = IF n \in 1..m THEN Next1(n, h[n - 1]) ELSE [sum |-> 0, shift |-> 1]
             /\ G[n][h] \in S
  <2>1. G[n][h] = IF n \in 1..m THEN Next1(n, h[n - 1]) ELSE [sum |-> 0, shift |-> 1]
    OBVIOUS
  <2>2. n \in 1..m => n - 1 \in 0..(n - 1)
    BY <1>1
  <2> HIDE DEF G, S
  <2>3. n \in 1..m => h[n - 1] \in S
    BY <2>2
  <2>4. QED
    BY <1>2, <1>3, <2>1, <2>3
<1> HIDE DEF G
<1>5. PICK F : IsGiven(S, G, F)
  <2>1. Gives(S, G)
    BY <1>4 DEF Gives
  <2> HIDE DEF S
  <2>2. QED
    BY <2>1, Recursion
<1>6. F \in [Nat -> S] /\ \A n \in Nat : F[n] = G[n][[j \in 0..(n - 1) |-> F[j]]]
  BY <1>5 DEF IsGiven
<1>7. ASSUME NEW k \in 0..m
      PROVE  F[k] = IF k = 0 THEN [sum |-> 0, shift |-> 1] ELSE Next1(k, F[k - 1])
  <2> DEFINE h == [j \in 0..(k - 1) |-> F[j]]
  <2>1. k \in Nat /\ (k # 0 => k \in 1..m /\ k - 1 \in 0..(k - 1)) /\ (k = 0 => k \notin 1..m)
    BY <1>1
  <2>2. F[k] = G[k][h]
    BY <1>6, <2>1
  <2>5. h \in [0..(k - 1) -> S]
    <3>1. ASSUME NEW j \in 0..(k - 1) PROVE F[j] \in S
      <4>1. j \in Nat
        OBVIOUS
      <4> HIDE DEF S
      <4>2. QED
        BY <1>6, <4>1
    <3> HIDE DEF S
    <3>2. QED
      BY <3>1
  <2>3. k # 0 => h[k - 1] = F[k - 1]
    BY <2>1
  <2> HIDE DEF h, S
  <2>4. QED
    BY <1>4, <2>1, <2>2, <2>3, <2>5
<1> DEFINE f == [k \in 0..m |-> F[k]]
<1>8. Eq(f)
  <2>1. ASSUME NEW k \in 0..m
        PROVE  f[k] = IF k = 0 THEN [sum |-> 0, shift |-> 1] ELSE Next1(k, f[k - 1])
    <3>1. k # 0 => k - 1 \in 0..m
      BY <1>1
    <3>2. f[k] = F[k] /\ (k # 0 => f[k - 1] = F[k - 1])
      BY <3>1
    <3> HIDE DEF f
    <3>3. QED
      BY <1>7, <3>2
  <2>2. f = [k \in 0..m |-> f[k]]
    OBVIOUS
  <2> HIDE DEF f
  <2>3. QED
    BY <2>1, <2>2
<1>9. NumberRead(p) = CHOOSE e : Eq(e)
  BY DEF NumberRead, m, Next1
<1>10. Eq(NumberRead(p))
  <2> HIDE DEF Eq, f
  <2>1. QED
    BY <1>8, <1>9
<1>11. \A k \in 0..m : NumberRead(p)[k] = IF k = 0 THEN [sum |-> 0, shift |-> 1]
                                          ELSE Next1(k, NumberRead(p)[k - 1])
  BY <1>10
<1>12. 0 \in 0..m /\ \A k \in 1..m : k \in 0..m /\ k # 0
  BY <1>1
<1>13. QED
  BY <1>11, <1>12 DEF Next1, m

LEMMA ReadTypes ==
  ASSUME Patch \in Seq(0..3), NEW p \in 0..Len(Patch), NEW n \in 0..(Len(Patch) - p)
  PROVE  NumberRead(p)[n].sum \in Nat /\ NumberRead(p)[n].shift \in Nat
<1> DEFINE m == Len(Patch) - p
           T == {k \in 0..m : ~(NumberRead(p)[k].sum \in Nat /\ NumberRead(p)[k].shift \in Nat)}
<1>1. Len(Patch) \in Nat /\ m \in Nat
  OBVIOUS
<1>2. SUFFICES ASSUME T # {} PROVE FALSE
  OBVIOUS
<1>3. PICK k \in T : \A i \in T : k <= i
  <2>1. T \subseteq Nat
    OBVIOUS
  <2> HIDE DEF T
  <2>2. QED
    BY <1>2, <2>1, LeastMember
<1>4. k \in 0..m /\ ~(NumberRead(p)[k].sum \in Nat /\ NumberRead(p)[k].shift \in Nat)
  OBVIOUS
<1>5. CASE k = 0
  <2>1. NumberRead(p)[k] = [sum |-> 0, shift |-> 1]
    BY <1>5, ReadIs
  <2>2. QED
    BY <1>4, <2>1
<1>6. CASE k # 0
  <2> DEFINE r == NumberRead(p)[k - 1]
             b == Bit(Patch[p + k], 0)
  <2>1. k \in 1..m /\ k - 1 \in 0..m /\ ~(k <= k - 1) /\ p + k \in 1..Len(Patch)
    BY <1>1, <1>4, <1>6
  <2>2. k - 1 \notin T
    <3> HIDE DEF T
    <3>1. QED
      BY <1>3, <2>1
  <2>3. r.sum \in Nat /\ r.shift \in Nat
    BY <2>1, <2>2
  <2>4. b \in {0, 1}
    <3>1. Patch[p + k] \in 0..3
      BY <2>1
    <3>2. QED
      BY <3>1, Bits
  <2>5. NumberRead(p)[k] = [sum |-> r.sum + b * r.shift + 2 * r.shift, shift |-> 2 * r.shift]
    BY <2>1, ReadIs
  <2> HIDE DEF r, b
  <2>6. b * r.shift \in Nat
    BY <2>3, <2>4
  <2> DEFINE u == r.sum + b * r.shift + 2 * r.shift
             w == 2 * r.shift
  <2>7. u \in Nat /\ w \in Nat
    <3> DEFINE s == r.sum
               h == r.shift
               c == b * r.shift
    <3>1. s \in Nat /\ h \in Nat /\ c \in Nat /\ u = s + c + 2 * h /\ w = 2 * h
      BY <2>3, <2>6
    <3> HIDE DEF s, h, c, u, w
    <3>2. QED
      BY <3>1
  <2>8. NumberRead(p)[k] = [sum |-> u, shift |-> w]
    BY <2>5
  <2> HIDE DEF u, w
  <2>9. QED
    BY <1>4, <2>7, <2>8
<1>7. QED
  BY <1>5, <1>6

\* The number n stands in the patch behind its first a bytes.
Stands(n, a) ==
  /\ a + Len(Number[n]) <= Len(Patch)
  /\ \A i \in 1..Len(Number[n]) : Patch[a + i] = Number[n][i]

\* The value that decode() has read from byte p on when byte p + q ends the number.
ValueTo(p, q) ==
  NumberRead(p)[q].sum + Bit(Patch[p + q + 1], 0) * NumberRead(p)[q].shift

\* From byte p + j on, decode() adds n times the shift it has come to.
Adds(p, n) ==
  \A j \in 0..(Len(Patch) - p) :
    Stands(n, p + j) =>
      ValueTo(p, j + Len(Number[n]) - 1) =
        NumberRead(p)[j].sum + NumberRead(p)[j].shift * n

LEMMA ShiftOn ==
  ASSUME NEW s \in Nat, NEW h \in Nat, NEW m \in Nat, NEW d \in {0, 1}
  PROVE  s + d * h + 2 * h + (2 * h) * m = s + h * (2 * (m + 1) + d)
<1>1. CASE d = 0
  BY <1>1
<1>2. CASE d = 1
  BY <1>2
<1>3. QED
  BY <1>1, <1>2

LEMMA DigitAdds ==
  ASSUME Patch \in Seq(0..3), NEW p \in 0..Len(Patch), NEW n \in Nat, n <= 1
  PROVE  Adds(p, n)
<1>1. Number[n] = <<n + 2>>
  BY NumberIs
<1>2. SUFFICES ASSUME NEW j \in 0..(Len(Patch) - p), Stands(n, p + j)
               PROVE  ValueTo(p, j + Len(Number[n]) - 1) =
                        NumberRead(p)[j].sum + NumberRead(p)[j].shift * n
  BY DEF Adds
<1>3. Len(Number[n]) = 1 /\ Number[n][1] = n + 2
  BY <1>1
<1>4. Patch[(p + j) + 1] = n + 2
  BY <1>2, <1>3 DEF Stands
<1>5. Bit(n + 2, 0) = n
  <2>1. n = 0 \/ n = 1
    OBVIOUS
  <2>2. QED
    BY <2>1 DEF Bit
<1>6. Bit(Patch[p + j + 1], 0) = n
  BY <1>4, <1>5
<1>7. ValueTo(p, j) = NumberRead(p)[j].sum + n * NumberRead(p)[j].shift
  BY <1>6 DEF ValueTo
<1>8. j + Len(Number[n]) - 1 = j
  BY <1>3
<1> DEFINE u == NumberRead(p)[j].sum
           w == NumberRead(p)[j].shift
<1>9. w \in Nat
  BY ReadTypes
<1>10. ValueTo(p, j) = u + n * w
  BY <1>7
<1> HIDE DEF u, w
<1>11. ValueTo(p, j) = u + w * n
  BY <1>9, <1>10
<1>12. QED
  BY <1>8, <1>11 DEF u, w

LEMMA NumberAdds ==
  ASSUME Patch \in Seq(0..3), NEW p \in 0..Len(Patch), NEW n \in Nat
  PROVE  Adds(p, n)
<1> DEFINE T == {k \in Nat : ~Adds(p, k)}
<1>1. SUFFICES ASSUME T # {} PROVE FALSE
  OBVIOUS
<1>2. T \subseteq Nat
  OBVIOUS
<1>3. PICK k \in T : \A i \in T : k <= i
  <2> HIDE DEF T
  <2>1. QED
    BY <1>1, <1>2, LeastMember
<1>4. k \in Nat /\ ~Adds(p, k)
  OBVIOUS
<1>5. k > 1 /\ ~(k <= 1)
  BY <1>4, DigitAdds
<1> DEFINE m == k \div 2 - 1
           d == k % 2
           t == Number[m]
           z == Len(t)
<1>6. m \in Nat /\ ~(k <= m) /\ d \in 0..3 /\ d \in {0, 1} /\ k = 2 * (m + 1) + d
  BY <1>4, <1>5
<1>7. m \notin T
  <2> HIDE DEF T, m
  <2>1. QED
    BY <1>3, <1>6
<1>8. Adds(p, m)
  <2> HIDE DEF m
  <2>1. QED
    BY <1>6, <1>7
<1>9. Number[k] = <<d>> \o t
  <2>1. Number[k] = <<k % 2>> \o Number[k \div 2 - 1]
    BY <1>4, <1>5, NumberIs
  <2>2. QED
    BY <2>1
<1>10. t \in Seq(0..3) /\ z \in Nat /\ z >= 1
  <2> HIDE DEF m
  <2>1. QED
    BY <1>6, NumberBytes
<1>11. z = Len(t)
  OBVIOUS
<1> HIDE DEF d, t, z
<1>12. /\ Len(Number[k]) = 1 + z /\ Number[k][1] = d
       /\ \A i \in 1..z : Number[k][1 + i] = t[i]
  <2> DEFINE v == <<d>> \o t
  <2>1. Len(v) = 1 + z /\ v[1] = d /\ \A i \in 1..z : v[1 + i] = t[i]
    BY <1>6, <1>10, <1>11
  <2> HIDE DEF v
  <2>2. Number[k] = v
    BY <1>9 DEF v
  <2>3. QED
    BY <2>1, <2>2
<1>13. ASSUME NEW j \in 0..(Len(Patch) - p), Stands(k, p + j)
       PROVE  ValueTo(p, j + Len(Number[k]) - 1) =
                NumberRead(p)[j].sum + NumberRead(p)[j].shift * k
  <2>1. /\ Len(Patch) \in Nat /\ p + j + 1 + z <= Len(Patch)
        /\ \A i \in 1..(1 + z) : Patch[(p + j) + i] = Number[k][i]
    <3>1. /\ (p + j) + (1 + z) <= Len(Patch)
          /\ \A i \in 1..(1 + z) : Patch[(p + j) + i] = Number[k][i]
      BY <1>12, <1>13 DEF Stands
    <3>2. Len(Patch) \in Nat /\ (p + j) + (1 + z) = p + j + 1 + z
      BY <1>10
    <3>3. QED
      BY <3>1, <3>2
  <2>2. Patch[p + j + 1] = d
    <3>1. 1 \in 1..(1 + z)
      BY <1>10
    <3>2. QED
      BY <1>12, <2>1, <3>1
  <2>3. j + 1 \in 0..(Len(Patch) - p) /\ j + 1 \in 1..(Len(Patch) - p) /\ (j + 1) - 1 = j
    BY <1>10, <2>1
  <2>4. Stands(m, p + (j + 1))
    <3>1. ASSUME NEW i \in 1..z PROVE Patch[p + (j + 1) + i] = t[i]
      <4>1. 1 + i \in 1..(1 + z) /\ p + (j + 1) + i = (p + j) + (1 + i)
        BY <1>10
      <4>2. QED
        BY <1>12, <2>1, <4>1
    <3>2. Len(Number[m]) = z
      BY DEF t, z
    <3>3. p + (j + 1) + z <= Len(Patch)
      BY <1>10, <2>1
    <3>4. QED
      BY <3>1, <3>2, <3>3 DEF Stands, t
  <2>5. ValueTo(p, (j + 1) + z - 1) =
          NumberRead(p)[j + 1].sum + NumberRead(p)[j + 1].shift * m
    <3>1. Len(Number[m]) = z
      BY DEF t, z
    <3>2. QED
      BY <1>8, <2>3, <2>4, <3>1 DEF Adds
  <2> DEFINE s == NumberRead(p)[j].sum
             h == NumberRead(p)[j].shift
  <2>6. s \in Nat /\ h \in Nat
    BY ReadTypes
  <2>7. Bit(Patch[p + (j + 1)], 0) = d
    <3>1. Bit(d, 0) = d
      BY <1>6 DEF Bit
    <3>2. p + (j + 1) = p + j + 1
      OBVIOUS
    <3>3. QED
      BY <2>2, <3>1, <3>2
  <2>8. NumberRead(p)[j + 1] = [sum |-> s + d * h + 2 * h, shift |-> 2 * h]
    <3>1. NumberRead(p)[j + 1] =
                [sum |-> NumberRead(p)[(j + 1) - 1].sum
                           + Bit(Patch[p + (j + 1)], 0) * NumberRead(p)[(j + 1) - 1].shift
                           + 2 * NumberRead(p)[(j + 1) - 1].shift,
                 shift |-> 2 * NumberRead(p)[(j + 1) - 1].shift]
      BY <2>3, ReadIs
    <3>2. QED
      BY <2>3, <2>7, <3>1
  <2> HIDE DEF s, h
  <2> DEFINE u == s + d * h + 2 * h
             w == 2 * h
  <2>9. NumberRead(p)[j + 1].sum = u /\ NumberRead(p)[j + 1].shift = w
    <3>1. NumberRead(p)[j + 1] = [sum |-> u, shift |-> w]
      BY <2>8
    <3> HIDE DEF u, w
    <3>2. QED
      BY <3>1
  <2>10. u + w * m = s + h * (2 * (m + 1) + d)
    <3> HIDE DEF m
    <3>1. QED
      BY <1>6, <2>6, ShiftOn
  <2>11. (j + 1) + z - 1 = j + Len(Number[k]) - 1
    BY <1>10, <1>12
  <2>12. ValueTo(p, j + Len(Number[k]) - 1) = u + w * m
    <3> HIDE DEF u, w, m
    <3>1. QED
      BY <2>5, <2>9, <2>11
  <2>13. s + h * (2 * (m + 1) + d) = s + h * k
    BY <1>6
  <2>14. QED
    <3> HIDE DEF u, w, m
    <3>1. QED
      BY <2>10, <2>12, <2>13 DEF s, h
<1>14. Adds(p, k)
  BY <1>13 DEF Adds
<1>15. QED
  BY <1>4, <1>14

\* A number that ends is read from there to there, as a natural number.
LEMMA NumberFound ==
  ASSUME Patch \in Seq(0..3), NEW p \in Nat, NumberEnds(p) # {}
  PROVE  /\ NumberEnd(p) \in NumberEnds(p) /\ \A r \in NumberEnds(p) : NumberEnd(p) <= r
         /\ NumberEnd(p) \in Nat /\ p < NumberEnd(p) /\ NumberEnd(p) <= Len(Patch)
         /\ NumberValue(p) \in Nat
<1>1. Len(Patch) \in Nat /\ NumberEnds(p) \subseteq Nat
  BY DEF NumberEnds
<1>2. \E q \in NumberEnds(p) : \A r \in NumberEnds(p) : q <= r
  BY <1>1, LeastMember
<1> DEFINE e == NumberEnd(p)
<1>3. e \in NumberEnds(p) /\ \A r \in NumberEnds(p) : e <= r
  BY <1>2 DEF NumberEnd
<1>4. e \in (p + 1)..Len(Patch)
  BY <1>3 DEF NumberEnds
<1> HIDE DEF e
<1>5. p \in 0..Len(Patch) /\ e - p - 1 \in 0..(Len(Patch) - p) /\ e \in 1..Len(Patch)
  BY <1>1, <1>4
<1> DEFINE s == NumberRead(p)[e - p - 1].sum
           h == NumberRead(p)[e - p - 1].shift
           b == Bit(Patch[e], 0)
<1>6. s \in Nat /\ h \in Nat
  BY <1>5, ReadTypes
<1>7. b \in {0, 1}
  <2>1. Patch[e] \in 0..3
    BY <1>5
  <2>2. QED
    BY <2>1, Bits
<1>8. NumberValue(p) = s + b * h
  BY DEF NumberValue, e
<1> HIDE DEF s, h, b
<1>9. NumberValue(p) \in Nat
  BY <1>6, <1>7, <1>8
<1>10. QED
  BY <1>1, <1>3, <1>4, <1>9 DEF e

\* A number that was written is read again.
LEMMA ReadBack ==
  ASSUME Patch \in Seq(0..3), NEW p \in Nat, NEW n \in Nat, Stands(n, p)
  PROVE  /\ NumberEnds(p) # {} /\ NumberEnd(p) = p + Len(Number[n])
         /\ NumberValue(p) = n
<1> DEFINE l == Len(Number[n])
<1>1. /\ Number[n] \in Seq(0..3) /\ l \in Nat /\ l >= 1 /\ Number[n][l] >= 2
      /\ \A i \in 1..(l - 1) : Number[n][i] < 2
  BY NumberBytes
<1>2. Len(Patch) \in Nat /\ p + l <= Len(Patch) /\ \A i \in 1..l : Patch[p + i] = Number[n][i]
  BY DEF Stands
<1> HIDE DEF l
<1>3. p + l \in NumberEnds(p)
  BY <1>1, <1>2 DEF NumberEnds
<1>4. NumberEnd(p) \in NumberEnds(p) /\ NumberEnd(p) <= p + l /\ NumberEnd(p) \in Nat /\ p < NumberEnd(p)
  BY <1>3, NumberFound
<1>5. NumberEnd(p) = p + l
  <2> DEFINE e == NumberEnd(p)
  <2>1. Patch[e] >= 2 /\ e \in Nat /\ p < e /\ e <= p + l
    BY <1>4 DEF NumberEnds
  <2> HIDE DEF e
  <2>2. CASE e # p + l
    <3>1. e - p \in 1..(l - 1) /\ e - p \in 1..l /\ p + (e - p) = e
      BY <1>1, <2>1, <2>2
    <3>2. Patch[p + (e - p)] = Number[n][e - p] /\ Number[n][e - p] < 2
      BY <1>1, <1>2, <3>1
    <3>3. Patch[e] < 2
      BY <3>1, <3>2
    <3>4. l \in 1..l /\ Number[n][e - p] \in 0..3
      <4>1. Number[n][e - p] \in 0..3
        <5>1. e - p \in 1..Len(Number[n])
          BY <3>1 DEF l
        <5>2. QED
          BY <1>1, <5>1
      <4>2. QED
        BY <1>1, <4>1
    <3>5. Patch[e] \in Nat
      BY <3>1, <3>2, <3>4
    <3>6. QED
      BY <2>1, <3>3, <3>5
  <2>3. QED
    BY <2>2 DEF e
<1>6. p \in 0..Len(Patch) /\ 0 \in 0..(Len(Patch) - p) /\ p + 0 = p
  BY <1>1, <1>2
<1>7. NumberRead(p)[0] = [sum |-> 0, shift |-> 1]
  BY <1>6, ReadIs
<1>8. ValueTo(p, 0 + l - 1) = NumberRead(p)[0].sum + NumberRead(p)[0].shift * n
  <2>1. Adds(p, n)
    BY <1>6, NumberAdds
  <2>2. Stands(n, p + 0)
    BY <1>6
  <2>3. QED
    BY <1>6, <2>1, <2>2 DEF Adds, l
<1>9. ValueTo(p, l - 1) = n
  <2>1. 0 + l - 1 = l - 1 /\ 0 + 1 * n = n
    BY <1>1
  <2>2. QED
    BY <1>7, <1>8, <2>1
<1>10. NumberValue(p) = ValueTo(p, l - 1)
  <2>1. NumberEnd(p) - p - 1 = l - 1 /\ p + (l - 1) + 1 = NumberEnd(p)
    BY <1>1, <1>5
  <2>2. QED
    BY <2>1 DEF NumberValue, ValueTo
<1>11. QED
  BY <1>3, <1>5, <1>9, <1>10 DEF l

-----------------------------------------------------------------------------
\* UPS: the runs, and where they stand.

\* The patch is one that was made of two files, and is whole.
WholeUps == UpsJobOK(ups) /\ ups.intact

Run(k) == RunBytes(ups.x, ups.y, ups.runs, k)
Distance(k) == ups.runs[k].from - Before(ups.runs, k)
RunSize(k) == ups.runs[k].to - ups.runs[k].from

LEMMA UpsTypes ==
  ASSUME UpsJobOK(ups)
  PROVE  /\ ups.x \in Seq(0..3) /\ ups.y \in Seq(0..3) /\ ups.rom \in Seq(0..3)
         /\ ups.body \in Seq(0..3) /\ ups.footer \in Seq(0..3)
         /\ Patch \in Seq(0..3) /\ Len(Patch) = Len(ups.body) + Len(ups.footer)
         /\ \A i \in 1..Len(ups.body) : Patch[i] = ups.body[i]
         /\ \A i \in 1..Len(ups.footer) : Patch[Len(ups.body) + i] = ups.footer[i]
<1>1. /\ ups.x \in Seq(0..3) /\ ups.y \in Seq(0..3) /\ ups.rom \in Seq(0..3)
      /\ ups.body \in Seq(0..3) /\ ups.footer \in Seq(0..3)
  BY DEF UpsJobOK
<1> DEFINE b == ups.body
           f == ups.footer
<1>2. b \in Seq(0..3) /\ f \in Seq(0..3)
  BY <1>1
<1>3. Patch = b \o f
  BY DEF Patch
<1> HIDE DEF b, f
<1>4. /\ b \o f \in Seq(0..3) /\ Len(b \o f) = Len(b) + Len(f)
      /\ \A i \in 1..Len(b) : (b \o f)[i] = b[i]
      /\ \A i \in 1..Len(f) : (b \o f)[Len(b) + i] = f[i]
  BY <1>2, JoinBytes
<1>5. QED
  BY <1>1, <1>3, <1>4 DEF b, f

LEMMA ByteRange ==
  ASSUME NEW f \in Seq(0..3), NEW p \in Nat
  PROVE  Byte(f, p) \in 0..3
<1>1. CASE p < Len(f)
  <2>1. p + 1 \in 1..Len(f)
    BY <1>1
  <2>2. f[p + 1] \in 0..3
    BY <2>1
  <2>3. QED
    BY <1>1, <2>2 DEF Byte
<1>2. CASE ~(p < Len(f))
  BY <1>2 DEF Byte
<1>3. QED
  BY <1>1, <1>2

LEMMA RunTypes ==
  ASSUME WholeUps
  PROVE  /\ Len(ups.runs) \in Nat /\ DOMAIN ups.runs = 1..Len(ups.runs)
         /\ \A k \in 1..Len(ups.runs) :
              /\ ups.runs[k].from \in Nat /\ ups.runs[k].to \in Nat
              /\ ups.runs[k].from < ups.runs[k].to
              /\ ups.runs[k].to \notin Differ(ups.x, ups.y)
              /\ \A p \in ups.runs[k].from..(ups.runs[k].to - 1) : p \in Differ(ups.x, ups.y)
         /\ \A j, k \in 1..Len(ups.runs) : j < k => ups.runs[j].to < ups.runs[k].from
         /\ \A p \in Differ(ups.x, ups.y) :
              \E k \in 1..Len(ups.runs) : p \in ups.runs[k].from..(ups.runs[k].to - 1)
<1>1. RunsOK(ups.x, ups.y, ups.runs)
  BY DEF WholeUps, UpsJobOK
<1>2. ups.runs \in Seq([from : Nat, to : Nat])
  BY <1>1 DEF RunsOK
<1>3. Len(ups.runs) \in Nat /\ DOMAIN ups.runs = 1..Len(ups.runs)
  BY <1>2
<1>4. ASSUME NEW k \in 1..Len(ups.runs)
      PROVE  ups.runs[k].from \in Nat /\ ups.runs[k].to \in Nat
  <2>1. ups.runs[k] \in [from : Nat, to : Nat]
    BY <1>2, Element
  <2>2. QED
    BY <2>1
<1>5. QED
  BY <1>1, <1>3, <1>4 DEF RunsOK

\* The runs before the k-th end in time for it.
LEMMA BeforeTypes ==
  ASSUME WholeUps, NEW k \in 1..(Len(ups.runs) + 1)
  PROVE  /\ Before(ups.runs, k) \in Nat
         /\ \A j \in 1..(k - 1) : ups.runs[j].to < Before(ups.runs, k)
         /\ k <= Len(ups.runs) => Before(ups.runs, k) <= ups.runs[k].from /\ Distance(k) \in Nat
<1>1. /\ Len(ups.runs) \in Nat
      /\ \A j \in 1..Len(ups.runs) : ups.runs[j].from \in Nat /\ ups.runs[j].to \in Nat
                                     /\ ups.runs[j].from < ups.runs[j].to
      /\ \A i, j \in 1..Len(ups.runs) : i < j => ups.runs[i].to < ups.runs[j].from
  BY RunTypes
<1>2. CASE k = 1
  BY <1>1, <1>2 DEF Before, Distance
<1>3. CASE k # 1
  <2>1. k - 1 \in 1..Len(ups.runs) /\ k \in Nat
    BY <1>1, <1>3
  <2> DEFINE t == ups.runs[k - 1].to
  <2>2. Before(ups.runs, k) = t + 1 /\ t \in Nat
    BY <1>1, <1>3, <2>1 DEF Before
  <2>3. ASSUME NEW j \in 1..(k - 1) PROVE ups.runs[j].to <= t
    <3>1. CASE j = k - 1
      BY <2>2, <3>1
    <3>2. CASE j # k - 1
      <4>1. j \in 1..Len(ups.runs) /\ j < k - 1
        BY <1>1, <2>1, <3>2
      <4>2. ups.runs[j].to < ups.runs[k - 1].from
        BY <1>1, <2>1, <4>1
      <4>3. ups.runs[k - 1].from < t /\ ups.runs[k - 1].from \in Nat /\ ups.runs[j].to \in Nat
        BY <1>1, <2>1, <4>1
      <4>4. QED
        BY <2>2, <4>2, <4>3
    <3>3. QED
      BY <3>1, <3>2
  <2>4. \A j \in 1..(k - 1) : ups.runs[j].to \in Nat
    <3>1. \A j \in 1..(k - 1) : j \in 1..Len(ups.runs)
      BY <1>1
    <3>2. QED
      BY <1>1, <3>1
  <2>5. k <= Len(ups.runs) => t < ups.runs[k].from /\ ups.runs[k].from \in Nat
    <3>1. k <= Len(ups.runs) => k \in 1..Len(ups.runs) /\ k - 1 < k
      BY <1>1
    <3>2. QED
      BY <1>1, <2>1, <3>1
  <2> HIDE DEF t
  <2>6. QED
    BY <2>2, <2>3, <2>4, <2>5 DEF Distance
<1>4. QED
  BY <1>2, <1>3

\* Between the runs, and behind the last, the files do not differ.
LEMMA NoDifference ==
  ASSUME WholeUps, NEW k \in 1..(Len(ups.runs) + 1), NEW p \in Differ(ups.x, ups.y),
         p >= Before(ups.runs, k)
  PROVE  k <= Len(ups.runs) /\ p >= ups.runs[k].from
<1>1. /\ Len(ups.runs) \in Nat
      /\ \A j \in 1..Len(ups.runs) : ups.runs[j].from \in Nat /\ ups.runs[j].to \in Nat
                                     /\ ups.runs[j].from < ups.runs[j].to
      /\ \A i, j \in 1..Len(ups.runs) : i < j => ups.runs[i].to < ups.runs[j].from
      /\ \E j \in 1..Len(ups.runs) : p \in ups.runs[j].from..(ups.runs[j].to - 1)
  BY RunTypes
<1>2. PICK j \in 1..Len(ups.runs) : p \in ups.runs[j].from..(ups.runs[j].to - 1)
  BY <1>1
<1>3. ups.runs[j].from \in Nat /\ ups.runs[j].to \in Nat
  BY <1>1
<1>4. ~(j \in 1..(k - 1))
  <2>1. SUFFICES ASSUME j \in 1..(k - 1) PROVE FALSE
    OBVIOUS
  <2>2. ups.runs[j].to < Before(ups.runs, k) /\ Before(ups.runs, k) \in Nat
    BY <2>1, BeforeTypes
  <2>3. QED
    BY <1>2, <1>3, <2>2
<1>5. k <= j /\ k \in 1..Len(ups.runs)
  BY <1>1, <1>4
<1>6. ups.runs[k].from <= ups.runs[j].from
  <2>1. CASE k = j
    BY <1>3, <2>1
  <2>2. CASE k # j
    <3>1. ups.runs[k].to < ups.runs[j].from /\ ups.runs[k].from < ups.runs[k].to
          /\ ups.runs[k].from \in Nat /\ ups.runs[k].to \in Nat
      BY <1>1, <1>5, <2>2
    <3>2. QED
      BY <1>3, <3>1
  <2>3. QED
    BY <2>1, <2>2
<1>7. ups.runs[k].from \in Nat
  BY <1>1, <1>5
<1>8. QED
  BY <1>2, <1>3, <1>5, <1>6, <1>7

\* A run is a distance, the bytes that differ, and a zero.
LEMMA RunLaid ==
  ASSUME WholeUps, NEW k \in 1..Len(ups.runs)
  PROVE  /\ Run(k) \in Seq(0..3) /\ RunSize(k) \in Nat /\ RunSize(k) >= 1
         /\ Len(Number[Distance(k)]) \in Nat
         /\ Len(Run(k)) = Len(Number[Distance(k)]) + RunSize(k) + 1
         /\ \A i \in 1..Len(Number[Distance(k)]) : Run(k)[i] = Number[Distance(k)][i]
         /\ \A i \in 1..RunSize(k) :
              Run(k)[Len(Number[Distance(k)]) + i] =
                XorByte(Byte(ups.x, ups.runs[k].from + i - 1), Byte(ups.y, ups.runs[k].from + i - 1))
         /\ Run(k)[Len(Number[Distance(k)]) + RunSize(k) + 1] = 0
<1> DEFINE a == ups.runs[k].from
           n == Number[Distance(k)]
           d == [i \in 1..RunSize(k) |-> XorByte(Byte(ups.x, a + i - 1), Byte(ups.y, a + i - 1))]
           X(i) == XorByte(Byte(ups.x, a + i - 1), Byte(ups.y, a + i - 1))
           m == RunSize(k)
<1>1. a \in Nat /\ m \in Nat /\ m >= 1 /\ Len(ups.runs) \in Nat
  BY RunTypes DEF RunSize
<1>2. n \in Seq(0..3) /\ Len(n) \in Nat
  <2>1. k \in 1..(Len(ups.runs) + 1) /\ k <= Len(ups.runs)
    BY <1>1
  <2>2. Distance(k) \in Nat
    BY <2>1, BeforeTypes
  <2>3. QED
    BY <2>2, NumberBytes
<1>3. \A i \in 1..m : X(i) \in 0..3
  <2>1. ASSUME NEW i \in 1..m PROVE X(i) \in 0..3
    <3>1. a + i - 1 \in Nat
      BY <1>1
    <3>2. ups.x \in Seq(0..3) /\ ups.y \in Seq(0..3)
      BY UpsTypes DEF WholeUps
    <3> DEFINE q == a + i - 1
    <3> HIDE DEF q
    <3>3. q \in Nat
      BY <3>1 DEF q
    <3>4. Byte(ups.x, q) \in 0..3 /\ Byte(ups.y, q) \in 0..3
      BY <3>2, <3>3, ByteRange
    <3>5. XorByte(Byte(ups.x, q), Byte(ups.y, q)) \in 0..3
      BY <3>4, Bits
    <3>6. QED
      BY <3>5 DEF q
  <2>2. QED
    BY <2>1
<1>4. Run(k) = n \o d \o <<0>>
  BY DEF Run, RunBytes, Distance, RunSize
<1>5. d = [i \in 1..m |-> X(i)]
  OBVIOUS
<1> HIDE DEF n, X, m, d
<1>6. d \in Seq(0..3) /\ Len(d) = m /\ \A i \in 1..m : d[i] = X(i)
  BY <1>1, <1>3, <1>5
<1> DEFINE l == Len(n)
<1>7. l = Len(n) /\ l \in Nat
  BY <1>2
<1> HIDE DEF l
<1>8. /\ n \o d \in Seq(0..3) /\ Len(n \o d) = l + m
      /\ \A i \in 1..l : (n \o d)[i] = n[i]
      /\ \A i \in 1..m : (n \o d)[l + i] = X(i)
  <2>1. /\ (n \o d) \in Seq(0..3) /\ Len(n \o d) = l + Len(d)
        /\ \A i \in 1..l : (n \o d)[i] = n[i]
        /\ \A i \in 1..Len(d) : (n \o d)[l + i] = d[i]
    BY <1>2, <1>6, <1>7, JoinBytes
  <2>2. QED
    BY <1>6, <2>1
<1> DEFINE e == n \o d
           z == <<0>>
           w == l + m
<1>9. z \in Seq(0..3) /\ Len(z) = 1 /\ z[1] = 0 /\ e \in Seq(0..3) /\ w = Len(e)
  BY <1>8
<1>10. /\ \A i \in 1..l : e[i] = n[i]
       /\ \A i \in 1..m : e[l + i] = X(i)
       /\ w = l + m
  BY <1>8
<1>11. Run(k) = e \o z
  BY <1>4
<1>15. w \in Nat
  BY <1>1, <1>7
<1> HIDE DEF e, z, w
<1>12. /\ (e \o z) \in Seq(0..3) /\ Len(e \o z) = w + 1
       /\ \A i \in 1..w : (e \o z)[i] = e[i]
       /\ (e \o z)[w + 1] = 0
  <2>0. z \in Seq(0..3) /\ e \in Seq(0..3) /\ w = Len(e)
    BY <1>9
  <2>1. /\ (e \o z) \in Seq(0..3) /\ Len(e \o z) = w + Len(z)
        /\ \A i \in 1..w : (e \o z)[i] = e[i]
        /\ \A i \in 1..Len(z) : (e \o z)[w + i] = z[i]
    BY <2>0, JoinBytes
  <2>2. QED
    BY <1>9, <2>1
<1>13. /\ Run(k) \in Seq(0..3) /\ Len(Run(k)) = l + m + 1
       /\ \A i \in 1..l : Run(k)[i] = n[i]
       /\ \A i \in 1..m : Run(k)[l + i] = X(i)
       /\ Run(k)[l + m + 1] = 0
  <2>1. (\A i \in 1..l : i \in 1..w) /\ \A i \in 1..m : l + i \in 1..w
    BY <1>1, <1>7, <1>10
  <2>2. QED
    BY <1>10, <1>11, <1>12, <2>1
<1>14. QED
  BY <1>1, <1>7, <1>13 DEF l, m, n, X

RunList == [k \in DOMAIN ups.runs |-> Run(k)]

\* How the body lies behind its places.
LaidAt(P) ==
  /\ Len(ups.body) = P[Len(ups.runs)]
  /\ \A k \in 0..Len(ups.runs) : P[k] <= P[Len(ups.runs)]
  /\ \A i \in 1..Len(Number[Len(ups.x)]) : ups.body[i] = Number[Len(ups.x)][i]
  /\ \A i \in 1..Len(Number[Len(ups.y)]) :
       ups.body[Len(Number[Len(ups.x)]) + i] = Number[Len(ups.y)][i]
  /\ \A k \in 1..Len(ups.runs) : \A i \in 1..Len(Run(k)) :
       ups.body[P[k - 1] + i] = Run(k)[i]

\* There is only one way in which the runs follow each other.
LEMMA OnePlaceOfRuns ==
  ASSUME Len(ups.runs) \in Nat, NEW P \in UpsPlaces, NEW Q \in UpsPlaces
  PROVE  P = Q
<1> DEFINE N == Len(ups.runs)
           T == {k \in 0..N : P[k] # Q[k]}
<1>1. /\ P \in [0..N -> Nat] /\ \A k \in 1..N : P[k] = P[k - 1] + Len(Run(k))
      /\ Q \in [0..N -> Nat] /\ \A k \in 1..N : Q[k] = Q[k - 1] + Len(Run(k))
      /\ P[0] = Q[0]
  BY DEF UpsPlaces, Run
<1>2. CASE T # {}
  <2>1. PICK k \in T : \A m \in T : k <= m
    <3>1. T \subseteq Nat
      OBVIOUS
    <3> HIDE DEF T
    <3>2. QED
      BY <1>2, <3>1, LeastMember
  <2>2. k \in 0..N /\ P[k] # Q[k]
    OBVIOUS
  <2>3. k \in 1..N /\ k - 1 \in 0..N /\ ~(k <= k - 1)
    BY <1>1, <2>2
  <2>4. k - 1 \notin T
    <3> HIDE DEF T
    <3>1. QED
      BY <2>1, <2>3
  <2>5. P[k - 1] = Q[k - 1]
    BY <2>3, <2>4
  <2>6. QED
    BY <1>1, <2>2, <2>3, <2>5
<1>3. CASE T = {}
  BY <1>1, <1>3
<1>4. QED
  BY <1>2, <1>3

LEMMA SameFlatten ==
  ASSUME NEW s
  PROVE  Joined!FlattenSeq(s) = Lists!FlattenSeq(s)
BY DEF Joined!FlattenSeq, Lists!FlattenSeq

\* The patch is the two sizes and its runs, one after the other.
LEMMA BodyLaid ==
  ASSUME WholeUps
  PROVE  \E P \in UpsPlaces : LaidAt(P)
<1> DEFINE N == Len(ups.runs)
           all == Lists!FlattenSeq(RunList)
           u == Number[Len(ups.x)]
           v == Number[Len(ups.y)]
           S == Seq(0..3)
<1>1. N \in Nat /\ DOMAIN ups.runs = 1..N
  BY RunTypes
<1>2. \A k \in 1..N : Run(k) \in S
  BY RunLaid
<1>3. /\ RunList = [k \in 1..N |-> RunList[k]] /\ \A k \in 1..N : RunList[k] = Run(k)
  BY <1>1 DEF RunList
<1>4. RunList \in Seq(S) /\ Len(RunList) = N
  <2>1. \A k \in 1..N : RunList[k] \in S
    BY <1>2, <1>3
  <2> HIDE DEF N, S
  <2>2. QED
    BY <1>1, <1>3, <2>1, GivenList
<1>5. ups.body = u \o v \o all
  <2>1. ups.body = UpsBody(ups.x, ups.y, ups.runs)
    BY DEF WholeUps, UpsJobOK
  <2>2. [k \in DOMAIN ups.runs |-> RunBytes(ups.x, ups.y, ups.runs, k)] = RunList
    BY DEF RunList, Run
  <2>3. ups.body = u \o v \o Joined!FlattenSeq(RunList)
    BY <2>1, <2>2 DEF UpsBody
  <2>4. QED
    BY <2>3, SameFlatten
<1>6. u \in S /\ v \in S /\ Len(u) \in Nat /\ Len(v) \in Nat
  <2>1. Len(ups.x) \in Nat /\ Len(ups.y) \in Nat
    <3>1. ups.x \in S /\ ups.y \in S
      BY UpsTypes DEF WholeUps
    <3>2. QED
      BY <3>1
  <2>2. QED
    BY <2>1, NumberBytes
<1>7. /\ all \in S
      /\ \E Q \in [0..N -> Nat] :
           /\ Q[0] = 0 /\ \A k \in 1..N : Q[k] = Q[k - 1] + Len(RunList[k])
           /\ Len(all) = Q[N]
           /\ \A k \in 0..N : \A j \in 0..k : Q[j] <= Q[k]
           /\ \A k \in 1..N : \A i \in 1..Len(RunList[k]) : all[Q[k - 1] + i] = RunList[k][i]
  <2> HIDE DEF RunList, N
  <2> DEFINE L == RunList
  <2>1. L \in Seq(Seq(0..3)) /\ Len(L) = N
    BY <1>4
  <2> HIDE DEF L
  <2>2. /\ Lists!FlattenSeq(L) \in Seq(0..3)
        /\ \E Q \in [0..Len(L) -> Nat] :
             /\ Q[0] = 0 /\ \A k \in 1..Len(L) : Q[k] = Q[k - 1] + Len(L[k])
             /\ Len(Lists!FlattenSeq(L)) = Q[Len(L)]
             /\ \A k \in 0..Len(L) : \A j \in 0..k : Q[j] <= Q[k]
             /\ \A k \in 1..Len(L) : \A i \in 1..Len(L[k]) :
                  Lists!FlattenSeq(L)[Q[k - 1] + i] = L[k][i]
    BY <2>1, FlattenPlaces
  <2>3. QED
    BY <2>1, <2>2 DEF L
<1> HIDE DEF all, u, v, S
<1>8. PICK Q \in [0..N -> Nat] :
           /\ Q[0] = 0 /\ \A k \in 1..N : Q[k] = Q[k - 1] + Len(RunList[k])
           /\ Len(all) = Q[N]
           /\ \A k \in 0..N : \A j \in 0..k : Q[j] <= Q[k]
           /\ \A k \in 1..N : \A i \in 1..Len(RunList[k]) : all[Q[k - 1] + i] = RunList[k][i]
  BY <1>7
<1> DEFINE a == Len(u)
           c == a + Len(v)
           P == [k \in 0..N |-> c + Q[k]]
<1>9. a \in Nat /\ c \in Nat /\ c = a + Len(v) /\ a = Len(u)
  BY <1>6
<1>10. /\ Len(ups.body) = c + Len(all)
       /\ \A i \in 1..a : ups.body[i] = u[i]
       /\ \A i \in 1..Len(v) : ups.body[a + i] = v[i]
       /\ \A i \in 1..Len(all) : ups.body[c + i] = all[i]
  <2> DEFINE w == u \o v
  <2>1. /\ w \in S /\ Len(w) = c
        /\ \A i \in 1..a : w[i] = u[i]
        /\ \A i \in 1..Len(v) : w[a + i] = v[i]
    <3>1. u \in Seq(0..3) /\ v \in Seq(0..3) /\ a = Len(u)
      BY <1>6 DEF S
    <3> HIDE DEF a
    <3>2. /\ (u \o v) \in Seq(0..3) /\ Len(u \o v) = a + Len(v)
          /\ \A i \in 1..a : (u \o v)[i] = u[i]
          /\ \A i \in 1..Len(v) : (u \o v)[a + i] = v[i]
      BY <3>1, JoinBytes
    <3>3. QED
      BY <3>2 DEF S
  <2>2. ups.body = w \o all
    BY <1>5
  <2> HIDE DEF w, a, c
  <2>3. w \in Seq(0..3) /\ all \in Seq(0..3) /\ c = Len(w)
    BY <1>7, <2>1 DEF S
  <2>4. /\ Len(w \o all) = c + Len(all)
        /\ \A i \in 1..c : (w \o all)[i] = w[i]
        /\ \A i \in 1..Len(all) : (w \o all)[c + i] = all[i]
    BY <2>3, JoinBytes
  <2>5. (\A i \in 1..a : i \in 1..c) /\ \A i \in 1..Len(v) : a + i \in 1..c
    BY <1>6, <1>9
  <2>6. QED
    BY <2>1, <2>2, <2>4, <2>5
<1> HIDE DEF a, c
<1>11. Q \in [0..N -> Nat] /\ \A k \in 0..N : Q[k] \in Nat
  OBVIOUS
<1>12. P \in [0..N -> Nat] /\ (\A k \in 0..N : P[k] = c + Q[k])
  BY <1>9, <1>11
<1>13. \A k \in 1..N : k - 1 \in 0..N /\ k \in 0..N
  BY <1>1
<1>14. Len(all) \in Nat /\ Len(all) = Q[N] /\ 0 \in 0..N /\ N \in 0..N
  BY <1>1, <1>8, <1>11
<1> HIDE DEF P
<1>15. P[0] = Len(Number[Len(ups.x)]) + Len(Number[Len(ups.y)])
  <2>1. P[0] = c + Q[0] /\ Q[0] = 0
    BY <1>8, <1>12, <1>14
  <2>2. P[0] = a + Len(v)
    BY <1>9, <2>1
  <2>3. QED
    BY <2>2 DEF u, v, a
<1>16. \A k \in 1..N : Len(Run(k)) \in Nat /\ RunList[k] = Run(k)
  <2>1. ASSUME NEW k \in 1..N PROVE Len(Run(k)) \in Nat
    <3>1. Run(k) \in S
      BY <1>2
    <3>2. QED
      BY <3>1 DEF S
  <2>2. QED
    BY <1>3, <2>1
<1>17. \A k \in 1..N : P[k] = P[k - 1] + Len(Run(k))
  <2>1. ASSUME NEW k \in 1..N PROVE P[k] = P[k - 1] + Len(Run(k))
    <3>1. Q[k] = Q[k - 1] + Len(Run(k)) /\ Q[k - 1] \in Nat /\ Q[k] \in Nat /\ Len(Run(k)) \in Nat
      BY <1>8, <1>11, <1>13, <1>16
    <3>2. P[k] = c + Q[k] /\ P[k - 1] = c + Q[k - 1]
      BY <1>12, <1>13
    <3>3. QED
      BY <1>9, <3>1, <3>2
  <2>2. QED
    BY <2>1
<1>18. P \in UpsPlaces
  BY <1>12, <1>15, <1>17 DEF UpsPlaces, Run
<1>19. Len(ups.body) = P[N]
  BY <1>10, <1>12, <1>14
<1>20. \A k \in 0..N : P[k] <= P[N]
  <2>1. ASSUME NEW k \in 0..N PROVE P[k] <= P[N]
    <3>1. Q[k] <= Q[N] /\ Q[k] \in Nat /\ Q[N] \in Nat
      <4>1. N \in 0..N /\ k \in 0..N
        BY <1>14
      <4>2. QED
        BY <1>8, <1>11, <4>1
    <3>2. P[k] = c + Q[k] /\ P[N] = c + Q[N]
      BY <1>12, <1>14
    <3>3. QED
      BY <1>9, <3>1, <3>2
  <2>2. QED
    BY <2>1
<1>21. ASSUME NEW k \in 1..N, NEW i \in 1..Len(Run(k))
       PROVE  ups.body[P[k - 1] + i] = Run(k)[i]
  <2>1. all[Q[k - 1] + i] = Run(k)[i]
    BY <1>8, <1>16
  <2>2. /\ Q[k] = Q[k - 1] + Len(Run(k)) /\ Q[k - 1] \in Nat /\ Q[k] \in Nat
        /\ Len(Run(k)) \in Nat /\ i \in Nat /\ i >= 1 /\ i <= Len(Run(k))
    <3>1. Q[k] = Q[k - 1] + Len(Run(k)) /\ Len(Run(k)) \in Nat
      BY <1>8, <1>16
    <3>2. Q[k - 1] \in Nat /\ Q[k] \in Nat
      BY <1>11, <1>13
    <3>3. i \in Nat /\ i >= 1 /\ i <= Len(Run(k))
      BY <3>1
    <3>4. QED
      BY <3>1, <3>2, <3>3
  <2>3. Q[k] <= Q[N] /\ Q[N] \in Nat
    BY <1>8, <1>11, <1>13, <1>14
  <2>4. Q[k - 1] + i \in 1..Len(all)
    BY <1>14, <2>2, <2>3
  <2>5. ups.body[c + (Q[k - 1] + i)] = all[Q[k - 1] + i]
    BY <1>10, <2>4
  <2>6. P[k - 1] + i = c + (Q[k - 1] + i)
    <3> DEFINE p == P[k - 1]
               q == Q[k - 1]
    <3>1. p = c + q
      BY <1>12, <1>13
    <3>2. q \in Nat /\ i \in Nat
      BY <2>2
    <3> HIDE DEF p, q
    <3>3. p + i = c + (q + i)
      BY <1>9, <3>1, <3>2
    <3>4. QED
      BY <3>3 DEF p, q
  <2>7. QED
    BY <2>1, <2>5, <2>6
<1>22. LaidAt(P)
  BY <1>10, <1>19, <1>20, <1>21 DEF LaidAt, u, v, a
<1>23. QED
  BY <1>18, <1>22

LEMMA PlacesLaid ==
  ASSUME WholeUps, NEW P \in UpsPlaces
  PROVE  LaidAt(P)
<1>1. Len(ups.runs) \in Nat
  BY RunTypes
<1>2. PICK Q \in UpsPlaces : LaidAt(Q)
  BY BodyLaid
<1>3. P = Q
  BY <1>1, OnePlaceOfRuns
<1>4. QED
  BY <1>2, <1>3

\* The sizes of the two files stand at the start of the patch.
LEMMA SizesStand ==
  ASSUME WholeUps
  PROVE  /\ Len(ups.x) \in Nat /\ Len(ups.y) \in Nat
         /\ Len(Number[Len(ups.x)]) \in Nat
         /\ Stands(Len(ups.x), 0) /\ Stands(Len(ups.y), Len(Number[Len(ups.x)]))
         /\ \E P \in UpsPlaces :
              P[0] = Len(Number[Len(ups.x)]) + Len(Number[Len(ups.y)])
<1> DEFINE u == Number[Len(ups.x)]
           v == Number[Len(ups.y)]
           a == Len(u)
           c == Len(v)
           B == Len(ups.body)
<1>1. Len(ups.x) \in Nat /\ Len(ups.y) \in Nat
  <2>1. ups.x \in Seq(0..3) /\ ups.y \in Seq(0..3)
    BY UpsTypes DEF WholeUps
  <2>2. QED
    BY <2>1
<1>2. a \in Nat /\ c \in Nat
  BY <1>1, NumberBytes
<1>3. PICK P \in UpsPlaces : LaidAt(P)
  BY BodyLaid
<1>4. P[0] = a + c
  BY DEF UpsPlaces
<1> DEFINE N == Len(ups.runs)
<1>5. N \in Nat /\ 0 \in 0..N /\ N \in 0..N
  BY RunTypes
<1>6. P[0] <= P[N] /\ B = P[N]
  BY <1>3, <1>5 DEF LaidAt
<1>7. /\ \A i \in 1..a : ups.body[i] = u[i]
      /\ \A i \in 1..c : ups.body[a + i] = v[i]
  BY <1>3 DEF LaidAt
<1>8. /\ B \in Nat /\ Len(ups.footer) \in Nat /\ Len(Patch) = B + Len(ups.footer)
      /\ \A i \in 1..B : Patch[i] = ups.body[i]
  <2>1. ups.body \in Seq(0..3) /\ ups.footer \in Seq(0..3)
    BY UpsTypes DEF WholeUps
  <2>2. Len(ups.body) \in Nat /\ Len(ups.footer) \in Nat
    BY <2>1
  <2>3. QED
    BY <2>2, UpsTypes DEF WholeUps
<1>9. a + c <= B
  BY <1>4, <1>6
<1> HIDE DEF u, v, a, c, B
<1>10. 0 + a <= Len(Patch) /\ a + c <= Len(Patch)
  BY <1>2, <1>8, <1>9
<1>11. (\A i \in 1..a : 0 + i = i /\ i \in 1..B) /\ \A i \in 1..c : a + i \in 1..B
  BY <1>2, <1>8, <1>9
<1>12. \A i \in 1..a : Patch[0 + i] = u[i]
  BY <1>7, <1>8, <1>11
<1>13. \A i \in 1..c : Patch[a + i] = v[i]
  BY <1>7, <1>8, <1>11
<1>14. Stands(Len(ups.x), 0)
  BY <1>10, <1>12 DEF Stands, u, a
<1>15. Stands(Len(ups.y), a)
  BY <1>10, <1>13 DEF Stands, v, c
<1>16. QED
  BY <1>1, <1>2, <1>4, <1>14, <1>15 DEF u, v, a, c

\* Each run stands at its place, and the places rise to the end of the body.
LEMMA RunStands ==
  ASSUME WholeUps, NEW P \in UpsPlaces, NEW k \in 1..Len(ups.runs)
  PROVE  /\ P[k - 1] \in Nat /\ Len(Number[Distance(k)]) \in Nat
         /\ Stands(Distance(k), P[k - 1])
         /\ \A i \in 1..RunSize(k) :
              Patch[P[k - 1] + Len(Number[Distance(k)]) + i] =
                XorByte(Byte(ups.x, ups.runs[k].from + i - 1), Byte(ups.y, ups.runs[k].from + i - 1))
         /\ P[k] = P[k - 1] + Len(Number[Distance(k)]) + RunSize(k) + 1
         /\ Patch[P[k]] = 0 /\ P[k] <= Len(Patch) /\ P[k - 1] < Len(ups.body)
<1> DEFINE N == Len(ups.runs)
           B == Len(ups.body)
           R == Run(k)
           n == Number[Distance(k)]
           l == Len(n)
           m == RunSize(k)
           p == P[k - 1]
           X(i) == XorByte(Byte(ups.x, ups.runs[k].from + i - 1), Byte(ups.y, ups.runs[k].from + i - 1))
<1>1. /\ l \in Nat /\ m \in Nat /\ m >= 1 /\ Len(R) = l + m + 1
      /\ \A i \in 1..l : R[i] = n[i]
      /\ \A i \in 1..m : R[l + i] = X(i)
      /\ R[l + m + 1] = 0
  BY RunLaid
<1>2. LaidAt(P)
  BY PlacesLaid
<1>3. N \in Nat /\ k - 1 \in 0..N /\ k \in 0..N
  BY RunTypes
<1>4. p \in Nat /\ P[k] \in Nat /\ P[k] = p + Len(R)
  BY <1>3 DEF UpsPlaces, Run
<1>5. B = P[N] /\ P[k] <= P[N] /\ \A i \in 1..Len(R) : ups.body[p + i] = R[i]
  BY <1>2, <1>3 DEF LaidAt
<1>6. /\ B \in Nat /\ Len(ups.footer) \in Nat /\ Len(Patch) = B + Len(ups.footer)
      /\ \A i \in 1..B : Patch[i] = ups.body[i]
  <2>1. ups.body \in Seq(0..3) /\ ups.footer \in Seq(0..3)
    BY UpsTypes DEF WholeUps
  <2>2. Len(ups.body) \in Nat /\ Len(ups.footer) \in Nat
    BY <2>1
  <2>3. QED
    BY <2>2, UpsTypes DEF WholeUps
<1> DEFINE e == P[k]
<1>7. e \in Nat /\ e = p + (l + m + 1) /\ e <= B
  BY <1>1, <1>4, <1>5
<1>14. P[k] = e
  OBVIOUS
<1>15. Len(R) = l + m + 1
  BY <1>1
<1> HIDE DEF R, n, l, m, p, X, B, e
<1>8. \A i \in 1..(l + m + 1) : Patch[p + i] = R[i]
  <2>1. ASSUME NEW i \in 1..(l + m + 1) PROVE Patch[p + i] = R[i]
    <3>1. p + i \in 1..B
      BY <1>1, <1>4, <1>6, <1>7
    <3>2. QED
      BY <1>5, <1>6, <1>15, <3>1
  <2>2. QED
    BY <2>1
<1>9. Stands(Distance(k), p)
  <2>1. p + l <= Len(Patch)
    BY <1>1, <1>4, <1>6, <1>7
  <2>2. \A i \in 1..l : i \in 1..(l + m + 1)
    BY <1>1
  <2>3. \A i \in 1..l : Patch[p + i] = n[i]
    BY <1>1, <1>8, <2>2
  <2>4. QED
    BY <2>1, <2>3 DEF Stands, l, n
<1>10. ASSUME NEW i \in 1..m PROVE Patch[p + l + i] = X(i)
  <2>1. l + i \in 1..(l + m + 1) /\ p + l + i = p + (l + i)
    BY <1>1, <1>4
  <2>2. QED
    BY <1>1, <1>8, <2>1
<1>11. Patch[e] = 0
  <2>1. l + m + 1 \in 1..(l + m + 1)
    BY <1>1
  <2>2. QED
    BY <1>1, <1>7, <1>8, <2>1
<1>12. e = p + l + m + 1 /\ e <= Len(Patch) /\ p < B
  <2> DEFINE c == Len(Patch)
             d == Len(ups.footer)
  <2>1. /\ p \in Nat /\ l \in Nat /\ m \in Nat /\ B \in Nat /\ d \in Nat /\ c = B + d
        /\ e = p + (l + m + 1) /\ e <= B
    BY <1>1, <1>4, <1>6, <1>7
  <2> HIDE DEF c, d
  <2>2. e = p + l + m + 1 /\ e <= c /\ p < B
    BY <2>1
  <2>3. QED
    BY <2>2 DEF c
<1>13. QED
  BY <1>1, <1>4, <1>9, <1>10, <1>11, <1>12, <1>14 DEF l, n, m, p, X, B

\* Behind the last run the body ends.
LEMMA LastStands ==
  ASSUME WholeUps, NEW P \in UpsPlaces, NEW k \in 1..(Len(ups.runs) + 1),
         P[k - 1] >= Len(ups.body)
  PROVE  k = Len(ups.runs) + 1
<1>1. Len(ups.runs) \in Nat
  BY RunTypes
<1>2. CASE k \in 1..Len(ups.runs)
  <2>1. P[k - 1] \in Nat /\ P[k - 1] < Len(ups.body)
    BY <1>2, RunStands
  <2>2. Len(ups.body) \in Nat
    <3>1. ups.body \in Seq(0..3)
      BY UpsTypes DEF WholeUps
    <3>2. QED
      BY <3>1
  <2>3. QED
    BY <2>1, <2>2
<1>3. QED
  BY <1>1, <1>2

LEMMA FirstStands ==
  ASSUME WholeUps, NEW P \in UpsPlaces, NEW k \in 1..(Len(ups.runs) + 1),
         P[k - 1] < Len(ups.body)
  PROVE  k \in 1..Len(ups.runs)
<1>1. Len(ups.runs) \in Nat
  BY RunTypes
<1>2. CASE k = Len(ups.runs) + 1
  <2>1. LaidAt(P)
    BY PlacesLaid
  <2>2. P[k - 1] = Len(ups.body)
    BY <1>1, <1>2, <2>1 DEF LaidAt
  <2>3. Len(ups.body) \in Nat
    <3>1. ups.body \in Seq(0..3)
      BY UpsTypes DEF WholeUps
    <3>2. QED
      BY <3>1
  <2>4. QED
    BY <2>2, <2>3
<1>3. QED
  BY <1>1, <1>2

-----------------------------------------------------------------------------
\* UPS: the bytes of the output.

Fitting == WholeUps /\ ups.rom \in {ups.x, ups.y}

\* What the patch makes of the bytes of the ROM.
LEMMA GoalBytes ==
  ASSUME Fitting
  PROVE  /\ Goal \in Seq(0..3) /\ Len(Goal) \in Nat /\ Len(ups.rom) \in Nat
         /\ \A p \in Nat :
              /\ p < Len(Goal) => Byte(Goal, p) = Goal[p + 1]
              /\ p \notin Differ(ups.x, ups.y) => Byte(ups.rom, p) = Byte(Goal, p)
              /\ XorByte(XorByte(Byte(ups.x, p), Byte(ups.y, p)), Byte(ups.rom, p)) = Byte(Goal, p)
              /\ p \in Differ(ups.x, ups.y) => XorByte(Byte(ups.x, p), Byte(ups.y, p)) # 0
<1>1. ups.x \in Seq(0..3) /\ ups.y \in Seq(0..3) /\ ups.rom \in {ups.x, ups.y}
  BY UpsTypes DEF Fitting, WholeUps
<1>2. /\ ups.rom = ups.x => Goal = ups.y
      /\ ups.rom # ups.x => ups.rom = ups.y /\ Goal = ups.x
  BY <1>1 DEF Goal
<1>3. Goal \in Seq(0..3) /\ ups.rom \in Seq(0..3)
  BY <1>1, <1>2
<1>4. Len(Goal) \in Nat /\ Len(ups.rom) \in Nat /\ Len(ups.x) \in Nat /\ Len(ups.y) \in Nat
  BY <1>1, <1>3
<1>5. ASSUME NEW p \in Nat
      PROVE  /\ p < Len(Goal) => Byte(Goal, p) = Goal[p + 1]
             /\ p \notin Differ(ups.x, ups.y) => Byte(ups.x, p) = Byte(ups.y, p)
             /\ p \in Differ(ups.x, ups.y) => Byte(ups.x, p) # Byte(ups.y, p)
  <2>1. p < Len(Goal) => Byte(Goal, p) = Goal[p + 1]
    BY DEF Byte
  <2>2. ASSUME p \notin Differ(ups.x, ups.y) PROVE Byte(ups.x, p) = Byte(ups.y, p)
    <3>1. CASE p < Len(ups.x) \/ p < Len(ups.y)
      <4>1. p \in 0..((IF Len(ups.x) >= Len(ups.y) THEN Len(ups.x) ELSE Len(ups.y)) - 1)
        BY <1>4, <3>1
      <4>2. QED
        BY <2>2, <4>1 DEF Differ
    <3>2. CASE ~(p < Len(ups.x)) /\ ~(p < Len(ups.y))
      BY <3>2 DEF Byte
    <3>3. QED
      BY <3>1, <3>2
  <2>3. p \in Differ(ups.x, ups.y) => Byte(ups.x, p) # Byte(ups.y, p)
    BY DEF Differ
  <2>4. QED
    BY <2>1, <2>2, <2>3
<1>6. ASSUME NEW p \in Nat
      PROVE  /\ p \notin Differ(ups.x, ups.y) => Byte(ups.rom, p) = Byte(Goal, p)
             /\ XorByte(XorByte(Byte(ups.x, p), Byte(ups.y, p)), Byte(ups.rom, p)) = Byte(Goal, p)
             /\ p \in Differ(ups.x, ups.y) => XorByte(Byte(ups.x, p), Byte(ups.y, p)) # 0
  <2> DEFINE a == Byte(ups.x, p)
             b == Byte(ups.y, p)
             r == Byte(ups.rom, p)
             g == Byte(Goal, p)
  <2>1. a \in 0..3 /\ b \in 0..3
    BY <1>1, ByteRange
  <2>2. (r = a /\ g = b) \/ (r = b /\ g = a)
    <3>1. CASE ups.rom = ups.x
      <4>1. Goal = ups.y
        BY <1>2, <3>1
      <4>2. QED
        BY <3>1, <4>1
    <3>2. CASE ups.rom # ups.x
      <4>1. Goal = ups.x /\ ups.rom = ups.y
        BY <1>2, <3>2
      <4>2. QED
        BY <4>1
    <3>3. QED
      BY <3>1, <3>2
  <2>3. /\ p \notin Differ(ups.x, ups.y) => a = b
        /\ p \in Differ(ups.x, ups.y) => a # b
    BY <1>5
  <2> HIDE DEF a, b, r, g
  <2>4. XorByte(XorByte(a, b), a) = b /\ XorByte(XorByte(a, b), b) = a /\ (a # b => XorByte(a, b) # 0)
    BY <2>1, Bits
  <2>5. XorByte(XorByte(a, b), r) = g
    <3>1. CASE r = a /\ g = b
      BY <2>4, <3>1
    <3>2. CASE r = b /\ g = a
      BY <2>4, <3>2
    <3>3. QED
      BY <2>2, <3>1, <3>2
  <2>6. a = b => r = g
    BY <2>2
  <2>7. QED
    BY <2>3, <2>4, <2>5, <2>6 DEF a, b, r, g
<1>7. QED
  BY <1>3, <1>4, <1>5, <1>6

\* From the output's end up to byte n the files do not differ.
ClearTo(n) ==
  \A p \in Differ(ups.x, ups.y) : p < outAt \/ p >= n \/ p >= ySize

LEMMA CopiedTypes ==
  ASSUME Fitting, UpsCopied
  PROVE  /\ xSize \in Nat /\ ySize \in Nat /\ outAt \in Nat /\ offset \in Nat /\ romCursor \in Nat
         /\ patchPos \in Nat
         /\ xSize = Len(ups.rom) /\ ySize = Len(Goal) /\ outAt <= ySize /\ outAt <= offset
         /\ romCursor = (IF outAt <= xSize THEN outAt ELSE xSize)
         /\ \A i \in 1..ySize : result[i] = IF i <= outAt THEN Goal[i] ELSE 0
<1>1. Len(Goal) \in Nat /\ Len(ups.rom) \in Nat
  BY GoalBytes
<1>2. /\ xSize = Len(ups.rom) /\ ySize = Len(Goal)
      /\ outAt \in 0..ySize /\ offset \in Nat /\ outAt <= offset /\ patchPos \in Nat
      /\ romCursor = (IF outAt <= xSize THEN outAt ELSE xSize)
      /\ result = [i \in 1..ySize |-> IF i <= outAt THEN Goal[i] ELSE 0]
  BY DEF UpsCopied
<1>3. QED
  BY <1>1, <1>2

\* The ROM is copied where the files do not differ.
LEMMA CopyRight ==
  ASSUME Fitting, UpsCopied, NEW to \in Nat, outAt <= to, to <= ySize, ClearTo(to)
  PROVE  CopyRom(to - outAt) = [i \in 1..ySize |-> IF i <= to THEN Goal[i] ELSE 0]
<1>1. /\ xSize \in Nat /\ ySize \in Nat /\ outAt \in Nat /\ romCursor \in Nat
      /\ xSize = Len(ups.rom) /\ ySize = Len(Goal) /\ outAt <= ySize
      /\ romCursor = (IF outAt <= xSize THEN outAt ELSE xSize)
      /\ \A i \in 1..ySize : result[i] = IF i <= outAt THEN Goal[i] ELSE 0
  BY CopiedTypes
<1> DEFINE room == Len(ups.rom) - romCursor
           n == to - outAt
           take == IF room < n THEN room ELSE n
<1>2. /\ n \in Nat /\ take \in Nat /\ outAt + n = to /\ take <= n
      /\ take # 0 => romCursor = outAt /\ outAt + take <= xSize
      /\ take # n => outAt + take >= xSize
  <2> DEFINE L == Len(ups.rom)
             c == romCursor
             o == outAt
             z == xSize
  <2>1. L = z /\ z \in Nat /\ o \in Nat /\ c = (IF o <= z THEN o ELSE z) /\ o <= to
    BY <1>1
  <2>2. n = to - o /\ room = L - c /\ take = (IF room < n THEN room ELSE n)
    OBVIOUS
  <2> HIDE DEF L, c, o, z, n, room, take
  <2>3. n \in Nat /\ o + n = to
    BY <2>1, <2>2
  <2>4. CASE o <= z
    <3>1. room = z - o
      BY <2>1, <2>2, <2>4
    <3>2. QED
      BY <2>1, <2>2, <2>3, <2>4, <3>1 DEF c, o, z
  <2>5. CASE ~(o <= z)
    <3>1. room = 0 /\ take = 0
      BY <2>1, <2>2, <2>3, <2>5
    <3>2. o + take >= z
      BY <2>1, <2>5, <3>1
    <3>3. QED
      BY <2>3, <3>1, <3>2 DEF o, z
  <2>6. QED
    BY <2>4, <2>5
<1>3. CopyRom(n) = [i \in 1..ySize |->
        IF outAt < i /\ i <= outAt + take THEN ups.rom[romCursor + i - outAt] ELSE result[i]]
  BY DEF CopyRom
<1> HIDE DEF n, take
<1>4. ASSUME NEW i \in 1..ySize
      PROVE  (IF outAt < i /\ i <= outAt + take THEN ups.rom[romCursor + i - outAt] ELSE result[i])
                = IF i <= to THEN Goal[i] ELSE 0
  <2>1. CASE i <= outAt
    <3>1. ~(outAt < i) /\ i <= to
      BY <1>1, <2>1
    <3>2. QED
      BY <1>1, <2>1, <3>1
  <2>2. CASE outAt < i /\ i <= outAt + take
    <3>1. take # 0 /\ outAt <= xSize /\ romCursor = outAt /\ i <= to /\ i <= xSize
      BY <1>1, <1>2, <2>2
    <3>2. romCursor + i - outAt = i
      BY <1>1, <3>1
    <3>3. i - 1 \in Nat /\ i - 1 < Len(Goal) /\ i - 1 < Len(ups.rom) /\ (i - 1) + 1 = i
      BY <1>1, <3>1
    <3>4. i - 1 \notin Differ(ups.x, ups.y)
      BY <1>1, <2>2, <3>1 DEF ClearTo
    <3>5. Byte(ups.rom, i - 1) = Byte(Goal, i - 1) /\ Byte(Goal, i - 1) = Goal[(i - 1) + 1]
      BY <3>3, <3>4, GoalBytes
    <3>6. Byte(ups.rom, i - 1) = ups.rom[(i - 1) + 1]
      BY <3>3 DEF Byte
    <3>7. ups.rom[i] = Goal[i]
      BY <3>3, <3>5, <3>6
    <3>8. QED
      BY <2>2, <3>1, <3>2, <3>7
  <2>3. CASE ~(i <= outAt) /\ ~(i <= outAt + take) /\ i <= to
    <3>1. take # n /\ i > xSize
      BY <1>1, <1>2, <2>3
    <3>2. i - 1 \in Nat /\ i - 1 < Len(Goal) /\ ~(i - 1 < Len(ups.rom)) /\ (i - 1) + 1 = i
      BY <1>1, <3>1
    <3>3. i - 1 \notin Differ(ups.x, ups.y)
      BY <1>1, <2>3 DEF ClearTo
    <3>4. Byte(ups.rom, i - 1) = Byte(Goal, i - 1) /\ Byte(Goal, i - 1) = Goal[(i - 1) + 1]
      BY <3>2, <3>3, GoalBytes
    <3>5. Byte(ups.rom, i - 1) = 0
      BY <3>2 DEF Byte
    <3>6. Goal[i] = 0
      BY <3>2, <3>4, <3>5
    <3>7. result[i] = 0
      BY <1>1, <2>3
    <3>8. QED
      BY <2>3, <3>6, <3>7
  <2>4. CASE ~(i <= to)
    <3>1. ~(i <= outAt) /\ ~(i <= outAt + take)
      BY <1>1, <1>2, <2>4
    <3>2. result[i] = 0
      BY <1>1, <3>1
    <3>3. QED
      BY <2>4, <3>1, <3>2
  <2>5. QED
    BY <2>1, <2>2, <2>3, <2>4, <1>1
<1>5. QED
  BY <1>3, <1>4 DEF n

LEMMA CopyAll ==
  ASSUME Fitting, UpsCopied, ClearTo(ySize)
  PROVE  CopyRom(ySize - outAt) = Goal
<1>1. ySize \in Nat /\ outAt <= ySize /\ ySize <= ySize /\ ySize = Len(Goal)
  BY CopiedTypes
<1>2. CopyRom(ySize - outAt) = [i \in 1..ySize |-> IF i <= ySize THEN Goal[i] ELSE 0]
  BY <1>1, CopyRight
<1>3. [i \in 1..ySize |-> IF i <= ySize THEN Goal[i] ELSE 0] = [i \in 1..ySize |-> Goal[i]]
  BY <1>1
<1>4. Goal \in Seq(0..3)
  BY GoalBytes
<1> DEFINE g == Goal
<1> HIDE DEF g
<1>5. g \in Seq(0..3) => g = [i \in 1..Len(g) |-> g[i]]
  OBVIOUS
<1>6. QED
  BY <1>1, <1>2, <1>3, <1>4, <1>5 DEF g

\* An int holds what is below its limit.
LEMMA WrapFits ==
  ASSUME NEW n \in Nat, n < IntLimit
  PROVE  Wrap(n) = n
<1>1. IntLimit \in Nat /\ IntLimit > 0
  BY IntAssumption DEF IntAssumption
<1>2. (n + IntLimit) % (2 * IntLimit) = n + IntLimit
  BY <1>1
<1>. QED
  BY <1>1, <1>2 DEF Wrap

\* The distance to a run is read as it was written, and leads to the run.
LEMMA DistanceRead ==
  ASSUME Fitting, patchPos \in Nat, patchPos < Len(ups.body),
         NEW k \in 1..(Len(ups.runs) + 1), AtRun(k)
  PROVE  /\ k \in 1..Len(ups.runs) /\ ups.runs[k].from \in Nat
         /\ NumberEnds(patchPos) # {}
         /\ offset + NumberValue(patchPos) = ups.runs[k].from
         /\ Wrap(offset + Decoded(patchPos)) = ups.runs[k].from
         /\ \E P \in UpsPlaces : NumberEnd(patchPos) = P[k - 1] + Len(Number[Distance(k)])
<1>1. PICK P \in UpsPlaces : patchPos = P[k - 1]
  BY DEF AtRun
<1>2. WholeUps /\ offset = Before(ups.runs, k) /\ UpsJobOK(ups)
  BY DEF AtRun, Fitting, WholeUps
<1>3. k \in 1..Len(ups.runs)
  BY <1>1, <1>2, FirstStands
<1>4. Stands(Distance(k), patchPos)
  BY <1>1, <1>2, <1>3, RunStands
<1>5. /\ Len(ups.runs) \in Nat /\ ups.runs[k].from \in Nat
      /\ ups.runs[k].from \in Differ(ups.x, ups.y)
  <2>1. /\ Len(ups.runs) \in Nat /\ ups.runs[k].from \in Nat /\ ups.runs[k].to \in Nat
        /\ ups.runs[k].from < ups.runs[k].to
        /\ \A p \in ups.runs[k].from..(ups.runs[k].to - 1) : p \in Differ(ups.x, ups.y)
    BY <1>2, <1>3, RunTypes
  <2> DEFINE f == ups.runs[k].from
             t == ups.runs[k].to
  <2>2. f \in Nat /\ t \in Nat /\ f < t
    BY <2>1
  <2> HIDE DEF f, t
  <2>3. f \in f..(t - 1)
    BY <2>2
  <2>. QED
    BY <2>1, <2>3 DEF f, t
<1>6. Distance(k) \in Nat /\ Before(ups.runs, k) \in Nat
  <2>1. k <= Len(ups.runs)
    BY <1>3
  <2>. QED
    BY <1>2, <1>5, <2>1, BeforeTypes
<1>7. /\ NumberEnds(patchPos) # {}
      /\ NumberEnd(patchPos) = patchPos + Len(Number[Distance(k)])
      /\ NumberValue(patchPos) = Distance(k)
  <2>1. Patch \in Seq(0..3)
    BY <1>2, UpsTypes
  <2>. QED
    BY <1>4, <1>6, <2>1, ReadBack
<1>8. offset + Distance(k) = ups.runs[k].from /\ Distance(k) <= ups.runs[k].from
  <2> DEFINE f == ups.runs[k].from
             b == Before(ups.runs, k)
             d == Distance(k)
  <2>1. f \in Nat /\ b \in Nat /\ d \in Nat /\ d = f - b /\ offset = b
    BY <1>2, <1>5, <1>6 DEF Distance
  <2> HIDE DEF f, b, d
  <2>2. offset + d = f /\ d <= f
    BY <2>1
  <2>. QED
    BY <2>2 DEF f, d
<1>9. ups.runs[k].from < IntLimit
  <2> DEFINE f == ups.runs[k].from
             m == Len(ups.x)
             n == Len(ups.y)
  <2>1. ups.x \in Seq(0..3) /\ ups.y \in Seq(0..3)
    BY <1>2, UpsTypes
  <2>2. m \in Nat /\ n \in Nat /\ f \in Nat /\ IntLimit \in Nat
    BY <1>5, <2>1, IntAssumption DEF IntAssumption
  <2>3. m < IntLimit /\ n < IntLimit
    BY <1>2 DEF WholeUps, UpsJobOK
  <2>4. f \in 0..((IF m >= n THEN m ELSE n) - 1)
    BY <1>5 DEF Differ
  <2> HIDE DEF f, m, n
  <2>5. f < IntLimit
    BY <2>2, <2>3, <2>4
  <2>. QED
    BY <2>5 DEF f
<1>10. Decoded(patchPos) = Distance(k)
  <2> DEFINE f == ups.runs[k].from
             d == Distance(k)
  <2>1. /\ f \in Nat /\ d \in Nat /\ d <= f /\ f < IntLimit /\ IntLimit \in Nat
        /\ NumberValue(patchPos) = d
    BY <1>5, <1>6, <1>7, <1>8, <1>9, IntAssumption DEF IntAssumption
  <2> HIDE DEF f, d
  <2>2. d < IntLimit
    BY <2>1
  <2>3. Wrap(d) = d
    BY <2>1, <2>2, WrapFits
  <2>. QED
    BY <2>1, <2>3 DEF Decoded, d
<1>. QED
  BY <1>1, <1>3, <1>5, <1>7, <1>8, <1>9, <1>10, WrapFits

-----------------------------------------------------------------------------
\* UPS: the steps.

\* What the invariant says of a patch that fits the ROM.
Coming ==
  /\ overrun \in BOOLEAN /\ (overrun => RunLeftOpen)
  /\ upsStep = "open" => /\ patchPos = 0 /\ offset = 0 /\ outAt = 0
                         /\ romCursor = 0 /\ ~overrun
  /\ (upsStep \in {"next", "xor"} /\ ~overrun) => UpsCopied
  /\ upsStep = "next" => Beyond \/ \E k \in 1..(Len(ups.runs) + 1) : AtRun(k)
  /\ upsStep = "xor" => Beyond \/ \E k \in 1..Len(ups.runs) : InRun(k)
  /\ upsStep = "done" => result = Goal \/ (ups.ignore /\ overrun)
  /\ upsStep = "failed" => /\ RunLeftOpen
                           /\ overrun \/ NumberEnds(patchPos) = {}

LEMMA ComesFrom ==
  ASSUME UpsInv, Fitting, ups # NoUpsJob
  PROVE  Coming
  BY DEF UpsInv, Coming, Fitting, WholeUps

\* Once the offset has wrapped, the patch is beyond the end of the output for good.
LEMMA StaysBeyond ==
  ASSUME Coming, overrun, ups' = ups, overrun' = overrun,
         \/ upsStep' \in {"next", "xor", "failed"}
         \/ upsStep' = "done" /\ (~ups.ignore => result' = Goal)
  PROVE  Coming'
<1>1. RunLeftOpen' /\ overrun' /\ Goal' = Goal
  BY DEF Coming, RunLeftOpen, Goal
<1>2. Beyond'
  BY <1>1 DEF Beyond
<1>. QED
  BY <1>1, <1>2 DEF Coming

\* A step that fails is past the end of the output.
LEMMA FailsBeyond ==
  ASSUME Coming, UpsFail, RunLeftOpen, overrun \/ NumberEnds(patchPos) = {}
  PROVE  Coming'
<1>1. ups' = ups /\ patchPos' = patchPos /\ overrun' = overrun /\ upsStep' = "failed"
  BY DEF UpsFail
<1>2. NumberEnds(patchPos)' = NumberEnds(patchPos) /\ RunLeftOpen' = RunLeftOpen
  BY <1>1 DEF NumberEnds, Patch, RunLeftOpen, Goal
<1>. QED
  BY <1>1, <1>2 DEF Coming

LEMMA UpsKept ==
  ASSUME ups # NoUpsJob, UpsInv, ups' = ups, Fitting => Coming'
  PROVE  UpsInv'
<1>1. UpsJobOK(ups)
  BY DEF UpsInv
<1>2. UpsJobOK(ups')
  BY <1>1
<1>3. ups'.intact /\ ups'.rom \in {ups'.x, ups'.y} => Coming'
  BY <1>1 DEF Fitting, WholeUps
<1>4. QED
  BY <1>2, <1>3 DEF UpsInv, Coming

\* The distance to the next run.
LEMMA UpsNextKeeps ==
  ASSUME UpsInv, UpsNext
  PROVE  UpsInv'
<1>1. ups # NoUpsJob /\ upsStep = "next" /\ patchPos < Len(ups.body) /\ UpsJobOK(ups)
  BY DEF UpsNext, UpsInv
<1>2. SUFFICES ASSUME Fitting PROVE Coming'
  <2>1. ups' = ups
    BY DEF UpsNext, UpsFail
  <2>2. QED
    BY <1>1, <1>2, <2>1, UpsKept
<1>0. Coming
  BY <1>1, <1>2, ComesFrom
<1>a. CASE overrun
  <2>1. /\ ups' = ups /\ overrun' = overrun /\ upsStep' \in {"next", "xor", "failed"}
    BY <1>1, <1>a DEF UpsNext, UpsFail
  <2>. QED
    BY <1>0, <1>a, <2>1, StaysBeyond
<1>b. SUFFICES ASSUME ~overrun PROVE Coming'
  BY <1>a
<1>3. UpsCopied /\ (Beyond \/ \E k \in 1..(Len(ups.runs) + 1) : AtRun(k))
  BY <1>0, <1>1, <1>b DEF Coming
<1>4. /\ xSize \in Nat /\ ySize \in Nat /\ outAt \in Nat /\ offset \in Nat /\ romCursor \in Nat
      /\ patchPos \in Nat
      /\ xSize = Len(ups.rom) /\ ySize = Len(Goal) /\ outAt <= ySize /\ outAt <= offset
      /\ romCursor = (IF outAt <= xSize THEN outAt ELSE xSize)
  BY <1>2, <1>3, CopiedTypes
<1>5. CASE NumberEnds(patchPos) = {}
  <2>1. UpsFail
    BY <1>5 DEF UpsNext
  <2>2. RunLeftOpen
    BY <1>1, <1>2, <1>3, <1>4, <1>5, DistanceRead DEF Beyond
  <2>3. QED
    BY <1>0, <1>5, <2>1, <2>2, FailsBeyond
<1>6. CASE NumberEnds(patchPos) # {}
  <2> DEFINE to == Wrap(offset + Decoded(patchPos))
             room == Len(ups.rom) - romCursor
             n == IF to - outAt < room THEN to - outAt ELSE room
  <2>1. /\ patchPos' = NumberEnd(patchPos) /\ offset' = to
        /\ ups' = ups /\ xSize' = xSize /\ ySize' = ySize
        /\ to > ySize => /\ upsStep' = upsStep /\ outAt' = outAt
                         /\ romCursor' = romCursor /\ result' = result
        /\ ~(to > ySize) => /\ result' = CopyRom(to - outAt)
                            /\ romCursor' = (IF n > 0 THEN romCursor + n ELSE romCursor)
                            /\ outAt' = (IF to > outAt THEN to ELSE outAt)
                            /\ upsStep' = "xor"
        /\ overrun' = (overrun \/ to # offset + NumberValue(patchPos))
    BY <1>6 DEF UpsNext
  <2>a. RunLeftOpen' = RunLeftOpen
    BY <2>1 DEF RunLeftOpen, Goal
  <2>2. NumberEnd(patchPos) \in Nat /\ NumberValue(patchPos) \in Nat
    <3>1. Patch \in Seq(0..3)
      BY <1>1, UpsTypes
    <3>2. QED
      BY <1>4, <1>6, <3>1, NumberFound
  <2>b. CASE to # offset + NumberValue(patchPos)
    <3>1. RunLeftOpen
      BY <1>1, <1>2, <1>3, <1>4, <2>b, DistanceRead DEF Beyond
    <3>2. overrun' = TRUE /\ upsStep' \in {"next", "xor"}
      <4> HIDE DEF to
      <4>. QED
        BY <1>1, <2>1, <2>b
    <3>. QED
      BY <2>a, <3>1, <3>2 DEF Coming, Beyond
  <2>c. SUFFICES ASSUME to = offset + NumberValue(patchPos) PROVE Coming'
    BY <2>b
  <2>d. overrun' = FALSE
    BY <1>b, <2>1, <2>c
  <2> HIDE DEF to
  <2>3. to \in Nat /\ offset <= to /\ outAt <= to
    BY <1>4, <2>2, <2>c
  <2>4. /\ ClearTo(to)
        /\ \/ Beyond
           \/ \E k \in 1..Len(ups.runs) : \E P \in UpsPlaces :
                /\ to = ups.runs[k].from
                /\ NumberEnd(patchPos) = P[k - 1] + Len(Number[Distance(k)])
    <3>0. \A p \in Differ(ups.x, ups.y) : p \in Int /\ (p < outAt \/ p >= offset \/ p >= ySize)
      BY <1>3 DEF UpsCopied, Differ
    <3>1. CASE Beyond
      <4>1. offset >= ySize
        BY <1>b, <3>1 DEF Beyond
      <4>2. ClearTo(to)
        BY <1>4, <3>0, <4>1 DEF ClearTo
      <4>3. QED
        BY <3>1, <4>2
    <3>2. ASSUME NEW k \in 1..(Len(ups.runs) + 1), AtRun(k)
          PROVE  /\ ClearTo(to)
                 /\ \E i \in 1..Len(ups.runs) : \E P \in UpsPlaces :
                      /\ to = ups.runs[i].from
                      /\ NumberEnd(patchPos) = P[i - 1] + Len(Number[Distance(i)])
      <4>1. /\ k \in 1..Len(ups.runs) /\ to = ups.runs[k].from
            /\ \E P \in UpsPlaces : NumberEnd(patchPos) = P[k - 1] + Len(Number[Distance(k)])
        BY <1>1, <1>2, <1>4, <2>c, <3>2, DistanceRead
      <4>2. WholeUps /\ offset = Before(ups.runs, k)
        BY <1>2, <3>2 DEF Fitting, AtRun
      <4>3. ClearTo(to)
        <5>1. SUFFICES ASSUME NEW p \in Differ(ups.x, ups.y)
                       PROVE  p < outAt \/ p >= to \/ p >= ySize
          BY DEF ClearTo
        <5>2. p \in Int /\ (p < outAt \/ p >= offset \/ p >= ySize)
          BY <3>0
        <5>3. CASE p >= offset
          <6>1. p >= Before(ups.runs, k)
            BY <4>2, <5>3
          <6>2. p >= ups.runs[k].from
            BY <4>1, <4>2, <6>1, NoDifference
          <6>3. QED
            BY <4>1, <6>2
        <5>4. QED
          BY <5>2, <5>3
      <4>4. QED
        BY <4>1, <4>3
    <3>3. QED
      BY <1>3, <3>1, <3>2
  <2>5. xSize' = Len(ups'.rom) /\ ySize' = Len(Goal') /\ Goal' = Goal
    BY <1>4, <2>1 DEF Goal
  <2>6. CASE to > ySize
    <3>1. UpsCopied'
      <4>1. \A p \in Differ(ups.x, ups.y) : p < outAt \/ p >= to \/ p >= ySize
        BY <2>4 DEF ClearTo
      <4>2. result = [i \in 1..ySize |-> IF i <= outAt THEN Goal[i] ELSE 0]
        BY <1>3 DEF UpsCopied
      <4>3. QED
        BY <1>4, <2>1, <2>2, <2>3, <2>5, <2>6, <4>1, <4>2 DEF UpsCopied
    <3>2. upsStep' = "next" /\ offset' >= ySize'
      BY <1>1, <1>4, <2>1, <2>3, <2>6
    <3>3. RunLeftOpen
      <4>1. ASSUME NEW k \in 1..Len(ups.runs), to = ups.runs[k].from PROVE RunLeftOpen
        <5>1. /\ ups.runs[k].to \in Nat /\ ups.runs[k].from \in Nat
              /\ ups.runs[k].from < ups.runs[k].to /\ k \in DOMAIN ups.runs
          BY <1>2, RunTypes DEF Fitting
        <5>2. ups.runs[k].to >= Len(Goal)
          BY <1>4, <2>6, <4>1, <5>1
        <5>. QED
          BY <5>1, <5>2 DEF RunLeftOpen
      <4>. QED
        BY <2>4, <4>1 DEF Beyond
    <3>4. Beyond'
      BY <2>a, <3>2, <3>3 DEF Beyond
    <3>5. QED
      BY <2>d, <3>1, <3>2, <3>4 DEF Coming
  <2>7. CASE ~(to > ySize)
    <3>1. to <= ySize
      BY <1>4, <2>3, <2>7
    <3>2. result' = [i \in 1..ySize |-> IF i <= to THEN Goal[i] ELSE 0]
      BY <1>2, <1>3, <2>1, <2>3, <2>4, <2>7, <3>1, CopyRight
    <3>3. outAt' = to
      BY <1>4, <2>1, <2>3, <2>7
    <3>4. romCursor' = (IF to <= xSize THEN to ELSE xSize)
      <4> DEFINE c == romCursor
                 o == outAt
                 z == xSize
                 w == romCursor'
                 l == Len(ups.rom)
      <4>1. /\ z \in Nat /\ o \in Nat /\ c = (IF o <= z THEN o ELSE z) /\ l = z
            /\ to \in Nat /\ o <= to /\ w = (IF n > 0 THEN c + n ELSE c)
            /\ room = l - c /\ n = (IF to - o < room THEN to - o ELSE room)
        BY <1>4, <2>1, <2>3, <2>7
      <4> HIDE DEF c, o, z, w, l, n, room
      <4>2. CASE o <= z
        <5>1. room = z - o /\ c = o
          BY <4>1, <4>2
        <5>2. QED
          BY <4>1, <4>2, <5>1 DEF w, z
      <4>3. CASE ~(o <= z)
        <5>1. room = 0 /\ c = z
          BY <4>1, <4>3
        <5>2. n = 0
          BY <4>1, <5>1
        <5>3. QED
          BY <4>1, <4>3, <5>1, <5>2 DEF w, z
      <4>4. QED
        BY <4>2, <4>3
    <3>5. UpsCopied'
      <4>1. \A p \in Differ(ups'.x, ups'.y) : p < outAt' \/ p >= offset' \/ p >= ySize'
        <5>1. \A p \in Differ(ups.x, ups.y) : p \in Int
          BY DEF Differ
        <5>2. \A p \in Differ(ups.x, ups.y) : p < to \/ p >= to
          BY <2>3, <5>1
        <5>3. QED
          BY <2>1, <3>3, <5>2
      <4>2. outAt' \in 0..ySize' /\ offset' \in Nat /\ outAt' <= offset' /\ patchPos' \in Nat
        BY <1>4, <2>1, <2>2, <2>3, <3>1, <3>3
      <4>3. romCursor' = IF outAt' <= xSize' THEN outAt' ELSE xSize'
        BY <2>1, <3>3, <3>4
      <4>4. result' = [i \in 1..ySize' |-> IF i <= outAt' THEN Goal'[i] ELSE 0]
        BY <2>1, <2>5, <3>2, <3>3
      <4>5. QED
        BY <2>5, <4>1, <4>2, <4>3, <4>4 DEF UpsCopied
    <3>6. Beyond' \/ \E k \in 1..Len(ups'.runs) : InRun(k)'
      <4>1. CASE Beyond
        <5>1. offset >= ySize /\ RunLeftOpen
          BY <1>b, <4>1 DEF Beyond
        <5>2. offset' >= ySize'
          BY <1>4, <2>1, <2>3, <5>1
        <5>. QED
          BY <2>a, <5>1, <5>2 DEF Beyond
      <4>2. ASSUME NEW k \in 1..Len(ups.runs), NEW P \in UpsPlaces, to = ups.runs[k].from,
                   NumberEnd(patchPos) = P[k - 1] + Len(Number[Distance(k)])
            PROVE  InRun(k)'
        <5>1. ups.runs[k].to \in Nat /\ ups.runs[k].from \in Nat /\ ups.runs[k].from < ups.runs[k].to
          BY <1>2, RunTypes DEF Fitting
        <5>2. offset' \in ups'.runs[k].from..ups'.runs[k].to /\ outAt' = offset'
          BY <2>1, <3>3, <4>2, <5>1
        <5>3. UpsPlaces' = UpsPlaces
          BY <2>1 DEF UpsPlaces
        <5>4. patchPos' = P[k - 1] + Len(Number[ups'.runs[k].from - Before(ups'.runs, k)])
                            + (offset' - ups'.runs[k].from)
          <6> DEFINE z == P[k - 1] + Len(Number[Distance(k)])
          <6>1. patchPos' = z /\ z \in Nat
            BY <2>1, <2>2, <4>2
          <6> HIDE DEF z
          <6>2. offset' - ups'.runs[k].from = 0
            BY <2>1, <4>2, <5>1
          <6>3. patchPos' = z + (offset' - ups'.runs[k].from)
            BY <6>1, <6>2
          <6>4. QED
            BY <2>1, <6>3 DEF z, Distance
        <5>5. QED
          BY <5>2, <5>3, <5>4 DEF InRun
      <4>3. QED
        BY <2>1, <2>4, <4>1, <4>2
    <3>7. upsStep' = "xor"
      BY <2>1, <2>7
    <3>8. QED
      BY <2>d, <3>5, <3>6, <3>7 DEF Coming
  <2>8. QED
    BY <2>6, <2>7
<1>7. QED
  BY <1>5, <1>6

\* A byte of a run is the next byte of the output.
LEMMA XorByteKeeps ==
  ASSUME UpsInv, Fitting, UpsXor, upsStep = "xor", ~(offset >= ySize), UpsCopied,
         overrun = FALSE, NEW k \in 1..Len(ups.runs), InRun(k)
  PROVE  Coming'
<1> DEFINE R == ups.runs[k]
           l == Len(Number[Distance(k)])
           f == R.from
<1>1. WholeUps
  BY DEF Fitting
<1>2. /\ xSize \in Nat /\ ySize \in Nat /\ outAt \in Nat /\ offset \in Nat /\ romCursor \in Nat
      /\ patchPos \in Nat
      /\ xSize = Len(ups.rom) /\ ySize = Len(Goal) /\ outAt <= ySize /\ outAt <= offset
      /\ romCursor = (IF outAt <= xSize THEN outAt ELSE xSize)
      /\ \A i \in 1..ySize : result[i] = IF i <= outAt THEN Goal[i] ELSE 0
  BY CopiedTypes
<1>3. /\ f \in Nat /\ R.to \in Nat /\ f < R.to /\ Len(ups.runs) \in Nat
      /\ R.to \notin Differ(ups.x, ups.y)
      /\ \A p \in f..(R.to - 1) : p \in Differ(ups.x, ups.y)
  BY <1>1, RunTypes
<1>4. /\ offset \in f..R.to /\ outAt = offset
      /\ \E P \in UpsPlaces : patchPos = P[k - 1] + l + (offset - f)
  BY DEF InRun, Distance
<1>5. PICK P \in UpsPlaces : patchPos = P[k - 1] + l + (offset - f)
  BY <1>4
<1>6. /\ P[k - 1] \in Nat /\ l \in Nat
      /\ \A i \in 1..RunSize(k) :
           Patch[P[k - 1] + l + i] = XorByte(Byte(ups.x, f + i - 1), Byte(ups.y, f + i - 1))
      /\ P[k] = P[k - 1] + l + RunSize(k) + 1
      /\ Patch[P[k]] = 0 /\ P[k] <= Len(Patch)
  BY <1>1, RunStands
<1> DEFINE s == offset - f
           z == P[k - 1] + l
           m == RunSize(k)
<1>7. /\ s \in Nat /\ s <= m /\ z \in Nat /\ m = R.to - f /\ m \in Nat /\ offset = f + s
      /\ patchPos = z + s /\ P[k] = z + m + 1
  <2> DEFINE t == R.to
             p == P[k - 1]
             e == P[k]
  <2>1. /\ f \in Nat /\ t \in Nat /\ f < t /\ offset \in f..t /\ p \in Nat /\ l \in Nat
        /\ patchPos = p + l + (offset - f) /\ m = t - f /\ e = p + l + m + 1
    BY <1>3, <1>4, <1>5, <1>6 DEF RunSize
  <2>2. s = offset - f /\ z = p + l
    OBVIOUS
  <2> HIDE DEF t, p, e, f, l, m, s, z
  <2>3. /\ s \in Nat /\ s <= m /\ z \in Nat /\ m = t - f /\ m \in Nat /\ offset = f + s
        /\ patchPos = z + s /\ e = z + m + 1
    BY <2>1, <2>2
  <2>4. QED
    BY <2>3 DEF t, e
<1>8. ~(patchPos >= Len(Patch))
  <2>1. Len(Patch) \in Nat
    <3>1. Patch \in Seq(0..3)
      BY <1>1, UpsTypes DEF WholeUps
    <3>2. QED
      BY <3>1
  <2> DEFINE q == P[k]
  <2>2. q = z + m + 1 /\ q <= Len(Patch)
    BY <1>6, <1>7
  <2> HIDE DEF q, z, m, s
  <2>3. QED
    BY <1>7, <2>1, <2>2
<1>9. /\ patchPos' = patchPos + 1 /\ offset' = offset + 1
      /\ ups' = ups /\ xSize' = xSize /\ ySize' = ySize
      /\ Patch[patchPos + 1] = 0 => /\ upsStep' = "next" /\ outAt' = outAt
                                    /\ romCursor' = romCursor /\ result' = result
      /\ Patch[patchPos + 1] # 0 =>
           LET y == IF offset < xSize THEN Byte(ups.rom, romCursor) ELSE 0
           IN /\ result' = [result EXCEPT ![outAt + 1] = XorByte(Patch[patchPos + 1], y)]
              /\ outAt' = outAt + 1
              /\ romCursor' = (IF offset < xSize THEN romCursor + 1 ELSE romCursor)
              /\ upsStep' = upsStep
      /\ overrun' = FALSE
  <2>0. outAt = offset
    BY <1>4
  <2>1. ~(outAt >= ySize)
    BY <2>0
  <2>. QED
    BY <1>8, <2>1 DEF UpsXor
<1>10. Goal' = Goal /\ UpsPlaces' = UpsPlaces
  BY <1>9 DEF Goal, UpsPlaces
<1>11. result = [i \in 1..ySize |-> IF i <= outAt THEN Goal[i] ELSE 0]
  BY DEF UpsCopied
<1>12. CASE offset = R.to
  <2>1. Patch[patchPos + 1] = 0 /\ patchPos + 1 = P[k]
    <3>1. s = m /\ patchPos + 1 = z + m + 1
      BY <1>3, <1>7, <1>12
    <3>2. QED
      BY <1>6, <1>7, <3>1
  <2>2. UpsCopied'
    <3>1. \A p \in Differ(ups'.x, ups'.y) : p < outAt' \/ p >= offset' \/ p >= ySize'
      <4>1. ASSUME NEW p \in Differ(ups.x, ups.y) PROVE p < outAt \/ p >= offset + 1
        <5>1. p \in Int
          BY DEF Differ
        <5>2. p # offset
          BY <1>3, <1>12
        <5>3. QED
          BY <1>2, <1>4, <5>1, <5>2
      <4>2. QED
        BY <1>9, <2>1, <4>1
    <3>2. /\ xSize' = Len(ups'.rom) /\ ySize' = Len(Goal')
          /\ outAt' \in 0..ySize' /\ offset' \in Nat /\ outAt' <= offset' /\ patchPos' \in Nat
      BY <1>2, <1>9, <1>10, <2>1
    <3>3. romCursor' = IF outAt' <= xSize' THEN outAt' ELSE xSize'
      BY <1>2, <1>9, <2>1
    <3>4. result' = [i \in 1..ySize' |-> IF i <= outAt' THEN Goal'[i] ELSE 0]
      BY <1>9, <1>10, <1>11, <2>1
    <3>5. QED
      BY <3>1, <3>2, <3>3, <3>4 DEF UpsCopied
  <2>3. AtRun(k + 1)'
    <3>1. k + 1 # 1 /\ (k + 1) - 1 = k
      BY <1>3
    <3>2. Before(ups.runs, k + 1) = R.to + 1
      BY <3>1 DEF Before
    <3>3. offset' = Before(ups'.runs, k + 1)
      BY <1>9, <1>12, <3>2
    <3>4. patchPos' = P[(k + 1) - 1]
      BY <1>9, <2>1, <3>1
    <3>5. QED
      BY <1>10, <3>3, <3>4 DEF AtRun
  <2>4. k + 1 \in 1..(Len(ups'.runs) + 1)
    BY <1>3, <1>9
  <2>5. upsStep' = "next"
    BY <1>9, <2>1
  <2>6. QED
    BY <1>9, <2>2, <2>3, <2>4, <2>5 DEF Coming
<1>13. CASE offset # R.to
  <2> DEFINE X == XorByte(Byte(ups.x, offset), Byte(ups.y, offset))
  <2>1. Patch[patchPos + 1] = X
    <3>1. s + 1 \in 1..m /\ f + (s + 1) - 1 = offset /\ z + (s + 1) = patchPos + 1
      <4> DEFINE t == R.to
                 o == offset
                 q == patchPos
      <4>1. f \in Nat /\ t \in Nat /\ m = t - f /\ o # t
        BY <1>3, <1>7, <1>13
      <4>2. s \in Nat /\ s <= m /\ z \in Nat /\ m \in Nat /\ o = f + s /\ q = z + s
        BY <1>7
      <4> HIDE DEF t, f, m, s, z, o, q
      <4>3. s + 1 \in 1..m /\ f + (s + 1) - 1 = o /\ z + (s + 1) = q + 1
        BY <4>1, <4>2
      <4>4. QED
        BY <4>3 DEF o, q
    <3>2. Patch[z + (s + 1)] = XorByte(Byte(ups.x, f + (s + 1) - 1), Byte(ups.y, f + (s + 1) - 1))
      <4> HIDE DEF s
      <4>1. QED
        BY <1>6, <3>1
    <3>3. QED
      BY <3>1, <3>2
  <2>2. offset \in Differ(ups.x, ups.y)
    BY <1>3, <1>4, <1>13
  <2>3. X # 0 /\ XorByte(X, Byte(ups.rom, offset)) = Byte(Goal, offset)
    BY <1>2, <2>2, GoalBytes
  <2>4. Byte(Goal, offset) = Goal[offset + 1]
    <3>1. offset < Len(Goal)
      BY <1>2
    <3>2. QED
      BY <1>2, <3>1, GoalBytes
  <2>5. (IF offset < xSize THEN Byte(ups.rom, romCursor) ELSE 0) = Byte(ups.rom, offset)
    <3>1. CASE offset < xSize
      BY <1>2, <1>4, <3>1
    <3>2. CASE ~(offset < xSize)
      BY <1>2, <3>2 DEF Byte
    <3>3. QED
      BY <3>1, <3>2
  <2> DEFINE g == Goal
  <2>6. result' = [result EXCEPT ![outAt + 1] = g[offset + 1]]
    BY <1>9, <2>1, <2>3, <2>4, <2>5
  <2>7. /\ outAt' = outAt + 1 /\ upsStep' = "xor"
        /\ romCursor' = (IF offset < xSize THEN romCursor + 1 ELSE romCursor)
    BY <1>9, <2>1, <2>3
  <2>8. outAt + 1 <= ySize
    BY <1>2, <1>4
  <2>9. result' = [i \in 1..ySize |-> IF i <= outAt + 1 THEN g[i] ELSE 0]
    <3>1. result = [i \in 1..ySize |-> IF i <= outAt THEN g[i] ELSE 0]
      BY <1>11
    <3> HIDE DEF g
    <3>2. \A i \in 1..ySize : i <= outAt + 1 <=> (i <= outAt \/ i = outAt + 1)
      BY <1>2
    <3>3. QED
      BY <1>2, <1>4, <2>6, <2>8, <3>1, <3>2
  <2>10. UpsCopied'
    <3>1. \A p \in Differ(ups'.x, ups'.y) : p < outAt' \/ p >= offset' \/ p >= ySize'
      <4>1. ASSUME NEW p \in Differ(ups.x, ups.y) PROVE p < outAt + 1 \/ p >= offset + 1
        <5>1. p \in Int
          BY DEF Differ
        <5>2. QED
          BY <1>2, <1>4, <5>1
      <4>2. QED
        BY <1>9, <2>7, <4>1
    <3>2. /\ xSize' = Len(ups'.rom) /\ ySize' = Len(Goal')
          /\ outAt' \in 0..ySize' /\ offset' \in Nat /\ outAt' <= offset' /\ patchPos' \in Nat
      BY <1>2, <1>4, <1>9, <1>10, <2>7, <2>8
    <3>3. romCursor' = IF outAt' <= xSize' THEN outAt' ELSE xSize'
      BY <1>2, <1>4, <1>9, <2>7
    <3>4. result' = [i \in 1..ySize' |-> IF i <= outAt' THEN Goal'[i] ELSE 0]
      BY <1>9, <1>10, <2>7, <2>9
    <3>5. QED
      BY <3>1, <3>2, <3>3, <3>4 DEF UpsCopied
  <2>11. InRun(k)'
    <3>1. offset' \in ups'.runs[k].from..ups'.runs[k].to /\ outAt' = offset'
      BY <1>3, <1>4, <1>9, <1>13, <2>7
    <3>2. patchPos' = P[k - 1] + l + (offset' - f)
      <4>1. patchPos' = z + s + 1 /\ offset' - f = s + 1
        <5>1. f \in Nat
          BY <1>3
        <5> HIDE DEF f, m, s, z
        <5>2. QED
          BY <1>7, <1>9, <5>1
      <4>2. patchPos' = z + (s + 1)
        <5> HIDE DEF z, s
        <5>1. QED
          BY <1>7, <4>1
      <4>3. QED
        BY <4>1, <4>2
    <3>3. l = Len(Number[ups'.runs[k].from - Before(ups'.runs, k)]) /\ f = ups'.runs[k].from
      BY <1>9 DEF Distance
    <3> HIDE DEF l, f
    <3>4. patchPos' = P[k - 1] + Len(Number[ups'.runs[k].from - Before(ups'.runs, k)])
                        + (offset' - ups'.runs[k].from)
      BY <3>2, <3>3
    <3>5. QED
      BY <1>10, <3>1, <3>4 DEF InRun
  <2>12. k \in 1..Len(ups'.runs)
    BY <1>9
  <2>13. QED
    BY <1>9, <2>7, <2>10, <2>11, <2>12 DEF Coming
<1>14. QED
  BY <1>12, <1>13

LEMMA UpsXorKeeps ==
  ASSUME UpsInv, UpsXor
  PROVE  UpsInv'
<1>1. ups # NoUpsJob /\ upsStep = "xor" /\ UpsJobOK(ups)
  BY DEF UpsXor, UpsInv
<1>2. SUFFICES ASSUME Fitting PROVE Coming'
  <2>1. ups' = ups
    BY DEF UpsXor, UpsFail
  <2>2. QED
    BY <1>1, <1>2, <2>1, UpsKept
<1>0. Coming
  BY <1>1, <1>2, ComesFrom
<1>a. CASE overrun
  <2>1. /\ ups' = ups /\ overrun' = overrun /\ upsStep' \in {"next", "xor", "failed"}
    BY <1>1 DEF UpsXor, UpsFail
  <2>. QED
    BY <1>0, <1>a, <2>1, StaysBeyond
<1>b. SUFFICES ASSUME overrun = FALSE PROVE Coming'
  BY <1>0, <1>a DEF Coming
<1>3. UpsCopied /\ (Beyond \/ \E k \in 1..Len(ups.runs) : InRun(k))
  BY <1>0, <1>1, <1>b DEF Coming
<1>4. CASE offset >= ySize
  <2>1. /\ upsStep' = "next" /\ ups' = ups /\ patchPos' = patchPos /\ xSize' = xSize
        /\ ySize' = ySize /\ offset' = offset /\ outAt' = outAt /\ romCursor' = romCursor
        /\ result' = result /\ overrun' = overrun
    BY <1>4 DEF UpsXor
  <2>2. UpsCopied'
    BY <1>3, <2>1 DEF UpsCopied, Goal
  <2>3. RunLeftOpen
    <3>1. ASSUME NEW k \in 1..Len(ups.runs), InRun(k) PROVE RunLeftOpen
      <4>1. /\ ups.runs[k].to \in Nat /\ ups.runs[k].from \in Nat /\ k \in DOMAIN ups.runs
        BY <1>2, RunTypes DEF Fitting
      <4>2. offset \in ups.runs[k].from..ups.runs[k].to
        BY <3>1 DEF InRun
      <4>3. ySize \in Nat /\ ySize = Len(Goal)
        BY <1>2, <1>3, CopiedTypes
      <4>4. ups.runs[k].to >= Len(Goal)
        BY <1>4, <4>1, <4>2, <4>3
      <4>. QED
        BY <4>1, <4>4 DEF RunLeftOpen
    <3>. QED
      BY <1>3, <3>1 DEF Beyond
  <2>4. RunLeftOpen'
    BY <2>1, <2>3 DEF RunLeftOpen, Goal
  <2>5. QED
    BY <1>4, <1>b, <2>1, <2>2, <2>4 DEF Coming, Beyond
<1>5. CASE ~(offset >= ySize)
  <2>1. PICK k \in 1..Len(ups.runs) : InRun(k)
    BY <1>3, <1>5, <1>b DEF Beyond
  <2>. QED
    BY <1>1, <1>2, <1>3, <1>5, <1>b, <2>1, XorByteKeeps
<1>6. QED
  BY <1>4, <1>5

\* The sizes are read, and tell which way the patch leads.
LEMMA UpsOpenKeeps ==
  ASSUME UpsInv, UpsOpen
  PROVE  UpsInv'
<1>1. ups # NoUpsJob /\ upsStep = "open" /\ UpsJobOK(ups)
  BY DEF UpsOpen, UpsInv
<1>2. SUFFICES ASSUME Fitting PROVE Coming'
  <2>1. ups' = ups
    BY DEF UpsOpen, UpsFail
  <2>2. QED
    BY <1>1, <1>2, <2>1, UpsKept
<1>3. patchPos = 0 /\ offset = 0 /\ outAt = 0 /\ romCursor = 0 /\ overrun = FALSE
  BY <1>1, <1>2 DEF UpsInv, Fitting, WholeUps
<1> DEFINE a == Len(ups.x)
           b == Len(ups.y)
           l == Len(Number[a])
           m == Len(Number[b])
<1>4. /\ a \in Nat /\ b \in Nat /\ l \in Nat /\ Stands(a, 0) /\ Stands(b, l)
      /\ \E P \in UpsPlaces : P[0] = l + m
  BY <1>2, SizesStand DEF Fitting
<1>5. Patch \in Seq(0..3)
  BY <1>1, UpsTypes
<1>0. a < IntLimit /\ b < IntLimit
  BY <1>2 DEF Fitting, WholeUps, UpsJobOK
<1>6. NumberEnds(0) # {} /\ NumberEnd(0) = l /\ Decoded(0) = a
  <2> HIDE DEF a
  <2>1. NumberEnds(0) # {} /\ NumberEnd(0) = 0 + l /\ NumberValue(0) = a
    BY <1>4, <1>5, ReadBack
  <2>2. QED
    BY <1>0, <1>4, <2>1, WrapFits DEF Decoded
<1>7. NumberEnds(l) # {} /\ NumberEnd(l) = l + m /\ Decoded(l) = b
  <2> HIDE DEF a, b, l
  <2>1. NumberEnds(l) # {} /\ NumberEnd(l) = l + m /\ NumberValue(l) = b
    BY <1>4, <1>5, ReadBack
  <2>2. QED
    BY <1>0, <1>4, <2>1, WrapFits DEF Decoded
<1>8. ups.intact /\ ups.rom \in {ups.x, ups.y}
  BY <1>2 DEF Fitting, WholeUps
<1>9. /\ Forward(a, b) <=> ups.rom = ups.x
      /\ Reverse(a, b) <=> ups.rom = ups.y
  BY <1>8 DEF Forward, Reverse
<1>10. /\ xSize' = (IF ups.rom # ups.x THEN b ELSE a)
       /\ ySize' = (IF ups.rom # ups.x THEN a ELSE b)
       /\ result' = [i \in 1..ySize' |-> 0]
       /\ patchPos' = l + m /\ upsStep' = "next"
       /\ ups' = ups /\ offset' = 0 /\ outAt' = 0 /\ romCursor' = 0
       /\ overrun' = FALSE
  <2> HIDE DEF a, b, l, m
  <2>1. ~(~ups.ignore /\ ~(ups.intact /\ (Forward(a, b) \/ Reverse(a, b))))
    BY <1>8, <1>9
  <2>2. (~Forward(a, b) /\ Reverse(a, b)) <=> ups.rom # ups.x
    BY <1>8, <1>9
  <2>3. ~(a < 0) /\ ~(b < 0)
    BY <1>4
  <2>4. QED
    BY <1>3, <1>6, <1>7, <2>1, <2>2, <2>3 DEF UpsOpen
<1>11. Goal' = Goal /\ UpsPlaces' = UpsPlaces /\ Goal = (IF ups.rom # ups.x THEN ups.x ELSE ups.y)
  BY <1>10 DEF Goal, UpsPlaces
<1>12. xSize' = Len(ups'.rom) /\ ySize' = Len(Goal') /\ xSize' \in Nat /\ ySize' \in Nat
  BY <1>4, <1>8, <1>10, <1>11
<1>13. m \in Nat
  <2> HIDE DEF b
  <2>1. QED
    BY <1>4, NumberBytes
<1>14. UpsCopied'
  <2>1. result' = [i \in 1..ySize' |-> IF i <= outAt' THEN Goal'[i] ELSE 0]
    <3>1. \A i \in 1..ySize' : ~(i <= 0)
      BY <1>12
    <3>2. QED
      BY <1>10, <3>1
  <2>2. \A p \in Differ(ups'.x, ups'.y) : p >= 0
    BY <1>4 DEF Differ
  <2>3. /\ outAt' \in 0..ySize' /\ offset' \in Nat /\ outAt' <= offset' /\ patchPos' \in Nat
        /\ romCursor' = IF outAt' <= xSize' THEN outAt' ELSE xSize'
    <3>0. l \in Nat /\ m \in Nat
      BY <1>4, <1>13
    <3>3. outAt' = 0 /\ offset' = 0 /\ romCursor' = 0 /\ patchPos' = l + m
      BY <1>10
    <3> HIDE DEF a, b, l, m
    <3>1. l + m \in Nat /\ outAt' = 0 /\ offset' = 0 /\ romCursor' = 0 /\ patchPos' = l + m
      BY <3>0, <3>3
    <3>2. QED
      BY <1>12, <3>1
  <2>4. QED
    BY <1>10, <1>12, <2>1, <2>2, <2>3 DEF UpsCopied
<1>15. AtRun(1)'
  <2>1. Before(ups'.runs, 1) = 0
    BY DEF Before
  <2>2. 1 - 1 = 0
    OBVIOUS
  <2>3. QED
    BY <1>4, <1>10, <1>11, <2>1, <2>2 DEF AtRun
<1>16. 1 \in 1..(Len(ups'.runs) + 1)
  <2>1. Len(ups.runs) \in Nat
    BY <1>2, RunTypes DEF Fitting
  <2>2. QED
    BY <1>10, <2>1
<1>17. QED
  BY <1>10, <1>14, <1>15, <1>16 DEF Coming

\* The rest of the ROM, where the files do not differ.
LEMMA UpsTailKeeps ==
  ASSUME UpsInv, UpsTail
  PROVE  UpsInv'
<1>1. /\ ups # NoUpsJob /\ upsStep = "next" /\ patchPos >= Len(ups.body) /\ UpsJobOK(ups)
      /\ result' = CopyRom(ySize - outAt)
      /\ upsStep' = (IF ~ups.ignore /\ result' # Goal THEN "failed" ELSE "done")
      /\ ups' = ups /\ overrun' = overrun
  BY DEF UpsTail, UpsInv
<1>2. SUFFICES ASSUME Fitting PROVE Coming'
  BY <1>1, <1>2, UpsKept
<1>0. Coming
  BY <1>1, <1>2, ComesFrom
<1>a. CASE overrun
  BY <1>0, <1>1, <1>a, StaysBeyond
<1>b. SUFFICES ASSUME overrun = FALSE PROVE Coming'
  BY <1>0, <1>a DEF Coming
<1>3. UpsCopied /\ (offset >= ySize \/ \E k \in 1..(Len(ups.runs) + 1) : AtRun(k))
  BY <1>0, <1>1, <1>b DEF Coming, Beyond
<1>4. ySize \in Nat /\ outAt \in Nat /\ offset \in Nat
  BY <1>2, <1>3, CopiedTypes
<1>5. \A p \in Differ(ups.x, ups.y) : p \in Int /\ (p < outAt \/ p >= offset \/ p >= ySize)
  BY <1>3 DEF UpsCopied, Differ
<1>6. ClearTo(ySize)
  <2>1. CASE offset >= ySize
    BY <1>4, <1>5, <2>1 DEF ClearTo
  <2>2. CASE ~(offset >= ySize)
    <3>1. PICK k \in 1..(Len(ups.runs) + 1) : AtRun(k)
      BY <1>3, <2>2
    <3>2. PICK P \in UpsPlaces : patchPos = P[k - 1] /\ offset = Before(ups.runs, k)
      BY <3>1 DEF AtRun
    <3>3. WholeUps
      BY <1>2 DEF Fitting
    <3>4. k = Len(ups.runs) + 1 /\ Len(ups.runs) \in Nat
      BY <1>1, <3>2, <3>3, LastStands, RunTypes
    <3>5. ASSUME NEW p \in Differ(ups.x, ups.y), p >= offset PROVE FALSE
      <4>1. k <= Len(ups.runs)
        BY <3>2, <3>3, <3>5, NoDifference
      <4>2. QED
        BY <3>4, <4>1
    <3>6. QED
      BY <1>5, <3>5 DEF ClearTo
  <2>3. QED
    BY <2>1, <2>2
<1>7. result' = Goal
  BY <1>1, <1>2, <1>3, <1>6, CopyAll
<1>8. upsStep' = "done" /\ result' = Goal'
  BY <1>1, <1>7 DEF Goal
<1>9. QED
  BY <1>1, <1>8, <1>b DEF Coming

LEMMA UpsStepKeeps ==
  ASSUME UpsInv, UpsStep
  PROVE  UpsInv'
BY UpsOpenKeeps, UpsNextKeeps, UpsXorKeeps, UpsTailKeeps DEF UpsStep

LEMMA StartUpsKeeps ==
  ASSUME UpsInv, NEW j, UpsJobOK(j), StartUps(j)
  PROVE  UpsInv'
<1>1. /\ ups = NoUpsJob /\ ups' = j /\ upsStep' = upsStep /\ patchPos' = patchPos
      /\ xSize' = xSize /\ ySize' = ySize /\ offset' = offset /\ outAt' = outAt
      /\ romCursor' = romCursor /\ result' = result /\ overrun' = overrun
  BY DEF StartUps
<1>2. UpsIdle
  BY <1>1 DEF UpsInv
<1>3. UpsIdle' \/ ups' # NoUpsJob
  BY <1>1, <1>2 DEF UpsIdle
<1>4. UpsJobOK(ups')
  BY <1>1
<1>5. /\ upsStep' = "open"
      /\ patchPos' = 0 /\ offset' = 0 /\ outAt' = 0 /\ romCursor' = 0
      /\ overrun' = FALSE
  BY <1>1, <1>2 DEF UpsIdle
<1>6. CASE ups' = NoUpsJob
  BY <1>3, <1>6 DEF UpsInv
<1>7. CASE ups' # NoUpsJob
  BY <1>4, <1>5, <1>7 DEF UpsInv
<1>8. QED
  BY <1>6, <1>7

LEMMA UpsUnchanged ==
  ASSUME UpsInv, UNCHANGED upsVars
  PROVE  UpsInv'
<1>1. /\ ups' = ups /\ upsStep' = upsStep /\ patchPos' = patchPos
      /\ xSize' = xSize /\ ySize' = ySize /\ offset' = offset /\ outAt' = outAt
      /\ romCursor' = romCursor /\ result' = result /\ overrun' = overrun
  BY DEF upsVars
<1>2. CASE ups = NoUpsJob
  <2>1. UpsIdle
    BY <1>2 DEF UpsInv
  <2>2. UpsIdle'
    BY <1>1, <2>1 DEF UpsIdle
  <2>3. QED
    BY <1>1, <1>2, <2>2 DEF UpsInv
<1>3. CASE ups # NoUpsJob
  <2>1. SUFFICES ASSUME Fitting PROVE Coming'
    BY <1>1, <1>3, UpsKept
  <2>2. Coming
    BY <1>3, <2>1, ComesFrom
  <2>3. /\ Goal' = Goal /\ UpsPlaces' = UpsPlaces /\ RunLeftOpen' = RunLeftOpen
        /\ NumberEnds(patchPos)' = NumberEnds(patchPos)
    BY <1>1 DEF Goal, UpsPlaces, RunLeftOpen, NumberEnds, Patch
  <2>4. UpsCopied => UpsCopied'
    BY <1>1, <2>3 DEF UpsCopied
  <2>5. ASSUME NEW k, AtRun(k) PROVE AtRun(k)'
    BY <1>1, <2>3, <2>5 DEF AtRun
  <2>6. ASSUME NEW k, InRun(k) PROVE InRun(k)'
    BY <1>1, <2>3, <2>6 DEF InRun
  <2>7. QED
    BY <1>1, <2>2, <2>3, <2>4, <2>5, <2>6 DEF Coming, Beyond
<1>4. QED
  BY <1>2, <1>3

LEMMA UpsRight ==
  ASSUME UpsInv
  PROVE  UpsApplies
BY DEF UpsInv, UpsApplies

LEMMA UpsInit == UpsIdle => UpsInv
  BY DEF UpsIdle, UpsInv

-----------------------------------------------------------------------------
\* The screen, and what it hands to the patchers.

LEMMA SessionInit == Init => SessionInv
<1> SUFFICES ASSUME Init PROVE SessionInv
  OBVIOUS
<1>1. TabInv
  BY DEF Init, TabInv
<1>2. StreamInv /\ UpsInv /\ BpsInv /\ BlkInv /\ XdInv
  BY StreamInit, UpsInit, BpsInit, BlkInit, XdInit DEF Init
<1>3. QED
  BY <1>1, <1>2 DEF SessionInv

\* The steps of the screen but the last leave the patchers alone.
LEMMA WorkUnchanged ==
  ASSUME SessionInv, UNCHANGED workVars
  PROVE  StreamInv' /\ UpsInv' /\ BpsInv' /\ BlkInv' /\ XdInv'
<1>1. /\ UNCHANGED streamVars /\ UNCHANGED upsVars /\ UNCHANGED bpsVars /\ UNCHANGED blkVars
      /\ UNCHANGED xdVars
  BY DEF workVars
<1>2. StreamInv /\ UpsInv /\ BpsInv /\ BlkInv /\ XdInv
  BY DEF SessionInv
<1>3. QED
  BY <1>1, <1>2, StreamUnchanged, UpsUnchanged, BpsUnchanged, BlkUnchanged, XdUnchanged

LEMMA TabUnchanged ==
  ASSUME TabInv, UNCHANGED tabVars
  PROVE  TabInv'
  BY DEF TabInv, tabVars

LEMMA PickKeeps ==
  ASSUME SessionInv, NEW r, NEW p, Pick(r, p),
         r \in shelf.roms \cup {None}, p \in shelf.patches \cup {None},
         asked # None => r \in shelf.roms /\ p \in shelf.patches
  PROVE  SessionInv'
<1>1. /\ UNCHANGED <<shelf, asked>> /\ UNCHANGED workVars /\ romSel' = r /\ patchSel' = p
  BY DEF Pick
<1>2. TabInv'
  BY <1>1 DEF TabInv, SessionInv
<1>3. QED
  BY <1>1, <1>2, WorkUnchanged DEF SessionInv

\* What is dispatched is on the shelf.
LEMMA DispatchKeeps ==
  ASSUME SessionInv, Dispatch
  PROVE  SessionInv'
<1>1. TabInv /\ StreamInv /\ UpsInv /\ BpsInv /\ BlkInv /\ XdInv /\ asked # None /\ UNCHANGED tabVars
  BY DEF Dispatch, SessionInv
<1>2. TabInv'
  BY <1>1, TabUnchanged
<1>3. PICK family \in Shelves : shelf \in family
  BY <1>1 DEF TabInv
<1>4. romSel \in shelf.roms /\ patchSel \in shelf.patches
  BY <1>1 DEF TabInv
<1>5. /\ patchSel.fmt \in {"ips", "n64", "ups", "bps", "ppf", "gba", "dps", "xdelta"}
      /\ patchSel.fmt \in {"ips", "n64"} => StreamJobOK(StreamJob(patchSel, romSel))
      /\ patchSel.fmt = "ups" => UpsJobOK(UpsJob(patchSel, romSel, shelf.ignore))
      /\ patchSel.fmt = "bps" => BpsJobOK(BpsJob(patchSel, romSel, shelf.ignore))
      /\ patchSel.fmt \in {"ppf", "gba", "dps"} => BlockJobOK(BlockJob(patchSel, romSel, shelf.ignore))
      /\ patchSel.fmt = "xdelta" => XdJobOK(XdJob(patchSel, romSel, shelf.ignore))
  BY <1>3, <1>4, ShelfAssumption
<1>6. CASE patchSel.fmt \in {"ips", "n64"}
  <2>1. /\ StartStream(StreamJob(patchSel, romSel))
        /\ UNCHANGED upsVars /\ UNCHANGED bpsVars /\ UNCHANGED blkVars /\ UNCHANGED xdVars
    BY <1>6 DEF Dispatch
  <2>2. StreamInv'
    BY <1>1, <1>5, <1>6, <2>1, StartStreamKeeps
  <2>3. QED
    BY <1>1, <1>2, <2>1, <2>2, UpsUnchanged, BpsUnchanged, BlkUnchanged, XdUnchanged
       DEF SessionInv
<1>7. CASE patchSel.fmt = "ups"
  <2>1. /\ StartUps(UpsJob(patchSel, romSel, shelf.ignore))
        /\ UNCHANGED streamVars /\ UNCHANGED bpsVars /\ UNCHANGED blkVars /\ UNCHANGED xdVars
    BY <1>7 DEF Dispatch
  <2>2. UpsInv'
    BY <1>1, <1>5, <1>7, <2>1, StartUpsKeeps
  <2>3. QED
    BY <1>1, <1>2, <2>1, <2>2, StreamUnchanged, BpsUnchanged, BlkUnchanged, XdUnchanged
       DEF SessionInv
<1>8. CASE patchSel.fmt = "bps"
  <2>1. /\ StartBps(BpsJob(patchSel, romSel, shelf.ignore))
        /\ UNCHANGED upsVars /\ UNCHANGED streamVars /\ UNCHANGED blkVars /\ UNCHANGED xdVars
    BY <1>8 DEF Dispatch
  <2>2. BpsInv'
    BY <1>1, <1>5, <1>8, <2>1, StartBpsKeeps
  <2>3. QED
    BY <1>1, <1>2, <2>1, <2>2, UpsUnchanged, StreamUnchanged, BlkUnchanged, XdUnchanged
       DEF SessionInv
<1>9. CASE patchSel.fmt \in {"ppf", "gba", "dps"}
  <2>1. /\ StartBlock(BlockJob(patchSel, romSel, shelf.ignore))
        /\ UNCHANGED upsVars /\ UNCHANGED streamVars /\ UNCHANGED bpsVars /\ UNCHANGED xdVars
    BY <1>9 DEF Dispatch
  <2>2. BlkInv'
    BY <1>1, <1>5, <1>9, <2>1, StartBlockKeeps
  <2>3. QED
    BY <1>1, <1>2, <2>1, <2>2, UpsUnchanged, StreamUnchanged, BpsUnchanged, XdUnchanged
       DEF SessionInv
<1>10. CASE patchSel.fmt = "xdelta"
  <2>1. /\ StartXdelta(XdJob(patchSel, romSel, shelf.ignore))
        /\ UNCHANGED upsVars /\ UNCHANGED streamVars /\ UNCHANGED bpsVars /\ UNCHANGED blkVars
    BY <1>10 DEF Dispatch
  <2>2. XdInv'
    BY <1>1, <1>5, <1>10, <2>1, StartXdeltaKeeps
  <2>3. QED
    BY <1>1, <1>2, <2>1, <2>2, UpsUnchanged, StreamUnchanged, BpsUnchanged, BlkUnchanged
       DEF SessionInv
<1>11. QED
  BY <1>5, <1>6, <1>7, <1>8, <1>9, <1>10

LEMMA ScreenKeeps ==
  ASSUME SessionInv, Screen
  PROVE  SessionInv'
<1>1. TabInv
  BY DEF SessionInv
<1>2. CASE PickRom
  <2>1. PICK r \in shelf.roms : Pick(r, patchSel)
    BY <1>2 DEF PickRom
  <2>2. /\ r \in shelf.roms \cup {None} /\ patchSel \in shelf.patches \cup {None}
        /\ asked # None => r \in shelf.roms /\ patchSel \in shelf.patches
    BY <1>1 DEF TabInv
  <2>3. QED
    BY <2>1, <2>2, PickKeeps
<1>3. CASE PickPatch
  <2>1. PICK p \in shelf.patches : Pick(romSel, p)
    BY <1>3 DEF PickPatch
  <2>2. /\ romSel \in shelf.roms \cup {None} /\ p \in shelf.patches \cup {None}
        /\ asked # None => romSel \in shelf.roms /\ p \in shelf.patches
    BY <1>1 DEF TabInv
  <2>3. QED
    BY <2>1, <2>2, PickKeeps
<1>4. CASE PickBoth
  <2>1. PICK r \in shelf.roms, p \in shelf.patches : Pick(r, p)
    BY <1>4 DEF PickBoth
  <2>2. QED
    BY <2>1, PickKeeps
<1>5. CASE \E i \in DOMAIN checks : CheckEnds(i)
  <2>1. UNCHANGED <<shelf, romSel, patchSel, asked>> /\ UNCHANGED workVars
    BY <1>5 DEF CheckEnds
  <2>2. TabInv'
    BY <1>1, <2>1 DEF TabInv
  <2>3. QED
    BY <2>1, <2>2, WorkUnchanged DEF SessionInv
<1>6. CASE PressPatch
  <2>1. /\ romSel # None /\ patchSel # None
        /\ UNCHANGED <<shelf, romSel, patchSel>> /\ UNCHANGED workVars
    BY <1>6 DEF PressPatch
  <2>2. TabInv'
    BY <1>1, <2>1 DEF TabInv
  <2>3. QED
    BY <2>1, <2>2, WorkUnchanged DEF SessionInv
<1>7. CASE Dispatch
  BY <1>7, DispatchKeeps
<1>8. QED
  BY <1>2, <1>3, <1>4, <1>5, <1>6, <1>7 DEF Screen

LEMMA WorkKeeps ==
  ASSUME SessionInv, Work
  PROVE  SessionInv'
<1>1. TabInv /\ StreamInv /\ UpsInv /\ BpsInv /\ BlkInv /\ XdInv
  BY DEF SessionInv
<1>2. UNCHANGED tabVars
  BY DEF Work
<1>3. TabInv'
  BY <1>1, <1>2, TabUnchanged
<1>4. StreamInv'
  BY <1>1, StreamKeeps, StreamUnchanged DEF Work
<1>5. BpsInv'
  BY <1>1, BpsKeeps, BpsUnchanged DEF Work
<1>6. XdInv'
  BY <1>1, XdKeeps, XdUnchanged DEF Work
<1>7. BlkInv'
  BY <1>1, BlockStepKeeps, BlkUnchanged DEF Work
<1>8. UpsInv'
  BY <1>1, UpsStepKeeps, UpsUnchanged DEF Work
<1>9. QED
  BY <1>3, <1>4, <1>5, <1>6, <1>7, <1>8 DEF SessionInv

\* The invariant of the patch screen and of the patchers it leads to.
THEOREM SessionInvariance == Spec => []SessionInv
<1>1. SessionInv /\ [Next]_vars => SessionInv'
  <2> SUFFICES ASSUME SessionInv, [Next]_vars PROVE SessionInv'
    OBVIOUS
  <2>1. CASE Next
    BY <2>1, ScreenKeeps, WorkKeeps DEF Next
  <2>2. CASE UNCHANGED vars
    <3>1. UNCHANGED tabVars /\ UNCHANGED workVars
      BY <2>2 DEF vars
    <3>2. QED
      BY <3>1, TabUnchanged, WorkUnchanged DEF SessionInv
  <2>3. QED
    BY <2>1, <2>2
<1>2. QED
  BY SessionInit, <1>1, PTL DEF Spec

\* Whatever a usual IPS or APS patch for N64 has, in records and in a ROM of any
\* size: what one pass writes is what the patch means, byte for byte.
THEOREM Patch_PatchedRight == Spec => []PatchedRight
<1>1. SessionInv => PatchedRight
  BY StreamRight DEF SessionInv
<1>2. QED
  BY SessionInvariance, <1>1, PTL

\* Whatever actions a BPS patch is made of: it turns the ROM it was made for into
\* the other file, and is not rejected.
THEOREM Patch_BpsApplies == Spec => []BpsApplies
<1>1. SessionInv => BpsApplies
  BY BpsRight DEF SessionInv
<1>2. QED
  BY SessionInvariance, <1>1, PTL

\* Wherever buffers of any size cut an xdelta patch of any windows: a whole one
\* gives the whole file of the ROM it was made for, and a success with the checks on
\* means right windows only.
THEOREM Patch_XdeltaApplies == Spec => []XdeltaApplies
<1>1. SessionInv => XdeltaApplies
  BY XdRight DEF SessionInv
<1>2. QED
  BY SessionInvariance, <1>1, PTL

\* Records over, across and past the end of the ROM in any order, undo data, a
\* FileID block; blocks of any size, in any order, past the end of either file: what
\* PPF, DPS and APS for GBA leave is what the patch means, in bytes and in length.
THEOREM Patch_BlocksApplied == Spec => []BlocksApplied
<1>1. SessionInv => BlocksApplied
  BY BlkRight DEF SessionInv
<1>2. QED
  BY SessionInvariance, <1>1, PTL

\* Runs of any length and number, on to and past the end of the output, in a patch of
\* two files of any size: it turns either into the other, and fails only when the
\* number that a run at the end leaves open does not end in the stored checksums.
THEOREM Patch_UpsApplies == Spec => []UpsApplies
<1>1. SessionInv => UpsApplies
  BY UpsRight DEF SessionInv
<1>2. QED
  BY SessionInvariance, <1>1, PTL
=============================================================================
