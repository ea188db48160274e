---------------------------- MODULE PagingProofs ----------------------------
(***************************************************************************)
(* What Paging's operators do for every page size, colony and name: a page *)
(* size is always usable, a token carries exactly the place it was made    *)
(* of, and going on from a token is going on behind that place in a strict *)
(* order, so that no object is on two pages.                               *)
(***************************************************************************)
EXTENDS Paging, SequenceTheorems, FiniteSetTheorems, WellFoundedInduction, TLAPS

\* Whatever int32 a client sends (pagetoken.go:21-30), LIMIT is positive and
\* at most the maximum.
THEOREM ClampInRange == \A n \in Int : ClampPageSize(n) \in 1 .. MaxPageSize
BY PageSizeAssumption DEF ClampPageSize

-----------------------------------------------------------------------------
(* Tokens.                                                                 *)

\* The separator of an encoded token is the one between colony and name.
LEMMA CutOfEncoded ==
  ASSUME NEW c \in Text, NEW n \in Text
  PROVE  /\ EncodePageToken(c, n) \in Seq(Nat)
         /\ Len(EncodePageToken(c, n)) = Len(c) + 1 + Len(n)
         /\ WellFormed(EncodePageToken(c, n))
         /\ Cut(EncodePageToken(c, n)) = Len(c) + 1
<1> DEFINE token == EncodePageToken(c, n)
<1>1. c \in Seq(Nat) /\ n \in Seq(Nat) /\ <<Sep>> \in Seq(Nat) /\ Len(<<Sep>>) = 1
  BY DEF Text, Sep
<1>2. /\ token \in Seq(Nat)
      /\ Len(token) = Len(c) + 1 + Len(n)
      /\ token[Len(c) + 1] = Sep
      /\ \A i \in 1 .. Len(c) : token[i] = c[i]
  BY <1>1 DEF EncodePageToken
<1>3. \A i \in 1 .. Len(c) : token[i] # Sep
  BY <1>2 DEF Text
<1>4. Len(c) + 1 \in DOMAIN token
  BY <1>1, <1>2
<1> HIDE DEF token
<1>5. \A i \in DOMAIN token :
        (token[i] = Sep /\ \A j \in 1 .. i - 1 : token[j] # Sep) <=> i = Len(c) + 1
  <2> SUFFICES ASSUME NEW i \in DOMAIN token
               PROVE  (token[i] = Sep /\ \A j \in 1 .. i - 1 : token[j] # Sep)
                        <=> i = Len(c) + 1
    OBVIOUS
  <2>1. i \in 1 .. Len(token) /\ Len(c) \in Nat
    BY <1>1, <1>2
  <2>2. CASE i <= Len(c)
    BY <2>1, <2>2, <1>3
  <2>3. CASE i = Len(c) + 1
    BY <2>1, <2>3, <1>2, <1>3
  <2>4. CASE i > Len(c) + 1
    <3>1. Len(c) + 1 \in 1 .. i - 1
      BY <2>1, <2>4
    <3> QED BY <3>1, <2>1, <2>4, <1>2
  <2> QED BY <2>1, <2>2, <2>3, <2>4
<1>6. WellFormed(token)
  BY <1>2, <1>4 DEF WellFormed
<1>7. Cut(token) = Len(c) + 1
  BY <1>4, <1>5 DEF Cut
<1> QED BY <1>2, <1>6, <1>7 DEF token

\* A token decodes to the colony and the name it was made of, the empty ones of
\* a Colony included (pagetoken.go:36-59), and is never taken for no token.
THEOREM TokenRoundTrip ==
  ASSUME NEW c \in Text, NEW n \in Text
  PROVE  /\ EncodePageToken(c, n) # <<>>
         /\ DecodePageToken(EncodePageToken(c, n)) = [colony |-> c, name |-> n]
<1> DEFINE token == EncodePageToken(c, n)
<1>1. c \in Seq(Nat) /\ n \in Seq(Nat) /\ <<Sep>> \in Seq(Nat)
  BY DEF Text, Sep
<1>2. /\ token \in Seq(Nat) /\ Len(token) = Len(c) + 1 + Len(n)
      /\ Cut(token) = Len(c) + 1
  BY CutOfEncoded
<1>3. token # <<>>
  BY <1>1, <1>2
<1>4. SubSeq(token, 1, Len(c)) = c
  <2>1. /\ Len(c) \in Nat /\ Len(n) \in Nat
        /\ \A i \in 1 .. Len(token) : token[i] \in Nat
    <3>1. Len(c) \in Nat /\ Len(n) \in Nat
      BY <1>1
    <3>2. \A i \in 1 .. Len(token) : token[i] \in Nat
      BY <1>2, ElementOfSeq
    <3> QED BY <3>1, <3>2
  <2>2. SubSeq(token, 1, Len(c)) \in Seq(Nat) /\ Len(SubSeq(token, 1, Len(c))) = Len(c)
    <3> HIDE DEF token
    <3>1. \A i \in 1 .. Len(c) : token[i] \in Nat
      <4>1. 1 .. Len(c) \subseteq 1 .. Len(token)
        BY <1>2, <2>1
      <4> QED BY <2>1, <4>1
    <3>2. /\ SubSeq(token, 1, Len(c)) \in Seq(Nat)
          /\ Len(SubSeq(token, 1, Len(c))) = IF 1 <= Len(c) THEN Len(c) - 1 + 1 ELSE 0
      BY <2>1, <3>1, SubSeqProperties
    <3> QED BY <2>1, <3>2
  <2>3. \A i \in 1 .. Len(c) : SubSeq(token, 1, Len(c))[i] = c[i]
    BY <1>1, <1>2 DEF EncodePageToken
  <2> HIDE DEF token
  <2> QED BY <2>2, <2>3, <1>1, SeqEqual
<1>5. SubSeq(token, Len(c) + 2, Len(token)) = n
  <2>1. /\ SubSeq(token, Len(c) + 2, Len(token)) \in Seq(Nat)
        /\ Len(SubSeq(token, Len(c) + 2, Len(token))) = Len(n)
    <3> HIDE DEF token
    <3>1. /\ Len(c) \in Nat /\ Len(n) \in Nat
          /\ \A i \in Len(c) + 2 .. Len(token) : token[i] \in Nat
      <4>1. Len(c) \in Nat /\ Len(n) \in Nat
        BY <1>1
      <4>2. \A i \in 1 .. Len(token) : token[i] \in Nat
        BY <1>2, ElementOfSeq
      <4>3. Len(c) + 2 .. Len(token) \subseteq 1 .. Len(token)
        BY <1>2, <4>1
      <4> QED BY <4>1, <4>2, <4>3
    <3>2. Len(c) + 2 \in Int /\ Len(token) \in Int
      BY <1>2, <3>1
    <3>3. /\ SubSeq(token, Len(c) + 2, Len(token)) \in Seq(Nat)
          /\ Len(SubSeq(token, Len(c) + 2, Len(token))) =
               IF Len(c) + 2 <= Len(token) THEN Len(token) - (Len(c) + 2) + 1 ELSE 0
      BY <3>1, <3>2, SubSeqProperties
    <3> QED BY <3>1, <3>3, <1>2
  <2>2. ASSUME NEW i \in 1 .. Len(n)
        PROVE  SubSeq(token, Len(c) + 2, Len(token))[i] = n[i]
    <3>1. token[Len(c) + 1 + i] = n[i]
      BY <1>1, <2>2 DEF EncodePageToken
    <3>2. SubSeq(token, Len(c) + 2, Len(token))[i] = token[Len(c) + 1 + i]
      <4> HIDE DEF token
      <4> QED BY <1>1, <1>2, <2>2
    <3> QED BY <3>1, <3>2
  <2> HIDE DEF token
  <2> QED BY <2>1, <2>2, <1>1, SeqEqual
<1> HIDE DEF token
<1>6. Cut(token) - 1 = Len(c) /\ Cut(token) + 1 = Len(c) + 2
  BY <1>1, <1>2
<1>7. DecodePageToken(token) = [colony |-> c, name |-> n]
  BY <1>3, <1>4, <1>5, <1>6 DEF DecodePageToken
<1> QED BY <1>3, <1>7 DEF token

-----------------------------------------------------------------------------
(* The order.                                                              *)

\* No text is before itself.
LEMMA LessIrreflexive == ASSUME NEW s \in Text PROVE ~Less(s, s)
<1>1. \A i \in DOMAIN s : s[i] \in Nat
  BY DEF Text
<1>2. Len(s) \in Nat
  BY DEF Text
<1> QED BY <1>1, <1>2 DEF Less

\* The lexicographic order is transitive.
LEMMA LessTransitive ==
  ASSUME NEW s \in Text, NEW t \in Text, NEW u \in Text, Less(s, t), Less(t, u)
  PROVE  Less(s, u)
<1>1. /\ \A i \in 1 .. Len(s) : s[i] \in Nat
      /\ \A i \in 1 .. Len(t) : t[i] \in Nat
      /\ \A i \in 1 .. Len(u) : u[i] \in Nat
      /\ Len(s) \in Nat /\ Len(t) \in Nat /\ Len(u) \in Nat
      /\ DOMAIN s = 1 .. Len(s) /\ DOMAIN t = 1 .. Len(t) /\ DOMAIN u = 1 .. Len(u)
  BY DEF Text
<1>2. CASE \E i \in DOMAIN s \cap DOMAIN t :
             s[i] < t[i] /\ \A j \in 1 .. i - 1 : s[j] = t[j]
  <2> PICK i \in DOMAIN s \cap DOMAIN t :
             s[i] < t[i] /\ \A j \in 1 .. i - 1 : s[j] = t[j]
    BY <1>2
  <2>1. CASE \E k \in DOMAIN t \cap DOMAIN u :
               t[k] < u[k] /\ \A j \in 1 .. k - 1 : t[j] = u[j]
    <3> PICK k \in DOMAIN t \cap DOMAIN u :
               t[k] < u[k] /\ \A j \in 1 .. k - 1 : t[j] = u[j]
      BY <2>1
    <3>1. CASE i <= k
      <4>1. i \in DOMAIN s \cap DOMAIN u
        BY <1>1, <3>1
      <4>2. s[i] < u[i]
        <5>1. s[i] \in Nat /\ t[i] \in Nat /\ u[i] \in Nat /\ i \in Int /\ k \in Int
          BY <1>1, <4>1
        <5>2. CASE i = k
          BY <5>1, <5>2
        <5>3. CASE i < k
          <6>1. i \in 1 .. k - 1
            BY <1>1, <5>3
          <6>2. t[i] = u[i]
            BY <6>1
          <6> QED BY <6>2
        <5> QED BY <3>1, <5>1, <5>2, <5>3
      <4>3. \A j \in 1 .. i - 1 : s[j] = u[j]
        BY <1>1, <3>1
      <4> QED BY <4>1, <4>2, <4>3 DEF Less
    <3>2. CASE k < i
      <4>1. k \in DOMAIN s \cap DOMAIN u
        BY <1>1, <3>2
      <4>2. s[k] < u[k]
        <5>1. k \in 1 .. i - 1
          BY <1>1, <3>2
        <5>2. s[k] = t[k]
          BY <5>1
        <5> QED BY <5>2
      <4>3. \A j \in 1 .. k - 1 : s[j] = u[j]
        BY <1>1, <3>2
      <4> QED BY <4>1, <4>2, <4>3 DEF Less
    <3> QED BY <3>1, <3>2, <1>1
  <2>2. CASE Len(t) < Len(u) /\ \A j \in DOMAIN t : t[j] = u[j]
    <3>1. i \in DOMAIN s \cap DOMAIN u /\ s[i] < u[i]
      BY <1>1, <2>2
    <3>2. \A j \in 1 .. i - 1 : s[j] = u[j]
      BY <1>1, <2>2
    <3> QED BY <3>1, <3>2 DEF Less
  <2> QED BY <2>1, <2>2 DEF Less
<1>3. CASE Len(s) < Len(t) /\ \A j \in DOMAIN s : s[j] = t[j]
  <2>1. CASE \E k \in DOMAIN t \cap DOMAIN u :
               t[k] < u[k] /\ \A j \in 1 .. k - 1 : t[j] = u[j]
    <3> PICK k \in DOMAIN t \cap DOMAIN u :
               t[k] < u[k] /\ \A j \in 1 .. k - 1 : t[j] = u[j]
      BY <2>1
    <3>1. CASE k <= Len(s)
      <4>1. k \in DOMAIN s \cap DOMAIN u /\ s[k] < u[k]
        BY <1>1, <1>3, <3>1
      <4>2. \A j \in 1 .. k - 1 : s[j] = u[j]
        BY <1>1, <1>3, <3>1
      <4> QED BY <4>1, <4>2 DEF Less
    <3>2. CASE k > Len(s)
      <4>1. Len(s) < Len(u)
        BY <1>1, <3>2
      <4>2. \A j \in DOMAIN s : s[j] = u[j]
        <5> SUFFICES ASSUME NEW j \in DOMAIN s PROVE s[j] = u[j]
          OBVIOUS
        <5>1. j \in 1 .. k - 1
          BY <1>1, <3>2
        <5>2. t[j] = u[j]
          BY <5>1
        <5>3. s[j] = t[j]
          BY <1>3
        <5> QED BY <5>2, <5>3
      <4> QED BY <4>1, <4>2 DEF Less
    <3> QED BY <3>1, <3>2, <1>1
  <2>2. CASE Len(t) < Len(u) /\ \A j \in DOMAIN t : t[j] = u[j]
    <3>1. Len(s) < Len(u) /\ \A j \in DOMAIN s : s[j] = u[j]
      BY <1>1, <1>3, <2>2
    <3> QED BY <3>1 DEF Less
  <2> QED BY <2>1, <2>2 DEF Less
<1> QED BY <1>2, <1>3 DEF Less

Place == [colony: Text, name: Text]

\* (colony, name) is a strict order: no place is behind itself, and what is
\* behind a place is behind every earlier one. A tour of pages therefore never
\* comes back to a place.
THEOREM BeforeIsStrict ==
  ASSUME NEW a \in Place, NEW b \in Place, NEW d \in Place
  PROVE  /\ ~Before(a, a)
         /\ Before(a, b) /\ Before(b, d) => Before(a, d)
<1>1. /\ a.colony \in Text /\ b.colony \in Text /\ d.colony \in Text
      /\ a.name \in Text /\ b.name \in Text /\ d.name \in Text
  BY DEF Place
<1>2. ~Before(a, a)
  BY <1>1, LessIrreflexive DEF Before
<1>3. ASSUME Before(a, b), Before(b, d)
      PROVE  Before(a, d)
  <2>1. CASE Less(a.colony, b.colony) /\ Less(b.colony, d.colony)
    <3>1. Less(a.colony, d.colony)
      BY <1>1, <2>1, LessTransitive
    <3> QED BY <3>1 DEF Before
  <2>2. CASE Less(a.colony, b.colony) /\ b.colony = d.colony
    BY <2>2 DEF Before
  <2>3. CASE a.colony = b.colony /\ Less(b.colony, d.colony)
    BY <2>3 DEF Before
  <2>4. CASE /\ a.colony = b.colony /\ b.colony = d.colony
             /\ Less(a.name, b.name) /\ Less(b.name, d.name)
    <3>1. Less(a.name, d.name)
      BY <1>1, <2>4, LessTransitive
    <3> QED BY <2>4, <3>1 DEF Before
  <2> QED BY <1>3, <2>1, <2>2, <2>3, <2>4 DEF Before
<1> QED BY <1>2, <1>3

\* The token of the last place of a page (postgres.go:214-219) lets through what
\* is behind that place and nothing else: neither that place nor any before it.
THEOREM TokenGoesOnBehind ==
  ASSUME NEW last \in Place, NEW a \in Place
  PROVE  /\ After(EncodePageToken(last.colony, last.name), a) <=> Before(last, a)
         /\ ~After(EncodePageToken(last.colony, last.name), last)
         /\ Before(a, last) => ~After(EncodePageToken(last.colony, last.name), a)
<1> DEFINE token == EncodePageToken(last.colony, last.name)
<1>1. last.colony \in Text /\ last.name \in Text
      /\ last = [colony |-> last.colony, name |-> last.name]
  BY DEF Place
<1>2. token # <<>> /\ DecodePageToken(token) = last
  BY <1>1, TokenRoundTrip
<1> HIDE DEF token
<1>3. \A p \in Place : After(token, p) <=> Before(last, p)
  BY <1>2 DEF After
<1>4. ~Before(last, last)
  BY BeforeIsStrict
<1>5. Before(a, last) => ~Before(last, a)
  <2>1. Before(a, last) /\ Before(last, a) => Before(a, a)
    BY BeforeIsStrict
  <2>2. ~Before(a, a)
    BY BeforeIsStrict
  <2> QED BY <2>1, <2>2
<1> QED BY <1>3, <1>4, <1>5 DEF token

-----------------------------------------------------------------------------
(* Listing a set in an order. The order is a set of pairs.                 *)

RankIn(R, S, a) == Cardinality({b \in S : <<b, a>> \in R})

Orders(R, S) ==
  /\ \A a \in S : <<a, a>> \notin R
  /\ \A a, b, d \in S : <<a, b>> \in R /\ <<b, d>> \in R => <<a, d>> \in R
  /\ \A a, b \in S : a = b \/ <<a, b>> \in R \/ <<b, a>> \in R

\* What is before something has fewer before it.
LEMMA RankInGrows ==
  ASSUME NEW S, IsFiniteSet(S), NEW R, Orders(R, S), NEW a \in S
  PROVE  /\ RankIn(R, S, a) \in Nat /\ RankIn(R, S, a) < Cardinality(S)
         /\ \A b \in S : <<b, a>> \in R => RankIn(R, S, b) < RankIn(R, S, a)
<1> DEFINE B(x) == {b \in S : <<b, x>> \in R}
<1>1. \A x \in S : IsFiniteSet(B(x)) /\ Cardinality(B(x)) \in Nat
  <2> SUFFICES ASSUME NEW x \in S PROVE IsFiniteSet(B(x)) /\ Cardinality(B(x)) \in Nat
    OBVIOUS
  <2>1. B(x) \in SUBSET S
    OBVIOUS
  <2> QED
    BY <2>1, FS_Subset, FS_CardinalityType
<1>2. Cardinality(B(a)) < Cardinality(S)
  <2>1. B(a) \in SUBSET S /\ a \notin B(a)
    BY DEF Orders
  <2>2. Cardinality(B(a)) <= Cardinality(S) /\ (Cardinality(S) = Cardinality(B(a)) => S = B(a))
    BY <2>1, FS_Subset
  <2>3. Cardinality(S) \in Nat
    BY FS_CardinalityType
  <2> HIDE DEF B
  <2> QED
    BY <1>1, <2>1, <2>2, <2>3
<1>3. ASSUME NEW b \in S, <<b, a>> \in R PROVE Cardinality(B(b)) < Cardinality(B(a))
  <2>1. B(b) \in SUBSET B(a) /\ b \in B(a) /\ b \notin B(b)
    BY <1>3 DEF Orders
  <2>2. /\ Cardinality(B(b)) <= Cardinality(B(a))
        /\ Cardinality(B(a)) = Cardinality(B(b)) => B(a) = B(b)
    BY <1>1, <2>1, FS_Subset
  <2> HIDE DEF B
  <2> QED
    BY <1>1, <2>1, <2>2
<1> QED
  BY <1>1, <1>2, <1>3 DEF RankIn

\* A finite set is listed by rank: each of its elements once, in the order.
LEMMA ListedByRank ==
  ASSUME NEW S, IsFiniteSet(S), NEW R, Orders(R, S)
  PROVE  LET f == [n \in 1 .. Cardinality(S) |-> CHOOSE a \in S : RankIn(R, S, a) = n - 1] IN
         /\ Cardinality(S) \in Nat
         /\ f \in [1 .. Cardinality(S) -> S]
         /\ \A a \in S, n \in 1 .. Cardinality(S) : RankIn(R, S, a) = n - 1 <=> f[n] = a
         /\ \A a \in S : \E n \in 1 .. Cardinality(S) : f[n] = a
         /\ \A m, n \in 1 .. Cardinality(S) : m < n => <<f[m], f[n]>> \in R
<1> DEFINE N == Cardinality(S)
           e(n) == CHOOSE a \in S : RankIn(R, S, a) = n - 1
           f == [n \in 1 .. N |-> e(n)]
           g == [a \in S |-> RankIn(R, S, a) + 1]
<1>1. N \in Nat
  BY FS_CardinalityType
<1> HIDE DEF N
<1>2. \A a \in S : RankIn(R, S, a) \in Nat /\ RankIn(R, S, a) + 1 \in 1 .. N
  BY <1>1, RankInGrows DEF N
<1>3. \A a, b \in S : RankIn(R, S, a) = RankIn(R, S, b) => a = b
  <2> SUFFICES ASSUME NEW a \in S, NEW b \in S, a # b
               PROVE  RankIn(R, S, a) # RankIn(R, S, b)
    OBVIOUS
  <2>1. <<a, b>> \in R \/ <<b, a>> \in R
    BY DEF Orders
  <2>2. <<a, b>> \in R => RankIn(R, S, a) < RankIn(R, S, b)
    BY RankInGrows
  <2>3. <<b, a>> \in R => RankIn(R, S, b) < RankIn(R, S, a)
    BY RankInGrows
  <2> QED
    BY <1>2, <2>1, <2>2, <2>3
<1>4. g \in Injection(S, 1 .. N)
  <2>1. g \in [S -> 1 .. N]
    BY <1>2
  <2>2. \A a, b \in S : g[a] = g[b] => a = b
    BY <1>2, <1>3
  <2> HIDE DEF g
  <2> QED
    BY <2>1, <2>2 DEF Injection, IsInjective
<1>5. IsFiniteSet(1 .. N) /\ Cardinality(1 .. N) = N
  BY <1>1, FS_Interval
<1>6. g \in Surjection(S, 1 .. N)
  <2> HIDE DEF g
  <2> QED
    BY <1>4, <1>5, FS_Injection DEF N
<1>7. \A n \in 1 .. N : \E a \in S : RankIn(R, S, a) = n - 1
  <2> SUFFICES ASSUME NEW n \in 1 .. N PROVE \E a \in S : RankIn(R, S, a) = n - 1
    OBVIOUS
  <2>1. PICK a \in S : g[a] = n
    <3> HIDE DEF g
    <3> QED
      BY <1>6 DEF Surjection
  <2> QED
    BY <1>2, <2>1
<1>8. \A n \in 1 .. N : f[n] \in S /\ RankIn(R, S, f[n]) = n - 1
  <2> SUFFICES ASSUME NEW n \in 1 .. N PROVE f[n] \in S /\ RankIn(R, S, f[n]) = n - 1
    OBVIOUS
  <2>1. f[n] = CHOOSE a \in S : RankIn(R, S, a) = n - 1
    OBVIOUS
  <2> HIDE DEF f
  <2> QED
    BY <1>7, <2>1
<1>9. f \in [1 .. N -> S]
  <2>1. \A n \in 1 .. N : e(n) \in S
    BY <1>8
  <2> HIDE DEF e
  <2> QED
    BY <2>1
<1> HIDE DEF f
<1>10. \A a \in S : \E n \in 1 .. N : f[n] = a
  <2> SUFFICES ASSUME NEW a \in S PROVE \E n \in 1 .. N : f[n] = a
    OBVIOUS
  <2>1. PICK n \in 1 .. N : n = RankIn(R, S, a) + 1
    BY <1>2
  <2>2. f[n] \in S /\ RankIn(R, S, f[n]) = RankIn(R, S, a)
    BY <1>2, <1>8, <2>1
  <2> QED
    BY <1>3, <2>2
<1>11. \A m, n \in 1 .. N : m < n => <<f[m], f[n]>> \in R
  <2> SUFFICES ASSUME NEW m \in 1 .. N, NEW n \in 1 .. N, m < n
               PROVE  <<f[m], f[n]>> \in R
    OBVIOUS
  <2>1. /\ f[m] \in S /\ RankIn(R, S, f[m]) = m - 1
        /\ f[n] \in S /\ RankIn(R, S, f[n]) = n - 1
    BY <1>8
  <2>2. <<f[n], f[m]>> \in R => RankIn(R, S, f[n]) < RankIn(R, S, f[m])
    BY <2>1, RankInGrows
  <2>3. f[m] # f[n]
    BY <1>1, <2>1
  <2>4. <<f[n], f[m]>> \notin R
    BY <1>1, <2>1, <2>2
  <2> QED
    BY <2>1, <2>3, <2>4 DEF Orders
<1>12. \A a \in S, n \in 1 .. N : RankIn(R, S, a) = n - 1 <=> f[n] = a
  BY <1>3, <1>8
<1> QED
  BY <1>1, <1>9, <1>10, <1>11, <1>12 DEF N, f

-----------------------------------------------------------------------------
(* Pages.                                                                  *)

\* A nonempty set of naturals has a least element.
LEMMA LeastPlace ==
  ASSUME NEW S \in SUBSET Nat, S # {}
  PROVE  \E n \in S : \A m \in S : n <= m
<1>1. PICK n \in S : \A m \in S : ~ (<<m, n>> \in OpToRel(<, Nat))
  BY NatLessThanWellFounded, WFMin
<1>2. \A m \in S : ~ (m < n)
  BY <1>1 DEF OpToRel
<1> QED
  BY <1>2

\* Of two different texts one is less.
LEMMA LessTotal ==
  ASSUME NEW s \in Text, NEW t \in Text
  PROVE  s = t \/ Less(s, t) \/ Less(t, s)
<1> DEFINE D == {i \in DOMAIN s \cap DOMAIN t : s[i] # t[i]}
<1>1. /\ \A i \in 1 .. Len(s) : s[i] \in Nat
      /\ \A i \in 1 .. Len(t) : t[i] \in Nat
      /\ Len(s) \in Nat /\ Len(t) \in Nat
      /\ DOMAIN s = 1 .. Len(s) /\ DOMAIN t = 1 .. Len(t)
  BY DEF Text
<1>0. Len(s) \in Nat /\ Len(t) \in Nat
  BY DEF Text
<1>2. CASE D = {}
  <2>1. \A i \in DOMAIN s \cap DOMAIN t : s[i] = t[i]
    BY <1>2
  <2>2. CASE Len(s) = Len(t)
    <3>1. s \in Seq(Nat \ {Sep}) /\ t \in Seq(Nat \ {Sep}) /\ \A i \in 1 .. Len(s) : s[i] = t[i]
      BY <1>1, <2>1, <2>2 DEF Text
    <3> QED
      BY <2>2, <3>1, SeqEqual
  <2>3. CASE Len(s) < Len(t)
    BY <1>1, <2>1, <2>3 DEF Less
  <2>4. CASE Len(t) < Len(s)
    BY <1>1, <2>1, <2>4 DEF Less
  <2>5. Len(s) = Len(t) \/ Len(s) < Len(t) \/ Len(t) < Len(s)
    BY <1>0
  <2> QED
    BY <2>2, <2>3, <2>4, <2>5
<1>3. CASE D # {}
  <2>1. D \in SUBSET Nat
    BY <1>1
  <2>2. PICK i \in D : \A j \in D : i <= j
    BY <1>3, <2>1, LeastPlace
  <2>3. \A j \in 1 .. i - 1 : s[j] = t[j] /\ t[j] = s[j]
    <3> SUFFICES ASSUME NEW j \in 1 .. i - 1, s[j] # t[j] PROVE FALSE
      OBVIOUS
    <3>1. i \in 1 .. Len(s) /\ i \in 1 .. Len(t)
      BY <1>1
    <3>2. j \in 1 .. Len(s) /\ j \in 1 .. Len(t) /\ ~(i <= j)
      BY <1>0, <3>1
    <3>3. j \in D
      BY <1>1, <3>2
    <3> QED
      BY <2>2, <3>2, <3>3
  <2>4. s[i] < t[i] \/ t[i] < s[i]
    BY <1>1
  <2> QED
    BY <2>2, <2>3, <2>4 DEF Less
<1> QED
  BY <1>2, <1>3

\* Things that have a place of their own.
Placed(S) ==
  /\ \A a \in S : a.colony \in Text /\ a.name \in Text
  /\ \A a, b \in S : a.colony = b.colony /\ a.name = b.name => a = b

OrderOf(S) == {p \in S \X S : Before(p[1], p[2])}

PlaceOf(a) == [colony |-> a.colony, name |-> a.name]

LEMMA PlacesOrdered ==
  ASSUME NEW S, Placed(S)
  PROVE  Orders(OrderOf(S), S)
<1>1. \A a, b \in S : <<a, b>> \in OrderOf(S) <=> Before(a, b)
  BY DEF OrderOf
<1>2. \A a \in S : PlaceOf(a) \in Place
  BY DEF PlaceOf, Place, Placed
<1>3. \A a, b \in S : Before(a, b) <=> Before(PlaceOf(a), PlaceOf(b))
  BY DEF Before, PlaceOf
<1>4. \A a \in S : ~Before(a, a)
  BY <1>2, <1>3, BeforeIsStrict
<1>5. \A a, b, d \in S : Before(a, b) /\ Before(b, d) => Before(a, d)
  <2> SUFFICES ASSUME NEW a \in S, NEW b \in S, NEW d \in S, Before(a, b), Before(b, d)
               PROVE  Before(a, d)
    OBVIOUS
  <2>1. Before(PlaceOf(a), PlaceOf(d))
    BY <1>2, <1>3, BeforeIsStrict
  <2> QED
    BY <1>3, <2>1
<1>6. \A a, b \in S : a = b \/ Before(a, b) \/ Before(b, a)
  <2> SUFFICES ASSUME NEW a \in S, NEW b \in S PROVE a = b \/ Before(a, b) \/ Before(b, a)
    OBVIOUS
  <2>1. a.colony \in Text /\ a.name \in Text /\ b.colony \in Text /\ b.name \in Text
    BY DEF Placed
  <2>2. a.colony = b.colony \/ Less(a.colony, b.colony) \/ Less(b.colony, a.colony)
    BY <2>1, LessTotal
  <2>3. a.name = b.name \/ Less(a.name, b.name) \/ Less(b.name, a.name)
    BY <2>1, LessTotal
  <2> QED
    BY <2>2, <2>3 DEF Placed, Before
<1> QED
  BY <1>1, <1>4, <1>5, <1>6 DEF Orders

\* ORDER BY lists every place once.
LEMMA InOrderLists ==
  ASSUME NEW S, IsFiniteSet(S), Placed(S)
  PROVE  /\ InOrder(S) \in Seq(S) /\ Len(InOrder(S)) \in Nat
         /\ \A a \in S : \E n \in 1 .. Len(InOrder(S)) : InOrder(S)[n] = a
         /\ \A m, n \in 1 .. Len(InOrder(S)) : m < n => Before(InOrder(S)[m], InOrder(S)[n])
<1> DEFINE R == OrderOf(S)
           N == Cardinality(S)
           f == [n \in 1 .. N |-> CHOOSE a \in S : RankIn(R, S, a) = n - 1]
<1>1. Orders(R, S)
  BY PlacesOrdered
<1>2. \A a \in S : RankIn(R, S, a) = Cardinality({b \in S : Before(b, a)})
  <2> SUFFICES ASSUME NEW a \in S PROVE RankIn(R, S, a) = Cardinality({b \in S : Before(b, a)})
    OBVIOUS
  <2>1. {b \in S : <<b, a>> \in R} = {b \in S : Before(b, a)}
    BY DEF OrderOf
  <2> QED
    BY <2>1, Zenon DEF RankIn
<1>3. /\ N \in Nat /\ f \in [1 .. N -> S]
      /\ \A a \in S, n \in 1 .. N : RankIn(R, S, a) = n - 1 <=> f[n] = a
      /\ \A a \in S : \E n \in 1 .. N : f[n] = a
      /\ \A m, n \in 1 .. N : m < n => <<f[m], f[n]>> \in R
  BY <1>1, ListedByRank
<1> HIDE DEF f
<1>4. InOrder(S) = f
  <2>1. ASSUME NEW n \in 1 .. N
        PROVE  f[n] = CHOOSE a \in S : Cardinality({b \in S : Before(b, a)}) = n - 1
    <3>1. \A a \in S : Cardinality({b \in S : Before(b, a)}) = n - 1 <=> f[n] = a
      BY <1>2, <1>3
    <3>2. f[n] \in S
      BY <1>3
    <3> QED
      BY <3>1, <3>2
  <2>2. InOrder(S) = [n \in 1 .. N |-> CHOOSE a \in S : Cardinality({b \in S : Before(b, a)}) = n - 1]
    BY DEF InOrder
  <2> QED
    BY <1>3, <2>1, <2>2
<1> HIDE DEF N
<1>5. f \in Seq(S) /\ Len(f) = N
  BY <1>3
<1>6. \A m, n \in 1 .. N : m < n => Before(f[m], f[n])
  BY <1>3 DEF OrderOf
<1> QED
  BY <1>3, <1>4, <1>5, <1>6

\* What is next of S behind a token, in the order of places; its own token is
\* that of its last place and leaves nothing out.
IsPage(S, token, page) ==
  LET A == {a \in S : After(token, a)} IN
  /\ page.items \in Seq(A) /\ page.next \in Seq(Nat)
  /\ \A i, j \in DOMAIN page.items : i < j => Before(page.items[i], page.items[j])
  /\ page.next = <<>> =>
       \A a \in A : \E i \in DOMAIN page.items : page.items[i] = a
  /\ page.next # <<>> =>
       /\ page.items # <<>>
       /\ page.next = EncodePageToken(page.items[Len(page.items)].colony,
                                      page.items[Len(page.items)].name)
       /\ \A a \in A : ~After(page.next, a) =>
            \E i \in DOMAIN page.items : page.items[i] = a

\* A page (postgres.go:205-219) holds what is next behind its token, each place
\* once and in the order of places; and its own token, when it has one, is that
\* of its last place and leaves nothing out: what is behind the one token and
\* not behind the other is on the page, everything when there is no other.
THEOREM PageIsNext ==
  ASSUME NEW S, IsFiniteSet(S), Placed(S), NEW token, NEW n \in Nat \ {0}
  PROVE  IsPage(S, token, PageOf(S, token, n))
<1> DEFINE A == {a \in S : After(token, a)}
           rest == InOrder(A)
           m == IF Len(rest) > n THEN n ELSE Len(rest)
           page == PageOf(S, token, n)
           next == IF Len(rest) > n THEN EncodePageToken(rest[n].colony, rest[n].name)
                   ELSE <<>>
<1>1. /\ A \in SUBSET S /\ IsFiniteSet(A)
      /\ Placed(A)
  <2>1. A \in SUBSET S
    OBVIOUS
  <2> QED
    BY <2>1, FS_Subset DEF Placed
<1>2. page.items = SubSeq(rest, 1, m) /\ page.next = next
  BY DEF PageOf
<1>3. \A a \in A : a.colony \in Text /\ a.name \in Text
  BY <1>1 DEF Placed
<1> HIDE DEF A, page
<1>4. /\ rest \in Seq(A) /\ Len(rest) \in Nat
      /\ \A a \in A : \E i \in 1 .. Len(rest) : rest[i] = a
      /\ \A i, j \in 1 .. Len(rest) : i < j => Before(rest[i], rest[j])
  BY <1>1, InOrderLists
<1> HIDE DEF rest
<1>5. m \in 0 .. Len(rest) /\ m \in Nat
  BY <1>4
<1>6. /\ page.items \in Seq(A) /\ Len(page.items) = m /\ DOMAIN page.items = 1 .. m
      /\ \A i \in 1 .. m : page.items[i] = rest[i] /\ i \in 1 .. Len(rest)
  <2>1. \A i \in 1 .. m : rest[i] \in A
    BY <1>4, <1>5
  <2>2. /\ Len(SubSeq(rest, 1, m)) = m /\ SubSeq(rest, 1, m) \in Seq(A)
        /\ \A i \in 1 .. m : SubSeq(rest, 1, m)[i] = rest[i]
    BY <1>4, <1>5, <2>1
  <2> HIDE DEF m
  <2>3. DOMAIN SubSeq(rest, 1, m) = 1 .. m
    BY <2>2
  <2>4. \A i \in 1 .. m : i \in 1 .. Len(rest)
    BY <1>4, <1>5
  <2> QED
    BY <1>2, <2>2, <2>3, <2>4, Zenon
<1>7. \A i, j \in DOMAIN page.items : i < j => Before(page.items[i], page.items[j])
  BY <1>4, <1>6
<1>8. CASE Len(rest) > n
  <2>1. /\ m = n /\ n \in 1 .. m /\ n \in 1 .. Len(rest)
        /\ page.next = EncodePageToken(rest[n].colony, rest[n].name)
    BY <1>2, <1>4, <1>8
  <2>2. /\ rest[n] \in A /\ rest[n].colony \in Text /\ rest[n].name \in Text
    BY <1>3, <1>4, <2>1
  <2>3. page.next # <<>> /\ page.next \in Seq(Nat)
    BY <2>1, <2>2, TokenRoundTrip, CutOfEncoded
  <2>4. page.items # <<>> /\ page.items[Len(page.items)] = rest[n]
    BY <1>6, <2>1
  <2>5. ASSUME NEW a \in A, ~After(page.next, a)
        PROVE  \E i \in DOMAIN page.items : page.items[i] = a
    <3>1. PICK i \in 1 .. Len(rest) : rest[i] = a
      BY <1>4
    <3>2. CASE i <= n
      BY <1>6, <2>1, <3>1, <3>2
    <3>3. CASE n < i
      <4>1. Before(rest[n], a)
        BY <1>4, <2>1, <3>1, <3>3
      <4>2. /\ PlaceOf(rest[n]) \in Place /\ PlaceOf(a) \in Place
            /\ Before(PlaceOf(rest[n]), PlaceOf(a))
        BY <1>3, <2>2, <4>1 DEF PlaceOf, Place, Before
      <4>3. After(EncodePageToken(PlaceOf(rest[n]).colony, PlaceOf(rest[n]).name), PlaceOf(a))
        BY <4>2, TokenGoesOnBehind
      <4>4. After(page.next, PlaceOf(a))
        BY <2>1, <4>3 DEF PlaceOf
      <4>5. After(page.next, a)
        BY <4>4 DEF After, Before, PlaceOf
      <4> QED
        BY <2>5, <4>5
    <3> QED
      BY <2>1, <3>2, <3>3
  <2> QED
    BY <1>6, <1>7, <2>1, <2>3, <2>4, <2>5 DEF A, page, IsPage
<1>9. CASE ~(Len(rest) > n)
  <2>1. m = Len(rest) /\ page.next = <<>>
    BY <1>2, <1>9
  <2>2. \A a \in A : \E i \in DOMAIN page.items : page.items[i] = a
    BY <1>4, <1>6, <2>1
  <2>3. page.next \in Seq(Nat)
    BY <2>1
  <2> QED
    BY <1>6, <1>7, <2>1, <2>2, <2>3 DEF A, page, IsPage
<1> QED
  BY <1>8, <1>9
=============================================================================
