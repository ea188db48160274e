--------------------------- MODULE MemoryWatchProofs ---------------------------
(***************************************************************************)
(* Proofs about MemoryStore and MemoryWatch, for any number of watchers    *)
(* and followers, any keys, page size, channel and bounds: a client that   *)
(* lists and watches misses nothing below its checkpoint (CheckpointCovers)*)
(* and a follower has a beginning of its run (FollowsInOrder).             *)
(*                                                                         *)
(* The log is written under the mutex and read under it, but sent without, *)
(* so that a message may say less than the store has by the time it is     *)
(* received (Truthful).  The invariant follows the newest version of a     *)
(* resource: it is in the view if it is not above the checkpoint (Held),   *)
(* in the channel up to the cursor (Sent), among what was copied up to the *)
(* last change copied (Copied), and above that it will be in the next      *)
(* copy.  Of a run, what a follower has, what is on its way and what was   *)
(* copied follow one another (FollowerInvariant).                          *)
(***************************************************************************)
EXTENDS MemoryWatch, FiniteSetTheorems, SequenceTheorems, NaturalsInduction,
        WellFoundedInduction, TLAPS

--------------------------------------------------------------------------------
(* What a loop collects.                                                   *)

Rank(I, i) == Cardinality({j \in I : j < i})

(* A place that is before another one has fewer before it.                 *)
LEMMA RankGrows ==
  ASSUME NEW I \in SUBSET Nat, IsFiniteSet(I), NEW i \in I
  PROVE  /\ Rank(I, i) \in Nat /\ Rank(I, i) < Cardinality(I)
         /\ \A j \in I : j < i => Rank(I, j) < Rank(I, i)
<1> DEFINE S(k) == {j \in I : j < k}
<1>1. \A k \in I : IsFiniteSet(S(k)) /\ Cardinality(S(k)) \in Nat
  <2> SUFFICES ASSUME NEW k \in I PROVE IsFiniteSet(S(k)) /\ Cardinality(S(k)) \in Nat
    OBVIOUS
  <2>1. S(k) \in SUBSET I
    OBVIOUS
  <2> QED
    BY <2>1, FS_Subset, FS_CardinalityType
<1>2. Cardinality(S(i)) < Cardinality(I)
  <2>1. S(i) \in SUBSET I /\ i \notin S(i)
    OBVIOUS
  <2>2. Cardinality(S(i)) <= Cardinality(I) /\ (Cardinality(I) = Cardinality(S(i)) => I = S(i))
    BY <2>1, FS_Subset
  <2>3. Cardinality(I) \in Nat
    BY FS_CardinalityType
  <2> HIDE DEF S
  <2> QED
    BY <1>1, <2>1, <2>2, <2>3
<1>3. ASSUME NEW j \in I, j < i PROVE Cardinality(S(j)) < Cardinality(S(i))
  <2>1. S(j) \in SUBSET S(i) /\ j \in S(i) /\ j \notin S(j)
    <3>1. \A x \in I : x \in Nat
      OBVIOUS
    <3>2. \A x \in I : x < j => x < i
      BY <1>3, <3>1
    <3>3. ~(j < j)
      BY <3>1
    <3> QED
      BY <1>3, <3>2, <3>3
  <2>2. /\ Cardinality(S(j)) <= Cardinality(S(i))
        /\ Cardinality(S(i)) = Cardinality(S(j)) => S(i) = S(j)
    BY <1>1, <2>1, FS_Subset
  <2>3. Cardinality(S(i)) \in Nat /\ Cardinality(S(j)) \in Nat
    BY <1>1
  <2>4. S(j) # S(i)
    BY <2>1
  <2> HIDE DEF S
  <2> QED
    BY <2>2, <2>3, <2>4
<1> QED
  BY <1>1, <1>2, <1>3 DEF Rank

(* Every rank is that of one place.                                        *)
LEMMA PlaceHasRank ==
  ASSUME NEW I \in SUBSET Nat, IsFiniteSet(I)
  PROVE  /\ Cardinality(I) \in Nat
         /\ \A n \in 1 .. Cardinality(I) : Place(I, n) \in I /\ Rank(I, Place(I, n)) = n - 1
         /\ \A i \in I : /\ Rank(I, i) + 1 \in 1 .. Cardinality(I)
                         /\ Place(I, Rank(I, i) + 1) = i
         /\ \A m, n \in 1 .. Cardinality(I) : m < n => Place(I, m) < Place(I, n)
<1> DEFINE N == Cardinality(I)
           f == [i \in I |-> Rank(I, i) + 1]
<1>1. N \in Nat
  BY FS_CardinalityType
<1> HIDE DEF N
<1>2. \A i \in I : Rank(I, i) \in Nat /\ Rank(I, i) + 1 \in 1 .. N
  BY <1>1, RankGrows DEF N
<1>3. \A i, j \in I : Rank(I, i) = Rank(I, j) => i = j
  <2> SUFFICES ASSUME NEW i \in I, NEW j \in I, i # j PROVE Rank(I, i) # Rank(I, j)
    OBVIOUS
  <2>1. i < j \/ j < i
    OBVIOUS
  <2>2. i < j => Rank(I, i) < Rank(I, j)
    BY RankGrows
  <2>3. j < i => Rank(I, j) < Rank(I, i)
    BY RankGrows
  <2> QED
    BY <1>2, <2>1, <2>2, <2>3
<1>4. f \in Injection(I, 1 .. N)
  <2>1. f \in [I -> 1 .. N]
    BY <1>2
  <2>2. \A i, j \in I : f[i] = f[j] => i = j
    BY <1>2, <1>3
  <2> HIDE DEF f
  <2> QED
    BY <2>1, <2>2 DEF Injection, IsInjective
<1>5. IsFiniteSet(1 .. N) /\ Cardinality(1 .. N) = N
  BY <1>1, FS_Interval
<1>6. f \in Surjection(I, 1 .. N)
  <2> HIDE DEF f
  <2> QED
    BY <1>4, <1>5, FS_Injection DEF N
<1>7. \A n \in 1 .. N : \E i \in I : Rank(I, i) = n - 1
  <2> SUFFICES ASSUME NEW n \in 1 .. N PROVE \E i \in I : Rank(I, i) = n - 1
    OBVIOUS
  <2>1. PICK i \in I : f[i] = n
    <3> HIDE DEF f
    <3> QED
      BY <1>6 DEF Surjection
  <2> QED
    BY <1>2, <2>1
<1>8. \A n \in 1 .. N : Place(I, n) \in I /\ Rank(I, Place(I, n)) = n - 1
  <2> SUFFICES ASSUME NEW n \in 1 .. N
               PROVE  Place(I, n) \in I /\ Rank(I, Place(I, n)) = n - 1
    OBVIOUS
  <2>1. Place(I, n) = CHOOSE i \in I : Rank(I, i) = n - 1
    BY DEF Place, Rank
  <2> QED
    BY <1>7, <2>1
<1>9. \A i \in I : Place(I, Rank(I, i) + 1) = i
  <2> SUFFICES ASSUME NEW i \in I PROVE Place(I, Rank(I, i) + 1) = i
    OBVIOUS
  <2>1. PICK n \in 1 .. N : n = Rank(I, i) + 1
    BY <1>2
  <2>2. Place(I, n) \in I /\ Rank(I, Place(I, n)) = Rank(I, i)
    BY <1>2, <1>8, <2>1
  <2> QED
    BY <1>3, <2>1, <2>2
<1>10. \A m, n \in 1 .. N : m < n => Place(I, m) < Place(I, n)
  <2> SUFFICES ASSUME NEW m \in 1 .. N, NEW n \in 1 .. N, m < n
               PROVE  Place(I, m) < Place(I, n)
    OBVIOUS
  <2>1. PICK i \in I, j \in I : /\ i = Place(I, m) /\ Rank(I, i) = m - 1
                                /\ j = Place(I, n) /\ Rank(I, j) = n - 1
    BY <1>8
  <2>2. j < i => Rank(I, j) < Rank(I, i)
    BY RankGrows
  <2>3. i # j /\ ~(j < i)
    BY <2>1, <2>2
  <2> QED
    BY <2>1, <2>3
<1> QED
  BY <1>1, <1>2, <1>8, <1>9, <1>10 DEF N

(* Places listed in order are the places there are.                        *)
LEMMA PlacesInOrder ==
  ASSUME NEW I \in SUBSET Nat, NEW N \in Nat, NEW f \in [1 .. N -> I],
         \A m, n \in 1 .. N : m < n => f[m] < f[n],
         \A i \in I : \E n \in 1 .. N : f[n] = i
  PROVE  /\ IsFiniteSet(I) /\ Cardinality(I) = N
         /\ \A n \in 1 .. N : Place(I, n) = f[n]
<1>1. ASSUME NEW n \in 0 .. N
      PROVE  /\ IsFiniteSet({f[m] : m \in 1 .. n})
             /\ Cardinality({f[m] : m \in 1 .. n}) = n
  <2> DEFINE J == {f[m] : m \in 1 .. n}
             g == [m \in 1 .. n |-> f[m]]
  <2>1. g \in [1 .. n -> J]
    OBVIOUS
  <2>2. \A l, m \in 1 .. n : g[l] = g[m] => l = m
    <3> SUFFICES ASSUME NEW l \in 1 .. n, NEW m \in 1 .. n, l # m PROVE g[l] # g[m]
      OBVIOUS
    <3>1. l \in 1 .. N /\ m \in 1 .. N /\ (l < m \/ m < l)
      OBVIOUS
    <3>2. f[l] \in Nat /\ f[m] \in Nat
      BY <3>1
    <3>3. f[l] < f[m] \/ f[m] < f[l]
      BY <3>1
    <3> QED
      BY <3>2, <3>3
  <2>3. \A j \in J : \E m \in 1 .. n : g[m] = j
    OBVIOUS
  <2> HIDE DEF g, J
  <2>4. g \in Bijection(1 .. n, J)
    BY <2>1, <2>2, <2>3 DEF Bijection, Injection, Surjection, IsInjective
  <2>5. IsFiniteSet(1 .. n) /\ Cardinality(1 .. n) = n
    BY FS_Interval
  <2> QED
    BY <2>4, <2>5, FS_Bijection DEF ExistsBijection, J
<1>2. I = {f[m] : m \in 1 .. N}
  OBVIOUS
<1>3. IsFiniteSet(I) /\ Cardinality(I) = N
  <2>1. N \in 0 .. N
    OBVIOUS
  <2> QED
    BY <1>1, <1>2, <2>1, Zenon
<1>4. ASSUME NEW n \in 1 .. N PROVE Place(I, n) = f[n]
  <2>1. {j \in I : j < f[n]} = {f[m] : m \in 1 .. n - 1}
    <3>1. ASSUME NEW j \in I, j < f[n] PROVE \E m \in 1 .. n - 1 : j = f[m]
      <4>1. PICK m \in 1 .. N : f[m] = j
        OBVIOUS
      <4>2. ~(n < m) /\ n # m
        <5>1. f[n] \in Nat /\ j \in Nat
          OBVIOUS
        <5> QED
          BY <3>1, <4>1, <5>1
      <4>3. m \in 1 .. n - 1
        BY <4>2
      <4> QED
        BY <4>1, <4>3
    <3>2. ASSUME NEW m \in 1 .. n - 1 PROVE f[m] \in I /\ f[m] < f[n]
      <4>1. m \in 1 .. N /\ m < n
        OBVIOUS
      <4> QED
        BY <4>1
    <3> QED
      BY <3>1, <3>2
  <2>2. n - 1 \in 0 .. N
    OBVIOUS
  <2>3. Rank(I, f[n]) = n - 1
    BY <1>1, <2>1, <2>2 DEF Rank
  <2>4. f[n] \in I /\ (n - 1) + 1 = n
    OBVIOUS
  <2>5. Place(I, Rank(I, f[n]) + 1) = f[n]
    BY <1>3, <2>4, PlaceHasRank
  <2> QED
    BY <2>3, <2>4, <2>5
<1> QED
  BY <1>3, <1>4

(* A loop over a sequence collects a sequence of its elements, in order.   *)
LEMMA CollectedIsSequence ==
  ASSUME NEW T, NEW s \in Seq(T), NEW I \in SUBSET (1 .. Len(s))
  PROVE  /\ IsFiniteSet(I) /\ Cardinality(I) \in Nat
         /\ Collected(s, I) \in Seq(T) /\ Len(Collected(s, I)) = Cardinality(I)
         /\ \A n \in 1 .. Cardinality(I) :
              Place(I, n) \in I /\ Collected(s, I)[n] = s[Place(I, n)]
         /\ \A m, n \in 1 .. Cardinality(I) : m < n => Place(I, m) < Place(I, n)
         /\ \A i \in I : \E n \in 1 .. Cardinality(I) : Place(I, n) = i
<1>1. Len(s) \in Nat /\ \A i \in 1 .. Len(s) : s[i] \in T
  OBVIOUS
<1>2. I \in SUBSET Nat /\ IsFiniteSet(I)
  <2>1. I \in SUBSET Nat /\ \A i \in I : i <= Len(s)
    BY <1>1
  <2> QED
    BY <1>1, <2>1, FS_BoundedSetOfNaturals
<1>3. /\ Cardinality(I) \in Nat
      /\ \A n \in 1 .. Cardinality(I) : Place(I, n) \in I
      /\ \A m, n \in 1 .. Cardinality(I) : m < n => Place(I, m) < Place(I, n)
      /\ \A i \in I : \E n \in 1 .. Cardinality(I) : Place(I, n) = i
  BY <1>2, PlaceHasRank
<1>4. \A n \in 1 .. Cardinality(I) : s[Place(I, n)] \in T
  BY <1>1, <1>3
<1>5. Collected(s, I) \in [1 .. Cardinality(I) -> T]
  BY <1>4 DEF Collected
<1>6. Collected(s, I) \in Seq(T) /\ Len(Collected(s, I)) = Cardinality(I)
  BY <1>3, <1>5, SeqDef
<1>7. \A n \in 1 .. Cardinality(I) : Collected(s, I)[n] = s[Place(I, n)]
  BY DEF Collected
<1> QED
  BY <1>2, <1>3, <1>6, <1>7

(* A loop over a sequence that has grown by one element.                   *)
LEMMA CollectedGrows ==
  ASSUME NEW T, NEW s \in Seq(T), NEW e \in T, NEW I \in SUBSET (1 .. Len(s))
  PROVE  /\ Collected(Append(s, e), I) = Collected(s, I)
         /\ Collected(Append(s, e), I \cup {Len(s) + 1}) = Append(Collected(s, I), e)
<1> DEFINE t == Append(s, e)
           N == Cardinality(I)
           J == I \cup {Len(s) + 1}
           f == [n \in 1 .. N + 1 |-> IF n = N + 1 THEN Len(s) + 1 ELSE Place(I, n)]
<1>1. /\ t \in Seq(T) /\ Len(s) \in Nat /\ Len(t) = Len(s) + 1
      /\ \A i \in 1 .. Len(s) : t[i] = s[i]
      /\ t[Len(s) + 1] = e
  BY AppendProperties
<1>2. /\ N \in Nat /\ Collected(s, I) \in Seq(T) /\ Len(Collected(s, I)) = N
      /\ \A n \in 1 .. N : Place(I, n) \in I /\ Collected(s, I)[n] = s[Place(I, n)]
      /\ \A m, n \in 1 .. N : m < n => Place(I, m) < Place(I, n)
      /\ \A i \in I : \E n \in 1 .. N : Place(I, n) = i
  BY CollectedIsSequence
<1> HIDE DEF t, N
<1>3. Collected(t, I) = Collected(s, I)
  <2>1. \A n \in 1 .. N : t[Place(I, n)] = s[Place(I, n)]
    BY <1>1, <1>2
  <2> QED
    BY <2>1 DEF Collected, N
<1>4. J \in SUBSET (1 .. Len(t))
  <2>1. \A i \in 1 .. Len(s) : i \in 1 .. Len(t)
    BY <1>1
  <2>2. Len(s) + 1 \in 1 .. Len(t)
    BY <1>1
  <2> QED
    BY <2>1, <2>2
<1>5. f \in [1 .. N + 1 -> J]
  BY <1>1, <1>2
<1>6. \A m, n \in 1 .. N + 1 : m < n => f[m] < f[n]
  <2> SUFFICES ASSUME NEW m \in 1 .. N + 1, NEW n \in 1 .. N + 1, m < n PROVE f[m] < f[n]
    OBVIOUS
  <2>1. m \in 1 .. N /\ f[m] = Place(I, m) /\ f[m] \in 1 .. Len(s)
    <3>1. m \in 1 .. N /\ m # N + 1
      BY <1>2
    <3>2. Place(I, m) \in I
      BY <1>2, <3>1
    <3> QED
      BY <3>1, <3>2
  <2>2. CASE n = N + 1
    BY <1>1, <2>1, <2>2
  <2>3. CASE n # N + 1
    BY <1>2, <2>1, <2>3
  <2> QED
    BY <2>2, <2>3
<1>7. \A i \in J : \E n \in 1 .. N + 1 : f[n] = i
  <2>1. N + 1 \in 1 .. N + 1 /\ f[N + 1] = Len(s) + 1
    BY <1>2
  <2>2. \A n \in 1 .. N : n \in 1 .. N + 1 /\ f[n] = Place(I, n)
    BY <1>2
  <2> HIDE DEF f
  <2> SUFFICES ASSUME NEW i \in J PROVE \E n \in 1 .. N + 1 : f[n] = i
    OBVIOUS
  <2>3. CASE i \in I
    <3>1. PICK n \in 1 .. N : Place(I, n) = i
      BY <1>2, <2>3
    <3> QED
      BY <2>2, <3>1
  <2>4. CASE i = Len(s) + 1
    BY <2>1, <2>4
  <2> QED
    BY <2>3, <2>4
<1>8. J \in SUBSET Nat /\ N + 1 \in Nat
  BY <1>1, <1>2, <1>4
<1> HIDE DEF f, J
<1>9. Cardinality(J) = N + 1 /\ \A n \in 1 .. N + 1 : Place(J, n) = f[n]
  BY <1>5, <1>6, <1>7, <1>8, PlacesInOrder
<1>10. /\ Collected(t, J) \in Seq(T) /\ Len(Collected(t, J)) = N + 1
       /\ \A n \in 1 .. N + 1 : Collected(t, J)[n] = t[f[n]]
  BY <1>1, <1>4, <1>9, CollectedIsSequence
<1>11. /\ Append(Collected(s, I), e) \in Seq(T) /\ Len(Append(Collected(s, I), e)) = N + 1
       /\ \A n \in 1 .. N : Append(Collected(s, I), e)[n] = s[Place(I, n)]
       /\ Append(Collected(s, I), e)[N + 1] = e
  BY <1>2, AppendProperties
<1>12. \A n \in 1 .. N + 1 : Collected(t, J)[n] = Append(Collected(s, I), e)[n]
  <2> SUFFICES ASSUME NEW n \in 1 .. N + 1
               PROVE  t[f[n]] = Append(Collected(s, I), e)[n]
    BY <1>10
  <2>1. CASE n = N + 1
    BY <1>1, <1>11, <2>1 DEF f
  <2>2. CASE n # N + 1
    <3>1. n \in 1 .. N /\ f[n] = Place(I, n)
      BY <1>2, <2>2 DEF f
    <3>2. Place(I, n) \in 1 .. Len(s)
      <4>1. Place(I, n) \in I
        BY <1>2, <3>1
      <4> QED
        BY <4>1
    <3> QED
      BY <1>1, <1>11, <3>1, <3>2
  <2> QED
    BY <2>1, <2>2
<1>13. Collected(t, J) = Append(Collected(s, I), e)
  BY <1>10, <1>11, <1>12, SeqEqual
<1> QED
  BY <1>3, <1>13 DEF t, J

(* A loop that passes over the first k elements another one collects.      *)
LEMMA CollectedBehind ==
  ASSUME NEW T, NEW s \in Seq(T), NEW I \in SUBSET (1 .. Len(s)), NEW J \in SUBSET I,
         NEW k \in 0 .. Cardinality(I),
         \A n \in 1 .. Cardinality(I) : Place(I, n) \in J <=> k < n
  PROVE  /\ Collected(s, J) \in Seq(T)
         /\ Len(Collected(s, J)) = Cardinality(I) - k
         /\ \A m \in 1 .. Cardinality(I) - k : Collected(s, J)[m] = Collected(s, I)[k + m]
<1> DEFINE N == Cardinality(I)
           f == [m \in 1 .. N - k |-> Place(I, k + m)]
<1>1. /\ N \in Nat
      /\ \A n \in 1 .. N : Place(I, n) \in I /\ Collected(s, I)[n] = s[Place(I, n)]
      /\ \A m, n \in 1 .. N : m < n => Place(I, m) < Place(I, n)
      /\ \A i \in I : \E n \in 1 .. N : Place(I, n) = i
  BY CollectedIsSequence
<1> HIDE DEF N
<1>2. k \in 0 .. N /\ \A n \in 1 .. N : Place(I, n) \in J <=> k < n
  BY DEF N
<1>3. N - k \in Nat /\ \A m \in 1 .. N - k : k + m \in 1 .. N /\ k < k + m
  BY <1>1, <1>2
<1>4. f \in [1 .. N - k -> J]
  BY <1>2, <1>3
<1>5. \A m, n \in 1 .. N - k : m < n => f[m] < f[n]
  <2> SUFFICES ASSUME NEW m \in 1 .. N - k, NEW n \in 1 .. N - k, m < n PROVE f[m] < f[n]
    OBVIOUS
  <2>1. k + m \in 1 .. N /\ k + n \in 1 .. N /\ k + m < k + n
    BY <1>2, <1>3
  <2>2. f[m] = Place(I, k + m) /\ f[n] = Place(I, k + n)
    OBVIOUS
  <2> HIDE DEF f
  <2> QED
    BY <1>1, <2>1, <2>2
<1>6. \A i \in J : \E m \in 1 .. N - k : f[m] = i
  <2> SUFFICES ASSUME NEW i \in J PROVE \E m \in 1 .. N - k : f[m] = i
    OBVIOUS
  <2>1. PICK n \in 1 .. N : Place(I, n) = i
    BY <1>1
  <2>2. k < n
    BY <1>2, <2>1
  <2>3. n - k \in 1 .. N - k /\ k + (n - k) = n
    BY <1>1, <1>2, <2>2
  <2>4. f[n - k] = i
    BY <2>1, <2>3
  <2> QED
    BY <2>3, <2>4
<1>7. J \in SUBSET Nat /\ J \in SUBSET (1 .. Len(s))
  OBVIOUS
<1> HIDE DEF f
<1>8. Cardinality(J) = N - k /\ \A m \in 1 .. N - k : Place(J, m) = f[m]
  BY <1>3, <1>4, <1>5, <1>6, <1>7, PlacesInOrder
<1>9. /\ Collected(s, J) \in Seq(T) /\ Len(Collected(s, J)) = N - k
      /\ \A m \in 1 .. N - k : Collected(s, J)[m] = s[f[m]]
  BY <1>7, <1>8, CollectedIsSequence
<1>10. \A m \in 1 .. N - k : s[f[m]] = Collected(s, I)[k + m]
  BY <1>1, <1>3 DEF f
<1> QED
  BY <1>9, <1>10 DEF N

--------------------------------------------------------------------------------
(* The store.                                                              *)

(* What is logged is there.                                                *)
LogGrounded == \A i \in DOMAIN log : 0 < log[i].rv /\ resources[log[i].key] # Nil

(* Events are in version order, and those of a run are numbered from 1.    *)
EventsNumbered ==
  /\ \A i, j \in DOMAIN events : i < j => events[i].rv < events[j].rv
  /\ \A i \in DOMAIN events : 0 < events[i].rv /\ events[i].rv <= seq
  /\ \A r \in Runs :
       /\ Len(EventsOf(r)) = eventSeq[r]
       /\ \A n \in 1 .. Len(EventsOf(r)) : EventsOf(r)[n].seq = n

StoreInvariant == TypeOK /\ LogTellsVersions /\ LogGrounded /\ EventsNumbered

EventsAt(r) == {i \in DOMAIN events : events[i].run = r}

(* Types, one by one.                                                      *)
LEMMA StoreTypes ==
  ASSUME TypeOK
  PROVE  /\ seq \in Nat
         /\ resources \in [Keys -> Row \cup {Nil}]
         /\ \A row \in Row : row.rv \in Nat /\ row # Nil
         /\ log \in Seq(Entry) /\ Len(log) \in Nat /\ DOMAIN log = 1 .. Len(log)
         /\ \A i \in 1 .. Len(log) : log[i] \in Entry /\ log[i].key \in Keys /\ log[i].rv \in Nat
         /\ events \in Seq(Event) /\ Len(events) \in Nat /\ DOMAIN events = 1 .. Len(events)
         /\ \A e \in Event : e.run \in Runs /\ e.seq \in Nat /\ e.rv \in Nat
         /\ \A i \in 1 .. Len(events) : events[i] \in Event
         /\ eventSeq \in [Runs -> Nat]
<1>1. \A row \in Row : row.rv \in Nat /\ row # Nil
  BY NilAssumption DEF Row
<1>2. \A e \in Entry : e.key \in Keys /\ e.rv \in Nat
  BY DEF Entry
<1>3. \A e \in Event : e.run \in Runs /\ e.seq \in Nat /\ e.rv \in Nat
  BY DEF Event
<1>4. log \in Seq(Entry) /\ events \in Seq(Event)
  BY DEF TypeOK
<1>5. /\ Len(log) \in Nat /\ DOMAIN log = 1 .. Len(log)
      /\ \A i \in 1 .. Len(log) : log[i] \in Entry
      /\ Len(events) \in Nat /\ DOMAIN events = 1 .. Len(events)
      /\ \A i \in 1 .. Len(events) : events[i] \in Event
  BY <1>4
<1> QED
  BY <1>1, <1>2, <1>3, <1>4, <1>5 DEF TypeOK

(* A resource's version is the newest one logged of it.                    *)
LEMMA NewestLogged ==
  ASSUME StoreInvariant, NEW k \in Keys, resources[k] # Nil
  PROVE  /\ resources[k] \in Row /\ resources[k].rv \in Nat
         /\ 0 < resources[k].rv /\ resources[k].rv <= seq
         /\ \E i \in 1 .. Len(log) : log[i].key = k /\ log[i].rv = resources[k].rv
         /\ \A i \in 1 .. Len(log) : log[i].key = k => log[i].rv <= resources[k].rv
<1> USE DEF StoreInvariant
<1>1. resources[k] \in Row /\ resources[k].rv \in Nat
  BY StoreTypes
<1>2. PICK i \in 1 .. Len(log) :
        /\ log[i].key = k /\ log[i].rv = resources[k].rv
        /\ \A j \in 1 .. Len(log) : log[j].key = k => j <= i
  BY StoreTypes DEF LogTellsVersions
<1>3. 0 < resources[k].rv /\ resources[k].rv <= seq
  BY <1>2, StoreTypes DEF LogTellsVersions, LogGrounded
<1>4. ASSUME NEW j \in 1 .. Len(log), log[j].key = k
      PROVE  log[j].rv <= resources[k].rv
  <2>1. j <= i
    BY <1>2, <1>4
  <2>2. j < i => log[j].rv < log[i].rv
    BY StoreTypes DEF LogTellsVersions
  <2>3. log[j].rv \in Nat /\ log[i].rv \in Nat
    BY StoreTypes
  <2> QED
    BY <1>2, <2>1, <2>2, <2>3
<1> QED
  BY <1>1, <1>2, <1>3, <1>4

(* A run's events.                                                         *)
LEMMA RunsEvents ==
  ASSUME TypeOK, NEW r
  PROVE  /\ EventsAt(r) \in SUBSET (1 .. Len(events))
         /\ EventsOf(r) = Collected(events, EventsAt(r))
         /\ EventsOf(r) \in Seq(Event) /\ Len(EventsOf(r)) = Cardinality(EventsAt(r))
         /\ Len(EventsOf(r)) \in Nat
         /\ \A n \in 1 .. Len(EventsOf(r)) :
              /\ Place(EventsAt(r), n) \in EventsAt(r)
              /\ EventsOf(r)[n] = events[Place(EventsAt(r), n)]
              /\ EventsOf(r)[n].run = r
         /\ \A m, n \in 1 .. Len(EventsOf(r)) :
              m < n => Place(EventsAt(r), m) < Place(EventsAt(r), n)
<1>1. EventsAt(r) \in SUBSET (1 .. Len(events)) /\ events \in Seq(Event)
  BY StoreTypes DEF EventsAt
<1>2. EventsOf(r) = Collected(events, EventsAt(r))
  BY DEF EventsOf, EventsAt
<1>3. /\ Cardinality(EventsAt(r)) \in Nat
      /\ EventsOf(r) \in Seq(Event) /\ Len(EventsOf(r)) = Cardinality(EventsAt(r))
      /\ \A n \in 1 .. Len(EventsOf(r)) :
           /\ Place(EventsAt(r), n) \in EventsAt(r)
           /\ EventsOf(r)[n] = events[Place(EventsAt(r), n)]
      /\ \A m, n \in 1 .. Len(EventsOf(r)) :
           m < n => Place(EventsAt(r), m) < Place(EventsAt(r), n)
  BY <1>1, <1>2, CollectedIsSequence
<1>4. \A n \in 1 .. Len(EventsOf(r)) : EventsOf(r)[n].run = r
  BY <1>3 DEF EventsAt
<1> QED
  BY <1>1, <1>2, <1>3, <1>4

(* The steps of the store, by what they do to it.                          *)
Logged(k, row) ==
  /\ row \in Row /\ row.rv = seq + 1
  /\ resources' = [resources EXCEPT ![k] = row]
  /\ seq' = seq + 1
  /\ log' = Append(log, [key |-> k, rv |-> seq + 1])
  /\ UNCHANGED <<events, eventSeq>>

(* row is what the store has of k, but for a status its handler sends.     *)
Agrees(k, row) ==
  /\ resources[k] # Nil /\ row \in Row
  /\ row.spec = resources[k].spec /\ row.meta = resources[k].meta
  /\ row.gen = resources[k].gen /\ row.rv = resources[k].rv
  /\ SentStatus[k] = Nil => row = resources[k]

Restated(k, row) ==
  /\ Agrees(k, row)
  /\ resources' = [resources EXCEPT ![k] = row]
  /\ UNCHANGED <<seq, log, events, eventSeq>>

LEMMA StoreSteps ==
  ASSUME TypeOK, [Next]_memoryVars
  PROVE  \/ UNCHANGED memoryVars
         \/ \E k \in Keys, row \in Row : Logged(k, row) \/ Restated(k, row)
         \/ \E r \in Runs : AppendEvent(r)
<1>1. ASSUME NEW k \in Keys, NEW s \in Specs, NEW m \in Metas, NEW ifRV \in 1 .. seq \cup {Nil},
             Apply(k, s, m, ifRV)
      PROVE  \E row \in Row : Logged(k, row) \/ Restated(k, row)
  <2> DEFINE row == Stored(k, s, m)
             old == resources[k]
  <2>1. seq \in Nat /\ old \in Row \cup {Nil} /\ SentStatus[k] \in Statuses \cup {Nil}
    BY StoreTypes, SentAssumption
  <2>2. resources' = [resources EXCEPT ![k] = row] /\ UNCHANGED <<events, eventSeq>>
    BY <1>1 DEF Apply
  <2>3. CASE old = Nil
    <3>1. row = [spec |-> s, meta |-> m, status |-> SentStatus[k], gen |-> 1, rv |-> seq + 1]
      BY <2>3 DEF Stored
    <3>2. row \in Row /\ row.rv = seq + 1
      BY <2>1, <3>1 DEF Row
    <3>3. Changed(k, s, m)
      BY <2>3 DEF Changed
    <3>4. seq' = seq + 1 /\ log' = Append(log, [key |-> k, rv |-> seq + 1])
      BY <1>1, <3>3 DEF Apply
    <3> QED
      BY <2>2, <3>2, <3>4 DEF Logged
  <2>4. CASE old # Nil
    <3>1. /\ row.spec = s /\ row.meta = m
          /\ row.status = IF SentStatus[k] = Nil THEN old.status ELSE SentStatus[k]
          /\ row.gen = IF old.spec = s THEN old.gen ELSE old.gen + 1
          /\ row.rv = IF Changed(k, s, m) THEN seq + 1 ELSE old.rv
      BY <2>4 DEF Stored
    <3>2. old \in Row /\ old.gen \in Nat /\ old.rv \in Nat /\ old.status \in Statuses \cup {Nil}
      BY <2>1, <2>4 DEF Row
    <3>3. row \in Row
      <4>1. row = [spec |-> s, meta |-> m, status |-> row.status, gen |-> row.gen,
                   rv |-> row.rv]
        BY <2>4 DEF Stored
      <4>2. row.status \in Statuses \cup {Nil} /\ row.gen \in Nat /\ row.rv \in Nat
        BY <2>1, <3>1, <3>2
      <4> HIDE DEF row
      <4> QED
        BY <4>1, <4>2 DEF Row
    <3>4. CASE Changed(k, s, m)
      <4>1. seq' = seq + 1 /\ log' = Append(log, [key |-> k, rv |-> seq + 1])
        BY <1>1, <3>4 DEF Apply
      <4> QED
        BY <2>2, <3>1, <3>3, <3>4, <4>1 DEF Logged
    <3>5. CASE ~Changed(k, s, m)
      <4>1. UNCHANGED <<seq, log>>
        BY <1>1, <3>5 DEF Apply
      <4>2. old.spec = s /\ old.meta = m /\ row.rv = old.rv /\ row.gen = old.gen
        BY <2>4, <3>1, <3>5 DEF Changed
      <4>3. ASSUME SentStatus[k] = Nil PROVE row = old
        <5>1. /\ row.spec = old.spec /\ row.meta = old.meta /\ row.status = old.status
              /\ row.gen = old.gen /\ row.rv = old.rv
          BY <3>1, <4>2, <4>3
        <5> HIDE DEF row, old
        <5> QED
          BY <3>2, <3>3, <5>1 DEF Row
      <4> QED
        BY <2>2, <2>4, <3>1, <3>3, <4>1, <4>2, <4>3 DEF Restated, Agrees
    <3> QED
      BY <3>4, <3>5
  <2> QED
    BY <2>3, <2>4
<1>2. ASSUME NEW k \in Keys, NEW st \in Statuses, ApplyStatus(k, st)
      PROVE  \E row \in Row : Logged(k, row)
  <2> DEFINE row == [resources[k] EXCEPT !.status = st, !.rv = seq + 1]
  <2>1. seq \in Nat /\ resources \in [Keys -> Row \cup {Nil}] /\ resources[k] \in Row
    BY <1>2, StoreTypes DEF ApplyStatus
  <2>2. row \in Row /\ row.rv = seq + 1
    <3>1. ASSUME NEW old \in Row, NEW n \in Nat
          PROVE  LET new == [old EXCEPT !.status = st, !.rv = n] IN new \in Row /\ new.rv = n
      BY DEF Row
    <3>2. seq + 1 \in Nat
      BY <2>1
    <3> QED
      BY <2>1, <3>1, <3>2
  <2>3. resources' = [resources EXCEPT ![k] = row]
    <3>1. resources' = [resources EXCEPT ![k].status = st, ![k].rv = seq + 1]
      BY <1>2 DEF ApplyStatus
    <3>2. /\ DOMAIN resources = Keys /\ DOMAIN resources' = Keys
          /\ resources' = [j \in Keys |-> resources'[j]]
      BY <2>1, <3>1
    <3>3. \A j \in Keys \ {k} : resources'[j] = resources[j]
      BY <2>1, <3>1
    <3>4. resources'[k] = row
      BY <2>1, <3>1
    <3> HIDE DEF row
    <3> QED
      BY <3>2, <3>3, <3>4
  <2> QED
    BY <1>2, <2>2, <2>3 DEF ApplyStatus, Logged
<1> QED
  BY <1>1, <1>2 DEF Next

(* A change that is logged.                                                *)
LEMMA LoggedKeeps ==
  ASSUME StoreInvariant, NEW k \in Keys, NEW row \in Row, Logged(k, row)
  PROVE  StoreInvariant'
<1> USE DEF StoreInvariant
<1> DEFINE N == Len(log)
           new == [key |-> k, rv |-> seq + 1]
<1>1. /\ N \in Nat /\ DOMAIN log = 1 .. N /\ seq \in Nat /\ row # Nil
      /\ \A i \in 1 .. N : log[i].key \in Keys /\ log[i].rv \in Nat
      /\ log \in Seq(Entry) /\ new \in Entry
      /\ resources \in [Keys -> Row \cup {Nil}]
  BY StoreTypes DEF Entry
<1>2. /\ log' \in Seq(Entry) /\ DOMAIN log' = 1 .. N + 1
      /\ \A i \in 1 .. N : log'[i] = log[i]
      /\ log'[N + 1] = new
  BY <1>1, AppendProperties DEF Logged
<1>3. seq' = seq + 1 /\ resources' = [resources EXCEPT ![k] = row] /\ row.rv = seq + 1
  BY DEF Logged
<1>4. resources'[k] = row /\ \A j \in Keys \ {k} : resources'[j] = resources[j]
  BY <1>1, <1>3
<1>5. \A i \in 1 .. N : log[i].rv <= seq
  BY <1>1 DEF LogTellsVersions
<1>6. TypeOK'
  <2>1. resources' \in [Keys -> Row \cup {Nil}] /\ seq' \in Nat
    BY <1>1, <1>3
  <2> QED
    BY <1>2, <2>1 DEF Logged, TypeOK
<1>7. LogTellsVersions'
  <2>1. ASSUME NEW i \in 1 .. N + 1, NEW j \in 1 .. N + 1, i < j
        PROVE  log'[i].rv < log'[j].rv
    <3>1. i \in 1 .. N /\ log'[i] = log[i]
      BY <1>1, <1>2, <2>1
    <3>2. CASE j = N + 1
      BY <1>1, <1>2, <1>5, <3>1, <3>2
    <3>3. CASE j # N + 1
      <4>1. j \in 1 .. N /\ log'[j] = log[j]
        BY <1>1, <1>2, <3>3
      <4> QED
        BY <1>1, <2>1, <3>1, <4>1 DEF LogTellsVersions
    <3> QED
      BY <3>2, <3>3
  <2>2. ASSUME NEW i \in 1 .. N + 1
        PROVE  log'[i].rv <= seq'
    <3>1. CASE i = N + 1
      BY <1>1, <1>2, <1>3, <3>1
    <3>2. CASE i # N + 1
      <4>1. i \in 1 .. N
        BY <1>1, <3>2
      <4> QED
        BY <1>1, <1>2, <1>3, <1>5, <4>1
    <3> QED
      BY <3>1, <3>2
  <2>3. ASSUME NEW j \in Keys, resources'[j] # Nil
        PROVE  \E i \in 1 .. N + 1 :
                 /\ log'[i].key = j /\ log'[i].rv = resources'[j].rv
                 /\ \A l \in 1 .. N + 1 : log'[l].key = j => l <= i
    <3>1. CASE j = k
      <4>1. N + 1 \in 1 .. N + 1 /\ \A l \in 1 .. N + 1 : l <= N + 1
        BY <1>1
      <4> QED
        BY <1>2, <1>3, <1>4, <3>1, <4>1
    <3>2. CASE j # k
      <4>1. resources'[j] = resources[j]
        BY <1>4, <3>2
      <4>2. PICK i \in 1 .. N :
              /\ log[i].key = j /\ log[i].rv = resources[j].rv
              /\ \A l \in 1 .. N : log[l].key = j => l <= i
        BY <1>1, <2>3, <4>1 DEF LogTellsVersions
      <4>3. i \in 1 .. N + 1 /\ log'[i] = log[i]
        BY <1>1, <1>2
      <4>4. ASSUME NEW l \in 1 .. N + 1, log'[l].key = j PROVE l <= i
        <5>1. l # N + 1
          BY <1>2, <3>2, <4>4
        <5>2. l \in 1 .. N
          <6>1. N \in Nat
            BY <1>1
          <6> HIDE DEF N
          <6> QED
            BY <5>1, <6>1
        <5> QED
          BY <1>2, <4>2, <4>4, <5>2
      <4>5. log'[i].key = j /\ log'[i].rv = resources'[j].rv
        BY <4>1, <4>2, <4>3
      <4> QED
        BY <4>3, <4>4, <4>5
    <3> QED
      BY <3>1, <3>2
  <2> QED
    BY <1>2, <2>1, <2>2, <2>3 DEF LogTellsVersions
<1>8. LogGrounded'
  <2> SUFFICES ASSUME NEW i \in 1 .. N + 1
               PROVE  0 < log'[i].rv /\ resources'[log'[i].key] # Nil
    BY <1>2 DEF LogGrounded
  <2>1. CASE i = N + 1
    BY <1>1, <1>2, <1>4, <2>1
  <2>2. CASE i # N + 1
    <3>1. i \in 1 .. N /\ log'[i] = log[i]
      BY <1>1, <1>2, <2>2
    <3>2. 0 < log[i].rv /\ log[i].key \in Keys /\ resources[log[i].key] # Nil
      BY <1>1, <3>1 DEF LogGrounded
    <3> QED
      BY <1>1, <1>4, <3>1, <3>2
  <2> QED
    BY <2>1, <2>2
<1>9. EventsNumbered'
  <2>1. UNCHANGED <<events, eventSeq>> /\ \A r : EventsOf(r)' = EventsOf(r)
    BY DEF Logged, EventsOf
  <2>2. \A i \in 1 .. Len(events) : events[i].rv \in Nat /\ events[i].rv <= seq'
    BY <1>1, <1>3, StoreTypes DEF EventsNumbered
  <2> QED
    BY <2>1, <2>2, StoreTypes DEF EventsNumbered
<1> QED
  BY <1>6, <1>7, <1>8, <1>9

(* A status stored without a version: nothing else sees it.                *)
LEMMA RestatedKeeps ==
  ASSUME StoreInvariant, NEW k \in Keys, NEW row \in Row, Restated(k, row)
  PROVE  StoreInvariant'
<1> USE DEF StoreInvariant
<1>1. /\ resources \in [Keys -> Row \cup {Nil}] /\ row # Nil
      /\ resources' = [resources EXCEPT ![k] = row]
      /\ row.rv = resources[k].rv /\ resources[k] # Nil
      /\ UNCHANGED <<seq, log, events, eventSeq>>
      /\ \A r : EventsOf(r)' = EventsOf(r)
  BY StoreTypes DEF Restated, Agrees, EventsOf
<1>2. \A j \in Keys : /\ resources'[j] = Nil <=> resources[j] = Nil
                      /\ resources'[j].rv = resources[j].rv
  BY <1>1
<1>3. TypeOK'
  BY <1>1 DEF TypeOK
<1>4. LogTellsVersions'
  BY <1>1, <1>2 DEF LogTellsVersions
<1>5. LogGrounded'
  BY <1>1, <1>2, StoreTypes DEF LogGrounded
<1>6. EventsNumbered'
  BY <1>1 DEF EventsNumbered
<1> QED
  BY <1>3, <1>4, <1>5, <1>6

(* An event of one run, behind the others.                                 *)
NewEvent(r) == [run |-> r, seq |-> eventSeq[r] + 1, rv |-> seq + 1]

LEMMA RunsGrow ==
  ASSUME TypeOK, NEW r \in Runs, AppendEvent(r)
  PROVE  /\ NewEvent(r) \in Event
         /\ EventsOf(r)' = Append(EventsOf(r), NewEvent(r))
         /\ \A q \in Runs \ {r} : EventsOf(q)' = EventsOf(q)
<1> DEFINE N == Len(events)
<1>1. N \in Nat /\ events \in Seq(Event) /\ NewEvent(r) \in Event /\ DOMAIN events = 1 .. N
  BY StoreTypes DEF NewEvent, Event
<1>2. events' = Append(events, NewEvent(r))
  BY DEF AppendEvent, NewEvent
<1>3. /\ DOMAIN events' = 1 .. N + 1
      /\ \A i \in 1 .. N : events'[i] = events[i]
      /\ events'[N + 1] = NewEvent(r)
  BY <1>1, <1>2, AppendProperties
<1>4. EventsAt(r)' = EventsAt(r) \cup {N + 1}
  <2>1. NewEvent(r).run = r
    BY DEF NewEvent
  <2>2. \A i : i \in 1 .. N + 1 <=> i \in 1 .. N \/ i = N + 1
    BY <1>1
  <2> QED
    BY <1>1, <1>3, <2>1, <2>2 DEF EventsAt
<1>5. \A q \in Runs \ {r} : EventsAt(q)' = EventsAt(q)
  <2>1. NewEvent(r).run = r
    BY DEF NewEvent
  <2>2. \A i : i \in 1 .. N + 1 <=> i \in 1 .. N \/ i = N + 1
    BY <1>1
  <2> QED
    BY <1>1, <1>3, <2>1, <2>2 DEF EventsAt
<1>6. \A q : EventsAt(q) \in SUBSET (1 .. N) /\ EventsOf(q) = Collected(events, EventsAt(q))
  BY <1>1 DEF EventsAt, EventsOf
<1>7. \A q : EventsOf(q)' = Collected(events', EventsAt(q)')
  BY DEF EventsAt, EventsOf
<1>8. EventsOf(r)' = Append(EventsOf(r), NewEvent(r))
  BY <1>1, <1>2, <1>4, <1>6, <1>7, CollectedGrows
<1>9. \A q \in Runs \ {r} : EventsOf(q)' = EventsOf(q)
  <2> SUFFICES ASSUME NEW q \in Runs \ {r} PROVE EventsOf(q)' = EventsOf(q)
    OBVIOUS
  <2>1. EventsAt(q)' = EventsAt(q) /\ EventsAt(q) \in SUBSET (1 .. N)
    BY <1>5, <1>6
  <2>2. Collected(Append(events, NewEvent(r)), EventsAt(q)) = Collected(events, EventsAt(q))
    <3>1. events \in Seq(Event) /\ NewEvent(r) \in Event /\ EventsAt(q) \in SUBSET (1 .. Len(events))
      BY <1>1, <2>1
    <3> QED
      BY <3>1, CollectedGrows, ZenonT(60)
  <2>3. EventsOf(q)' = Collected(events', EventsAt(q)')
    BY DEF EventsAt, EventsOf
  <2> QED
    BY <1>2, <1>6, <2>1, <2>2, <2>3
<1> QED
  BY <1>1, <1>8, <1>9

LEMMA AppendEventKeeps ==
  ASSUME StoreInvariant, NEW r \in Runs, AppendEvent(r)
  PROVE  StoreInvariant'
<1> USE DEF StoreInvariant
<1> DEFINE N == Len(events)
<1>1. /\ N \in Nat /\ DOMAIN events = 1 .. N /\ seq \in Nat /\ eventSeq \in [Runs -> Nat]
      /\ events \in Seq(Event) /\ NewEvent(r) \in Event
      /\ \A i \in 1 .. N : events[i].rv \in Nat /\ 0 < events[i].rv /\ events[i].rv <= seq
  BY StoreTypes DEF EventsNumbered, NewEvent, Event
<1>2. /\ seq' = seq + 1 /\ UNCHANGED <<resources, log>>
      /\ eventSeq' = [eventSeq EXCEPT ![r] = eventSeq[r] + 1]
      /\ events' = Append(events, NewEvent(r))
  BY DEF AppendEvent, NewEvent
<1>3. /\ events' \in Seq(Event) /\ DOMAIN events' = 1 .. N + 1
      /\ \A i \in 1 .. N : events'[i] = events[i]
      /\ events'[N + 1] = NewEvent(r) /\ NewEvent(r).rv = seq + 1
  BY <1>1, <1>2, AppendProperties DEF NewEvent
<1>4. TypeOK'
  <2>1. seq' \in Nat /\ eventSeq' \in [Runs -> Nat]
    BY <1>1, <1>2
  <2> QED
    BY <1>2, <1>3, <2>1 DEF TypeOK
<1>5. LogTellsVersions' /\ LogGrounded'
  <2>1. ASSUME NEW i \in 1 .. Len(log) PROVE log[i].rv <= seq'
    <3>1. log[i].rv <= seq /\ log[i].rv \in Nat
      BY StoreTypes DEF LogTellsVersions
    <3> QED
      BY <1>1, <1>2, <3>1
  <2>2. DOMAIN log = 1 .. Len(log) /\ log' = log /\ resources' = resources
    BY <1>2, StoreTypes
  <2> QED
    BY <2>1, <2>2 DEF LogTellsVersions, LogGrounded
<1>6. EventsNumbered'
  <2>1. ASSUME NEW i \in 1 .. N + 1
        PROVE  0 < events'[i].rv /\ events'[i].rv <= seq'
    <3>1. CASE i = N + 1
      BY <1>1, <1>2, <1>3, <3>1
    <3>2. CASE i # N + 1
      <4>1. i \in 1 .. N
        BY <1>1, <3>2
      <4> QED
        BY <1>1, <1>2, <1>3, <4>1
    <3> QED
      BY <3>1, <3>2
  <2>2. ASSUME NEW i \in 1 .. N + 1, NEW j \in 1 .. N + 1, i < j
        PROVE  events'[i].rv < events'[j].rv
    <3>1. i \in 1 .. N /\ events'[i] = events[i]
      BY <1>1, <1>3, <2>2
    <3>2. CASE j = N + 1
      BY <1>1, <1>3, <3>1, <3>2
    <3>3. CASE j # N + 1
      <4>1. j \in 1 .. N /\ events'[j] = events[j]
        BY <1>1, <1>3, <3>3
      <4> QED
        BY <1>1, <2>2, <3>1, <4>1 DEF EventsNumbered
    <3> QED
      BY <3>2, <3>3
  <2>3. ASSUME NEW q \in Runs
        PROVE  /\ Len(EventsOf(q)') = eventSeq'[q]
               /\ \A n \in 1 .. Len(EventsOf(q)') : EventsOf(q)'[n].seq = n
    <3>1. EventsOf(q) \in Seq(Event) /\ Len(EventsOf(q)) = eventSeq[q] /\ eventSeq[q] \in Nat
      BY <1>1, RunsEvents DEF EventsNumbered
    <3>2. \A n \in 1 .. Len(EventsOf(q)) : EventsOf(q)[n].seq = n
      BY DEF EventsNumbered
    <3>3. CASE q = r
      <4>1. /\ EventsOf(q)' = Append(EventsOf(q), NewEvent(r)) /\ NewEvent(r) \in Event
            /\ eventSeq'[q] = eventSeq[q] + 1 /\ NewEvent(r).seq = eventSeq[q] + 1
        BY <1>1, <1>2, <3>3, RunsGrow DEF NewEvent
      <4>2. /\ Len(EventsOf(q)') = eventSeq[q] + 1
            /\ \A n \in 1 .. eventSeq[q] : EventsOf(q)'[n] = EventsOf(q)[n]
            /\ EventsOf(q)'[eventSeq[q] + 1] = NewEvent(r)
        BY <3>1, <4>1, AppendProperties
      <4>3. \A n \in 1 .. eventSeq[q] + 1 : n \in 1 .. eventSeq[q] \/ n = eventSeq[q] + 1
        BY <3>1
      <4> QED
        BY <3>1, <3>2, <4>1, <4>2, <4>3
    <3>4. CASE q # r
      BY <1>1, <1>2, <3>1, <3>2, <3>4, RunsGrow
    <3> QED
      BY <3>3, <3>4
  <2> QED
    BY <1>3, <2>1, <2>2, <2>3 DEF EventsNumbered
<1> QED
  BY <1>4, <1>5, <1>6

LEMMA StoreInvariantKept ==
  ASSUME StoreInvariant, [Next]_memoryVars
  PROVE  StoreInvariant'
<1>1. CASE UNCHANGED memoryVars
  BY <1>1 DEF StoreInvariant, memoryVars, TypeOK, LogTellsVersions, LogGrounded,
     EventsNumbered, EventsOf
<1> QED
  BY <1>1, StoreSteps, LoggedKeeps, RestatedKeeps, AppendEventKeeps DEF StoreInvariant

LEMMA StoreInvariantStarts == Init => StoreInvariant
<1> SUFFICES ASSUME Init PROVE StoreInvariant
  OBVIOUS
<1>1. TypeOK
  BY DEF Init, TypeOK
<1>2. \A r : Len(EventsOf(r)) = 0
  <2> SUFFICES ASSUME NEW r PROVE Len(EventsOf(r)) = 0
    OBVIOUS
  <2>1. EventsAt(r) = {}
    BY DEF Init, EventsAt
  <2> QED
    BY <1>1, <2>1, RunsEvents, FS_EmptySet
<1>3. LogTellsVersions /\ LogGrounded
  BY DEF Init, LogTellsVersions, LogGrounded
<1>4. EventsNumbered
  BY <1>2 DEF Init, EventsNumbered
<1> QED
  BY <1>1, <1>3, <1>4 DEF StoreInvariant

(* What a step does to a resource, and to a run.                           *)
LEMMA StoreMoves ==
  ASSUME StoreInvariant, [Next]_memoryVars
  PROVE  /\ seq \in Nat /\ seq' \in Nat /\ seq <= seq'
         /\ \A k \in Keys : resources[k] # Nil => resources'[k] # Nil
         /\ \A k \in Keys : resources'[k] # Nil =>
              \/ seq < resources'[k].rv
              \/ /\ resources[k] # Nil /\ resources'[k].rv = resources[k].rv
                 /\ \A row : Agrees(k, row) => Agrees(k, row)'
<1> USE DEF StoreInvariant
<1>1. CASE UNCHANGED memoryVars
  BY <1>1, StoreTypes DEF memoryVars, Agrees
<1>2. ASSUME NEW r \in Runs, AppendEvent(r) PROVE UNCHANGED resources /\ seq' = seq + 1
  BY <1>2 DEF AppendEvent
<1>3. CASE UNCHANGED resources /\ seq' = seq + 1
  BY <1>3, StoreTypes DEF Agrees
<1>4. \A j \in Keys : resources'[j] = resources[j] => \A row : Agrees(j, row) => Agrees(j, row)'
  BY DEF Agrees
<1>5. ASSUME NEW k \in Keys, NEW row \in Row, Logged(k, row)
      PROVE  /\ seq' = seq + 1
             /\ \A j \in Keys : \/ j = k /\ resources'[j] = row /\ row # Nil /\ row.rv = seq + 1
                                \/ resources'[j] = resources[j]
  BY <1>5, StoreTypes DEF Logged
<1>6. CASE \E k \in Keys, row \in Row : Logged(k, row)
  <2>1. seq' = seq + 1 /\ seq \in Nat
    BY <1>5, <1>6, StoreTypes
  <2>2. \A j \in Keys : \/ resources'[j] # Nil /\ resources'[j].rv = seq + 1
                        \/ resources'[j] = resources[j]
    BY <1>5, <1>6
  <2>3. seq < seq + 1
    BY <2>1
  <2> QED
    BY <1>4, <2>1, <2>2, <2>3
<1>7. CASE \E k \in Keys, row \in Row : Restated(k, row)
  <2>1. PICK k \in Keys, row \in Row : Restated(k, row)
    BY <1>7
  <2>2. /\ seq' = seq /\ resources'[k] = row /\ Agrees(k, row) /\ seq \in Nat
        /\ \A j \in Keys \ {k} : resources'[j] = resources[j]
    BY <2>1, StoreTypes DEF Restated
  <2>3. /\ resources'[k] # Nil /\ resources'[k].rv = resources[k].rv
        /\ \A other : Agrees(k, other) => Agrees(k, other)'
    BY <2>2, StoreTypes DEF Agrees
  <2>4. resources[k] # Nil
    BY <2>2 DEF Agrees
  <2>5. ASSUME NEW j \in Keys, j # k
        PROVE  /\ resources'[j] = resources[j]
               /\ \A other : Agrees(j, other) => Agrees(j, other)'
    BY <1>4, <2>2, <2>5
  <2>6. seq <= seq'
    BY <2>2
  <2> QED
    BY <2>2, <2>3, <2>4, <2>5, <2>6
<1> QED
  BY <1>1, <1>2, <1>3, <1>6, <1>7, StoreSteps

LEMMA VersionsAfter ==
  ASSUME StoreInvariant, [Next]_memoryVars, NEW k \in Keys, resources'[k] # Nil
  PROVE  resources'[k].rv \in Nat
<1>1. resources' \in [Keys -> Row \cup {Nil}]
  BY StoreInvariantKept DEF StoreInvariant, TypeOK
<1>2. resources'[k] \in Row
  BY <1>1
<1> QED
  BY <1>2 DEF Row

LEMMA RunsOnlyGrow ==
  ASSUME StoreInvariant, [Next]_memoryVars, NEW r \in Runs
  PROVE  /\ Len(EventsOf(r)) \in Nat /\ Len(EventsOf(r)') \in Nat
         /\ Len(EventsOf(r)) <= Len(EventsOf(r)')
         /\ \A n \in 1 .. Len(EventsOf(r)) : EventsOf(r)'[n] = EventsOf(r)[n]
<1> USE DEF StoreInvariant
<1>1. EventsOf(r) \in Seq(Event) /\ Len(EventsOf(r)) \in Nat
  BY RunsEvents
<1>2. CASE events' = events
  BY <1>1, <1>2 DEF EventsOf
<1>3. ASSUME NEW q \in Runs, AppendEvent(q)
      PROVE  \/ EventsOf(r)' = EventsOf(r)
             \/ EventsOf(r)' = Append(EventsOf(r), NewEvent(q)) /\ NewEvent(q) \in Event
  BY <1>3, RunsGrow
<1>4. ASSUME EventsOf(r)' = EventsOf(r)
      PROVE  /\ Len(EventsOf(r)') = Len(EventsOf(r))
             /\ \A n \in 1 .. Len(EventsOf(r)) : EventsOf(r)'[n] = EventsOf(r)[n]
  BY <1>1, <1>4
<1>5. ASSUME NEW q \in Runs,
             EventsOf(r)' = Append(EventsOf(r), NewEvent(q)), NewEvent(q) \in Event
      PROVE  /\ Len(EventsOf(r)') = Len(EventsOf(r)) + 1
             /\ \A n \in 1 .. Len(EventsOf(r)) : EventsOf(r)'[n] = EventsOf(r)[n]
  BY <1>1, <1>5, AppendProperties
<1> QED
  <2>1. events' = events \/ \E q \in Runs : AppendEvent(q)
    BY StoreSteps DEF Logged, Restated, memoryVars
  <2>2. CASE EventsOf(r)' = EventsOf(r)
    BY <1>1, <1>4, <2>2
  <2>3. ASSUME NEW q \in Runs,
               EventsOf(r)' = Append(EventsOf(r), NewEvent(q)), NewEvent(q) \in Event
        PROVE  Len(EventsOf(r)') \in Nat /\ Len(EventsOf(r)) <= Len(EventsOf(r)')
    BY <1>1, <1>5, <2>3
  <2> QED
    BY <1>1, <1>2, <1>3, <1>5, <2>1, <2>2, <2>3

--------------------------------------------------------------------------------
(* The streams.                                                            *)

Object  == [key : Keys, rv : Nat, row : Row]
Mark    == [bookmark : Nat]
RvOf(m) == IF IsBookmark(m) THEN m.bookmark ELSE m.rv

(* Watchers are sent objects and bookmarks, followers events.              *)
StreamsTyped ==
  /\ StreamTypeOK
  /\ \A c \in Watchers : due[c] \in Seq(Object) /\ channel[c] \in Seq(Object \cup Mark)
  /\ \A c \in Followers : due[c] \in Seq(Event) /\ channel[c] \in Seq(Event)

(* A message about a change: as new as the store, or older.                *)
Truthful(c, m) ==
  /\ m.key \in Scope[c] /\ resources[m.key] # Nil
  /\ m.rv <= resources[m.key].rv
  /\ m.rv = resources[m.key].rv => Agrees(m.key, m.row)

(* A stream that does not run has nothing on its way.                      *)
Quiet(c) == ~Running(c) => due[c] = <<>> /\ channel[c] = <<>>

Positions(c) ==
  /\ checkpoint[c] <= seq /\ cursor[c] <= seq
  /\ Running(c) => checkpoint[c] <= cursor[c]

(* What was sent: in version order, and each change above all before it.   *)
ChannelAscends(c) ==
  \A i \in 1 .. Len(channel[c]) :
    LET m == channel[c][i] IN
      /\ checkpoint[c] <= RvOf(m) /\ RvOf(m) <= cursor[c]
      /\ ~IsBookmark(m) => Truthful(c, m)
      /\ \A j \in 1 .. i - 1 :
           /\ RvOf(channel[c][j]) <= RvOf(m)
           /\ ~IsBookmark(m) => RvOf(channel[c][j]) < RvOf(m)

(* What is to be sent: above the cursor, in version order.                 *)
DueAscends(c) ==
  \A i \in 1 .. Len(due[c]) :
    /\ cursor[c] < due[c][i].rv /\ due[c][i].rv <= seq
    /\ Truthful(c, due[c][i])
    /\ \A j \in 1 .. i - 1 : due[c][j].rv < due[c][i].rv

(* Where the newest version of k is: in the view once it is not above the  *)
(* checkpoint and its page was listed,                                     *)
PageListed(c, k) == state[c] = "list" => token[c] # Nil /\ k <= token[c]

Held(c, k) ==
  PageListed(c, k) /\ resources[k].rv <= checkpoint[c] => Agrees(k, view[c][k])

(* in the channel up to the cursor,                                        *)
Sent(c, k) ==
  Running(c) /\ checkpoint[c] < resources[k].rv /\ resources[k].rv <= cursor[c] =>
    \E i \in 1 .. Len(channel[c]) :
      /\ ~IsBookmark(channel[c][i])
      /\ channel[c][i].key = k /\ channel[c][i].rv = resources[k].rv

(* and among what was copied unless the whole copy is older.               *)
Copied(c, k) ==
  \A i \in 1 .. Len(due[c]) :
    cursor[c] < resources[k].rv /\ resources[k].rv <= due[c][i].rv =>
      \E j \in 1 .. Len(due[c]) :
        due[c][j].key = k /\ due[c][j].rv = resources[k].rv

WatcherInvariant(c) ==
  /\ Quiet(c)
  /\ Positions(c)
  /\ ChannelAscends(c)
  /\ DueAscends(c)
  /\ \A k \in Scope[c] : resources[k] # Nil =>
       Held(c, k) /\ Sent(c, k) /\ Copied(c, k)

(* A follower's events, those on their way and those copied are one        *)
(* beginning of its run.                                                   *)
FollowerInvariant(c) ==
  LET L == EventsOf(Follows[c])
      n == Len(received[c])
      e == Len(channel[c])
      d == Len(due[c])
  IN  /\ Quiet(c)
      /\ n + e + d <= Len(L)
      /\ \A i \in 1 .. n : received[c][i] = L[i]
      /\ \A i \in 1 .. e : channel[c][i] = L[n + i]
      /\ \A i \in 1 .. d : due[c][i] = L[n + e + i]
      /\ checkpoint[c] = IF n = 0 THEN 0 ELSE L[n].rv
      /\ Running(c) => cursor[c] = IF n + e = 0 THEN 0 ELSE L[n + e].rv

WatchersInvariant  == \A c \in Watchers : WatcherInvariant(c)
FollowersInvariant == \A c \in Followers : FollowerInvariant(c)

(* Types, one by one.                                                      *)
LEMMA StreamTypes ==
  ASSUME StreamsTyped
  PROVE  /\ TypeOK
         /\ state \in [Streams -> States] /\ token \in [Watchers -> Keys \cup {Nil}]
         /\ checkpoint \in [Streams -> Nat] /\ cursor \in [Streams -> Nat]
         /\ view \in [Watchers -> [Keys -> Row \cup {Nil}]]
         /\ received \in [Followers -> Seq(Event)]
         /\ due \in [Streams -> Seq(Message)] /\ channel \in [Streams -> Seq(Message)]
         /\ drops \in Nat
         /\ \A c \in Watchers : due[c] \in Seq(Object) /\ channel[c] \in Seq(Object \cup Mark)
         /\ \A c \in Followers : due[c] \in Seq(Event) /\ channel[c] \in Seq(Event)
BY DEF StreamsTyped, StreamTypeOK

LEMMA MessageTypes ==
  /\ \A m \in Object : ~IsBookmark(m) /\ m.key \in Keys /\ m.rv \in Nat /\ m.row \in Row
  /\ \A m \in Mark : IsBookmark(m) /\ m.bookmark \in Nat
  /\ \A m \in Event : ~IsBookmark(m) /\ m.rv \in Nat
  /\ \A m \in Object \cup Mark \cup Event : RvOf(m) \in Nat
  /\ Object \cup Mark \cup Event = Message
  /\ \A c \in Watchers : c \in Streams /\ c \notin Followers /\ Scope[c] \subseteq Keys
  /\ \A c \in Followers : c \in Streams /\ c \notin Watchers /\ Follows[c] \in Runs
<1>1. \A m \in Object : ~IsBookmark(m) /\ m.key \in Keys /\ m.rv \in Nat /\ m.row \in Row
  BY DEF Object, IsBookmark
<1>2. \A m \in Mark : IsBookmark(m) /\ m.bookmark \in Nat
  BY DEF Mark, IsBookmark
<1>3. \A m \in Event : ~IsBookmark(m) /\ m.rv \in Nat
  BY DEF Event, IsBookmark
<1>4. \A m \in Object \cup Mark \cup Event : RvOf(m) \in Nat
  BY <1>1, <1>2, <1>3 DEF RvOf
<1>5. Object \cup Mark \cup Event = Message
  BY DEF Object, Mark, Message
<1>6. /\ \A c \in Watchers : c \in Streams /\ c \notin Followers /\ Scope[c] \subseteq Keys
      /\ \A c \in Followers : c \in Streams /\ c \notin Watchers /\ Follows[c] \in Runs
  BY MemoryClientsAssumption DEF Streams
<1> QED
  BY <1>1, <1>2, <1>3, <1>4, <1>5, <1>6

(* What a watcher's goroutine copies: every change above its cursor, in    *)
(* version order, each with what the store has of its key.                 *)
LEMMA WhatIsCopied ==
  ASSUME StoreInvariant, StreamsTyped, NEW c \in Watchers
  PROVE  /\ DueObjects(c) \in Seq(Object) /\ Len(DueObjects(c)) \in Nat
         /\ \A i \in 1 .. Len(DueObjects(c)) :
              /\ cursor[c] < DueObjects(c)[i].rv /\ DueObjects(c)[i].rv <= seq
              /\ Truthful(c, DueObjects(c)[i])
              /\ \A j \in 1 .. i - 1 : DueObjects(c)[j].rv < DueObjects(c)[i].rv
         /\ \A k \in Scope[c] : resources[k] # Nil /\ cursor[c] < resources[k].rv =>
              \E j \in 1 .. Len(DueObjects(c)) :
                DueObjects(c)[j].key = k /\ DueObjects(c)[j].rv = resources[k].rv
<1> USE DEF StoreInvariant
<1> DEFINE I == {i \in DOMAIN log : log[i].key \in Scope[c] /\ log[i].rv > cursor[c]}
           N == Cardinality(I)
           D == DueObjects(c)
<1>1. /\ log \in Seq(Entry) /\ I \in SUBSET (1 .. Len(log)) /\ seq \in Nat
      /\ DOMAIN log = 1 .. Len(log) /\ Len(log) \in Nat
      /\ resources \in [Keys -> Row \cup {Nil}]
      /\ \A i \in 1 .. Len(log) : log[i] \in Entry /\ log[i].key \in Keys /\ log[i].rv \in Nat
  BY StoreTypes
<1>2. DueChanges(c) = Collected(log, I)
  BY DEF DueChanges
<1>3. \A i \in I : log[i].key \in Scope[c] /\ log[i].rv > cursor[c] /\ i \in 1 .. Len(log)
  BY <1>1
<1>4. \A i \in 1 .. Len(log) : log[i].key \in Scope[c] /\ log[i].rv > cursor[c] => i \in I
  BY <1>1
<1> HIDE DEF I
<1>5. /\ N \in Nat
      /\ DueChanges(c) \in Seq(Entry) /\ Len(DueChanges(c)) = N
      /\ \A n \in 1 .. N : Place(I, n) \in I /\ DueChanges(c)[n] = log[Place(I, n)]
      /\ \A m, n \in 1 .. N : m < n => Place(I, m) < Place(I, n)
      /\ \A i \in I : \E n \in 1 .. N : Place(I, n) = i
  BY <1>1, <1>2, CollectedIsSequence
<1> HIDE DEF N
<1>6. ASSUME NEW i \in I
      PROVE  /\ log[i].key \in Scope[c] /\ log[i].key \in Keys /\ resources[log[i].key] \in Row
             /\ cursor[c] < log[i].rv /\ log[i].rv <= seq /\ log[i].rv \in Nat
             /\ log[i].rv <= resources[log[i].key].rv
  <2>1. i \in 1 .. Len(log) /\ log[i].key \in Keys /\ log[i].rv \in Nat
    BY <1>1, <1>3
  <2>2. resources[log[i].key] # Nil
    BY <1>1, <2>1 DEF LogGrounded
  <2>3. cursor[c] \in Nat
    BY StreamTypes, MessageTypes
  <2> QED
    BY <1>1, <1>3, <2>1, <2>2, <2>3, NewestLogged DEF LogTellsVersions
<1>7. \A n \in 1 .. N : DueChanges(c)[n] = log[Place(I, n)] /\ Place(I, n) \in I
  BY <1>5
<1>8. DOMAIN DueChanges(c) = 1 .. N
  BY <1>5
<1>9. \A n \in 1 .. N :
        /\ D[n].key = log[Place(I, n)].key /\ D[n].rv = log[Place(I, n)].rv
        /\ D[n].row = resources[log[Place(I, n)].key]
        /\ D[n] \in Object
  BY <1>6, <1>7, <1>8 DEF DueObjects, Object
<1>10. D \in Seq(Object) /\ Len(D) = N
  <2>1. D \in [1 .. N -> Object]
    BY <1>8, <1>9 DEF DueObjects
  <2> HIDE DEF D
  <2> QED
    BY <1>5, <2>1, SeqDef
<1> HIDE DEF D
<1>11. ASSUME NEW n \in 1 .. N
       PROVE  /\ cursor[c] < D[n].rv /\ D[n].rv <= seq
              /\ Truthful(c, D[n])
              /\ \A m \in 1 .. n - 1 : D[m].rv < D[n].rv
  <2> DEFINE i == Place(I, n)
  <2>1. i \in I /\ D[n].key = log[i].key /\ D[n].rv = log[i].rv /\ D[n].row = resources[log[i].key]
    BY <1>7, <1>9
  <2>2. ASSUME NEW m \in 1 .. n - 1 PROVE D[m].rv < D[n].rv
    <3>1. m \in 1 .. N /\ m < n
      BY <1>5
    <3>2. Place(I, m) < i /\ Place(I, m) \in 1 .. Len(log) /\ i \in 1 .. Len(log)
      BY <1>3, <1>5, <3>1
    <3>3. log[Place(I, m)].rv < log[i].rv
      BY <1>1, <3>2 DEF LogTellsVersions
    <3> QED
      BY <1>9, <2>1, <3>1, <3>3
  <2> HIDE DEF i
  <2>3. Truthful(c, D[n])
    BY <1>6, <2>1, NilAssumption DEF Truthful, Agrees
  <2> QED
    BY <1>6, <2>1, <2>2, <2>3
<1>12. ASSUME NEW k \in Scope[c], resources[k] # Nil, cursor[c] < resources[k].rv
       PROVE  \E j \in 1 .. N : D[j].key = k /\ D[j].rv = resources[k].rv
  <2>1. k \in Keys
    BY MessageTypes
  <2>2. PICK i \in 1 .. Len(log) : log[i].key = k /\ log[i].rv = resources[k].rv
    BY <1>12, <2>1, NewestLogged
  <2>3. resources[k].rv > cursor[c]
    BY <1>1, <1>12, <2>2, StreamTypes, MessageTypes
  <2>4. i \in I
    BY <1>4, <1>12, <2>2, <2>3
  <2> QED
    BY <1>5, <1>9, <2>2, <2>4
<1> QED
  BY <1>5, <1>10, <1>11, <1>12 DEF D

(* A run's events are in version order.                                    *)
LEMMA EventsRise ==
  ASSUME StoreInvariant, NEW r \in Runs
  PROVE  /\ \A n \in 1 .. Len(EventsOf(r)) :
              /\ EventsOf(r)[n].seq = n /\ EventsOf(r)[n].rv \in Nat
              /\ 0 < EventsOf(r)[n].rv /\ EventsOf(r)[n].rv <= seq
         /\ \A m, n \in 1 .. Len(EventsOf(r)) :
              m < n => EventsOf(r)[m].rv < EventsOf(r)[n].rv
<1> USE DEF StoreInvariant
<1> DEFINE L == EventsOf(r)
<1>1. /\ \A n \in 1 .. Len(L) : /\ Place(EventsAt(r), n) \in 1 .. Len(events)
                                /\ L[n] = events[Place(EventsAt(r), n)]
      /\ \A m, n \in 1 .. Len(L) : m < n => Place(EventsAt(r), m) < Place(EventsAt(r), n)
  BY RunsEvents
<1>2. /\ \A i, j \in 1 .. Len(events) : i < j => events[i].rv < events[j].rv
      /\ \A i \in 1 .. Len(events) :
           events[i].rv \in Nat /\ 0 < events[i].rv /\ events[i].rv <= seq
  BY StoreTypes DEF EventsNumbered
<1>3. \A n \in 1 .. Len(L) : L[n].seq = n
  BY DEF EventsNumbered
<1> HIDE DEF L
<1> QED
  BY <1>1, <1>2, <1>3 DEF L

(* What a follower is answered, and what its goroutine copies, are events. *)
LEMMA FollowersAreSentEvents ==
  ASSUME StreamsTyped, NEW c \in Followers
  PROVE  /\ Answer(c) \in Seq(Event) /\ Len(Answer(c)) \in Nat /\ Len(Answer(c)) <= PageSize
         /\ DueEvents(c) \in Seq(Event)
<1> DEFINE I == {i \in DOMAIN events :
                   events[i].run = Follows[c] /\ events[i].seq > Len(received[c])}
           J == {i \in DOMAIN events : events[i].run = Follows[c] /\ events[i].rv > cursor[c]}
           new == Collected(events, I)
<1>1. events \in Seq(Event) /\ I \in SUBSET (1 .. Len(events)) /\ J \in SUBSET (1 .. Len(events))
  BY StreamTypes, StoreTypes
<1>2. DueEvents(c) = Collected(events, J)
  BY DEF DueEvents
<1>3. Answer(c) = SubSeq(new, 1, IF Len(new) < PageSize THEN Len(new) ELSE PageSize)
  BY DEF Answer
<1> HIDE DEF I, J
<1>4. new \in Seq(Event) /\ DueEvents(c) \in Seq(Event)
  BY <1>1, <1>2, CollectedIsSequence
<1>5. Len(new) \in Nat /\ PageSize \in Nat \ {0}
  BY <1>4, SizesAssumption
<1> HIDE DEF new
<1>6. Answer(c) \in Seq(Event)
  BY <1>3, <1>4, <1>5
<1>7. Len(Answer(c)) \in Nat /\ Len(Answer(c)) <= PageSize
  BY <1>3, <1>4, <1>5
<1> QED
  BY <1>4, <1>6, <1>7

(* A loop that passes over the first n events of a run.                    *)
LEMMA RunBehind ==
  ASSUME TypeOK, NEW r \in Runs, NEW n \in 0 .. Len(EventsOf(r)), NEW J \in SUBSET EventsAt(r),
         \A m \in 1 .. Len(EventsOf(r)) : Place(EventsAt(r), m) \in J <=> n < m
  PROVE  /\ Collected(events, J) \in Seq(Event)
         /\ Len(Collected(events, J)) = Len(EventsOf(r)) - n
         /\ \A m \in 1 .. Len(EventsOf(r)) - n : Collected(events, J)[m] = EventsOf(r)[n + m]
<1> DEFINE I == EventsAt(r)
<1>1. /\ events \in Seq(Event) /\ I \in SUBSET (1 .. Len(events))
      /\ EventsOf(r) = Collected(events, I) /\ Len(EventsOf(r)) = Cardinality(I)
  BY RunsEvents, StoreTypes
<1>2. /\ J \in SUBSET I /\ n \in 0 .. Cardinality(I)
      /\ \A m \in 1 .. Cardinality(I) : Place(I, m) \in J <=> n < m
  BY <1>1
<1> HIDE DEF I
<1>3. Collected(events, J) \in Seq(Event)
  BY <1>1, <1>2, CollectedIsSequence
<1>4. /\ Len(Collected(events, J)) = Cardinality(I) - n
      /\ \A m \in 1 .. Cardinality(I) - n : Collected(events, J)[m] = Collected(events, I)[n + m]
  BY <1>1, <1>2, CollectedBehind
<1> QED
  BY <1>1, <1>3, <1>4

(* An answer goes on where the follower is.                                *)
LEMMA AnswerContinues ==
  ASSUME StoreInvariant, StreamsTyped, NEW c \in Followers,
         NEW L, L = EventsOf(Follows[c]), NEW n \in 0 .. Len(L), n = Len(received[c])
  PROVE  /\ n + Len(Answer(c)) <= Len(L)
         /\ \A i \in 1 .. Len(Answer(c)) : Answer(c)[i] = L[n + i]
<1> DEFINE r == Follows[c]
           I == EventsAt(r)
           J == {i \in DOMAIN events : events[i].run = Follows[c] /\ events[i].seq > Len(received[c])}
           new == Collected(events, J)
           b == IF Len(new) < PageSize THEN Len(new) ELSE PageSize
<1>1. TypeOK /\ r \in Runs /\ n \in Nat /\ PageSize \in Nat \ {0}
  BY MessageTypes, StreamTypes, SizesAssumption DEF StoreInvariant
<1>2. /\ events \in Seq(Event) /\ I \in SUBSET (1 .. Len(events))
      /\ L = Collected(events, I) /\ Len(L) = Cardinality(I) /\ Len(L) \in Nat
      /\ \A m \in 1 .. Len(L) : Place(I, m) \in I /\ L[m] = events[Place(I, m)]
  BY <1>1, RunsEvents, StoreTypes
<1>3. \A m \in 1 .. Len(L) : L[m].seq = m
  BY <1>1, EventsRise
<1>4. J \in SUBSET I
  BY DEF EventsAt
<1>5. \A i \in I : i \in J <=> events[i].seq > n
  BY DEF EventsAt
<1>6. Answer(c) = SubSeq(new, 1, b)
  BY DEF Answer
<1> HIDE DEF I, J
<1>7. ASSUME NEW m \in 1 .. Len(L) PROVE Place(I, m) \in J <=> n < m
  BY <1>1, <1>2, <1>3, <1>5
<1>8. n \in 0 .. Cardinality(I)
  BY <1>1, <1>2
<1> HIDE DEF b
<1>9. /\ new \in Seq(Event) /\ Len(new) = Len(L) - n
      /\ \A m \in 1 .. Len(L) - n : new[m] = L[n + m]
  <2>1. J \in SUBSET EventsAt(r) /\ n \in 0 .. Len(EventsOf(r))
    BY <1>4 DEF I
  <2>2. \A m \in 1 .. Len(EventsOf(r)) : Place(EventsAt(r), m) \in J <=> n < m
    BY <1>7 DEF I
  <2> QED
    BY <1>1, <2>1, <2>2, RunBehind, ZenonT(60)
<1> HIDE DEF new
<1>10. b \in Nat /\ b <= Len(new) /\ Len(new) \in Nat
  <2>1. Len(new) \in Nat
    BY <1>1, <1>2, <1>9
  <2> QED
    BY <1>1, <2>1 DEF b
<1>11. Len(Answer(c)) = b /\ \A i \in 1 .. b : Answer(c)[i] = new[i]
  BY <1>6, <1>9, <1>10
<1>12. n + b <= Len(L) /\ \A i \in 1 .. b : i \in 1 .. Len(L) - n
  BY <1>1, <1>2, <1>9, <1>10
<1> QED
  BY <1>9, <1>11, <1>12

(* So does a copy, from the version the goroutine is at.                   *)
LEMMA CopyContinues ==
  ASSUME StoreInvariant, StreamsTyped, NEW c \in Followers,
         NEW L, L = EventsOf(Follows[c]), NEW n \in 0 .. Len(L),
         cursor[c] = IF n = 0 THEN 0 ELSE L[n].rv
  PROVE  /\ Len(DueEvents(c)) = Len(L) - n
         /\ \A i \in 1 .. Len(DueEvents(c)) : DueEvents(c)[i] = L[n + i]
<1> DEFINE r == Follows[c]
           I == EventsAt(r)
           J == {i \in DOMAIN events : events[i].run = Follows[c] /\ events[i].rv > cursor[c]}
<1>1. TypeOK /\ r \in Runs
  BY MessageTypes DEF StoreInvariant
<1>2. /\ events \in Seq(Event) /\ I \in SUBSET (1 .. Len(events))
      /\ L = Collected(events, I) /\ Len(L) = Cardinality(I) /\ Len(L) \in Nat
      /\ \A m \in 1 .. Len(L) : Place(I, m) \in I /\ L[m] = events[Place(I, m)]
  BY <1>1, RunsEvents, StoreTypes
<1>3. /\ \A m \in 1 .. Len(L) : L[m].rv \in Nat /\ 0 < L[m].rv
      /\ \A l, m \in 1 .. Len(L) : l < m => L[l].rv < L[m].rv
  BY <1>1, EventsRise
<1>4. J \in SUBSET I
  BY DEF EventsAt
<1>5. \A i \in I : i \in J <=> events[i].rv > cursor[c]
  BY DEF EventsAt
<1>6. DueEvents(c) = Collected(events, J)
  BY DEF DueEvents
<1> HIDE DEF I, J
<1>7. ASSUME NEW m \in 1 .. Len(L) PROVE Place(I, m) \in J <=> n < m
  <2>1. Place(I, m) \in J <=> L[m].rv > cursor[c]
    BY <1>2, <1>5
  <2>2. CASE n = 0
    BY <1>3, <2>1, <2>2
  <2>3. CASE n # 0
    <3>1. n \in 1 .. Len(L) /\ cursor[c] = L[n].rv /\ L[n].rv \in Nat /\ L[m].rv \in Nat
      BY <1>3, <2>3
    <3>2. n < m => L[n].rv < L[m].rv
      BY <1>3, <3>1
    <3>3. m < n => L[m].rv < L[n].rv
      BY <1>3, <3>1
    <3>4. n < m \/ m < n \/ m = n
      OBVIOUS
    <3> QED
      BY <2>1, <3>1, <3>2, <3>3, <3>4
  <2> QED
    BY <2>2, <2>3
<1>8. n \in 0 .. Cardinality(I)
  BY <1>2
<1>9. /\ Len(DueEvents(c)) = Len(L) - n
      /\ \A m \in 1 .. Len(L) - n : DueEvents(c)[m] = L[n + m]
  BY <1>2, <1>4, <1>6, <1>7, <1>8, CollectedBehind
<1> QED
  BY <1>9

--------------------------------------------------------------------------------
(* A nonempty set of naturals has a least element.                         *)
LEMMA LeastOf ==
  ASSUME NEW S \in SUBSET Nat, S # {}
  PROVE  \E n \in S : \A m \in S : n <= m
<1>1. PICK n \in S : \A m \in S : ~ (<<m, n>> \in OpToRel(<, Nat))
  BY NatLessThanWellFounded, WFMin
<1>2. \A m \in S : ~ (m < n)
  BY <1>1 DEF OpToRel
<1> QED
  BY <1>2

(* And a greatest one, if it is bounded.                                   *)
LEMMA GreatestOf ==
  ASSUME NEW S \in SUBSET Nat, S # {}, NEW b \in Nat, \A n \in S : n < b
  PROVE  \E n \in S : \A m \in S : m <= n
<1> DEFINE T == {b - n : n \in S}
<1>1. T \in SUBSET Nat /\ T # {}
  <2>1. \A n \in S : b - n \in Nat
    OBVIOUS
  <2> QED
    BY <2>1
<1>2. PICK t \in T : \A u \in T : t <= u
  BY <1>1, LeastOf
<1>3. PICK n \in S : t = b - n
  BY <1>2
<1>4. ASSUME NEW m \in S PROVE m <= n
  <2>1. t <= b - m
    BY <1>2
  <2> QED
    BY <1>3, <2>1
<1> QED
  BY <1>4

(* Who has fewer than n before it still has if some of them go.            *)
LEMMA FewerBefore ==
  ASSUME NEW S, IsFiniteSet(S), NEW T \in SUBSET S, NEW n \in Nat, Cardinality(S) < n
  PROVE  Cardinality(T) < n
<1>1. Cardinality(T) <= Cardinality(S) /\ IsFiniteSet(T)
  BY FS_Subset
<1>2. Cardinality(T) \in Nat /\ Cardinality(S) \in Nat
  BY <1>1, FS_CardinalityType
<1> QED
  BY <1>1, <1>2

--------------------------------------------------------------------------------
(* A page of List.                                                         *)

(* A page is a beginning of what is left of the list.                      *)
LEMMA PageIsBeginning ==
  ASSUME NEW c \in Watchers, NEW k \in Page(c), NEW j \in Listed(c), j < k
  PROVE  j \in Page(c)
<1>1. Listed(c) \subseteq Nat /\ k \in Listed(c)
  BY MemoryClientsAssumption DEF Listed, Page
<1> DEFINE S == {i \in Listed(c) : i < k}
           T == {i \in Listed(c) : i < j}
<1>2. IsFiniteSet(S)
  <2>1. S \in SUBSET Nat /\ k \in Nat /\ \A i \in S : i <= k
    BY <1>1
  <2> QED
    BY <2>1, FS_BoundedSetOfNaturals
<1>3. T \in SUBSET S
  BY <1>1
<1>4. Cardinality(S) < PageSize
  BY DEF Page
<1>5. Cardinality(T) < PageSize
  BY <1>2, <1>3, <1>4, FewerBefore, SizesAssumption
<1> QED
  BY <1>5 DEF Page

(* A page that is not the last one ends with its last key.                 *)
LEMMA PageHasLast ==
  ASSUME NEW c \in Watchers, Page(c) # Listed(c)
  PROVE  /\ LastOnPage(c) \in Page(c)
         /\ \A j \in Page(c) : j <= LastOnPage(c)
<1>1. Listed(c) \subseteq Nat /\ Page(c) \subseteq Listed(c)
  BY MemoryClientsAssumption DEF Listed, Page
<1>2. PICK l \in Listed(c) : l \notin Page(c)
  BY <1>1
<1>3. \A k \in Page(c) : k < l
  BY <1>1, <1>2, PageIsBeginning
<1>4. Page(c) # {}
  <2>1. PICK k \in Listed(c) : \A j \in Listed(c) : k <= j
    BY <1>1, <1>2, LeastOf
  <2>2. {j \in Listed(c) : j < k} = {}
    BY <1>1, <2>1
  <2>3. Cardinality({j \in Listed(c) : j < k}) < PageSize
    BY <2>2, FS_EmptySet, SizesAssumption
  <2> QED
    BY <2>1, <2>3 DEF Page
<1>5. \E k \in Page(c) : \A j \in Page(c) : j <= k
  BY <1>1, <1>2, <1>3, <1>4, GreatestOf
<1> QED
  BY <1>5 DEF LastOnPage

--------------------------------------------------------------------------------
(* Types.                                                                  *)

LEMMA StoreUnderneath == [MemoryNext]_allVars => [Next]_memoryVars
BY DEF MemoryNext, Store, allVars, ListPage, SendBookmark, ListEvents, Collect, Send, Exit,
       Receive, Cancel, Resume

(* What is at the ends of a sequence, and what is left of it.              *)
LEMMA Ends ==
  ASSUME NEW T, NEW s \in Seq(T)
  PROVE  /\ Len(s) \in Nat
         /\ \A i \in 1 .. Len(s) : s[i] \in T
         /\ s # <<>> => /\ 1 \in 1 .. Len(s) /\ Head(s) = s[1] /\ Head(s) \in T
                        /\ Tail(s) \in Seq(T) /\ Len(Tail(s)) = Len(s) - 1
                        /\ \A i \in 1 .. Len(s) - 1 : i + 1 \in 1 .. Len(s) /\ Tail(s)[i] = s[i + 1]
         /\ \A e \in T : /\ Append(s, e) \in Seq(T) /\ Len(Append(s, e)) = Len(s) + 1
                         /\ \A i \in 1 .. Len(s) : Append(s, e)[i] = s[i]
                         /\ Append(s, e)[Len(s) + 1] = e
<1>1. ASSUME s # <<>>
      PROVE  /\ 1 \in 1 .. Len(s) /\ Head(s) = s[1] /\ Head(s) \in T
             /\ Tail(s) \in Seq(T) /\ Len(Tail(s)) = Len(s) - 1
             /\ \A i \in 1 .. Len(s) - 1 : i + 1 \in 1 .. Len(s) /\ Tail(s)[i] = s[i + 1]
  BY <1>1
<1>2. ASSUME NEW e \in T
      PROVE  /\ Append(s, e) \in Seq(T) /\ Len(Append(s, e)) = Len(s) + 1
             /\ \A i \in 1 .. Len(s) : Append(s, e)[i] = s[i]
             /\ Append(s, e)[Len(s) + 1] = e
  BY AppendProperties
<1> QED
  BY <1>1, <1>2

(* Streams but c are where they were.                                      *)
Elsewhere(c) ==
  /\ UNCHANGED memoryVars
  /\ \A d \in Streams \ {c} :
       /\ state'[d] = state[d] /\ checkpoint'[d] = checkpoint[d]
       /\ cursor'[d] = cursor[d] /\ due'[d] = due[d] /\ channel'[d] = channel[d]
       /\ d \in Watchers => token'[d] = token[d] /\ view'[d] = view[d]
       /\ d \in Followers => received'[d] = received[d]

(* One stream moves, by a step of its client or its goroutine.             *)
StreamStep(c) ==
  \/ c \in Watchers /\ (ListPage(c) \/ SendBookmark(c))
  \/ c \in Followers /\ ListEvents(c)
  \/ Collect(c) \/ Send(c) \/ Exit(c) \/ Receive(c) \/ Cancel(c) \/ Resume(c)

LEMMA OneStreamMoves ==
  ASSUME StreamsTyped, NEW c \in Streams, StreamStep(c)
  PROVE  Elsewhere(c)
<1> USE StreamTypes, MessageTypes
<1>1. ASSUME c \in Watchers, ListPage(c) PROVE Elsewhere(c)
  BY <1>1 DEF ListPage, Elsewhere
<1>2. ASSUME c \in Watchers, SendBookmark(c) PROVE Elsewhere(c)
  BY <1>2 DEF SendBookmark, Elsewhere, clientVars
<1>3. ASSUME c \in Followers, ListEvents(c) PROVE Elsewhere(c)
  BY <1>3 DEF ListEvents, Elsewhere
<1>4. ASSUME Collect(c) PROVE Elsewhere(c)
  BY <1>4 DEF Collect, Elsewhere, clientVars
<1>5. ASSUME Send(c) PROVE Elsewhere(c)
  BY <1>5 DEF Send, Elsewhere, clientVars
<1>6. ASSUME Exit(c) PROVE Elsewhere(c)
  BY <1>6 DEF Exit, Elsewhere
<1>7. ASSUME Receive(c) PROVE Elsewhere(c)
  BY <1>7 DEF Receive, Elsewhere
<1>8. ASSUME Cancel(c) PROVE Elsewhere(c)
  BY <1>8 DEF Cancel, Elsewhere, goroutineVars
<1>9. ASSUME Resume(c) PROVE Elsewhere(c)
  BY <1>9 DEF Resume, Elsewhere
<1> QED
  BY <1>1, <1>2, <1>3, <1>4, <1>5, <1>6, <1>7, <1>8, <1>9 DEF StreamStep

LEMMA StepIsOne ==
  [MemoryNext]_allVars =>
    \/ [Next]_memoryVars /\ UNCHANGED streamVars
    \/ \E c \in Streams : StreamStep(c)
BY MessageTypes DEF MemoryNext, Store, StreamStep, allVars

(* What c's step has to leave typed.                                       *)
PlacesTyped ==
  /\ state \in [Streams -> States]
  /\ checkpoint \in [Streams -> Nat] /\ cursor \in [Streams -> Nat]

QueuesTyped(c) ==
  /\ due \in [Streams -> Seq(Message)] /\ channel \in [Streams -> Seq(Message)]
  /\ c \in Watchers => due[c] \in Seq(Object) /\ channel[c] \in Seq(Object \cup Mark)
  /\ c \in Followers => due[c] \in Seq(Event) /\ channel[c] \in Seq(Event)

ClientsTyped ==
  /\ token \in [Watchers -> Keys \cup {Nil}]
  /\ view \in [Watchers -> [Keys -> Row \cup {Nil}]]
  /\ received \in [Followers -> Seq(Event)]
  /\ drops \in Nat

LEMMA MessageSequences ==
  /\ Seq(Object) \subseteq Seq(Message) /\ Seq(Event) \subseteq Seq(Message)
  /\ Seq(Object \cup Mark) \subseteq Seq(Message)
<1>1. Object \subseteq Message /\ Event \subseteq Message /\ Object \cup Mark \subseteq Message
  BY MessageTypes
<1> QED
  BY <1>1

LEMMA TypedElsewhere ==
  ASSUME StreamsTyped, NEW c \in Streams, Elsewhere(c),
         PlacesTyped', QueuesTyped(c)', ClientsTyped'
  PROVE  StreamsTyped'
<1> USE StreamTypes, MessageTypes
<1>2. \A d \in Watchers : due'[d] \in Seq(Object) /\ channel'[d] \in Seq(Object \cup Mark)
  BY DEF Elsewhere, QueuesTyped
<1>3. \A d \in Followers : due'[d] \in Seq(Event) /\ channel'[d] \in Seq(Event)
  BY DEF Elsewhere, QueuesTyped
<1>6. TypeOK'
  BY DEF Elsewhere, memoryVars, TypeOK
<1> QED
  BY <1>2, <1>3, <1>6 DEF StreamsTyped, StreamTypeOK, PlacesTyped, QueuesTyped, ClientsTyped

LEMMA StreamStepTyped ==
  ASSUME StoreInvariant, StreamsTyped, NEW c \in Streams, StreamStep(c)
  PROVE  StreamsTyped'
<1> USE StreamTypes, MessageTypes
<1>1. Elsewhere(c)
  BY OneStreamMoves
<1>2. /\ PlacesTyped /\ QueuesTyped(c) /\ ClientsTyped
      /\ state[c] \in States /\ checkpoint[c] \in Nat /\ cursor[c] \in Nat
  BY DEF PlacesTyped, QueuesTyped, ClientsTyped
<1>3. seq \in Nat /\ resources \in [Keys -> Row \cup {Nil}]
  BY StoreTypes
<1>4. CASE c \in Watchers /\ ListPage(c)
  <2>1. Kept(c) \in Nat
    BY <1>2, <1>3 DEF Kept
  <2>2. /\ state' = [state EXCEPT ![c] = "live"] \/ state' = state
        /\ cursor' = [cursor EXCEPT ![c] = Kept(c)] \/ cursor' = cursor
        /\ checkpoint' = [checkpoint EXCEPT ![c] = Kept(c)]
        /\ UNCHANGED <<received, drops, due, channel>>
    BY <1>4 DEF ListPage
  <2>3. token' \in [Watchers -> Keys \cup {Nil}]
    <3>1. Page(c) # Listed(c) => LastOnPage(c) \in Keys
      BY <1>4, PageHasLast DEF Page, Listed
    <3> QED
      BY <1>4, <3>1 DEF ListPage
  <2>4. view' \in [Watchers -> [Keys -> Row \cup {Nil}]]
    <3>1. [k \in Keys |-> IF k \in Page(c) THEN resources[k] ELSE view[c][k]]
            \in [Keys -> Row \cup {Nil}]
      BY <1>3, <1>4
    <3> QED
      BY <1>4, <3>1 DEF ListPage
  <2>5. "live" \in States
    BY DEF States
  <2>6. PlacesTyped'
    <3>1. state' \in [Streams -> States]
      BY <2>2, <2>5, ZenonT(60)
    <3>2. checkpoint' \in [Streams -> Nat]
      BY <2>1, <2>2, ZenonT(60)
    <3>3. cursor' \in [Streams -> Nat]
      BY <2>1, <2>2, ZenonT(60)
    <3> QED
      BY <3>1, <3>2, <3>3 DEF PlacesTyped
  <2>7. QueuesTyped(c)'
    BY <1>2, <2>2 DEF QueuesTyped
  <2>8. ClientsTyped'
    BY <1>2, <2>2, <2>3, <2>4 DEF ClientsTyped
  <2> QED
    BY <1>1, <2>6, <2>7, <2>8, TypedElsewhere
<1>5. CASE c \in Watchers /\ SendBookmark(c)
  <2>1. /\ channel' = [channel EXCEPT ![c] = Append(channel[c], Bookmark(cursor[c]))]
        /\ UNCHANGED <<state, token, checkpoint, view, received, drops, cursor, due>>
    BY <1>5 DEF SendBookmark, clientVars
  <2>2. Bookmark(cursor[c]) \in Object \cup Mark
    BY <1>2 DEF Bookmark, Mark
  <2>3. Append(channel[c], Bookmark(cursor[c])) \in Seq(Object \cup Mark)
    BY <1>5, <2>2, Ends
  <2>4. PlacesTyped'
    BY <1>2, <2>1, <2>2, <2>3 DEF PlacesTyped
  <2>5. QueuesTyped(c)'
    BY <1>2, <1>5, <2>1, <2>2, <2>3, MessageSequences DEF QueuesTyped
  <2>6. ClientsTyped'
    BY <1>2, <1>5, <2>1, <2>2, <2>3 DEF ClientsTyped
  <2> QED
    BY <1>1, <2>4, <2>5, <2>6, TypedElsewhere
<1>6. CASE c \in Followers /\ ListEvents(c)
  <2>1. Answer(c) \in Seq(Event) /\ Len(Answer(c)) \in Nat
    BY <1>6, FollowersAreSentEvents
  <2>2. received[c] \o Answer(c) \in Seq(Event)
    BY <1>6, <2>1
  <2>3. received' \in [Followers -> Seq(Event)]
    BY <1>6, <2>2 DEF ListEvents
  <2> DEFINE v == IF Answer(c) = <<>> THEN checkpoint[c] ELSE Answer(c)[Len(Answer(c))].rv
  <2>4. v \in Nat
    <3>1. Answer(c) # <<>> => Answer(c)[Len(Answer(c))] \in Event
      BY <2>1
    <3> QED
      BY <1>2, <3>1
  <2>5. checkpoint' = [checkpoint EXCEPT ![c] = v]
    BY <1>6 DEF ListEvents
  <2> HIDE DEF v
  <2>6. /\ state' = [state EXCEPT ![c] = "live"] \/ state' = state
        /\ cursor' = [cursor EXCEPT ![c] = v] \/ cursor' = cursor
        /\ UNCHANGED <<token, view, drops, due, channel>>
    BY <1>2, <1>6, <2>5 DEF ListEvents
  <2>7. "live" \in States
    BY DEF States
  <2>8. PlacesTyped'
    <3>1. state' \in [Streams -> States]
      BY <2>6, <2>7, ZenonT(60)
    <3>2. checkpoint' \in [Streams -> Nat]
      BY <2>4, <2>5, ZenonT(60)
    <3>3. cursor' \in [Streams -> Nat]
      BY <2>4, <2>6, ZenonT(60)
    <3> QED
      BY <3>1, <3>2, <3>3 DEF PlacesTyped
  <2>9. QueuesTyped(c)'
    BY <1>2, <2>6 DEF QueuesTyped
  <2>10. ClientsTyped'
    BY <1>2, <2>3, <2>6 DEF ClientsTyped
  <2> QED
    BY <1>1, <2>8, <2>9, <2>10, TypedElsewhere
<1>7. CASE Collect(c)
  <2>1. /\ \/ c \in Watchers /\ due' = [due EXCEPT ![c] = DueObjects(c)]
           \/ c \in Followers /\ due' = [due EXCEPT ![c] = DueEvents(c)]
        /\ UNCHANGED <<state, token, checkpoint, view, received, drops, cursor, channel>>
    BY <1>7 DEF Collect, clientVars
  <2>2. c \in Watchers => DueObjects(c) \in Seq(Object)
    BY WhatIsCopied
  <2>3. c \in Followers => DueEvents(c) \in Seq(Event)
    BY FollowersAreSentEvents
  <2>4. PlacesTyped'
    BY <1>2, <2>1 DEF PlacesTyped
  <2>5. QueuesTyped(c)'
    BY <1>2, <2>1, <2>2, <2>3, MessageSequences DEF QueuesTyped
  <2>6. ClientsTyped'
    BY <1>2, <2>1 DEF ClientsTyped
  <2> QED
    BY <1>1, <2>4, <2>5, <2>6, TypedElsewhere
<1>8. CASE Send(c)
  <2>1. /\ due[c] # <<>>
        /\ channel' = [channel EXCEPT ![c] = Append(channel[c], Head(due[c]))]
        /\ due' = [due EXCEPT ![c] = Tail(due[c])]
        /\ cursor' = [cursor EXCEPT ![c] =
             IF Head(due[c]).rv > cursor[c] THEN Head(due[c]).rv ELSE cursor[c]]
        /\ UNCHANGED <<state, token, checkpoint, view, received, drops>>
    BY <1>8 DEF Send, clientVars
  <2>2. c \in Watchers => /\ Head(due[c]) \in Object /\ Tail(due[c]) \in Seq(Object)
                          /\ Head(due[c]) \in Object \cup Mark
    BY <2>1, Ends
  <2>3. c \in Followers => Head(due[c]) \in Event /\ Tail(due[c]) \in Seq(Event)
    BY <2>1, Ends
  <2>4. c \in Watchers => Append(channel[c], Head(due[c])) \in Seq(Object \cup Mark)
    BY <2>2, Ends
  <2>5. c \in Followers => Append(channel[c], Head(due[c])) \in Seq(Event)
    BY <2>3, Ends
  <2>6. Head(due[c]).rv \in Nat
    BY <2>2, <2>3 DEF Streams
  <2>7. cursor'[c] \in Nat
    BY <1>2, <2>1, <2>6
  <2>8. PlacesTyped'
    BY <1>2, <2>1, <2>7 DEF PlacesTyped
  <2>9. QueuesTyped(c)'
    BY <1>2, <2>1, <2>2, <2>3, <2>4, <2>5, MessageSequences DEF QueuesTyped
  <2>10. ClientsTyped'
    BY <1>2, <2>1 DEF ClientsTyped
  <2> QED
    BY <1>1, <2>8, <2>9, <2>10, TypedElsewhere
<1>9. CASE Exit(c)
  <2>1. /\ state' = [state EXCEPT ![c] = "closed"]
        /\ due' = [due EXCEPT ![c] = <<>>] /\ channel' = [channel EXCEPT ![c] = <<>>]
        /\ UNCHANGED <<token, checkpoint, view, received, drops, cursor>>
    BY <1>9 DEF Exit
  <2>2. "closed" \in States /\ \A T : <<>> \in Seq(T)
    BY DEF States
  <2>3. PlacesTyped'
    BY <1>2, <2>1, <2>2 DEF PlacesTyped
  <2>4. QueuesTyped(c)'
    BY <1>2, <2>1, <2>2, MessageSequences DEF QueuesTyped
  <2>5. ClientsTyped'
    BY <1>2, <2>1 DEF ClientsTyped
  <2> QED
    BY <1>1, <2>3, <2>4, <2>5, TypedElsewhere
<1>10. CASE Receive(c)
  <2> DEFINE m == Head(channel[c])
             v == IF IsBookmark(m) THEN m.bookmark ELSE m.rv
  <2>1. /\ channel[c] # <<>>
        /\ checkpoint' = [checkpoint EXCEPT ![c] = v]
        /\ view' = IF c \in Watchers /\ ~IsBookmark(m)
                     THEN [view EXCEPT ![c][m.key] = m.row] ELSE view
        /\ received' = IF c \in Followers
                         THEN [received EXCEPT ![c] = Append(received[c], m)] ELSE received
        /\ channel' = [channel EXCEPT ![c] = Tail(channel[c])]
        /\ UNCHANGED <<state, token, drops, cursor, due>>
    BY <1>10 DEF Receive
  <2>2. c \in Watchers => m \in Object \cup Mark /\ Tail(channel[c]) \in Seq(Object \cup Mark)
    BY <2>1, Ends
  <2>3. c \in Followers => m \in Event /\ Tail(channel[c]) \in Seq(Event)
    BY <2>1, Ends
  <2> HIDE DEF m
  <2>4. v \in Nat
    BY <2>2, <2>3 DEF Streams, RvOf
  <2>5. view' \in [Watchers -> [Keys -> Row \cup {Nil}]]
    BY <2>1, <2>2
  <2>6. received' \in [Followers -> Seq(Event)]
    <3>1. c \in Followers => Append(received[c], m) \in Seq(Event)
      BY <2>3, Ends
    <3> QED
      BY <2>1, <3>1
  <2> HIDE DEF v
  <2>7. PlacesTyped'
    BY <1>2, <2>1, <2>4 DEF PlacesTyped
  <2>8. QueuesTyped(c)'
    BY <1>2, <2>1, <2>2, <2>3, MessageSequences DEF QueuesTyped
  <2>9. ClientsTyped'
    BY <1>2, <2>1, <2>5, <2>6 DEF ClientsTyped
  <2> QED
    BY <1>1, <2>7, <2>8, <2>9, TypedElsewhere
<1>11. CASE Cancel(c)
  <2>1. /\ state' = [state EXCEPT ![c] = "cancelled"] /\ drops' = drops + 1
        /\ UNCHANGED <<token, checkpoint, view, received, cursor, due, channel>>
    BY <1>11 DEF Cancel, goroutineVars
  <2>2. "cancelled" \in States
    BY DEF States
  <2>3. PlacesTyped'
    BY <1>2, <2>1, <2>2 DEF PlacesTyped
  <2>4. QueuesTyped(c)'
    BY <1>2, <2>1, <2>2, MessageSequences DEF QueuesTyped
  <2>5. ClientsTyped'
    BY <1>2, <2>1 DEF ClientsTyped
  <2> QED
    BY <1>1, <2>3, <2>4, <2>5, TypedElsewhere
<1>12. CASE Resume(c)
  <2>1. /\ state' = [state EXCEPT ![c] = "live"]
        /\ cursor' = [cursor EXCEPT ![c] = checkpoint[c]]
        /\ UNCHANGED <<token, checkpoint, view, received, drops, due, channel>>
    BY <1>12 DEF Resume
  <2>2. "live" \in States
    BY DEF States
  <2>3. PlacesTyped'
    BY <1>2, <2>1, <2>2 DEF PlacesTyped
  <2>4. QueuesTyped(c)'
    BY <1>2, <2>1, <2>2, MessageSequences DEF QueuesTyped
  <2>5. ClientsTyped'
    BY <1>2, <2>1 DEF ClientsTyped
  <2> QED
    BY <1>1, <2>3, <2>4, <2>5, TypedElsewhere
<1> QED
  BY <1>4, <1>5, <1>6, <1>7, <1>8, <1>9, <1>10, <1>11, <1>12 DEF StreamStep

LEMMA StreamsTypedKept ==
  ASSUME StoreInvariant, StreamsTyped, [MemoryNext]_allVars
  PROVE  StreamsTyped'
<1>1. CASE [Next]_memoryVars /\ UNCHANGED streamVars
  <2>1. TypeOK'
    BY <1>1, StoreInvariantKept DEF StoreInvariant
  <2> QED
    BY <1>1, <2>1 DEF StreamsTyped, StreamTypeOK, streamVars, clientVars, goroutineVars
<1> QED
  BY <1>1, StepIsOne, StreamStepTyped

--------------------------------------------------------------------------------
(* Watchers.                                                               *)

LEMMA WatcherTypes ==
  ASSUME StoreInvariant, StreamsTyped, NEW c \in Watchers
  PROVE  /\ seq \in Nat /\ checkpoint[c] \in Nat /\ cursor[c] \in Nat
         /\ due[c] \in Seq(Object) /\ channel[c] \in Seq(Object \cup Mark)
         /\ Len(due[c]) \in Nat /\ Len(channel[c]) \in Nat
         /\ \A i \in 1 .. Len(due[c]) : due[c][i] \in Object /\ due[c][i].rv \in Nat
         /\ \A i \in 1 .. Len(channel[c]) :
              channel[c][i] \in Object \cup Mark /\ RvOf(channel[c][i]) \in Nat
         /\ \A k \in Scope[c] :
              /\ k \in Keys /\ k \in Nat
              /\ resources[k] # Nil => /\ resources[k] \in Row /\ resources[k].rv \in Nat
                                       /\ resources[k].rv <= seq
<1> USE DEF StoreInvariant
<1>1. seq \in Nat /\ checkpoint[c] \in Nat /\ cursor[c] \in Nat
  BY StreamTypes, MessageTypes, StoreTypes
<1>2. due[c] \in Seq(Object) /\ channel[c] \in Seq(Object \cup Mark)
  BY StreamTypes
<1>3. Len(due[c]) \in Nat /\ \A i \in 1 .. Len(due[c]) : due[c][i] \in Object
  BY <1>2, Ends
<1>4. Len(channel[c]) \in Nat /\ \A i \in 1 .. Len(channel[c]) : channel[c][i] \in Object \cup Mark
  BY <1>2, Ends
<1>5. \A k \in Scope[c] : k \in Keys /\ k \in Nat
  BY MemoryClientsAssumption
<1>6. \A k \in Scope[c] :
        resources[k] # Nil => /\ resources[k] \in Row /\ resources[k].rv \in Nat
                              /\ resources[k].rv <= seq
  BY <1>5, NewestLogged
<1>7. \A m \in Object : m.rv \in Nat
  BY MessageTypes
<1>8. \A m \in Object \cup Mark : RvOf(m) \in Nat
  BY MessageTypes
<1> QED
  BY <1>1, <1>2, <1>3, <1>4, <1>5, <1>6, <1>7, <1>8

LEMMA WatcherElsewhere ==
  ASSUME NEW c \in Streams, Elsewhere(c), NEW d \in Watchers, d # c, WatcherInvariant(d)
  PROVE  WatcherInvariant(d)'
<1>1. /\ UNCHANGED memoryVars
      /\ state'[d] = state[d] /\ checkpoint'[d] = checkpoint[d]
      /\ cursor'[d] = cursor[d] /\ due'[d] = due[d] /\ channel'[d] = channel[d]
      /\ token'[d] = token[d] /\ view'[d] = view[d]
  BY MessageTypes DEF Elsewhere
<1>2. UNCHANGED <<resources, seq>>
  BY <1>1 DEF memoryVars
<1>3. Quiet(d)' /\ Positions(d)'
  BY <1>1, <1>2 DEF WatcherInvariant, Quiet, Positions, Running
<1>4. ChannelAscends(d)' /\ DueAscends(d)'
  <2>1. \A m : Truthful(d, m)' <=> Truthful(d, m)
    BY <1>2 DEF Truthful, Agrees
  <2>2. ChannelAscends(d)'
    BY <1>1, <2>1, SMTT(30) DEF WatcherInvariant, ChannelAscends
  <2>3. DueAscends(d)'
    BY <1>1, <1>2, <2>1, SMTT(30) DEF WatcherInvariant, DueAscends
  <2> QED
    BY <2>2, <2>3
<1>5. \A k \in Scope[d] : resources'[k] # Nil => Held(d, k)' /\ Sent(d, k)' /\ Copied(d, k)'
  BY <1>1, <1>2 DEF WatcherInvariant, Held, Sent, Copied, PageListed, Agrees, Running
<1> QED
  BY <1>3, <1>4, <1>5 DEF WatcherInvariant

(* What the store does under a watcher: what is on its way was copied      *)
(* before, and is older than what is stored now.                           *)
LEMMA TruthfulStays ==
  ASSUME StoreInvariant, StreamsTyped, [Next]_memoryVars, NEW c \in Watchers,
         NEW m \in Object, Truthful(c, m)
  PROVE  Truthful(c, m)'
<1>1. /\ m.key \in Scope[c] /\ m.key \in Keys /\ resources[m.key] # Nil /\ m.rv \in Nat
      /\ m.rv <= resources[m.key].rv
      /\ m.rv = resources[m.key].rv => Agrees(m.key, m.row)
  BY WatcherTypes, MessageTypes DEF Truthful
<1>2. resources[m.key].rv \in Nat /\ resources[m.key].rv <= seq
  BY <1>1, WatcherTypes
<1>3. resources'[m.key] # Nil /\ seq \in Nat
  BY <1>1, StoreMoves
<1>4. CASE seq < resources'[m.key].rv
  <2>1. resources'[m.key].rv \in Nat
    BY <1>1, <1>3, VersionsAfter
  <2>2. m.rv <= resources'[m.key].rv /\ m.rv # resources'[m.key].rv
    BY <1>1, <1>2, <1>3, <1>4, <2>1
  <2> QED
    BY <1>1, <1>3, <2>2 DEF Truthful
<1>5. CASE /\ resources'[m.key].rv = resources[m.key].rv
           /\ \A row : Agrees(m.key, row) => Agrees(m.key, row)'
  BY <1>1, <1>3, <1>5 DEF Truthful
<1> QED
  BY <1>1, <1>3, <1>4, <1>5, StoreMoves

LEMMA StoreUnderWatcher ==
  ASSUME StoreInvariant, StreamsTyped, [Next]_memoryVars, UNCHANGED streamVars,
         NEW c \in Watchers, WatcherInvariant(c)
  PROVE  WatcherInvariant(c)'
<1> USE WatcherTypes DEF WatcherInvariant
<1>1. UNCHANGED <<state, token, checkpoint, view, cursor, due, channel>>
  BY DEF streamVars, clientVars, goroutineVars
<1>2. seq <= seq' /\ seq' \in Nat
  BY StoreMoves
<1>3. Quiet(c)' /\ Positions(c)'
  <2>1. checkpoint[c] <= seq' /\ cursor[c] <= seq'
    BY <1>2 DEF Positions
  <2> QED
    BY <1>1, <2>1 DEF Quiet, Positions, Running
<1>4. ChannelAscends(c)'
  <2>1. \A i \in 1 .. Len(channel[c]) :
          ~IsBookmark(channel[c][i]) => channel[c][i] \in Object /\ Truthful(c, channel[c][i])
    BY MessageTypes DEF ChannelAscends
  <2>2. \A i \in 1 .. Len(channel[c]) :
          /\ checkpoint[c] <= RvOf(channel[c][i]) /\ RvOf(channel[c][i]) <= cursor[c]
          /\ \A j \in 1 .. i - 1 :
               /\ RvOf(channel[c][j]) <= RvOf(channel[c][i])
               /\ ~IsBookmark(channel[c][i]) => RvOf(channel[c][j]) < RvOf(channel[c][i])
    BY DEF ChannelAscends
  <2>3. \A m \in Object : Truthful(c, m) => Truthful(c, m)'
    BY TruthfulStays
  <2> QED
    BY <1>1, <2>1, <2>2, <2>3 DEF ChannelAscends, Truthful
<1>5. DueAscends(c)'
  <2>1. \A i \in 1 .. Len(due[c]) : due[c][i] \in Object /\ Truthful(c, due[c][i])
    BY DEF DueAscends
  <2>2. \A i \in 1 .. Len(due[c]) :
          /\ cursor[c] < due[c][i].rv /\ due[c][i].rv <= seq'
          /\ \A j \in 1 .. i - 1 : due[c][j].rv < due[c][i].rv
    BY <1>2, SMTT(30) DEF DueAscends
  <2>3. \A m \in Object : Truthful(c, m) => Truthful(c, m)'
    BY TruthfulStays
  <2> QED
    BY <1>1, <2>1, <2>2, <2>3 DEF DueAscends, Truthful
<1>6. ASSUME NEW k \in Scope[c], resources'[k] # Nil
      PROVE  Held(c, k)' /\ Sent(c, k)' /\ Copied(c, k)'
  <2>1. CASE seq < resources'[k].rv
    <3>1. resources'[k].rv \in Nat
      BY <1>6, VersionsAfter
    <3>2. ~(resources'[k].rv <= checkpoint[c]) /\ ~(resources'[k].rv <= cursor[c])
      BY <2>1, <3>1 DEF Positions
    <3>3. \A i \in 1 .. Len(due[c]) : ~(resources'[k].rv <= due[c][i].rv)
      BY <2>1, <3>1, SMTT(30) DEF DueAscends
    <3> QED
      BY <1>1, <3>2, <3>3 DEF Held, Sent, Copied
  <2>2. CASE /\ resources[k] # Nil /\ resources'[k].rv = resources[k].rv
             /\ \A row : Agrees(k, row) => Agrees(k, row)'
    <3>1. Held(c, k) /\ Sent(c, k) /\ Copied(c, k)
      BY <2>2
    <3>2. Held(c, k)'
      <4>1. Agrees(k, view[c][k]) => Agrees(k, view[c][k])'
        BY <1>1, <2>2 DEF Agrees
      <4> QED
        BY <1>1, <2>2, <3>1, <4>1 DEF Held, PageListed
    <3>3. Sent(c, k)' /\ Copied(c, k)'
      BY <1>1, <2>2, <3>1 DEF Sent, Copied, Running
    <3> QED
      BY <3>2, <3>3
  <2>3. k \in Keys
    OBVIOUS
  <2> QED
    BY <1>6, <2>1, <2>2, <2>3, StoreMoves
<1> QED
  BY <1>3, <1>4, <1>5, <1>6

(* The steps of a watcher's client and goroutine.                          *)

LEMMA ListPageKeeps ==
  ASSUME StoreInvariant, StreamsTyped, NEW c \in Watchers, WatcherInvariant(c), ListPage(c)
  PROVE  WatcherInvariant(c)'
<1> USE WatcherTypes DEF WatcherInvariant
<1>1. /\ state[c] = "list" /\ due[c] = <<>> /\ channel[c] = <<>>
      /\ UNCHANGED <<resources, seq>> /\ due'[c] = <<>> /\ channel'[c] = <<>>
  BY DEF ListPage, Quiet, Running, memoryVars
<1>2. /\ checkpoint'[c] = Kept(c)
      /\ \A k \in Keys : view'[c][k] = IF k \in Page(c) THEN resources[k] ELSE view[c][k]
  BY StreamTypes, MessageTypes DEF ListPage
<1>3. \/ /\ Page(c) # Listed(c) /\ token'[c] = LastOnPage(c)
         /\ state'[c] = "list" /\ cursor'[c] = cursor[c]
      \/ /\ Page(c) = Listed(c) /\ state'[c] = "live" /\ cursor'[c] = Kept(c)
         /\ token'[c] = token[c]
  BY <1>1, StreamTypes, MessageTypes DEF ListPage
<1>4. Kept(c) \in Nat /\ Kept(c) <= seq
  BY DEF Kept, Positions
<1>5. Quiet(c)' /\ Positions(c)'
  BY <1>1, <1>2, <1>3, <1>4 DEF Quiet, Positions, Running
<1>6. ChannelAscends(c)' /\ DueAscends(c)'
  BY <1>1 DEF ChannelAscends, DueAscends
<1>7. ASSUME NEW k \in Scope[c], resources'[k] # Nil
      PROVE  Sent(c, k)' /\ Copied(c, k)'
  <2>1. Copied(c, k)'
    BY <1>1 DEF Copied
  <2>2. Sent(c, k)'
    BY <1>1, <1>2, <1>3, <1>4, <1>7 DEF Sent, Running
  <2> QED
    BY <2>1, <2>2
<1>8. ASSUME NEW k \in Scope[c], resources'[k] # Nil
      PROVE  Held(c, k)'
  <2>1. resources[k] # Nil /\ resources[k] \in Row /\ k \in Keys /\ k \in Nat
    BY <1>1, <1>8
  <2>2. CASE k \in Page(c)
    <3>1. view'[c][k] = resources'[k]
      BY <1>1, <1>2, <2>1, <2>2
    <3> QED
      BY <1>1, <2>1, <3>1 DEF Held, Agrees
  <2>3. CASE k \notin Page(c)
    <3>1. ASSUME PageListed(c, k)'
          PROVE  token[c] # Nil /\ k <= token[c]
      <4>1. SUFFICES ASSUME ~(token[c] # Nil /\ k <= token[c]) PROVE FALSE
        OBVIOUS
      <4>2. token[c] # Nil => token[c] \in Nat
        BY StreamTypes, MemoryClientsAssumption
      <4>3. k \in Listed(c)
        BY <2>1, <4>1, <4>2 DEF Listed
      <4>4. Page(c) # Listed(c) /\ k <= LastOnPage(c)
        BY <1>3, <2>3, <3>1, <4>3 DEF PageListed
      <4>5. LastOnPage(c) \in Page(c) /\ LastOnPage(c) \in Nat
        BY <4>4, PageHasLast, MemoryClientsAssumption DEF Page, Listed
      <4>6. k = LastOnPage(c) \/ k < LastOnPage(c)
        BY <2>1, <4>4, <4>5
      <4>7. k \in Page(c)
        BY <4>3, <4>5, <4>6, PageIsBeginning
      <4> QED
        BY <2>3, <4>7
    <3>2. view'[c][k] = view[c][k]
      BY <1>2, <2>1, <2>3
    <3>3. token[c] # Nil => Kept(c) = checkpoint[c]
      BY DEF Kept
    <3>4. Held(c, k)
      BY <2>1
    <3> QED
      BY <1>1, <1>2, <3>1, <3>2, <3>3, <3>4 DEF Held, PageListed, Agrees
  <2> QED
    BY <2>2, <2>3
<1> QED
  BY <1>5, <1>6, <1>7, <1>8

(* What is due, by what it is.                                             *)
LEMMA NewDue ==
  ASSUME NEW c, NEW D, NEW u, due'[c] = D, cursor'[c] = u, UNCHANGED <<resources, seq>>,
         \A i \in 1 .. Len(D) :
           /\ u < D[i].rv /\ D[i].rv <= seq /\ Truthful(c, D[i])
           /\ \A j \in 1 .. i - 1 : D[j].rv < D[i].rv
  PROVE  DueAscends(c)'
<1>1. \A o : Truthful(c, o) => Truthful(c, o)'
  BY DEF Truthful, Agrees
<1> QED
  BY <1>1 DEF DueAscends, Truthful

LEMMA NewChannel ==
  ASSUME NEW c, NEW C, NEW v, NEW u,
         channel'[c] = C, checkpoint'[c] = v, cursor'[c] = u, UNCHANGED resources,
         \A i \in 1 .. Len(C) :
           /\ v <= RvOf(C[i]) /\ RvOf(C[i]) <= u
           /\ ~IsBookmark(C[i]) => Truthful(c, C[i])
           /\ \A j \in 1 .. i - 1 :
                /\ RvOf(C[j]) <= RvOf(C[i])
                /\ ~IsBookmark(C[i]) => RvOf(C[j]) < RvOf(C[i])
  PROVE  ChannelAscends(c)'
<1>1. \A o : Truthful(c, o) => Truthful(c, o)'
  BY DEF Truthful, Agrees
<1> QED
  BY <1>1 DEF ChannelAscends, Truthful

LEMMA CollectKeeps ==
  ASSUME StoreInvariant, StreamsTyped, NEW c \in Watchers, WatcherInvariant(c), Collect(c)
  PROVE  WatcherInvariant(c)'
<1> USE WatcherTypes DEF WatcherInvariant
<1>1. /\ Running(c) /\ due'[c] = DueObjects(c)
      /\ UNCHANGED <<resources, seq, state, token, checkpoint, view, cursor, channel>>
  BY StreamTypes, MessageTypes DEF Collect, clientVars, memoryVars
<1>2. Quiet(c)' /\ Positions(c)' /\ ChannelAscends(c)'
  <2>1. Quiet(c)' /\ Positions(c)'
    BY <1>1, SMTT(30) DEF Quiet, Positions, Running
  <2>2. \A m : Truthful(c, m)' <=> Truthful(c, m)
    BY <1>1 DEF Truthful, Agrees
  <2>3. ChannelAscends(c)'
    BY <1>1, <2>2, SMTT(30) DEF ChannelAscends
  <2> QED
    BY <2>1, <2>3
<1>3. DueAscends(c)'
  <2>1. \A i \in 1 .. Len(DueObjects(c)) :
          /\ cursor[c] < DueObjects(c)[i].rv /\ DueObjects(c)[i].rv <= seq
          /\ Truthful(c, DueObjects(c)[i])
          /\ \A j \in 1 .. i - 1 : DueObjects(c)[j].rv < DueObjects(c)[i].rv
    BY WhatIsCopied
  <2> QED
    BY <1>1, <2>1, NewDue
<1>4. ASSUME NEW k \in Scope[c], resources'[k] # Nil
      PROVE  Held(c, k)' /\ Sent(c, k)' /\ Copied(c, k)'
  <2>1. Held(c, k)' /\ Sent(c, k)'
    BY <1>1, <1>4 DEF Held, Sent, PageListed, Agrees, Running
  <2>2. Copied(c, k)'
    BY <1>1, <1>4, WhatIsCopied, SMTT(30) DEF Copied
  <2> QED
    BY <2>1, <2>2
<1> QED
  BY <1>2, <1>3, <1>4

LEMMA SendKeeps ==
  ASSUME StoreInvariant, StreamsTyped, NEW c \in Watchers, WatcherInvariant(c), Send(c)
  PROVE  WatcherInvariant(c)'
<1> USE DEF WatcherInvariant
<1> DEFINE D == due[c]
           C == channel[c]
           m == D[1]
<1>1. /\ Running(c) /\ D # <<>>
      /\ channel'[c] = Append(C, Head(D)) /\ due'[c] = Tail(D)
      /\ cursor'[c] = IF Head(D).rv > cursor[c] THEN Head(D).rv ELSE cursor[c]
      /\ UNCHANGED <<resources, seq, state, token, checkpoint, view>>
  BY StreamTypes, MessageTypes DEF Send, clientVars, memoryVars
<1>2. /\ D \in Seq(Object) /\ C \in Seq(Object \cup Mark) /\ Len(D) \in Nat /\ Len(C) \in Nat
      /\ seq \in Nat /\ checkpoint[c] \in Nat /\ cursor[c] \in Nat
      /\ \A i \in 1 .. Len(D) : D[i] \in Object /\ D[i].rv \in Nat
      /\ \A i \in 1 .. Len(C) : RvOf(C[i]) \in Nat
  BY WatcherTypes
<1>3. /\ 1 \in 1 .. Len(D) /\ Head(D) = m /\ m \in Object /\ Len(Tail(D)) = Len(D) - 1
      /\ \A i \in 1 .. Len(D) - 1 : i + 1 \in 1 .. Len(D) /\ Tail(D)[i] = D[i + 1]
  BY <1>1, <1>2, Ends
<1>4. /\ Len(Append(C, m)) = Len(C) + 1
      /\ \A i \in 1 .. Len(C) : Append(C, m)[i] = C[i]
      /\ Append(C, m)[Len(C) + 1] = m
  BY <1>2, <1>3, Ends
<1>5. ~IsBookmark(m) /\ RvOf(m) = m.rv /\ m.rv \in Nat
  BY <1>3, MessageTypes DEF RvOf
<1>6. \A i \in 1 .. Len(D) :
        /\ cursor[c] < D[i].rv /\ D[i].rv <= seq /\ Truthful(c, D[i])
        /\ \A j \in 1 .. i - 1 : D[j].rv < D[i].rv
  BY DEF DueAscends
<1>7. \A i \in 1 .. Len(C) :
        /\ checkpoint[c] <= RvOf(C[i]) /\ RvOf(C[i]) <= cursor[c]
        /\ ~IsBookmark(C[i]) => Truthful(c, C[i])
        /\ \A j \in 1 .. i - 1 :
             RvOf(C[j]) <= RvOf(C[i]) /\ (~IsBookmark(C[i]) => RvOf(C[j]) < RvOf(C[i]))
  BY DEF ChannelAscends
<1>8. cursor'[c] = m.rv /\ cursor[c] < m.rv /\ m.rv <= seq /\ Truthful(c, m)
  BY <1>1, <1>2, <1>3, <1>5, <1>6
<1>9. \A o : Truthful(c, o) <=> (Truthful(c, o))'
  BY <1>1 DEF Truthful, Agrees
<1> HIDE DEF D, C, m
<1>10. due'[c] = Tail(D) /\ channel'[c] = Append(C, m)
  BY <1>1, <1>3 DEF D, C
<1>11. checkpoint[c] <= cursor[c] /\ checkpoint[c] <= m.rv
  BY <1>1, <1>2, <1>5, <1>8 DEF Positions
<1>12. Quiet(c)' /\ Positions(c)'
  BY <1>1, <1>8, <1>11 DEF Quiet, Positions, Running
<1>13. ChannelAscends(c)'
  <2>1. ASSUME NEW i \in 1 .. Len(C) + 1
        PROVE  LET o == Append(C, m)[i] IN
                 /\ checkpoint[c] <= RvOf(o) /\ RvOf(o) <= m.rv
                 /\ ~IsBookmark(o) => Truthful(c, o)
                 /\ \A j \in 1 .. i - 1 :
                      /\ RvOf(Append(C, m)[j]) <= RvOf(o)
                      /\ ~IsBookmark(o) => RvOf(Append(C, m)[j]) < RvOf(o)
    <3>1. CASE i = Len(C) + 1
      <4>1. \A j \in 1 .. i - 1 : j \in 1 .. Len(C)
        BY <1>2, <3>1
      <4>2. \A j \in 1 .. Len(C) : RvOf(C[j]) < m.rv
        BY <1>2, <1>5, <1>7, <1>8
      <4> QED
        BY <1>2, <1>4, <1>5, <1>8, <1>11, <3>1, <4>1, <4>2
    <3>2. CASE i # Len(C) + 1
      <4>1. i \in 1 .. Len(C) /\ \A j \in 1 .. i - 1 : j \in 1 .. Len(C)
        BY <1>2, <3>2
      <4>2. RvOf(C[i]) <= m.rv
        BY <1>2, <1>5, <1>7, <1>8, <4>1, SMTT(30)
      <4> QED
        BY <1>4, <1>7, <4>1, <4>2
    <3> QED
      BY <3>1, <3>2
  <2>2. /\ checkpoint'[c] = checkpoint[c] /\ cursor'[c] = m.rv
        /\ UNCHANGED resources
    BY <1>1, <1>8
  <2> QED
    BY <1>4, <1>10, <2>1, <2>2 DEF ChannelAscends, Truthful, Agrees
<1>14. DueAscends(c)'
  <2>1. ASSUME NEW i \in 1 .. Len(D) - 1
        PROVE  /\ m.rv < D[i + 1].rv /\ D[i + 1].rv <= seq /\ Truthful(c, D[i + 1])
               /\ \A j \in 1 .. i - 1 : Tail(D)[j] = D[j + 1] /\ D[j + 1].rv < D[i + 1].rv
    <3>1. i + 1 \in 1 .. Len(D) /\ 1 \in 1 .. (i + 1) - 1
      BY <1>2
    <3>2. \A j \in 1 .. i - 1 : j \in 1 .. Len(D) - 1 /\ j + 1 \in 1 .. (i + 1) - 1
      BY <1>2
    <3> QED
      BY <1>3, <1>6, <3>1, <3>2 DEF m
  <2>2. \A i \in 1 .. Len(D) - 1 : Tail(D)[i] = D[i + 1]
    BY <1>3
  <2>3. Len(Tail(D)) = Len(D) - 1
    BY <1>3
  <2>4. cursor'[c] = m.rv /\ UNCHANGED <<resources, seq>>
    BY <1>1, <1>8
  <2>5. \A i \in 1 .. Len(Tail(D)) :
          /\ m.rv < Tail(D)[i].rv /\ Tail(D)[i].rv <= seq /\ Truthful(c, Tail(D)[i])
          /\ \A j \in 1 .. i - 1 : Tail(D)[j].rv < Tail(D)[i].rv
    BY <2>1, <2>2, <2>3
  <2> QED
    BY <1>10, <2>4, <2>5, NewDue
<1>15. ASSUME NEW k \in Scope[c], resources'[k] # Nil
       PROVE  Held(c, k)' /\ Sent(c, k)' /\ Copied(c, k)'
  <2> DEFINE v == resources[k].rv
  <2>1. resources[k] # Nil /\ v \in Nat /\ Held(c, k) /\ Sent(c, k) /\ Copied(c, k)
    BY <1>1, <1>15, WatcherTypes
  <2>2. Held(c, k)'
    BY <1>1, <2>1 DEF Held, PageListed, Agrees
  <2>3. ASSUME v <= m.rv, cursor[c] < v PROVE m.key = k /\ m.rv = v
    <3>1. PICK j \in 1 .. Len(D) : D[j].key = k /\ D[j].rv = v
      BY <1>3, <2>1, <2>3 DEF Copied, D, m
    <3>2. j # 1 => 1 \in 1 .. j - 1
      OBVIOUS
    <3>3. j # 1 => m.rv < v
      BY <1>6, <3>1, <3>2 DEF m
    <3>4. j = 1
      BY <1>5, <2>1, <2>3, <3>3
    <3> QED
      BY <3>1, <3>4 DEF m
  <2>4. ASSUME checkpoint[c] < v, v <= m.rv
        PROVE  \E i \in 1 .. Len(C) + 1 :
                 /\ ~IsBookmark(Append(C, m)[i])
                 /\ Append(C, m)[i].key = k /\ Append(C, m)[i].rv = v
    <3>1. CASE v <= cursor[c]
      <4>1. PICK i \in 1 .. Len(C) : ~IsBookmark(C[i]) /\ C[i].key = k /\ C[i].rv = v
        BY <1>1, <2>1, <2>4, <3>1 DEF Sent, C
      <4>2. i \in 1 .. Len(C) + 1 /\ Append(C, m)[i] = C[i]
        BY <1>2, <1>4
      <4> QED
        BY <4>1, <4>2
    <3>2. CASE cursor[c] < v
      <4>1. Len(C) + 1 \in 1 .. Len(C) + 1
        BY <1>2
      <4> QED
        BY <1>4, <1>5, <2>3, <2>4, <3>2, <4>1
    <3> QED
      BY <1>2, <2>1, <3>1, <3>2
  <2>5. Sent(c, k)'
    BY <1>1, <1>4, <1>8, <1>10, <2>4 DEF Sent
  <2>6. Copied(c, k)'
    <3>1. ASSUME NEW i \in 1 .. Len(D) - 1, m.rv < v, v <= D[i + 1].rv
          PROVE  \E j \in 1 .. Len(D) - 1 : D[j + 1].key = k /\ D[j + 1].rv = v
      <4>1. cursor[c] < v /\ i + 1 \in 1 .. Len(D)
        BY <1>2, <1>3, <1>5, <1>8, <2>1, <3>1
      <4>2. PICK j \in 1 .. Len(D) : D[j].key = k /\ D[j].rv = v
        BY <2>1, <3>1, <4>1 DEF Copied, D
      <4>3. j # 1
        BY <1>5, <2>1, <3>1, <4>2 DEF m
      <4>4. j - 1 \in 1 .. Len(D) - 1 /\ (j - 1) + 1 = j
        BY <1>2, <4>3
      <4> QED
        BY <4>2, <4>4
    <3>2. \A i \in 1 .. Len(D) - 1 : Tail(D)[i] = D[i + 1]
      BY <1>3
    <3>3. Len(Tail(D)) = Len(D) - 1
      BY <1>3
    <3> QED
      BY <1>1, <1>8, <1>10, <3>1, <3>2, <3>3 DEF Copied
  <2> QED
    BY <2>2, <2>5, <2>6
<1> QED
  BY <1>12, <1>13, <1>14, <1>15

LEMMA SendBookmarkKeeps ==
  ASSUME StoreInvariant, StreamsTyped, NEW c \in Watchers, WatcherInvariant(c), SendBookmark(c)
  PROVE  WatcherInvariant(c)'
<1> USE DEF WatcherInvariant
<1> DEFINE C == channel[c]
           m == Bookmark(cursor[c])
<1>1. /\ Running(c) /\ due[c] = <<>> /\ channel'[c] = Append(C, m)
      /\ UNCHANGED <<resources, seq, state, token, checkpoint, view, cursor, due>>
  BY StreamTypes, MessageTypes DEF SendBookmark, clientVars, memoryVars
<1>2. /\ C \in Seq(Object \cup Mark) /\ Len(C) \in Nat
      /\ checkpoint[c] \in Nat /\ cursor[c] \in Nat
      /\ \A i \in 1 .. Len(C) : RvOf(C[i]) \in Nat
  BY WatcherTypes
<1>3. m \in Mark /\ IsBookmark(m) /\ RvOf(m) = cursor[c]
  BY <1>2 DEF Bookmark, Mark, IsBookmark, RvOf
<1>4. /\ Len(Append(C, m)) = Len(C) + 1
      /\ \A i \in 1 .. Len(C) : Append(C, m)[i] = C[i]
      /\ Append(C, m)[Len(C) + 1] = m
  BY <1>2, <1>3, Ends
<1>5. \A i \in 1 .. Len(C) :
        /\ checkpoint[c] <= RvOf(C[i]) /\ RvOf(C[i]) <= cursor[c]
        /\ ~IsBookmark(C[i]) => Truthful(c, C[i])
        /\ \A j \in 1 .. i - 1 :
             RvOf(C[j]) <= RvOf(C[i]) /\ (~IsBookmark(C[i]) => RvOf(C[j]) < RvOf(C[i]))
  BY DEF ChannelAscends
<1> HIDE DEF C, m
<1>6. Quiet(c)' /\ Positions(c)' /\ DueAscends(c)'
  BY <1>1 DEF Quiet, Positions, DueAscends, Running, Truthful, Agrees
<1>7. ChannelAscends(c)'
  <2>1. ASSUME NEW i \in 1 .. Len(C) + 1
        PROVE  LET o == Append(C, m)[i] IN
                 /\ checkpoint[c] <= RvOf(o) /\ RvOf(o) <= cursor[c]
                 /\ ~IsBookmark(o) => Truthful(c, o)
                 /\ \A j \in 1 .. i - 1 :
                      /\ RvOf(Append(C, m)[j]) <= RvOf(o)
                      /\ ~IsBookmark(o) => RvOf(Append(C, m)[j]) < RvOf(o)
    <3>1. CASE i = Len(C) + 1
      <4>1. \A j \in 1 .. i - 1 : j \in 1 .. Len(C)
        BY <1>2, <3>1
      <4>2. checkpoint[c] <= cursor[c] /\ cursor[c] <= cursor[c]
        BY <1>1, <1>2 DEF Positions
      <4> QED
        BY <1>3, <1>4, <1>5, <3>1, <4>1, <4>2
    <3>2. CASE i # Len(C) + 1
      <4>1. i \in 1 .. Len(C) /\ \A j \in 1 .. i - 1 : j \in 1 .. Len(C)
        BY <1>2, <3>2
      <4> QED
        BY <1>4, <1>5, <4>1
    <3> QED
      BY <3>1, <3>2
  <2>2. checkpoint'[c] = checkpoint[c] /\ cursor'[c] = cursor[c] /\ UNCHANGED resources
    BY <1>1
  <2>3. channel'[c] = Append(C, m)
    BY <1>1 DEF C
  <2> QED
    BY <1>4, <2>1, <2>2, <2>3, SMTT(30) DEF ChannelAscends, Truthful, Agrees
<1>8. ASSUME NEW k \in Scope[c], resources'[k] # Nil
      PROVE  Held(c, k)' /\ Sent(c, k)' /\ Copied(c, k)'
  <2>1. resources[k] # Nil /\ Held(c, k) /\ Sent(c, k) /\ Copied(c, k)
    BY <1>1, <1>8
  <2>2. Held(c, k)' /\ Copied(c, k)'
    BY <1>1, <2>1 DEF Held, PageListed, Agrees, Copied
  <2>3. ASSUME checkpoint[c] < resources[k].rv, resources[k].rv <= cursor[c]
        PROVE  \E i \in 1 .. Len(C) + 1 :
                 /\ ~IsBookmark(Append(C, m)[i])
                 /\ Append(C, m)[i].key = k /\ Append(C, m)[i].rv = resources[k].rv
    <3>1. PICK i \in 1 .. Len(C) :
            ~IsBookmark(C[i]) /\ C[i].key = k /\ C[i].rv = resources[k].rv
      BY <1>1, <2>1, <2>3 DEF Sent, C
    <3>2. i \in 1 .. Len(C) + 1 /\ Append(C, m)[i] = C[i]
      BY <1>2, <1>4
    <3> QED
      BY <3>1, <3>2
  <2>4. Sent(c, k)'
    BY <1>1, <1>4, <2>3 DEF Sent, C
  <2> QED
    BY <2>2, <2>4
<1> QED
  BY <1>6, <1>7, <1>8

LEMMA ReceiveKeeps ==
  ASSUME StoreInvariant, StreamsTyped, NEW c \in Watchers, WatcherInvariant(c), Receive(c)
  PROVE  WatcherInvariant(c)'
<1> USE DEF WatcherInvariant
<1> DEFINE C == channel[c]
           m == C[1]
<1>1. /\ state[c] = "live" /\ C # <<>> /\ channel'[c] = Tail(C)
      /\ checkpoint'[c] = RvOf(Head(C))
      /\ UNCHANGED <<resources, seq, state, token, cursor, due>>
  BY StreamTypes, MessageTypes DEF Receive, memoryVars, RvOf
<1>2. /\ C \in Seq(Object \cup Mark) /\ Len(C) \in Nat
      /\ checkpoint[c] \in Nat /\ cursor[c] \in Nat /\ seq \in Nat
      /\ \A i \in 1 .. Len(C) : C[i] \in Object \cup Mark /\ RvOf(C[i]) \in Nat
  BY WatcherTypes
<1>3. /\ 1 \in 1 .. Len(C) /\ Head(C) = m /\ Len(Tail(C)) = Len(C) - 1
      /\ \A i \in 1 .. Len(C) - 1 : i + 1 \in 1 .. Len(C) /\ Tail(C)[i] = C[i + 1]
  BY <1>1, <1>2, Ends
<1>4. \A k \in Keys : view'[c][k] =
        IF ~IsBookmark(m) /\ k = m.key THEN m.row ELSE view[c][k]
  <2>1. view' = IF ~IsBookmark(m) THEN [view EXCEPT ![c][m.key] = m.row] ELSE view
    BY <1>3 DEF Receive
  <2>2. view \in [Watchers -> [Keys -> Row \cup {Nil}]]
    BY StreamTypes
  <2> HIDE DEF m
  <2> QED
    BY <2>1, <2>2
<1>5. \A i \in 1 .. Len(C) :
        /\ checkpoint[c] <= RvOf(C[i]) /\ RvOf(C[i]) <= cursor[c]
        /\ ~IsBookmark(C[i]) => Truthful(c, C[i]) /\ RvOf(C[i]) = C[i].rv
        /\ \A j \in 1 .. i - 1 :
             RvOf(C[j]) <= RvOf(C[i]) /\ (~IsBookmark(C[i]) => RvOf(C[j]) < RvOf(C[i]))
  BY DEF ChannelAscends, RvOf
<1> HIDE DEF C, m
<1>6. channel'[c] = Tail(C) /\ checkpoint'[c] = RvOf(m) /\ RvOf(m) \in Nat
  BY <1>1, <1>2, <1>3 DEF C, m
<1>7. checkpoint[c] <= RvOf(m) /\ RvOf(m) <= cursor[c]
  BY <1>3, <1>5 DEF m
<1>8. Running(c) /\ Running(c)'
  BY <1>1 DEF Running
<1>9. Quiet(c)' /\ Positions(c)' /\ DueAscends(c)'
  <2>1. RvOf(m) <= seq
    BY <1>2, <1>6, <1>7 DEF Positions
  <2> QED
    BY <1>1, <1>6, <1>7, <1>8, <2>1 DEF Quiet, Positions, DueAscends, Truthful, Agrees
<1>10. ChannelAscends(c)'
  <2>1. ASSUME NEW i \in 1 .. Len(C) - 1
        PROVE  /\ RvOf(m) <= RvOf(C[i + 1]) /\ RvOf(C[i + 1]) <= cursor[c]
               /\ ~IsBookmark(C[i + 1]) => Truthful(c, C[i + 1])
               /\ \A j \in 1 .. i - 1 :
                    /\ Tail(C)[j] = C[j + 1]
                    /\ RvOf(C[j + 1]) <= RvOf(C[i + 1])
                    /\ ~IsBookmark(C[i + 1]) => RvOf(C[j + 1]) < RvOf(C[i + 1])
    <3>1. i + 1 \in 1 .. Len(C) /\ 1 \in 1 .. (i + 1) - 1
      BY <1>2
    <3>2. \A j \in 1 .. i - 1 : j \in 1 .. Len(C) - 1 /\ j + 1 \in 1 .. (i + 1) - 1
      BY <1>2
    <3> QED
      BY <1>3, <1>5, <3>1, <3>2 DEF m
  <2>2. \A i \in 1 .. Len(Tail(C)) :
          /\ RvOf(m) <= RvOf(Tail(C)[i]) /\ RvOf(Tail(C)[i]) <= cursor[c]
          /\ ~IsBookmark(Tail(C)[i]) => Truthful(c, Tail(C)[i])
          /\ \A j \in 1 .. i - 1 :
               /\ RvOf(Tail(C)[j]) <= RvOf(Tail(C)[i])
               /\ ~IsBookmark(Tail(C)[i]) => RvOf(Tail(C)[j]) < RvOf(Tail(C)[i])
    BY <1>3, <2>1
  <2>3. /\ channel'[c] = Tail(C) /\ checkpoint'[c] = RvOf(m) /\ cursor'[c] = cursor[c]
        /\ UNCHANGED resources
    BY <1>1, <1>6
  <2> QED
    BY <2>2, <2>3, NewChannel
<1>11. ASSUME NEW k \in Scope[c], resources'[k] # Nil
       PROVE  Held(c, k)' /\ Sent(c, k)' /\ Copied(c, k)'
  <2> DEFINE v == resources[k].rv
  <2>1. /\ k \in Keys /\ resources[k] # Nil /\ v \in Nat
        /\ Held(c, k) /\ Sent(c, k) /\ Copied(c, k)
    BY <1>1, <1>11, WatcherTypes
  <2>2. Copied(c, k)'
    BY <1>1, <2>1 DEF Copied
  <2>3. ASSUME v <= RvOf(m) PROVE Agrees(k, view'[c][k])
    <3>1. CASE ~IsBookmark(m) /\ k = m.key
      <4>1. Truthful(c, m) /\ RvOf(m) = m.rv
        BY <1>3, <1>5, <3>1 DEF m
      <4>2. m.rv = v
        BY <1>6, <2>1, <2>3, <3>1, <4>1 DEF Truthful
      <4> QED
        BY <1>4, <2>1, <3>1, <4>1, <4>2 DEF Truthful
    <3>2. CASE IsBookmark(m) \/ k # m.key
      <4>1. view'[c][k] = view[c][k]
        BY <1>4, <2>1, <3>2
      <4>2. CASE v <= checkpoint[c]
        BY <1>1, <2>1, <4>1, <4>2 DEF Held, PageListed
      <4>3. CASE checkpoint[c] < v
        <5>1. v <= cursor[c]
          BY <1>2, <1>6, <1>7, <2>1, <2>3
        <5>2. PICK i \in 1 .. Len(C) : ~IsBookmark(C[i]) /\ C[i].key = k /\ C[i].rv = v
          BY <1>8, <2>1, <4>3, <5>1 DEF Sent, C
        <5>3. i # 1 /\ 1 \in 1 .. i - 1
          BY <3>2, <5>2 DEF m
        <5>4. RvOf(m) < v
          BY <1>5, <5>2, <5>3 DEF m
        <5> QED
          BY <1>6, <2>1, <2>3, <5>4
      <4> QED
        BY <1>2, <2>1, <4>2, <4>3
    <3> QED
      BY <3>1, <3>2
  <2>4. Held(c, k)'
    BY <1>1, <1>6, <2>3 DEF Held, Agrees
  <2>5. ASSUME RvOf(m) < v, v <= cursor[c]
        PROVE  \E i \in 1 .. Len(C) - 1 :
                 ~IsBookmark(C[i + 1]) /\ C[i + 1].key = k /\ C[i + 1].rv = v
    <3>1. checkpoint[c] < v
      BY <1>2, <1>6, <1>7, <2>1, <2>5
    <3>2. PICK i \in 1 .. Len(C) : ~IsBookmark(C[i]) /\ C[i].key = k /\ C[i].rv = v
      BY <1>8, <2>1, <2>5, <3>1 DEF Sent, C
    <3>3. RvOf(C[i]) = v
      BY <1>5, <3>2
    <3>4. i # 1
      BY <1>6, <2>1, <2>5, <3>3 DEF m
    <3>5. i - 1 \in 1 .. Len(C) - 1 /\ (i - 1) + 1 = i
      BY <1>2, <3>4
    <3> QED
      BY <3>2, <3>5
  <2>6. Sent(c, k)'
    <3>1. Len(Tail(C)) = Len(C) - 1 /\ \A i \in 1 .. Len(C) - 1 : Tail(C)[i] = C[i + 1]
      BY <1>3
    <3> QED
      BY <1>1, <1>6, <2>5, <3>1 DEF Sent
  <2> QED
    BY <2>2, <2>4, <2>6
<1> QED
  BY <1>9, <1>10, <1>11

LEMMA ExitKeeps ==
  ASSUME StoreInvariant, StreamsTyped, NEW c \in Watchers, WatcherInvariant(c), Exit(c)
  PROVE  WatcherInvariant(c)'
<1> USE DEF WatcherInvariant
<1>1. /\ state[c] = "cancelled" /\ state'[c] = "closed" /\ due'[c] = <<>> /\ channel'[c] = <<>>
      /\ UNCHANGED <<resources, seq, token, checkpoint, view, cursor>>
  BY StreamTypes, MessageTypes DEF Exit, memoryVars
<1>2. Quiet(c)' /\ Positions(c)' /\ ChannelAscends(c)' /\ DueAscends(c)'
  BY <1>1 DEF Quiet, Positions, ChannelAscends, DueAscends, Running
<1>3. ASSUME NEW k \in Scope[c], resources'[k] # Nil
      PROVE  Held(c, k)' /\ Sent(c, k)' /\ Copied(c, k)'
  BY <1>1, <1>3 DEF Held, Sent, Copied, PageListed, Agrees, Running
<1> QED
  BY <1>2, <1>3

LEMMA CancelKeeps ==
  ASSUME StoreInvariant, StreamsTyped, NEW c \in Watchers, WatcherInvariant(c), Cancel(c)
  PROVE  WatcherInvariant(c)'
<1> USE DEF WatcherInvariant
<1>1. /\ state[c] = "live" /\ state'[c] = "cancelled"
      /\ UNCHANGED <<resources, seq, token, checkpoint, view, cursor, due, channel>>
  BY StreamTypes, MessageTypes DEF Cancel, goroutineVars, memoryVars
<1>2. Quiet(c)' /\ Positions(c)' /\ ChannelAscends(c)' /\ DueAscends(c)'
  BY <1>1 DEF Quiet, Positions, ChannelAscends, DueAscends, Running, Truthful, Agrees
<1>3. ASSUME NEW k \in Scope[c], resources'[k] # Nil
      PROVE  Held(c, k)' /\ Sent(c, k)' /\ Copied(c, k)'
  BY <1>1, <1>3 DEF Held, Sent, Copied, PageListed, Agrees, Running
<1> QED
  BY <1>2, <1>3

LEMMA ResumeKeeps ==
  ASSUME StoreInvariant, StreamsTyped, NEW c \in Watchers, WatcherInvariant(c), Resume(c)
  PROVE  WatcherInvariant(c)'
<1> USE WatcherTypes DEF WatcherInvariant
<1>1. /\ state[c] = "closed" /\ state'[c] = "live" /\ cursor'[c] = checkpoint[c]
      /\ due[c] = <<>> /\ channel[c] = <<>>
      /\ UNCHANGED <<resources, seq, token, checkpoint, view, due, channel>>
  BY StreamTypes, MessageTypes DEF Resume, Quiet, Running, memoryVars
<1>2. Quiet(c)' /\ Positions(c)' /\ ChannelAscends(c)' /\ DueAscends(c)'
  BY <1>1 DEF Quiet, Positions, ChannelAscends, DueAscends, Running
<1>3. ASSUME NEW k \in Scope[c], resources'[k] # Nil
      PROVE  Held(c, k)' /\ Sent(c, k)' /\ Copied(c, k)'
  BY <1>1, <1>3 DEF Held, Sent, Copied, PageListed, Agrees
<1> QED
  BY <1>2, <1>3

LEMMA WatchersKept ==
  ASSUME StoreInvariant, StreamsTyped, WatchersInvariant, [MemoryNext]_allVars
  PROVE  WatchersInvariant'
<1> SUFFICES ASSUME NEW d \in Watchers PROVE WatcherInvariant(d)'
  BY DEF WatchersInvariant
<1>1. WatcherInvariant(d) /\ d \in Streams
  BY MessageTypes DEF WatchersInvariant
<1>2. CASE [Next]_memoryVars /\ UNCHANGED streamVars
  BY <1>1, <1>2, StoreUnderWatcher
<1>3. ASSUME NEW c \in Streams, StreamStep(c), c # d PROVE WatcherInvariant(d)'
  BY <1>1, <1>3, OneStreamMoves, WatcherElsewhere
<1>4. CASE StreamStep(d)
  BY <1>1, <1>4, MessageTypes, ListPageKeeps, SendBookmarkKeeps, CollectKeeps, SendKeeps,
     ExitKeeps, ReceiveKeeps, CancelKeeps, ResumeKeeps DEF StreamStep
<1> QED
  BY <1>2, <1>3, <1>4, StepIsOne

--------------------------------------------------------------------------------
(* Followers.                                                              *)

LEMMA FollowerTypes ==
  ASSUME StoreInvariant, StreamsTyped, NEW c \in Followers
  PROVE  /\ c \in Streams /\ c \notin Watchers /\ Follows[c] \in Runs
         /\ seq \in Nat /\ checkpoint[c] \in Nat /\ cursor[c] \in Nat
         /\ received[c] \in Seq(Event) /\ due[c] \in Seq(Event) /\ channel[c] \in Seq(Event)
         /\ Len(received[c]) \in Nat /\ Len(due[c]) \in Nat /\ Len(channel[c]) \in Nat
         /\ EventsOf(Follows[c]) \in Seq(Event) /\ Len(EventsOf(Follows[c])) \in Nat
         /\ \A n \in 1 .. Len(EventsOf(Follows[c])) :
              /\ EventsOf(Follows[c])[n].rv \in Nat /\ 0 < EventsOf(Follows[c])[n].rv
         /\ \A m, n \in 1 .. Len(EventsOf(Follows[c])) :
              m < n => EventsOf(Follows[c])[m].rv < EventsOf(Follows[c])[n].rv
<1>1. c \in Streams /\ c \notin Watchers /\ Follows[c] \in Runs
  BY MessageTypes
<1>2. seq \in Nat /\ checkpoint[c] \in Nat /\ cursor[c] \in Nat
  BY <1>1, StreamTypes, StoreTypes
<1>3. received[c] \in Seq(Event) /\ due[c] \in Seq(Event) /\ channel[c] \in Seq(Event)
  BY StreamTypes
<1>4. Len(received[c]) \in Nat /\ Len(due[c]) \in Nat /\ Len(channel[c]) \in Nat
  BY <1>3, Ends
<1>5. EventsOf(Follows[c]) \in Seq(Event) /\ Len(EventsOf(Follows[c])) \in Nat
  BY <1>1, RunsEvents DEF StoreInvariant
<1>6. /\ \A n \in 1 .. Len(EventsOf(Follows[c])) :
           /\ EventsOf(Follows[c])[n].rv \in Nat /\ 0 < EventsOf(Follows[c])[n].rv
      /\ \A m, n \in 1 .. Len(EventsOf(Follows[c])) :
           m < n => EventsOf(Follows[c])[m].rv < EventsOf(Follows[c])[n].rv
  BY <1>1, EventsRise
<1> QED
  BY <1>1, <1>2, <1>3, <1>4, <1>5, <1>6

LEMMA SameRun == \A r : UNCHANGED memoryVars => EventsOf(r)' = EventsOf(r)
BY DEF memoryVars, EventsOf

(* A stream that stays as it is while its run at most grows.               *)
LEMMA FollowerStays ==
  ASSUME StoreInvariant, StreamsTyped, NEW c \in Followers, FollowerInvariant(c),
         NEW M, M = EventsOf(Follows[c])', Len(M) \in Nat, Len(EventsOf(Follows[c])) <= Len(M),
         \A n \in 1 .. Len(EventsOf(Follows[c])) : M[n] = EventsOf(Follows[c])[n],
         state'[c] = state[c], checkpoint'[c] = checkpoint[c], cursor'[c] = cursor[c],
         due'[c] = due[c], channel'[c] = channel[c], received'[c] = received[c]
  PROVE  FollowerInvariant(c)'
<1> DEFINE L == EventsOf(Follows[c])
           n == Len(received[c])
           e == Len(channel[c])
           d == Len(due[c])
<1>1. n \in Nat /\ e \in Nat /\ d \in Nat /\ Len(L) \in Nat
  BY FollowerTypes
<1>2. /\ Quiet(c)
      /\ n + e + d <= Len(L)
      /\ \A i \in 1 .. n : received[c][i] = L[i]
      /\ \A i \in 1 .. e : channel[c][i] = L[n + i]
      /\ \A i \in 1 .. d : due[c][i] = L[n + e + i]
      /\ checkpoint[c] = IF n = 0 THEN 0 ELSE L[n].rv
      /\ Running(c) => cursor[c] = IF n + e = 0 THEN 0 ELSE L[n + e].rv
  BY DEF FollowerInvariant
<1>3. /\ Len(L) <= Len(M) /\ Len(M) \in Nat
      /\ \A i \in 1 .. Len(L) : M[i] = L[i]
  OBVIOUS
<1> HIDE DEF L, n, e, d
<1>4. /\ n + e + d <= Len(M)
      /\ \A i \in 1 .. n : i \in 1 .. Len(L)
      /\ \A i \in 1 .. e : n + i \in 1 .. Len(L)
      /\ \A i \in 1 .. d : n + e + i \in 1 .. Len(L)
      /\ n # 0 => n \in 1 .. Len(L)
      /\ n + e # 0 => n + e \in 1 .. Len(L)
  BY <1>1, <1>2, <1>3
<1>5. /\ \A i \in 1 .. n : received[c][i] = M[i]
      /\ \A i \in 1 .. e : channel[c][i] = M[n + i]
      /\ \A i \in 1 .. d : due[c][i] = M[n + e + i]
      /\ checkpoint[c] = IF n = 0 THEN 0 ELSE M[n].rv
      /\ Running(c) => cursor[c] = IF n + e = 0 THEN 0 ELSE M[n + e].rv
  BY <1>2, <1>3, <1>4
<1>6. /\ state'[c] = state[c] /\ checkpoint'[c] = checkpoint[c] /\ cursor'[c] = cursor[c]
      /\ due'[c] = due[c] /\ channel'[c] = channel[c] /\ received'[c] = received[c]
      /\ EventsOf(Follows[c])' = M
  OBVIOUS
<1>7. Quiet(c)' /\ (Running(c)' <=> Running(c))
  BY <1>2, <1>6 DEF Quiet, Running
<1> QED
  BY <1>4, <1>5, <1>6, <1>7 DEF FollowerInvariant, n, e, d

LEMMA FollowerElsewhere ==
  ASSUME StoreInvariant, StreamsTyped, NEW c \in Streams, Elsewhere(c),
         NEW d \in Followers, d # c, FollowerInvariant(d)
  PROVE  FollowerInvariant(d)'
<1>1. /\ state'[d] = state[d] /\ checkpoint'[d] = checkpoint[d] /\ cursor'[d] = cursor[d]
      /\ due'[d] = due[d] /\ channel'[d] = channel[d] /\ received'[d] = received[d]
      /\ EventsOf(Follows[d])' = EventsOf(Follows[d])
  BY MessageTypes, SameRun DEF Elsewhere
<1>2. Len(EventsOf(Follows[d])) \in Nat
  BY FollowerTypes
<1>3. Len(EventsOf(Follows[d])) <= Len(EventsOf(Follows[d]))
  BY <1>2
<1> QED
  BY <1>1, <1>2, <1>3, FollowerStays

LEMMA StoreUnderFollower ==
  ASSUME StoreInvariant, StreamsTyped, [Next]_memoryVars, UNCHANGED streamVars,
         NEW c \in Followers, FollowerInvariant(c)
  PROVE  FollowerInvariant(c)'
<1>1. UNCHANGED <<state, checkpoint, cursor, due, channel, received>>
  BY DEF streamVars, clientVars, goroutineVars
<1>2. Follows[c] \in Runs
  BY FollowerTypes
<1> QED
  BY <1>1, <1>2, RunsOnlyGrow, FollowerStays

(* A follower that has R of its run L, with C on its way and D copied.     *)
Continues(L, R, C, D) ==
  /\ Len(R) + Len(C) + Len(D) <= Len(L)
  /\ \A i \in 1 .. Len(R) : R[i] = L[i]
  /\ \A i \in 1 .. Len(C) : C[i] = L[Len(R) + i]
  /\ \A i \in 1 .. Len(D) : D[i] = L[Len(R) + Len(C) + i]

(* The version of the last of n events of L.                               *)
VersionAt(L, n) == IF n = 0 THEN 0 ELSE L[n].rv

(* A step that leaves nothing on its way,                                  *)
LEMMA IdleFollower ==
  ASSUME NEW c, NEW L, L = EventsOf(Follows[c]), UNCHANGED memoryVars,
         NEW R, NEW C, NEW D,
         received'[c] = R, channel'[c] = C, due'[c] = D, Continues(L, R, C, D),
         checkpoint'[c] = VersionAt(L, Len(R)),
         D = <<>> /\ C = <<>>,
         state'[c] \in {"live", "cancelled"} => cursor'[c] = VersionAt(L, Len(R) + Len(C))
  PROVE  FollowerInvariant(c)'
<1>1. EventsOf(Follows[c])' = L
  BY SameRun
<1>2. Quiet(c)'
  BY DEF Quiet, Running
<1> QED
  BY <1>1, <1>2 DEF FollowerInvariant, Quiet, Running, Continues, VersionAt

(* and one that leaves the goroutine running.                              *)
LEMMA RunningFollower ==
  ASSUME NEW c, NEW L, L = EventsOf(Follows[c]), UNCHANGED memoryVars,
         NEW R, NEW C, NEW D,
         received'[c] = R, channel'[c] = C, due'[c] = D, Continues(L, R, C, D),
         checkpoint'[c] = VersionAt(L, Len(R)), cursor'[c] = VersionAt(L, Len(R) + Len(C)),
         state'[c] \in {"live", "cancelled"}
  PROVE  FollowerInvariant(c)'
<1>1. EventsOf(Follows[c])' = L
  BY SameRun
<1>2. Quiet(c)'
  BY DEF Quiet, Running
<1> QED
  BY <1>1, <1>2 DEF FollowerInvariant, Continues, VersionAt

LEMMA FollowerHas ==
  ASSUME NEW c, FollowerInvariant(c)
  PROVE  /\ Quiet(c)
         /\ Continues(EventsOf(Follows[c]), received[c], channel[c], due[c])
         /\ checkpoint[c] = VersionAt(EventsOf(Follows[c]), Len(received[c]))
         /\ Running(c) =>
              cursor[c] = VersionAt(EventsOf(Follows[c]), Len(received[c]) + Len(channel[c]))
BY DEF FollowerInvariant, Continues, VersionAt

LEMMA ListEventsKeeps ==
  ASSUME StoreInvariant, StreamsTyped, NEW c \in Followers, FollowerInvariant(c), ListEvents(c)
  PROVE  FollowerInvariant(c)'
<1> DEFINE L == EventsOf(Follows[c])
           n == Len(received[c])
           A == Answer(c)
           a == Len(A)
           R == received[c] \o A
           v == IF A = <<>> THEN checkpoint[c] ELSE A[a].rv
<1>1. /\ received[c] \in Seq(Event) /\ n \in Nat /\ Len(L) \in Nat
      /\ A \in Seq(Event) /\ a \in Nat
  BY FollowerTypes, FollowersAreSentEvents
<1>2. /\ state[c] = "list" /\ due[c] = <<>> /\ channel[c] = <<>>
      /\ n + Len(channel[c]) + Len(due[c]) <= Len(L)
      /\ \A i \in 1 .. n : received[c][i] = L[i]
      /\ checkpoint[c] = IF n = 0 THEN 0 ELSE L[n].rv
  BY DEF FollowerInvariant, Quiet, Running, ListEvents
<1>3. n <= Len(L) /\ n \in 0 .. Len(L)
  <2>1. Len(channel[c]) = 0 /\ Len(due[c]) = 0
    BY <1>2
  <2> HIDE DEF n, L
  <2> QED
    BY <1>1, <1>2, <2>1
<1>4. n + a <= Len(L) /\ \A i \in 1 .. a : A[i] = L[n + i]
  BY <1>3, AnswerContinues
<1>5. /\ UNCHANGED memoryVars /\ received'[c] = R /\ checkpoint'[c] = v
      /\ due'[c] = <<>> /\ channel'[c] = <<>>
      /\ \/ state'[c] = "list"
         \/ state'[c] = "live" /\ cursor'[c] = v
  <2>1. received' = [received EXCEPT ![c] = R] /\ checkpoint' = [checkpoint EXCEPT ![c] = v]
    BY DEF ListEvents
  <2>2. received'[c] = R /\ checkpoint'[c] = v
    BY <2>1, StreamTypes, FollowerTypes
  <2> HIDE DEF R, v
  <2>3. \/ state' = state
        \/ /\ state' = [state EXCEPT ![c] = "live"]
           /\ cursor' = [cursor EXCEPT ![c] = checkpoint'[c]]
    BY DEF ListEvents
  <2>4. UNCHANGED memoryVars /\ UNCHANGED <<due, channel>>
    BY DEF ListEvents
  <2> QED
    BY <1>2, <2>2, <2>3, <2>4, StreamTypes, FollowerTypes
<1>6. Len(R) = n + a /\ \A i \in 1 .. n + a : R[i] = L[i]
  <2>1. /\ Len(R) = n + a
        /\ \A i \in 1 .. n + a : R[i] = IF i <= n THEN received[c][i] ELSE A[i - n]
    BY <1>1
  <2>2. \A i \in 1 .. n + a : ~(i <= n) => i - n \in 1 .. a /\ n + (i - n) = i
    BY <1>1
  <2>3. \A i \in 1 .. n + a : i <= n => i \in 1 .. n
    BY <1>1
  <2> HIDE DEF R, A, a, n, L
  <2> QED
    BY <1>2, <1>4, <2>1, <2>2, <2>3
<1>7. v = IF Len(R) = 0 THEN 0 ELSE L[Len(R)].rv
  <2>1. A = <<>> <=> a = 0
    BY <1>1
  <2>2. a # 0 => a \in 1 .. a /\ n + a # 0
    BY <1>1
  <2> HIDE DEF A, a, n, L, R
  <2>3. CASE a = 0
    BY <1>1, <1>2, <1>6, <2>1, <2>3
  <2>4. CASE a # 0
    BY <1>1, <1>4, <1>6, <2>1, <2>2, <2>4
  <2> QED
    BY <2>3, <2>4
<1> HIDE DEF R, v, A, a, n
<1>8. Len(R) + Len(<<>>) + Len(<<>>) <= Len(L) /\ Len(R) + Len(<<>>) = Len(R)
  BY <1>1, <1>4, <1>6
<1>9. state'[c] \in {"live", "cancelled"} => cursor'[c] = v
  BY <1>5
<1>10. \A i \in 1 .. Len(R) : R[i] = L[i]
  BY <1>6
<1>11. Continues(L, R, <<>>, <<>>)
  BY <1>8, <1>10 DEF Continues
<1>12. v = VersionAt(L, Len(R)) /\ Len(R) + Len(<<>>) = Len(R)
  BY <1>7, <1>8 DEF VersionAt
<1>13. L = EventsOf(Follows[c])
  OBVIOUS
<1> HIDE DEF L
<1> QED
  BY <1>5, <1>11, <1>12, <1>13, IdleFollower

LEMMA FollowerCollectKeeps ==
  ASSUME StoreInvariant, StreamsTyped, NEW c \in Followers, FollowerInvariant(c), Collect(c)
  PROVE  FollowerInvariant(c)'
<1> DEFINE L == EventsOf(Follows[c])
           R == received[c]
           C == channel[c]
           D == DueEvents(c)
           n == Len(R) + Len(C)
<1>1. Len(R) \in Nat /\ Len(C) \in Nat /\ Len(L) \in Nat /\ L = EventsOf(Follows[c])
  BY FollowerTypes
<1>2. /\ Running(c) /\ due'[c] = D /\ state'[c] \in {"live", "cancelled"}
      /\ UNCHANGED memoryVars
      /\ received'[c] = R /\ channel'[c] = C
      /\ checkpoint'[c] = checkpoint[c] /\ cursor'[c] = cursor[c]
      /\ Len(due[c]) = 0
  BY StreamTypes, FollowerTypes DEF Collect, clientVars, Running
<1>3. /\ Len(R) + Len(C) + Len(due[c]) <= Len(L)
      /\ \A i \in 1 .. Len(R) : R[i] = L[i]
      /\ \A i \in 1 .. Len(C) : C[i] = L[Len(R) + i]
      /\ checkpoint[c] = VersionAt(L, Len(R))
      /\ cursor[c] = VersionAt(L, n)
  BY <1>2, FollowerHas DEF Continues
<1>4. n \in 0 .. Len(L)
  <2> HIDE DEF L, R, C
  <2> QED
    BY <1>1, <1>2, <1>3
<1>5. Len(D) = Len(L) - n /\ \A i \in 1 .. Len(D) : D[i] = L[n + i]
  <2>1. L = EventsOf(Follows[c]) /\ D = DueEvents(c)
    OBVIOUS
  <2>2. cursor[c] = IF n = 0 THEN 0 ELSE L[n].rv
    BY <1>3 DEF VersionAt
  <2> HIDE DEF L, D, n
  <2> QED
    BY <1>4, <2>1, <2>2, CopyContinues, SMTT(30)
<1> HIDE DEF L, R, C, D
<1>6. Continues(L, R, C, D)
  BY <1>1, <1>3, <1>4, <1>5 DEF Continues
<1>7. checkpoint'[c] = VersionAt(L, Len(R)) /\ cursor'[c] = VersionAt(L, Len(R) + Len(C))
  BY <1>2, <1>3
<1> QED
  BY <1>1, <1>2, <1>6, <1>7, RunningFollower

LEMMA FollowerSendKeeps ==
  ASSUME StoreInvariant, StreamsTyped, NEW c \in Followers, FollowerInvariant(c), Send(c)
  PROVE  FollowerInvariant(c)'
<1> DEFINE L == EventsOf(Follows[c])
           R == received[c]
           C == channel[c]
           D == due[c]
           m == D[1]
           n == Len(R) + Len(C)
<1>1. /\ Len(R) \in Nat /\ Len(C) \in Nat /\ Len(D) \in Nat /\ Len(L) \in Nat
      /\ C \in Seq(Event) /\ D \in Seq(Event) /\ cursor[c] \in Nat
  BY FollowerTypes
<1>2. /\ Running(c) /\ D # <<>>
      /\ channel'[c] = Append(C, Head(D)) /\ due'[c] = Tail(D)
      /\ cursor'[c] = IF Head(D).rv > cursor[c] THEN Head(D).rv ELSE cursor[c]
      /\ UNCHANGED memoryVars /\ UNCHANGED <<state, checkpoint, received>>
  BY StreamTypes, FollowerTypes DEF Send, clientVars
<1>3. /\ Len(R) + Len(C) + Len(D) <= Len(L)
      /\ \A i \in 1 .. Len(R) : R[i] = L[i]
      /\ \A i \in 1 .. Len(C) : C[i] = L[Len(R) + i]
      /\ \A i \in 1 .. Len(D) : D[i] = L[Len(R) + Len(C) + i]
      /\ checkpoint[c] = IF Len(R) = 0 THEN 0 ELSE L[Len(R)].rv
      /\ cursor[c] = IF n = 0 THEN 0 ELSE L[n].rv
  BY <1>2 DEF FollowerInvariant
<1>4. /\ 1 \in 1 .. Len(D) /\ Head(D) = m /\ m \in Event /\ Len(Tail(D)) = Len(D) - 1
      /\ \A i \in 1 .. Len(D) - 1 : i + 1 \in 1 .. Len(D) /\ Tail(D)[i] = D[i + 1]
  BY <1>1, <1>2, Ends
<1>5. /\ Len(Append(C, m)) = Len(C) + 1
      /\ \A i \in 1 .. Len(C) : Append(C, m)[i] = C[i]
      /\ Append(C, m)[Len(C) + 1] = m
  BY <1>1, <1>4, Ends
<1>6. m = L[n + 1]
  BY <1>3, <1>4
<1>7. /\ \A i \in 1 .. Len(L) : L[i].rv \in Nat /\ 0 < L[i].rv
      /\ \A i, j \in 1 .. Len(L) : i < j => L[i].rv < L[j].rv
  BY FollowerTypes
<1> HIDE DEF L, R, C, D, m
<1>8. n \in Nat /\ n + 1 \in 1 .. Len(L) /\ (n # 0 => n \in 1 .. Len(L) /\ n < n + 1)
  BY <1>1, <1>3, <1>4
<1>9. cursor'[c] = L[n + 1].rv
  <2>1. m.rv > cursor[c]
    BY <1>1, <1>3, <1>6, <1>7, <1>8
  <2> QED
    BY <1>2, <1>4, <1>6, <2>1
<1> DEFINE C1 == Append(C, m)
           D1 == Tail(D)
<1>10. /\ Len(C1) = Len(C) + 1 /\ Len(D1) = Len(D) - 1
       /\ Len(R) + Len(C1) = n + 1
       /\ Len(R) + Len(C1) + Len(D1) <= Len(L)
  <2>1. Len(C1) = Len(C) + 1 /\ Len(D1) = Len(D) - 1
    BY <1>4, <1>5
  <2>2. Len(R) + Len(C) + Len(D) <= Len(L)
    BY <1>3
  <2> HIDE DEF C1, D1
  <2>3. Len(R) + Len(C1) = Len(R) + Len(C) + 1
    BY <1>1, <2>1
  <2>4. Len(R) + Len(C1) + Len(D1) = Len(R) + Len(C) + Len(D)
    BY <1>1, <2>1
  <2> QED
    BY <2>1, <2>2, <2>3, <2>4
<1>11. \A i \in 1 .. Len(C1) : C1[i] = L[Len(R) + i]
  <2>1. \A i \in 1 .. Len(C) + 1 : i \in 1 .. Len(C) \/ i = Len(C) + 1
    BY <1>1
  <2>2. Len(R) + (Len(C) + 1) = n + 1
    BY <1>1
  <2> QED
    BY <1>3, <1>5, <1>6, <2>1, <2>2
<1>12. \A i \in 1 .. Len(D1) : D1[i] = L[Len(R) + Len(C1) + i]
  <2>1. \A i \in 1 .. Len(D) - 1 : n + (i + 1) = (n + 1) + i
    BY <1>8
  <2> QED
    BY <1>3, <1>4, <1>10, <2>1
<1>13. /\ state'[c] \in {"live", "cancelled"} /\ UNCHANGED memoryVars
       /\ received'[c] = R /\ channel'[c] = C1 /\ due'[c] = D1
       /\ checkpoint'[c] = checkpoint[c]
  BY <1>2, <1>4 DEF R, C, D, Running
<1> HIDE DEF C1, D1, n
<1>14. Continues(L, R, C1, D1)
  <2>1. Len(R) + Len(C1) + Len(D1) <= Len(L)
    BY <1>10
  <2>2. \A i \in 1 .. Len(R) : R[i] = L[i]
    BY <1>3
  <2> QED
    BY <1>11, <1>12, <2>1, <2>2, Zenon DEF Continues
<1>15. cursor'[c] = VersionAt(L, Len(R) + Len(C1))
  BY <1>8, <1>9, <1>10 DEF VersionAt
<1>16. L = EventsOf(Follows[c]) /\ checkpoint[c] = VersionAt(L, Len(R))
  BY <1>3 DEF L, VersionAt
<1> QED
  BY <1>13, <1>14, <1>15, <1>16, RunningFollower

LEMMA FollowerReceiveKeeps ==
  ASSUME StoreInvariant, StreamsTyped, NEW c \in Followers, FollowerInvariant(c), Receive(c)
  PROVE  FollowerInvariant(c)'
<1> DEFINE L == EventsOf(Follows[c])
           R == received[c]
           C == channel[c]
           D == due[c]
           m == C[1]
           n == Len(R)
           R1 == Append(R, m)
           C1 == Tail(C)
<1>1. /\ Len(R) \in Nat /\ Len(C) \in Nat /\ Len(D) \in Nat /\ Len(L) \in Nat
      /\ R \in Seq(Event) /\ C \in Seq(Event) /\ C # <<>>
  BY FollowerTypes DEF Receive
<1>2. /\ 1 \in 1 .. Len(C) /\ Head(C) = m /\ m \in Event /\ ~IsBookmark(m)
      /\ Len(C1) = Len(C) - 1
      /\ \A i \in 1 .. Len(C) - 1 : i + 1 \in 1 .. Len(C) /\ C1[i] = C[i + 1]
  BY <1>1, Ends, MessageTypes
<1>3. /\ state[c] = "live" /\ state'[c] = "live" /\ UNCHANGED memoryVars
      /\ channel'[c] = C1 /\ due'[c] = D /\ cursor'[c] = cursor[c]
  BY StreamTypes, FollowerTypes DEF Receive
<1>4. checkpoint'[c] = m.rv /\ received'[c] = R1
  BY <1>2, StreamTypes, FollowerTypes DEF Receive
<1>5. /\ Continues(L, R, C, D) /\ cursor[c] = VersionAt(L, Len(R) + Len(C))
  BY <1>3, FollowerHas DEF Running
<1>6. /\ Len(R1) = n + 1
      /\ \A i \in 1 .. n : R1[i] = R[i]
      /\ R1[n + 1] = m
  BY <1>1, <1>2, Ends
<1> HIDE DEF L, R, C, D, m, R1, C1
<1>7. m = L[n + 1]
  BY <1>2, <1>5 DEF Continues
<1>8. \A i \in 1 .. Len(R1) : R1[i] = L[i]
  <2>1. \A i \in 1 .. n + 1 : i \in 1 .. n \/ i = n + 1
    BY <1>1
  <2> QED
    BY <1>5, <1>6, <1>7, <2>1 DEF Continues
<1>9. \A i \in 1 .. Len(C1) : C1[i] = L[Len(R1) + i]
  <2>1. \A i \in 1 .. Len(C) - 1 : n + (i + 1) = (n + 1) + i
    BY <1>1
  <2> QED
    BY <1>2, <1>5, <1>6, <2>1 DEF Continues
<1>10. Len(R1) + Len(C1) = Len(R) + Len(C)
  BY <1>1, <1>2, <1>6
<1>11. Len(R1) + Len(C1) + Len(D) <= Len(L)
  BY <1>5, <1>10 DEF Continues
<1>12. \A i \in 1 .. Len(D) : D[i] = L[Len(R1) + Len(C1) + i]
  BY <1>5, <1>10 DEF Continues
<1>13. Continues(L, R1, C1, D)
  BY <1>8, <1>9, <1>11, <1>12, Zenon DEF Continues
<1>14. checkpoint'[c] = VersionAt(L, Len(R1))
  <2>1. n + 1 # 0
    BY <1>1
  <2> QED
    BY <1>4, <1>6, <1>7, <2>1 DEF VersionAt
<1>15. cursor'[c] = VersionAt(L, Len(R1) + Len(C1))
  BY <1>3, <1>5, <1>10
<1>16. L = EventsOf(Follows[c]) /\ state'[c] \in {"live", "cancelled"}
  BY <1>3 DEF L
<1> QED
  BY <1>3, <1>4, <1>13, <1>14, <1>15, <1>16, RunningFollower

LEMMA FollowerExitKeeps ==
  ASSUME StoreInvariant, StreamsTyped, NEW c \in Followers, FollowerInvariant(c), Exit(c)
  PROVE  FollowerInvariant(c)'
<1> DEFINE L == EventsOf(Follows[c])
           R == received[c]
<1>1. /\ UNCHANGED memoryVars /\ state'[c] = "closed"
      /\ received'[c] = R /\ channel'[c] = <<>> /\ due'[c] = <<>>
      /\ checkpoint'[c] = checkpoint[c]
  BY StreamTypes, FollowerTypes DEF Exit
<1>2. /\ Len(R) \in Nat /\ Len(channel[c]) \in Nat /\ Len(due[c]) \in Nat /\ Len(L) \in Nat
      /\ Continues(L, R, channel[c], due[c]) /\ checkpoint[c] = VersionAt(L, Len(R))
      /\ L = EventsOf(Follows[c])
  BY FollowerHas, FollowerTypes
<1>3. Len(<<>>) = 0 /\ \A i \in 1 .. Len(<<>>) : FALSE
  OBVIOUS
<1> DEFINE e == Len(channel[c])
           d == Len(due[c])
<1>5. Len(R) + e + d <= Len(L) /\ \A i \in 1 .. Len(R) : R[i] = L[i]
  BY <1>2 DEF Continues
<1> HIDE DEF L, R, e, d
<1>6. Len(R) + 0 + 0 <= Len(L)
  <2>1. Len(R) \in Nat /\ Len(L) \in Nat /\ e \in Nat /\ d \in Nat
    BY <1>2 DEF e, d
  <2> QED
    BY <1>5, <2>1
<1>4. Continues(L, R, <<>>, <<>>)
  BY <1>3, <1>5, <1>6 DEF Continues
<1> QED
  BY <1>1, <1>2, <1>4, IdleFollower

LEMMA FollowerCancelKeeps ==
  ASSUME StoreInvariant, StreamsTyped, NEW c \in Followers, FollowerInvariant(c), Cancel(c)
  PROVE  FollowerInvariant(c)'
<1>1. /\ UNCHANGED memoryVars /\ state[c] = "live" /\ state'[c] = "cancelled"
      /\ received'[c] = received[c] /\ channel'[c] = channel[c] /\ due'[c] = due[c]
      /\ checkpoint'[c] = checkpoint[c] /\ cursor'[c] = cursor[c]
  BY StreamTypes, FollowerTypes DEF Cancel, goroutineVars
<1> QED
  BY <1>1, FollowerHas, RunningFollower DEF Running

LEMMA FollowerResumeKeeps ==
  ASSUME StoreInvariant, StreamsTyped, NEW c \in Followers, FollowerInvariant(c), Resume(c)
  PROVE  FollowerInvariant(c)'
<1>1. /\ UNCHANGED memoryVars /\ state[c] = "closed" /\ state'[c] = "live"
      /\ received'[c] = received[c] /\ channel'[c] = channel[c] /\ due'[c] = due[c]
      /\ checkpoint'[c] = checkpoint[c] /\ cursor'[c] = checkpoint[c]
  BY StreamTypes, FollowerTypes DEF Resume
<1>2. channel[c] = <<>> /\ due[c] = <<>>
  BY <1>1, FollowerHas DEF Quiet, Running
<1>3. Len(received[c]) + Len(channel[c]) = Len(received[c])
  BY <1>2, FollowerTypes
<1>4. cursor'[c] = VersionAt(EventsOf(Follows[c]), Len(received[c]) + Len(channel[c]))
  BY <1>1, <1>3, FollowerHas
<1> QED
  BY <1>1, <1>2, <1>4, FollowerHas, RunningFollower

LEMMA FollowersKept ==
  ASSUME StoreInvariant, StreamsTyped, FollowersInvariant, [MemoryNext]_allVars
  PROVE  FollowersInvariant'
<1> SUFFICES ASSUME NEW d \in Followers PROVE FollowerInvariant(d)'
  BY DEF FollowersInvariant
<1>1. FollowerInvariant(d) /\ d \in Streams /\ d \notin Watchers
  BY MessageTypes DEF FollowersInvariant
<1>2. CASE [Next]_memoryVars /\ UNCHANGED streamVars
  BY <1>1, <1>2, StoreUnderFollower
<1>3. ASSUME NEW c \in Streams, StreamStep(c), c # d PROVE FollowerInvariant(d)'
  BY <1>1, <1>3, OneStreamMoves, FollowerElsewhere
<1>4. CASE StreamStep(d)
  BY <1>1, <1>4, ListEventsKeeps, FollowerCollectKeeps, FollowerSendKeeps, FollowerExitKeeps,
     FollowerReceiveKeeps, FollowerCancelKeeps, FollowerResumeKeeps DEF StreamStep
<1> QED
  BY <1>2, <1>3, <1>4, StepIsOne

--------------------------------------------------------------------------------
(* The contract.                                                           *)

(* What ResourceContract sees of the events: the versions of a run's.      *)
RunVersions(r) == [n \in 1 .. Len(EventsOf(r)) |-> EventsOf(r)[n].rv]

LEMMA RunVersionsGrow ==
  ASSUME TypeOK, NEW r \in Runs, AppendEvent(r), NEW q \in Runs
  PROVE  RunVersions(q)' = IF q = r THEN Append(RunVersions(r), seq + 1) ELSE RunVersions(q)
<1>1. EventsOf(q) \in Seq(Event) /\ Len(EventsOf(q)) \in Nat
  BY RunsEvents
<1>2. CASE q # r
  BY <1>2, RunsGrow DEF RunVersions
<1>3. CASE q = r
  <2> DEFINE L == EventsOf(r)
             N == Len(L)
  <2>1. NewEvent(r) \in Event /\ EventsOf(r)' = Append(L, NewEvent(r)) /\ NewEvent(r).rv = seq + 1
    BY RunsGrow DEF NewEvent
  <2>2. /\ N \in Nat
        /\ Len(Append(L, NewEvent(r))) = N + 1
        /\ \A n \in 1 .. N : Append(L, NewEvent(r))[n] = L[n]
        /\ Append(L, NewEvent(r))[N + 1] = NewEvent(r)
    BY <1>1, <1>3, <2>1, Ends
  <2>3. RunVersions(r)' = [n \in 1 .. N + 1 |-> Append(L, NewEvent(r))[n].rv]
    BY <2>1, <2>2 DEF RunVersions
  <2>4. RunVersions(r) = [n \in 1 .. N |-> L[n].rv]
    BY DEF RunVersions
  <2>5. \A n \in 1 .. N : L[n].rv \in Nat
    <3>1. \A n \in 1 .. N : L[n] \in Event
      BY <1>1, <1>3, Ends
    <3> QED
      BY <3>1 DEF Event
  <2> HIDE DEF L, N
  <2>6. RunVersions(r) \in Seq(Nat) /\ Len(RunVersions(r)) = N
    BY <2>2, <2>4, <2>5
  <2>7. seq + 1 \in Nat
    BY StoreTypes
  <2>8. Append(RunVersions(r), seq + 1)
          = [n \in 1 .. N + 1 |-> IF n = N + 1 THEN seq + 1 ELSE RunVersions(r)[n]]
    BY <2>6
  <2>9. \A n \in 1 .. N + 1 :
          Append(L, NewEvent(r))[n].rv = IF n = N + 1 THEN seq + 1 ELSE RunVersions(r)[n]
    <3>1. \A n \in 1 .. N + 1 : n = N + 1 \/ n \in 1 .. N
      BY <2>2
    <3> QED
      BY <2>1, <2>2, <2>4, <3>1
  <2> QED
    BY <1>3, <2>3, <2>8, <2>9
<1> QED
  BY <1>2, <1>3

(* Nothing appended: every log stays.                                      *)
LEMMA RunVersionsStay == events' = events => \A r : RunVersions(r)' = RunVersions(r)
BY DEF RunVersions, EventsOf

LEMMA ContractStarts == Init => Contract!Init
<1> SUFFICES ASSUME Init PROVE Contract!Init
  OBVIOUS
<1>1. StoreInvariant
  BY StoreInvariantStarts
<1>2. \A r \in Runs : Len(EventsOf(r)) = 0
  BY <1>1 DEF Init, StoreInvariant, EventsNumbered
<1>3. [r \in Runs |-> RunVersions(r)] = [r \in Runs |-> <<>>]
  BY <1>2 DEF RunVersions
<1> QED
  BY <1>3 DEF Init, Keys, Contract!Init, Contract!Keys, RunVersions

(* Rows with the same fields are the same.                                 *)
LEMMA SameRow ==
  ASSUME NEW a \in Row, NEW b \in Row, a.spec = b.spec, a.meta = b.meta, a.status = b.status,
         a.gen = b.gen, a.rv = b.rv
  PROVE  a = b
BY DEF Row

(* What Apply stores over a row.                                           *)
LEMMA StoredOver ==
  ASSUME TypeOK, \A k \in Keys : SentStatus[k] = Nil,
         NEW k \in Keys, NEW s \in Specs, NEW m \in Metas, resources[k] # Nil,
         Changed(k, s, m)
  PROVE  /\ seq + 1 \in Nat /\ resources[k] \in Row /\ resources[k].gen + 1 \in Nat
         /\ Stored(k, s, m) \in Row
         /\ Stored(k, s, m).spec = s /\ Stored(k, s, m).meta = m
         /\ Stored(k, s, m).status = resources[k].status
         /\ Stored(k, s, m).gen =
              IF resources[k].spec = s THEN resources[k].gen ELSE resources[k].gen + 1
         /\ Stored(k, s, m).rv = seq + 1
<1>1. seq \in Nat /\ seq + 1 \in Nat /\ resources[k] \in Row /\ SentStatus[k] = Nil
  BY StoreTypes
<1>2. /\ resources[k].gen \in Nat /\ resources[k].gen + 1 \in Nat
      /\ resources[k].status \in Statuses \cup {Nil}
  BY <1>1 DEF Row
<1> DEFINE g == IF resources[k].spec = s THEN resources[k].gen ELSE resources[k].gen + 1
           st == resources[k].status
           v  == seq + 1
<1>3. Stored(k, s, m) = [spec |-> s, meta |-> m, status |-> st, gen |-> g, rv |-> v]
  BY <1>1 DEF Stored
<1>4. g \in Nat /\ st \in Statuses \cup {Nil} /\ v \in Nat
  BY <1>1, <1>2
<1>5. g = IF resources[k].spec = s THEN resources[k].gen ELSE resources[k].gen + 1
  OBVIOUS
<1>6. st = resources[k].status /\ v = seq + 1
  OBVIOUS
<1> HIDE DEF g, st, v
<1>7. Stored(k, s, m) \in Row
  BY <1>3, <1>4 DEF Row
<1>8. /\ Stored(k, s, m).spec = s /\ Stored(k, s, m).meta = m /\ Stored(k, s, m).status = st
      /\ Stored(k, s, m).gen = g /\ Stored(k, s, m).rv = v
  BY <1>3
<1> QED
  BY <1>1, <1>2, <1>5, <1>6, <1>7, <1>8

(* An Apply that stores is one operation of the contract, one that changes *)
(* nothing is none.                                                        *)
LEMMA ApplyIsContract ==
  ASSUME TypeOK, \A k \in Keys : SentStatus[k] = Nil,
         NEW k \in Keys, NEW s \in Specs, NEW m \in Metas, NEW ifRV, Apply(k, s, m, ifRV)
  PROVE  [Contract!Next]_(Contract!vars)
<1>1. /\ seq \in Nat /\ resources \in [Keys -> Row \cup {Nil}]
      /\ resources' = [resources EXCEPT ![k] = Stored(k, s, m)] /\ events' = events
      /\ seq' = IF Changed(k, s, m) THEN seq + 1 ELSE seq
  BY StoreTypes DEF Apply
<1>2. UNCHANGED [r \in Runs |-> RunVersions(r)]
  BY <1>1, RunVersionsStay
<1>3. k \in MutableKeys \/ resources[k] = Nil
  BY DEF Apply, Keys
<1>4. CASE resources[k] = Nil
  <2>1. /\ seq' = seq + 1
        /\ resources' = [resources EXCEPT ![k] =
             [spec |-> s, meta |-> m, status |-> Nil, gen |-> 1, rv |-> seq']]
    BY <1>1, <1>4 DEF Changed, Stored
  <2>2. Contract!Create(k)
    BY <1>2, <1>4, <2>1 DEF Contract!Create, RunVersions
  <2>3. seq' > seq
    BY <1>1, <2>1
  <2> QED
    BY <2>2, <2>3 DEF Contract!Next, Contract!Keys, Keys
<1>5. CASE resources[k] # Nil /\ resources[k].spec # s
  <2>1. resources[k] \in Row
    BY <1>1, <1>5
  <2>2. seq' = seq + 1 /\ seq' > seq
    BY <1>1, <1>5 DEF Changed
  <2>3. Stored(k, s, m) = [resources[k] EXCEPT !.spec = s, !.meta = m, !.rv = seq',
                                              !.gen = resources[k].gen + 1]
    <3>1. Changed(k, s, m)
      BY <1>5 DEF Changed
    <3>2. PICK old, new, v, g :
            old = resources[k] /\ new = Stored(k, s, m) /\ v = seq' /\ g = resources[k].gen + 1
      OBVIOUS
    <3>3. /\ v \in Nat /\ old \in Row /\ g \in Nat /\ new \in Row
          /\ new.spec = s /\ new.meta = m /\ new.status = old.status /\ new.gen = g /\ new.rv = v
      <4>1. /\ seq + 1 \in Nat /\ resources[k] \in Row /\ resources[k].gen + 1 \in Nat
            /\ Stored(k, s, m) \in Row
            /\ Stored(k, s, m).spec = s /\ Stored(k, s, m).meta = m
            /\ Stored(k, s, m).status = resources[k].status
            /\ Stored(k, s, m).gen =
                 IF resources[k].spec = s THEN resources[k].gen ELSE resources[k].gen + 1
            /\ Stored(k, s, m).rv = seq + 1
        BY <1>5, <3>1, StoredOver
      <4>2. resources[k].gen \in Nat
        BY <4>1 DEF Row
      <4> QED
        BY <1>5, <2>2, <3>2, <4>1, <4>2
    <3>4. PICK other : other = [old EXCEPT !.spec = s, !.meta = m, !.rv = v, !.gen = g]
      OBVIOUS
    <3>5. /\ other \in Row /\ other.spec = s /\ other.meta = m /\ other.status = old.status
          /\ other.gen = g /\ other.rv = v
      BY <3>3, <3>4 DEF Row
    <3>6. new = other
      BY <1>5, <3>2, <3>3, <3>5, SameRow
    <3> QED
      BY <3>2, <3>4, <3>6
  <2>4. resources' = [resources EXCEPT ![k].spec = s, ![k].meta = m, ![k].rv = seq',
                                      ![k].gen = resources[k].gen + 1]
    BY <1>1, <2>3
  <2>5. Contract!ChangeSpec(k)
    BY <1>2, <1>5, <2>4 DEF Contract!ChangeSpec, RunVersions
  <2> QED
    BY <1>3, <1>5, <2>2, <2>5 DEF Contract!Next
<1>6. CASE resources[k] # Nil /\ resources[k].spec = s /\ resources[k].meta # m
  <2>1. resources[k] \in Row
    BY <1>1, <1>6
  <2>2. seq' = seq + 1 /\ seq' > seq
    BY <1>1, <1>6 DEF Changed
  <2>3. Stored(k, s, m) = [resources[k] EXCEPT !.meta = m, !.rv = seq']
    <3>1. Changed(k, s, m)
      BY <1>6 DEF Changed
    <3>2. PICK old, new, v, g :
            old = resources[k] /\ new = Stored(k, s, m) /\ v = seq' /\ g = resources[k].gen
      OBVIOUS
    <3>3. /\ v \in Nat /\ old \in Row /\ g \in Nat /\ new \in Row
          /\ new.spec = s /\ new.meta = m /\ new.status = old.status /\ new.gen = g /\ new.rv = v
      <4>1. /\ seq + 1 \in Nat /\ resources[k] \in Row /\ resources[k].gen + 1 \in Nat
            /\ Stored(k, s, m) \in Row
            /\ Stored(k, s, m).spec = s /\ Stored(k, s, m).meta = m
            /\ Stored(k, s, m).status = resources[k].status
            /\ Stored(k, s, m).gen =
                 IF resources[k].spec = s THEN resources[k].gen ELSE resources[k].gen + 1
            /\ Stored(k, s, m).rv = seq + 1
        BY <1>6, <3>1, StoredOver
      <4>2. resources[k].gen \in Nat
        BY <4>1 DEF Row
      <4> QED
        BY <1>6, <2>2, <3>2, <4>1, <4>2
    <3>4. PICK other : other = [old EXCEPT !.meta = m, !.rv = v]
      OBVIOUS
    <3>5. /\ other \in Row /\ other.spec = old.spec /\ other.meta = m /\ other.status = old.status
          /\ other.gen = old.gen /\ other.rv = v
      BY <3>3, <3>4 DEF Row
    <3>6. new = other
      BY <1>6, <3>2, <3>3, <3>5, SameRow
    <3> QED
      BY <3>2, <3>4, <3>6
  <2>4. resources' = [resources EXCEPT ![k].meta = m, ![k].rv = seq']
    BY <1>1, <2>3
  <2>5. Contract!ChangeMeta(k)
    BY <1>2, <1>6, <2>4 DEF Contract!ChangeMeta, RunVersions
  <2> QED
    BY <1>3, <1>6, <2>2, <2>5 DEF Contract!Next
<1>7. CASE resources[k] # Nil /\ resources[k].spec = s /\ resources[k].meta = m
  <2>1. resources[k] \in Row
    BY <1>1, <1>7
  <2>2. Stored(k, s, m) = resources[k] /\ seq' = seq
    BY <1>1, <1>7, <2>1 DEF Stored, Changed, Row
  <2>3. resources' = resources
    BY <1>1, <2>2
  <2> QED
    BY <1>2, <2>2, <2>3 DEF Contract!vars, RunVersions
<1> QED
  BY <1>4, <1>5, <1>6, <1>7

LEMMA ContractGoesOn ==
  ASSUME StoreInvariant, \A k \in Keys : SentStatus[k] = Nil, [Next]_memoryVars
  PROVE  [Contract!Next]_(Contract!vars)
<1>1. TypeOK /\ seq \in Nat /\ resources \in [Keys -> Row \cup {Nil}]
  BY StoreTypes DEF StoreInvariant
<1>2. CASE UNCHANGED memoryVars
  BY <1>2, RunVersionsStay DEF memoryVars, Contract!vars, RunVersions
<1>3. ASSUME NEW k \in Keys, NEW st \in Statuses, ApplyStatus(k, st)
      PROVE  Contract!Next
  <2>1. /\ seq' = seq + 1 /\ events' = events /\ resources[k] # Nil
        /\ resources' = [resources EXCEPT ![k].status = st, ![k].rv = seq']
    BY <1>1, <1>3 DEF ApplyStatus
  <2>2. UNCHANGED [r \in Runs |-> RunVersions(r)]
    BY <2>1, RunVersionsStay
  <2>3. Contract!ApplyStatus(k)
    BY <2>1, <2>2 DEF Contract!ApplyStatus, RunVersions
  <2>4. seq' > seq
    BY <1>1, <2>1
  <2> QED
    BY <2>3, <2>4 DEF Contract!Next, Contract!Keys, Keys
<1>4. ASSUME NEW r \in Runs, AppendEvent(r)
      PROVE  Contract!Next
  <2> DEFINE V == [q \in Runs |-> RunVersions(q)]
  <2>1. seq' = seq + 1 /\ UNCHANGED resources /\ seq' > seq
    BY <1>1, <1>4 DEF AppendEvent
  <2>2. \A q \in Runs : V'[q] = IF q = r THEN Append(RunVersions(r), seq + 1) ELSE RunVersions(q)
    BY <1>1, <1>4, RunVersionsGrow
  <2>3. V' = [V EXCEPT ![r] = Append(V[r], seq')]
    BY <2>1, <2>2
  <2>4. Contract!AppendEvent(r)
    BY <2>1, <2>3 DEF Contract!AppendEvent, RunVersions
  <2> QED
    BY <2>1, <2>4 DEF Contract!Next
<1> QED
  BY <1>1, <1>2, <1>3, <1>4, ApplyIsContract DEF Next

--------------------------------------------------------------------------------
(* What holds of every behaviour.                                          *)

Everything == StoreInvariant /\ StreamsTyped /\ WatchersInvariant /\ FollowersInvariant

LEMMA EverythingStarts == MemoryInit => Everything
<1> SUFFICES ASSUME MemoryInit PROVE Everything
  OBVIOUS
<1>1. StoreInvariant
  BY StoreInvariantStarts DEF MemoryInit
<1>2. /\ \A c \in Watchers : c \in Streams /\ Scope[c] \subseteq Keys
      /\ \A c \in Followers : c \in Streams /\ Follows[c] \in Runs
  BY MessageTypes
<1>3. /\ seq = 0 /\ \A k \in Keys : resources[k] = Nil
      /\ \A c \in Streams : /\ state[c] = "list" /\ checkpoint[c] = 0 /\ cursor[c] = 0
                            /\ due[c] = <<>> /\ channel[c] = <<>>
      /\ \A c \in Followers : received[c] = <<>>
  BY DEF MemoryInit, Init
<1>4. StreamsTyped
  <2>1. TypeOK
    BY <1>1 DEF StoreInvariant
  <2>2. \A S : <<>> \in Seq(S)
    OBVIOUS
  <2>3. /\ state \in [Streams -> States] /\ token \in [Watchers -> Keys \cup {Nil}]
        /\ checkpoint \in [Streams -> Nat] /\ cursor \in [Streams -> Nat]
        /\ view \in [Watchers -> [Keys -> Row \cup {Nil}]] /\ drops \in Nat
    BY DEF MemoryInit, States
  <2>4. /\ received \in [Followers -> Seq(Event)]
        /\ due \in [Streams -> Seq(Message)] /\ channel \in [Streams -> Seq(Message)]
    BY <2>2 DEF MemoryInit
  <2> QED
    BY <1>2, <1>3, <2>1, <2>2, <2>3, <2>4 DEF StreamsTyped, StreamTypeOK
<1>5. WatchersInvariant
  BY <1>2, <1>3 DEF WatchersInvariant, WatcherInvariant, Quiet, Positions, ChannelAscends,
     DueAscends, Running
<1>6. FollowersInvariant
  <2> SUFFICES ASSUME NEW c \in Followers PROVE FollowerInvariant(c)
    BY DEF FollowersInvariant
  <2>1. Len(EventsOf(Follows[c])) = 0
    BY <1>1, <1>2, <1>3 DEF StoreInvariant, EventsNumbered, MemoryInit, Init
  <2> DEFINE L == EventsOf(Follows[c])
  <2>2. /\ Len(<<>>) = 0 /\ 0 + 0 + 0 = 0 /\ 0 + 0 = 0 /\ 0 <= 0
        /\ \A i \in 1 .. 0 : FALSE
    OBVIOUS
  <2>3. /\ state[c] = "list" /\ received[c] = <<>> /\ channel[c] = <<>> /\ due[c] = <<>>
        /\ checkpoint[c] = 0 /\ cursor[c] = 0
    BY <1>2, <1>3
  <2>4. Quiet(c) /\ ~Running(c)
    BY <2>3 DEF Quiet, Running
  <2> HIDE DEF L
  <2>5. /\ 0 + 0 + 0 <= Len(L)
        /\ \A i \in 1 .. 0 : received[c][i] = L[i]
        /\ \A i \in 1 .. 0 : channel[c][i] = L[0 + i]
        /\ \A i \in 1 .. 0 : due[c][i] = L[0 + 0 + i]
    BY <2>1, <2>2 DEF L
  <2> QED
    BY <2>2, <2>3, <2>4, <2>5 DEF FollowerInvariant, L
<1> QED
  BY <1>1, <1>4, <1>5, <1>6 DEF Everything

LEMMA EverythingKept == Everything /\ [MemoryNext]_allVars => Everything'
BY StoreUnderneath, StoreInvariantKept, StreamsTypedKept, WatchersKept, FollowersKept
   DEF Everything

LEMMA EverythingHolds == MemorySpec => []Everything
BY EverythingStarts, EverythingKept, PTL DEF MemorySpec

(* Rows, messages, cursors and queues stay well formed, and so does every  *)
(* map of the store (memory.go:24-60), through every call and every        *)
(* stream.                                                                 *)
THEOREM MemoryTypes == MemorySpec => []StreamTypeOK
<1>1. Everything => StreamTypeOK
  BY DEF Everything, StreamsTyped
<1> QED
  BY <1>1, EverythingHolds, PTL

(* The change log tells every resource's version and is in version order,  *)
(* so a Watch that reads nothing else (memory.go:224-265) passes over no   *)
(* resource.                                                               *)
THEOREM ChangeLogIsComplete == MemorySpec => []LogTellsVersions
<1>1. Everything => LogTellsVersions
  BY DEF Everything, StoreInvariant
<1> QED
  BY <1>1, EverythingHolds, PTL

(* A client may resume from the last version it was sent: it holds what    *)
(* the store has had since before that version, all but the status.  emit  *)
(* sends the object it found in the map with the version of the log entry  *)
(* (memory.go:231-254), so a message may carry a newer object than its     *)
(* version says; this never takes a client past a change.  An Apply that   *)
(* only restates a status is not logged (memory.go:106-125), hence the     *)
(* exception.                                                              *)
ViewsCover ==
  \A c \in Watchers : state[c] # "list" =>
    \A k \in Scope[c] :
      resources[k] # Nil /\ resources[k].rv <= checkpoint[c] =>
        /\ view[c][k] \in Row
        /\ view[c][k].spec = resources[k].spec /\ view[c][k].meta = resources[k].meta
        /\ view[c][k].gen = resources[k].gen /\ view[c][k].rv = resources[k].rv
        /\ SentStatus[k] = Nil => view[c][k] = resources[k]

THEOREM WatchersMissNoVersion == MemorySpec => []ViewsCover
<1>1. Everything => ViewsCover
  <2> SUFFICES ASSUME Everything, NEW c \in Watchers, state[c] # "list", NEW k \in Scope[c],
                      resources[k] # Nil, resources[k].rv <= checkpoint[c]
               PROVE  Agrees(k, view[c][k])
    BY DEF ViewsCover, Agrees
  <2> QED
    BY DEF Everything, WatchersInvariant, WatcherInvariant, Held, PageListed
<1> QED
  BY <1>1, EverythingHolds, PTL

(* With the status too, for a watcher of kinds whose handlers send none    *)
(* with Apply.                                                             *)
THEOREM WatchersMissNothing ==
  ASSUME \A c \in Watchers : \A k \in Scope[c] : SentStatus[k] = Nil
  PROVE  MemorySpec => []CheckpointCovers
<1>1. ViewsCover => CheckpointCovers
  BY DEF ViewsCover, CheckpointCovers
<1> QED
  BY <1>1, WatchersMissNoVersion, PTL

(* A follower has a beginning of its run's log, each event once and in its *)
(* place, though ListEvents counts sequence numbers and WatchEvents        *)
(* versions (memory.go:284-345), and whatever streams it gives up.         *)
THEOREM FollowersReadInOrder == MemorySpec => []FollowsInOrder
<1>1. Everything => FollowsInOrder
  <2> SUFFICES ASSUME Everything, NEW c \in Followers
               PROVE  /\ Len(received[c]) <= Len(EventsOf(Follows[c]))
                      /\ \A n \in DOMAIN received[c] :
                           /\ received[c][n] = EventsOf(Follows[c])[n]
                           /\ received[c][n].seq = n
    BY DEF FollowsInOrder
  <2> DEFINE L == EventsOf(Follows[c])
             R == received[c]
  <2>1. /\ Follows[c] \in Runs /\ R \in Seq(Event)
        /\ Len(R) \in Nat /\ Len(channel[c]) \in Nat /\ Len(due[c]) \in Nat /\ Len(L) \in Nat
    BY FollowerTypes DEF Everything
  <2>2. DOMAIN R = 1 .. Len(R)
    BY <2>1
  <2>3. FollowerInvariant(c)
    BY DEF Everything, FollowersInvariant
  <2>4. \A n \in 1 .. Len(L) : L[n].seq = n
    BY <2>1 DEF Everything, StoreInvariant, EventsNumbered
  <2> DEFINE e == Len(channel[c])
             d == Len(due[c])
  <2>5. Len(R) + e + d <= Len(L) /\ \A n \in 1 .. Len(R) : R[n] = L[n]
    BY <2>3 DEF FollowerInvariant
  <2> HIDE DEF L, R, e, d
  <2>6. Len(R) <= Len(L)
    <3>1. e \in Nat /\ d \in Nat /\ Len(R) \in Nat /\ Len(L) \in Nat
      BY <2>1 DEF e, d
    <3> QED
      BY <2>5, <3>1
  <2>7. \A n \in 1 .. Len(R) : n \in 1 .. Len(L)
    BY <2>1, <2>6
  <2>8. \A n \in DOMAIN R : R[n] = L[n] /\ R[n].seq = n
    BY <2>2, <2>4, <2>5, <2>7
  <2> QED
    BY <2>6, <2>8 DEF L, R
<1> QED
  BY <1>1, EverythingHolds, PTL

(* The store the handler tests run on keeps the contract of the production *)
(* store (store.go:55-105): every call that changes something takes effect *)
(* at one instant, at a version above all before, if no handler sends a    *)
(* status with Apply (memory.go:96-217, 267-283).                          *)
THEOREM MemoryKeepsTheContract ==
  ASSUME \A k \in Keys : SentStatus[k] = Nil
  PROVE  MemorySpec => MirrorsContract
<1>1. MemoryInit => Contract!Init
  BY ContractStarts DEF MemoryInit
<1>2. Everything /\ [MemoryNext]_allVars => [Contract!Next]_(Contract!vars)
  BY StoreUnderneath, ContractGoesOn DEF Everything
<1> QED
  BY <1>1, <1>2, EverythingHolds, PTL DEF MemorySpec, MirrorsContract, Contract!Spec

================================================================================
