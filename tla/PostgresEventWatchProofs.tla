------------------------ MODULE PostgresEventWatchProofs ------------------------
(***************************************************************************)
(* Proofs about PostgresEventWatch, for any number of appenders and        *)
(* followers, any runs, limits, poll and channel: what a follower has of   *)
(* its run's log is a prefix of it (ReceivedIsPrefix).                     *)
(*                                                                         *)
(* The two cursors are of different orders: ListEvents goes on by seq,     *)
(* WatchEvents by version.  The invariant says that they mean the same     *)
(* place: the events up to the number of those sent are the events up to   *)
(* the version cursor.  It holds because the store keeps both orders of a  *)
(* log the same (EventLogInOrder) and appends behind both.                 *)
(***************************************************************************)
EXTENDS PostgresEventWatch, PostgresStoreProofs, FiniteSetTheorems, SequenceTheorems

(* Versions start above the cursor of a client that has nothing.           *)
Numbered == \A e \in events : 0 < e.rv

(* The number of the last event sent to c.                                 *)
Sent(c) == Len(received[c]) + Len(channel[c])

HasPrefix(c) ==
  \A n \in 1 .. Len(received[c]) : received[c][n] \in LogOf(c) /\ received[c][n].seq = n

(* The channel goes on where the client is.                                *)
GoesOn(c) ==
  \A n \in 1 .. Len(channel[c]) :
    channel[c][n] \in LogOf(c) /\ channel[c][n].seq = Len(received[c]) + n

Quiet(c) == listing[c] => channel[c] = <<>> /\ batch[c] = {}

(* The version cursor and the number of events sent are one place.         *)
OnePlace(c) ==
  ~listing[c] =>
    /\ cursor[c] <= committed
    /\ \A e \in LogOf(c) : e.seq <= Sent(c) <=> e.rv <= cursor[c]

(* A poll's answer is a beginning of what is behind the cursor.            *)
BatchNext(c) ==
  \A e \in batch[c] :
    /\ e \in LogOf(c) /\ cursor[c] < e.rv
    /\ \A d \in LogOf(c) : cursor[c] < d.rv /\ d.rv <= e.rv => d \in batch[c]

Following(c) == HasPrefix(c) /\ GoesOn(c) /\ Quiet(c) /\ OnePlace(c) /\ BatchNext(c)

AllFollow == \A c \in Followers : Following(c)

StoreInvariant == Inductive /\ EventLogInOrder /\ Numbered

--------------------------------------------------------------------------------
(* The store under the followers.                                          *)

(* A run's log: its seqs are 1 to TopSeq, and seq order is version order.  *)
LEMMA LogFacts ==
  ASSUME StoreInvariant, NEW c \in Followers
  PROVE  /\ committed \in Nat /\ TopSeq(Follows[c]) \in Nat
         /\ \A e \in LogOf(c) : /\ e \in Event /\ e.seq \in 1 .. TopSeq(Follows[c])
                                /\ e.rv \in Nat /\ 0 < e.rv /\ e.rv <= committed
         /\ \A d, e \in LogOf(c) : /\ d.seq = e.seq => d = e
                                   /\ d.seq < e.seq <=> d.rv < e.rv
                                   /\ d.seq <= e.seq <=> d.rv <= e.rv
         /\ \A n \in 1 .. TopSeq(Follows[c]) : \E e \in LogOf(c) : e.seq = n
<1> USE DEF StoreInvariant
<1>1. Follows[c] \in Runs
  BY FollowsAssumption
<1>2. TopSeq(Follows[c]) \in Nat /\ SeqsOf(Follows[c]) = 1 .. TopSeq(Follows[c])
  BY <1>1 DEF Inductive, Log
<1>3. committed \in Nat /\ events \subseteq Event
  BY DEF Inductive, TypeOK
<1>4. \A e \in LogOf(c) : /\ e \in Event /\ e.seq \in 1 .. TopSeq(Follows[c])
                          /\ e.rv \in Nat /\ 0 < e.rv /\ e.rv <= committed
  <2>1. \A e \in LogOf(c) : e \in events /\ e \in Event /\ e.seq \in SeqsOf(Follows[c])
    BY <1>3 DEF LogOf, SeqsOf
  <2>2. \A e \in LogOf(c) : e.rv \in Nat
    BY <2>1 DEF Event
  <2> QED
    BY <1>2, <2>1, <2>2 DEF Inductive, Versions, Numbered
<1>5. ASSUME NEW d \in LogOf(c), NEW e \in LogOf(c)
      PROVE  /\ d.seq = e.seq => d = e
             /\ d.seq < e.seq <=> d.rv < e.rv
             /\ d.seq <= e.seq <=> d.rv <= e.rv
  <2>1. d \in events /\ e \in events /\ d.run = e.run
    BY DEF LogOf
  <2>2. /\ d.seq = e.seq => d = e
        /\ d.seq < e.seq => d.rv < e.rv
        /\ e.seq < d.seq => e.rv < d.rv
    BY <2>1 DEF EventLogInOrder
  <2>3. d.seq \in Nat /\ e.seq \in Nat /\ d.rv \in Nat /\ e.rv \in Nat
    BY <1>2, <1>4
  <2> HIDE DEF StoreInvariant
  <2>4. d.seq = e.seq => d.rv = e.rv
    BY <2>2
  <2> QED
    BY <2>2, <2>3, <2>4
<1>6. \A n \in 1 .. TopSeq(Follows[c]) : \E e \in LogOf(c) : e.seq = n
  BY <1>2 DEF SeqsOf, LogOf
<1> QED
  BY <1>2, <1>3, <1>4, <1>5, <1>6

(* An append puts one event behind everything the log has.                 *)
LEMMA AppendsGoBehind ==
  ASSUME StoreInvariant, [Next]_vars, NEW c \in Followers
  PROVE  /\ committed' \in Nat /\ committed <= committed'
         /\ LogOf(c) \subseteq LogOf(c)'
         /\ \A e \in LogOf(c)' \ LogOf(c) :
              committed < e.rv /\ e.seq = TopSeq(Follows[c]) + 1
<1> USE DEF StoreInvariant
<1>1. committed \in Nat
  BY DEF Inductive, TypeOK
<1>2. CASE UNCHANGED <<rows, events, committed>>
  BY <1>1, <1>2 DEF LogOf
<1>3. ASSUME NEW w \in Writers, Commit(w)
      PROVE  /\ committed' \in Nat /\ committed <= committed'
             /\ LogOf(c) \subseteq LogOf(c)'
             /\ \A e \in LogOf(c)' \ LogOf(c) :
                  committed < e.rv /\ e.seq = TopSeq(Follows[c]) + 1
  <2>1. /\ tx[w].ver \in Nat /\ issued \in Nat
        /\ committed < tx[w].ver /\ tx[w].ver <= issued /\ committed' = issued
    BY <1>3, CommitAdvances
  <2>2. \/ events' = events
        \/ tx[w].call.op = "append" /\ events' = events \cup {NewEvent(w)}
    BY <1>3, CommitChangesOne
  <2>3. ASSUME NEW e, e \in LogOf(c)' \ LogOf(c)
        PROVE  committed < e.rv /\ e.seq = TopSeq(Follows[c]) + 1
    <3>1. e = NewEvent(w) /\ tx[w].call.op = "append" /\ e.run = Follows[c]
      BY <2>2, <2>3 DEF LogOf
    <3>2. tx[w].stage = "written" /\ tx[w].call.run = Follows[c]
      BY <1>3, <3>1 DEF Commit, NewEvent
    <3>3. tx[w].top = TopSeq(Follows[c])
      BY <3>1, <3>2 DEF Inductive, Log
    <3> QED
      BY <2>1, <3>1, <3>3 DEF NewEvent
  <2> QED
    BY <1>1, <2>1, <2>2, <2>3 DEF LogOf
<1> QED
  BY <1>1, <1>2, <1>3, OnlyCommitShows

(* Every event's version is above zero, and stays.                         *)
LEMMA StoreInvariantKept ==
  ASSUME StoreInvariant, [Next]_vars
  PROVE  StoreInvariant'
<1> USE DEF StoreInvariant
<1>1. Inductive' /\ EventLogInOrder'
  BY NextInductive, LogOrderHolds
<1>2. Numbered'
  <2> SUFFICES ASSUME NEW e \in events' PROVE 0 < e.rv
    BY DEF Numbered
  <2>1. CASE e \in events
    BY <2>1 DEF Numbered
  <2>2. CASE e \notin events
    <3>1. PICK w \in Writers : Commit(w) /\ e = NewEvent(w)
      BY <2>2, OnlyCommitShows DEF Commit
    <3>2. e.rv = tx[w].ver
      BY <3>1 DEF NewEvent
    <3>3. tx[w].ver \in Nat /\ committed \in Nat /\ committed < tx[w].ver
      BY <3>1, CommitAdvances DEF Inductive, TypeOK
    <3> QED
      BY <3>2, <3>3
  <2> QED
    BY <2>1, <2>2
<1> QED
  BY <1>1, <1>2

--------------------------------------------------------------------------------
(* ListEvents.                                                             *)

(* A set with one element per seq from a to b has b - a + 1 of them.       *)
LEMMA CountBySeq ==
  ASSUME NEW S, NEW a \in Int, NEW b \in Int,
         \A e \in S : e.seq \in a .. b,
         \A d, e \in S : d.seq = e.seq => d = e,
         \A n \in a .. b : \E e \in S : e.seq = n
  PROVE  /\ IsFiniteSet(S)
         /\ Cardinality(S) = IF a > b THEN 0 ELSE b - a + 1
<1> DEFINE f == [n \in a .. b |-> CHOOSE e \in S : e.seq = n]
<1>1. \A n \in a .. b : f[n] \in S /\ f[n].seq = n
  OBVIOUS
<1>2. f \in [a .. b -> S]
  BY <1>1
<1>3. \A m, n \in a .. b : f[m] = f[n] => m = n
  BY <1>1
<1>4. \A e \in S : \E n \in a .. b : f[n] = e
  BY <1>1
<1> HIDE DEF f
<1>5. f \in Bijection(a .. b, S)
  BY <1>2, <1>3, <1>4 DEF Bijection, Injection, Surjection, IsInjective
<1> QED
  BY <1>5, FS_Interval, FS_Bijection DEF ExistsBijection

(* The types of one follower's variables.                                  *)
LEMMA FollowTypesAt ==
  ASSUME FollowTypeOK, NEW c \in Followers
  PROVE  /\ listing[c] \in BOOLEAN /\ cursor[c] \in Nat /\ batch[c] \in SUBSET Event
         /\ received[c] \in Seq(Event) /\ Len(received[c]) \in Nat
         /\ channel[c] \in Seq(Event) /\ Len(channel[c]) \in Nat
         /\ \A e \in Event : e.seq \in Nat /\ e.rv \in Nat
<1>1. \A e \in Event : e.seq \in Nat /\ e.rv \in Nat
  BY DEF Event
<1> QED
  BY <1>1 DEF FollowTypeOK

(* An ordered set is a sequence of its elements.                           *)
LEMMA BySeqIsFunction ==
  ASSUME NEW S, NEW T, \A i \in 1 .. Cardinality(S) : BySeq(S)[i] \in T
  PROVE  BySeq(S) \in [1 .. Cardinality(S) -> T]
BY DEF BySeq

(* The last of the first events of a log, and none, are places in it.      *)
LEMMA PlaceOfLast ==
  ASSUME StoreInvariant, NEW c \in Followers, NEW r \in Seq(Event),
         \A n \in 1 .. Len(r) : r[n] \in LogOf(c) /\ r[n].seq = n,
         NEW v, v = IF r = <<>> THEN 0 ELSE r[Len(r)].rv
  PROVE  /\ Len(r) <= TopSeq(Follows[c])
         /\ v \in Nat /\ v <= committed
         /\ \A e \in LogOf(c) : e.seq <= Len(r) <=> e.rv <= v
<1>1. CASE r = <<>>
  <2>1. Len(r) = 0 /\ v = 0
    BY <1>1
  <2> QED
    BY <2>1, LogFacts
<1>2. CASE r # <<>>
  <2>1. Len(r) \in 1 .. Len(r)
    BY <1>2, EmptySeq
  <2>2. v = r[Len(r)].rv /\ r[Len(r)] \in LogOf(c) /\ r[Len(r)].seq = Len(r)
    BY <1>2, <2>1
  <2> QED
    BY <2>2, LogFacts
<1> QED
  BY <1>1, <1>2

(* What ListEvents answers: the next events, in order, up to its limit.    *)
LEMMA AnswerIsNext ==
  ASSUME StoreInvariant, FollowTypeOK, NEW c \in Followers, HasPrefix(c)
  PROVE  /\ BySeq(Answer(c)) \in Seq(Event)
         /\ \A i \in 1 .. Len(BySeq(Answer(c))) :
              /\ BySeq(Answer(c))[i] \in LogOf(c)
              /\ BySeq(Answer(c))[i].seq = Len(received[c]) + i
<1> DEFINE n == Len(received[c])
           top == TopSeq(Follows[c])
           b == IF top <= n + Limit THEN top ELSE n + Limit
           A == Answer(c)
<1>1. /\ n \in Nat /\ top \in Nat /\ n <= top /\ LastSeq(c) = n
      /\ Limit \in Nat \ {0} /\ b \in Nat /\ n <= b
  <2>1. n \in Nat /\ received[c] \in Seq(Event)
    BY FollowTypesAt
  <2>2. n <= top /\ top \in Nat
    BY <2>1, PlaceOfLast, LogFacts DEF HasPrefix
  <2>3. LastSeq(c) = n
    <3>1. CASE received[c] = <<>>
      BY <3>1 DEF LastSeq
    <3>2. CASE received[c] # <<>>
      BY <2>1, <3>2, EmptySeq DEF LastSeq, HasPrefix
    <3> QED
      BY <3>1, <3>2
  <2>4. Limit \in Nat \ {0}
    BY LimitsAssumption
  <2> QED
    BY <2>1, <2>2, <2>3, <2>4
<1>2. \A e : e \in Unlisted(c) <=> e \in LogOf(c) /\ e.seq \in n + 1 .. top
  BY <1>1, LogFacts DEF Unlisted
<1>3. \A d, e \in LogOf(c) : d.seq = e.seq => d = e
  BY LogFacts
<1>4. \A i \in n + 1 .. top : \E e \in Unlisted(c) : e.seq = i
  <2> SUFFICES ASSUME NEW i \in n + 1 .. top PROVE \E e \in Unlisted(c) : e.seq = i
    OBVIOUS
  <2>1. i \in 1 .. top
    BY <1>1
  <2>2. PICK e \in LogOf(c) : e.seq = i
    BY <2>1, LogFacts
  <2> QED
    BY <1>2, <2>2
<1> HIDE DEF n, top
<1>5. ASSUME NEW S \in SUBSET Unlisted(c), NEW e \in S,
             \A d \in Unlisted(c) : d.seq < e.seq => d \in S
      PROVE  Cardinality({d \in S : d.seq < e.seq}) = e.seq - n - 1
  <2> DEFINE B == {d \in S : d.seq < e.seq}
  <2>1. e.seq \in n + 1 .. top /\ e.seq - 1 \in Int /\ n + 1 \in Int
    BY <1>1, <1>2
  <2>2. \A d \in B : d.seq \in n + 1 .. e.seq - 1
    BY <1>1, <1>2, <2>1
  <2>3. \A d, x \in B : d.seq = x.seq => d = x
    BY <1>2, <1>3
  <2>4. \A i \in n + 1 .. e.seq - 1 : \E d \in B : d.seq = i
    BY <1>1, <1>4, <1>5, <2>1
  <2>5. Cardinality(B) = IF n + 1 > e.seq - 1 THEN 0 ELSE (e.seq - 1) - (n + 1) + 1
    <3> HIDE DEF B
    <3> QED
      BY <2>1, <2>2, <2>3, <2>4, CountBySeq
  <2> QED
    BY <1>1, <2>1, <2>5
<1>6. \A e : e \in A <=> e \in LogOf(c) /\ e.seq \in n + 1 .. b
  <2>1. \A e \in Unlisted(c) :
          Cardinality({d \in Unlisted(c) : d.seq < e.seq}) = e.seq - n - 1
    BY <1>5
  <2>2. \A e \in Unlisted(c) : e.seq \in n + 1 .. top
    BY <1>2
  <2>3. \A e : e \in A <=> e \in Unlisted(c) /\ e.seq - n - 1 < Limit
    BY <2>1 DEF Answer
  <2> QED
    BY <1>1, <1>2, <2>2, <2>3
<1>7. A \subseteq Unlisted(c)
  BY DEF Answer
<1>8. Cardinality(A) = b - n
  <2>1. \A e \in A : e.seq \in n + 1 .. b
    BY <1>6
  <2>2. \A d, e \in A : d.seq = e.seq => d = e
    BY <1>3, <1>6
  <2>3. \A i \in n + 1 .. b : \E e \in A : e.seq = i
    BY <1>1, <1>2, <1>4, <1>6
  <2>4. n + 1 \in Int /\ b \in Int
    BY <1>1
  <2> HIDE DEF A, b
  <2>5. Cardinality(A) = IF n + 1 > b THEN 0 ELSE b - (n + 1) + 1
    BY <2>1, <2>2, <2>3, <2>4, CountBySeq
  <2> QED
    BY <1>1, <2>4, <2>5
<1>9. \A e \in A : Cardinality({d \in A : d.seq < e.seq}) = e.seq - n - 1
  <2> SUFFICES ASSUME NEW e \in A
               PROVE  Cardinality({d \in A : d.seq < e.seq}) = e.seq - n - 1
    OBVIOUS
  <2>1. \A d \in Unlisted(c) : d.seq < e.seq => d \in A
    BY <1>1, <1>2, <1>6
  <2> QED
    BY <1>5, <1>7, <2>1
<1>10. ASSUME NEW i \in 1 .. b - n
       PROVE  BySeq(A)[i] \in A /\ BySeq(A)[i].seq = n + i
  <2>1. BySeq(A)[i] = CHOOSE e \in A : Cardinality({d \in A : d.seq < e.seq}) = i - 1
    BY <1>8 DEF BySeq
  <2>2. PICK e \in Unlisted(c) : e.seq = n + i
    <3>1. n + i \in n + 1 .. top
      BY <1>1
    <3> QED
      BY <1>4, <3>1
  <2>3. e \in A
    BY <1>1, <1>2, <1>6, <2>2
  <2>4. Cardinality({d \in A : d.seq < e.seq}) = i - 1
    <3>1. e.seq - n - 1 = i - 1
      BY <1>1, <2>2
    <3> QED
      BY <1>9, <2>3, <3>1
  <2> HIDE DEF A
  <2>5. BySeq(A)[i] \in A /\ Cardinality({d \in A : d.seq < BySeq(A)[i].seq}) = i - 1
    BY <2>1, <2>3, <2>4
  <2>6. BySeq(A)[i].seq - n - 1 = i - 1 /\ BySeq(A)[i].seq \in n + 1 .. b
    BY <1>6, <1>9, <2>5
  <2> QED
    BY <1>1, <2>5, <2>6
<1>11. BySeq(A) \in [1 .. b - n -> Event] /\ b - n \in Nat
  <2>1. \A i \in 1 .. b - n : BySeq(A)[i] \in Event
    BY <1>6, <1>10, LogFacts
  <2> HIDE DEF A, b
  <2> QED
    BY <1>1, <1>8, <2>1, BySeqIsFunction
<1>12. BySeq(A) \in Seq(Event) /\ Len(BySeq(A)) = b - n
  BY <1>11, SeqDef, LenProperties
<1> HIDE DEF b
<1> QED
  BY <1>6, <1>10, <1>12 DEF n

--------------------------------------------------------------------------------
(* Types.                                                                  *)

(* Every variable of the followers and of the goroutines.                  *)
LEMMA FollowTypesKept ==
  ASSUME StoreInvariant, FollowTypeOK, AllFollow, [LogNext]_logVars
  PROVE  FollowTypeOK'
<1>1. CASE UNCHANGED followVars
  BY <1>1 DEF followVars, FollowTypeOK
<1>2. ASSUME NEW c \in Followers, ListEvents(c)
      PROVE  FollowTypeOK'
  <2>1. BySeq(Answer(c)) \in Seq(Event)
    BY AnswerIsNext DEF AllFollow, Following
  <2>2. /\ received'[c] = received[c] \o BySeq(Answer(c))
        /\ received' \in [Followers -> Seq(Event)]
    BY <1>2, <2>1 DEF ListEvents, FollowTypeOK
  <2>3. LastVersion(c)' \in Nat
    <3>1. CASE received'[c] = <<>>
      BY <3>1 DEF LastVersion
    <3>2. CASE received'[c] # <<>>
      <4>1. received'[c][Len(received'[c])] \in Event
        BY <2>2, <3>2, EmptySeq, ElementOfSeq
      <4> QED
        BY <3>2, <4>1 DEF LastVersion, Event
    <3> QED
      BY <3>1, <3>2
  <2> QED
    BY <1>2, <2>2, <2>3 DEF ListEvents, FollowTypeOK
<1>3. ASSUME NEW c \in Followers, Poll(c)
      PROVE  FollowTypeOK'
  <2>1. \A e \in LogOf(c) : e \in Event
    BY LogFacts
  <2>2. {e \in Unsent(c) : Cardinality({d \in Unsent(c) : d.rv < e.rv}) < BatchLimit}
          \in SUBSET Event
    BY <2>1 DEF Unsent
  <2> QED
    BY <1>3, <2>2 DEF Poll, FollowTypeOK
<1>4. ASSUME NEW c \in Followers, Deliver(c)
      PROVE  FollowTypeOK'
  <2>1. PICK e \in batch[c] :
          /\ channel' = [channel EXCEPT ![c] = Append(channel[c], e)]
          /\ batch' = [batch EXCEPT ![c] = batch[c] \ {e}]
          /\ cursor' = [cursor EXCEPT ![c] = IF e.rv > cursor[c] THEN e.rv ELSE cursor[c]]
    BY <1>4 DEF Deliver
  <2>2. e \in Event /\ e.rv \in Nat /\ batch[c] \ {e} \in SUBSET Event
    BY FollowTypesAt
  <2>3. Append(channel[c], e) \in Seq(Event)
    BY <2>2, FollowTypesAt
  <2> QED
    BY <1>4, <2>1, <2>2, <2>3 DEF Deliver, FollowTypeOK
<1>5. ASSUME NEW c \in Followers, Receive(c)
      PROVE  FollowTypeOK'
  <2>1. channel[c] # <<>> /\ channel[c] \in Seq(Event) /\ received[c] \in Seq(Event)
    BY <1>5, FollowTypesAt DEF Receive
  <2>2. Head(channel[c]) \in Event /\ Tail(channel[c]) \in Seq(Event)
    BY <2>1
  <2>3. Append(received[c], Head(channel[c])) \in Seq(Event)
    BY <2>1, <2>2
  <2> QED
    BY <1>5, <2>2, <2>3 DEF Receive, FollowTypeOK
<1>6. ASSUME NEW c \in Followers, Reconnect(c)
      PROVE  FollowTypeOK'
  <2>1. LastVersion(c) \in Nat
    BY PlaceOfLast, FollowTypesAt DEF LastVersion, AllFollow, Following, HasPrefix
  <2>2. <<>> \in Seq(Event)
    OBVIOUS
  <2> QED
    BY <1>6, <2>1, <2>2 DEF Reconnect, FollowTypeOK
<1> QED
  BY <1>1, <1>2, <1>3, <1>4, <1>5, <1>6 DEF LogNext, Store, Follow, logVars

--------------------------------------------------------------------------------
(* The steps.                                                              *)

(* What c has been sent is in the log.                                     *)
LEMMA SentIsLogged ==
  ASSUME StoreInvariant, FollowTypeOK, NEW c \in Followers, HasPrefix(c), GoesOn(c)
  PROVE  Sent(c) \in Nat /\ Sent(c) <= TopSeq(Follows[c])
<1>1. Len(received[c]) \in Nat /\ Len(channel[c]) \in Nat /\ TopSeq(Follows[c]) \in Nat
  BY FollowTypesAt, LogFacts
<1>2. Sent(c) \in Nat
  <2>1. \A m, n \in Nat : m + n \in Nat
    OBVIOUS
  <2> QED
    BY <1>1, <2>1, Zenon DEF Sent
<1>3. Len(received[c]) <= TopSeq(Follows[c])
  BY FollowTypesAt, PlaceOfLast DEF HasPrefix
<1>4. CASE Len(channel[c]) = 0
  BY <1>1, <1>3, <1>4 DEF Sent
<1>5. CASE Len(channel[c]) # 0
  <2>1. Len(channel[c]) \in 1 .. Len(channel[c])
    BY <1>1, <1>5
  <2>2. /\ channel[c][Len(channel[c])] \in LogOf(c)
        /\ channel[c][Len(channel[c])].seq = Sent(c)
    BY <2>1 DEF GoesOn, Sent
  <2>3. Sent(c) <= TopSeq(Follows[c])
    BY <2>2, LogFacts
  <2> QED
    BY <1>2, <2>3
<1> QED
  BY <1>4, <1>5

(* An append is behind everything a client has been sent.                  *)
LEMMA StoreStepFollows ==
  ASSUME StoreInvariant, FollowTypeOK, [Next]_vars, UNCHANGED followVars,
         NEW c \in Followers, Following(c)
  PROVE  Following(c)'
<1> USE DEF Following, followVars
<1>1. /\ committed \in Nat /\ committed' \in Nat /\ committed <= committed'
      /\ LogOf(c) \subseteq LogOf(c)'
      /\ \A e \in LogOf(c)' \ LogOf(c) :
           committed < e.rv /\ e.seq = TopSeq(Follows[c]) + 1
  BY LogFacts, AppendsGoBehind
<1>2. HasPrefix(c)' /\ GoesOn(c)' /\ Quiet(c)'
  BY <1>1 DEF HasPrefix, GoesOn, Quiet
<1>3. Sent(c)' = Sent(c) /\ Sent(c) \in Nat /\ Sent(c) <= TopSeq(Follows[c])
  BY SentIsLogged DEF Sent
<1>4. TopSeq(Follows[c]) \in Nat /\ \A e \in LogOf(c)' : e.seq \in Nat /\ e.rv \in Nat
  BY StoreInvariantKept, LogFacts, FollowTypesAt, <1>1
     DEF StoreInvariant, Inductive, TypeOK, Event, LogOf
<1>5. OnePlace(c)'
  <2> SUFFICES ASSUME ~listing[c]
               PROVE  /\ cursor[c] <= committed'
                      /\ \A e \in LogOf(c)' : e.seq <= Sent(c) <=> e.rv <= cursor[c]
    BY <1>3 DEF OnePlace
  <2>1. cursor[c] \in Nat /\ cursor[c] <= committed
    BY FollowTypesAt DEF OnePlace
  <2>2. ASSUME NEW e, e \in LogOf(c)'
        PROVE  e.seq <= Sent(c) <=> e.rv <= cursor[c]
    <3>1. CASE e \in LogOf(c)
      BY <3>1 DEF OnePlace
    <3>2. CASE e \notin LogOf(c)
      <4>1. committed < e.rv /\ e.seq = TopSeq(Follows[c]) + 1 /\ e.rv \in Nat
        BY <1>1, <1>4, <2>2, <3>2
      <4> QED
        BY <1>1, <1>3, <1>4, <2>1, <4>1
    <3> QED
      BY <3>1, <3>2
  <2> QED
    BY <1>1, <2>1, <2>2
<1>6. BatchNext(c)'
  <2> SUFFICES ASSUME NEW e \in batch[c]
               PROVE  /\ e \in LogOf(c)' /\ cursor[c] < e.rv
                      /\ \A d \in LogOf(c)' : cursor[c] < d.rv /\ d.rv <= e.rv => d \in batch[c]
    BY DEF BatchNext
  <2>1. e \in LogOf(c) /\ cursor[c] < e.rv /\ e.rv \in Nat /\ e.rv <= committed
    BY LogFacts DEF BatchNext
  <2>2. ASSUME NEW d, d \in LogOf(c)', cursor[c] < d.rv, d.rv <= e.rv
        PROVE  d \in batch[c]
    <3>1. d \in LogOf(c)
      BY <1>1, <1>4, <2>1, <2>2
    <3> QED
      BY <2>2, <3>1 DEF BatchNext
  <2> QED
    BY <1>1, <2>1, <2>2
<1> QED
  BY <1>2, <1>5, <1>6

(* A step of another client.                                               *)
LEMMA OthersFollow ==
  ASSUME UNCHANGED vars, NEW c \in Followers, Following(c),
         received'[c] = received[c], channel'[c] = channel[c],
         listing'[c] = listing[c], batch'[c] = batch[c], cursor'[c] = cursor[c]
  PROVE  Following(c)'
<1>1. LogOf(c)' = LogOf(c) /\ Sent(c)' = Sent(c) /\ committed' = committed
  BY DEF LogOf, Sent, vars
<1> QED
  BY <1>1 DEF Following, HasPrefix, GoesOn, Quiet, OnePlace, BatchNext

(* ListEvents: what it answers goes on where the client is, and the        *)
(* version it ends with is the place WatchEvents starts at.                *)
LEMMA ListEventsFollows ==
  ASSUME StoreInvariant, FollowTypeOK, NEW c \in Followers, ListEvents(c), Following(c)
  PROVE  Following(c)'
<1> USE DEF Following
<1> DEFINE r == received[c] \o BySeq(Answer(c))
<1>1. /\ listing[c] /\ received'[c] = r
      /\ listing'[c] \in BOOLEAN
      /\ ~listing'[c] => cursor'[c] = LastVersion(c)'
      /\ UNCHANGED <<vars, batch, channel>>
  BY DEF ListEvents, FollowTypeOK
<1>2. LogOf(c)' = LogOf(c) /\ committed' = committed
  BY <1>1 DEF LogOf, vars
<1>3. channel'[c] = <<>> /\ batch'[c] = {} /\ Len(channel'[c]) = 0
  BY <1>1 DEF Quiet
<1>4. r \in Seq(Event) /\ \A n \in 1 .. Len(r) : r[n] \in LogOf(c) /\ r[n].seq = n
  <2>1. received[c] \in Seq(Event) /\ Len(received[c]) \in Nat
    BY FollowTypesAt
  <2>2. /\ BySeq(Answer(c)) \in Seq(Event) /\ Len(BySeq(Answer(c))) \in Nat
        /\ \A i \in 1 .. Len(BySeq(Answer(c))) :
             /\ BySeq(Answer(c))[i] \in LogOf(c)
             /\ BySeq(Answer(c))[i].seq = Len(received[c]) + i
    BY AnswerIsNext, LenProperties
  <2>3. /\ r \in Seq(Event) /\ Len(r) = Len(received[c]) + Len(BySeq(Answer(c)))
        /\ \A i \in 1 .. Len(r) : r[i] = IF i <= Len(received[c]) THEN received[c][i]
                                         ELSE BySeq(Answer(c))[i - Len(received[c])]
    BY <2>1, <2>2, ConcatProperties
  <2> HIDE DEF r
  <2>4. ASSUME NEW n \in 1 .. Len(r)
        PROVE  r[n] \in LogOf(c) /\ r[n].seq = n
    <3>1. CASE n <= Len(received[c])
      BY <2>1, <2>3, <3>1 DEF HasPrefix
    <3>2. CASE ~(n <= Len(received[c]))
      <4>1. n - Len(received[c]) \in 1 .. Len(BySeq(Answer(c)))
        BY <2>1, <2>2, <2>3, <3>2
      <4>2. Len(received[c]) + (n - Len(received[c])) = n
        BY <2>1
      <4> QED
        BY <2>2, <2>3, <3>2, <4>1, <4>2
    <3> QED
      BY <3>1, <3>2
  <2> QED
    BY <2>3, <2>4
<1> HIDE DEF r
<1>5. HasPrefix(c)'
  BY <1>1, <1>2, <1>4 DEF HasPrefix
<1>6. GoesOn(c)' /\ Quiet(c)' /\ BatchNext(c)'
  BY <1>3 DEF GoesOn, Quiet, BatchNext
<1>7. Sent(c)' = Len(r)
  <2>1. Len(r) \in Nat
    BY <1>4, LenProperties
  <2> QED
    BY <1>1, <1>3, <2>1 DEF Sent
<1>8. OnePlace(c)'
  <2> SUFFICES ASSUME ~listing'[c]
               PROVE  /\ cursor'[c] <= committed
                      /\ \A e \in LogOf(c) : e.seq <= Len(r) <=> e.rv <= cursor'[c]
    BY <1>2, <1>7 DEF OnePlace
  <2>1. cursor'[c] = IF r = <<>> THEN 0 ELSE r[Len(r)].rv
    BY <1>1 DEF LastVersion
  <2> QED
    BY <1>4, <2>1, PlaceOfLast
<1> QED
  BY <1>5, <1>6, <1>8

(* A poll: the batch is a beginning of what is behind the cursor.          *)
LEMMA PollFollows ==
  ASSUME StoreInvariant, FollowTypeOK, NEW c \in Followers, Poll(c), Following(c)
  PROVE  Following(c)'
<1> USE DEF Following
<1> DEFINE P == {e \in Unsent(c) : Cardinality({d \in Unsent(c) : d.rv < e.rv}) < BatchLimit}
<1>1. /\ ~listing[c] /\ batch'[c] = P
      /\ UNCHANGED <<vars, listing, received, cursor, channel>>
  BY DEF Poll, FollowTypeOK
<1>2. LogOf(c)' = LogOf(c) /\ committed' = committed /\ Sent(c)' = Sent(c)
  BY <1>1 DEF LogOf, Sent, vars
<1>3. HasPrefix(c)' /\ GoesOn(c)' /\ Quiet(c)' /\ OnePlace(c)'
  BY <1>1, <1>2 DEF HasPrefix, GoesOn, Quiet, OnePlace
<1>4. ASSUME NEW e \in P, NEW d \in LogOf(c), cursor[c] < d.rv, d.rv <= e.rv
      PROVE  d \in P
  <2> DEFINE E == {x \in Unsent(c) : x.rv < e.rv}
             D == {x \in Unsent(c) : x.rv < d.rv}
  <2>1. /\ e \in LogOf(c) /\ d \in Unsent(c) /\ Cardinality(E) < BatchLimit
        /\ cursor[c] \in Nat /\ BatchLimit \in Nat
        /\ \A x \in LogOf(c) : x.rv \in Nat /\ x.seq \in 1 .. TopSeq(Follows[c])
        /\ TopSeq(Follows[c]) \in Nat
    BY <1>4, LogFacts, FollowTypesAt, LimitsAssumption DEF Unsent
  <2>2. D \subseteq E /\ E \subseteq LogOf(c)
    BY <1>4, <2>1 DEF Unsent
  <2>3. IsFiniteSet(E)
    <3>1. \A x, y \in LogOf(c) : x.seq = y.seq => x = y
      BY LogFacts
    <3>2. \A n \in 1 .. TopSeq(Follows[c]) : \E x \in LogOf(c) : x.seq = n
      BY LogFacts
    <3>3. IsFiniteSet(LogOf(c))
      <4>1. /\ 1 \in Int /\ TopSeq(Follows[c]) \in Int
            /\ \A x \in LogOf(c) : x.seq \in 1 .. TopSeq(Follows[c])
        BY <2>1
      <4> QED
        BY <3>1, <3>2, <4>1, CountBySeq, Zenon
    <3> QED
      BY <2>2, <3>3, FS_Subset
  <2>4. Cardinality(D) <= Cardinality(E) /\ Cardinality(D) \in Nat /\ Cardinality(E) \in Nat
    BY <2>2, <2>3, FS_Subset, FS_CardinalityType
  <2> QED
    BY <2>1, <2>4
<1>5. BatchNext(c)'
  <2>1. \A e \in P : e \in LogOf(c) /\ cursor[c] < e.rv
    BY LogFacts, FollowTypesAt DEF Unsent
  <2> HIDE DEF P
  <2> QED
    BY <1>1, <1>2, <1>4, <2>1 DEF BatchNext
<1> QED
  BY <1>3, <1>5

(* A send: the oldest event of the batch is the next one of the log.       *)
LEMMA DeliverFollows ==
  ASSUME StoreInvariant, FollowTypeOK, NEW c \in Followers, Deliver(c), Following(c)
  PROVE  Following(c)'
<1> USE DEF Following
<1>1. PICK e \in batch[c] :
        /\ \A d \in batch[c] : e.rv <= d.rv
        /\ channel'[c] = Append(channel[c], e)
        /\ batch'[c] = batch[c] \ {e}
        /\ cursor'[c] = IF e.rv > cursor[c] THEN e.rv ELSE cursor[c]
        /\ UNCHANGED <<vars, listing, received>>
  BY DEF Deliver, FollowTypeOK
<1>2. LogOf(c)' = LogOf(c) /\ committed' = committed
  BY <1>1 DEF LogOf, vars
<1>3. /\ e \in LogOf(c) /\ e \in Event /\ cursor[c] \in Nat /\ cursor[c] < e.rv
      /\ e.rv \in Nat /\ e.seq \in Nat /\ e.rv <= committed
      /\ e.seq \in 1 .. TopSeq(Follows[c])
      /\ TopSeq(Follows[c]) \in Nat
      /\ ~listing[c]
  BY LogFacts, FollowTypesAt DEF BatchNext, Quiet
<1>4. cursor'[c] = e.rv
  BY <1>1, <1>3
<1>5. Sent(c) \in Nat /\ e.seq = Sent(c) + 1
  <2>1. Sent(c) \in Nat
    BY SentIsLogged
  <2>2. ~(e.seq <= Sent(c))
    BY <1>3 DEF OnePlace
  <2>3. Sent(c) + 1 \in 1 .. TopSeq(Follows[c])
    BY <1>3, <2>1, <2>2
  <2>4. PICK d \in LogOf(c) : d.seq = Sent(c) + 1
    BY <2>3, LogFacts
  <2>5. d.seq <= e.seq /\ d.rv <= e.rv /\ d.rv \in Nat /\ cursor[c] < d.rv
    <3>1. d.seq <= e.seq /\ ~(d.seq <= Sent(c))
      BY <1>3, <2>1, <2>2, <2>4
    <3>2. d.rv <= e.rv /\ d.rv \in Nat
      BY <1>3, <3>1, LogFacts
    <3>3. ~(d.rv <= cursor[c])
      BY <1>3, <3>1 DEF OnePlace
    <3> QED
      BY <1>3, <3>1, <3>2, <3>3
  <2>6. d \in batch[c]
    BY <2>5 DEF BatchNext
  <2>7. e.rv <= d.rv
    BY <1>1, <2>6
  <2>8. e.seq <= d.seq
    BY <1>3, <2>7, LogFacts
  <2> QED
    BY <1>3, <2>1, <2>4, <2>5, <2>8
<1>6. /\ Len(received[c]) \in Nat /\ Len(channel[c]) \in Nat
      /\ Len(channel'[c]) = Len(channel[c]) + 1
      /\ \A i \in 1 .. Len(channel[c]) : channel'[c][i] = channel[c][i]
      /\ channel'[c][Len(channel[c]) + 1] = e
  BY <1>1, <1>3, FollowTypesAt, AppendProperties
<1>7. Sent(c)' = e.seq /\ e.seq = Len(received[c]) + (Len(channel[c]) + 1)
  <2>1. \A m, n \in Nat : (m + n) + 1 = m + (n + 1)
    OBVIOUS
  <2>2. e.seq = Len(received[c]) + (Len(channel[c]) + 1)
    BY <1>5, <1>6, <2>1, Zenon DEF Sent
  <2>3. Sent(c)' = Len(received[c]) + (Len(channel[c]) + 1)
    BY <1>1, <1>6, Zenon DEF Sent
  <2> QED
    BY <2>2, <2>3
<1>8. HasPrefix(c)' /\ Quiet(c)'
  BY <1>1, <1>2, <1>3 DEF HasPrefix, Quiet
<1>9. GoesOn(c)'
  <2> SUFFICES ASSUME NEW n \in 1 .. Len(channel[c]) + 1
               PROVE  /\ channel'[c][n] \in LogOf(c)
                      /\ channel'[c][n].seq = Len(received[c]) + n
    BY <1>1, <1>2, <1>6, ZenonT(60) DEF GoesOn
  <2>1. CASE n = Len(channel[c]) + 1
    BY <1>3, <1>6, <1>7, <2>1
  <2>2. CASE n # Len(channel[c]) + 1
    <3>1. n \in 1 .. Len(channel[c])
      BY <1>6, <2>2
    <3> QED
      BY <1>6, <3>1 DEF GoesOn
  <2> QED
    BY <2>1, <2>2
<1>10. OnePlace(c)'
  <2>1. \A x \in LogOf(c) : x.seq <= e.seq <=> x.rv <= e.rv
    BY <1>3, LogFacts
  <2> QED
    BY <1>1, <1>2, <1>3, <1>4, <1>7, <2>1 DEF OnePlace
<1>11. BatchNext(c)'
  <2> SUFFICES ASSUME NEW x \in batch[c], x # e
               PROVE  /\ x \in LogOf(c) /\ e.rv < x.rv
                      /\ \A d \in LogOf(c) : e.rv < d.rv /\ d.rv <= x.rv => d \in batch[c] \ {e}
    BY <1>1, <1>2, <1>4 DEF BatchNext
  <2>1. x \in LogOf(c) /\ e.rv <= x.rv
    BY <1>1 DEF BatchNext
  <2>2. x.rv \in Nat /\ x.seq \in Nat
    BY <2>1, LogFacts, FollowTypesAt
  <2>3. e.rv < x.rv
    <3>1. x.seq # e.seq
      BY <1>3, <2>1, LogFacts
    <3>2. e.seq <= x.seq
      BY <1>3, <2>1, LogFacts
    <3>3. e.seq < x.seq
      BY <1>3, <2>2, <3>1, <3>2
    <3> QED
      BY <1>3, <2>1, <3>3, LogFacts
  <2>4. ASSUME NEW d \in LogOf(c), e.rv < d.rv, d.rv <= x.rv
        PROVE  d \in batch[c] \ {e}
    <3>1. d.rv \in Nat
      BY LogFacts
    <3>2. cursor[c] < d.rv
      BY <1>3, <2>4, <3>1
    <3>3. d \in batch[c]
      BY <2>4, <3>2 DEF BatchNext
    <3>4. d # e
      BY <1>3, <2>4
    <3> QED
      BY <3>3, <3>4
  <2> QED
    BY <2>1, <2>3, <2>4
<1> QED
  BY <1>8, <1>9, <1>10, <1>11

(* A receipt: the head of the channel follows what the client has.         *)
LEMMA ReceiveFollows ==
  ASSUME StoreInvariant, FollowTypeOK, NEW c \in Followers, Receive(c), Following(c)
  PROVE  Following(c)'
<1> USE DEF Following
<1> DEFINE e == Head(channel[c])
<1>1. /\ channel[c] # <<>>
      /\ received'[c] = Append(received[c], e) /\ channel'[c] = Tail(channel[c])
      /\ UNCHANGED <<vars, listing, cursor, batch>>
  BY DEF Receive, FollowTypeOK
<1>2. LogOf(c)' = LogOf(c) /\ committed' = committed
  BY <1>1 DEF LogOf, vars
<1>3. /\ Len(received[c]) \in Nat /\ Len(channel[c]) \in Nat \ {0} /\ e = channel[c][1]
      /\ e \in Event
  BY <1>1, FollowTypesAt, EmptySeq, HeadTailProperties
<1>4. e \in LogOf(c) /\ e.seq = Len(received[c]) + 1
  <2>1. 1 \in 1 .. Len(channel[c])
    BY <1>3
  <2> QED
    BY <1>3, <2>1 DEF GoesOn
<1> HIDE DEF e
<1>5. /\ Len(received'[c]) = Len(received[c]) + 1
      /\ \A i \in 1 .. Len(received[c]) : received'[c][i] = received[c][i]
      /\ received'[c][Len(received[c]) + 1] = e
  BY <1>1, <1>3, FollowTypesAt, AppendProperties
<1>6. /\ Len(channel'[c]) = Len(channel[c]) - 1
      /\ \A i \in 1 .. Len(channel[c]) - 1 : channel'[c][i] = channel[c][i + 1]
  BY <1>1, FollowTypesAt, HeadTailProperties
<1>7. HasPrefix(c)'
  <2> SUFFICES ASSUME NEW n \in 1 .. Len(received[c]) + 1
               PROVE  received'[c][n] \in LogOf(c) /\ received'[c][n].seq = n
    BY <1>2, <1>5 DEF HasPrefix
  <2>1. CASE n = Len(received[c]) + 1
    BY <1>4, <1>5, <2>1
  <2>2. CASE n # Len(received[c]) + 1
    <3>1. n \in 1 .. Len(received[c])
      BY <1>3, <2>2
    <3> QED
      BY <1>5, <3>1 DEF HasPrefix
  <2> QED
    BY <2>1, <2>2
<1>8. GoesOn(c)'
  <2> SUFFICES ASSUME NEW n \in 1 .. Len(channel[c]) - 1
               PROVE  /\ channel'[c][n] \in LogOf(c)
                      /\ channel'[c][n].seq = (Len(received[c]) + 1) + n
    BY <1>2, <1>5, <1>6 DEF GoesOn
  <2>1. \A l \in Nat \ {0} : \A i \in 1 .. l - 1 : i + 1 \in 1 .. l
    OBVIOUS
  <2>2. n + 1 \in 1 .. Len(channel[c])
    BY <1>3, <2>1, Zenon
  <2>3. Len(received[c]) + (n + 1) = (Len(received[c]) + 1) + n
    <3>1. \A l \in Nat, i \in Int : l + (i + 1) = (l + 1) + i
      OBVIOUS
    <3>2. n \in Int
      OBVIOUS
    <3> QED
      BY <1>3, <3>1, <3>2, Zenon
  <2> QED
    BY <1>6, <2>2, <2>3 DEF GoesOn
<1>9. Sent(c)' = Sent(c)
  <2>1. \A m \in Nat, n \in Nat \ {0} : (m + 1) + (n - 1) = m + n
    OBVIOUS
  <2> QED
    BY <1>3, <1>5, <1>6, <2>1 DEF Sent
<1>10. Quiet(c)' /\ OnePlace(c)' /\ BatchNext(c)'
  BY <1>1, <1>2, <1>9 DEF Quiet, OnePlace, BatchNext
<1> QED
  BY <1>7, <1>8, <1>10

(* A lost stream: the new one starts at the last event the client has.     *)
LEMMA ReconnectFollows ==
  ASSUME StoreInvariant, FollowTypeOK, NEW c \in Followers, Reconnect(c), Following(c)
  PROVE  Following(c)'
<1> USE DEF Following
<1>1. /\ cursor'[c] = LastVersion(c) /\ batch'[c] = {} /\ channel'[c] = <<>>
      /\ UNCHANGED <<vars, listing, received>>
  BY DEF Reconnect, FollowTypeOK
<1>2. LogOf(c)' = LogOf(c) /\ committed' = committed /\ Len(channel'[c]) = 0
  BY <1>1 DEF LogOf, vars
<1>3. HasPrefix(c)' /\ GoesOn(c)' /\ Quiet(c)' /\ BatchNext(c)'
  BY <1>1, <1>2 DEF HasPrefix, GoesOn, Quiet, BatchNext
<1>4. Sent(c)' = Len(received[c])
  <2>1. Len(received[c]) \in Nat
    BY FollowTypesAt
  <2> QED
    BY <1>1, <1>2, <2>1 DEF Sent
<1>5. /\ LastVersion(c) <= committed
      /\ \A e \in LogOf(c) : e.seq <= Len(received[c]) <=> e.rv <= LastVersion(c)
  BY PlaceOfLast, FollowTypesAt DEF HasPrefix, LastVersion
<1>6. OnePlace(c)'
  BY <1>1, <1>2, <1>4, <1>5 DEF OnePlace
<1> QED
  BY <1>3, <1>6

--------------------------------------------------------------------------------
(* Every step keeps every follower at one place of its log.                *)
LEMMA FollowStep ==
  ASSUME StoreInvariant, FollowTypeOK, AllFollow, [LogNext]_logVars
  PROVE  AllFollow'
<1> SUFFICES ASSUME NEW d \in Followers PROVE Following(d)'
  BY DEF AllFollow
<1>1. Following(d)
  BY DEF AllFollow
<1>2. CASE Store \/ UNCHANGED logVars
  BY <1>1, <1>2, StoreStepFollows DEF Store, logVars
<1>3. ASSUME NEW c \in Followers, Follow(c) \/ Reconnect(c)
      PROVE  Following(d)'
  <2>1. CASE d = c
    BY <1>1, <1>3, <2>1, ListEventsFollows, PollFollows, DeliverFollows, ReceiveFollows,
       ReconnectFollows DEF Follow
  <2>2. CASE d # c
    <3>1. /\ UNCHANGED vars
          /\ received'[d] = received[d] /\ channel'[d] = channel[d]
          /\ listing'[d] = listing[d] /\ batch'[d] = batch[d] /\ cursor'[d] = cursor[d]
      BY <1>3, <2>2
      DEF Follow, ListEvents, Poll, Deliver, Receive, Reconnect, FollowTypeOK
    <3> QED
      BY <1>1, <3>1, OthersFollow
  <2> QED
    BY <2>1, <2>2
<1> QED
  BY <1>2, <1>3 DEF LogNext

(* What both theorems rest on.                                             *)
FollowInvariant == StoreInvariant /\ FollowTypeOK /\ AllFollow

(* It holds before anything happens.                                       *)
LEMMA FollowInit == LogInit => FollowInvariant
<1> SUFFICES ASSUME LogInit PROVE FollowInvariant
  OBVIOUS
<1>1. StoreInvariant
  BY InitInductive DEF LogInit, Init, StoreInvariant, EventLogInOrder, Numbered
<1>2. FollowTypeOK
  <2>1. <<>> \in Seq(Event)
    OBVIOUS
  <2> QED
    BY <2>1 DEF LogInit, FollowTypeOK
<1>3. ASSUME NEW c \in Followers PROVE Following(c)
  BY <1>3 DEF LogInit, Following, HasPrefix, GoesOn, Quiet, OnePlace, BatchNext
<1> QED
  BY <1>1, <1>2, <1>3 DEF FollowInvariant, AllFollow

(* And is inductive.                                                       *)
LEMMA FollowInvariantKept == FollowInvariant /\ [LogNext]_logVars => FollowInvariant'
<1> SUFFICES ASSUME FollowInvariant, [LogNext]_logVars PROVE FollowInvariant'
  OBVIOUS
<1> USE DEF FollowInvariant
<1>1. [Next]_vars
  BY DEF LogNext, Store, Follow, ListEvents, Poll, Deliver, Receive, Reconnect, logVars
<1> QED
  BY <1>1, StoreInvariantKept, FollowTypesKept, FollowStep

(* The followers' and the goroutines' variables hold what they are         *)
(* declared to hold.                                                       *)
THEOREM FollowTypesHold == LogSpec => []FollowTypeOK
<1>1. FollowInvariant => FollowTypeOK
  BY DEF FollowInvariant
<1> QED
  BY <1>1, FollowInit, FollowInvariantKept, PTL DEF LogSpec

(* Whatever appenders do, and however often the connection is lost: a      *)
(* client that went from ListEvents by seq to WatchEvents by version has   *)
(* the first events of its run, each once and in order (event.go:76-113,   *)
(* postgres.go:363-444).                                                   *)
THEOREM FollowersHavePrefixes == LogSpec => []ReceivedIsPrefix
<1>1. FollowInvariant => ReceivedIsPrefix
  BY DEF FollowInvariant, AllFollow, Following, HasPrefix, ReceivedIsPrefix
<1> QED
  BY <1>1, FollowInit, FollowInvariantKept, PTL DEF LogSpec

================================================================================
