-------------------------- MODULE PostgresWatchProofs --------------------------
(***************************************************************************)
(* Proofs about PostgresWatch, for any number of writers and clients, any  *)
(* keys, page size, poll and channel: a client that lists, keeps the first *)
(* page's watermark and watches from there misses nothing (NoGap), and     *)
(* what it holds never goes back (ViewNeverRegresses).                     *)
(*                                                                         *)
(* The invariant follows a version on its way.  An object the client may   *)
(* rely on, one whose version is not above its checkpoint, is in its view; *)
(* between checkpoint and cursor it is in the channel; above the cursor    *)
(* and up to the last object of the poll it is in the batch; and above     *)
(* that it has not been polled.  A commit disturbs none of it, because its *)
(* version is above every counter that was ever read.                      *)
(***************************************************************************)
EXTENDS PostgresWatch, PostgresStoreProofs, FiniteSetTheorems, SequenceTheorems,
        NaturalsInduction, WellFoundedInduction

(* row is the row of k, or was.                                            *)
Known(k, row) ==
  /\ rows[k] # Nil
  /\ row.rv <= rows[k].rv
  /\ row.rv = rows[k].rv => row = rows[k]

Entry(k) == [key |-> k, row |-> rows[k]]

(* An object on its way to c.                                              *)
OnItsWay(c, o) ==
  /\ o.key \in Scope[c]
  /\ Known(o.key, o.row)
  /\ view[c][o.key] # Nil => view[c][o.key].rv <= o.row.rv

ViewKnown(c) == \A k \in Keys : view[c][k] # Nil => Known(k, view[c][k])

(* Where a client and its goroutine are.                                   *)
Positions(c) ==
  /\ checkpoint[c] <= committed
  /\ cursor[c] <= committed
  /\ phase[c] = "page" => mark[c] <= committed
  /\ phase[c] = "watch" => checkpoint[c] <= cursor[c]
  /\ phase[c] # "watch" => channel[c] = <<>> /\ batch[c] = {}

(* The channel: versions ascend from the checkpoint to the cursor, and an  *)
(* object's is new.                                                        *)
ChannelAscends(c) ==
  \A i \in 1 .. Len(channel[c]) :
    LET m == channel[c][i]
    IN  /\ checkpoint[c] <= VersionIn(m) /\ VersionIn(m) <= cursor[c]
        /\ ~IsBookmark(m) => OnItsWay(c, m)
        /\ \A j \in 1 .. i - 1 :
             /\ VersionIn(channel[c][j]) <= VersionIn(m)
             /\ ~IsBookmark(m) => VersionIn(channel[c][j]) < VersionIn(m)

(* The batch: one object per version, above the cursor.                    *)
BatchAhead(c) ==
  \A o \in batch[c] :
    /\ OnItsWay(c, o)
    /\ cursor[c] < o.row.rv /\ o.row.rv <= committed
    /\ \A p \in batch[c] : o.row.rv = p.row.rv => o = p

(* Nothing is passed over.                                                 *)
ChannelComplete(c) ==
  phase[c] = "watch" =>
    \A k \in Scope[c] :
      rows[k] # Nil /\ checkpoint[c] < rows[k].rv /\ rows[k].rv <= cursor[c]
        => \E i \in 1 .. Len(channel[c]) : channel[c][i] = Entry(k)

BatchComplete(c) ==
  \A o \in batch[c], k \in Scope[c] :
    rows[k] # Nil /\ cursor[c] < rows[k].rv /\ rows[k].rv <= o.row.rv
      => Entry(k) \in batch[c]

Orderly(c) ==
  /\ ViewKnown(c)
  /\ Positions(c)
  /\ ChannelAscends(c)
  /\ BatchAhead(c)
  /\ ChannelComplete(c)
  /\ BatchComplete(c)

(* The client has listed as far as k.                                      *)
ListedUpTo(c, k) == phase[c] = "watch" \/ (token[c] # Nil /\ k <= token[c])

(* NoGap, page by page.                                                    *)
Covered(c) ==
  \A k \in Scope[c] :
    ListedUpTo(c, k) /\ rows[k] # Nil /\ rows[k].rv <= checkpoint[c]
      => view[c][k] = rows[k]

AllOrderly == \A c \in Watchers : Orderly(c)
AllCovered == \A c \in Watchers : Covered(c)

--------------------------------------------------------------------------------
(* Sets of naturals, ordered.                                              *)

(* A nonempty set of naturals has a least element.                         *)
LEMMA LeastOf ==
  ASSUME NEW S \in SUBSET Nat, S # {}
  PROVE  \E n \in S : \A m \in S : n <= m
<1>1. PICK n \in S : \A m \in S : ~ (<<m, n>> \in OpToRel(<, Nat))
  BY NatLessThanWellFounded, WFMin
<1>2. \A m \in S : ~ (m < n)
  BY <1>1 DEF OpToRel
<1> QED
  BY <1>2

(* And a greatest one, if it is bounded.                                   *)
LEMMA GreatestOf ==
  ASSUME NEW S \in SUBSET Nat, S # {}, NEW b \in Nat, \A n \in S : n < b
  PROVE  \E n \in S : \A m \in S : m <= n
<1> DEFINE T == {b - n : n \in S}
<1>1. T \in SUBSET Nat /\ T # {}
  <2>1. \A n \in S : b - n \in Nat
    OBVIOUS
  <2> QED
    BY <2>1
<1>2. PICK t \in T : \A u \in T : t <= u
  BY <1>1, LeastOf
<1>3. PICK n \in S : t = b - n
  BY <1>2
<1>4. ASSUME NEW m \in S PROVE m <= n
  <2>1. t <= b - m
    BY <1>2
  <2> QED
    BY <1>3, <2>1
<1> QED
  BY <1>4

(* Who has fewer than n before it still has if some of them go.            *)
LEMMA FewerBefore ==
  ASSUME NEW S, IsFiniteSet(S), NEW T \in SUBSET S, NEW n \in Nat, Cardinality(S) < n
  PROVE  Cardinality(T) < n
<1>1. Cardinality(T) <= Cardinality(S) /\ IsFiniteSet(T)
  BY FS_Subset
<1>2. Cardinality(T) \in Nat /\ Cardinality(S) \in Nat
  BY <1>1, FS_CardinalityType
<1> QED
  BY <1>1, <1>2

--------------------------------------------------------------------------------
(* A page of List.                                                         *)

(* A page is a beginning of what is left of the list.                      *)
LEMMA PageIsBeginning ==
  ASSUME NEW c \in Watchers, NEW k \in Page(c), NEW j \in Listed(c), j < k
  PROVE  j \in Page(c)
<1>1. Listed(c) \subseteq Nat /\ k \in Listed(c)
  BY ScopeAssumption, OrderAssumption DEF Listed, Page
<1> DEFINE S == {i \in Listed(c) : i < k}
           T == {i \in Listed(c) : i < j}
<1>2. IsFiniteSet(S)
  <2>1. S \in SUBSET Nat /\ k \in Nat /\ \A i \in S : i <= k
    BY <1>1
  <2> QED
    BY <2>1, FS_BoundedSetOfNaturals
<1>3. T \in SUBSET S
  BY <1>1
<1>4. Cardinality(S) < PageSize
  BY DEF Page
<1>5. Cardinality(T) < PageSize
  BY <1>2, <1>3, <1>4, FewerBefore, SizesAssumption
<1> QED
  BY <1>5 DEF Page

(* A page that is not the last one ends with its last key.                 *)
LEMMA PageHasLast ==
  ASSUME NEW c \in Watchers, Page(c) # Listed(c)
  PROVE  /\ LastOnPage(c) \in Page(c)
         /\ \A j \in Page(c) : j <= LastOnPage(c)
<1>1. Listed(c) \subseteq Nat /\ Page(c) \subseteq Listed(c)
  BY ScopeAssumption, OrderAssumption DEF Listed, Page
<1>2. PICK l \in Listed(c) : l \notin Page(c)
  BY <1>1
<1>3. \A k \in Page(c) : k < l
  BY <1>1, <1>2, PageIsBeginning
<1>4. Page(c) # {}
  <2>1. PICK k \in Listed(c) : \A j \in Listed(c) : k <= j
    BY <1>1, <1>2, LeastOf
  <2>2. {j \in Listed(c) : j < k} = {}
    BY <1>1, <2>1
  <2>3. Cardinality({j \in Listed(c) : j < k}) < PageSize
    BY <2>2, FS_EmptySet, SizesAssumption
  <2> QED
    BY <2>1, <2>3 DEF Page
<1>5. \E k \in Page(c) : \A j \in Page(c) : j <= k
  BY <1>1, <1>2, <1>3, <1>4, GreatestOf
<1> QED
  BY <1>5 DEF LastOnPage

--------------------------------------------------------------------------------
(* The store under the clients.                                            *)

(* Rows that are there have versions up to the counter.                    *)
LEMMA RowsAreBelow ==
  ASSUME Inductive, NEW k \in Keys, rows[k] # Nil
  PROVE  rows[k] \in Row /\ rows[k].rv \in Nat /\ rows[k].rv <= committed
BY DEF Inductive, TypeOK, Versions, Row

(* A row that changes gets a version above the counter as it was.          *)
LEMMA StoreMoves ==
  ASSUME Inductive, [Next]_vars
  PROVE  /\ committed \in Nat /\ committed' \in Nat /\ committed <= committed'
         /\ \A k \in Keys : rows'[k] # rows[k] =>
              rows'[k] # Nil /\ rows'[k].rv \in Nat /\ committed < rows'[k].rv
<1>1. committed \in Nat /\ rows \in [Keys -> Row \cup {Nil}]
  BY DEF Inductive, TypeOK
<1>2. CASE UNCHANGED <<rows, events, committed>>
  BY <1>1, <1>2
<1>3. ASSUME NEW w \in Writers, Commit(w)
      PROVE  /\ committed' \in Nat /\ committed <= committed'
             /\ \A k \in Keys : rows'[k] # rows[k] =>
                  rows'[k] # Nil /\ rows'[k].rv \in Nat /\ committed < rows'[k].rv
  <2>1. /\ tx[w].ver \in Nat /\ issued \in Nat
        /\ committed < tx[w].ver /\ tx[w].ver <= issued /\ committed' = issued
    BY <1>3, CommitAdvances
  <2>2. ASSUME NEW k \in Keys, rows'[k] # rows[k]
        PROVE  rows'[k] # Nil /\ rows'[k].rv \in Nat /\ committed < rows'[k].rv
    <3>1. rows'[k].rv \in {tx[w].ver, issued}
      BY <1>3, <2>2, CommitRowVersion
    <3>2. rows'[k] # Nil
      BY <1>1, <1>3, <2>2 DEF Commit
    <3> QED
      BY <1>1, <2>1, <3>1, <3>2
  <2> QED
    BY <1>1, <2>1, <2>2
<1> QED
  BY <1>1, <1>2, <1>3, OnlyCommitShows

(* What was a row of k goes on having been one.                            *)
LEMMA KnownStays ==
  ASSUME Inductive, [Next]_vars, NEW k \in Keys, NEW row \in Row, Known(k, row)
  PROVE  Known(k, row)'
<1>1. rows[k] # Nil /\ rows[k].rv \in Nat /\ rows[k].rv <= committed /\ row.rv \in Nat
  BY RowsAreBelow DEF Known, Row
<1>2. CASE rows'[k] = rows[k]
  BY <1>2 DEF Known
<1>3. CASE rows'[k] # rows[k]
  <2>1. /\ committed \in Nat
        /\ rows'[k] # Nil /\ rows'[k].rv \in Nat /\ committed < rows'[k].rv
    BY <1>3, StoreMoves
  <2> QED
    BY <1>1, <2>1 DEF Known
<1> QED
  BY <1>2, <1>3

(* A row is a row of its key.                                              *)
LEMMA KnownNow ==
  ASSUME Inductive, NEW k \in Keys, rows[k] # Nil
  PROVE  /\ Known(k, rows[k])
         /\ Entry(k) \in Object /\ Entry(k).key = k /\ Entry(k).row = rows[k]
BY RowsAreBelow DEF Known, Entry, Object

--------------------------------------------------------------------------------
(* Messages.                                                               *)

(* What is an object and what is a bookmark, by their fields.              *)
LEMMA Messages ==
  ASSUME NEW m
  PROVE  /\ m \in Object =>
              /\ ~IsBookmark(m) /\ VersionIn(m) = m.row.rv
              /\ m.key \in Keys /\ m.row \in Row /\ m.row.rv \in Nat
         /\ m \in Bookmark =>
              IsBookmark(m) /\ VersionIn(m) = m.bookmark /\ m.bookmark \in Nat
<1>1. ASSUME m \in Object
      PROVE  /\ ~IsBookmark(m) /\ VersionIn(m) = m.row.rv
             /\ m.key \in Keys /\ m.row \in Row /\ m.row.rv \in Nat
  <2>1. m.key \in Keys /\ m.row \in Row /\ m.row.rv \in Nat
    BY <1>1 DEF Object, Row
  <2>2. DOMAIN m = {"key", "row"}
    BY <1>1 DEF Object
  <2> QED
    BY <2>1, <2>2 DEF IsBookmark, VersionIn
<1>2. ASSUME m \in Bookmark
      PROVE  IsBookmark(m) /\ VersionIn(m) = m.bookmark /\ m.bookmark \in Nat
  <2>1. m.bookmark \in Nat
    BY <1>2 DEF Bookmark
  <2>2. DOMAIN m = {"bookmark"}
    BY <1>2 DEF Bookmark
  <2> QED
    BY <2>1, <2>2 DEF IsBookmark, VersionIn
<1> QED
  BY <1>1, <1>2

(* The types of one client's variables.                                    *)
LEMMA TypesAt ==
  ASSUME WatchTypeOK, NEW c \in Watchers
  PROVE  /\ phase[c] \in Phases /\ token[c] \in Keys \cup {Nil}
         /\ mark[c] \in Nat /\ checkpoint[c] \in Nat /\ cursor[c] \in Nat
         /\ view[c] \in [Keys -> Row \cup {Nil}]
         /\ batch[c] \in SUBSET Object
         /\ channel[c] \in Seq(Object \cup Bookmark) /\ Len(channel[c]) \in Nat
         /\ Scope[c] \subseteq Keys
BY ScopeAssumption DEF WatchTypeOK

(* A message that waits in the channel.                                    *)
LEMMA MessageIn ==
  ASSUME WatchTypeOK, NEW c \in Watchers, NEW i \in 1 .. Len(channel[c])
  PROVE  /\ channel[c][i] \in Object \cup Bookmark
         /\ VersionIn(channel[c][i]) \in Nat
         /\ ~IsBookmark(channel[c][i]) => channel[c][i] \in Object
<1>1. channel[c][i] \in Object \cup Bookmark
  BY TypesAt, ElementOfSeq
<1> QED
  BY <1>1, Messages

--------------------------------------------------------------------------------
(* Types.                                                                  *)

(* A poll's answer.                                                        *)
Polled(c) ==
  {k \in Fresh(c) : Cardinality({j \in Fresh(c) : rows[j].rv < rows[k].rv}) < BatchLimit}

(* What a poll puts in the batch, and that it is of the client's scope.    *)
LEMMA PollAnswers ==
  ASSUME Inductive, WatchTypeOK, NEW c \in Watchers, Poll(c)
  PROVE  /\ phase[c] = "watch" /\ batch[c] = {}
         /\ batch' = [batch EXCEPT ![c] = {Entry(k) : k \in Polled(c)}]
         /\ Polled(c) \subseteq Fresh(c)
         /\ \A k \in Fresh(c) : /\ k \in Scope[c] /\ k \in Keys
                                /\ rows[k] # Nil /\ cursor[c] < rows[k].rv
                                /\ Entry(k) \in Object
         /\ UNCHANGED <<vars, clientVars, cursor, channel>>
<1>1. /\ phase[c] = "watch" /\ batch[c] = {}
      /\ batch' = [batch EXCEPT ![c] = {Entry(k) : k \in Polled(c)}]
      /\ UNCHANGED <<vars, clientVars, cursor, channel>>
  BY DEF Poll, Polled, Entry
<1>2. Polled(c) \subseteq Fresh(c)
  BY DEF Polled
<1>3. ASSUME NEW k \in Fresh(c)
      PROVE  /\ k \in Scope[c] /\ k \in Keys
             /\ rows[k] # Nil /\ cursor[c] < rows[k].rv
             /\ Entry(k) \in Object
  <2>1. k \in Scope[c] /\ k \in Keys /\ rows[k] # Nil /\ rows[k].rv > cursor[c]
    BY TypesAt DEF Fresh
  <2>2. rows[k].rv \in Nat /\ cursor[c] \in Nat
    BY <2>1, RowsAreBelow, TypesAt
  <2> QED
    BY <2>1, <2>2, KnownNow
<1> QED
  BY <1>1, <1>2, <1>3

(* Every variable of the clients and of the goroutines.                    *)
LEMMA WatchTypesKept ==
  ASSUME Inductive, WatchTypeOK, [SystemNext]_systemVars
  PROVE  WatchTypeOK'
<1>0. committed \in Nat /\ rows \in [Keys -> Row \cup {Nil}]
  BY DEF Inductive, TypeOK
<1>1. CASE UNCHANGED watchVars
  BY <1>1 DEF watchVars, clientVars, serverVars, WatchTypeOK
<1>2. ASSUME NEW c \in Watchers, ListCounter(c)
      PROVE  WatchTypeOK'
  BY <1>0, <1>2 DEF ListCounter, WatchTypeOK, serverVars, Phases
<1>3. ASSUME NEW c \in Watchers, ListPage(c)
      PROVE  WatchTypeOK'
  <2>1. Kept(c) \in Nat
    BY TypesAt DEF Kept
  <2>2. Page(c) # Listed(c) => LastOnPage(c) \in Keys
    BY PageHasLast, TypesAt DEF Page, Listed
  <2>3. Page(c) \subseteq Keys
    BY TypesAt DEF Page, Listed
  <2>4. view' \in [Watchers -> [Keys -> Row \cup {Nil}]]
    <3>1. [k \in Keys |-> IF k \in Page(c) THEN rows[k] ELSE view[c][k]]
            \in [Keys -> Row \cup {Nil}]
      BY <1>0, TypesAt
    <3> QED
      BY <1>3, <3>1 DEF ListPage, WatchTypeOK
  <2>5. /\ phase' \in [Watchers -> Phases] /\ token' \in [Watchers -> Keys \cup {Nil}]
        /\ cursor' \in [Watchers -> Nat] /\ checkpoint' \in [Watchers -> Nat]
    BY <1>3, <2>1, <2>2, ZenonT(60) DEF ListPage, WatchTypeOK, Phases
  <2> QED
    BY <1>3, <2>4, <2>5 DEF ListPage, WatchTypeOK
<1>4. ASSUME NEW c \in Watchers, Poll(c)
      PROVE  WatchTypeOK'
  <2>1. {Entry(k) : k \in Polled(c)} \in SUBSET Object
    BY <1>4, PollAnswers
  <2>2. batch' = [batch EXCEPT ![c] = {Entry(k) : k \in Polled(c)}]
        /\ UNCHANGED <<vars, clientVars, cursor, channel>>
    BY <1>4, PollAnswers
  <2> QED
    BY <2>1, <2>2 DEF WatchTypeOK, clientVars
<1>5. ASSUME NEW c \in Watchers, Deliver(c)
      PROVE  WatchTypeOK'
  <2>1. PICK o \in Earliest(c) :
          /\ channel' = [channel EXCEPT ![c] = Append(channel[c], o)]
          /\ batch' = [batch EXCEPT ![c] = batch[c] \ {o}]
          /\ cursor' = [cursor EXCEPT ![c] = IF o.row.rv > cursor[c] THEN o.row.rv ELSE cursor[c]]
    BY <1>5 DEF Deliver
  <2>2. o \in Object /\ o.row.rv \in Nat
    BY TypesAt, Messages DEF Earliest
  <2>3. Append(channel[c], o) \in Seq(Object \cup Bookmark)
    BY <2>2, TypesAt
  <2>4. batch[c] \ {o} \in SUBSET Object
    BY TypesAt
  <2> QED
    BY <1>5, <2>1, <2>2, <2>3, <2>4 DEF Deliver, WatchTypeOK, clientVars
<1>6. ASSUME NEW c \in Watchers, SendBookmark(c)
      PROVE  WatchTypeOK'
  <2>1. [bookmark |-> cursor[c]] \in Bookmark
    BY TypesAt DEF Bookmark
  <2>2. Append(channel[c], [bookmark |-> cursor[c]]) \in Seq(Object \cup Bookmark)
    BY <2>1, TypesAt
  <2> QED
    BY <1>6, <2>2 DEF SendBookmark, WatchTypeOK, clientVars
<1>7. ASSUME NEW c \in Watchers, Receive(c)
      PROVE  WatchTypeOK'
  <2> DEFINE m == Head(channel[c])
  <2>1. channel[c] # <<>>
    BY <1>7 DEF Receive
  <2>2. Tail(channel[c]) \in Seq(Object \cup Bookmark) /\ m \in Object \cup Bookmark
    BY <2>1, TypesAt
  <2>3. VersionIn(m) \in Nat /\ (~IsBookmark(m) => m.key \in Keys /\ m.row \in Row)
    BY <2>2, Messages
  <2> HIDE DEF m
  <2>4. /\ checkpoint' = [checkpoint EXCEPT ![c] = VersionIn(m)]
        /\ view' = IF IsBookmark(m) THEN view ELSE [view EXCEPT ![c][m.key] = m.row]
        /\ channel' = [channel EXCEPT ![c] = Tail(channel[c])]
        /\ UNCHANGED <<phase, token, mark, drops, cursor, batch>>
    BY <1>7 DEF Receive, m
  <2>5. view' \in [Watchers -> [Keys -> Row \cup {Nil}]]
    BY <2>3, <2>4 DEF WatchTypeOK
  <2> QED
    BY <2>2, <2>3, <2>4, <2>5 DEF WatchTypeOK
<1>8. ASSUME NEW c \in Watchers, Reconnect(c)
      PROVE  WatchTypeOK'
  <2>1. <<>> \in Seq(Object \cup Bookmark) /\ checkpoint[c] \in Nat
    BY TypesAt
  <2> QED
    BY <1>8, <2>1 DEF Reconnect, WatchTypeOK
<1> QED
  BY <1>1, <1>2, <1>3, <1>4, <1>5, <1>6, <1>7, <1>8
  DEF SystemNext, Store, Session, systemVars

--------------------------------------------------------------------------------
(* Frames.                                                                 *)

SameStore == rows' = rows /\ committed' = committed

SameChannel(c) ==
  /\ phase'[c] = phase[c] /\ checkpoint'[c] = checkpoint[c] /\ view'[c] = view[c]
  /\ cursor'[c] = cursor[c] /\ channel'[c] = channel[c]

SameBatch(c) == view'[c] = view[c] /\ cursor'[c] = cursor[c] /\ batch'[c] = batch[c]

(* A step that leaves the store and c's channel alone keeps the channel's  *)
(* part.                                                                   *)
LEMMA ChannelFrame ==
  ASSUME SameStore, NEW c, SameChannel(c)
  PROVE  /\ ChannelAscends(c) => ChannelAscends(c)'
         /\ ChannelComplete(c) => ChannelComplete(c)'
<1>1. \A o : OnItsWay(c, o)' = OnItsWay(c, o)
  BY DEF SameStore, SameChannel, OnItsWay, Known
<1>2. \A m : VersionIn(m)' = VersionIn(m) /\ IsBookmark(m)' = IsBookmark(m)
  BY DEF VersionIn, IsBookmark
<1>3. ChannelAscends(c) => ChannelAscends(c)'
  BY <1>1, <1>2 DEF SameChannel, ChannelAscends
<1>4. \A k : Entry(k)' = Entry(k)
  BY DEF SameStore, Entry
<1>5. ChannelComplete(c) => ChannelComplete(c)'
  BY <1>4 DEF SameStore, SameChannel, ChannelComplete
<1> QED
  BY <1>3, <1>5

(* A step that leaves the store and c's batch alone keeps the batch's      *)
(* part.                                                                   *)
LEMMA BatchFrame ==
  ASSUME SameStore, NEW c, SameBatch(c)
  PROVE  /\ BatchAhead(c) => BatchAhead(c)'
         /\ BatchComplete(c) => BatchComplete(c)'
<1>1. \A o : OnItsWay(c, o)' = OnItsWay(c, o)
  BY DEF SameStore, SameBatch, OnItsWay, Known
<1>2. BatchAhead(c) => BatchAhead(c)'
  BY <1>1 DEF SameStore, SameBatch, BatchAhead
<1>3. \A k : Entry(k)' = Entry(k)
  BY DEF SameStore, Entry
<1>4. BatchComplete(c) => BatchComplete(c)'
  BY <1>3 DEF SameStore, SameBatch, BatchComplete
<1> QED
  BY <1>2, <1>4

(* A step that leaves the store and c's view alone keeps the view's part.  *)
LEMMA ViewFrame ==
  ASSUME SameStore, NEW c, view'[c] = view[c]
  PROVE  ViewKnown(c) => ViewKnown(c)'
BY DEF SameStore, ViewKnown, Known

(* A step of another client.                                               *)
LEMMA OthersStay ==
  ASSUME SameStore, NEW c, SameChannel(c), SameBatch(c),
         token'[c] = token[c], mark'[c] = mark[c]
  PROVE  /\ Orderly(c) => Orderly(c)'
         /\ Covered(c) => Covered(c)'
<1>1. Positions(c) => Positions(c)'
  BY DEF SameStore, SameChannel, SameBatch, Positions
<1>2. Covered(c) => Covered(c)'
  BY DEF SameStore, SameChannel, Covered, ListedUpTo
<1> QED
  BY <1>1, <1>2, ChannelFrame, BatchFrame, ViewFrame DEF SameChannel, Orderly

(* A client with nothing on its way.                                       *)
LEMMA QuietOrderly ==
  ASSUME NEW c, ViewKnown(c)', Positions(c)',
         channel'[c] = <<>>, batch'[c] = {},
         checkpoint'[c] \in Nat, phase'[c] = "watch" => cursor'[c] = checkpoint'[c],
         \A k \in Scope[c] : rows'[k] # Nil => rows'[k].rv \in Nat
  PROVE  Orderly(c)'
<1>1. ChannelAscends(c)' /\ BatchAhead(c)' /\ BatchComplete(c)'
  BY DEF ChannelAscends, BatchAhead, BatchComplete
<1>2. ChannelComplete(c)'
  BY DEF ChannelComplete
<1> QED
  BY <1>1, <1>2 DEF Orderly

(* Versions of rows are numbers.                                           *)
LEMMA VersionsAreNumbers ==
  ASSUME Inductive, NEW c \in Watchers
  PROVE  \A k \in Scope[c] : rows[k] # Nil => rows[k].rv \in Nat
BY RowsAreBelow, ScopeAssumption

--------------------------------------------------------------------------------
(* The store.                                                              *)

(* A writer's step: what it commits has a version above every cursor.      *)
LEMMA StoreKeeps ==
  ASSUME Inductive, WatchTypeOK, [Next]_vars, UNCHANGED watchVars,
         NEW c \in Watchers, Orderly(c)
  PROVE  /\ Orderly(c)'
         /\ Covered(c) => Covered(c)'
<1> USE DEF watchVars, clientVars, serverVars
<1>1. /\ committed \in Nat /\ committed' \in Nat /\ committed <= committed'
      /\ \A k \in Keys : rows'[k] # rows[k] =>
           rows'[k] # Nil /\ rows'[k].rv \in Nat /\ committed < rows'[k].rv
  BY StoreMoves
<1>2. /\ checkpoint[c] \in Nat /\ cursor[c] \in Nat /\ mark[c] \in Nat
      /\ Scope[c] \subseteq Keys /\ view[c] \in [Keys -> Row \cup {Nil}]
      /\ batch[c] \subseteq Object
  BY TypesAt
<1>3. checkpoint[c] <= committed /\ cursor[c] <= committed
  BY DEF Orderly, Positions
<1>4. ViewKnown(c)'
  BY <1>2, KnownStays DEF Orderly, ViewKnown
<1>5. Positions(c)'
  BY <1>1, <1>2 DEF Orderly, Positions
<1>6. ASSUME NEW o \in Object, OnItsWay(c, o)
      PROVE  OnItsWay(c, o)'
  <2>1. o.key \in Keys /\ o.row \in Row
    BY Messages
  <2> QED
    BY <1>6, <2>1, KnownStays DEF OnItsWay
<1>7. ChannelAscends(c)'
  <2>1. \A m : VersionIn(m)' = VersionIn(m) /\ IsBookmark(m)' = IsBookmark(m)
    BY DEF VersionIn, IsBookmark
  <2> QED
    BY <1>6, <2>1, MessageIn DEF Orderly, ChannelAscends
<1>8. BatchAhead(c)'
  <2>1. \A o \in batch[c] : o.row.rv \in Nat
    BY <1>2, Messages
  <2> QED
    BY <1>1, <1>2, <1>6, <2>1 DEF Orderly, BatchAhead
<1>9. ChannelComplete(c)'
  <2> SUFFICES ASSUME phase[c] = "watch", NEW k \in Scope[c],
                      rows'[k] # Nil, checkpoint[c] < rows'[k].rv, rows'[k].rv <= cursor[c]
               PROVE  \E i \in 1 .. Len(channel[c]) : channel[c][i] = Entry(k)'
    BY DEF ChannelComplete
  <2>1. rows'[k] = rows[k]
    BY <1>1, <1>2, <1>3
  <2> QED
    BY <2>1 DEF Orderly, ChannelComplete, Entry
<1>10. BatchComplete(c)'
  <2> SUFFICES ASSUME NEW o \in batch[c], NEW k \in Scope[c],
                      rows'[k] # Nil, cursor[c] < rows'[k].rv, rows'[k].rv <= o.row.rv
               PROVE  Entry(k)' \in batch[c]
    BY DEF BatchComplete
  <2>1. o.row.rv \in Nat /\ o.row.rv <= committed
    BY <1>2, Messages DEF Orderly, BatchAhead
  <2>2. rows'[k] = rows[k]
    BY <1>1, <1>2, <2>1
  <2> QED
    BY <2>2 DEF Orderly, BatchComplete, Entry
<1>11. ASSUME Covered(c) PROVE Covered(c)'
  <2> SUFFICES ASSUME NEW k \in Scope[c], ListedUpTo(c, k),
                      rows'[k] # Nil, rows'[k].rv <= checkpoint[c]
               PROVE  view[c][k] = rows'[k]
    BY DEF Covered, ListedUpTo
  <2>1. rows'[k] = rows[k]
    BY <1>1, <1>2, <1>3
  <2> QED
    BY <1>11, <2>1 DEF Covered
<1> QED
  BY <1>4, <1>5, <1>7, <1>8, <1>9, <1>10, <1>11 DEF Orderly

--------------------------------------------------------------------------------
(* List.                                                                   *)

(* Reading the counter: the watermark is not above what is committed.      *)
LEMMA ListCounterKeeps ==
  ASSUME Inductive, WatchTypeOK, NEW c \in Watchers, ListCounter(c), Orderly(c)
  PROVE  /\ Orderly(c)'
         /\ Covered(c) => Covered(c)'
<1>1. /\ phase[c] = "counter" /\ phase'[c] = "page" /\ mark'[c] = committed
      /\ UNCHANGED <<vars, token, checkpoint, view, drops, cursor, batch, channel>>
  BY DEF ListCounter, WatchTypeOK, serverVars
<1>2. SameStore /\ rows' = rows /\ committed' = committed /\ committed \in Nat
  BY <1>1 DEF SameStore, vars, Inductive, TypeOK
<1>3. Positions(c)'
  BY <1>1, <1>2 DEF Orderly, Positions
<1>4. ViewKnown(c)'
  BY <1>1, <1>2, ViewFrame DEF Orderly
<1>5. channel'[c] = <<>> /\ batch'[c] = {} /\ checkpoint'[c] \in Nat
  BY <1>1, TypesAt DEF Orderly, Positions
<1>6. Orderly(c)'
  BY <1>1, <1>2, <1>3, <1>4, <1>5, QuietOrderly, VersionsAreNumbers
<1>7. Covered(c) => Covered(c)'
  BY <1>1, <1>2 DEF Covered, ListedUpTo
<1> QED
  BY <1>6, <1>7

(* What a page does to its client.                                         *)
LEMMA PageAnswers ==
  ASSUME WatchTypeOK, NEW c \in Watchers, ListPage(c)
  PROVE  /\ phase[c] = "page"
         /\ checkpoint'[c] = Kept(c)
         /\ \A k \in Keys : view'[c][k] = IF k \in Page(c) THEN rows[k] ELSE view[c][k]
         /\ \/ /\ Page(c) # Listed(c)
               /\ token'[c] = LastOnPage(c) /\ phase'[c] = "counter" /\ cursor'[c] = cursor[c]
            \/ /\ Page(c) = Listed(c)
               /\ token'[c] = token[c] /\ phase'[c] = "watch" /\ cursor'[c] = Kept(c)
         /\ UNCHANGED <<vars, mark, drops, batch, channel>>
BY DEF ListPage, WatchTypeOK

(* A page: its rows are committed, and the stream starts at a watermark.   *)
LEMMA ListPageOrderly ==
  ASSUME Inductive, WatchTypeOK, NEW c \in Watchers, ListPage(c), Orderly(c)
  PROVE  Orderly(c)'
<1>1. SameStore /\ rows' = rows /\ committed' = committed
  BY PageAnswers DEF SameStore, vars
<1>2. /\ Kept(c) \in Nat /\ Kept(c) <= committed
  BY PageAnswers, TypesAt DEF Kept, Orderly, Positions
<1>3. channel'[c] = <<>> /\ batch'[c] = {}
  BY PageAnswers DEF Orderly, Positions
<1>4. Positions(c)'
  BY <1>1, <1>2, <1>3, PageAnswers DEF Orderly, Positions
<1>5. ViewKnown(c)'
  <2> SUFFICES ASSUME NEW k \in Keys, view'[c][k] # Nil
               PROVE  Known(k, view'[c][k])
    BY <1>1 DEF ViewKnown, Known
  <2>1. CASE k \in Page(c)
    <3>1. view'[c][k] = rows[k]
      BY <2>1, PageAnswers
    <3> QED
      BY <3>1, KnownNow
  <2>2. CASE k \notin Page(c)
    <3>1. view'[c][k] = view[c][k]
      BY <2>2, PageAnswers
    <3> QED
      BY <3>1 DEF Orderly, ViewKnown
  <2> QED
    BY <2>1, <2>2
<1> QED
  BY <1>1, <1>2, <1>3, <1>4, <1>5, PageAnswers, QuietOrderly, VersionsAreNumbers

(* With the first page's watermark nothing is missed between two pages.    *)
LEMMA ListPageCovered ==
  ASSUME KeptPage = "first", Inductive, WatchTypeOK,
         NEW c \in Watchers, ListPage(c), Covered(c)
  PROVE  Covered(c)'
<1>1. rows' = rows
  BY PageAnswers DEF vars
<1>2. SUFFICES ASSUME NEW k \in Scope[c], ListedUpTo(c, k)', rows[k] # Nil,
                      rows[k].rv <= checkpoint'[c]
               PROVE  view'[c][k] = rows[k]
  BY <1>1 DEF Covered
<1>3. k \in Keys /\ k \in Nat
  BY TypesAt, OrderAssumption
<1>4. CASE k \in Page(c)
  BY <1>3, <1>4, PageAnswers
<1>5. CASE k \in Listed(c) /\ k \notin Page(c)
  <2>1. Page(c) # Listed(c)
    BY <1>5
  <2>2. phase'[c] = "counter" /\ token'[c] = LastOnPage(c)
    BY <2>1, PageAnswers
  <2>3. k <= LastOnPage(c)
    BY <1>2, <2>2 DEF ListedUpTo
  <2>4. LastOnPage(c) \in Page(c)
    BY <2>1, PageHasLast
  <2>5. LastOnPage(c) \in Nat
    BY <2>4, TypesAt, OrderAssumption DEF Page, Listed
  <2>6. k < LastOnPage(c)
    BY <1>3, <1>5, <2>3, <2>4, <2>5
  <2> QED
    BY <1>5, <2>4, <2>6, PageIsBeginning
<1>6. CASE k \notin Listed(c)
  <2>1. token[c] # Nil /\ ~(k > token[c])
    BY <1>2, <1>6 DEF Listed
  <2>2. token[c] \in Nat
    BY <2>1, TypesAt, OrderAssumption
  <2>3. ListedUpTo(c, k)
    BY <1>3, <2>1, <2>2 DEF ListedUpTo
  <2>4. checkpoint'[c] = checkpoint[c]
    BY <2>1, PageAnswers DEF Kept
  <2>5. view'[c][k] = view[c][k]
    BY <1>3, <1>6, PageAnswers DEF Page
  <2> QED
    BY <1>2, <2>3, <2>4, <2>5 DEF Covered
<1> QED
  BY <1>4, <1>5, <1>6

(* A lost stream: the new one starts from what the client received.        *)
LEMMA ReconnectKeeps ==
  ASSUME Inductive, WatchTypeOK, NEW c \in Watchers, Reconnect(c), Orderly(c)
  PROVE  /\ Orderly(c)'
         /\ Covered(c) => Covered(c)'
<1>1. /\ phase[c] = "watch" /\ phase' = phase
      /\ cursor'[c] = checkpoint[c] /\ batch'[c] = {} /\ channel'[c] = <<>>
      /\ UNCHANGED <<vars, token, mark, checkpoint, view>>
  BY DEF Reconnect, WatchTypeOK
<1>2. SameStore /\ rows' = rows /\ committed' = committed
  BY <1>1 DEF SameStore, vars
<1>3. checkpoint[c] \in Nat
  BY TypesAt
<1>4. Positions(c)'
  BY <1>1, <1>2, <1>3 DEF Orderly, Positions
<1>5. ViewKnown(c)'
  BY <1>1, <1>2, ViewFrame DEF Orderly
<1>6. Orderly(c)'
  BY <1>1, <1>2, <1>3, <1>4, <1>5, QuietOrderly, VersionsAreNumbers
<1>7. Covered(c) => Covered(c)'
  BY <1>1, <1>2 DEF Covered, ListedUpTo
<1> QED
  BY <1>6, <1>7

--------------------------------------------------------------------------------
(* Poll.                                                                   *)

(* What a poll returns is a beginning of what is new, in version order.    *)
LEMMA PollIsBeginning ==
  ASSUME Inductive, VersionNamesOneWrite, WatchTypeOK, NEW c \in Watchers,
         NEW k \in Polled(c), NEW j \in Fresh(c), rows[j].rv <= rows[k].rv
  PROVE  j \in Polled(c)
<1> DEFINE S == {i \in Fresh(c) : rows[i].rv < rows[k].rv}
           T == {i \in Fresh(c) : rows[i].rv < rows[j].rv}
           f == [i \in S |-> rows[i].rv]
<1>1. /\ Cardinality(S) < BatchLimit
      /\ k \in Fresh(c)
  BY DEF Polled
<1>2. \A i \in Fresh(c) : i \in Keys /\ rows[i] # Nil /\ rows[i].rv \in Nat
  BY TypesAt, RowsAreBelow DEF Fresh
<1>3. IsFiniteSet(S)
  <2>1. \A i \in S : f[i] \in 0 .. rows[k].rv
    BY <1>1, <1>2
  <2>2. \A i, l \in S : f[i] = f[l] => i = l
    BY <1>2 DEF VersionNamesOneWrite
  <2>3. f \in Injection(S, 0 .. rows[k].rv)
    BY <2>1, <2>2 DEF Injection, IsInjective
  <2>4. IsFiniteSet(0 .. rows[k].rv)
    <3>1. 0 \in Int /\ rows[k].rv \in Int
      BY <1>1, <1>2
    <3> QED
      BY <3>1, FS_Interval
  <2> QED
    BY <2>3, <2>4, FS_Injection
<1>4. T \in SUBSET S
  BY <1>1, <1>2
<1>5. Cardinality(T) < BatchLimit
  BY <1>1, <1>3, <1>4, FewerBefore, SizesAssumption
<1> QED
  BY <1>5 DEF Polled

(* A poll: the batch is the beginning of what is above the cursor.         *)
LEMMA PollKeeps ==
  ASSUME Inductive, VersionNamesOneWrite, WatchTypeOK,
         NEW c \in Watchers, Poll(c), Orderly(c)
  PROVE  /\ Orderly(c)'
         /\ Covered(c) => Covered(c)'
<1>1. /\ phase[c] = "watch" /\ UNCHANGED <<vars, clientVars, cursor, channel>>
      /\ batch'[c] = {Entry(k) : k \in Polled(c)}
      /\ Polled(c) \subseteq Fresh(c)
      /\ \A k \in Fresh(c) : /\ k \in Scope[c] /\ k \in Keys
                             /\ rows[k] # Nil /\ cursor[c] < rows[k].rv
  BY PollAnswers DEF WatchTypeOK
<1>2. /\ SameStore /\ SameChannel(c)
      /\ rows' = rows /\ committed' = committed /\ view' = view /\ cursor' = cursor
      /\ UNCHANGED <<phase, token, mark, checkpoint, view>>
  BY <1>1 DEF SameStore, SameChannel, vars, clientVars
<1>3. /\ ViewKnown(c)' /\ ChannelAscends(c)' /\ ChannelComplete(c)'
  BY <1>2, ViewFrame, ChannelFrame DEF Orderly
<1>4. Positions(c)'
  BY <1>1, <1>2 DEF Orderly, Positions
<1>5. ASSUME NEW k \in Polled(c)
      PROVE  /\ Entry(k).key = k /\ Entry(k).row = rows[k] /\ Known(k, rows[k])
             /\ rows[k].rv \in Nat /\ rows[k].rv <= committed
             /\ k \in Scope[c] /\ k \in Keys /\ rows[k] # Nil /\ cursor[c] < rows[k].rv
  BY <1>1, KnownNow, RowsAreBelow
<1>6. BatchAhead(c)'
  <2> SUFFICES ASSUME NEW o \in batch'[c]
               PROVE  /\ OnItsWay(c, o)'
                      /\ cursor[c] < o.row.rv /\ o.row.rv <= committed
                      /\ \A p \in batch'[c] : o.row.rv = p.row.rv => o = p
    BY <1>2 DEF BatchAhead
  <2>1. PICK k \in Polled(c) : o = Entry(k)
    BY <1>1
  <2>2. o.key = k /\ o.row = rows[k]
    BY <1>5, <2>1
  <2>3. view[c][k] # Nil => view[c][k].rv <= rows[k].rv
    BY <1>5 DEF Orderly, ViewKnown, Known
  <2>4. OnItsWay(c, o)'
    BY <1>2, <1>5, <2>2, <2>3 DEF OnItsWay, Known
  <2>5. ASSUME NEW p \in batch'[c], o.row.rv = p.row.rv PROVE o = p
    <3>1. PICK j \in Polled(c) : p = Entry(j)
      BY <1>1
    <3>2. rows[j].rv = rows[k].rv
      BY <1>5, <2>2, <2>5, <3>1
    <3>3. j = k
      BY <1>5, <3>2 DEF VersionNamesOneWrite
    <3> QED
      BY <2>1, <3>1, <3>3
  <2> QED
    BY <1>5, <2>2, <2>4, <2>5
<1>7. BatchComplete(c)'
  <2> SUFFICES ASSUME NEW o \in batch'[c], NEW j \in Scope[c],
                      rows[j] # Nil, cursor[c] < rows[j].rv, rows[j].rv <= o.row.rv
               PROVE  Entry(j) \in batch'[c]
    BY <1>2 DEF BatchComplete, Entry
  <2>1. PICK k \in Polled(c) : o = Entry(k)
    BY <1>1
  <2>2. rows[j].rv <= rows[k].rv
    BY <1>5, <2>1
  <2>3. j \in Fresh(c)
    <3>1. rows[j].rv \in Nat /\ cursor[c] \in Nat
      BY TypesAt, VersionsAreNumbers
    <3> QED
      BY <3>1 DEF Fresh
  <2>4. j \in Polled(c)
    BY <2>2, <2>3, PollIsBeginning
  <2> QED
    BY <1>1, <2>4
<1>8. Covered(c) => Covered(c)'
  BY <1>2 DEF Covered, ListedUpTo
<1> QED
  BY <1>3, <1>4, <1>6, <1>7, <1>8 DEF Orderly

--------------------------------------------------------------------------------
(* The channel takes a message.                                            *)

(* A message behind everything that waits.                                 *)
LEMMA ChannelTakes ==
  ASSUME WatchTypeOK, NEW c \in Watchers, NEW m \in Object \cup Bookmark,
         SameStore, checkpoint' = checkpoint, view' = view,
         channel'[c] = Append(channel[c], m),
         ChannelAscends(c), cursor'[c] \in Nat, cursor[c] <= cursor'[c],
         checkpoint[c] <= cursor[c],
         VersionIn(m) = cursor'[c],
         ~IsBookmark(m) => OnItsWay(c, m) /\ cursor[c] < VersionIn(m)
  PROVE  ChannelAscends(c)'
<1> DEFINE l == channel[c]
<1>1. /\ l \in Seq(Object \cup Bookmark) /\ Len(l) \in Nat
      /\ checkpoint[c] \in Nat /\ cursor[c] \in Nat
  BY TypesAt
<1>2. /\ Len(channel'[c]) = Len(l) + 1
      /\ channel'[c][Len(l) + 1] = m
      /\ \A i \in 1 .. Len(l) : channel'[c][i] = l[i]
  BY <1>1
<1>3. \A n : VersionIn(n)' = VersionIn(n) /\ IsBookmark(n)' = IsBookmark(n)
  BY DEF VersionIn, IsBookmark
<1>4. \A o : OnItsWay(c, o)' = OnItsWay(c, o)
  BY DEF SameStore, OnItsWay, Known
<1>5. \A i \in 1 .. Len(l) : VersionIn(l[i]) \in Nat /\ VersionIn(l[i]) <= cursor[c]
  BY MessageIn DEF ChannelAscends
<1>6. SUFFICES ASSUME NEW i \in 1 .. Len(l) + 1
               PROVE  LET n == channel'[c][i]
                      IN  /\ checkpoint[c] <= VersionIn(n) /\ VersionIn(n) <= cursor'[c]
                          /\ ~IsBookmark(n) => OnItsWay(c, n)
                          /\ \A j \in 1 .. i - 1 :
                               /\ VersionIn(channel'[c][j]) <= VersionIn(n)
                               /\ ~IsBookmark(n) => VersionIn(channel'[c][j]) < VersionIn(n)
  BY <1>2, <1>3, <1>4 DEF ChannelAscends
<1>7. CASE i = Len(l) + 1
  <2>1. channel'[c][i] = m
    BY <1>2, <1>7
  <2>2. checkpoint[c] <= VersionIn(m) /\ VersionIn(m) <= cursor'[c]
    BY <1>1
  <2>3. ASSUME NEW j \in 1 .. i - 1
        PROVE  /\ VersionIn(channel'[c][j]) <= VersionIn(m)
               /\ ~IsBookmark(m) => VersionIn(channel'[c][j]) < VersionIn(m)
    <3>1. j \in 1 .. Len(l) /\ channel'[c][j] = l[j]
      BY <1>1, <1>2, <1>7
    <3> HIDE DEF l
    <3>2. VersionIn(l[j]) \in Nat /\ VersionIn(l[j]) <= cursor[c]
      BY <1>5, <3>1
    <3> QED
      BY <1>1, <3>1, <3>2
  <2> QED
    BY <2>1, <2>2, <2>3
<1>8. CASE i # Len(l) + 1
  <2>1. i \in 1 .. Len(l) /\ channel'[c][i] = l[i]
    BY <1>1, <1>2, <1>8
  <2>2. \A j \in 1 .. i - 1 : j \in 1 .. Len(l) /\ channel'[c][j] = l[j]
    BY <1>1, <1>2, <2>1
  <2>3. /\ checkpoint[c] <= VersionIn(l[i]) /\ VersionIn(l[i]) <= cursor[c]
        /\ ~IsBookmark(l[i]) => OnItsWay(c, l[i])
        /\ \A j \in 1 .. i - 1 :
             /\ VersionIn(l[j]) <= VersionIn(l[i])
             /\ ~IsBookmark(l[i]) => VersionIn(l[j]) < VersionIn(l[i])
    BY <2>1 DEF ChannelAscends
  <2>4. VersionIn(l[i]) <= cursor'[c]
    BY <1>1, <1>5, <2>1
  <2> QED
    BY <2>1, <2>2, <2>3, <2>4
<1> QED
  BY <1>7, <1>8

(* A bookmark: it claims nothing the objects before it did not.            *)
LEMMA SendBookmarkKeeps ==
  ASSUME Inductive, WatchTypeOK, NEW c \in Watchers, SendBookmark(c), Orderly(c)
  PROVE  /\ Orderly(c)'
         /\ Covered(c) => Covered(c)'
<1> DEFINE m == [bookmark |-> cursor[c]]
<1>1. /\ phase[c] = "watch" /\ batch[c] = {}
      /\ channel'[c] = Append(channel[c], m)
      /\ UNCHANGED <<vars, clientVars, cursor, batch>>
  BY DEF SendBookmark, WatchTypeOK
<1>2. /\ SameStore /\ SameBatch(c)
      /\ rows' = rows /\ committed' = committed
      /\ UNCHANGED <<phase, token, mark, checkpoint, view, cursor, batch>>
  BY <1>1 DEF SameStore, SameBatch, vars, clientVars
<1>3. m \in Bookmark /\ m.bookmark = cursor[c] /\ cursor[c] \in Nat
  BY TypesAt DEF Bookmark
<1>4. IsBookmark(m) /\ VersionIn(m) = cursor[c]
  BY <1>3, Messages
<1>5. checkpoint[c] <= cursor[c]
  BY <1>1 DEF Orderly, Positions
<1> HIDE DEF m
<1>6. ChannelAscends(c)'
  BY <1>1, <1>2, <1>3, <1>4, <1>5, ChannelTakes DEF Orderly
<1>7. ViewKnown(c)' /\ BatchAhead(c)' /\ BatchComplete(c)'
  BY <1>2, ViewFrame, BatchFrame DEF Orderly
<1>8. Positions(c)'
  BY <1>1, <1>2 DEF Orderly, Positions
<1>9. ChannelComplete(c)'
  <2>1. /\ \A i \in 1 .. Len(channel[c]) : channel'[c][i] = channel[c][i]
        /\ \A i \in 1 .. Len(channel[c]) : i \in 1 .. Len(channel'[c])
    BY <1>1, <1>3, TypesAt
  <2> QED
    BY <1>2, <2>1 DEF Orderly, ChannelComplete, Entry
<1>10. Covered(c) => Covered(c)'
  BY <1>2 DEF Covered, ListedUpTo
<1> QED
  BY <1>6, <1>7, <1>8, <1>9, <1>10 DEF Orderly

(* A send: the oldest object of the batch goes behind what waits.          *)
LEMMA DeliverKeeps ==
  ASSUME Inductive, WatchTypeOK, NEW c \in Watchers, Deliver(c), Orderly(c)
  PROVE  /\ Orderly(c)'
         /\ Covered(c) => Covered(c)'
<1>1. PICK o \in Earliest(c) :
        /\ channel'[c] = Append(channel[c], o)
        /\ batch'[c] = batch[c] \ {o}
        /\ cursor'[c] = IF o.row.rv > cursor[c] THEN o.row.rv ELSE cursor[c]
        /\ UNCHANGED <<vars, clientVars>>
  BY DEF Deliver, WatchTypeOK
<1>2. /\ SameStore /\ rows' = rows /\ committed' = committed
      /\ UNCHANGED <<phase, token, mark, checkpoint, view>>
  BY <1>1 DEF SameStore, vars, clientVars
<1>3. /\ o \in batch[c] /\ o \in Object
      /\ \A p \in batch[c] : o.row.rv <= p.row.rv
      /\ \A p \in batch[c] : p \in Object /\ p.row.rv \in Nat
      /\ ~IsBookmark(o) /\ VersionIn(o) = o.row.rv /\ o.row.rv \in Nat
  BY TypesAt, Messages DEF Earliest
<1>4. /\ cursor[c] \in Nat /\ checkpoint[c] \in Nat /\ committed \in Nat
  BY TypesAt DEF Inductive, TypeOK
<1>5. /\ OnItsWay(c, o) /\ cursor[c] < o.row.rv /\ o.row.rv <= committed
      /\ \A p \in batch[c] : o.row.rv = p.row.rv => o = p
  BY <1>3 DEF Orderly, BatchAhead
<1>6. cursor'[c] = o.row.rv
  BY <1>1, <1>3, <1>4, <1>5
<1>7. phase[c] = "watch" /\ checkpoint[c] <= cursor[c]
  BY <1>3 DEF Orderly, Positions
<1>8. ChannelAscends(c)'
  BY <1>1, <1>2, <1>3, <1>4, <1>5, <1>6, <1>7, ChannelTakes DEF Orderly
<1>9. ViewKnown(c)'
  BY <1>2, ViewFrame DEF Orderly
<1>10. Positions(c)'
  BY <1>2, <1>3, <1>4, <1>5, <1>6, <1>7 DEF Orderly, Positions
<1>11. BatchAhead(c)'
  <2> SUFFICES ASSUME NEW p \in batch[c], p # o
               PROVE  /\ OnItsWay(c, p)'
                      /\ o.row.rv < p.row.rv /\ p.row.rv <= committed
                      /\ \A q \in batch[c] : p.row.rv = q.row.rv => p = q
    BY <1>1, <1>2, <1>6 DEF BatchAhead
  <2>1. OnItsWay(c, p) /\ p.row.rv <= committed
        /\ \A q \in batch[c] : p.row.rv = q.row.rv => p = q
    BY DEF Orderly, BatchAhead
  <2>2. o.row.rv < p.row.rv
    BY <1>3, <1>5
  <2>3. OnItsWay(c, p)'
    BY <1>2, <2>1 DEF OnItsWay, Known
  <2> QED
    BY <2>1, <2>2, <2>3
<1>12. BatchComplete(c)'
  <2> SUFFICES ASSUME NEW p \in batch[c], p # o, NEW k \in Scope[c],
                      rows[k] # Nil, o.row.rv < rows[k].rv, rows[k].rv <= p.row.rv
               PROVE  Entry(k) \in batch[c] \ {o}
    BY <1>1, <1>2, <1>6 DEF BatchComplete, Entry
  <2>1. rows[k].rv \in Nat /\ k \in Keys
    BY VersionsAreNumbers, TypesAt
  <2>2. cursor[c] < rows[k].rv
    BY <1>3, <1>4, <1>5, <2>1
  <2>3. Entry(k) \in batch[c]
    BY <2>2 DEF Orderly, BatchComplete
  <2>4. Entry(k).row.rv # o.row.rv
    BY <1>3, <2>1, KnownNow
  <2> QED
    BY <2>3, <2>4
<1>13. ChannelComplete(c)'
  <2> SUFFICES ASSUME NEW k \in Scope[c], rows[k] # Nil,
                      checkpoint[c] < rows[k].rv, rows[k].rv <= o.row.rv
               PROVE  \E i \in 1 .. Len(channel'[c]) : channel'[c][i] = Entry(k)
    BY <1>2, <1>6 DEF ChannelComplete, Entry
  <2>1. /\ Len(channel'[c]) = Len(channel[c]) + 1 /\ Len(channel[c]) \in Nat
        /\ channel'[c][Len(channel[c]) + 1] = o
        /\ \A i \in 1 .. Len(channel[c]) : channel'[c][i] = channel[c][i]
    BY <1>1, <1>3, TypesAt
  <2>2. rows[k].rv \in Nat /\ k \in Keys
    BY VersionsAreNumbers, TypesAt
  <2>3. CASE rows[k].rv <= cursor[c]
    <3>1. PICK i \in 1 .. Len(channel[c]) : channel[c][i] = Entry(k)
      BY <1>7, <2>3 DEF Orderly, ChannelComplete
    <3>2. i \in 1 .. Len(channel'[c]) /\ channel'[c][i] = Entry(k)
      BY <2>1, <3>1
    <3> QED
      BY <3>2
  <2>4. CASE cursor[c] < rows[k].rv
    <3>1. Entry(k) \in batch[c] /\ Entry(k).row = rows[k]
      BY <1>3, <2>2, <2>4, KnownNow DEF Orderly, BatchComplete
    <3>2. o.row.rv = rows[k].rv
      BY <1>3, <2>2, <3>1
    <3>3. o = Entry(k)
      BY <1>5, <3>1, <3>2
    <3> QED
      BY <2>1, <3>3
  <2> QED
    BY <1>4, <2>2, <2>3, <2>4
<1>14. Covered(c) => Covered(c)'
  BY <1>2 DEF Covered, ListedUpTo
<1> QED
  BY <1>8, <1>9, <1>10, <1>11, <1>12, <1>13, <1>14 DEF Orderly

--------------------------------------------------------------------------------
(* The client receives.                                                    *)

(* The message at the head, and what is left.                              *)
LEMMA ReceiveTakes ==
  ASSUME WatchTypeOK, NEW c \in Watchers, Receive(c), NEW m, m = Head(channel[c])
  PROVE  /\ Len(channel[c]) >= 1 /\ m = channel[c][1] /\ m \in Object \cup Bookmark
         /\ Len(channel'[c]) = Len(channel[c]) - 1
         /\ \A i \in 1 .. Len(channel'[c]) : channel'[c][i] = channel[c][i + 1]
         /\ checkpoint'[c] = VersionIn(m)
         /\ IsBookmark(m) => view'[c] = view[c]
         /\ ~IsBookmark(m) =>
              /\ m \in Object /\ view'[c][m.key] = m.row
              /\ \A k \in Keys : k # m.key => view'[c][k] = view[c][k]
         /\ UNCHANGED <<vars, phase, token, mark, drops, cursor, batch>>
<1>1. channel[c] # <<>> /\ channel[c] \in Seq(Object \cup Bookmark)
  BY TypesAt DEF Receive
<1>2. /\ Len(channel[c]) >= 1 /\ m = channel[c][1] /\ m \in Object \cup Bookmark
      /\ Len(Tail(channel[c])) = Len(channel[c]) - 1
      /\ \A i \in 1 .. Len(channel[c]) - 1 : Tail(channel[c])[i] = channel[c][i + 1]
  BY <1>1
<1>3. /\ channel' = [channel EXCEPT ![c] = Tail(channel[c])]
      /\ checkpoint' = [checkpoint EXCEPT ![c] = VersionIn(m)]
      /\ view' = IF IsBookmark(m) THEN view ELSE [view EXCEPT ![c][m.key] = m.row]
      /\ UNCHANGED <<vars, phase, token, mark, drops, cursor, batch>>
  BY DEF Receive
<1>4. channel'[c] = Tail(channel[c]) /\ checkpoint'[c] = VersionIn(m)
  BY <1>3 DEF WatchTypeOK
<1>5. ASSUME ~IsBookmark(m)
      PROVE  /\ m \in Object /\ view'[c][m.key] = m.row
             /\ \A k \in Keys : k # m.key => view'[c][k] = view[c][k]
  <2>1. m \in Object /\ m.key \in Keys
    BY <1>2, <1>5, Messages
  <2> QED
    BY <1>3, <1>5, <2>1 DEF WatchTypeOK
<1> QED
  BY <1>2, <1>3, <1>4, <1>5

(* An object that comes is a version of its row, and not older than the    *)
(* one in view.                                                            *)
LEMMA ReceivedObject ==
  ASSUME Inductive, WatchTypeOK, NEW c \in Watchers, Receive(c), Orderly(c),
         NEW m, m = Head(channel[c])
  PROVE  /\ VersionIn(m) \in Nat
         /\ checkpoint[c] <= VersionIn(m) /\ VersionIn(m) <= cursor[c]
         /\ ~IsBookmark(m) => OnItsWay(c, m) /\ VersionIn(m) = m.row.rv
         /\ phase[c] = "watch"
<1>1. 1 \in 1 .. Len(channel[c]) /\ m = channel[c][1]
  BY ReceiveTakes, TypesAt
<1>2. phase[c] = "watch"
  BY <1>1 DEF Receive, Orderly, Positions
<1>3. m \in Object \cup Bookmark
  BY ReceiveTakes
<1>4. VersionIn(m) \in Nat /\ (~IsBookmark(m) => VersionIn(m) = m.row.rv)
  BY <1>3, Messages
<1> QED
  BY <1>1, <1>2, <1>4 DEF Orderly, ChannelAscends

(* A receipt: the head of the channel is not older than what is in view.   *)
LEMMA ReceiveOrderly ==
  ASSUME Inductive, WatchTypeOK, NEW c \in Watchers, Receive(c), Orderly(c)
  PROVE  Orderly(c)'
<1> DEFINE m == Head(channel[c])
<1> HIDE DEF m
<1>1. /\ Len(channel[c]) >= 1 /\ m = channel[c][1] /\ m \in Object \cup Bookmark
      /\ Len(channel'[c]) = Len(channel[c]) - 1
      /\ \A i \in 1 .. Len(channel'[c]) : channel'[c][i] = channel[c][i + 1]
      /\ checkpoint'[c] = VersionIn(m)
      /\ IsBookmark(m) => view'[c] = view[c]
      /\ ~IsBookmark(m) =>
           /\ m \in Object /\ view'[c][m.key] = m.row
           /\ \A k \in Keys : k # m.key => view'[c][k] = view[c][k]
      /\ UNCHANGED <<vars, phase, token, mark, drops, cursor, batch>>
  BY ReceiveTakes DEF m
<1>2. /\ VersionIn(m) \in Nat
      /\ checkpoint[c] <= VersionIn(m) /\ VersionIn(m) <= cursor[c]
      /\ ~IsBookmark(m) => OnItsWay(c, m) /\ VersionIn(m) = m.row.rv
      /\ phase[c] = "watch"
  BY ReceivedObject DEF m
<1>3. /\ SameStore /\ rows' = rows /\ committed' = committed /\ committed \in Nat
      /\ Len(channel[c]) \in Nat /\ cursor[c] \in Nat /\ checkpoint[c] \in Nat
  BY <1>1, TypesAt DEF SameStore, vars, Inductive, TypeOK
<1>4. ViewKnown(c)'
  <2> SUFFICES ASSUME NEW k \in Keys, view'[c][k] # Nil
               PROVE  Known(k, view'[c][k])
    BY <1>3 DEF ViewKnown, Known
  <2>1. CASE ~IsBookmark(m) /\ k = m.key
    BY <1>1, <1>2, <2>1 DEF OnItsWay
  <2>2. CASE IsBookmark(m) \/ k # m.key
    <3>1. view'[c][k] = view[c][k]
      BY <1>1, <2>2
    <3> QED
      BY <3>1 DEF Orderly, ViewKnown
  <2> QED
    BY <2>1, <2>2
<1>5. Positions(c)'
  BY <1>1, <1>2, <1>3 DEF Orderly, Positions
<1>6. ASSUME NEW o \in Object, OnItsWay(c, o), VersionIn(m) < o.row.rv
      PROVE  OnItsWay(c, o)'
  <2>1. o.key \in Keys /\ o.row.rv \in Nat
    BY Messages
  <2>2. view'[c][o.key] # Nil => view'[c][o.key].rv <= o.row.rv
    <3>1. CASE ~IsBookmark(m) /\ o.key = m.key
      <4>1. view'[c][o.key] = m.row /\ m.row.rv = VersionIn(m)
        BY <1>1, <1>2, <3>1
      <4> QED
        BY <1>2, <1>6, <2>1, <4>1
    <3>2. CASE IsBookmark(m) \/ o.key # m.key
      <4>1. view'[c][o.key] = view[c][o.key]
        BY <1>1, <2>1, <3>2
      <4> QED
        BY <1>6, <4>1 DEF OnItsWay
    <3> QED
      BY <3>1, <3>2
  <2> QED
    BY <1>3, <1>6, <2>2 DEF OnItsWay, Known
<1>7. ChannelAscends(c)'
  <2>1. \A n : VersionIn(n)' = VersionIn(n) /\ IsBookmark(n)' = IsBookmark(n)
    BY DEF VersionIn, IsBookmark
  <2> SUFFICES ASSUME NEW i \in 1 .. Len(channel'[c]), NEW n, n = channel'[c][i]
               PROVE  /\ VersionIn(m) <= VersionIn(n) /\ VersionIn(n) <= cursor[c]
                      /\ ~IsBookmark(n) => OnItsWay(c, n)'
                      /\ \A j \in 1 .. i - 1 :
                           /\ VersionIn(channel'[c][j]) <= VersionIn(n)
                           /\ ~IsBookmark(n) => VersionIn(channel'[c][j]) < VersionIn(n)
    BY <1>1, <2>1 DEF ChannelAscends, OnItsWay, Known
  <2>3. i + 1 \in 1 .. Len(channel[c]) /\ 1 \in 1 .. (i + 1) - 1 /\ n = channel[c][i + 1]
    BY <1>1, <1>3, SMTT(30)
  <2>4. /\ VersionIn(n) <= cursor[c]
        /\ ~IsBookmark(n) => OnItsWay(c, n)
        /\ \A j \in 1 .. (i + 1) - 1 :
             /\ VersionIn(channel[c][j]) <= VersionIn(n)
             /\ ~IsBookmark(n) => VersionIn(channel[c][j]) < VersionIn(n)
    BY <2>3 DEF Orderly, ChannelAscends
  <2>5. VersionIn(m) <= VersionIn(n) /\ (~IsBookmark(n) => VersionIn(m) < VersionIn(n))
    BY <1>1, <2>3, <2>4
  <2>6. ~IsBookmark(n) => n \in Object /\ VersionIn(n) = n.row.rv
    BY <2>3, MessageIn, Messages
  <2>7. ~IsBookmark(n) => OnItsWay(c, n)'
    BY <1>6, <2>4, <2>5, <2>6
  <2>8. \A j \in 1 .. i - 1 : j + 1 \in 1 .. (i + 1) - 1 /\ channel'[c][j] = channel[c][j + 1]
    BY <1>1, <1>3
  <2> QED
    BY <2>3, <2>4, <2>5, <2>7, <2>8
<1>8. BatchAhead(c)'
  <2> SUFFICES ASSUME NEW o \in batch[c]
               PROVE  /\ OnItsWay(c, o)'
                      /\ cursor[c] < o.row.rv /\ o.row.rv <= committed
                      /\ \A p \in batch[c] : o.row.rv = p.row.rv => o = p
    BY <1>1, <1>3 DEF BatchAhead
  <2>1. /\ OnItsWay(c, o)
        /\ cursor[c] < o.row.rv /\ o.row.rv <= committed
        /\ \A p \in batch[c] : o.row.rv = p.row.rv => o = p
    BY DEF Orderly, BatchAhead
  <2>2. o \in Object /\ o.row.rv \in Nat
    BY TypesAt, Messages
  <2>3. VersionIn(m) < o.row.rv
    BY <1>2, <1>3, <2>1, <2>2
  <2> QED
    BY <1>6, <2>1, <2>2, <2>3
<1>9. BatchComplete(c)'
  BY <1>1, <1>3 DEF Orderly, BatchComplete, Entry
<1>10. ChannelComplete(c)'
  <2> SUFFICES ASSUME NEW k \in Scope[c], rows[k] # Nil,
                      VersionIn(m) < rows[k].rv, rows[k].rv <= cursor[c]
               PROVE  \E i \in 1 .. Len(channel'[c]) : channel'[c][i] = Entry(k)
    BY <1>1, <1>3 DEF ChannelComplete, Entry
  <2>1. rows[k].rv \in Nat /\ k \in Keys
    BY VersionsAreNumbers, TypesAt
  <2>2. checkpoint[c] < rows[k].rv
    BY <1>2, <1>3, <2>1
  <2>3. PICK i \in 1 .. Len(channel[c]) : channel[c][i] = Entry(k)
    BY <1>2, <2>2 DEF Orderly, ChannelComplete
  <2>4. VersionIn(Entry(k)) = rows[k].rv
    BY <2>1, KnownNow, Messages
  <2>5. i # 1
    BY <1>1, <1>2, <2>1, <2>3, <2>4
  <2>6. i - 1 \in 1 .. Len(channel'[c]) /\ (i - 1) + 1 = i
    BY <1>1, <1>3, <2>5
  <2>7. channel'[c][i - 1] = Entry(k)
    BY <1>1, <2>3, <2>6
  <2> QED
    BY <2>6, <2>7
<1> QED
  BY <1>4, <1>5, <1>7, <1>8, <1>9, <1>10 DEF Orderly

(* Whatever the checkpoint passes is in view.                              *)
LEMMA ReceiveCovered ==
  ASSUME Inductive, WatchTypeOK, NEW c \in Watchers, Receive(c), Orderly(c), Covered(c)
  PROVE  Covered(c)'
<1> DEFINE m == Head(channel[c])
<1> HIDE DEF m
<1>1. /\ Len(channel[c]) >= 1 /\ m = channel[c][1] /\ m \in Object \cup Bookmark
      /\ checkpoint'[c] = VersionIn(m)
      /\ IsBookmark(m) => view'[c] = view[c]
      /\ ~IsBookmark(m) =>
           /\ m \in Object /\ view'[c][m.key] = m.row
           /\ \A k \in Keys : k # m.key => view'[c][k] = view[c][k]
      /\ UNCHANGED <<vars, phase, token>>
  BY ReceiveTakes DEF m
<1>2. /\ VersionIn(m) \in Nat
      /\ checkpoint[c] <= VersionIn(m) /\ VersionIn(m) <= cursor[c]
      /\ ~IsBookmark(m) => OnItsWay(c, m) /\ VersionIn(m) = m.row.rv
      /\ phase[c] = "watch"
  BY ReceivedObject DEF m
<1>3. rows' = rows /\ Len(channel[c]) \in Nat /\ cursor[c] \in Nat /\ checkpoint[c] \in Nat
  BY <1>1, TypesAt DEF vars
<1> SUFFICES ASSUME NEW k \in Scope[c], rows[k] # Nil, rows[k].rv <= VersionIn(m)
             PROVE  view'[c][k] = rows[k]
  BY <1>1, <1>3 DEF Covered
<1>5. rows[k].rv \in Nat /\ k \in Keys
  BY VersionsAreNumbers, TypesAt
<1>6. CASE rows[k].rv <= checkpoint[c]
  <2>1. view[c][k] = rows[k]
    BY <1>2, <1>6 DEF Covered, ListedUpTo
  <2>2. CASE ~IsBookmark(m) /\ k = m.key
    <3>1. /\ m.row.rv = VersionIn(m) /\ view'[c][k] = m.row
          /\ Known(k, m.row)
      BY <1>1, <1>2, <2>2 DEF OnItsWay
    <3>2. m.row.rv = rows[k].rv
      BY <1>2, <1>5, <3>1 DEF Known
    <3> QED
      BY <3>1, <3>2 DEF Known
  <2>3. CASE IsBookmark(m) \/ k # m.key
    BY <1>1, <1>5, <2>1, <2>3
  <2> QED
    BY <2>2, <2>3
<1>7. CASE checkpoint[c] < rows[k].rv
  <2>1. rows[k].rv <= cursor[c]
    BY <1>2, <1>3, <1>5
  <2>2. PICK i \in 1 .. Len(channel[c]) : channel[c][i] = Entry(k)
    BY <1>2, <1>7, <2>1 DEF Orderly, ChannelComplete
  <2>3. /\ Entry(k) \in Object /\ Entry(k).key = k /\ Entry(k).row = rows[k]
        /\ ~IsBookmark(Entry(k)) /\ VersionIn(Entry(k)) = rows[k].rv
    BY <1>5, KnownNow, Messages
  <2>4. i = 1
    <3> SUFFICES ASSUME i # 1 PROVE FALSE
      OBVIOUS
    <3>1. 1 \in 1 .. i - 1
      BY <1>3
    <3>2. VersionIn(channel[c][1]) < VersionIn(channel[c][i])
      BY <2>2, <2>3, <3>1 DEF Orderly, ChannelAscends
    <3> QED
      BY <1>1, <1>2, <1>5, <2>2, <2>3, <3>2
  <2>5. m = Entry(k)
    BY <1>1, <2>2, <2>4
  <2> QED
    BY <1>1, <2>3, <2>5
<1> QED
  BY <1>3, <1>5, <1>6, <1>7

--------------------------------------------------------------------------------
(* Every step.                                                             *)

(* A step of one client leaves the store and the other clients alone.      *)
LEMMA ClientStepIsLocal ==
  ASSUME WatchTypeOK, NEW c \in Watchers,
         Session(c) \/ SendBookmark(c) \/ Reconnect(c),
         NEW d \in Watchers \ {c}
  PROVE  /\ vars' = vars /\ SameStore /\ SameChannel(d) /\ SameBatch(d)
         /\ token'[d] = token[d] /\ mark'[d] = mark[d]
<1> USE DEF WatchTypeOK, SameStore, SameChannel, SameBatch, vars, clientVars, serverVars
<1>1. CASE ListCounter(c)
  BY <1>1 DEF ListCounter
<1>2. CASE ListPage(c)
  BY <1>2 DEF ListPage
<1>3. CASE Poll(c)
  BY <1>3 DEF Poll
<1>4. CASE Deliver(c)
  BY <1>4 DEF Deliver
<1>5. CASE SendBookmark(c)
  BY <1>5 DEF SendBookmark
<1>6. CASE Receive(c)
  BY <1>6 DEF Receive
<1>7. CASE Reconnect(c)
  BY <1>7 DEF Reconnect
<1> QED
  BY <1>1, <1>2, <1>3, <1>4, <1>5, <1>6, <1>7 DEF Session

(* The store's steps are PostgresStore's.                                  *)
LEMMA StoreStep ==
  ASSUME WatchTypeOK, [SystemNext]_systemVars
  PROVE  [Next]_vars
<1>1. ASSUME NEW c \in Watchers, Session(c) \/ SendBookmark(c) \/ Reconnect(c)
      PROVE  vars' = vars
  BY <1>1 DEF Session, ListCounter, ListPage, Poll, Deliver, Receive, SendBookmark, Reconnect
<1> QED
  BY <1>1 DEF SystemNext, Store, systemVars

(* Every step keeps every client's stream in order.                        *)
LEMMA OrderlyStep ==
  ASSUME Inductive, VersionNamesOneWrite, WatchTypeOK, AllOrderly, [SystemNext]_systemVars
  PROVE  AllOrderly'
<1> SUFFICES ASSUME NEW d \in Watchers PROVE Orderly(d)'
  BY DEF AllOrderly
<1>1. Orderly(d)
  BY DEF AllOrderly
<1>2. CASE Store \/ UNCHANGED systemVars
  <2>1. [Next]_vars /\ UNCHANGED watchVars
    BY <1>2 DEF Store, systemVars
  <2> QED
    BY <1>1, <2>1, StoreKeeps
<1>3. ASSUME NEW c \in Watchers, Session(c) \/ SendBookmark(c) \/ Reconnect(c)
      PROVE  Orderly(d)'
  <2>1. CASE d # c
    <3>1. d \in Watchers \ {c}
      BY <2>1
    <3>2. SameStore /\ SameChannel(d) /\ SameBatch(d)
          /\ token'[d] = token[d] /\ mark'[d] = mark[d]
      BY <1>3, <3>1, ClientStepIsLocal
    <3> QED
      BY <1>1, <3>2, OthersStay
  <2>2. CASE d = c
    BY <1>1, <1>3, <2>2, ListCounterKeeps, ListPageOrderly, PollKeeps, DeliverKeeps,
       ReceiveOrderly, SendBookmarkKeeps, ReconnectKeeps DEF Session
  <2> QED
    BY <2>1, <2>2
<1> QED
  BY <1>2, <1>3 DEF SystemNext

(* And misses nothing, if the first page's watermark is kept.              *)
LEMMA CoveredStep ==
  ASSUME KeptPage = "first", Inductive, VersionNamesOneWrite, WatchTypeOK,
         AllOrderly, AllCovered, [SystemNext]_systemVars
  PROVE  AllCovered'
<1> SUFFICES ASSUME NEW d \in Watchers PROVE Covered(d)'
  BY DEF AllCovered
<1>1. Orderly(d) /\ Covered(d)
  BY DEF AllOrderly, AllCovered
<1>2. CASE Store \/ UNCHANGED systemVars
  <2>1. [Next]_vars /\ UNCHANGED watchVars
    BY <1>2 DEF Store, systemVars
  <2> QED
    BY <1>1, <2>1, StoreKeeps
<1>3. ASSUME NEW c \in Watchers, Session(c) \/ SendBookmark(c) \/ Reconnect(c)
      PROVE  Covered(d)'
  <2>1. CASE d # c
    <3>1. d \in Watchers \ {c}
      BY <2>1
    <3>2. SameStore /\ SameChannel(d) /\ SameBatch(d)
          /\ token'[d] = token[d] /\ mark'[d] = mark[d]
      BY <1>3, <3>1, ClientStepIsLocal
    <3> QED
      BY <1>1, <3>2, OthersStay
  <2>2. CASE d = c
    BY <1>1, <1>3, <2>2, ListCounterKeeps, ListPageCovered, PollKeeps, DeliverKeeps,
       ReceiveCovered, SendBookmarkKeeps, ReconnectKeeps DEF Session
  <2> QED
    BY <2>1, <2>2
<1> QED
  BY <1>2, <1>3 DEF SystemNext

(* Before anything happens.                                                *)
LEMMA WatchInit ==
  ASSUME SystemInit
  PROVE  /\ Inductive /\ VersionNamesOneWrite /\ WatchTypeOK
         /\ AllOrderly /\ AllCovered
<1>1. Inductive /\ VersionNamesOneWrite /\ Init
  BY InitInductive DEF SystemInit, Init, VersionNamesOneWrite
<1>2. WatchTypeOK
  <2>1. <<>> \in Seq(Object \cup Bookmark)
    OBVIOUS
  <2> QED
    BY <2>1 DEF SystemInit, WatchTypeOK, Phases
<1>3. ASSUME NEW c \in Watchers PROVE Orderly(c) /\ Covered(c)
  <2>1. /\ phase[c] = "counter" /\ token[c] = Nil /\ channel[c] = <<>> /\ batch[c] = {}
        /\ checkpoint[c] = 0 /\ cursor[c] = 0 /\ committed = 0
        /\ \A k \in Keys : view[c][k] = Nil
    BY <1>1 DEF SystemInit, Init
  <2> QED
    BY <2>1
    DEF Orderly, Covered, ListedUpTo, ViewKnown, Positions, ChannelAscends, BatchAhead,
        ChannelComplete, BatchComplete
<1> QED
  BY <1>1, <1>2, <1>3 DEF AllOrderly, AllCovered

(* What ViewsOnlyAdvance and NothingIsMissed rest on.                      *)
WatchInvariant == Inductive /\ VersionNamesOneWrite /\ WatchTypeOK /\ AllOrderly

(* The invariant is inductive.                                             *)
LEMMA WatchStep == WatchInvariant /\ [SystemNext]_systemVars => WatchInvariant'
<1> SUFFICES ASSUME WatchInvariant, [SystemNext]_systemVars PROVE WatchInvariant'
  OBVIOUS
<1> USE DEF WatchInvariant
<1>1. [Next]_vars
  BY StoreStep
<1> QED
  BY <1>1, NextInductive, OneWriteHolds, WatchTypesKept, OrderlyStep

--------------------------------------------------------------------------------
(* The theorems.                                                           *)

(* The clients' and the goroutines' variables hold what they are declared  *)
(* to hold.                                                                *)
THEOREM WatchTypesHold == SystemSpec => []WatchTypeOK
<1>1. SystemInit => WatchInvariant
  BY WatchInit DEF WatchInvariant
<1>2. WatchInvariant => WatchTypeOK
  BY DEF WatchInvariant
<1> QED
  BY <1>1, <1>2, WatchStep, PTL DEF SystemSpec

(* A client that keeps its first page's watermark misses nothing, however  *)
(* many writers commit between its pages, between List and Watch, during a *)
(* poll and while its connection is lost (store.go: List then Watch from   *)
(* the returned version).                                                  *)
THEOREM NothingIsMissed == ASSUME KeptPage = "first" PROVE SystemSpec => []NoGap
<1>1. SystemInit => WatchInvariant /\ AllCovered
  BY WatchInit DEF WatchInvariant
<1>2. (WatchInvariant /\ AllCovered) /\ [SystemNext]_systemVars
        => (WatchInvariant /\ AllCovered)'
  BY WatchStep, CoveredStep DEF WatchInvariant
<1>3. AllCovered => NoGap
  BY DEF AllCovered, Covered, ListedUpTo, NoGap
<1> QED
  BY <1>1, <1>2, <1>3, PTL DEF SystemSpec

(* The step ViewNeverRegresses allows c.                                   *)
NoRegress(c) ==
  /\ phase[c] = "watch" => checkpoint'[c] >= checkpoint[c]
  /\ \A k \in Keys : view[c][k] # Nil =>
       view'[c][k] # Nil /\ view'[c][k].rv >= view[c][k].rv

(* What does not change does not go back.                                  *)
LEMMA UnchangedDoesNotRegress ==
  ASSUME WatchTypeOK, NEW c \in Watchers,
         checkpoint'[c] = checkpoint[c], view'[c] = view[c]
  PROVE  NoRegress(c)
<1>1. checkpoint[c] \in Nat /\ view[c] \in [Keys -> Row \cup {Nil}]
  BY TypesAt
<1>2. \A k \in Keys : view[c][k] # Nil => view[c][k].rv \in Nat
  BY <1>1 DEF Row
<1> QED
  BY <1>1, <1>2 DEF NoRegress

(* A page holds rows as they are, which is not before as they were.        *)
LEMMA ListPageDoesNotRegress ==
  ASSUME Inductive, WatchTypeOK, NEW c \in Watchers, ListPage(c), Orderly(c)
  PROVE  NoRegress(c)
<1>1. phase[c] = "page"
  BY PageAnswers
<1>2. ASSUME NEW k \in Keys, view[c][k] # Nil
      PROVE  view'[c][k] # Nil /\ view'[c][k].rv >= view[c][k].rv
  <2>1. view[c][k].rv \in Nat
    BY <1>2, TypesAt DEF Row
  <2>2. CASE k \in Page(c)
    <3>1. view'[c][k] = rows[k] /\ rows[k] # Nil
      BY <2>2, PageAnswers DEF Page, Listed
    <3>2. view[c][k].rv <= rows[k].rv /\ rows[k].rv \in Nat
      BY <1>2, <3>1, RowsAreBelow DEF Orderly, ViewKnown, Known
    <3> QED
      BY <2>1, <3>1, <3>2
  <2>3. CASE k \notin Page(c)
    <3>1. view'[c][k] = view[c][k]
      BY <2>3, PageAnswers
    <3> QED
      BY <1>2, <2>1, <3>1
  <2> QED
    BY <2>2, <2>3
<1> QED
  BY <1>1, <1>2 DEF NoRegress

(* A message is not older than what the client has.                        *)
LEMMA ReceiveDoesNotRegress ==
  ASSUME Inductive, WatchTypeOK, NEW c \in Watchers, Receive(c), Orderly(c)
  PROVE  NoRegress(c)
<1> DEFINE m == Head(channel[c])
<1> HIDE DEF m
<1>1. /\ checkpoint'[c] = VersionIn(m)
      /\ IsBookmark(m) => view'[c] = view[c]
      /\ ~IsBookmark(m) =>
           /\ m \in Object /\ view'[c][m.key] = m.row
           /\ \A k \in Keys : k # m.key => view'[c][k] = view[c][k]
  BY ReceiveTakes DEF m
<1>2. /\ VersionIn(m) \in Nat /\ checkpoint[c] <= VersionIn(m)
      /\ ~IsBookmark(m) => OnItsWay(c, m)
  BY ReceivedObject DEF m
<1>3. checkpoint[c] \in Nat
  BY TypesAt
<1>4. ASSUME NEW k \in Keys, view[c][k] # Nil
      PROVE  view'[c][k] # Nil /\ view'[c][k].rv >= view[c][k].rv
  <2>1. view[c][k].rv \in Nat
    BY <1>4, TypesAt DEF Row
  <2>2. CASE ~IsBookmark(m) /\ k = m.key
    <3>1. m.row \in Row /\ m.row # Nil /\ m.row.rv \in Nat /\ view'[c][k] = m.row
      BY <1>1, <2>2, Messages, NilAssumption
    <3>2. view[c][k].rv <= m.row.rv
      BY <1>2, <1>4, <2>2 DEF OnItsWay
    <3> QED
      BY <2>1, <3>1, <3>2
  <2>3. CASE IsBookmark(m) \/ k # m.key
    <3>1. view'[c][k] = view[c][k]
      BY <1>1, <2>3
    <3> QED
      BY <1>4, <2>1, <3>1
  <2> QED
    BY <2>2, <2>3
<1> QED
  BY <1>1, <1>2, <1>3, <1>4 DEF NoRegress

(* No step takes a client back.                                            *)
LEMMA StepDoesNotRegress ==
  ASSUME WatchInvariant, [SystemNext]_systemVars, NEW d \in Watchers
  PROVE  NoRegress(d)
<1> USE DEF WatchInvariant
<1>1. Orderly(d)
  BY DEF AllOrderly
<1>2. CASE Store \/ UNCHANGED systemVars
  BY <1>2, UnchangedDoesNotRegress DEF Store, systemVars, watchVars, clientVars
<1>3. ASSUME NEW c \in Watchers, Session(c) \/ SendBookmark(c) \/ Reconnect(c)
      PROVE  NoRegress(d)
  <2>1. CASE d # c
    <3>1. d \in Watchers \ {c}
      BY <2>1
    <3>2. SameChannel(d)
      BY <1>3, <3>1, ClientStepIsLocal
    <3> QED
      BY <3>2, UnchangedDoesNotRegress DEF SameChannel
  <2>2. CASE d = c /\ (ListCounter(c) \/ Poll(c) \/ Deliver(c) \/ SendBookmark(c) \/ Reconnect(c))
    <3>1. checkpoint' = checkpoint /\ view' = view
      BY <2>2 DEF ListCounter, Poll, Deliver, SendBookmark, Reconnect, clientVars
    <3> QED
      BY <3>1, UnchangedDoesNotRegress
  <2>3. CASE d = c /\ ListPage(c)
    BY <1>1, <2>3, ListPageDoesNotRegress
  <2>4. CASE d = c /\ Receive(c)
    BY <1>1, <2>4, ReceiveDoesNotRegress
  <2> QED
    BY <1>3, <2>1, <2>2, <2>3, <2>4 DEF Session
<1> QED
  BY <1>2, <1>3 DEF SystemNext

(* What a client holds, and the version it would resume from, never go     *)
(* back, whichever page's watermark it keeps.                              *)
THEOREM ViewsOnlyAdvance == SystemSpec => ViewNeverRegresses
<1> DEFINE A == \A c \in Watchers : NoRegress(c)
<1>1. SystemInit => WatchInvariant
  BY WatchInit DEF WatchInvariant
<1>2. WatchInvariant /\ [SystemNext]_systemVars => [A]_systemVars
  BY StepDoesNotRegress
<1>3. [][A]_systemVars <=> ViewNeverRegresses
  BY DEF NoRegress, ViewNeverRegresses
<1> HIDE DEF A
<1> QED
  BY <1>1, <1>2, <1>3, WatchStep, PTL DEF SystemSpec

================================================================================
