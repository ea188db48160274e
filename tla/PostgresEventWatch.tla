--------------------------- MODULE PostgresEventWatch ---------------------------
(***************************************************************************)
(* ListEvents and WatchEvents of the production store                      *)
(* (internal/store/postgres.go) over the write path of PostgresStore, with *)
(* clients that follow the log of a run: ListEvents since the last seq     *)
(* until an answer is short, then WatchEvents since the version of the     *)
(* last event, resumed after a lost connection the same way.               *)
(*                                                                         *)
(* Definitions marked "Wrong:" are bugs, as in PostgresStore.              *)
(***************************************************************************)
EXTENDS PostgresStore, Sequences

CONSTANTS
  Followers,     \* clients
  Follows,       \* the run each follows
  Limit,         \* limit of a ListEvents call
  BatchLimit,    \* LIMIT of a poll (500)
  ChannelCap,    \* capacity of the channel (16)
  MaxDrops       \* bound: connections lost

ASSUME FollowsAssumption == Follows \in [Followers -> Runs]
ASSUME LimitsAssumption == {Limit, BatchLimit, ChannelCap} \subseteq Nat \ {0} /\ MaxDrops \in Nat

VARIABLES
  listing,       \* whether the client still lists
  received,      \* the events it has, in the order they came
  cursor,        \* its WatchEvents goroutine: the last version sent
  batch,         \* the events a poll found and the goroutine has not sent
  channel,       \* what was sent and not yet received
  drops          \* connections lost so far

followVars == <<listing, received, cursor, batch, channel, drops>>
logVars    == <<vars, followVars>>

LogOf(c) == {e \in events : e.run = Follows[c]}

(* What the client passes on: the seq and the version of its last event.   *)
LastSeq(c)     == IF received[c] = <<>> THEN 0 ELSE received[c][Len(received[c])].seq

(* Wrong: no version at all for an empty log.                              *)
LastVersionNone(c) == IF received[c] = <<>> THEN Nil ELSE received[c][Len(received[c])].rv

(* Wrong: the seq cursor handed on as a version cursor.                    *)
LastVersionAsSeq(c) == LastSeq(c)

LastVersion(c) == IF received[c] = <<>> THEN 0 ELSE received[c][Len(received[c])].rv

LogInit ==
  /\ Init
  /\ listing = [c \in Followers |-> TRUE]
  /\ received = [c \in Followers |-> <<>>]
  /\ cursor = [c \in Followers |-> 0]
  /\ batch = [c \in Followers |-> {}]
  /\ channel = [c \in Followers |-> <<>>]
  /\ drops = 0

(* A set of events as the sequence ORDER BY seq returns.                   *)
BySeq(S) == [n \in 1 .. Cardinality(S) |->
              CHOOSE e \in S : Cardinality({d \in S : d.seq < e.seq}) = n - 1]

Unlisted(c) == {e \in LogOf(c) : e.seq > LastSeq(c)}

Answer(c) == {e \in Unlisted(c) : Cardinality({d \in Unlisted(c) : d.seq < e.seq}) < Limit}

(* ListEvents: one SELECT ... WHERE seq > sinceSeq ORDER BY seq LIMIT.     *)
ListEvents(c) ==
  /\ listing[c]
  /\ received' = [received EXCEPT ![c] = received[c] \o BySeq(Answer(c))]
  /\ \/ /\ Cardinality(Answer(c)) = Limit
        /\ UNCHANGED <<listing, cursor>>
     \/ /\ Cardinality(Answer(c)) < Limit
        /\ listing' = [listing EXCEPT ![c] = FALSE]
        /\ cursor' = [cursor EXCEPT ![c] = LastVersion(c)']
  /\ UNCHANGED <<vars, batch, channel, drops>>

(* Wrong: the cursor's successor is taken for sent.                        *)
UnsentSkipsOne(c) == {e \in LogOf(c) : e.rv > cursor[c] + 1}

Unsent(c) == {e \in LogOf(c) : e.rv > cursor[c]}

(* poll: one SELECT ... WHERE resource_version > cursor ORDER BY           *)
(* resource_version LIMIT 500.                                             *)
Poll(c) ==
  /\ ~listing[c]
  /\ batch[c] = {}
  /\ batch' = [batch EXCEPT ![c] =
       {e \in Unsent(c) : Cardinality({d \in Unsent(c) : d.rv < e.rv}) < BatchLimit}]
  /\ UNCHANGED <<vars, listing, received, cursor, channel, drops>>

Deliver(c) ==
  /\ Len(channel[c]) < ChannelCap
  /\ \E e \in batch[c] :
       /\ \A d \in batch[c] : e.rv <= d.rv
       /\ channel' = [channel EXCEPT ![c] = Append(channel[c], e)]
       /\ batch' = [batch EXCEPT ![c] = batch[c] \ {e}]
       /\ cursor' = [cursor EXCEPT ![c] = IF e.rv > cursor[c] THEN e.rv ELSE cursor[c]]
  /\ UNCHANGED <<vars, listing, received, drops>>

Receive(c) ==
  /\ channel[c] # <<>>
  /\ received' = [received EXCEPT ![c] = Append(received[c], Head(channel[c]))]
  /\ channel' = [channel EXCEPT ![c] = Tail(channel[c])]
  /\ UNCHANGED <<vars, listing, cursor, batch, drops>>

Reconnect(c) ==
  /\ ~listing[c]
  /\ drops < MaxDrops
  /\ drops' = drops + 1
  /\ cursor' = [cursor EXCEPT ![c] = LastVersion(c)]
  /\ batch' = [batch EXCEPT ![c] = {}]
  /\ channel' = [channel EXCEPT ![c] = <<>>]
  /\ UNCHANGED <<vars, listing, received>>

Store == Next /\ UNCHANGED followVars

Follow(c) == ListEvents(c) \/ Poll(c) \/ Deliver(c) \/ Receive(c)

LogNext == Store \/ \E c \in Followers : Follow(c) \/ Reconnect(c)

LogSpec == LogInit /\ [][LogNext]_logVars

(* The goroutine polls at every tick and the client goes on.               *)
FollowFairness == \A c \in Followers :
  /\ WF_logVars(ListEvents(c))
  /\ WF_logVars(Poll(c))
  /\ WF_logVars(Deliver(c))
  /\ WF_logVars(Receive(c))

FairLog == LogSpec /\ FollowFairness

--------------------------------------------------------------------------------
FollowTypeOK ==
  /\ listing \in [Followers -> BOOLEAN]
  /\ received \in [Followers -> Seq(Event)]
  /\ cursor \in [Followers -> Nat]
  /\ batch \in [Followers -> SUBSET Event]
  /\ channel \in [Followers -> Seq(Event)]
  /\ drops \in Nat

(* A client has the first events of its run, each once and in seq order,   *)
(* although it changed from a seq cursor to a version cursor on the way    *)
(* and lost its connection: what it holds is always a prefix of the log.   *)
ReceivedIsPrefix ==
  \A c \in Followers :
    /\ \A n \in 1 .. Len(received[c]) : received[c][n].seq = n
    /\ \A n \in 1 .. Len(received[c]) : received[c][n] \in LogOf(c)

(* No event is passed over for good: once it is committed, every client of *)
(* its run receives it.                                                    *)
EveryEventArrives ==
  \A c \in Followers, n \in 1 .. MaxVersion :
    n \in SeqsOf(Follows[c]) ~> Len(received[c]) >= n

================================================================================
