------------------------------ MODULE MemoryWatch ------------------------------
(***************************************************************************)
(* List, Watch, ListEvents and WatchEvents of MemoryStore                  *)
(* (internal/store/memory.go), with clients that list and then stream as   *)
(* those of PostgresWatch and PostgresEventWatch do, and the life of the   *)
(* goroutine behind each stream.                                           *)
(*                                                                         *)
(*   list -> live -> cancelled -> closed -> live -> ...                    *)
(*                                                                         *)
(* A goroutine copies what is due while it holds the mutex and sends it    *)
(* after it has let go of it: what it sends may be out of date.  Unlike a  *)
(* poll of the table, it sends one message per change, each with the       *)
(* change's version and the object as it was when it was copied.           *)
(*                                                                         *)
(* The ADDED/MODIFIED label of a message is left out.                      *)
(***************************************************************************)
EXTENDS MemoryStore

CONSTANTS
  Watchers,      \* clients of Watch
  Scope,         \* the keys each selects; keys are ordered as (colony, name) is
  Followers,     \* clients of WatchEvents
  Follows,       \* the run each follows
  PageSize,      \* List's page, and ListEvents' limit
  ChannelCap,    \* capacity of a channel (16)
  MaxDrops       \* bound: streams given up by their clients

Streams == Watchers \cup Followers

ASSUME MemoryClientsAssumption ==
  /\ Keys \subseteq Nat
  /\ Watchers \cap Followers = {}
  /\ Scope \in [Watchers -> SUBSET Keys]
  /\ Follows \in [Followers -> Runs]
  /\ Nil \notin Keys
ASSUME SizesAssumption == {PageSize, ChannelCap} \subseteq Nat \ {0} /\ MaxDrops \in Nat

VARIABLES
  state,         \* of each stream
  token,         \* page token of the client's List, or Nil
  checkpoint,    \* the version the client would stream since
  view,          \* the objects a watcher holds
  received,      \* the events a follower has, in the order they came
  cursor,        \* the goroutine's: the last version sent
  due,           \* what it has copied and not sent
  channel,       \* what was sent and not yet received
  drops          \* streams given up so far

clientVars    == <<state, token, checkpoint, view, received, drops>>
goroutineVars == <<cursor, due, channel>>
streamVars    == <<clientVars, goroutineVars>>
allVars       == <<memoryVars, streamVars>>

States == {"list", "live", "cancelled", "closed"}

MemoryInit ==
  /\ Init
  /\ state = [c \in Streams |-> "list"]
  /\ token = [c \in Watchers |-> Nil]
  /\ checkpoint = [c \in Streams |-> 0]
  /\ view = [c \in Watchers |-> [k \in Keys |-> Nil]]
  /\ received = [c \in Followers |-> <<>>]
  /\ cursor = [c \in Streams |-> 0]
  /\ due = [c \in Streams |-> <<>>]
  /\ channel = [c \in Streams |-> <<>>]
  /\ drops = 0

--------------------------------------------------------------------------------
(* Lists.                                                                  *)

Listed(c) == {k \in Scope[c] : resources[k] # Nil /\ (token[c] # Nil => k > token[c])}

Page(c) == {k \in Listed(c) : Cardinality({j \in Listed(c) : j < k}) < PageSize}

LastOnPage(c) == CHOOSE k \in Page(c) : \A j \in Page(c) : j <= k

(* Wrong: a Watch that starts one version early.                           *)
KeptLessOne(c) == IF token[c] = Nil THEN seq - 1 ELSE checkpoint[c]

(* The first page's watermark is the one to stream since.                  *)
Kept(c) == IF token[c] = Nil THEN seq ELSE checkpoint[c]

(* List: the page and the watermark under one lock.                        *)
ListPage(c) ==
  /\ state[c] = "list"
  /\ view' = [view EXCEPT ![c] = [k \in Keys |-> IF k \in Page(c) THEN resources[k] ELSE view[c][k]]]
  /\ checkpoint' = [checkpoint EXCEPT ![c] = Kept(c)]
  /\ \/ /\ Page(c) # Listed(c)
        /\ token' = [token EXCEPT ![c] = LastOnPage(c)]
        /\ UNCHANGED <<state, cursor>>
     \/ /\ Page(c) = Listed(c)
        /\ state' = [state EXCEPT ![c] = "live"]
        /\ cursor' = [cursor EXCEPT ![c] = Kept(c)]
        /\ UNCHANGED token
  /\ UNCHANGED <<memoryVars, received, drops, due, channel>>

Answer(c) ==
  LET new == Collected(events, {i \in DOMAIN events :
               events[i].run = Follows[c] /\ events[i].seq > Len(received[c])})
  IN  SubSeq(new, 1, IF Len(new) < PageSize THEN Len(new) ELSE PageSize)

(* ListEvents since the last seq, until an answer is short.                *)
ListEvents(c) ==
  /\ state[c] = "list"
  /\ received' = [received EXCEPT ![c] = received[c] \o Answer(c)]
  /\ checkpoint' = [checkpoint EXCEPT ![c] =
       IF Answer(c) = <<>> THEN checkpoint[c] ELSE Answer(c)[Len(Answer(c))].rv]
  /\ \/ /\ Len(Answer(c)) = PageSize
        /\ UNCHANGED <<state, cursor>>
     \/ /\ Len(Answer(c)) < PageSize
        /\ state' = [state EXCEPT ![c] = "live"]
        /\ cursor' = [cursor EXCEPT ![c] = checkpoint'[c]]
  /\ UNCHANGED <<memoryVars, token, view, drops, due, channel>>

--------------------------------------------------------------------------------
(* The goroutines.                                                         *)

Running(c) == state[c] \in {"live", "cancelled"}

(* Wrong: the cursor's successor is taken for sent.                        *)
DueChangesSkipOne(c) ==
  Collected(log, {i \in DOMAIN log : log[i].key \in Scope[c] /\ log[i].rv > cursor[c] + 1})

(* The changes since the cursor.                                           *)
DueChanges(c) ==
  Collected(log, {i \in DOMAIN log : log[i].key \in Scope[c] /\ log[i].rv > cursor[c]})

(* Wrong: the newest change first.                                         *)
DueObjectsNewestFirst(c) ==
  LET es == DueChanges(c)
      of(n) == es[Len(es) + 1 - n]
  IN  [n \in DOMAIN es |-> [key |-> of(n).key, rv |-> of(n).rv, row |-> resources[of(n).key]]]

(* Each with the object as it is now.                                      *)
DueObjects(c) ==
  [n \in DOMAIN DueChanges(c) |->
     [key |-> DueChanges(c)[n].key, rv |-> DueChanges(c)[n].rv,
      row |-> resources[DueChanges(c)[n].key]]]

(* Wrong: the events of every run.                                         *)
DueEventsAnyRun(c) == Collected(events, {i \in DOMAIN events : events[i].rv > cursor[c]})

DueEvents(c) ==
  Collected(events, {i \in DOMAIN events :
    events[i].run = Follows[c] /\ events[i].rv > cursor[c]})

(* emit, up to the unlock.                                                 *)
Collect(c) ==
  /\ Running(c)
  /\ due[c] = <<>>
  /\ \/ c \in Watchers  /\ due' = [due EXCEPT ![c] = DueObjects(c)]
     \/ c \in Followers /\ due' = [due EXCEPT ![c] = DueEvents(c)]
  /\ UNCHANGED <<memoryVars, clientVars, cursor, channel>>

(* emit, one message: the cursor follows what was sent.                    *)
Send(c) ==
  /\ Running(c)
  /\ due[c] # <<>>
  /\ Len(channel[c]) < ChannelCap
  /\ channel' = [channel EXCEPT ![c] = Append(channel[c], Head(due[c]))]
  /\ due' = [due EXCEPT ![c] = Tail(due[c])]
  /\ cursor' = [cursor EXCEPT ![c] =
       IF Head(due[c]).rv > cursor[c] THEN Head(due[c]).rv ELSE cursor[c]]
  /\ UNCHANGED <<memoryVars, clientVars>>

Bookmark(v) == [bookmark |-> v]

SendBookmark(c) ==
  /\ Running(c)
  /\ due[c] = <<>>
  /\ Len(channel[c]) < ChannelCap
  /\ channel' = [channel EXCEPT ![c] = Append(channel[c], Bookmark(cursor[c]))]
  /\ UNCHANGED <<memoryVars, clientVars, cursor, due>>

(* ctx.Done(), in every select of the goroutine: it closes its channel and *)
(* ends.                                                                   *)
Exit(c) ==
  /\ state[c] = "cancelled"
  /\ state' = [state EXCEPT ![c] = "closed"]
  /\ due' = [due EXCEPT ![c] = <<>>]
  /\ channel' = [channel EXCEPT ![c] = <<>>]
  /\ UNCHANGED <<memoryVars, token, checkpoint, view, received, drops, cursor>>

--------------------------------------------------------------------------------
(* The clients, through the handlers that drain the channels.              *)

IsBookmark(m) == "bookmark" \in DOMAIN m

Receive(c) ==
  /\ state[c] = "live"
  /\ channel[c] # <<>>
  /\ LET m == Head(channel[c]) IN
       /\ checkpoint' = [checkpoint EXCEPT ![c] = IF IsBookmark(m) THEN m.bookmark ELSE m.rv]
       /\ view' = IF c \in Watchers /\ ~IsBookmark(m)
                    THEN [view EXCEPT ![c][m.key] = m.row] ELSE view
       /\ received' = IF c \in Followers
                        THEN [received EXCEPT ![c] = Append(received[c], m)] ELSE received
  /\ channel' = [channel EXCEPT ![c] = Tail(channel[c])]
  /\ UNCHANGED <<memoryVars, state, token, drops, cursor, due>>

(* The client goes away, or its handler fails to send.                     *)
Cancel(c) ==
  /\ state[c] = "live"
  /\ drops < MaxDrops
  /\ drops' = drops + 1
  /\ state' = [state EXCEPT ![c] = "cancelled"]
  /\ UNCHANGED <<memoryVars, token, checkpoint, view, received, goroutineVars>>

Resume(c) ==
  /\ state[c] = "closed"
  /\ state' = [state EXCEPT ![c] = "live"]
  /\ cursor' = [cursor EXCEPT ![c] = checkpoint[c]]
  /\ UNCHANGED <<memoryVars, token, checkpoint, view, received, drops, due, channel>>

--------------------------------------------------------------------------------
Store == Next /\ UNCHANGED streamVars

MemoryNext ==
  \/ Store
  \/ \E c \in Watchers : ListPage(c) \/ SendBookmark(c)
  \/ \E c \in Followers : ListEvents(c)
  \/ \E c \in Streams :
       Collect(c) \/ Send(c) \/ Exit(c) \/ Receive(c) \/ Cancel(c) \/ Resume(c)

MemorySpec == MemoryInit /\ [][MemoryNext]_allVars

(* A ticker ticks, a select with several ready cases takes each of them    *)
(* sooner or later, a client goes on with what it began.                   *)
MemoryFairness ==
  /\ \A c \in Watchers : WF_allVars(ListPage(c))
  /\ \A c \in Followers : WF_allVars(ListEvents(c))
  /\ \A c \in Streams :
       /\ WF_allVars(Collect(c))
       /\ WF_allVars(Send(c))
       /\ WF_allVars(Exit(c))
       /\ WF_allVars(Receive(c))
       /\ WF_allVars(Resume(c))

FairMemory == MemorySpec /\ MemoryFairness

--------------------------------------------------------------------------------
Message == [key : Keys, rv : Nat, row : Row] \cup [bookmark : Nat] \cup Event

StreamTypeOK ==
  /\ TypeOK
  /\ state \in [Streams -> States]
  /\ token \in [Watchers -> Keys \cup {Nil}]
  /\ checkpoint \in [Streams -> Nat] /\ cursor \in [Streams -> Nat]
  /\ view \in [Watchers -> [Keys -> Row \cup {Nil}]]
  /\ received \in [Followers -> Seq(Event)]
  /\ due \in [Streams -> Seq(Message)] /\ channel \in [Streams -> Seq(Message)]
  /\ drops \in Nat

(* A message may carry an object newer than the change it is about.  All   *)
(* the same a watcher holds every stored row that is not newer than its    *)
(* checkpoint, and may resume from there.                                  *)
CheckpointCovers ==
  \A c \in Watchers : state[c] # "list" =>
    \A k \in Scope[c] :
      resources[k] # Nil /\ resources[k].rv <= checkpoint[c] => view[c][k] = resources[k]

(* A follower holds a prefix of its run's log, over a change of cursor     *)
(* from seq to version and over streams given up.                          *)
FollowsInOrder ==
  \A c \in Followers :
    LET all == EventsOf(Follows[c])
    IN  /\ Len(received[c]) <= Len(all)
        /\ \A n \in DOMAIN received[c] : received[c][n] = all[n] /\ received[c][n].seq = n

(* When writes cease, every client has what the store has.                 *)
EveryoneCatchesUp ==
  /\ \A c \in Watchers : <>[](\A k \in Scope[c] : view[c][k] = resources[k])
  /\ \A c \in Followers : <>[](received[c] = EventsOf(Follows[c]))

================================================================================
