----------------------------- MODULE PostgresWatch -----------------------------
(***************************************************************************)
(* List and Watch of the production store (internal/store/postgres.go)     *)
(* over the write path of PostgresStore, with the clients that use them in *)
(* the documented order: List page by page, keep a watermark, Watch since  *)
(* that watermark, and after a lost connection Watch again since the last  *)
(* version received.                                                       *)
(*                                                                         *)
(*   counter -> page -> counter -> page -> ... -> watch                    *)
(*                                                                         *)
(* A Watch is a goroutine that polls the table and sends what it found,    *)
(* one object at a time, into a bounded channel that the handler drains    *)
(* into the client's stream.  It reads rows and the counter only through   *)
(* statements of its own, each a committed snapshot.                       *)
(*                                                                         *)
(* Definitions marked "Wrong:" are bugs, as in PostgresStore.              *)
(***************************************************************************)
EXTENDS PostgresStore, Sequences

CONSTANTS
  Watchers,      \* clients
  Scope,         \* the keys a client's (kind, colony) selects; keys are ordered
                 \* as (colony, name) is
  PageSize,      \* List's page
  KeptPage,      \* the page whose watermark the client keeps: "first" or "last"
  BatchLimit,    \* LIMIT of a poll (500)
  ChannelCap,    \* capacity of the channel (16)
  MaxDrops       \* bound: connections lost

ASSUME OrderAssumption == Keys \subseteq Nat
ASSUME ScopeAssumption == Scope \in [Watchers -> SUBSET Keys]
ASSUME SizesAssumption == {PageSize, BatchLimit, ChannelCap} \subseteq Nat \ {0} /\ MaxDrops \in Nat
ASSUME KeptAssumption == KeptPage \in {"first", "last"}
ASSUME TokenAssumption == Nil \notin Keys

VARIABLES
  phase,         \* what each client does next
  token,         \* its page token: the last key of the last page, or Nil
  mark,          \* the counter its List has read for the page under way
  checkpoint,    \* the version it would Watch since
  view,          \* the objects it holds
  cursor,        \* its Watch goroutine: the last version sent
  batch,         \* the objects a poll found and the goroutine has not sent
  channel,       \* what was sent and not yet received
  drops          \* connections lost so far

clientVars  == <<phase, token, mark, checkpoint, view, drops>>
serverVars  == <<cursor, batch, channel>>
watchVars   == <<clientVars, serverVars>>
systemVars  == <<vars, watchVars>>

Phases   == {"counter", "page", "watch"}
Object   == [key : Keys, row : Row]
Bookmark == [bookmark : Nat]

SystemInit ==
  /\ Init
  /\ phase = [c \in Watchers |-> "counter"]
  /\ token = [c \in Watchers |-> Nil]
  /\ mark = [c \in Watchers |-> 0]
  /\ checkpoint = [c \in Watchers |-> 0]
  /\ view = [c \in Watchers |-> [k \in Keys |-> Nil]]
  /\ cursor = [c \in Watchers |-> 0]
  /\ batch = [c \in Watchers |-> {}]
  /\ channel = [c \in Watchers |-> <<>>]
  /\ drops = 0

--------------------------------------------------------------------------------
(* List: two statements, the watermark first.                              *)

ListCounter(c) ==
  /\ phase[c] = "counter"
  /\ mark' = [mark EXCEPT ![c] = committed]
  /\ phase' = [phase EXCEPT ![c] = "page"]
  /\ UNCHANGED <<vars, token, checkpoint, view, drops, serverVars>>

Listed(c) == {k \in Scope[c] : rows[k] # Nil /\ (token[c] # Nil => k > token[c])}

(* The first PageSize of them.                                             *)
Page(c) == {k \in Listed(c) : Cardinality({j \in Listed(c) : j < k}) < PageSize}

(* Wrong: items[pageSize], the first item that is not on the page.         *)
LastOnPageOffByOne(c) ==
  CHOOSE k \in Listed(c) \ Page(c) : \A j \in Listed(c) \ Page(c) : k <= j

(* What the next page token encodes: items[pageSize-1].                    *)
LastOnPage(c) == CHOOSE k \in Page(c) : \A j \in Page(c) : j <= k

(* Wrong: a Watch that starts one version early.                           *)
KeptLessOne(c) == IF token[c] = Nil \/ KeptPage = "last" THEN mark[c] - 1 ELSE checkpoint[c]

(* The page's watermark the client goes on with.                           *)
Kept(c) == IF token[c] = Nil \/ KeptPage = "last" THEN mark[c] ELSE checkpoint[c]

ListPage(c) ==
  /\ phase[c] = "page"
  /\ view' = [view EXCEPT ![c] = [k \in Keys |-> IF k \in Page(c) THEN rows[k] ELSE view[c][k]]]
  /\ checkpoint' = [checkpoint EXCEPT ![c] = Kept(c)]
  /\ \/ /\ Page(c) # Listed(c)
        /\ token' = [token EXCEPT ![c] = LastOnPage(c)]
        /\ phase' = [phase EXCEPT ![c] = "counter"]
        /\ UNCHANGED cursor
     \/ /\ Page(c) = Listed(c)
        /\ phase' = [phase EXCEPT ![c] = "watch"]
        /\ cursor' = [cursor EXCEPT ![c] = Kept(c)]
        /\ UNCHANGED token
  /\ UNCHANGED <<vars, mark, drops, batch, channel>>

--------------------------------------------------------------------------------
(* Watch, server side.                                                     *)

(* Wrong: the cursor's successor is taken for sent.                        *)
FreshSkipsOne(c) == {k \in Scope[c] : rows[k] # Nil /\ rows[k].rv > cursor[c] + 1}

Fresh(c) == {k \in Scope[c] : rows[k] # Nil /\ rows[k].rv > cursor[c]}

(* poll: one SELECT, ORDER BY resource_version LIMIT 500.  The next poll   *)
(* starts when every row of this one was sent; a failed query is retried   *)
(* at the next tick.                                                       *)
Poll(c) ==
  /\ phase[c] = "watch"
  /\ batch[c] = {}
  /\ batch' = [batch EXCEPT ![c] =
       {[key |-> k, row |-> rows[k]] : k \in
          {k \in Fresh(c) : Cardinality({j \in Fresh(c) : rows[j].rv < rows[k].rv}) < BatchLimit}}]
  /\ UNCHANGED <<vars, clientVars, cursor, channel>>

(* Wrong: a poll without ORDER BY.                                         *)
EarliestUnordered(c) == batch[c]

Earliest(c) == {o \in batch[c] : \A p \in batch[c] : o.row.rv <= p.row.rv}

(* One object goes into the channel and the cursor follows it.             *)
Deliver(c) ==
  /\ Len(channel[c]) < ChannelCap
  /\ \E o \in Earliest(c) :
       /\ channel' = [channel EXCEPT ![c] = Append(channel[c], o)]
       /\ batch' = [batch EXCEPT ![c] = batch[c] \ {o}]
       /\ cursor' = [cursor EXCEPT ![c] = IF o.row.rv > cursor[c] THEN o.row.rv ELSE cursor[c]]
  /\ UNCHANGED <<vars, clientVars>>

(* The bookmark ticker, between two polls.                                 *)
SendBookmark(c) ==
  /\ phase[c] = "watch"
  /\ batch[c] = {}
  /\ Len(channel[c]) < ChannelCap
  /\ channel' = [channel EXCEPT ![c] = Append(channel[c], [bookmark |-> cursor[c]])]
  /\ UNCHANGED <<vars, clientVars, cursor, batch>>

--------------------------------------------------------------------------------
(* Watch, client side.                                                     *)

IsBookmark(m) == "bookmark" \in DOMAIN m

VersionIn(m) == IF IsBookmark(m) THEN m.bookmark ELSE m.row.rv

Receive(c) ==
  /\ channel[c] # <<>>
  /\ LET m == Head(channel[c]) IN
       /\ checkpoint' = [checkpoint EXCEPT ![c] = VersionIn(m)]
       /\ view' = IF IsBookmark(m) THEN view ELSE [view EXCEPT ![c][m.key] = m.row]
  /\ channel' = [channel EXCEPT ![c] = Tail(channel[c])]
  /\ UNCHANGED <<vars, phase, token, mark, drops, cursor, batch>>

(* The stream ends (network, Keeper restart, deadline): whatever was on    *)
(* its way is gone and the client watches again since its checkpoint.      *)
Reconnect(c) ==
  /\ phase[c] = "watch"
  /\ drops < MaxDrops
  /\ drops' = drops + 1
  /\ cursor' = [cursor EXCEPT ![c] = checkpoint[c]]
  /\ batch' = [batch EXCEPT ![c] = {}]
  /\ channel' = [channel EXCEPT ![c] = <<>>]
  /\ UNCHANGED <<vars, phase, token, mark, checkpoint, view>>

--------------------------------------------------------------------------------
Store == Next /\ UNCHANGED watchVars

Session(c) == ListCounter(c) \/ ListPage(c) \/ Poll(c) \/ Deliver(c) \/ Receive(c)

SystemNext ==
  \/ Store
  \/ \E c \in Watchers : Session(c) \/ SendBookmark(c) \/ Reconnect(c)

SystemSpec == SystemInit /\ [][SystemNext]_systemVars

(* The goroutine polls at every tick, the handler drains the channel, the  *)
(* client goes on with its List and receives.  Writers owe nothing, and    *)
(* connections stop breaking (MaxDrops).                                   *)
WatchFairness == \A c \in Watchers :
  /\ WF_systemVars(ListCounter(c))
  /\ WF_systemVars(ListPage(c))
  /\ WF_systemVars(Poll(c))
  /\ WF_systemVars(Deliver(c))
  /\ WF_systemVars(Receive(c))
  /\ WF_systemVars(SendBookmark(c))

FairSystem == SystemSpec /\ WatchFairness

--------------------------------------------------------------------------------
WatchTypeOK ==
  /\ phase \in [Watchers -> Phases]
  /\ token \in [Watchers -> Keys \cup {Nil}]
  /\ mark \in [Watchers -> Nat]
  /\ checkpoint \in [Watchers -> Nat]
  /\ view \in [Watchers -> [Keys -> Row \cup {Nil}]]
  /\ cursor \in [Watchers -> Nat]
  /\ batch \in [Watchers -> SUBSET Object]
  /\ channel \in [Watchers -> Seq(Object \cup Bookmark)]
  /\ drops \in Nat

(* The handoff: a client that watches holds, for every object it selects,  *)
(* the stored row as long as that row is not newer than its checkpoint.    *)
(* So it may resume from there and nothing is missed, whatever was being   *)
(* committed when its pages, its watermark or a poll were read.            *)
NoGap ==
  \A c \in Watchers : phase[c] = "watch" =>
    \A k \in Scope[c] :
      rows[k] # Nil /\ rows[k].rv <= checkpoint[c] => view[c][k] = rows[k]

(* Neither the objects a client holds nor its checkpoint go back, although *)
(* a List's rows may be newer than its watermark and a stream is replayed  *)
(* after a lost connection.                                                *)
ViewNeverRegresses ==
  [][\A c \in Watchers :
       /\ phase[c] = "watch" => checkpoint'[c] >= checkpoint[c]
       /\ \A k \in Keys : view[c][k] # Nil =>
            view'[c][k] # Nil /\ view'[c][k].rv >= view[c][k].rv]_systemVars

(* When writes cease, every client ends up with what is stored.            *)
Converges ==
  \A c \in Watchers : <>[](\A k \in Scope[c] : view[c][k] = rows[k])

(* Bookmarks let an idle watcher save a newer version: its checkpoint      *)
(* reaches every version the store has committed.                          *)
IdleWatcherCheckpoints ==
  \A c \in Watchers, n \in 1 .. MaxVersion : committed >= n ~> checkpoint[c] >= n

================================================================================
