------------------------------- MODULE Keeper -------------------------------
(***************************************************************************)
(* The Keeper process: unary Apply calls and Watch streams that share one  *)
(* pool of connections, and its way down (cmd/keeper/main.go).             *)
(*                                                                         *)
(* A unary call holds a connection while one statement runs. The goroutine *)
(* behind a stream holds one from its query until it has sent the last row *)
(* into the stream's channel, however long the client takes to read. On    *)
(* SIGTERM the server stops accepting, waits up to ten seconds for open    *)
(* requests, and then closes the pool, which waits for every connection.   *)
(*                                                                         *)
(* What a statement does to the tables when others run beside it is        *)
(* PostgresStore's subject; here it takes effect in one step.              *)
(***************************************************************************)
EXTENDS Handlers, Integers, Sequences, FiniteSets

CONSTANTS
  Clients,      \* who make unary calls, one at a time each
  Watchers,     \* who open streams
  PoolSize,     \* connections of the pool
  ChannelCap,   \* capacity of a stream's channel, and what Send may buffer
  BatchRows,    \* bound: rows one poll returns
  Nil

ASSUME PoolAssumption == PoolSize \in Nat \ {0}
ASSUME FiniteAssumption == IsFiniteSet(Clients) /\ IsFiniteSet(Watchers)
ASSUME StreamAssumption == ChannelCap \in Nat \ {0} /\ BatchRows \in Nat \ {0}

VARIABLES
  phase,    \* "serving", "draining", "closing" (the pool) or "exited"
  free,     \* connections nobody holds
  stored,   \* key -> spec of what is in the table
  call,     \* per client, the handler at work for it
  stream,   \* per watcher, its goroutine, its channel and its client
  landed    \* per client, the objects whose Apply took effect, in order

keeperVars == <<phase, free, stored, call, stream, landed>>

NoCall == [stage |-> "none", object |-> Nil, left |-> 0, client |-> "there",
           code |-> Nil]

NoStream == [stage |-> "none", pend |-> 0, buf |-> 0, client |-> "reading"]

CallRecord ==
  [stage: {"none", "arrived", "waiting", "running", "answered", "lost"},
   object: Object \cup {Nil}, left: 0 .. 2, client: {"there", "gone"},
   code: Codes \cup {Nil}]

StreamRecord ==
  [stage: {"none", "idle", "sending", "ended"}, pend: 0 .. BatchRows,
   buf: 0 .. ChannelCap, client: {"reading", "stalled", "gone"}]

KeeperInit ==
  /\ phase = "serving"
  /\ free = PoolSize
  /\ stored = << >>
  /\ call = [x \in Clients |-> NoCall]
  /\ stream = [w \in Watchers |-> NoStream]
  /\ landed = [x \in Clients |-> << >>]

PoolOpen == phase \in {"serving", "draining"}

-----------------------------------------------------------------------------
(* Unary calls.                                                            *)

\* The statements of store.Apply: applyImmutable reads before it inserts.
Statements(o) == IF o.kind \in ImmutableKinds THEN 2 ELSE 1

Arrive(x, o) ==
  /\ phase = "serving"
  /\ call[x].stage \in {"none", "answered"}
  /\ call' = [call EXCEPT ![x] = [NoCall EXCEPT !.stage = "arrived",
                                                !.object = o]]
  /\ UNCHANGED <<phase, free, stored, stream, landed>>

Answered(c, code) ==
  [NoCall EXCEPT !.stage = "answered", !.code = code, !.client = c.client]

\* The handler validates; an accepted object goes to the store, which asks
\* the pool for a connection.
Handle(x) ==
  /\ phase # "exited"
  /\ call[x].stage = "arrived"
  /\ call' = [call EXCEPT ![x] =
       IF Accepted(@.object)
       THEN [@ EXCEPT !.stage = "waiting",
                      !.left = Statements(call[x].object)]
       ELSE Answered(@, "invalid_argument")]
  /\ UNCHANGED <<phase, free, stored, stream, landed>>

\* A panic in a handler is recovered by the interceptor.
Panic(x) ==
  /\ phase # "exited"
  /\ call[x].stage = "arrived"
  /\ call' = [call EXCEPT ![x] = Answered(@, "internal")]
  /\ UNCHANGED <<phase, free, stored, stream, landed>>

Acquire(x) ==
  /\ PoolOpen
  /\ free > 0
  /\ call[x].stage = "waiting"
  /\ free' = free - 1
  /\ call' = [call EXCEPT ![x].stage = "running"]
  /\ UNCHANGED <<phase, stored, stream, landed>>

\* Waiting for a connection ends without one: the pool was closed, or the
\* client is gone and the request's context with it.
AcquireFails(x) ==
  /\ phase # "exited"
  /\ call[x].stage = "waiting"
  /\ ~PoolOpen \/ call[x].client = "gone"
  /\ call' = [call EXCEPT ![x] = Answered(@, Code("other"))]
  /\ UNCHANGED <<phase, free, stored, stream, landed>>

\* Wrong: the last statement of applyImmutable is an upsert.
TakenUpsert(o) == FALSE

\* The INSERT of applyImmutable fails on UNIQUE (kind, colony, name).
Taken(o) == o.kind \in ImmutableKinds /\ StoreKey(o) \in DOMAIN stored

\* The call ends: its connection goes back to the pool.
Settle(x, err) ==
  /\ free' = free + 1
  /\ call' = [call EXCEPT ![x] = Answered(@, Code(err))]
  /\ UNCHANGED <<phase, stream>>

\* Wrong: the row of the Get stays open until applyImmutable returns.
GivenBackByGetLater == 0

\* The connections applyImmutable's Get gives back before the INSERT asks for
\* one: the row is scanned, which closes it.
GivenBackByGet == 1

\* applyImmutable's Get. It answers when the object is there, and otherwise
\* gives the connection back and asks for another one for its INSERT.
ReadImmutable(x) ==
  LET o == call[x].object
      k == StoreKey(o)
  IN
  /\ call[x].stage = "running" /\ call[x].left = 2
  /\ UNCHANGED stored
  /\ \/ /\ k \in DOMAIN stored
        /\ stored[k] = o.spec
        /\ landed' = [landed EXCEPT ![x] = Append(@, o)]
        /\ Settle(x, "none")
     \/ /\ k \in DOMAIN stored
        /\ stored[k] # o.spec
        /\ UNCHANGED landed
        /\ Settle(x, "ErrImmutable")
     \/ /\ k \notin DOMAIN stored
        /\ free' = free + GivenBackByGet
        /\ call' = [call EXCEPT ![x].stage = "waiting", ![x].left = 1]
        /\ UNCHANGED <<phase, stream, landed>>

\* The statement that writes. Its answer can get lost after the commit: the
\* database connection breaks, or the client is gone and the context cancelled.
Write(x) ==
  LET o == call[x].object IN
  /\ call[x].stage = "running" /\ call[x].left = 1
  /\ \/ /\ ~Taken(o)
        /\ stored' = [k \in DOMAIN stored \cup {StoreKey(o)} |->
                        IF k = StoreKey(o) THEN o.spec ELSE stored[k]]
        /\ landed' = [landed EXCEPT ![x] = Append(@, o)]
        /\ \E err \in {"none", "other"} : Settle(x, err)
     \/ /\ Taken(o)
        /\ UNCHANGED <<stored, landed>>
        /\ Settle(x, "other")

\* A statement fails, or is cancelled with the request, and changes nothing.
StatementFails(x) ==
  /\ call[x].stage = "running"
  /\ UNCHANGED <<stored, landed>>
  /\ Settle(x, "other")

-----------------------------------------------------------------------------
(* Streams.                                                                *)

OpenStream(w) ==
  /\ phase = "serving"
  /\ stream[w].stage = "none"
  /\ stream' = [stream EXCEPT ![w].stage = "idle"]
  /\ UNCHANGED <<phase, free, stored, call, landed>>

\* A tick of ticker.C whose query gets a connection and finds rows: they keep
\* it. A query that fails or finds none gives it back at once, and the goroutine
\* waits for the next tick.
Poll(w) ==
  /\ PoolOpen
  /\ free > 0
  /\ stream[w].stage = "idle"
  /\ \E n \in 1 .. BatchRows :
       stream' = [stream EXCEPT ![w].stage = "sending", ![w].pend = n]
  /\ free' = free - 1
  /\ UNCHANGED <<phase, stored, call, landed>>

\* Wrong: one more than the channel takes.
RoomForOneMore(s) == s.buf <= ChannelCap

Room(s) == s.buf < ChannelCap

\* Wrong: rows.Close() is not called at the end of a poll.
ClosedByLastRowNever(s) == 0

\* The connections sending a row gives back: the deferred rows.Close() runs
\* after the last one.
ClosedByLastRow(s) == IF s.pend = 1 THEN 1 ELSE 0

\* out <- WatchEvent{...}
SendRow(w) ==
  LET s == stream[w] IN
  /\ s.stage = "sending"
  /\ Room(s)
  /\ stream' = [stream EXCEPT
       ![w] = [s EXCEPT !.buf = s.buf + 1,
                        !.pend = s.pend - 1,
                        !.stage = IF s.pend = 1 THEN "idle" ELSE s.stage]]
  /\ free' = free + ClosedByLastRow(s)
  /\ UNCHANGED <<phase, stored, call, landed>>

\* watchLoop takes an event and sends it: a client that does not read blocks
\* Send once the transport's window is full.
Drain(w) ==
  /\ stream[w].buf > 0
  /\ stream[w].client = "reading"
  /\ stream' = [stream EXCEPT ![w].buf = @ - 1]
  /\ UNCHANGED <<phase, free, stored, call, landed>>

\* Wrong: a goroutine that is told to stop leaves its rows open.
HeldByNone(s) == 0

Held(s) == IF s.stage = "sending" THEN 1 ELSE 0

\* ctx.Done(): poll returns, rows are closed, the channel is closed.
Stop(w) ==
  /\ stream[w].client = "gone"
  /\ stream[w].stage \in {"idle", "sending"}
  /\ free' = free + Held(stream[w])
  /\ stream' = [stream EXCEPT
       ![w] = [@ EXCEPT !.stage = "ended", !.pend = 0, !.buf = 0]]
  /\ UNCHANGED <<phase, stored, call, landed>>

\* The client: it may stop reading, read on, or leave.
Stall(w) ==
  /\ stream[w].stage \notin {"none", "ended"}
  /\ stream[w].client = "reading"
  /\ stream' = [stream EXCEPT ![w].client = "stalled"]
  /\ UNCHANGED <<phase, free, stored, call, landed>>

ReadOn(w) ==
  /\ stream[w].client = "stalled"
  /\ stream' = [stream EXCEPT ![w].client = "reading"]
  /\ UNCHANGED <<phase, free, stored, call, landed>>

Leave(w) ==
  /\ stream[w].stage \notin {"none", "ended"}
  /\ stream[w].client # "gone"
  /\ stream' = [stream EXCEPT ![w].client = "gone"]
  /\ UNCHANGED <<phase, free, stored, call, landed>>

-----------------------------------------------------------------------------
(* The way down.                                                           *)

Signal ==
  /\ phase = "serving"
  /\ phase' = "draining"
  /\ UNCHANGED <<free, stored, call, stream, landed>>

\* A listener fails: runServe returns, and its deferred pool.Close() runs.
ServeError ==
  /\ phase = "serving"
  /\ phase' = "closing"
  /\ UNCHANGED <<free, stored, call, stream, landed>>

\* Wrong: Shutdown without a deadline waits for open streams as well.
ShutdownReturnsDrained ==
  /\ \A x \in Clients : call[x].stage \in {"none", "answered"}
  /\ \A w \in Watchers : stream[w].stage \in {"none", "ended"}

\* Shutdown returns when every request has ended, and after ten seconds in
\* any case: it can return in every state. It cancels no request.
ShutdownReturns == TRUE

Drained ==
  /\ phase = "draining"
  /\ ShutdownReturns
  /\ phase' = "closing"
  /\ UNCHANGED <<free, stored, call, stream, landed>>

\* With the process, every handler and goroutine is gone.
Exit ==
  /\ phase' = "exited"
  /\ free' = PoolSize
  /\ call' = [x \in Clients |->
       IF call[x].stage \in {"arrived", "waiting", "running"}
       THEN [NoCall EXCEPT !.stage = "lost"] ELSE call[x]]
  /\ stream' = [w \in Watchers |->
       [stream[w] EXCEPT !.stage = "ended", !.pend = 0, !.buf = 0]]
  /\ UNCHANGED <<stored, landed>>

\* pool.Close() waits until every connection is back.
PoolCloses ==
  /\ phase = "closing"
  /\ free = PoolSize
  /\ Exit

\* The process is killed.
Kill ==
  /\ phase # "exited"
  /\ Exit

-----------------------------------------------------------------------------

CallStep(x) ==
  \/ Handle(x) \/ Panic(x) \/ AcquireFails(x)
  \/ ReadImmutable(x) \/ Write(x) \/ StatementFails(x)

StreamStep(w) == Poll(w) \/ SendRow(w) \/ Drain(w) \/ Stop(w)

KeeperNext ==
  \/ \E x \in Clients : CallStep(x) \/ Acquire(x)
  \/ \E w \in Watchers :
       \/ OpenStream(w) \/ StreamStep(w)
       \/ Stall(w) \/ ReadOn(w) \/ Leave(w)
  \/ Signal \/ ServeError \/ Drained \/ PoolCloses \/ Kill

\* Handlers and goroutines run, the pool serves those that wait in turn, the
\* deadline of Shutdown passes. Clients owe nothing, and polls need find no rows.
KeeperFairness ==
  /\ \A x \in Clients : WF_keeperVars(CallStep(x)) /\ SF_keeperVars(Acquire(x))
  /\ \A w \in Watchers :
       /\ WF_keeperVars(SendRow(w))
       /\ WF_keeperVars(Drain(w))
       /\ WF_keeperVars(Stop(w))
  /\ WF_keeperVars(Drained)
  /\ WF_keeperVars(PoolCloses)
=============================================================================
