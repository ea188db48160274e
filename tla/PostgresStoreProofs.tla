-------------------------- MODULE PostgresStoreProofs --------------------------
(***************************************************************************)
(* Proofs about PostgresStore, for any number of writers, resources, runs  *)
(* and versions.  Everything rests on one inductive invariant, Inductive.  *)
(***************************************************************************)
EXTENDS PostgresStore, Sequences, TLAPS

(* A transaction under way has a call; only Append asks for an advisory    *)
(* lock; the row an ApplyStatus found in its snapshot is still there.      *)
WellFormed ==
  \A w \in Writers :
    /\ tx[w].stage # "idle" => tx[w].call \in Calls
    /\ tx[w].stage \in {"lock", "locked"} => tx[w].call.op = "append"
    /\ tx[w].stage \in {"queued", "allocated", "written"} /\ tx[w].call.op = "status"
         => rows[tx[w].call.key] # Nil

(* Two-phase locking: the counter and each run have at most one holder.    *)
Exclusive ==
  /\ \A v, w \in Writers : HoldsCounter(v) /\ HoldsCounter(w) => v = w
  /\ \A v, w \in Writers, r \in Runs : HoldsRun(v, r) /\ HoldsRun(w, r) => v = w

(* The committed counter is above everything committed and below           *)
(* everything in flight.                                                   *)
Versions ==
  /\ committed <= issued
  /\ (\A w \in Writers : ~HoldsCounter(w)) => issued = committed
  /\ \A w \in Writers : HoldsCounter(w) => committed < tx[w].ver /\ tx[w].ver <= issued
  /\ \A k \in Keys : rows[k] # Nil => rows[k].rv <= committed
  /\ \A e \in events : e.rv <= committed

(* What a transaction has written is still what its statement computes     *)
(* from the rows committed now.                                            *)
PendingApply(w) ==
  LET c   == tx[w].call
      row == rows[c.key]
  IN  \/ /\ row = Nil
         /\ tx[w].pend = NewRow(c, tx[w].ver) /\ tx[w].outcome = "ok"
      \/ /\ row # Nil /\ c.key \in MutableKeys
         /\ ~Matches(c, row)
         /\ tx[w].pend = Nil /\ tx[w].outcome = "conflict"
      \/ /\ row # Nil /\ c.key \in MutableKeys
         /\ Matches(c, row) /\ ~Differs(c, row)
         /\ tx[w].pend = row /\ tx[w].outcome = "ok"
      \/ /\ row # Nil /\ c.key \in MutableKeys
         /\ Matches(c, row) /\ Differs(c, row)
         /\ tx[w].pend = UpdatedRow(c, row, issued) /\ tx[w].outcome = "ok"

Pending ==
  \A w \in Writers : tx[w].stage = "written" =>
    /\ tx[w].call.op = "apply" => PendingApply(w)
    /\ tx[w].call.op = "status" => tx[w].pend = StatusRow(w, issued) /\ tx[w].outcome = "ok"

(* MAX(seq) of a run counts its events, and an appender that has read it   *)
(* has read the current one.                                               *)
Log ==
  /\ \A r \in Runs : TopSeq(r) \in Nat /\ SeqsOf(r) = 1 .. TopSeq(r)
  /\ \A w \in Writers :
       tx[w].stage \in {"queued", "allocated", "written"} /\ tx[w].call.op = "append"
         => tx[w].top = TopSeq(tx[w].call.run)

Inductive == TypeOK /\ WellFormed /\ Exclusive /\ Versions /\ Pending /\ Log

--------------------------------------------------------------------------------
LEMMA NewRowType ==
  ASSUME NEW c \in [op : {"apply"}, key : Keys, spec : Specs, meta : Metas, ifRV : Nat \cup {Nil}],
         NEW v \in Nat
  PROVE  NewRow(c, v) \in Row
BY StatusAssumption DEF NewRow, Row

LEMMA UpdatedRowType ==
  ASSUME NEW c \in [op : {"apply"}, key : Keys, spec : Specs, meta : Metas, ifRV : Nat \cup {Nil}],
         NEW row \in Row, NEW v \in Nat
  PROVE  UpdatedRow(c, row, v) \in Row
<1> DEFINE g == IF c.spec # row.spec THEN row.gen + 1 ELSE row.gen
<1>1. g \in Nat
  BY DEF Row
<1>2. [row EXCEPT !.spec = c.spec, !.meta = c.meta, !.rv = v, !.gen = g] \in Row
  BY <1>1 DEF Row
<1> QED
  BY <1>2 DEF UpdatedRow

LEMMA StatusRowType ==
  ASSUME NEW row \in Row, NEW st \in Statuses, NEW v \in Nat
  PROVE  [row EXCEPT !.status = st, !.rv = v] \in Row
BY DEF Row

(* The log of a run whose events are not touched.                          *)
LEMMA LogFrame ==
  ASSUME events' = events, NEW r
  PROVE  SeqsOf(r)' = SeqsOf(r) /\ TopSeq(r)' = TopSeq(r)
BY DEF SeqsOf, TopSeq

(* A writer that does not move while no row and no version does.           *)
LEMMA PendingFrame ==
  ASSUME NEW w \in Writers, tx'[w] = tx[w], UNCHANGED <<rows, issued>>
  PROVE  /\ PendingApply(w)' = PendingApply(w)
         /\ StatusRow(w, issued)' = StatusRow(w, issued)
BY DEF PendingApply, StatusRow

LEMMA InitInductive == Init => Inductive
<1>1. SUFFICES ASSUME Init PROVE Inductive
  OBVIOUS
<1> USE DEF Init
<1>2. TypeOK
  <2>1. Idle \in Transactions
    BY DEF Idle, Started, Transactions, Stages, Outcomes
  <2>2. tx \in [Writers -> Transactions]
    BY <1>1, <2>1
  <2>3. rows \in [Keys -> Row \cup {Nil}]
    BY <1>1
  <2> QED
    BY <1>1, <2>2, <2>3 DEF TypeOK
<1>3. \A w \in Writers : tx[w].stage = "idle"
  BY <1>1 DEF Idle, Started
<1>4. WellFormed /\ Pending
  BY <1>3 DEF WellFormed, Pending
<1>5. \A w \in Writers : ~HoldsCounter(w) /\ \A r \in Runs : ~HoldsRun(w, r)
  BY <1>3 DEF HoldsCounter, HoldsRun
<1>6. Exclusive
  BY <1>5 DEF Exclusive
<1>7. Versions
  BY <1>1, <1>5 DEF Versions
<1>8. Log
  <2>1. \A r \in Runs : SeqsOf(r) = {}
    BY <1>1 DEF SeqsOf
  <2>2. \A r \in Runs : TopSeq(r) = 0
    BY <2>1 DEF TopSeq
  <2>3. \A r \in Runs : TopSeq(r) \in Nat /\ SeqsOf(r) = 1 .. TopSeq(r)
    BY <2>1, <2>2
  <2> QED
    BY <1>3, <2>3 DEF Log
<1> QED
  BY <1>2, <1>4, <1>6, <1>7, <1>8 DEF Inductive

(* A writer that holds no lock and goes to a stage in which it holds none. *)
LEMMA UnlockedInductive ==
  ASSUME Inductive, NEW w \in Writers, NEW t \in Transactions,
         UNCHANGED <<rows, events, issued, committed>>,
         tx' = [tx EXCEPT ![w] = t],
         tx[w].stage \in {"idle", "done"},
         t.stage \in {"idle", "lock", "queued", "done"},
         t.stage # "idle" => t.call \in Calls,
         t.stage = "lock" => t.call.op = "append",
         t.stage = "queued" => \/ t.call.op = "apply"
                               \/ t.call.op = "status" /\ rows[t.call.key] # Nil
  PROVE  Inductive'
<1> USE DEF Inductive
<1>1. tx' \in [Writers -> Transactions] /\ tx'[w] = t /\ \A v \in Writers \ {w} : tx'[v] = tx[v]
  BY DEF TypeOK
<1>2. TypeOK'
  BY <1>1 DEF TypeOK
<1>3. WellFormed'
  BY <1>1 DEF WellFormed
<1>4. ~HoldsCounter(w) /\ ~HoldsCounter(w)'
  BY <1>1 DEF HoldsCounter
<1>5. \A r \in Runs : ~HoldsRun(w, r)'
  BY <1>1 DEF HoldsRun
<1>6. \A v \in Writers \ {w} : /\ HoldsCounter(v)' = HoldsCounter(v)
                               /\ \A r \in Runs : HoldsRun(v, r)' = HoldsRun(v, r)
  BY <1>1 DEF HoldsCounter, HoldsRun
<1>7. Exclusive'
  BY <1>4, <1>5, <1>6 DEF Exclusive
<1>8. Versions'
  BY <1>1, <1>4, <1>6 DEF Versions
<1>9. Pending'
  BY <1>1, PendingFrame DEF Pending
<1>10. Log'
  BY <1>1, LogFrame DEF Log
<1> QED
  BY <1>2, <1>3, <1>7, <1>8, <1>9, <1>10

LEMMA StartedType ==
  ASSUME NEW stage \in Stages, NEW call \in Calls \cup {Nil}, NEW seen \in Row \cup {Nil}
  PROVE  /\ Started(stage, call, seen) \in Transactions
         /\ Started(stage, call, seen).stage = stage
         /\ Started(stage, call, seen).call = call
BY DEF Started, Transactions, Outcomes

LEMMA EndedType ==
  ASSUME NEW call \in Calls \cup {Nil}, NEW outcome \in Outcomes
  PROVE  /\ Ended(call, outcome) \in Transactions
         /\ Ended(call, outcome).stage = "done"
         /\ Ended(call, outcome).call = call
         /\ Ended(call, outcome).outcome = outcome
BY DEF Started, Ended, Transactions, Stages, Outcomes

LEMMA BeginInductive ==
  ASSUME Inductive, NEW w \in Writers, Begin(w)
  PROVE  Inductive'
<1>0. tx[w].stage = "idle" /\ UNCHANGED <<rows, events, issued, committed>>
  BY DEF Begin, BeginApply, BeginApplyImmutable, BeginApplyStatus, BeginAppend, Open
<1>1. CASE BeginApply(w)
  <2>1. PICK k \in MutableKeys, s \in Specs, m \in Metas, v \in 1..committed \cup {Nil} :
          tx' = [tx EXCEPT ![w] = Started("queued",
                   [op |-> "apply", key |-> k, spec |-> s, meta |-> m, ifRV |-> v], Nil)]
    BY <1>1 DEF BeginApply
  <2> DEFINE call == [op |-> "apply", key |-> k, spec |-> s, meta |-> m, ifRV |-> v]
             t    == Started("queued", call, Nil)
  <2>2. call \in Calls
    BY DEF Calls, Keys, Inductive, TypeOK
  <2>3. t \in Transactions /\ t.stage = "queued" /\ t.call = call
    BY <2>2, StartedType DEF Stages
  <2>4. call.op = "apply" /\ tx' = [tx EXCEPT ![w] = t]
    BY <2>1
  <2> HIDE DEF call, t
  <2> QED
    BY <1>0, <2>2, <2>3, <2>4, UnlockedInductive
<1>2. CASE BeginApplyImmutable(w)
  <2>1. PICK k \in ImmutableKeys, s \in Specs, m \in Metas :
          LET call == [op |-> "apply", key |-> k, spec |-> s, meta |-> m, ifRV |-> Nil] IN
          \/ tx' = [tx EXCEPT ![w] = Started("queued", call, Nil)]
          \/ tx' = [tx EXCEPT ![w] = Ended(call, "ok")]
          \/ tx' = [tx EXCEPT ![w] = Ended(call, "immutable")]
    BY <1>2 DEF BeginApplyImmutable
  <2> DEFINE call == [op |-> "apply", key |-> k, spec |-> s, meta |-> m, ifRV |-> Nil]
  <2>2. call \in Calls
    BY DEF Calls, Keys
  <2>3. PICK t \in Transactions :
          tx' = [tx EXCEPT ![w] = t] /\ t.stage \in {"queued", "done"} /\ t.call = call
    BY <2>1, <2>2, StartedType, EndedType DEF Stages, Outcomes
  <2>4. call.op = "apply"
    OBVIOUS
  <2> HIDE DEF call
  <2> QED
    BY <1>0, <2>2, <2>3, <2>4, UnlockedInductive
<1>3. CASE BeginApplyStatus(w)
  <2>1. PICK k \in Keys, st \in Statuses :
          LET call == [op |-> "status", key |-> k, status |-> st] IN
          \/ rows[k] # Nil /\ tx' = [tx EXCEPT ![w] = Started("queued", call, rows[k])]
          \/ tx' = [tx EXCEPT ![w] = Ended(call, "notFound")]
    BY <1>3 DEF BeginApplyStatus
  <2> DEFINE call == [op |-> "status", key |-> k, status |-> st]
  <2>2. call \in Calls /\ rows[k] \in Row \cup {Nil}
    BY DEF Calls, Inductive, TypeOK
  <2>3. PICK t \in Transactions :
          /\ tx' = [tx EXCEPT ![w] = t] /\ t.call = call
          /\ t.stage \in {"done", "queued"}
          /\ t.stage = "queued" => rows[k] # Nil
    BY <2>1, <2>2, StartedType, EndedType DEF Stages, Outcomes
  <2>4. call.op = "status" /\ call.key = k
    OBVIOUS
  <2> HIDE DEF call
  <2> QED
    BY <1>0, <2>2, <2>3, <2>4, UnlockedInductive
<1>4. CASE BeginAppend(w)
  <2>1. PICK r \in Runs :
          tx' = [tx EXCEPT ![w] = Started("lock", [op |-> "append", run |-> r], Nil)]
    BY <1>4 DEF BeginAppend
  <2> DEFINE call == [op |-> "append", run |-> r]
             t    == Started("lock", call, Nil)
  <2>2. call \in Calls
    BY DEF Calls
  <2>3. t \in Transactions /\ t.stage = "lock" /\ t.call = call
    BY <2>2, StartedType DEF Stages
  <2>4. call.op = "append" /\ tx' = [tx EXCEPT ![w] = t]
    BY <2>1
  <2> HIDE DEF call, t
  <2> QED
    BY <1>0, <2>2, <2>3, <2>4, UnlockedInductive
<1> QED
  BY <1>1, <1>2, <1>3, <1>4 DEF Begin

LEMMA ReturnInductive ==
  ASSUME Inductive, NEW w \in Writers, Return(w)
  PROVE  Inductive'
<1>1. Idle \in Transactions /\ Idle.stage = "idle"
  BY StartedType DEF Idle, Stages
<1> QED
  BY <1>1, UnlockedInductive DEF Return

(* The steps of a transaction keep its record a record.                   *)
LEMMA NumberStepType ==
  ASSUME NEW t \in Transactions, NEW s \in Stages, NEW n \in Nat
  PROVE  /\ [t EXCEPT !.stage = s, !.top = n] \in Transactions
         /\ [t EXCEPT !.stage = s, !.ver = n] \in Transactions
<1>1. [t EXCEPT !.stage = s, !.top = n] \in Transactions
  BY DEF Transactions
<1>2. [t EXCEPT !.stage = s, !.ver = n] \in Transactions
  BY DEF Transactions
<1> QED
  BY <1>1, <1>2

LEMMA RowStepType ==
  ASSUME NEW t \in Transactions, NEW s \in Stages,
         NEW p \in Row \cup {Nil}, NEW outcome \in Outcomes
  PROVE  [t EXCEPT !.stage = s, !.pend = p, !.outcome = outcome] \in Transactions
BY DEF Transactions

LEMMA NumberStepFields ==
  ASSUME NEW t \in Transactions, NEW s, NEW n
  PROVE  /\ LET u == [t EXCEPT !.stage = s, !.top = n]
            IN  u.stage = s /\ u.call = t.call /\ u.top = n
         /\ LET u == [t EXCEPT !.stage = s, !.ver = n]
            IN  u.stage = s /\ u.call = t.call /\ u.top = t.top /\ u.ver = n
BY DEF Transactions

LEMMA RowStepFields ==
  ASSUME NEW t \in Transactions, NEW s, NEW p, NEW outcome
  PROVE  LET u == [t EXCEPT !.stage = s, !.pend = p, !.outcome = outcome]
         IN  /\ u.stage = s /\ u.call = t.call /\ u.top = t.top /\ u.ver = t.ver
             /\ u.pend = p /\ u.outcome = outcome
BY DEF Transactions

(* One transaction moves.                                                  *)
LEMMA OneMoves ==
  ASSUME TypeOK, NEW w \in Writers, NEW t \in Transactions, tx' = [tx EXCEPT ![w] = t]
  PROVE  /\ tx' \in [Writers -> Transactions]
         /\ tx'[w] = t /\ \A v \in Writers \ {w} : tx'[v] = tx[v]
BY DEF TypeOK

LEMMA LockRunInductive ==
  ASSUME Inductive, NEW w \in Writers, LockRun(w)
  PROVE  Inductive'
<1> USE DEF Inductive
<1>1. /\ tx[w].stage = "lock" /\ tx[w].call \in Calls /\ tx[w].call.op = "append"
      /\ tx' = [tx EXCEPT ![w].stage = "locked"]
      /\ UNCHANGED <<rows, events, issued, committed>>
  BY DEF LockRun, WellFormed
<1>2. /\ tx' \in [Writers -> Transactions]
      /\ tx'[w].stage = "locked" /\ tx'[w].call = tx[w].call
      /\ \A v \in Writers \ {w} : tx'[v] = tx[v]
  BY <1>1 DEF TypeOK, Transactions, Stages
<1>3. TypeOK'
  BY <1>1, <1>2 DEF TypeOK
<1>4. WellFormed'
  BY <1>1, <1>2 DEF WellFormed
<1>5. \A v \in Writers : HoldsCounter(v)' = HoldsCounter(v)
  BY <1>1, <1>2 DEF HoldsCounter
<1>6. \A v \in Writers \ {w}, r \in Runs : HoldsRun(v, r)' = HoldsRun(v, r)
  BY <1>2 DEF HoldsRun
<1>7. \A v \in Writers \ {w}, r \in Runs : HoldsRun(w, r)' => ~HoldsRun(v, r)'
  BY <1>2, <1>6 DEF LockRun, RunFree, HoldsRun
<1>8. Exclusive'
  BY <1>5, <1>6, <1>7 DEF Exclusive
<1>9. Versions'
  BY <1>1, <1>2, <1>5 DEF Versions, HoldsCounter
<1>10. Pending'
  BY <1>1, <1>2, PendingFrame DEF Pending
<1>11. Log'
  BY <1>1, <1>2, LogFrame DEF Log
<1> QED
  BY <1>3, <1>4, <1>8, <1>9, <1>10, <1>11

LEMMA StartInsertInductive ==
  ASSUME Inductive, NEW w \in Writers, StartInsert(w)
  PROVE  Inductive'
<1> USE DEF Inductive
<1>1. /\ tx[w].stage = "locked" /\ tx[w].call \in Calls /\ tx[w].call.op = "append"
      /\ tx' = [tx EXCEPT ![w].stage = "queued", ![w].top = TopSeq(tx[w].call.run)]
      /\ UNCHANGED <<rows, events, issued, committed>>
  BY DEF StartInsert, WellFormed
<1>2. tx[w].call.run \in Runs /\ TopSeq(tx[w].call.run) \in Nat
  BY <1>1 DEF Calls, Log
<1>3. /\ tx' \in [Writers -> Transactions]
      /\ tx'[w].stage = "queued" /\ tx'[w].call = tx[w].call
      /\ tx'[w].top = TopSeq(tx[w].call.run)
      /\ \A v \in Writers \ {w} : tx'[v] = tx[v]
  <2> DEFINE t == [tx[w] EXCEPT !.stage = "queued", !.top = TopSeq(tx[w].call.run)]
  <2>1. tx[w] \in Transactions /\ tx' = [tx EXCEPT ![w] = t]
    BY <1>1 DEF TypeOK
  <2>2. t \in Transactions
    BY <1>2, <2>1, NumberStepType DEF Stages
  <2>3. t.stage = "queued" /\ t.call = tx[w].call /\ t.top = TopSeq(tx[w].call.run)
    BY <2>1, NumberStepFields
  <2> HIDE DEF t
  <2> QED
    BY <2>1, <2>2, <2>3, OneMoves
<1>4. TypeOK'
  BY <1>1, <1>3 DEF TypeOK
<1>5. WellFormed'
  BY <1>1, <1>3 DEF WellFormed
<1>6. \A v \in Writers : /\ HoldsCounter(v)' = HoldsCounter(v)
                         /\ \A r \in Runs : HoldsRun(v, r)' = HoldsRun(v, r)
  BY <1>1, <1>3 DEF HoldsCounter, HoldsRun
<1>7. Exclusive'
  BY <1>6 DEF Exclusive
<1>8. Versions'
  BY <1>1, <1>3, <1>6 DEF Versions, HoldsCounter
<1>9. Pending'
  BY <1>1, <1>3, PendingFrame DEF Pending
<1>10. Log'
  BY <1>1, <1>3, LogFrame DEF Log
<1> QED
  BY <1>4, <1>5, <1>7, <1>8, <1>9, <1>10

LEMMA AllocateInductive ==
  ASSUME Inductive, NEW w \in Writers, Allocate(w)
  PROVE  Inductive'
<1> USE DEF Inductive
<1>1. /\ tx[w].stage = "queued" /\ \A v \in Writers \ {w} : ~HoldsCounter(v)
      /\ tx' = [tx EXCEPT ![w].stage = "allocated", ![w].ver = issued + 1]
      /\ issued' = issued + 1 /\ issued + 1 \in Nat
      /\ UNCHANGED <<rows, events, committed>>
  BY DEF Allocate, CounterFree, TypeOK
<1>2. /\ tx' \in [Writers -> Transactions]
      /\ tx'[w].stage = "allocated" /\ tx'[w].call = tx[w].call
      /\ tx'[w].ver = issued + 1 /\ tx'[w].top = tx[w].top
      /\ \A v \in Writers \ {w} : tx'[v] = tx[v]
  <2> DEFINE t == [tx[w] EXCEPT !.stage = "allocated", !.ver = issued + 1]
  <2>1. tx[w] \in Transactions /\ tx' = [tx EXCEPT ![w] = t]
    BY <1>1 DEF TypeOK
  <2>2. t \in Transactions
    BY <1>1, <2>1, NumberStepType DEF Stages
  <2>3. /\ t.stage = "allocated" /\ t.call = tx[w].call
        /\ t.ver = issued + 1 /\ t.top = tx[w].top
    BY <2>1, NumberStepFields
  <2> HIDE DEF t
  <2> QED
    BY <2>1, <2>2, <2>3, OneMoves
<1>3. TypeOK'
  BY <1>1, <1>2 DEF TypeOK
<1>4. WellFormed'
  BY <1>1, <1>2 DEF WellFormed
<1>5. ~HoldsCounter(w) /\ \A v \in Writers \ {w} : ~HoldsCounter(v)'
  BY <1>1, <1>2 DEF HoldsCounter
<1>6. \A v \in Writers, r \in Runs : HoldsRun(v, r)' = HoldsRun(v, r)
  BY <1>1, <1>2 DEF HoldsRun
<1>7. Exclusive'
  BY <1>5, <1>6 DEF Exclusive
<1>8. issued = committed
  BY <1>1, <1>5 DEF Versions
<1>9. Versions'
  BY <1>1, <1>2, <1>5, <1>8 DEF Versions, TypeOK, HoldsCounter
<1>10. Pending'
  BY <1>1, <1>2 DEF Pending, HoldsCounter
<1>11. Log'
  BY <1>1, <1>2, LogFrame DEF Log
<1> QED
  BY <1>3, <1>4, <1>7, <1>9, <1>10, <1>11

(* A statement that holds the counter writes its row.                      *)
LEMMA WroteInductive ==
  ASSUME Inductive, NEW w \in Writers, NEW p \in Row \cup {Nil}, NEW outcome \in Outcomes,
         tx[w].stage = "allocated",
         Wrote(w, p, outcome),
         issued' \in {issued, issued + 1},
         UNCHANGED <<rows, events, committed>>,
         tx[w].call.op = "apply" => PendingApply(w)',
         tx[w].call.op = "status" => p = StatusRow(w, issued)' /\ outcome = "ok"
  PROVE  Inductive'
<1> USE DEF Inductive
<1>1. /\ tx' \in [Writers -> Transactions]
      /\ tx'[w].stage = "written" /\ tx'[w].call = tx[w].call
      /\ tx'[w].ver = tx[w].ver /\ tx'[w].top = tx[w].top
      /\ tx'[w].pend = p /\ tx'[w].outcome = outcome
      /\ \A v \in Writers \ {w} : tx'[v] = tx[v]
  <2> DEFINE t == [tx[w] EXCEPT !.stage = "written", !.pend = p, !.outcome = outcome]
  <2>1. tx[w] \in Transactions /\ tx' = [tx EXCEPT ![w] = t]
    BY DEF Wrote, TypeOK
  <2>2. t \in Transactions
    BY <2>1, RowStepType DEF Stages
  <2>3. /\ t.stage = "written" /\ t.call = tx[w].call /\ t.ver = tx[w].ver
        /\ t.top = tx[w].top /\ t.pend = p /\ t.outcome = outcome
    BY <2>1, RowStepFields
  <2> HIDE DEF t
  <2> QED
    BY <2>1, <2>2, <2>3, OneMoves
<1>2. TypeOK'
  BY <1>1 DEF TypeOK
<1>3. WellFormed'
  BY <1>1 DEF WellFormed
<1>4. \A v \in Writers : /\ HoldsCounter(v)' = HoldsCounter(v)
                         /\ \A r \in Runs : HoldsRun(v, r)' = HoldsRun(v, r)
  BY <1>1 DEF HoldsCounter, HoldsRun
<1>5. Exclusive'
  BY <1>4 DEF Exclusive
<1>6. HoldsCounter(w)
  BY DEF HoldsCounter
<1>7. Versions'
  BY <1>1, <1>4, <1>6 DEF Versions, TypeOK, Transactions
<1>8. \A v \in Writers \ {w} : tx'[v].stage # "written"
  BY <1>1, <1>6 DEF Exclusive, HoldsCounter
<1>9. Pending'
  BY <1>1, <1>8 DEF Pending
<1>10. Log'
  BY <1>1, LogFrame DEF Log
<1> QED
  BY <1>2, <1>3, <1>5, <1>7, <1>9, <1>10

(* A transaction that is rolled back.                                      *)
LEMMA RolledBackInductive ==
  ASSUME Inductive, NEW w \in Writers, NEW outcome \in Outcomes,
         tx[w].stage # "idle",
         issued' = IF HoldsCounter(w) THEN committed ELSE issued,
         tx' = [tx EXCEPT ![w] = Ended(tx[w].call, outcome)],
         UNCHANGED <<rows, events, committed>>
  PROVE  Inductive'
<1> USE DEF Inductive
<1>1. /\ tx' \in [Writers -> Transactions]
      /\ tx'[w].stage = "done" /\ tx'[w].call = tx[w].call /\ tx'[w].call \in Calls
      /\ \A v \in Writers \ {w} : tx'[v] = tx[v]
  BY EndedType DEF TypeOK, WellFormed
<1>2. TypeOK'
  BY <1>1 DEF TypeOK
<1>3. WellFormed'
  BY <1>1 DEF WellFormed
<1>4. /\ ~HoldsCounter(w)' /\ \A r \in Runs : ~HoldsRun(w, r)'
      /\ \A v \in Writers \ {w} : /\ HoldsCounter(v)' = HoldsCounter(v)
                                  /\ \A r \in Runs : HoldsRun(v, r)' = HoldsRun(v, r)
  BY <1>1 DEF HoldsCounter, HoldsRun
<1>5. Exclusive'
  BY <1>4 DEF Exclusive
<1>6. Versions'
  <2>1. CASE HoldsCounter(w)
    <3>1. \A v \in Writers : ~HoldsCounter(v)'
      BY <1>4, <2>1 DEF Exclusive
    <3> QED
      BY <2>1, <3>1 DEF Versions, TypeOK
  <2>2. CASE ~HoldsCounter(w)
    BY <1>1, <1>4, <2>2 DEF Versions
  <2> QED
    BY <2>1, <2>2
<1>7. Pending'
  <2>1. CASE HoldsCounter(w)
    BY <1>1, <1>4, <2>1 DEF Pending, Exclusive, HoldsCounter
  <2>2. CASE ~HoldsCounter(w)
    BY <1>1, <2>2, PendingFrame DEF Pending
  <2> QED
    BY <2>1, <2>2
<1>8. Log'
  BY <1>1, LogFrame DEF Log
<1> QED
  BY <1>2, <1>3, <1>5, <1>6, <1>7, <1>8

LEMMA AbortInductive ==
  ASSUME Inductive, NEW w \in Writers, Abort(w)
  PROVE  Inductive'
BY RolledBackInductive DEF Abort, Outcomes

LEMMA FailsInductive ==
  ASSUME Inductive, NEW w \in Writers, tx[w].stage = "allocated", Fails(w),
         UNCHANGED <<rows, events, committed>>
  PROVE  Inductive'
BY RolledBackInductive DEF Fails, Outcomes, HoldsCounter

LEMMA WriteApplyInductive ==
  ASSUME Inductive, NEW w \in Writers, WriteApply(w)
  PROVE  Inductive'
<1> DEFINE c   == tx[w].call
           row == rows[c.key]
<1>1. /\ tx[w].stage = "allocated" /\ UNCHANGED <<rows, events, committed>>
      /\ c \in Calls /\ c.op = "apply" /\ c.key \in MutableKeys
      /\ issued \in Nat /\ tx[w].ver \in Nat
  BY DEF WriteApply, Inductive, WellFormed, TypeOK, Transactions
<1>2. /\ c \in [op : {"apply"}, key : Keys, spec : Specs, meta : Metas, ifRV : Nat \cup {Nil}]
      /\ row \in Row \cup {Nil}
  BY <1>1 DEF Calls, Keys, Inductive, TypeOK
<1>3. \A p, outcome : Wrote(w, p, outcome) =>
        /\ tx'[w].call = c /\ tx'[w].ver = tx[w].ver
        /\ tx'[w].pend = p /\ tx'[w].outcome = outcome
  BY DEF Wrote, Inductive, TypeOK, Transactions
<1>4. \/ row = Nil /\ Wrote(w, NewRow(c, tx[w].ver), "ok") /\ issued' = issued
      \/ row # Nil /\ ~Matches(c, row) /\ Wrote(w, Nil, "conflict") /\ issued' = issued
      \/ row # Nil /\ Matches(c, row) /\ ~Differs(c, row) /\ Wrote(w, row, "ok") /\ issued' = issued
      \/ /\ row # Nil /\ Matches(c, row) /\ Differs(c, row)
         /\ Wrote(w, UpdatedRow(c, row, issued + 1), "ok") /\ issued' = issued + 1
  BY DEF WriteApply
<1>5. PICK p \in Row \cup {Nil}, outcome \in {"ok", "conflict"} :
        /\ Wrote(w, p, outcome) /\ issued' \in {issued, issued + 1}
        /\ \/ row = Nil /\ p = NewRow(c, tx[w].ver) /\ outcome = "ok"
           \/ row # Nil /\ ~Matches(c, row) /\ p = Nil /\ outcome = "conflict"
           \/ row # Nil /\ Matches(c, row) /\ ~Differs(c, row) /\ p = row /\ outcome = "ok"
           \/ /\ row # Nil /\ Matches(c, row) /\ Differs(c, row)
              /\ p = UpdatedRow(c, row, issued') /\ outcome = "ok"
  <2>1. CASE row = Nil
    BY <1>1, <1>2, <1>4, <2>1, NewRowType
  <2>2. CASE row # Nil /\ ~Matches(c, row)
    BY <1>1, <1>4, <2>2
  <2>3. CASE row # Nil /\ Matches(c, row) /\ ~Differs(c, row)
    BY <1>1, <1>2, <1>4, <2>3
  <2>4. CASE row # Nil /\ Matches(c, row) /\ Differs(c, row)
    <3>1. UpdatedRow(c, row, issued + 1) \in Row
      BY <1>1, <1>2, <2>4, UpdatedRowType
    <3>2. Wrote(w, UpdatedRow(c, row, issued + 1), "ok") /\ issued' = issued + 1
      BY <1>4, <2>4
    <3> QED
      BY <2>4, <3>1, <3>2
  <2> QED
    BY <2>1, <2>2, <2>3, <2>4
<1>6. rows'[c.key] = row
  BY <1>1
<1>7. PendingApply(w)'
  BY <1>1, <1>3, <1>5, <1>6 DEF PendingApply
<1> QED
  BY <1>1, <1>5, <1>7, WroteInductive DEF Outcomes

LEMMA WriteImmutableInductive ==
  ASSUME Inductive, NEW w \in Writers, WriteImmutable(w)
  PROVE  Inductive'
<1> DEFINE c == tx[w].call
<1>1. /\ tx[w].stage = "allocated" /\ UNCHANGED <<rows, events, committed>>
      /\ c \in Calls /\ c.op = "apply" /\ c.key \in ImmutableKeys
      /\ tx[w].ver \in Nat
  BY DEF WriteImmutable, Inductive, WellFormed, TypeOK, Transactions
<1>2. c \in [op : {"apply"}, key : Keys, spec : Specs, meta : Metas, ifRV : Nat \cup {Nil}]
  BY <1>1 DEF Calls
<1>3. CASE rows[c.key] = Nil
  <2>1. Wrote(w, NewRow(c, tx[w].ver), "ok") /\ issued' = issued
    BY <1>3 DEF WriteImmutable
  <2>2. PendingApply(w)'
    BY <1>1, <1>3, <2>1 DEF PendingApply, Wrote, Inductive, TypeOK, Transactions
  <2> QED
    BY <1>1, <1>2, <2>1, <2>2, NewRowType, WroteInductive DEF Outcomes
<1>4. CASE rows[c.key] # Nil
  BY <1>1, <1>4, FailsInductive DEF WriteImmutable
<1> QED
  BY <1>3, <1>4

LEMMA WriteStatusInductive ==
  ASSUME Inductive, NEW w \in Writers, WriteStatus(w)
  PROVE  Inductive'
<1> DEFINE c == tx[w].call
<1>1. /\ tx[w].stage = "allocated" /\ UNCHANGED <<rows, events, committed>>
      /\ c \in Calls /\ c.op = "status" /\ issued \in Nat
      /\ rows[c.key] # Nil
  BY DEF WriteStatus, Inductive, WellFormed, TypeOK
<1>2. c.key \in Keys /\ c.status \in Statuses
  BY <1>1 DEF Calls
<1>3. rows[c.key] \in Row
  BY <1>1, <1>2 DEF Inductive, TypeOK
<1>4. PICK again \in {0, 1} :
        issued' = issued + again /\ Wrote(w, StatusRow(w, issued + again), "ok")
  BY DEF WriteStatus
<1>5. StatusRow(w, issued + again) \in Row
  <2>1. issued + again \in Nat
    BY <1>1
  <2> QED
    BY <1>2, <1>3, <2>1, StatusRowType DEF StatusRow
<1>6. StatusRow(w, issued)' = StatusRow(w, issued + again)
  BY <1>1, <1>4 DEF StatusRow, Wrote, Inductive, TypeOK, Transactions
<1> QED
  BY <1>1, <1>4, <1>5, <1>6, WroteInductive DEF Outcomes

LEMMA WriteEventInductive ==
  ASSUME Inductive, NEW w \in Writers, WriteEvent(w)
  PROVE  Inductive'
<1>1. /\ tx[w].stage = "allocated" /\ UNCHANGED <<rows, events, committed>>
      /\ tx[w].call.op = "append"
  BY DEF WriteEvent
<1>2. CASE Wrote(w, Nil, "ok") /\ issued' = issued
  BY <1>1, <1>2, WroteInductive DEF Outcomes
<1>3. CASE Fails(w)
  BY <1>1, <1>3, FailsInductive
<1> QED
  BY <1>2, <1>3 DEF WriteEvent

(* What a commit installs is not newer than the counter.                   *)
LEMMA PendingVersion ==
  ASSUME Inductive, NEW w \in Writers, tx[w].stage = "written",
         tx[w].call.op \in {"apply", "status"}
  PROVE  /\ tx[w].call.key \in Keys
         /\ tx[w].pend \in Row \cup {Nil}
         /\ tx[w].pend # Nil => tx[w].pend.rv \in Nat /\ tx[w].pend.rv <= issued
<1> DEFINE c   == tx[w].call
           row == rows[c.key]
<1>1. c \in Calls /\ c.key \in Keys
  BY DEF Inductive, WellFormed, Calls
<1>2. row \in Row \cup {Nil} /\ tx[w].pend \in Row \cup {Nil} /\ tx[w].ver \in Nat
  BY <1>1 DEF Inductive, TypeOK, Transactions
<1>3. /\ tx[w].ver <= issued /\ committed <= issued /\ issued \in Nat /\ committed \in Nat
      /\ row # Nil => row.rv <= committed
  BY <1>1 DEF Inductive, Versions, HoldsCounter, TypeOK
<1>4. CASE c.op = "apply"
  <2>1. PendingApply(w)
    BY <1>4 DEF Inductive, Pending
  <2>2. NewRow(c, tx[w].ver).rv = tx[w].ver
    BY DEF NewRow
  <2>3. row \in Row => UpdatedRow(c, row, issued).rv = issued
    BY DEF UpdatedRow, Row
  <2>4. tx[w].pend # Nil => tx[w].pend.rv <= issued
    BY <1>2, <1>3, <2>1, <2>2, <2>3 DEF PendingApply, Row
  <2> QED
    BY <1>1, <1>2, <2>4 DEF Row
<1>5. CASE c.op = "status"
  <2>1. tx[w].pend = StatusRow(w, issued) /\ row \in Row
    BY <1>2, <1>5 DEF Inductive, Pending, WellFormed
  <2>2. StatusRow(w, issued).rv = issued
    BY <2>1 DEF StatusRow, Row
  <2> QED
    BY <1>1, <1>2, <1>3, <2>1, <2>2
<1> QED
  BY <1>4, <1>5

(* The log of the run whose Append commits grows by the next seq.          *)
LEMMA LogGrows ==
  ASSUME Inductive, NEW w \in Writers, Commit(w), tx[w].call.op = "append",
         NEW run, run = tx[w].call.run
  PROVE  /\ run \in Runs
         /\ NewEvent(w) \in Event
         /\ tx[w].top = TopSeq(run)
         /\ SeqsOf(run)' = 1 .. (tx[w].top + 1)
         /\ TopSeq(run)' = tx[w].top + 1
         /\ \A r \in Runs \ {run} : SeqsOf(r)' = SeqsOf(r) /\ TopSeq(r)' = TopSeq(r)
<1>1. tx[w].stage = "written" /\ events' = events \cup {NewEvent(w)} /\ run \in Runs
  BY DEF Commit, Inductive, WellFormed, Calls
<1>2. tx[w].top = TopSeq(run) /\ tx[w].top \in Nat /\ tx[w].ver \in Nat
  BY <1>1 DEF Inductive, Log, TypeOK, Transactions
<1>3. NewEvent(w) \in Event /\ NewEvent(w).run = run /\ NewEvent(w).seq = tx[w].top + 1
  BY <1>1, <1>2 DEF NewEvent, Event
<1>4. SeqsOf(run) = 1 .. tx[w].top
  BY <1>1, <1>2 DEF Inductive, Log
<1>5. SeqsOf(run)' = SeqsOf(run) \cup {tx[w].top + 1}
  <2>1. {x \in events' : x.run = run} = {x \in events : x.run = run} \cup {NewEvent(w)}
    BY <1>1, <1>3
  <2>2. SeqsOf(run)' = {e.seq : e \in {x \in events' : x.run = run}}
    BY DEF SeqsOf
  <2>3. SeqsOf(run)' = {e.seq : e \in {x \in events : x.run = run}} \cup {NewEvent(w).seq}
    BY <2>1, <2>2
  <2> QED
    BY <1>3, <2>3 DEF SeqsOf
<1>6. SeqsOf(run)' = 1 .. (tx[w].top + 1)
  BY <1>2, <1>4, <1>5
<1>7. TopSeq(run)' = tx[w].top + 1
  BY <1>2, <1>6 DEF TopSeq
<1>8. \A r \in Runs \ {run} : SeqsOf(r)' = SeqsOf(r)
  BY <1>1, <1>3 DEF SeqsOf
<1>9. \A r \in Runs \ {run} : TopSeq(r)' = TopSeq(r)
  BY <1>8 DEF TopSeq
<1> QED
  BY <1>1, <1>2, <1>3, <1>6, <1>7, <1>8, <1>9

LEMMA CommitInductive ==
  ASSUME Inductive, NEW w \in Writers, Commit(w)
  PROVE  Inductive'
<1> USE DEF Inductive
<1> DEFINE c == tx[w].call
<1>1. /\ tx[w].stage = "written" /\ committed' = issued /\ issued' = issued
      /\ tx' = [tx EXCEPT ![w] = Ended(c, tx[w].outcome)]
      /\ c \in Calls
  BY DEF Commit, WellFormed
<1>2. /\ tx' \in [Writers -> Transactions]
      /\ tx'[w].stage = "done" /\ tx'[w].call = c
      /\ \A v \in Writers \ {w} : tx'[v] = tx[v]
  BY <1>1, EndedType DEF TypeOK, Transactions
<1>3. /\ ~HoldsCounter(w)' /\ \A r \in Runs : ~HoldsRun(w, r)'
      /\ \A v \in Writers \ {w} : /\ ~HoldsCounter(v)
                                  /\ ~HoldsCounter(v)'
                                  /\ \A r \in Runs : HoldsRun(v, r)' = HoldsRun(v, r)
  BY <1>1, <1>2 DEF HoldsCounter, HoldsRun, Exclusive
<1>4. /\ rows' \in [Keys -> Row \cup {Nil}]
      /\ \A k \in Keys : /\ rows[k] # Nil => rows'[k] # Nil
                         /\ rows'[k] # Nil => rows'[k].rv <= issued
  <2>1. CASE c.op \in {"apply", "status"} /\ tx[w].pend # Nil
    <3>1. rows' = [rows EXCEPT ![c.key] = tx[w].pend]
      BY <2>1 DEF Commit
    <3> QED
      BY <1>1, <2>1, <3>1, PendingVersion DEF TypeOK, Versions, Row
  <2>2. CASE ~(c.op \in {"apply", "status"} /\ tx[w].pend # Nil)
    <3>1. rows' = rows
      BY <2>2 DEF Commit
    <3> QED
      BY <3>1 DEF TypeOK, Versions, Row
  <2> QED
    BY <2>1, <2>2
<1>5. events' \subseteq Event /\ \A e \in events' : e.rv <= issued
  <2>1. CASE c.op = "append"
    <3>1. events' = events \cup {NewEvent(w)} /\ NewEvent(w) \in Event
      BY <2>1, LogGrows DEF Commit
    <3>2. NewEvent(w).rv <= issued
      BY <1>1 DEF NewEvent, Versions, HoldsCounter
    <3> QED
      BY <3>1, <3>2 DEF TypeOK, Versions, Event
  <2>2. CASE c.op # "append"
    BY <2>2 DEF Commit, TypeOK, Versions, Event
  <2> QED
    BY <2>1, <2>2
<1>6. TypeOK'
  BY <1>1, <1>2, <1>4, <1>5 DEF TypeOK
<1>7. WellFormed'
  BY <1>1, <1>2, <1>4 DEF WellFormed, Calls
<1>8. Exclusive'
  BY <1>3 DEF Exclusive
<1>9. Versions'
  BY <1>1, <1>3, <1>4, <1>5 DEF Versions, TypeOK
<1>10. Pending'
  BY <1>2, <1>3 DEF Pending, HoldsCounter
<1>11. Log'
  <2>1. CASE c.op = "append"
    <3>1. \A v \in Writers \ {w} :
            tx[v].stage \in {"queued", "allocated", "written"} /\ tx[v].call.op = "append"
              => tx[v].call.run \in Runs \ {c.run}
      BY <1>1, <2>1 DEF Exclusive, HoldsRun, WellFormed, Calls
    <3>2. tx[w].top \in Nat
      BY DEF TypeOK, Transactions
    <3> QED
      BY <1>2, <2>1, <3>1, <3>2, LogGrows DEF Log
  <2>2. CASE c.op # "append"
    <3>1. events' = events
      BY <2>2 DEF Commit
    <3> QED
      BY <1>2, <3>1, LogFrame DEF Log
  <2> QED
    BY <2>1, <2>2
<1> QED
  BY <1>6, <1>7, <1>8, <1>9, <1>10, <1>11

LEMMA StutterInductive ==
  ASSUME Inductive, UNCHANGED vars
  PROVE  Inductive'
<1> USE DEF Inductive
<1>1. UNCHANGED <<rows, events, issued, committed, tx>>
  BY DEF vars
<1>2. TypeOK' /\ WellFormed'
  BY <1>1 DEF TypeOK, WellFormed
<1>3. Exclusive' /\ Versions'
  BY <1>1 DEF Exclusive, Versions, HoldsCounter, HoldsRun
<1>4. Pending'
  BY <1>1, PendingFrame DEF Pending
<1>5. Log'
  BY <1>1, LogFrame DEF Log
<1> QED
  BY <1>2, <1>3, <1>4, <1>5

LEMMA NextInductive == Inductive /\ [Next]_vars => Inductive'
<1>1. SUFFICES ASSUME Inductive, [Next]_vars PROVE Inductive'
  OBVIOUS
<1>2. CASE UNCHANGED vars
  BY <1>1, <1>2, StutterInductive
<1>3. ASSUME NEW w \in Writers,
             Begin(w) \/ LockRun(w) \/ Allocate(w) \/ Step(w) \/ Abort(w)
      PROVE  Inductive'
  BY <1>1, <1>3, BeginInductive, LockRunInductive, AllocateInductive, StartInsertInductive,
     WriteApplyInductive, WriteImmutableInductive, WriteStatusInductive, WriteEventInductive,
     CommitInductive, ReturnInductive, AbortInductive DEF Step, Write
<1> QED
  BY <1>1, <1>2, <1>3 DEF Next

(* The inductive invariant holds in every behaviour: locks exclude, the    *)
(* counter separates, and nothing a transaction has written is stale       *)
(* (00003_transactional_resource_version.sql:1-20, postgres.go:310-327).    *)
THEOREM Invariance == Spec => []Inductive
<1>1. Init => Inductive
  BY InitInductive
<1>2. Inductive /\ [Next]_vars => Inductive'
  BY NextInductive
<1> QED
  BY <1>1, <1>2, PTL DEF Spec

(* Every variable holds what it is declared to hold, in every behaviour of *)
(* the write path.                                                         *)
THEOREM TypeCorrect == Spec => []TypeOK
<1>1. Inductive => TypeOK
  BY DEF Inductive
<1> QED
  BY <1>1, Invariance, PTL

--------------------------------------------------------------------------------
(* What a commit does to a row, in terms of the row it replaces.           *)

RowAtCommit(w, k) ==
  LET c == tx[w].call IN
  \/ rows'[k] = rows[k]
  \/ /\ c.op = "apply" /\ c.key = k
     /\ rows[k] = Nil /\ rows'[k] = NewRow(c, tx[w].ver)
  \/ /\ c.op = "apply" /\ c.key = k /\ k \in MutableKeys
     /\ rows[k] \in Row /\ Matches(c, rows[k]) /\ Differs(c, rows[k])
     /\ rows'[k] = UpdatedRow(c, rows[k], issued)
  \/ /\ c.op = "status" /\ c.key = k
     /\ rows[k] \in Row
     /\ rows'[k] = [rows[k] EXCEPT !.status = c.status, !.rv = issued]

LEMMA CommitRow ==
  ASSUME Inductive, NEW w \in Writers, Commit(w), NEW k \in Keys
  PROVE  RowAtCommit(w, k)
<1> DEFINE c == tx[w].call
<1>1. tx[w].stage = "written" /\ rows \in [Keys -> Row \cup {Nil}]
  BY DEF Commit, Inductive, TypeOK
<1>2. CASE c.op \in {"apply", "status"} /\ tx[w].pend # Nil /\ c.key = k
  <2>1. rows'[k] = tx[w].pend
    BY <1>1, <1>2 DEF Commit
  <2>2. CASE c.op = "apply"
    BY <1>1, <1>2, <2>1, <2>2 DEF RowAtCommit, Inductive, Pending, PendingApply
  <2>3. CASE c.op = "status"
    <3>1. rows[k] \in Row
      BY <1>1, <1>2, <2>3 DEF Inductive, WellFormed
    <3> QED
      BY <1>1, <1>2, <2>1, <2>3, <3>1 DEF RowAtCommit, Inductive, Pending, StatusRow
  <2> QED
    BY <1>2, <2>2, <2>3
<1>3. CASE ~(c.op \in {"apply", "status"} /\ tx[w].pend # Nil /\ c.key = k)
  <2>1. rows'[k] = rows[k]
    BY <1>1, <1>3 DEF Commit
  <2> QED
    BY <2>1 DEF RowAtCommit
<1> QED
  BY <1>2, <1>3

(* Nothing but a commit is visible.                                        *)
LEMMA OnlyCommitShows ==
  ASSUME [Next]_vars
  PROVE  UNCHANGED <<rows, events, committed>> \/ \E w \in Writers : Commit(w)
<1>1. CASE UNCHANGED vars
  BY <1>1 DEF vars
<1>2. ASSUME NEW w \in Writers, Begin(w)
      PROVE  UNCHANGED <<rows, events, committed>>
  BY <1>2 DEF Begin, BeginApply, BeginApplyImmutable, BeginApplyStatus, BeginAppend
<1>3. ASSUME NEW w \in Writers, Write(w)
      PROVE  UNCHANGED <<rows, events, committed>>
  BY <1>3 DEF Write, WriteApply, WriteImmutable, WriteStatus, WriteEvent
<1>4. ASSUME NEW w \in Writers, LockRun(w) \/ StartInsert(w) \/ Allocate(w) \/ Return(w) \/ Abort(w)
      PROVE  UNCHANGED <<rows, events, committed>>
  BY <1>4 DEF LockRun, StartInsert, Allocate, Return, Abort
<1> QED
  BY <1>1, <1>2, <1>3, <1>4 DEF Next, Step

(* The fields of the rows a commit may install.                            *)
LEMMA RowFields ==
  ASSUME NEW c, NEW row \in Row, NEW v
  PROVE  /\ NewRow(c, v).rv = v
         /\ UpdatedRow(c, row, v).rv = v
         /\ UpdatedRow(c, row, v).spec = c.spec
         /\ UpdatedRow(c, row, v).meta = c.meta
         /\ UpdatedRow(c, row, v).status = row.status
         /\ UpdatedRow(c, row, v).gen = IF c.spec # row.spec THEN row.gen + 1 ELSE row.gen
BY DEF NewRow, UpdatedRow, Row

(* The version of the row a commit installs.                               *)
LEMMA CommitRowVersion ==
  ASSUME Inductive, NEW w \in Writers, Commit(w), NEW k \in Keys, rows'[k] # rows[k]
  PROVE  /\ rows'[k].rv \in {tx[w].ver, issued}
         /\ rows[k] # Nil => rows'[k].rv = issued
<1> DEFINE c == tx[w].call
<1>1. \/ rows[k] = Nil /\ rows'[k] = NewRow(c, tx[w].ver)
      \/ rows[k] \in Row /\ rows'[k] = UpdatedRow(c, rows[k], issued)
      \/ rows[k] \in Row /\ rows'[k] = [rows[k] EXCEPT !.status = c.status, !.rv = issued]
  BY CommitRow DEF RowAtCommit
<1> HIDE DEF c
<1>2. CASE rows[k] = Nil /\ rows'[k] = NewRow(c, tx[w].ver)
  BY <1>2 DEF NewRow
<1>3. CASE rows[k] \in Row /\ rows'[k] = UpdatedRow(c, rows[k], issued)
  BY <1>3 DEF UpdatedRow, Row
<1>4. CASE rows[k] \in Row /\ rows'[k] = [rows[k] EXCEPT !.status = c.status, !.rv = issued]
  BY <1>4 DEF Row
<1> QED
  BY <1>1, <1>2, <1>3, <1>4

(* The counter a transaction holds is above everything committed.          *)
LEMMA CommitAdvances ==
  ASSUME Inductive, NEW w \in Writers, Commit(w)
  PROVE  /\ committed \in Nat /\ tx[w].ver \in Nat /\ issued \in Nat
         /\ committed < tx[w].ver /\ tx[w].ver <= issued /\ committed' = issued
BY DEF Commit, Inductive, TypeOK, Transactions, Versions, HoldsCounter

LEMMA VersionStepHolds ==
  ASSUME Inductive, [Next]_vars
  PROVE  VersionStep
<1>1. CASE UNCHANGED <<rows, events, committed>>
  BY <1>1 DEF VersionStep, Inductive, TypeOK, Row
<1>2. ASSUME NEW w \in Writers, Commit(w), NEW k \in Keys, rows[k] # Nil
      PROVE  /\ rows'[k].rv >= rows[k].rv
             /\ rows'[k].rv = rows[k].rv => rows'[k] = rows[k]
  <2>1. rows[k] \in Row /\ rows[k].rv \in Nat /\ rows[k].rv <= committed
    BY <1>2 DEF Inductive, TypeOK, Row, Versions
  <2>2. rows'[k] = rows[k] \/ rows'[k].rv = issued
    BY <1>2, CommitRowVersion
  <2> QED
    BY <1>2, <2>1, <2>2, CommitAdvances
<1> QED
  BY <1>1, <1>2, OnlyCommitShows DEF VersionStep

(* VersionTracksChange holds of every behaviour: a version a client knows  *)
(* identifies the content it has read.                                     *)
THEOREM VersionsIdentifyContent == Spec => VersionTracksChange
<1>1. Inductive /\ [Next]_vars => [VersionStep]_vars
  BY VersionStepHolds
<1> QED
  BY <1>1, Invariance, PTL DEF Spec, VersionTracksChange

--------------------------------------------------------------------------------
(* A commit leaves its writer done, and what it did is read off CommitRow. *)
LEMMA CommitsIsCommit ==
  ASSUME Inductive, [Next]_vars, NEW w \in Writers, Commits(w)
  PROVE  Commit(w) /\ tx'[w].outcome = tx[w].outcome
<1>1. tx \in [Writers -> Transactions]
  BY DEF Inductive, TypeOK
<1>2. ~UNCHANGED vars
  BY DEF Commits, vars
<1>3. PICK v \in Writers :
        Begin(v) \/ LockRun(v) \/ Allocate(v) \/ Step(v) \/ Abort(v)
  BY <1>2 DEF Next
<1>4. tx' = [tx EXCEPT ![v] = tx'[v]]
  BY <1>1, <1>3 DEF Begin, BeginApply, BeginApplyImmutable, BeginApplyStatus, BeginAppend, LockRun,
       Allocate, Step, StartInsert, Write, WriteApply, WriteImmutable, WriteStatus, WriteEvent,
       Commit, Return, Abort, Wrote, Fails
<1>5. v = w
  BY <1>1, <1>4 DEF Commits
<1>6. tx[w].stage = "written" /\ tx'[w].outcome # "aborted"
  BY DEF Commits
<1>7. Commit(w)
  <2>1. ~Abort(w)
    BY <1>1, <1>6 DEF Abort, Ended, Started
  <2> QED
    BY <1>3, <1>5, <1>6, <2>1 DEF Begin, BeginApply, BeginApplyImmutable, BeginApplyStatus,
       BeginAppend, Open, LockRun, Allocate, Step, StartInsert, Write, WriteApply, WriteImmutable,
       WriteStatus, WriteEvent, Return
<1>8. tx'[w].outcome = tx[w].outcome
  BY <1>1, <1>7 DEF Commit, Ended, Started
<1> QED
  BY <1>7, <1>8

LEMMA ConditionalApplyStepHolds ==
  ASSUME Inductive, [Next]_vars
  PROVE  ConditionalApplyStep
<1>1. SUFFICES ASSUME NEW w \in Writers, Commits(w), tx[w].call.op = "apply",
                      tx[w].call.ifRV # Nil, rows[tx[w].call.key] # Nil
               PROVE  tx'[w].outcome = "ok" <=> rows[tx[w].call.key].rv = tx[w].call.ifRV
  BY DEF ConditionalApplyStep
<1>2. tx'[w].outcome = tx[w].outcome /\ tx[w].stage = "written"
  BY <1>1, CommitsIsCommit DEF Commits
<1>3. PendingApply(w)
  BY <1>1, <1>2 DEF Inductive, Pending
<1>4. tx[w].outcome = "ok" <=> Matches(tx[w].call, rows[tx[w].call.key])
  BY <1>1, <1>3 DEF PendingApply
<1> QED
  BY <1>1, <1>2, <1>4 DEF Matches

(* ConditionalApplyIsAtomic holds of every behaviour: no conditional Apply *)
(* overwrites a row its caller has not seen, and none conflicts in vain.   *)
THEOREM OptimisticConcurrency == Spec => ConditionalApplyIsAtomic
<1>1. Inductive /\ [Next]_vars => [ConditionalApplyStep]_vars
  BY ConditionalApplyStepHolds
<1> QED
  BY <1>1, Invariance, PTL DEF Spec, ConditionalApplyIsAtomic

LEMMA KeptApartStepHolds ==
  ASSUME Inductive, [Next]_vars
  PROVE  KeptApartStep
<1>1. SUFFICES ASSUME NEW w \in Writers, Commits(w)
               PROVE  LET c   == tx[w].call
                          old == rows[c.key]
                          new == rows'[c.key]
                      IN  /\ c.op = "status"
                               => /\ new.status = c.status
                                  /\ new = [old EXCEPT !.status = new.status, !.rv = new.rv]
                          /\ c.op = "apply" /\ tx'[w].outcome = "ok" /\ old # Nil
                               => /\ new.spec = c.spec /\ new.meta = c.meta
                                  /\ new.status = old.status
  BY DEF KeptApartStep
<1> DEFINE c   == tx[w].call
           old == rows[c.key]
           new == rows'[c.key]
<1>2. Commit(w) /\ tx'[w].outcome = tx[w].outcome /\ tx[w].stage = "written"
  BY <1>1, CommitsIsCommit DEF Commits
<1>3. c \in Calls
  BY <1>1, <1>2 DEF Inductive, WellFormed
<1>4. rows \in [Keys -> Row \cup {Nil}]
  BY DEF Inductive, TypeOK
<1>5. CASE c.op = "status"
  <2>1. c.key \in Keys /\ old \in Row /\ tx[w].pend = StatusRow(w, issued)
    BY <1>1, <1>2, <1>3, <1>4, <1>5 DEF Calls, Inductive, WellFormed, Pending
  <2>2. StatusRow(w, issued) = [old EXCEPT !.status = c.status, !.rv = issued]
    BY <1>1 DEF StatusRow
  <2>3. [old EXCEPT !.status = c.status, !.rv = issued] \in Row
    BY <1>1, <1>3, <1>5, <2>1, StatusRowType DEF Calls, Inductive, TypeOK
  <2>4. new = [old EXCEPT !.status = c.status, !.rv = issued]
    <3>1. tx[w].pend \in Row /\ tx[w].pend # Nil
      BY <2>1, <2>2, <2>3, NilAssumption
    <3>2. new = tx[w].pend
      BY <1>2, <1>4, <1>5, <2>1, <3>1 DEF Commit
    <3> QED
      BY <2>1, <2>2, <3>2
  <2> QED
    BY <1>5, <2>1, <2>4 DEF Row
<1>6. CASE c.op = "apply" /\ tx[w].outcome = "ok" /\ old # Nil
  <2>1. c.key \in Keys /\ old \in Row /\ PendingApply(w)
    BY <1>1, <1>2, <1>3, <1>4, <1>6 DEF Calls, Inductive, Pending
  <2>2. CASE ~Differs(c, old) /\ tx[w].pend = old
    <3>1. new = old
      BY <1>1, <1>2, <1>4, <1>6, <2>1, <2>2 DEF Commit
    <3> QED
      BY <1>6, <2>2, <3>1 DEF Differs
  <2>3. CASE tx[w].pend = UpdatedRow(c, old, issued)
    <3>1. issued \in Nat
      BY DEF Inductive, TypeOK
    <3>2. UpdatedRow(c, old, issued) \in Row
      BY <1>3, <1>6, <2>1, <3>1, UpdatedRowType DEF Calls
    <3>3. new = UpdatedRow(c, old, issued)
      BY <1>1, <1>2, <1>4, <1>6, <2>1, <2>3, <3>2, NilAssumption DEF Commit
    <3> QED
      BY <1>6, <2>1, <3>3, RowFields
  <2> QED
    BY <1>1, <1>6, <2>1, <2>2, <2>3 DEF PendingApply
<1> QED
  BY <1>2, <1>5, <1>6

(* StatusAndSpecKeptApart holds of every behaviour, although an ApplyStatus *)
(* finds its row in a snapshot that is old when it writes.                 *)
THEOREM NoFieldLost == Spec => StatusAndSpecKeptApart
<1>1. Inductive /\ [Next]_vars => [KeptApartStep]_vars
  BY KeptApartStepHolds
<1> QED
  BY <1>1, Invariance, PTL DEF Spec, StatusAndSpecKeptApart

LEMMA GenerationStepHolds ==
  ASSUME Inductive, [Next]_vars
  PROVE  GenerationStep
<1>1. SUFFICES ASSUME NEW k \in Keys, rows[k] # Nil
               PROVE  rows'[k].gen - rows[k].gen
                        = IF rows'[k].spec # rows[k].spec THEN 1 ELSE 0
  BY DEF GenerationStep
<1>2. rows[k] \in Row /\ rows[k].gen \in Nat
  BY <1>1 DEF Inductive, TypeOK, Row
<1>3. CASE rows'[k] = rows[k]
  BY <1>2, <1>3
<1>4. ASSUME NEW w \in Writers, Commit(w), rows'[k] # rows[k]
      PROVE  \/ rows'[k] = UpdatedRow(tx[w].call, rows[k], issued)
             \/ rows'[k] = [rows[k] EXCEPT !.status = tx[w].call.status, !.rv = issued]
  BY <1>1, <1>4, CommitRow DEF RowAtCommit
<1>5. ASSUME NEW c, rows'[k] = UpdatedRow(c, rows[k], issued)
      PROVE  rows'[k].gen - rows[k].gen = IF rows'[k].spec # rows[k].spec THEN 1 ELSE 0
  <2>1. /\ rows'[k].spec = c.spec
        /\ rows'[k].gen = IF c.spec # rows[k].spec THEN rows[k].gen + 1 ELSE rows[k].gen
    BY <1>2, <1>5, RowFields
  <2> QED
    BY <1>2, <2>1
<1>6. ASSUME NEW st, rows'[k] = [rows[k] EXCEPT !.status = st, !.rv = issued]
      PROVE  rows'[k].gen = rows[k].gen /\ rows'[k].spec = rows[k].spec
  BY <1>2, <1>6 DEF Row
<1>7. ASSUME NEW w \in Writers, Commit(w)
      PROVE  rows'[k].gen - rows[k].gen = IF rows'[k].spec # rows[k].spec THEN 1 ELSE 0
  <2>1. CASE rows'[k] = UpdatedRow(tx[w].call, rows[k], issued)
    BY <1>5, <2>1
  <2>2. CASE rows'[k] = [rows[k] EXCEPT !.status = tx[w].call.status, !.rv = issued]
    <3>1. rows'[k].gen = rows[k].gen /\ rows'[k].spec = rows[k].spec
      BY <1>6, <2>2
    <3> QED
      BY <1>2, <3>1
  <2> QED
    BY <1>3, <1>4, <1>7, <2>1, <2>2
<1> QED
  BY <1>3, <1>7, OnlyCommitShows

(* GenerationCountsSpecs holds of every behaviour.                         *)
THEOREM GenerationsCount == Spec => GenerationCountsSpecs
<1>1. Inductive /\ [Next]_vars => [GenerationStep]_vars
  BY GenerationStepHolds
<1> QED
  BY <1>1, Invariance, PTL DEF Spec, GenerationCountsSpecs

LEMMA ImmutableStepHolds ==
  ASSUME Inductive, [Next]_vars
  PROVE  ImmutableStep
<1>1. SUFFICES ASSUME NEW k \in ImmutableKeys, rows[k] # Nil
               PROVE  rows'[k].spec = rows[k].spec /\ rows'[k].gen = rows[k].gen
  BY DEF ImmutableStep
<1>2. k \in Keys /\ k \notin MutableKeys /\ rows[k] \in Row
  BY <1>1, KeysAssumption DEF Keys, Inductive, TypeOK
<1>3. ASSUME NEW w \in Writers, Commit(w), rows'[k] # rows[k]
      PROVE  rows'[k] = [rows[k] EXCEPT !.status = tx[w].call.status, !.rv = issued]
  BY <1>1, <1>2, <1>3, CommitRow DEF RowAtCommit
<1>4. ASSUME NEW st, rows'[k] = [rows[k] EXCEPT !.status = st, !.rv = issued]
      PROVE  rows'[k].gen = rows[k].gen /\ rows'[k].spec = rows[k].spec
  BY <1>2, <1>4 DEF Row
<1> QED
  BY <1>3, <1>4, OnlyCommitShows

(* ImmutableSpecStays holds of every behaviour: the race of two first      *)
(* Applies loses a call, never the spec.                                   *)
THEOREM ImmutableSpecsStay == Spec => ImmutableSpecStays
<1>1. Inductive /\ [Next]_vars => [ImmutableStep]_vars
  BY ImmutableStepHolds
<1> QED
  BY <1>1, Invariance, PTL DEF Spec, ImmutableSpecStays

--------------------------------------------------------------------------------
(* The watermark.                                                          *)

LEMMA WatermarkStepHolds ==
  ASSUME Inductive, [Next]_vars
  PROVE  WatermarkStep
<1>1. SUFFICES ASSUME NEW v \in VisibleVersions' \ VisibleVersions
               PROVE  committed < v /\ v <= committed'
  BY DEF WatermarkStep
<1>2. PICK w \in Writers : Commit(w)
  BY <1>1, OnlyCommitShows DEF VisibleVersions
<1>3. CASE \E k \in Keys : rows'[k] # Nil /\ v = rows'[k].rv
  <2>1. PICK k \in Keys : rows'[k] # Nil /\ v = rows'[k].rv
    BY <1>3
  <2>2. rows'[k] # rows[k]
    BY <1>1, <2>1 DEF VisibleVersions
  <2>3. rows'[k].rv \in {tx[w].ver, issued}
    BY <1>2, <2>2, CommitRowVersion
  <2> QED
    BY <1>2, <2>1, <2>3, CommitAdvances
<1>4. CASE \E e \in events' : v = e.rv
  <2>1. PICK e \in events' : v = e.rv
    BY <1>4
  <2>2. e = NewEvent(w)
    BY <1>1, <1>2, <2>1 DEF VisibleVersions, Commit
  <2>3. v = tx[w].ver
    BY <2>1, <2>2 DEF NewEvent
  <2> QED
    BY <1>2, <2>3, CommitAdvances
<1> QED
  BY <1>1, <1>3, <1>4 DEF VisibleVersions

(* WatermarkSeparates holds of every behaviour: the transactional counter  *)
(* makes version order commit order, for any number of concurrent writers. *)
THEOREM VersionOrderIsCommitOrder == Spec => WatermarkSeparates
<1>1. Inductive /\ [Next]_vars => [WatermarkStep]_vars
  BY WatermarkStepHolds
<1> QED
  BY <1>1, Invariance, PTL DEF Spec, WatermarkSeparates

(* A commit changes one row, or appends one event, or shows nothing.       *)
LEMMA CommitChangesOne ==
  ASSUME Inductive, NEW w \in Writers, Commit(w)
  PROVE  \/ UNCHANGED <<rows, events>>
         \/ /\ events' = events
            /\ \E k \in Keys : /\ rows'[k] # rows[k]
                               /\ \A j \in Keys \ {k} : rows'[j] = rows[j]
         \/ /\ rows' = rows
            /\ tx[w].call.op = "append"
            /\ events' = events \cup {NewEvent(w)}
<1>1. rows \in [Keys -> Row \cup {Nil}] /\ tx[w].stage = "written"
  BY DEF Commit, Inductive, TypeOK
<1>2. CASE tx[w].call.op = "append"
  BY <1>2 DEF Commit
<1>3. CASE tx[w].call.op \in {"apply", "status"} /\ tx[w].pend # Nil
  <2>1. tx[w].call.key \in Keys
    BY <1>1, <1>3, PendingVersion
  <2>2. rows' = [rows EXCEPT ![tx[w].call.key] = tx[w].pend] /\ events' = events
    BY <1>3 DEF Commit
  <2> QED
    BY <1>1, <2>1, <2>2
<1>4. CASE tx[w].call.op # "append" /\ ~(tx[w].call.op \in {"apply", "status"} /\ tx[w].pend # Nil)
  BY <1>4 DEF Commit
<1> QED
  BY <1>2, <1>3, <1>4

LEMMA OneWriteHolds ==
  ASSUME Inductive, VersionNamesOneWrite, [Next]_vars
  PROVE  VersionNamesOneWrite'
<1>1. CASE UNCHANGED <<rows, events, committed>>
  BY <1>1 DEF VersionNamesOneWrite
<1>2. ASSUME NEW w \in Writers, Commit(w)
      PROVE  VersionNamesOneWrite'
  <2>1. /\ \A k \in Keys : rows[k] # Nil => rows[k].rv \in Nat /\ rows[k].rv <= committed
        /\ \A e \in events : e.rv \in Nat /\ e.rv <= committed
    BY DEF Inductive, TypeOK, Row, Event, Versions
  <2>2. /\ committed \in Nat /\ tx[w].ver \in Nat /\ issued \in Nat
        /\ committed < tx[w].ver /\ committed < issued
    BY <1>2, CommitAdvances
  <2>3. CASE UNCHANGED <<rows, events>>
    BY <2>3 DEF VersionNamesOneWrite
  <2>4. ASSUME NEW k \in Keys, events' = events, rows'[k] # rows[k],
               \A j \in Keys \ {k} : rows'[j] = rows[j]
        PROVE  VersionNamesOneWrite'
    <3>1. rows'[k].rv \in Nat /\ committed < rows'[k].rv
      BY <1>2, <2>2, <2>4, CommitRowVersion
    <3>2. \A j \in Keys \ {k} : rows'[j] # Nil => rows'[j].rv # rows'[k].rv
      BY <2>1, <2>2, <2>4, <3>1
    <3>3. \A e \in events' : e.rv # rows'[k].rv
      BY <2>1, <2>2, <2>4, <3>1
    <3> QED
      BY <2>4, <3>2, <3>3 DEF VersionNamesOneWrite
  <2>5. CASE rows' = rows /\ events' = events \cup {NewEvent(w)}
    <3>1. NewEvent(w).rv = tx[w].ver
      BY DEF NewEvent
    <3>2. \A e \in events : e.rv # NewEvent(w).rv
      BY <2>1, <2>2, <3>1
    <3>3. \A k \in Keys : rows[k] # Nil => rows[k].rv # NewEvent(w).rv
      BY <2>1, <2>2, <3>1
    <3> QED
      BY <2>5, <3>2, <3>3 DEF VersionNamesOneWrite
  <2> QED
    BY <1>2, <2>3, <2>4, <2>5, CommitChangesOne
<1> QED
  BY <1>1, <1>2, OnlyCommitShows

(* VersionNamesOneWrite holds of every behaviour: resources of all kinds   *)
(* and events of all runs can share one watch cursor.                      *)
THEOREM OneVersionSpace == Spec => []VersionNamesOneWrite
<1>1. Init => VersionNamesOneWrite
  BY DEF Init, VersionNamesOneWrite
<1>2. Inductive /\ VersionNamesOneWrite /\ [Next]_vars => VersionNamesOneWrite'
  BY OneWriteHolds
<1> QED
  BY <1>1, <1>2, Invariance, PTL DEF Spec

--------------------------------------------------------------------------------
(* The event log.                                                          *)

LEMMA LogOrderHolds ==
  ASSUME Inductive, EventLogInOrder, [Next]_vars
  PROVE  EventLogInOrder'
<1>1. CASE UNCHANGED <<rows, events, committed>>
  BY <1>1 DEF EventLogInOrder
<1>2. ASSUME NEW w \in Writers, Commit(w), events' # events
      PROVE  EventLogInOrder'
  <2> DEFINE run == tx[w].call.run
             new == NewEvent(w)
  <2>1. tx[w].call.op = "append" /\ events' = events \cup {new}
    BY <1>2, CommitChangesOne
  <2>2. /\ run \in Runs /\ new.run = run /\ new.seq = tx[w].top + 1 /\ new.rv = tx[w].ver
        /\ tx[w].top \in Nat /\ SeqsOf(run) = 1 .. tx[w].top
    <3>1. tx[w].stage = "written" /\ run \in Runs
      BY <1>2, <2>1 DEF Commit, Inductive, WellFormed, Calls
    <3>2. tx[w].top = TopSeq(run) /\ SeqsOf(run) = 1 .. TopSeq(run)
      BY <2>1, <3>1 DEF Inductive, Log
    <3>3. tx[w].top \in Nat
      BY DEF Inductive, TypeOK, Transactions
    <3> QED
      BY <3>1, <3>2, <3>3 DEF NewEvent
  <2>3. \A e \in events : e.run = run => e.seq \in 1 .. tx[w].top
    BY <2>2 DEF SeqsOf
  <2>4. \A n \in 1 .. tx[w].top : \E e \in events : e.run = run /\ e.seq = n
    BY <2>2 DEF SeqsOf
  <2>5. \A e \in events : e.rv < new.rv
    BY <1>2, <2>2, CommitAdvances DEF Inductive, TypeOK, Event, Versions
  <2> HIDE DEF new, run
  <2>6. new.seq = 1 \/ \E d \in events : d.run = new.run /\ d.seq = new.seq - 1
    BY <2>2, <2>4
  <2>7. \A e \in events : e.run = new.run => e.seq # new.seq /\ e.seq < new.seq
    BY <2>2, <2>3
  <2>8. \A e \in events : e.run = new.run => ~(new.seq < e.seq)
    BY <2>2, <2>3
  <2>9. \A e \in events' : e.seq = 1 \/ \E d \in events' : d.run = e.run /\ d.seq = e.seq - 1
    <3>1. \A e \in events : e.seq = 1 \/ \E d \in events : d.run = e.run /\ d.seq = e.seq - 1
      BY DEF EventLogInOrder
    <3>2. \A d \in events : d \in events'
      BY <2>1
    <3>3. \A e \in events' : e \in events \/ e = new
      BY <2>1
    <3>4. SUFFICES ASSUME NEW e \in events', e.seq # 1
                   PROVE  \E d \in events' : d.run = e.run /\ d.seq = e.seq - 1
      OBVIOUS
    <3>5. CASE e \in events
      BY <3>1, <3>2, <3>4, <3>5
    <3>6. CASE e = new
      BY <2>6, <3>2, <3>4, <3>6
    <3> QED
      BY <3>3, <3>5, <3>6
  <2>10. ASSUME NEW d \in events', NEW e \in events', d.run = e.run
         PROVE  (d.seq = e.seq => d = e) /\ (d.seq < e.seq => d.rv < e.rv)
    <3>1. (d \in events \/ d = new) /\ (e \in events \/ e = new)
      BY <2>1
    <3>2. CASE d \in events /\ e \in events
      BY <2>10, <3>2 DEF EventLogInOrder
    <3>3. CASE d \in events /\ e = new
      BY <2>5, <2>7, <2>10, <3>3
    <3>4. CASE d = new /\ e \in events
      BY <2>7, <2>8, <2>10, <3>4
    <3>5. CASE d = new /\ e = new
      BY <2>2, <3>5
    <3> QED
      BY <3>1, <3>2, <3>3, <3>4, <3>5
  <2> QED
    BY <2>9, <2>10 DEF EventLogInOrder
<1>3. CASE events' = events
  BY <1>3 DEF EventLogInOrder
<1> QED
  BY <1>1, <1>2, <1>3, OnlyCommitShows

(* EventLogInOrder holds of every behaviour: a run's log has no gap, no    *)
(* duplicate, and one order for both kinds of cursor.                      *)
THEOREM EventLogsAreOrdered == Spec => []EventLogInOrder
<1>1. Init => EventLogInOrder
  BY DEF Init, EventLogInOrder
<1>2. Inductive /\ EventLogInOrder /\ [Next]_vars => EventLogInOrder'
  BY LogOrderHolds
<1> QED
  BY <1>1, <1>2, Invariance, PTL DEF Spec

(* The seq an appender has computed is not in the log.                     *)
LEMMA SeqIsFree ==
  ASSUME Inductive, NEW w \in Writers, tx[w].stage = "allocated", tx[w].call.op = "append"
  PROVE  tx[w].top + 1 \notin SeqsOf(tx[w].call.run)
<1>1. tx[w].call.run \in Runs
  BY DEF Inductive, WellFormed, Calls
<1>2. tx[w].top = TopSeq(tx[w].call.run) /\ tx[w].top \in Nat
  BY DEF Inductive, Log, TypeOK, Transactions
<1>3. SeqsOf(tx[w].call.run) = 1 .. tx[w].top
  BY <1>1, <1>2 DEF Inductive, Log
<1> QED
  BY <1>2, <1>3

(* What an appender that wrote its event answers; with it the property is  *)
(* inductive.                                                              *)
AppendOutcomes(t) ==
  t.call.op = "append" =>
    /\ t.stage = "done" => t.outcome # "internal"
    /\ t.stage = "written" => t.outcome = "ok"

LEMMA EndedFields ==
  ASSUME NEW c, NEW o
  PROVE  Ended(c, o).stage = "done" /\ Ended(c, o).call = c /\ Ended(c, o).outcome = o
BY DEF Ended, Started

LEMMA AppendOutcomeKept ==
  ASSUME Inductive, NEW w \in Writers, AppendOutcomes(tx[w]),
         Begin(w) \/ LockRun(w) \/ Allocate(w) \/ Step(w) \/ Abort(w)
  PROVE  AppendOutcomes(tx'[w])
<1>1. tx \in [Writers -> Transactions]
  BY DEF Inductive, TypeOK
<1>2. CASE Begin(w)
  <2> DEFINE new == tx'[w]
  <2>1. CASE BeginApply(w)
    <3>1. new.stage = "queued"
      BY <1>1, <2>1 DEF BeginApply, Started
    <3> QED
      BY <3>1 DEF AppendOutcomes
  <2>2. CASE BeginApplyImmutable(w)
    <3>1. PICK k \in ImmutableKeys, s \in Specs, m \in Metas :
            LET call == [op |-> "apply", key |-> k, spec |-> s, meta |-> m, ifRV |-> Nil] IN
            new = Started("queued", call, Nil) \/ new = Ended(call, "ok") \/ new = Ended(call, "immutable")
      BY <1>1, <2>2 DEF BeginApplyImmutable
    <3>2. new.call.op = "apply"
      BY <3>1 DEF Started, Ended
    <3> QED
      BY <3>2 DEF AppendOutcomes
  <2>3. CASE BeginApplyStatus(w)
    <3>1. PICK k \in Keys, st \in Statuses :
            LET call == [op |-> "status", key |-> k, status |-> st] IN
            new = Started("queued", call, rows[k]) \/ new = Ended(call, "notFound")
      BY <1>1, <2>3 DEF BeginApplyStatus
    <3>2. new.call.op = "status"
      BY <3>1 DEF Started, Ended
    <3> QED
      BY <3>2 DEF AppendOutcomes
  <2>4. CASE BeginAppend(w)
    <3>1. new.stage = "lock"
      BY <1>1, <2>4 DEF BeginAppend, Started
    <3> QED
      BY <3>1 DEF AppendOutcomes
  <2> QED
    BY <1>2, <2>1, <2>2, <2>3, <2>4 DEF Begin
<1>3. CASE LockRun(w)
  BY <1>1, <1>3 DEF LockRun, AppendOutcomes, Transactions
<1>4. CASE Allocate(w)
  BY <1>1, <1>4 DEF Allocate, AppendOutcomes, Transactions
<1>5. CASE StartInsert(w)
  BY <1>1, <1>5 DEF StartInsert, AppendOutcomes, Transactions
<1>6. CASE WriteApply(w) \/ WriteImmutable(w) \/ WriteStatus(w)
  <2>1. tx[w].call.op # "append"
    BY <1>6 DEF WriteApply, WriteImmutable, WriteStatus
  <2>2. tx'[w].call = tx[w].call
    BY <1>1, <1>6, EndedFields DEF WriteApply, WriteImmutable, WriteStatus, Wrote, Fails, Transactions
  <2> QED
    BY <2>1, <2>2 DEF AppendOutcomes
<1>7. CASE WriteEvent(w)
  <2>1. \E row : Wrote(w, row, "ok")
    BY <1>7, SeqIsFree DEF WriteEvent
  <2>2. tx'[w].stage = "written" /\ tx'[w].outcome = "ok"
    BY <1>1, <2>1 DEF Wrote, Transactions
  <2> QED
    BY <2>2 DEF AppendOutcomes
<1>8. CASE Commit(w)
  <2>1. tx'[w] = Ended(tx[w].call, tx[w].outcome) /\ tx[w].stage = "written"
    BY <1>1, <1>8 DEF Commit
  <2> QED
    BY <2>1, EndedFields DEF AppendOutcomes
<1>9. CASE Return(w)
  BY <1>1, <1>9 DEF Return, Idle, Started, AppendOutcomes
<1>10. CASE Abort(w)
  <2>1. tx'[w] = Ended(tx[w].call, "aborted")
    BY <1>1, <1>10 DEF Abort
  <2> QED
    BY <2>1, EndedFields DEF AppendOutcomes
<1> QED
  BY <1>2, <1>3, <1>4, <1>5, <1>6, <1>7, <1>8, <1>9, <1>10 DEF Step, Write

LEMMA OthersKeepTheirCalls ==
  ASSUME Inductive, NEW w \in Writers, NEW v \in Writers \ {w},
         Begin(w) \/ LockRun(w) \/ Allocate(w) \/ Step(w) \/ Abort(w)
  PROVE  tx'[v] = tx[v]
<1>1. tx \in [Writers -> Transactions]
  BY DEF Inductive, TypeOK
<1> QED
  BY <1>1 DEF Begin, BeginApply, BeginApplyImmutable, BeginApplyStatus, BeginAppend,
     LockRun, Allocate, Step, StartInsert, Write, WriteApply, WriteImmutable, WriteStatus,
     WriteEvent, Commit, Return, Abort, Wrote, Fails

(* AppendNeverRejected holds of every behaviour: the advisory lock makes   *)
(* the seq read from the snapshot the next one when the event is written.  *)
THEOREM NoAppendIsLost == Spec => []AppendNeverRejected
<1> DEFINE Outcome == \A w \in Writers : AppendOutcomes(tx[w])
<1>1. Init => Outcome
  BY DEF Init, Idle, Started, AppendOutcomes
<1>2. Inductive /\ Outcome /\ [Next]_vars => Outcome'
  <2> SUFFICES ASSUME Inductive, Outcome, [Next]_vars
               PROVE  Outcome'
    OBVIOUS
  <2>1. CASE UNCHANGED vars
    BY <2>1 DEF vars
  <2>2. ASSUME NEW w \in Writers,
               Begin(w) \/ LockRun(w) \/ Allocate(w) \/ Step(w) \/ Abort(w)
        PROVE  Outcome'
    <3>1. AppendOutcomes(tx'[w])
      BY <2>2, AppendOutcomeKept
    <3>2. \A v \in Writers \ {w} : tx'[v] = tx[v]
      BY <2>2, OthersKeepTheirCalls
    <3>3. \A v \in Writers : AppendOutcomes(tx'[v])
      BY <3>1, <3>2
    <3> QED
      BY <3>3
  <2> QED
    BY <2>1, <2>2 DEF Next
<1>3. Inductive /\ Outcome => AppendNeverRejected
  BY DEF AppendNeverRejected, AppendOutcomes
<1> QED
  BY <1>1, <1>2, <1>3, Invariance, PTL DEF Spec

--------------------------------------------------------------------------------
(* Refinement: the write path implements ResourceContract.                 *)

(* A transaction that takes one version only has the newest one: what it   *)
(* commits is at the watermark its commit reports.                         *)
OwnVersion ==
  \A w \in Writers :
    /\ tx[w].stage = "allocated" => tx[w].ver = issued
    /\ tx[w].stage = "written" /\ tx[w].call.op = "append" => tx[w].ver = issued
    /\ tx[w].stage = "written" /\ tx[w].call.op = "apply" /\ rows[tx[w].call.key] = Nil
         => tx[w].ver = issued

(* A transaction that leaves both stages, while no row and no version of   *)
(* another one's moves.                                                    *)
LEMMA OwnVersionFrame ==
  ASSUME TypeOK, OwnVersion, NEW w \in Writers, NEW t \in Transactions,
         tx' = [tx EXCEPT ![w] = t], t.stage \notin {"allocated", "written"},
         UNCHANGED <<rows, issued>>
  PROVE  OwnVersion'
BY OneMoves DEF OwnVersion

(* The holder of the counter moves: nobody else has a version.             *)
LEMMA OwnVersionOfHolder ==
  ASSUME TypeOK, Exclusive, NEW w \in Writers, NEW t \in Transactions,
         HoldsCounter(w) \/ CounterFree(w),
         tx' = [tx EXCEPT ![w] = t],
         /\ t.stage = "allocated" => t.ver = issued'
         /\ t.stage = "written" /\ t.call.op = "append" => t.ver = issued'
         /\ t.stage = "written" /\ t.call.op = "apply" /\ rows'[t.call.key] = Nil
              => t.ver = issued'
  PROVE  OwnVersion'
<1>1. tx'[w] = t /\ \A v \in Writers \ {w} : tx'[v] = tx[v]
  BY OneMoves
<1>2. \A v \in Writers \ {w} : tx[v].stage \notin {"allocated", "written"}
  BY DEF Exclusive, HoldsCounter, CounterFree
<1> QED
  BY <1>1, <1>2 DEF OwnVersion

(* Every step keeps OwnVersion: the version moves with its holder only.    *)
LEMMA OwnVersionKept ==
  ASSUME Inductive, Inductive', OwnVersion, [Next]_vars
  PROVE  OwnVersion'
<1>1. /\ TypeOK /\ Exclusive /\ tx \in [Writers -> Transactions]
      /\ tx' \in [Writers -> Transactions]
  BY DEF Inductive, TypeOK
<1>2. CASE UNCHANGED vars
  BY <1>2 DEF OwnVersion, vars
<1>3. ASSUME NEW w \in Writers, Begin(w) \/ LockRun(w) \/ StartInsert(w) \/ Return(w)
      PROVE  OwnVersion'
  <2>1. UNCHANGED <<rows, issued>>
    BY <1>3 DEF Begin, BeginApply, BeginApplyImmutable, BeginApplyStatus, BeginAppend, LockRun,
       StartInsert, Return
  <2>2. tx' = [tx EXCEPT ![w] = tx'[w]] /\ tx'[w] \in Transactions
    BY <1>1, <1>3 DEF Begin, BeginApply, BeginApplyImmutable, BeginApplyStatus, BeginAppend,
       LockRun, StartInsert, Return
  <2>3. tx'[w].stage \notin {"allocated", "written"}
    <3>1. CASE BeginApply(w) \/ BeginAppend(w)
      BY <1>1, <3>1 DEF BeginApply, BeginAppend, Started
    <3>2. CASE BeginApplyImmutable(w)
      BY <1>1, <3>2 DEF BeginApplyImmutable, Started, Ended
    <3>3. CASE BeginApplyStatus(w)
      BY <1>1, <3>3 DEF BeginApplyStatus, Started, Ended
    <3>4. CASE LockRun(w) \/ StartInsert(w) \/ Return(w)
      BY <1>1, <3>4 DEF LockRun, StartInsert, Return, Idle, Started, Transactions
    <3> QED
      BY <1>3, <3>1, <3>2, <3>3, <3>4 DEF Begin
  <2> QED
    BY <1>1, <2>1, <2>2, <2>3, OwnVersionFrame
<1>4. ASSUME NEW w \in Writers, Allocate(w)
      PROVE  OwnVersion'
  <2>1. /\ CounterFree(w) /\ issued' = issued + 1
        /\ tx' = [tx EXCEPT ![w].stage = "allocated", ![w].ver = issued + 1]
    BY <1>4 DEF Allocate
  <2>2. /\ tx' = [tx EXCEPT ![w] = tx'[w]] /\ tx'[w] \in Transactions
        /\ tx'[w].stage = "allocated" /\ tx'[w].ver = issued'
    BY <1>1, <2>1 DEF Transactions
  <2> QED
    BY <1>1, <2>1, <2>2, OwnVersionOfHolder
<1>5. ASSUME NEW w \in Writers, Write(w)
      PROVE  OwnVersion'
  <2> DEFINE c == tx[w].call
  <2>1. /\ tx[w].stage = "allocated" /\ rows' = rows /\ HoldsCounter(w) /\ tx[w].ver = issued
    BY <1>5 DEF Write, WriteApply, WriteImmutable, WriteStatus, WriteEvent, HoldsCounter,
       OwnVersion
  <2>2. ASSUME NEW row, NEW outcome, Wrote(w, row, outcome),
               c.op = "append" => issued' = issued,
               c.op = "apply" /\ rows[c.key] = Nil => issued' = issued
        PROVE  OwnVersion'
    <3>1. /\ tx' = [tx EXCEPT ![w] = tx'[w]] /\ tx'[w] \in Transactions
          /\ tx'[w].stage = "written" /\ tx'[w].call = c /\ tx'[w].ver = tx[w].ver
      BY <1>1, <2>2 DEF Wrote, Transactions
    <3> QED
      BY <1>1, <2>1, <2>2, <3>1, OwnVersionOfHolder
  <2>3. ASSUME Fails(w)
        PROVE  OwnVersion'
    <3>1. /\ tx' = [tx EXCEPT ![w] = tx'[w]] /\ tx'[w] \in Transactions
          /\ tx'[w].stage = "done"
      BY <1>1, <2>3 DEF Fails, Ended, Started
    <3> QED
      BY <1>1, <2>1, <3>1, OwnVersionOfHolder
  <2>4. CASE WriteApply(w)
    BY <2>2, <2>4 DEF WriteApply
  <2>5. CASE WriteImmutable(w)
    BY <2>2, <2>3, <2>5 DEF WriteImmutable
  <2>6. CASE WriteStatus(w)
    BY <2>2, <2>6 DEF WriteStatus
  <2>7. CASE WriteEvent(w)
    BY <2>2, <2>3, <2>7 DEF WriteEvent
  <2> QED
    BY <1>5, <2>4, <2>5, <2>6, <2>7 DEF Write
<1>6. ASSUME NEW w \in Writers, Commit(w)
      PROVE  OwnVersion'
  <2>1. /\ tx' = [tx EXCEPT ![w] = tx'[w]] /\ tx'[w] \in Transactions
        /\ tx'[w].stage = "done" /\ HoldsCounter(w)
    BY <1>1, <1>6 DEF Commit, Ended, Started, HoldsCounter
  <2> QED
    BY <1>1, <2>1, OwnVersionOfHolder
<1>7. ASSUME NEW w \in Writers, Abort(w)
      PROVE  OwnVersion'
  <2>1. /\ tx' = [tx EXCEPT ![w] = tx'[w]] /\ tx'[w] \in Transactions
        /\ tx'[w].stage = "done" /\ rows' = rows
        /\ ~HoldsCounter(w) => issued' = issued
    BY <1>1, <1>7 DEF Abort, Ended, Started
  <2>2. CASE HoldsCounter(w)
    BY <1>1, <2>1, <2>2, OwnVersionOfHolder
  <2>3. CASE ~HoldsCounter(w)
    BY <1>1, <2>1, <2>3, OwnVersionFrame
  <2> QED
    BY <2>2, <2>3
<1> QED
  BY <1>2, <1>3, <1>4, <1>5, <1>6, <1>7 DEF Next, Step

(* What ResourceContract sees of the event log: the versions of a run's    *)
(* events in seq order.                                                    *)
EventVersion(r, n) == (CHOOSE e \in events : e.run = r /\ e.seq = n).rv
RunLog(r) == [n \in 1 .. TopSeq(r) |-> EventVersion(r, n)]
RunLogs == [r \in Runs |-> RunLog(r)]

(* Nothing appended: every log stays.                                      *)
LEMMA RunLogsFrame ==
  ASSUME events' = events
  PROVE  RunLogs' = RunLogs
BY DEF RunLogs, RunLog, EventVersion, TopSeq, SeqsOf

(* The event at a place of a log is the only one there.                    *)
LEMMA EventOfVersion ==
  ASSUME EventLogInOrder, NEW e \in events
  PROVE  EventVersion(e.run, e.seq) = e.rv
<1>1. \A d \in events : d.run = e.run /\ d.seq = e.seq => d = e
  BY DEF EventLogInOrder
<1>2. (CHOOSE d \in events : d.run = e.run /\ d.seq = e.seq) = e
  BY <1>1
<1> QED
  BY <1>2 DEF EventVersion

(* A log is a sequence with an event at each place.                        *)
LEMMA RunLogIsSequence ==
  ASSUME Inductive, EventLogInOrder, NEW r \in Runs
  PROVE  /\ \A n \in 1 .. TopSeq(r) : \E e \in events : e.run = r /\ e.seq = n
         /\ RunLog(r) \in Seq(Nat) /\ Len(RunLog(r)) = TopSeq(r)
<1>1. TopSeq(r) \in Nat /\ SeqsOf(r) = 1 .. TopSeq(r)
  BY DEF Inductive, Log
<1>2. \A n \in 1 .. TopSeq(r) : \E e \in events : e.run = r /\ e.seq = n
  BY <1>1 DEF SeqsOf
<1>3. \A n \in 1 .. TopSeq(r) : EventVersion(r, n) \in Nat
  BY <1>2, EventOfVersion DEF Inductive, TypeOK, Event
<1> QED
  BY <1>1, <1>2, <1>3 DEF RunLog

(* An Append that commits puts its version at the end of its run's log.    *)
LEMMA RunLogsGrow ==
  ASSUME Inductive, Inductive', EventLogInOrder, EventLogInOrder', OwnVersion,
         NEW w \in Writers, Commit(w), tx[w].call.op = "append",
         NEW run, run = tx[w].call.run
  PROVE  run \in Runs /\ RunLogs' = [RunLogs EXCEPT ![run] = Append(RunLogs[run], committed')]
<1>1. PICK top, new : top = TopSeq(run) /\ new = NewEvent(w)
  OBVIOUS
<1>2. /\ run \in Runs /\ TopSeq(run)' = top + 1
      /\ \A r \in Runs \ {run} : TopSeq(r)' = TopSeq(r)
      /\ tx[w].top = top
  BY <1>1, LogGrows
<1>3. top \in Nat
  BY <1>1, <1>2 DEF Inductive, Log
<1>4. events' = events \cup {new} /\ new.run = run /\ new.seq = top + 1 /\ new.rv = tx[w].ver
  BY <1>1, <1>2 DEF Commit, NewEvent
<1>5. new.rv = committed'
  BY <1>4 DEF Commit, OwnVersion
<1>6. \A r \in Runs : \A n \in 1 .. TopSeq(r) : EventVersion(r, n)' = EventVersion(r, n)
  <2>1. SUFFICES ASSUME NEW r \in Runs, NEW n \in 1 .. TopSeq(r)
                 PROVE  EventVersion(r, n)' = EventVersion(r, n)
    OBVIOUS
  <2>2. PICK e \in events : e.run = r /\ e.seq = n
    BY RunLogIsSequence
  <2>3. EventVersion(r, n) = e.rv
    BY <2>2, EventOfVersion
  <2>4. \A d \in events' : d.run = r /\ d.seq = n => d = e
    BY <1>4, <2>2 DEF EventLogInOrder
  <2>5. (CHOOSE d \in events' : d.run = r /\ d.seq = n) = e
    BY <1>4, <2>2, <2>4
  <2>6. EventVersion(r, n)' = e.rv
    BY <2>5 DEF EventVersion
  <2> QED
    BY <2>3, <2>6
<1>7. EventVersion(run, top + 1)' = committed'
  <2>1. \A d \in events' : d.run = run /\ d.seq = top + 1 => d = new
    BY <1>4 DEF EventLogInOrder
  <2>2. (CHOOSE d \in events' : d.run = run /\ d.seq = top + 1) = new
    BY <1>4, <2>1
  <2> QED
    BY <1>5, <2>2 DEF EventVersion
<1>8. \A r \in Runs \ {run} : RunLog(r)' = RunLog(r)
  BY <1>2, <1>6 DEF RunLog
<1>9. RunLog(run)' = Append(RunLog(run), committed')
  <2>1. RunLog(run) \in Seq(Nat) /\ Len(RunLog(run)) = top
    BY <1>1, <1>2, RunLogIsSequence
  <2>2. RunLog(run)' = [n \in 1 .. top + 1 |-> EventVersion(run, n)']
    BY <1>2 DEF RunLog
  <2>3. \A n \in 1 .. top : EventVersion(run, n)' = RunLog(run)[n]
    BY <1>1, <1>2, <1>6 DEF RunLog
  <2>4. Append(RunLog(run), committed')
          = [n \in 1 .. top + 1 |-> IF n = top + 1 THEN committed' ELSE RunLog(run)[n]]
    BY <1>3, <2>1
  <2> QED
    BY <1>3, <1>7, <2>2, <2>3, <2>4
<1> QED
  BY <1>2, <1>8, <1>9 DEF RunLogs

(* The empty store is the contract's.                                      *)
LEMMA ContractStarts == Init => Contract!Init
<1>1. SUFFICES ASSUME Init PROVE Contract!Init
  OBVIOUS
<1>2. \A r \in Runs : TopSeq(r) = 0
  BY <1>1 DEF Init, TopSeq, SeqsOf
<1>3. RunLogs = [r \in Runs |-> <<>>]
  BY <1>2 DEF RunLogs, RunLog
<1> QED
  BY <1>1, <1>3 DEF Init, Keys, Contract!Init, Contract!Keys, RunLogs, RunLog, EventVersion

(* A row a commit changes is changed by one operation of the contract.     *)
LEMMA RowChangeIsContract ==
  ASSUME Inductive, OwnVersion, NEW w \in Writers, Commit(w), NEW k \in Keys,
         rows' = [rows EXCEPT ![k] = rows'[k]], rows'[k] # rows[k], RunLogs' = RunLogs
  PROVE  \/ Contract!Create(k)
         \/ Contract!ApplyStatus(k)
         \/ k \in MutableKeys /\ (Contract!ChangeSpec(k) \/ Contract!ChangeMeta(k))
<1>1. rows \in [Keys -> Row \cup {Nil}] /\ committed' = issued
  BY CommitAdvances DEF Inductive, TypeOK
<1>2. PICK c : c = tx[w].call /\ c \in Calls
  BY DEF Commit, Inductive, WellFormed
<1>3. UNCHANGED RunLogs
  OBVIOUS
<1>4. CASE c.op = "apply" /\ c.key = k /\ rows[k] = Nil /\ rows'[k] = NewRow(c, tx[w].ver)
  <2>1. tx[w].ver = committed'
    BY <1>1, <1>2, <1>4 DEF Commit, OwnVersion
  <2>2. c.spec \in Specs /\ c.meta \in Metas
    BY <1>2, <1>4 DEF Calls
  <2>3. rows' = [rows EXCEPT ![k] = [spec |-> c.spec, meta |-> c.meta, status |-> InitialStatus,
                                     gen |-> 1, rv |-> committed']]
    BY <1>4, <2>1 DEF NewRow
  <2> QED
    BY <1>3, <1>4, <2>2, <2>3 DEF Contract!Create, RunLogs, RunLog, EventVersion
<1>5. CASE /\ c.op = "apply" /\ c.key = k /\ k \in MutableKeys
           /\ rows[k] \in Row /\ Differs(c, rows[k])
           /\ rows'[k] = UpdatedRow(c, rows[k], issued)
  <2>1. c.spec \in Specs /\ c.meta \in Metas /\ rows[k] # Nil
    BY <1>2, <1>5, NilAssumption DEF Calls
  <2>2. CASE c.spec # rows[k].spec
    <3>1. rows' = [rows EXCEPT ![k].spec = c.spec, ![k].meta = c.meta, ![k].rv = committed',
                               ![k].gen = rows[k].gen + 1]
      BY <1>1, <1>5, <2>2, ZenonT(60) DEF UpdatedRow, Row
    <3> QED
      BY <1>3, <1>5, <2>1, <2>2, <3>1 DEF Contract!ChangeSpec, RunLogs, RunLog, EventVersion
  <2>3. CASE c.spec = rows[k].spec
    <3>1. rows' = [rows EXCEPT ![k].meta = c.meta, ![k].rv = committed']
      <4>1. rows'[k] = [rows[k] EXCEPT !.spec = rows[k].spec, !.meta = c.meta, !.rv = committed',
                                       !.gen = rows[k].gen]
        BY <1>1, <1>5, <2>3 DEF UpdatedRow
      <4>2. rows'[k] = [rows[k] EXCEPT !.meta = c.meta, !.rv = committed']
        BY <1>5, <4>1 DEF Row
      <4> QED
        BY <1>1, <4>2
    <3>2. c.meta \in Metas \ {rows[k].meta}
      BY <1>5, <2>1, <2>3 DEF Differs
    <3> QED
      BY <1>3, <1>5, <2>1, <3>1, <3>2 DEF Contract!ChangeMeta, RunLogs, RunLog, EventVersion
  <2> QED
    BY <2>2, <2>3
<1>6. CASE /\ c.op = "status" /\ c.key = k /\ rows[k] \in Row
           /\ rows'[k] = [rows[k] EXCEPT !.status = c.status, !.rv = issued]
  <2>1. c.status \in Statuses /\ rows[k] # Nil
    BY <1>2, <1>6, NilAssumption DEF Calls
  <2>2. rows' = [rows EXCEPT ![k].status = c.status, ![k].rv = committed']
    BY <1>1, <1>6 DEF Row
  <2> QED
    BY <1>3, <2>1, <2>2 DEF Contract!ApplyStatus, RunLogs, RunLog, EventVersion
<1> QED
  BY <1>2, <1>4, <1>5, <1>6, CommitRow DEF RowAtCommit

(* A commit is one operation of the contract; every other step is none.    *)
LEMMA ContractGoesOn ==
  ASSUME Inductive, Inductive', EventLogInOrder, EventLogInOrder', OwnVersion, [Next]_vars
  PROVE  [Contract!Next]_(Contract!vars)
<1>1. CASE UNCHANGED <<rows, events, committed>>
  BY <1>1, RunLogsFrame DEF Contract!vars, RunLogs, RunLog, EventVersion
<1>2. ASSUME NEW w \in Writers, Commit(w)
      PROVE  Contract!Next
  <2>1. committed' > committed
    BY <1>2, CommitAdvances
  <2>2. CASE UNCHANGED <<rows, events>>
    <3>1. RunLogs' = RunLogs
      BY <2>2, RunLogsFrame
    <3>2. Contract!Skip
      BY <2>2, <3>1 DEF Contract!Skip, RunLogs, RunLog, EventVersion
    <3> QED
      BY <2>1, <3>2 DEF Contract!Next
  <2>3. ASSUME events' = events,
               NEW k \in Keys, rows'[k] # rows[k], \A j \in Keys \ {k} : rows'[j] = rows[j]
        PROVE  Contract!Next
    <3>1. rows' = [rows EXCEPT ![k] = rows'[k]]
      BY <2>3 DEF Inductive, TypeOK
    <3>2. RunLogs' = RunLogs
      BY <2>3, RunLogsFrame
    <3> QED
      BY <1>2, <2>1, <2>3, <3>1, <3>2, RowChangeIsContract DEF Contract!Next, Contract!Keys, Keys
  <2>4. CASE rows' = rows /\ tx[w].call.op = "append"
    <3>1. PICK run : run = tx[w].call.run
      OBVIOUS
    <3>2. run \in Runs /\ RunLogs' = [RunLogs EXCEPT ![run] = Append(RunLogs[run], committed')]
      BY <1>2, <2>4, <3>1, RunLogsGrow
    <3>3. Contract!AppendEvent(run)
      BY <2>4, <3>2 DEF Contract!AppendEvent, RunLogs, RunLog, EventVersion
    <3> QED
      BY <2>1, <3>2, <3>3 DEF Contract!Next
  <2> QED
    BY <1>2, <2>2, <2>3, <2>4, CommitChangesOne
<1> QED
  BY <1>1, <1>2, OnlyCommitShows

(* Every behaviour of the write path is one of the contract: a call of     *)
(* store.ResourceStore or store.EventStore takes effect at its COMMIT, at  *)
(* one instant, with a version of its own, however calls overlap, wait for *)
(* each other or are abandoned (store.go:55-105, postgres.go:69-239,       *)
(* 302-351).                                                               *)
THEOREM StoreKeepsItsContract == Spec => ImplementsContract
<1>1. Init => OwnVersion
  BY DEF Init, OwnVersion, Idle, Started
<1>2. Inductive /\ Inductive' /\ OwnVersion /\ [Next]_vars => OwnVersion'
  BY OwnVersionKept
<1>3. Inductive /\ Inductive' /\ EventLogInOrder /\ EventLogInOrder' /\ OwnVersion /\ [Next]_vars
        => [Contract!Next]_(Contract!vars)
  BY ContractGoesOn
<1> QED
  BY <1>1, <1>2, <1>3, ContractStarts, Invariance, EventLogsAreOrdered, PTL
     DEF Spec, ImplementsContract, Contract!Spec

================================================================================
