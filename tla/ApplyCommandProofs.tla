------------------------- MODULE ApplyCommandProofs -------------------------
(***************************************************************************)
(* Proofs about ApplyCommand for every set of clients, streams, manifests  *)
(* and every size of the pool: types, the pool's connections, the truth of *)
(* what `hived apply` reports (ReportIsTrue), and that two Applies of one  *)
(* AgentVersion that both took effect had the same spec, although each     *)
(* reads and inserts in two statements with a free connection in between   *)
(* (AgentVersionsAgree).                                                   *)
(***************************************************************************)
EXTENDS ApplyCommand, FiniteSetTheorems, SequenceTheorems, TLAPS

\* What a handler works on is an object, and past validation an accepted one.
CallsAreValid ==
  \A x \in Clients :
    /\ call[x].stage \in {"arrived", "waiting", "running"} =>
         call[x].object \in Object
    /\ call[x].stage \in {"waiting", "running"} => Accepted(call[x].object)

\* A poll that holds a connection has rows to send.
PollsHaveRows ==
  \A w \in Watchers : stream[w].stage = "sending" => stream[w].pend \in 1 .. BatchRows

\* A command that is sending or waiting is at one of its documents.
CommandsAreWithin ==
  \A x \in Clients :
    /\ cmd[x].stage \in {"sending", "waiting"} => cmd[x].at \in 1 .. Len(cmd[x].docs)
    /\ cmd[x].at \in 0 .. Len(cmd[x].docs)

StoredIsValid ==
  \A k \in DOMAIN stored :
    k.kind \in Kinds /\ k.name # "" /\ (k.kind # "Colony" => k.colony # "")

CallTyped == call \in [Clients -> CallRecord] /\ CallsAreValid

StreamTyped == stream \in [Watchers -> StreamRecord] /\ PollsHaveRows

CmdTyped == cmd \in [Clients -> CmdRecord] /\ CommandsAreWithin

\* The types, with no bound on free: that bound is a matter of counting.
KeeperTyped ==
  /\ phase \in {"serving", "draining", "closing", "exited"}
  /\ free \in Nat
  /\ StoredIsValid
  /\ CallTyped
  /\ StreamTyped
  /\ landed \in [Clients -> Seq(Object)]

Typed == KeeperTyped /\ CmdTyped

-----------------------------------------------------------------------------
(* Types.                                                                  *)

\* A handler with nothing to do.
LEMMA NoCallTyped == NoCall \in CallRecord /\ NoCall.stage = "none"
  BY DEF NoCall, CallRecord

\* The initial state.
LEMMA TypedInit == Init => Typed
  <1> SUFFICES ASSUME Init PROVE Typed
    OBVIOUS
  <1> USE DEF Init, KeeperInit
  <1>1. call \in [Clients -> CallRecord] /\ CallsAreValid
    BY NoCallTyped DEF CallsAreValid
  <1>2. stream \in [Watchers -> StreamRecord] /\ PollsHaveRows
    BY StreamAssumption DEF NoStream, StreamRecord, PollsHaveRows
  <1>3. PICK given \in [Clients -> UNION {Manifests[x] : x \in Clients}] :
          /\ \A x \in Clients : given[x] \in Manifests[x]
          /\ cmd = [x \in Clients |->
               [stage |-> "reading", docs |-> given[x], at |-> 0, exit |-> Nil,
                report |-> Nil]]
    OBVIOUS
  <1>4. \A x \in Clients : given[x] \in Seq(Document)
    BY <1>3, ManifestAssumption
  <1>5. ASSUME NEW x \in Clients
        PROVE  /\ cmd[x] \in CmdRecord /\ cmd[x].stage = "reading"
               /\ cmd[x].at \in 0 .. Len(cmd[x].docs)
    <2>1. cmd[x] = [stage |-> "reading", docs |-> given[x], at |-> 0,
                    exit |-> Nil, report |-> Nil]
      BY <1>3
    <2>2. Len(given[x]) \in Nat
      BY <1>4
    <2> HIDE DEF Init, KeeperInit
    <2>3. cmd[x].at = 0 /\ cmd[x].docs = given[x] /\ cmd[x].stage = "reading"
      BY <2>1
    <2>4. cmd[x] \in CmdRecord
      BY <2>1, <1>4 DEF CmdRecord
    <2> QED
      BY <2>2, <2>3, <2>4
  <1>8. cmd \in [Clients -> CmdRecord] /\ CommandsAreWithin
    BY <1>3, <1>5 DEF CommandsAreWithin
  <1>6. landed \in [Clients -> Seq(Object)]
    OBVIOUS
  <1>7. StoredIsValid
    <2>1. DOMAIN stored = {}
      OBVIOUS
    <2> QED
      BY <2>1 DEF StoredIsValid
  <1> QED
    BY <1>1, <1>2, <1>8, <1>6, <1>7, PoolAssumption
    DEF Typed, KeeperTyped, CallTyped, StreamTyped, CmdTyped

\* A step that changes only the call of one client, to a well-formed one.
LEMMA CallStepTyped ==
  ASSUME CallTyped, NEW x \in Clients, NEW c \in CallRecord,
         call' = [call EXCEPT ![x] = c],
         c.stage \in {"arrived", "waiting", "running"} => c.object \in Object,
         c.stage \in {"waiting", "running"} => Accepted(c.object)
  PROVE  CallTyped'
  BY DEF CallTyped, CallsAreValid

\* A step that changes only the stream of one watcher, to a well-formed one.
LEMMA StreamStepTyped ==
  ASSUME StreamTyped, NEW w \in Watchers, NEW s \in StreamRecord,
         stream' = [stream EXCEPT ![w] = s],
         s.stage = "sending" => s.pend \in 1 .. BatchRows
  PROVE  StreamTyped'
  BY DEF StreamTyped, PollsHaveRows

\* A step that changes only the command of one client, to a well-formed one.
LEMMA CommandTyped ==
  ASSUME CmdTyped, NEW x \in Clients, NEW c \in CmdRecord,
         cmd' = [cmd EXCEPT ![x] = c],
         c.at \in 0 .. Len(c.docs),
         c.stage \in {"sending", "waiting"} => c.at \in 1 .. Len(c.docs)
  PROVE  CmdTyped'
  BY DEF CmdTyped, CommandsAreWithin

\* Answers.
LEMMA AnswerTyped ==
  ASSUME NEW c \in CallRecord, NEW code \in Codes
  PROVE  Answered(c, code) \in CallRecord /\ Answered(c, code).stage = "answered"
  <1>1. c.client \in {"there", "gone"}
    BY DEF CallRecord
  <1>2. Answered(c, code) \in CallRecord
    BY <1>1, NoCallTyped DEF Answered, CallRecord
  <1>3. Answered(c, code).stage = "answered"
    BY NoCallTyped DEF Answered, CallRecord
  <1> QED
    BY <1>2, <1>3

\* Every error of the store becomes one of the codes.
LEMMA CodeTyped == ASSUME NEW err PROVE Code(err) \in Codes
  BY DEF Code, Codes

\* What a step leaves alone keeps its type.
LEMMA Frames ==
  /\ call' = call /\ CallTyped => CallTyped'
  /\ stream' = stream /\ StreamTyped => StreamTyped'
  /\ cmd' = cmd /\ CmdTyped => CmdTyped'
  /\ stored' = stored /\ StoredIsValid => StoredIsValid'
  BY DEF CallTyped, CallsAreValid, StreamTyped, PollsHaveRows, CmdTyped,
         CommandsAreWithin, StoredIsValid

\* A call of a client has the type of calls.
LEMMA CallOf ==
  ASSUME CallTyped, NEW x \in Clients
  PROVE  /\ call[x] \in CallRecord
         /\ call[x].stage \in {"arrived", "waiting", "running"} =>
              call[x].object \in Object
         /\ call[x].stage \in {"waiting", "running"} => Accepted(call[x].object)
  BY DEF CallTyped, CallsAreValid

\* A call that is answered, whatever it was doing.
LEMMA AnswerStep ==
  ASSUME CallTyped, NEW x \in Clients, NEW code \in Codes,
         call' = [call EXCEPT ![x] = Answered(@, code)]
  PROVE  CallTyped'
  <1>1. call[x] \in CallRecord
    BY CallOf
  <1> DEFINE c == Answered(call[x], code)
  <1>2. c \in CallRecord /\ c.stage = "answered"
    BY <1>1, AnswerTyped
  <1>3. call' = [call EXCEPT ![x] = c]
    OBVIOUS
  <1> HIDE DEF c
  <1> QED
    BY <1>2, <1>3, CallStepTyped

\* The server accepts a request.
LEMMA ArriveTyped ==
  ASSUME CallTyped, NEW x \in Clients, NEW o \in Object, Arrive(x, o)
  PROVE  CallTyped'
  <1> DEFINE c == [NoCall EXCEPT !.stage = "arrived", !.object = o]
  <1>1. c \in CallRecord /\ c.stage = "arrived" /\ c.object = o
    BY NoCallTyped DEF CallRecord
  <1>2. call' = [call EXCEPT ![x] = c]
    BY DEF Arrive
  <1> HIDE DEF c
  <1> QED
    BY <1>1, <1>2, CallStepTyped

\* The handler validates.
LEMMA HandleTyped ==
  ASSUME CallTyped, NEW x \in Clients, Handle(x)
  PROVE  CallTyped'
  <1>1. call[x] \in CallRecord /\ call[x].stage = "arrived"
        /\ call[x].object \in Object
    BY CallOf DEF Handle
  <1>2. CASE Accepted(call[x].object)
    <2> DEFINE c == [call[x] EXCEPT !.stage = "waiting",
                                    !.left = Statements(call[x].object)]
    <2>1. Statements(call[x].object) \in 0 .. 2
      BY DEF Statements
    <2>2. c \in CallRecord /\ c.stage = "waiting" /\ c.object = call[x].object
      BY <1>1, <2>1 DEF CallRecord
    <2>3. call' = [call EXCEPT ![x] = c]
      BY <1>2 DEF Handle
    <2> HIDE DEF c
    <2> QED
      BY <1>1, <1>2, <2>2, <2>3, CallStepTyped
  <1>3. CASE ~Accepted(call[x].object)
    <2>1. call' = [call EXCEPT ![x] = Answered(@, "invalid_argument")]
      BY <1>3 DEF Handle
    <2>2. "invalid_argument" \in Codes
      BY DEF Codes
    <2> QED
      BY <2>1, <2>2, AnswerStep
  <1> QED
    BY <1>2, <1>3

\* The call gets its connection; applyImmutable goes back for a second one; the
\* client goes away. The object stays.
LEMMA SameObjectTyped ==
  ASSUME CallTyped, NEW x \in Clients, NEW c \in CallRecord,
         call' = [call EXCEPT ![x] = c],
         c.object = call[x].object,
         c.stage \in {"waiting", "running"} =>
           call[x].stage \in {"waiting", "running"},
         c.stage = "arrived" => call[x].stage = "arrived"
  PROVE  CallTyped'
  BY CallOf, CallStepTyped

\* A waiting call gets its connection.
LEMMA AcquireTyped ==
  ASSUME CallTyped, NEW x \in Clients, Acquire(x)
  PROVE  CallTyped'
  <1> DEFINE c == [call[x] EXCEPT !.stage = "running"]
  <1>1. c \in CallRecord /\ c.stage = "running" /\ c.object = call[x].object
    BY CallOf DEF CallRecord
  <1>2. call' = [call EXCEPT ![x] = c] /\ call[x].stage = "waiting"
    BY DEF Acquire
  <1> HIDE DEF c
  <1> QED
    BY <1>1, <1>2, SameObjectTyped

\* applyImmutable's Get.
LEMMA ReadImmutableTyped ==
  ASSUME CallTyped, NEW x \in Clients, ReadImmutable(x)
  PROVE  CallTyped'
  <1>1. CASE \E err : Settle(x, err)
    BY <1>1, CodeTyped, AnswerStep DEF Settle
  <1>2. CASE call' = [call EXCEPT ![x].stage = "waiting", ![x].left = 1]
    <2> DEFINE b == [call[x] EXCEPT !.stage = "waiting"]
               c == [b EXCEPT !.left = 1]
    <2>4. b \in CallRecord /\ b.stage = "waiting" /\ b.object = call[x].object
      BY CallOf DEF CallRecord
    <2>2. call' = [call EXCEPT ![x] = c]
      BY <1>2, CallOf DEF CallTyped
    <2> HIDE DEF b
    <2>1. c \in CallRecord /\ c.stage = "waiting" /\ c.object = call[x].object
      BY <2>4 DEF CallRecord
    <2> HIDE DEF c
    <2>3. call[x].stage = "running"
      BY DEF ReadImmutable
    <2> QED
      BY <2>1, <2>2, <2>3, SameObjectTyped
  <1> QED
    BY <1>1, <1>2 DEF ReadImmutable

\* The client gives up: only the mark on its request changes.
LEMMA GoneTyped ==
  ASSUME CallTyped, NEW x \in Clients,
         call' = [call EXCEPT ![x].client = "gone"]
  PROVE  CallTyped'
  <1> DEFINE c == [call[x] EXCEPT !.client = "gone"]
  <1>1. c \in CallRecord /\ c.stage = call[x].stage /\ c.object = call[x].object
    BY CallOf DEF CallRecord
  <1>2. call' = [call EXCEPT ![x] = c]
    OBVIOUS
  <1> HIDE DEF c
  <1> QED
    BY <1>1, <1>2, SameObjectTyped

\* A stream that has ended.
LEMMA EndedTyped ==
  ASSUME NEW s \in StreamRecord
  PROVE  /\ [s EXCEPT !.stage = "ended", !.pend = 0, !.buf = 0] \in StreamRecord
         /\ [s EXCEPT !.stage = "ended", !.pend = 0, !.buf = 0].stage = "ended"
  <1> DEFINE a == [s EXCEPT !.stage = "ended"]
             b == [a EXCEPT !.pend = 0]
             e == [b EXCEPT !.buf = 0]
  <1>1. 0 \in 0 .. BatchRows /\ 0 \in 0 .. ChannelCap
    BY StreamAssumption
  <1>2. a \in StreamRecord /\ a.stage = "ended"
    BY DEF StreamRecord
  <1> HIDE DEF a
  <1>3. b \in StreamRecord /\ b.stage = "ended"
    BY <1>1, <1>2 DEF StreamRecord
  <1> HIDE DEF b
  <1>4. e \in StreamRecord /\ e.stage = "ended"
    BY <1>1, <1>3 DEF StreamRecord
  <1> QED
    BY <1>4 DEF a, b

\* The process ends.
LEMMA ExitTyped ==
  ASSUME CallTyped, StreamTyped, Exit
  PROVE  CallTyped' /\ StreamTyped'
  <1>1. ASSUME NEW x \in Clients
        PROVE  /\ call'[x] \in CallRecord
               /\ call'[x].stage \notin {"arrived", "waiting", "running"}
    <2>1. CASE call[x].stage \in {"arrived", "waiting", "running"}
      <3>1. call'[x] = [NoCall EXCEPT !.stage = "lost"]
        BY <2>1 DEF Exit
      <3> QED
        BY <3>1, NoCallTyped DEF CallRecord
    <2>2. CASE call[x].stage \notin {"arrived", "waiting", "running"}
      BY <2>2, CallOf DEF Exit
    <2> QED
      BY <2>1, <2>2
  <1>2. call' = [x \in Clients |-> call'[x]]
    BY DEF Exit
  <1>3. CallTyped'
    BY <1>1, <1>2 DEF CallTyped, CallsAreValid
  <1>4. ASSUME NEW w \in Watchers
        PROVE  stream'[w] \in StreamRecord /\ stream'[w].stage = "ended"
    <2>1. stream[w] \in StreamRecord
      BY DEF StreamTyped
    <2>2. stream'[w] = [stream[w] EXCEPT !.stage = "ended", !.pend = 0, !.buf = 0]
      BY DEF Exit
    <2> QED
      BY <2>1, <2>2, EndedTyped
  <1>5. stream' = [w \in Watchers |-> stream'[w]]
    BY DEF Exit
  <1>6. StreamTyped'
    BY <1>4, <1>5 DEF StreamTyped, PollsHaveRows
  <1> QED
    BY <1>3, <1>6

-----------------------------------------------------------------------------
(* Types: what is stored.                                                  *)

\* An accepted object has a valid key.
LEMMA AcceptedKey ==
  ASSUME NEW o \in Object, Accepted(o)
  PROVE  /\ StoreKey(o).kind \in Kinds
         /\ StoreKey(o).name # ""
         /\ StoreKey(o).kind # "Colony" => StoreKey(o).colony # ""
  <1>1. o.kind \in Kinds /\ StoreKey(o).kind = o.kind
        /\ StoreKey(o).name = o.name /\ StoreKey(o).colony = o.colony
    BY DEF StoreKey, Object
  <1>2. Named(o) /\ (o.kind # "Colony" => o.colony # "")
    <2>1. CASE o.kind = "Colony"
      BY <2>1 DEF Accepted, ColonyAccepted
    <2>2. CASE o.kind = "Agent"
      BY <2>2 DEF Accepted, AgentAccepted
    <2>3. CASE o.kind = "AgentVersion"
      BY <2>3 DEF Accepted, AgentVersionAccepted
    <2>4. CASE o.kind = "Run"
      BY <2>4 DEF Accepted, RunAccepted
    <2>5. CASE o.kind = "Tool"
      BY <2>5 DEF Accepted, ToolAccepted
    <2> QED
      BY <1>1, <2>1, <2>2, <2>3, <2>4, <2>5 DEF Kinds
  <1> QED
    BY <1>1, <1>2 DEF Named

\* The statement that writes.
LEMMA WriteTyped ==
  ASSUME KeeperTyped, NEW x \in Clients, Write(x)
  PROVE  CallTyped' /\ StoredIsValid' /\ landed' \in [Clients -> Seq(Object)]
  <1> DEFINE o == call[x].object
  <1>1. o \in Object /\ Accepted(o)
    BY CallOf DEF Write, KeeperTyped
  <1>2. CallTyped'
    <2>1. \E err : Settle(x, err)
      BY DEF Write
    <2> QED
      BY <2>1, CodeTyped, AnswerStep DEF Settle, KeeperTyped
  <1>3. CASE ~Taken(o)
    <2>1. DOMAIN stored' = DOMAIN stored \cup {StoreKey(o)}
      BY <1>3 DEF Write
    <2>2. StoredIsValid'
      BY <1>1, <2>1, AcceptedKey DEF StoredIsValid, KeeperTyped
    <2>3. landed' = [landed EXCEPT ![x] = Append(@, o)]
      BY <1>3 DEF Write
    <2>4. landed' \in [Clients -> Seq(Object)]
      BY <1>1, <2>3 DEF KeeperTyped
    <2> QED
      BY <1>2, <2>2, <2>4
  <1>4. CASE Taken(o)
    BY <1>2, <1>4, Frames DEF Write, KeeperTyped
  <1> QED
    BY <1>3, <1>4

-----------------------------------------------------------------------------
(* Types: streams.                                                         *)

\* A stream of a watcher has the type of streams.
LEMMA StreamOf ==
  ASSUME StreamTyped, NEW w \in Watchers
  PROVE  /\ stream[w] \in StreamRecord
         /\ stream[w].pend \in Nat /\ stream[w].buf \in Nat
         /\ stream[w].stage = "sending" => stream[w].pend \in 1 .. BatchRows
  BY StreamAssumption DEF StreamTyped, PollsHaveRows, StreamRecord

\* A Watch is accepted.
LEMMA OpenStreamTyped ==
  ASSUME StreamTyped, NEW w \in Watchers, OpenStream(w)
  PROVE  StreamTyped'
  <1> DEFINE s == [stream[w] EXCEPT !.stage = "idle"]
  <1>1. s \in StreamRecord /\ s.stage = "idle"
    BY StreamOf DEF StreamRecord
  <1>2. stream' = [stream EXCEPT ![w] = s]
    BY DEF OpenStream
  <1> HIDE DEF s
  <1> QED
    BY <1>1, <1>2, StreamStepTyped

\* A poll finds rows.
LEMMA PollTyped ==
  ASSUME StreamTyped, NEW w \in Watchers, Poll(w)
  PROVE  StreamTyped'
  <1>1. PICK n \in 1 .. BatchRows :
          stream' = [stream EXCEPT ![w].stage = "sending", ![w].pend = n]
    BY DEF Poll
  <1> DEFINE s == [stream[w] EXCEPT !.stage = "sending", !.pend = n]
  <1>2. n \in 0 .. BatchRows
    BY StreamAssumption
  <1>3. s \in StreamRecord /\ s.pend = n
    BY <1>2, StreamOf DEF StreamRecord
  <1>4. stream' = [stream EXCEPT ![w] = s]
    BY <1>1, StreamOf DEF StreamTyped
  <1> HIDE DEF s
  <1> QED
    BY <1>1, <1>3, <1>4, StreamStepTyped

\* A row goes into the stream's channel.
LEMMA SendRowTyped ==
  ASSUME StreamTyped, NEW w \in Watchers, SendRow(w)
  PROVE  StreamTyped'
  <1> DEFINE t == stream[w]
             s == [t EXCEPT !.buf = t.buf + 1, !.pend = t.pend - 1,
                            !.stage = IF t.pend = 1 THEN "idle" ELSE t.stage]
  <1>1. t \in StreamRecord /\ t.pend \in 1 .. BatchRows /\ t.stage = "sending"
        /\ t.buf \in Nat /\ t.buf < ChannelCap
    BY StreamOf DEF SendRow, Room
  <1>2. t.buf + 1 \in 0 .. ChannelCap /\ t.pend - 1 \in 0 .. BatchRows
    BY <1>1, StreamAssumption
  <1>3. s \in StreamRecord
    BY <1>1, <1>2 DEF StreamRecord
  <1>4. s.stage = "sending" => s.pend \in 1 .. BatchRows
    BY <1>1, <1>2 DEF StreamRecord
  <1>5. stream' = [stream EXCEPT ![w] = s]
    BY DEF SendRow
  <1> HIDE DEF s
  <1> QED
    BY <1>3, <1>4, <1>5, StreamStepTyped

\* watchLoop takes an event out of the channel.
LEMMA DrainTyped ==
  ASSUME StreamTyped, NEW w \in Watchers, Drain(w)
  PROVE  StreamTyped'
  <1> DEFINE t == stream[w]
             s == [t EXCEPT !.buf = t.buf - 1]
  <1>1. t \in StreamRecord /\ t.buf \in 0 .. ChannelCap /\ t.buf > 0
    BY StreamOf DEF Drain, StreamRecord
  <1>2. t.buf - 1 \in 0 .. ChannelCap
    BY <1>1, StreamAssumption
  <1>3. s \in StreamRecord /\ s.stage = t.stage /\ s.pend = t.pend
    BY <1>1, <1>2 DEF StreamRecord
  <1>4. stream' = [stream EXCEPT ![w] = s]
    BY StreamOf DEF Drain, StreamTyped
  <1> HIDE DEF s
  <1> QED
    BY <1>3, <1>4, StreamOf, StreamStepTyped

\* The goroutine of a stream whose client is gone.
LEMMA StopTyped ==
  ASSUME StreamTyped, NEW w \in Watchers, Stop(w)
  PROVE  StreamTyped'
  <1> DEFINE s == [stream[w] EXCEPT !.stage = "ended", !.pend = 0, !.buf = 0]
  <1>1. s \in StreamRecord /\ s.stage = "ended"
    BY StreamOf, EndedTyped
  <1>2. stream' = [stream EXCEPT ![w] = s]
    BY DEF Stop
  <1> HIDE DEF s
  <1> QED
    BY <1>1, <1>2, StreamStepTyped

\* The client of a stream stalls, reads on or leaves.
LEMMA ClientTyped ==
  ASSUME StreamTyped, NEW w \in Watchers,
         NEW v \in {"reading", "stalled", "gone"},
         stream' = [stream EXCEPT ![w].client = v]
  PROVE  StreamTyped'
  <1> DEFINE s == [stream[w] EXCEPT !.client = v]
  <1>1. s \in StreamRecord /\ s.stage = stream[w].stage /\ s.pend = stream[w].pend
    BY StreamOf DEF StreamRecord
  <1>2. stream' = [stream EXCEPT ![w] = s]
    OBVIOUS
  <1> HIDE DEF s
  <1> QED
    BY <1>1, <1>2, StreamOf, StreamStepTyped

-----------------------------------------------------------------------------
(* Types: commands.                                                        *)

\* A command of a client has the type of commands.
LEMMA CommandOf ==
  ASSUME CmdTyped, NEW x \in Clients
  PROVE  /\ cmd[x] \in CmdRecord
         /\ cmd[x].docs \in Seq(Document) /\ Len(cmd[x].docs) \in Nat
         /\ cmd[x].at \in Nat
         /\ cmd[x].at \in 0 .. Len(cmd[x].docs)
         /\ cmd[x].stage \in {"sending", "waiting"} =>
              cmd[x].at \in 1 .. Len(cmd[x].docs)
  BY DEF CmdTyped, CommandsAreWithin, CmdRecord

\* The document it is at.
LEMMA CurrentOf ==
  ASSUME CmdTyped, NEW x \in Clients, cmd[x].stage \in {"sending", "waiting"}
  PROVE  Current(x) \in Document /\ Current(x).object \in Object
  <1>1. Current(x) \in Document
    BY CommandOf, ElementOfSeq DEF Current
  <1> QED
    BY <1>1 DEF Document

\* The command stops at its first failure.
LEMMA FailTyped ==
  ASSUME CmdTyped, NEW x \in Clients, Fail(x)
  PROVE  CmdTyped'
  <1> DEFINE r == ReportAfter(cmd[x])
             c == [cmd[x] EXCEPT !.stage = "done", !.exit = 1, !.report = r]
  <1>1. r \in Report \cup {Nil}
    <2>1. CASE cmd[x].at \in {0, 1}
      BY <2>1 DEF ReportAfter
    <2>2. CASE cmd[x].at \notin {0, 1}
      <3>1. cmd[x].at - 1 \in Nat /\ Len(cmd[x].docs) - cmd[x].at \in Nat
        BY <2>2, CommandOf
      <3> QED
        BY <2>2, <3>1 DEF ReportAfter, Report
    <2> QED
      BY <2>1, <2>2
  <1>2. cmd' = [cmd EXCEPT ![x] = c]
    BY DEF Fail
  <1> HIDE DEF r
  <1>3. c \in CmdRecord /\ c.stage = "done" /\ c.at = cmd[x].at
        /\ c.docs = cmd[x].docs
    BY <1>1, CommandOf DEF CmdRecord
  <1> HIDE DEF c
  <1> QED
    BY <1>2, <1>3, CommandOf, CommandTyped

\* The command reads its manifest.
LEMMA ReadTyped ==
  ASSUME CmdTyped, NEW x \in Clients, Read(x)
  PROVE  CmdTyped'
  <1>1. CASE Readable(cmd[x].docs)
           /\ cmd' = [cmd EXCEPT ![x].stage = "sending", ![x].at = 1]
    <2> DEFINE c == [cmd[x] EXCEPT !.stage = "sending", !.at = 1]
    <2>1. c \in CmdRecord /\ c.at = 1 /\ c.docs = cmd[x].docs
      BY CommandOf DEF CmdRecord
    <2>2. 1 \in 1 .. Len(cmd[x].docs)
      BY <1>1, CommandOf, EmptySeq DEF Readable
    <2>3. cmd' = [cmd EXCEPT ![x] = c]
      BY <1>1, CommandOf DEF CmdTyped
    <2> HIDE DEF c
    <2>4. c.at \in 0 .. Len(c.docs) /\ c.at \in 1 .. Len(c.docs)
      BY <2>1, <2>2, CommandOf
    <2> QED
      BY <2>1, <2>3, <2>4, CommandTyped
  <1>2. CASE Fail(x)
    BY <1>2, FailTyped
  <1> QED
    BY <1>1, <1>2 DEF Read

\* The command sends a document.
LEMMA SendTyped ==
  ASSUME CallTyped, CmdTyped, NEW x \in Clients, Send(x)
  PROVE  CmdTyped' /\ CallTyped'
  <1> DEFINE c == [cmd[x] EXCEPT !.stage = "waiting"]
  <1>1. c \in CmdRecord /\ c.at = cmd[x].at /\ c.docs = cmd[x].docs
    BY CommandOf DEF CmdRecord
  <1>2. cmd' = [cmd EXCEPT ![x] = c] /\ cmd[x].stage = "sending"
    BY DEF Send
  <1>3. Current(x).object \in Object
    BY <1>2, CurrentOf
  <1>4. CallTyped'
    BY <1>3, ArriveTyped DEF Send
  <1> HIDE DEF c
  <1> QED
    BY <1>1, <1>2, <1>4, CommandOf, CommandTyped

\* The command gets its answer.
LEMMA ReceiveTyped ==
  ASSUME CmdTyped, NEW x \in Clients, Receive(x)
  PROVE  CmdTyped'
  <1>1. CASE Fail(x)
    BY <1>1, FailTyped
  <1>2. CASE ~Fail(x)
    <2>1. cmd[x].stage = "waiting" /\ cmd[x].at \in 1 .. Len(cmd[x].docs)
      BY CommandOf DEF Receive
    <2>2. CASE cmd[x].at = Len(cmd[x].docs)
      <3> DEFINE c == [cmd[x] EXCEPT !.stage = "done", !.exit = 0]
      <3>1. c \in CmdRecord /\ c.stage = "done" /\ c.at = cmd[x].at
            /\ c.docs = cmd[x].docs
        BY CommandOf DEF CmdRecord
      <3>2. cmd' = [cmd EXCEPT ![x] = c]
        BY <1>2, <2>2 DEF Receive
      <3> HIDE DEF c
      <3> QED
        BY <3>1, <3>2, CommandOf, CommandTyped
    <2>3. CASE cmd[x].at # Len(cmd[x].docs)
      <3> DEFINE n == cmd[x].at + 1
                 c == [cmd[x] EXCEPT !.stage = "sending", !.at = n]
      <3>1. n \in Nat /\ n \in 1 .. Len(cmd[x].docs)
        BY <2>1, <2>3, CommandOf
      <3>2. cmd' = [cmd EXCEPT ![x] = c]
        BY <1>2, <2>3 DEF Receive
      <3> HIDE DEF n
      <3>3. c \in CmdRecord /\ c.at = n /\ c.docs = cmd[x].docs
        BY <3>1, CommandOf DEF CmdRecord
      <3> HIDE DEF c
      <3>4. c.at \in 0 .. Len(c.docs) /\ c.at \in 1 .. Len(c.docs)
        BY <3>1, <3>3, CommandOf
      <3> QED
        BY <3>2, <3>3, <3>4, CommandTyped
    <2> QED
      BY <2>2, <2>3
  <1> QED
    BY <1>1, <1>2

-----------------------------------------------------------------------------
(* Types: every step.                                                      *)

\* Steps of the calls.
LEMMA CallStepsTyped ==
  ASSUME KeeperTyped, NEW x \in Clients, CallStep(x) \/ Acquire(x)
  PROVE  KeeperTyped'
  <1> USE DEF KeeperTyped
  <1>1. CASE Handle(x)
    BY <1>1, HandleTyped, Frames DEF Handle
  <1>2. CASE Panic(x) \/ AcquireFails(x)
    <2>1. \E code \in Codes : call' = [call EXCEPT ![x] = Answered(@, code)]
      BY <1>2, CodeTyped DEF Panic, AcquireFails, Codes
    <2>2. CallTyped'
      BY <2>1, AnswerStep
    <2> QED
      BY <1>2, <2>2, Frames DEF Panic, AcquireFails
  <1>3. CASE ReadImmutable(x)
    <2>1. call[x].object \in Object
      BY <1>3, CallOf DEF ReadImmutable
    <2>2. landed' = landed \/ landed' = [landed EXCEPT ![x] = Append(@, call[x].object)]
      BY <1>3 DEF ReadImmutable
    <2>3. landed' \in [Clients -> Seq(Object)]
      BY <2>1, <2>2
    <2>4. free' = free + 1 /\ UNCHANGED <<phase, stored, stream>>
      BY <1>3 DEF ReadImmutable, Settle, GivenBackByGet
    <2>5. CallTyped'
      BY <1>3, ReadImmutableTyped
    <2> QED
      BY <2>3, <2>4, <2>5, Frames
  <1>4. CASE Write(x)
    <2>1. free' = free + 1 /\ UNCHANGED <<phase, stream>>
      BY <1>4 DEF Write, Settle
    <2> QED
      BY <1>4, <2>1, WriteTyped, Frames
  <1>5. CASE StatementFails(x)
    <2>1. CallTyped'
      BY <1>5, CodeTyped, AnswerStep DEF StatementFails, Settle
    <2> QED
      BY <1>5, <2>1, Frames DEF StatementFails, Settle
  <1>6. CASE Acquire(x)
    <2>1. free' \in Nat
      BY <1>6 DEF Acquire
    <2> QED
      BY <1>6, <2>1, AcquireTyped, Frames DEF Acquire
  <1> QED
    BY <1>1, <1>2, <1>3, <1>4, <1>5, <1>6 DEF CallStep

\* Steps of the streams and of their clients.
LEMMA StreamStepsTyped ==
  ASSUME KeeperTyped, NEW w \in Watchers,
         OpenStream(w) \/ StreamStep(w) \/ Stall(w) \/ ReadOn(w) \/ Leave(w)
  PROVE  KeeperTyped'
  <1> USE DEF KeeperTyped
  <1>1. CASE OpenStream(w)
    BY <1>1, OpenStreamTyped, Frames DEF OpenStream
  <1>2. CASE Poll(w)
    <2>1. free' \in Nat
      BY <1>2 DEF Poll
    <2> QED
      BY <1>2, <2>1, PollTyped, Frames DEF Poll
  <1>3. CASE SendRow(w)
    <2>1. free' \in Nat
      BY <1>3 DEF SendRow, ClosedByLastRow
    <2> QED
      BY <1>3, <2>1, SendRowTyped, Frames DEF SendRow
  <1>4. CASE Drain(w)
    BY <1>4, DrainTyped, Frames DEF Drain
  <1>5. CASE Stop(w)
    <2>1. free' \in Nat
      BY <1>5 DEF Stop, Held
    <2> QED
      BY <1>5, <2>1, StopTyped, Frames DEF Stop
  <1>6. CASE Stall(w) \/ ReadOn(w) \/ Leave(w)
    <2>1. \E v \in {"reading", "stalled", "gone"} :
            stream' = [stream EXCEPT ![w].client = v]
      BY <1>6 DEF Stall, ReadOn, Leave
    <2>2. StreamTyped'
      BY <2>1, ClientTyped
    <2> QED
      BY <1>6, <2>2, Frames DEF Stall, ReadOn, Leave
  <1> QED
    BY <1>1, <1>2, <1>3, <1>4, <1>5, <1>6 DEF StreamStep

\* The way down.
LEMMA WayDownTyped ==
  ASSUME KeeperTyped, Signal \/ ServeError \/ Drained \/ PoolCloses \/ Kill
  PROVE  KeeperTyped'
  <1> USE DEF KeeperTyped
  <1>1. CASE Signal \/ ServeError \/ Drained
    BY <1>1, Frames DEF Signal, ServeError, Drained
  <1>2. CASE Exit
    <2>1. phase' = "exited" /\ free' = PoolSize /\ UNCHANGED <<stored, landed>>
      BY <1>2 DEF Exit
    <2> QED
      BY <1>2, <2>1, ExitTyped, Frames, PoolAssumption
  <1> QED
    BY <1>1, <1>2 DEF PoolCloses, Kill

\* Every step of the Keeper.
LEMMA KeeperStepTyped == KeeperTyped /\ KeeperNext => KeeperTyped'
  BY CallStepsTyped, StreamStepsTyped, WayDownTyped DEF KeeperNext

\* Steps of a command: two of them reach into the Keeper.
LEMMA CommandStepTyped ==
  ASSUME Typed, NEW x \in Clients, CommandStep(x)
  PROVE  Typed'
  <1> USE DEF Typed
  <1>1. UNCHANGED keeperVars => KeeperTyped'
    BY Frames DEF KeeperTyped, keeperVars
  <1>2. CASE Read(x)
    BY <1>1, <1>2, ReadTyped DEF Read
  <1>3. CASE RejectDocument(x) \/ NotReached(x)
    BY <1>1, <1>3, FailTyped DEF RejectDocument, NotReached
  <1>4. CASE Send(x)
    <2>1. CmdTyped' /\ CallTyped'
      BY <1>4, SendTyped DEF KeeperTyped
    <2> QED
      BY <1>4, <2>1, Frames DEF Send, Arrive, KeeperTyped
  <1>5. CASE Receive(x)
    BY <1>1, <1>5, ReceiveTyped DEF Receive
  <1>6. CASE GiveUp(x)
    <2>1. CallTyped'
      BY <1>6, GoneTyped DEF GiveUp, KeeperTyped
    <2> QED
      BY <1>6, <2>1, FailTyped, Frames DEF GiveUp, KeeperTyped
  <1> QED
    BY <1>2, <1>3, <1>4, <1>5, <1>6 DEF CommandStep

\* Every step of the system.
LEMMA TypedStep == Typed /\ [Next]_vars => Typed'
  <1> SUFFICES ASSUME Typed, [Next]_vars PROVE Typed'
    OBVIOUS
  <1>1. CASE KeeperNext /\ UNCHANGED cmd
    BY <1>1, KeeperStepTyped, Frames DEF Typed
  <1>2. CASE \E x \in Clients : CommandStep(x)
    BY <1>2, CommandStepTyped
  <1>3. CASE UNCHANGED vars
    BY <1>3, Frames DEF vars, keeperVars, Typed, KeeperTyped
  <1> QED
    BY <1>1, <1>2, <1>3 DEF Next

-----------------------------------------------------------------------------
(* The connections of the pool. A step takes one out of it and gives it to  *)
(* one call or poll, or the other way round, or moves none; the end of the  *)
(* process returns all.                                                     *)

NoneMoves == free' = free /\ RunningCalls' = RunningCalls /\ OpenPolls' = OpenPolls

CallTakes(x) ==
  /\ x \notin RunningCalls /\ RunningCalls' = RunningCalls \cup {x}
  /\ free' = free - 1 /\ OpenPolls' = OpenPolls

CallGives(x) ==
  /\ x \in RunningCalls /\ RunningCalls' = RunningCalls \ {x}
  /\ free' = free + 1 /\ OpenPolls' = OpenPolls

PollTakes(w) ==
  /\ w \notin OpenPolls /\ OpenPolls' = OpenPolls \cup {w}
  /\ free' = free - 1 /\ RunningCalls' = RunningCalls

PollGives(w) ==
  /\ w \in OpenPolls /\ OpenPolls' = OpenPolls \ {w}
  /\ free' = free + 1 /\ RunningCalls' = RunningCalls

AllBack == free' = PoolSize /\ RunningCalls' = {} /\ OpenPolls' = {}

OneMoves ==
  \/ NoneMoves
  \/ \E x \in Clients : CallTakes(x) \/ CallGives(x)
  \/ \E w \in Watchers : PollTakes(w) \/ PollGives(w)
  \/ AllBack

\* Those who hold a connection can be counted.
LEMMA HoldersAreFinite ==
  /\ IsFiniteSet(RunningCalls) /\ Cardinality(RunningCalls) \in Nat
  /\ IsFiniteSet(OpenPolls) /\ Cardinality(OpenPolls) \in Nat
  <1>1. RunningCalls \subseteq Clients /\ OpenPolls \subseteq Watchers
    BY DEF RunningCalls, OpenPolls
  <1>2. IsFiniteSet(RunningCalls) /\ IsFiniteSet(OpenPolls)
    BY <1>1, FiniteAssumption, FS_Subset
  <1> QED
    BY <1>2, FS_CardinalityType

\* One more, one less.
LEMMA CountByOne ==
  ASSUME NEW S, IsFiniteSet(S), NEW x
  PROVE  /\ x \notin S => Cardinality(S \cup {x}) = Cardinality(S) + 1
         /\ x \in S => Cardinality(S \ {x}) = Cardinality(S) - 1
  BY FS_AddElement, FS_RemoveElement

\* Such a step keeps the sum.
LEMMA MovesKeepTheSum ==
  ASSUME free \in Nat, ConnectionsAddUp, OneMoves
  PROVE  ConnectionsAddUp'
  <1> DEFINE r == Cardinality(RunningCalls)
             p == Cardinality(OpenPolls)
  <1>1. r \in Nat /\ p \in Nat /\ free + r + p = PoolSize
    BY HoldersAreFinite DEF ConnectionsAddUp
  <1>2. CASE NoneMoves
    BY <1>2 DEF NoneMoves, ConnectionsAddUp
  <1>3. CASE \E x \in Clients : CallTakes(x)
    <2>1. free' = free - 1 /\ Cardinality(RunningCalls') = r + 1
          /\ Cardinality(OpenPolls') = p
      BY <1>3, HoldersAreFinite, CountByOne DEF CallTakes
    <2> HIDE DEF r, p
    <2>2. free' + Cardinality(RunningCalls') + Cardinality(OpenPolls') = PoolSize
      BY <1>1, <2>1
    <2> QED
      BY <2>2 DEF ConnectionsAddUp
  <1>4. CASE \E x \in Clients : CallGives(x)
    <2>1. free' = free + 1 /\ Cardinality(RunningCalls') = r - 1
          /\ Cardinality(OpenPolls') = p
      BY <1>4, HoldersAreFinite, CountByOne DEF CallGives
    <2> HIDE DEF r, p
    <2>2. free' + Cardinality(RunningCalls') + Cardinality(OpenPolls') = PoolSize
      BY <1>1, <2>1
    <2> QED
      BY <2>2 DEF ConnectionsAddUp
  <1>5. CASE \E w \in Watchers : PollTakes(w)
    <2>1. free' = free - 1 /\ Cardinality(OpenPolls') = p + 1
          /\ Cardinality(RunningCalls') = r
      BY <1>5, HoldersAreFinite, CountByOne DEF PollTakes
    <2> HIDE DEF r, p
    <2>2. free' + Cardinality(RunningCalls') + Cardinality(OpenPolls') = PoolSize
      BY <1>1, <2>1
    <2> QED
      BY <2>2 DEF ConnectionsAddUp
  <1>6. CASE \E w \in Watchers : PollGives(w)
    <2>1. free' = free + 1 /\ Cardinality(OpenPolls') = p - 1
          /\ Cardinality(RunningCalls') = r
      BY <1>6, HoldersAreFinite, CountByOne DEF PollGives
    <2> HIDE DEF r, p
    <2>2. free' + Cardinality(RunningCalls') + Cardinality(OpenPolls') = PoolSize
      BY <1>1, <2>1
    <2> QED
      BY <2>2 DEF ConnectionsAddUp
  <1>7. CASE AllBack
    BY <1>7, FS_EmptySet, PoolAssumption DEF AllBack, ConnectionsAddUp
  <1> QED
    BY <1>2, <1>3, <1>4, <1>5, <1>6, <1>7 DEF OneMoves

\* Who runs after a step of one call.
LEMMA RunningAfter ==
  ASSUME CallTyped, NEW x \in Clients, NEW c,
         call' = [call EXCEPT ![x] = c]
  PROVE  RunningCalls' =
           IF c.stage = "running" THEN RunningCalls \cup {x} ELSE RunningCalls \ {x}
  BY DEF CallTyped, RunningCalls

\* Who polls after a step of one stream.
LEMMA PollingAfter ==
  ASSUME StreamTyped, NEW w \in Watchers, NEW s,
         stream' = [stream EXCEPT ![w] = s]
  PROVE  OpenPolls' =
           IF s.stage = "sending" THEN OpenPolls \cup {w} ELSE OpenPolls \ {w}
  BY DEF StreamTyped, OpenPolls

\* What neither calls nor streams show moves no connection.
LEMMA HoldersStay ==
  /\ call' = call => RunningCalls' = RunningCalls
  /\ stream' = stream => OpenPolls' = OpenPolls
  BY DEF RunningCalls, OpenPolls

\* Whoever is answered does not run.
LEMMA AnsweredDoesNotRun ==
  ASSUME CallTyped, NEW x \in Clients, NEW code \in Codes,
         call' = [call EXCEPT ![x] = Answered(@, code)]
  PROVE  RunningCalls' = RunningCalls \ {x}
  <1> DEFINE c == Answered(call[x], code)
  <1>1. c.stage = "answered" /\ call' = [call EXCEPT ![x] = c]
    BY CallOf, AnswerTyped
  <1> HIDE DEF c
  <1> QED
    BY <1>1, RunningAfter

\* The end of a running call gives its connection back.
LEMMA SettleGives ==
  ASSUME CallTyped, NEW x \in Clients, call[x].stage = "running",
         NEW err, Settle(x, err)
  PROVE  CallGives(x)
  <1>1. RunningCalls' = RunningCalls \ {x}
    BY CodeTyped, AnsweredDoesNotRun DEF Settle
  <1> QED
    BY <1>1, HoldersStay DEF Settle, CallGives, RunningCalls

\* Steps of the calls.
LEMMA CallStepsMoveOne ==
  ASSUME CallTyped, NEW x \in Clients, CallStep(x) \/ Acquire(x)
  PROVE  OneMoves
  <1>1. CASE Handle(x)
    <2>1. x \notin RunningCalls /\ UNCHANGED <<free, stream>>
      BY <1>1 DEF Handle, RunningCalls
    <2>2. RunningCalls' = RunningCalls \ {x}
      <3> DEFINE c == call[x]
                 d == [c EXCEPT !.stage = "waiting", !.left = Statements(c.object)]
      <3>1. CASE Accepted(c.object)
        <4>1. d.stage = "waiting"
          BY CallOf DEF CallRecord
        <4>2. call' = [call EXCEPT ![x] = d]
          BY <1>1, <3>1 DEF Handle
        <4> HIDE DEF d
        <4> QED
          BY <4>1, <4>2, RunningAfter
      <3>2. CASE ~Accepted(c.object)
        BY <1>1, <3>2, AnsweredDoesNotRun DEF Handle, Codes
      <3> QED
        BY <3>1, <3>2
    <2> QED
      BY <2>1, <2>2, HoldersStay DEF OneMoves, NoneMoves
  <1>2. CASE Panic(x) \/ AcquireFails(x)
    <2>1. \E code \in Codes : call' = [call EXCEPT ![x] = Answered(@, code)]
      BY <1>2, CodeTyped DEF Panic, AcquireFails, Codes
    <2>2. RunningCalls' = RunningCalls \ {x}
      BY <2>1, AnsweredDoesNotRun
    <2>3. x \notin RunningCalls /\ UNCHANGED <<free, stream>>
      BY <1>2 DEF Panic, AcquireFails, RunningCalls
    <2> QED
      BY <2>2, <2>3, HoldersStay DEF OneMoves, NoneMoves
  <1>3. CASE Acquire(x)
    <2> DEFINE c == [call[x] EXCEPT !.stage = "running"]
    <2>1. c.stage = "running"
      BY CallOf DEF CallRecord
    <2>2. call' = [call EXCEPT ![x] = c]
      BY <1>3 DEF Acquire
    <2> HIDE DEF c
    <2>3. RunningCalls' = RunningCalls \cup {x}
      BY <2>1, <2>2, RunningAfter
    <2>4. x \notin RunningCalls /\ free' = free - 1 /\ stream' = stream
      BY <1>3 DEF Acquire, RunningCalls
    <2> QED
      BY <2>3, <2>4, HoldersStay DEF OneMoves, CallTakes
  <1>4. CASE \E err : call[x].stage = "running" /\ Settle(x, err)
    BY <1>4, SettleGives DEF OneMoves
  <1>5. CASE /\ call[x].stage = "running"
             /\ free' = free + 1
             /\ call' = [call EXCEPT ![x].stage = "waiting", ![x].left = 1]
             /\ stream' = stream
    <2> DEFINE b == [call[x] EXCEPT !.stage = "waiting"]
               c == [b EXCEPT !.left = 1]
    <2>1. b \in CallRecord /\ b.stage = "waiting"
      BY CallOf DEF CallRecord
    <2>2. call' = [call EXCEPT ![x] = c]
      BY <1>5, CallOf DEF CallTyped
    <2> HIDE DEF b
    <2>3. c.stage = "waiting"
      BY <2>1 DEF CallRecord
    <2> HIDE DEF c
    <2>4. RunningCalls' = RunningCalls \ {x}
      BY <2>2, <2>3, RunningAfter
    <2>5. x \in RunningCalls
      BY <1>5 DEF RunningCalls
    <2> QED
      BY <1>5, <2>4, <2>5, HoldersStay DEF OneMoves, CallGives
  <1>6. CASE ReadImmutable(x)
    BY <1>4, <1>5, <1>6 DEF ReadImmutable, GivenBackByGet
  <1>7. CASE Write(x) \/ StatementFails(x)
    BY <1>4, <1>7 DEF Write, StatementFails
  <1> QED
    BY <1>1, <1>2, <1>3, <1>6, <1>7 DEF CallStep

\* Steps of the streams and of their clients.
LEMMA StreamStepsMoveOne ==
  ASSUME StreamTyped, free \in Nat, NEW w \in Watchers,
         OpenStream(w) \/ StreamStep(w) \/ Stall(w) \/ ReadOn(w) \/ Leave(w)
  PROVE  OneMoves
  <1>1. CASE OpenStream(w)
    <2> DEFINE s == [stream[w] EXCEPT !.stage = "idle"]
    <2>1. s.stage = "idle" /\ stream' = [stream EXCEPT ![w] = s]
      BY <1>1, StreamOf DEF OpenStream, StreamRecord
    <2> HIDE DEF s
    <2>2. w \notin OpenPolls /\ UNCHANGED <<free, call>>
      BY <1>1 DEF OpenStream, OpenPolls
    <2> QED
      BY <2>1, <2>2, PollingAfter, HoldersStay DEF OneMoves, NoneMoves
  <1>2. CASE Poll(w)
    <2>1. PICK n \in 1 .. BatchRows :
            stream' = [stream EXCEPT ![w].stage = "sending", ![w].pend = n]
      BY <1>2 DEF Poll
    <2> DEFINE r == [stream[w] EXCEPT !.stage = "sending"]
               s == [r EXCEPT !.pend = n]
    <2>2. r \in StreamRecord /\ r.stage = "sending"
      BY StreamOf DEF StreamRecord
    <2>3. stream' = [stream EXCEPT ![w] = s]
      BY <2>1, StreamOf DEF StreamTyped
    <2> HIDE DEF r
    <2>4. s.stage = "sending"
      BY <2>2 DEF StreamRecord
    <2> HIDE DEF s
    <2>5. w \notin OpenPolls /\ free' = free - 1 /\ call' = call
      BY <1>2 DEF Poll, OpenPolls
    <2> QED
      BY <2>3, <2>4, <2>5, PollingAfter, HoldersStay DEF OneMoves, PollTakes
  <1>3. CASE SendRow(w)
    <2> DEFINE t == stream[w]
               s == [t EXCEPT !.buf = t.buf + 1, !.pend = t.pend - 1,
                              !.stage = IF t.pend = 1 THEN "idle" ELSE t.stage]
    <2>1. t \in StreamRecord /\ t.stage = "sending" /\ w \in OpenPolls
      BY <1>3, StreamOf DEF SendRow, OpenPolls
    <2>2. s.stage = IF t.pend = 1 THEN "idle" ELSE "sending"
      BY <2>1 DEF StreamRecord
    <2>3. /\ stream' = [stream EXCEPT ![w] = s]
          /\ free' = free + ClosedByLastRow(t)
          /\ call' = call
      BY <1>3 DEF SendRow
    <2> HIDE DEF s
    <2>4. CASE t.pend = 1
      <3>1. OpenPolls' = OpenPolls \ {w} /\ free' = free + 1
        BY <2>2, <2>3, <2>4, PollingAfter DEF ClosedByLastRow
      <3> QED
        BY <2>1, <2>3, <3>1, HoldersStay DEF OneMoves, PollGives
    <2>5. CASE t.pend # 1
      <3>1. OpenPolls' = OpenPolls
        BY <2>1, <2>2, <2>3, <2>5, PollingAfter
      <3>2. free' = free + 0
        BY <2>3, <2>5 DEF ClosedByLastRow
      <3> QED
        BY <2>3, <3>1, <3>2, HoldersStay DEF OneMoves, NoneMoves
    <2> QED
      BY <2>4, <2>5
  <1>4. CASE Drain(w) \/ Stall(w) \/ ReadOn(w) \/ Leave(w)
    <2>1. stream' \in [Watchers -> StreamRecord]
      BY <1>4, DrainTyped, ClientTyped DEF StreamTyped, Drain, Stall, ReadOn, Leave
    <2>2. \A v \in Watchers : stream'[v].stage = stream[v].stage
      BY <1>4, StreamOf DEF Drain, Stall, ReadOn, Leave, StreamTyped, StreamRecord
    <2>3. OpenPolls' = OpenPolls /\ UNCHANGED <<free, call>>
      BY <1>4, <2>2 DEF OpenPolls, Drain, Stall, ReadOn, Leave
    <2> QED
      BY <2>3, HoldersStay DEF OneMoves, NoneMoves
  <1>5. CASE Stop(w)
    <2> DEFINE s == [stream[w] EXCEPT !.stage = "ended", !.pend = 0, !.buf = 0]
    <2>1. s.stage = "ended" /\ stream' = [stream EXCEPT ![w] = s]
      BY <1>5, StreamOf, EndedTyped DEF Stop
    <2> HIDE DEF s
    <2>2. OpenPolls' = OpenPolls \ {w} /\ call' = call
      BY <1>5, <2>1, PollingAfter DEF Stop
    <2>3. free' = free + Held(stream[w])
      BY <1>5 DEF Stop
    <2>4. CASE stream[w].stage = "sending"
      <3>1. w \in OpenPolls /\ free' = free + 1
        BY <2>3, <2>4 DEF OpenPolls, Held
      <3> QED
        BY <2>2, <3>1, HoldersStay DEF OneMoves, PollGives
    <2>5. CASE stream[w].stage # "sending"
      <3>1. w \notin OpenPolls /\ free' = free + 0
        BY <2>3, <2>5 DEF OpenPolls, Held
      <3> QED
        BY <2>2, <3>1, HoldersStay DEF OneMoves, NoneMoves
    <2> QED
      BY <2>4, <2>5
  <1> QED
    BY <1>1, <1>2, <1>3, <1>4, <1>5 DEF StreamStep

\* The way down.
LEMMA WayDownMovesAll ==
  ASSUME CallTyped, StreamTyped,
         Signal \/ ServeError \/ Drained \/ PoolCloses \/ Kill
  PROVE  OneMoves
  <1>1. CASE Signal \/ ServeError \/ Drained
    BY <1>1, HoldersStay DEF Signal, ServeError, Drained, OneMoves, NoneMoves
  <1>2. CASE Exit
    <2>1. ASSUME NEW x \in Clients PROVE call'[x].stage # "running"
      <3>1. CASE call[x].stage \in {"arrived", "waiting", "running"}
        <4>1. call'[x] = [NoCall EXCEPT !.stage = "lost"]
          BY <1>2, <3>1 DEF Exit
        <4> QED
          BY <4>1, NoCallTyped DEF CallRecord
      <3>2. CASE call[x].stage \notin {"arrived", "waiting", "running"}
        BY <1>2, <3>2 DEF Exit
      <3> QED
        BY <3>1, <3>2
    <2>2. RunningCalls' = {}
      BY <2>1 DEF RunningCalls
    <2>3. OpenPolls' = {}
      <3> SUFFICES ASSUME NEW w \in Watchers PROVE stream'[w].stage # "sending"
        BY DEF OpenPolls
      <3>1. stream'[w] = [stream[w] EXCEPT !.stage = "ended", !.pend = 0, !.buf = 0]
        BY <1>2 DEF Exit
      <3> QED
        BY <3>1, EndedTyped, StreamOf
    <2>4. free' = PoolSize
      BY <1>2 DEF Exit
    <2> QED
      BY <2>2, <2>3, <2>4 DEF OneMoves, AllBack
  <1> QED
    BY <1>1, <1>2 DEF PoolCloses, Kill

\* Steps of a command.
LEMMA CommandStepsMoveNone ==
  ASSUME CallTyped, NEW x \in Clients, CommandStep(x)
  PROVE  OneMoves
  <1>1. UNCHANGED keeperVars => NoneMoves
    BY HoldersStay DEF keeperVars, NoneMoves
  <1>2. CASE Send(x)
    <2> DEFINE o == Current(x).object
               c == [NoCall EXCEPT !.stage = "arrived", !.object = o]
    <2>1. c.stage = "arrived"
      BY NoCallTyped DEF CallRecord
    <2>2. call' = [call EXCEPT ![x] = c] /\ UNCHANGED <<free, stream>>
          /\ x \notin RunningCalls
      BY <1>2 DEF Send, Arrive, RunningCalls
    <2> HIDE DEF c
    <2>3. RunningCalls' = RunningCalls \ {x}
      BY <2>1, <2>2, RunningAfter
    <2> QED
      BY <2>2, <2>3, HoldersStay DEF OneMoves, NoneMoves
  <1>3. CASE GiveUp(x)
    <2> DEFINE c == [call[x] EXCEPT !.client = "gone"]
    <2>1. c.stage = call[x].stage
      BY CallOf DEF CallRecord
    <2>2. call' = [call EXCEPT ![x] = c] /\ UNCHANGED <<free, stream>>
      BY <1>3 DEF GiveUp
    <2> HIDE DEF c
    <2>3. RunningCalls' = RunningCalls
      BY <2>1, <2>2, RunningAfter DEF RunningCalls
    <2> QED
      BY <2>2, <2>3, HoldersStay DEF OneMoves, NoneMoves
  <1> QED
    BY <1>1, <1>2, <1>3
    DEF CommandStep, Read, RejectDocument, NotReached, Receive, OneMoves

\* Every step of the system moves at most one connection, or returns all.
LEMMA EveryStepMovesOne == Typed /\ [Next]_vars => OneMoves
  <1> SUFFICES ASSUME Typed, [Next]_vars PROVE OneMoves
    OBVIOUS
  <1> USE DEF Typed, KeeperTyped
  <1>1. CASE KeeperNext
    BY <1>1, CallStepsMoveOne, StreamStepsMoveOne, WayDownMovesAll DEF KeeperNext
  <1>2. CASE \E x \in Clients : CommandStep(x)
    BY <1>2, CommandStepsMoveNone
  <1>3. CASE UNCHANGED vars
    BY <1>3, HoldersStay DEF vars, keeperVars, OneMoves, NoneMoves
  <1> QED
    BY <1>1, <1>2, <1>3 DEF Next

\* The pool is complete when the Keeper starts.
LEMMA PoolStartsFull == Init => ConnectionsAddUp
  <1> SUFFICES ASSUME Init PROVE ConnectionsAddUp
    OBVIOUS
  <1>1. RunningCalls = {}
    BY NoCallTyped DEF Init, KeeperInit, RunningCalls
  <1>2. OpenPolls = {}
    BY DEF Init, KeeperInit, OpenPolls, NoStream
  <1> QED
    BY <1>1, <1>2, FS_EmptySet, PoolAssumption
    DEF Init, KeeperInit, ConnectionsAddUp

\* Every connection of the pool is free or held by one running statement or
\* one open poll, for every number of clients, streams and connections.
\* pool.Close() in cmd/keeper/main.go waits for just that.
THEOREM ConnectionsConserved == Spec => []ConnectionsAddUp
  <1>1. Init => Typed /\ ConnectionsAddUp
    BY TypedInit, PoolStartsFull
  <1>2. (Typed /\ ConnectionsAddUp) /\ [Next]_vars => (Typed /\ ConnectionsAddUp)'
    BY TypedStep, EveryStepMovesOne, MovesKeepTheSum DEF Typed, KeeperTyped
  <1> QED
    BY <1>1, <1>2, PTL DEF Spec

\* The types of the Keeper and of the commands. That no more connections are
\* free than the pool has follows from their sum.
THEOREM KeeperTypesHold == Spec => []KeeperTypeOK
  <1>1. Init => Typed /\ ConnectionsAddUp
    BY TypedInit, PoolStartsFull
  <1>2. (Typed /\ ConnectionsAddUp) /\ [Next]_vars => (Typed /\ ConnectionsAddUp)'
    BY TypedStep, EveryStepMovesOne, MovesKeepTheSum DEF Typed, KeeperTyped
  <1>3. Typed /\ ConnectionsAddUp => KeeperTypeOK
    <2> SUFFICES ASSUME Typed, ConnectionsAddUp PROVE KeeperTypeOK
      OBVIOUS
    <2>1. free \in 0 .. PoolSize
      BY HoldersAreFinite, PoolAssumption DEF Typed, KeeperTyped, ConnectionsAddUp
    <2> QED
      BY <2>1
      DEF KeeperTypeOK, Typed, KeeperTyped, StoredIsValid, CallTyped, StreamTyped,
          CmdTyped
  <1> QED
    BY <1>1, <1>2, <1>3, PTL DEF Spec

--------------------------------------------------------------------------------
(* What `hived apply` reports.  The invariant follows one command, its call*)
(* and what has landed for it.  A call that may still write carries the    *)
(* current document, and the documents before it are what has landed.  Once*)
(* the call has ended the current document may have landed too; only "ok"  *)
(* tells the command so.                                                   *)

\* The call may still change the table.
Live(k) == k.stage \in {"arrived", "waiting", "running"}

\* What has landed is a beginning of the manifest.
InOrder(c, l) ==
  /\ Len(l) <= Len(c.docs)
  /\ \A i \in 1 .. Len(l) : l[i] = c.docs[i].object

\* A command that still runs, and its call.
Underway(c, k, l) ==
  /\ c.stage = "reading" => c.at = 0
  /\ c.stage = "sending" => c.at > 0 /\ Len(l) = c.at - 1
  /\ c.stage = "waiting" => c.at > 0
  /\ c.stage = "waiting" /\ k.stage = "answered" /\ k.code = "ok" => Len(l) = c.at

\* A live call belongs to a command that waits for it or has given up.
LiveIsCurrent(c, k, l) ==
  Live(k) =>
    /\ c.stage \in {"waiting", "done"}
    /\ c.exit # 0
    /\ c.at > 0
    /\ k.object = c.docs[c.at].object
    /\ Len(l) = c.at - 1

Counted(c, l) ==
  /\ c.at = 0 => Len(l) = 0
  /\ c.at > 0 => Readable(c.docs) /\ Len(l) \in {c.at - 1, c.at}

\* How it ended.
Ended(c, l) ==
  /\ c.exit = 0 => c.stage = "done" /\ Len(l) = Len(c.docs)
  /\ c.exit = 1 => c.stage = "done" /\ c.report = ReportAfter(c)

Consistent(c, k, l) ==
  /\ InOrder(c, l)
  /\ Underway(c, k, l)
  /\ LiveIsCurrent(c, k, l)
  /\ Counted(c, l)
  /\ Ended(c, l)

AllConsistent == \A x \in Clients : Consistent(cmd[x], call[x], landed[x])

-----------------------------------------------------------------------------
(* What the Keeper may do to one client's call.                            *)

\* The call goes on, with its object.
GoesOn(k, kk, l, ll) == Live(k) /\ Live(kk) /\ kk.object = k.object /\ ll = l

\* The call ends, and nothing has landed.
EndsWithout(k, kk, l, ll) ==
  /\ Live(k) /\ ~Live(kk)
  /\ ~(kk.stage = "answered" /\ kk.code = "ok")
  /\ ll = l

\* The call ends, and its object has landed.
EndsLanded(k, kk, l, ll) ==
  /\ Live(k) /\ ~Live(kk)
  /\ ll = Append(l, k.object)

CallMove(x) ==
  \/ call'[x] = call[x] /\ landed'[x] = landed[x]
  \/ GoesOn(call[x], call'[x], landed[x], landed'[x])
  \/ EndsWithout(call[x], call'[x], landed[x], landed'[x])
  \/ EndsLanded(call[x], call'[x], landed[x], landed'[x])

\* Such a move keeps the command consistent.
LEMMA MoveKeeps ==
  ASSUME NEW c \in CmdRecord, c.at \in 0 .. Len(c.docs), NEW k, NEW kk,
         NEW l \in Seq(Object), NEW ll,
         k.object \in Object,
         Consistent(c, k, l),
         \/ GoesOn(k, kk, l, ll)
         \/ EndsWithout(k, kk, l, ll)
         \/ EndsLanded(k, kk, l, ll)
  PROVE  Consistent(c, kk, ll)
  <1>1. /\ c.at > 0 /\ c.exit # 0 /\ c.stage \in {"waiting", "done"}
        /\ Readable(c.docs)
        /\ k.object = c.docs[c.at].object /\ Len(l) = c.at - 1
    BY DEF Consistent, LiveIsCurrent, Counted, GoesOn, EndsWithout, EndsLanded
  <1>2. c.at \in Nat /\ Len(c.docs) \in Nat /\ Len(l) \in Nat
    BY DEF CmdRecord
  <1>3. c.exit = 1 => c.stage = "done" /\ c.report = ReportAfter(c)
    BY DEF Consistent, Ended
  <1>4. CASE GoesOn(k, kk, l, ll)
    BY <1>1, <1>4
    DEF GoesOn, Consistent, InOrder, Underway, LiveIsCurrent, Counted, Ended, Live
  <1>5. CASE EndsWithout(k, kk, l, ll)
    BY <1>1, <1>5
    DEF EndsWithout, Consistent, InOrder, Underway, LiveIsCurrent, Counted, Ended
  <1>6. CASE EndsLanded(k, kk, l, ll)
    <2>1. ll = Append(l, k.object) /\ ~Live(kk)
      BY <1>6 DEF EndsLanded
    <2>2. Len(ll) = c.at /\ Len(ll) = Len(l) + 1
      BY <1>1, <1>2, <2>1
    <2>3. \A i \in 1 .. Len(ll) : ll[i] = c.docs[i].object
      <3> SUFFICES ASSUME NEW i \in 1 .. Len(ll) PROVE ll[i] = c.docs[i].object
        OBVIOUS
      <3>1. CASE i = c.at
        BY <1>1, <1>2, <2>1, <2>2, <3>1
      <3>2. CASE i # c.at
        <4>1. i \in 1 .. Len(l)
          BY <1>2, <2>2, <3>2
        <4>2. ll[i] = l[i]
          BY <2>1, <4>1
        <4> QED
          BY <4>1, <4>2 DEF Consistent, InOrder
      <3> QED
        BY <3>1, <3>2
    <2>4. InOrder(c, ll)
      BY <1>2, <2>2, <2>3 DEF InOrder
    <2>5. Counted(c, ll)
      BY <1>1, <2>2 DEF Counted
    <2> QED
      BY <1>1, <1>3, <2>1, <2>2, <2>4, <2>5
      DEF Consistent, Underway, LiveIsCurrent, Ended
  <1> QED
    BY <1>4, <1>5, <1>6

\* When no command moves and every call moves that way, all stay consistent.
LEMMA MovesKeep ==
  ASSUME Typed, AllConsistent, cmd' = cmd, \A x \in Clients : CallMove(x)
  PROVE  AllConsistent'
  <1> SUFFICES ASSUME NEW x \in Clients
               PROVE  Consistent(cmd[x], call'[x], landed'[x])
    BY DEF AllConsistent
  <1>1. Consistent(cmd[x], call[x], landed[x])
    BY DEF AllConsistent
  <1>2. cmd[x] \in CmdRecord /\ cmd[x].at \in 0 .. Len(cmd[x].docs)
    BY CommandOf DEF Typed
  <1>3. landed[x] \in Seq(Object)
    BY DEF Typed, KeeperTyped
  <1>4. CASE call'[x] = call[x] /\ landed'[x] = landed[x]
    BY <1>1, <1>4
  <1>5. CASE ~(call'[x] = call[x] /\ landed'[x] = landed[x])
    <2>1. Live(call[x])
      BY <1>5 DEF CallMove, GoesOn, EndsWithout, EndsLanded
    <2>2. call[x].object \in Object
      BY <2>1, CallOf DEF Typed, KeeperTyped, Live
    <2> QED
      BY <1>1, <1>2, <1>3, <1>5, <2>2, MoveKeeps DEF CallMove
  <1> QED
    BY <1>4, <1>5

-----------------------------------------------------------------------------
(* Every step of the Keeper is such a move.                                *)

\* What an answer is.
LEMMA AnsweredIs ==
  ASSUME NEW c \in CallRecord, NEW code
  PROVE  /\ Answered(c, code).stage = "answered"
         /\ Answered(c, code).code = code
  BY DEF Answered, NoCall

\* Only the absence of an error is "ok".
LEMMA ErrorsAreNotOk ==
  Code("other") # "ok" /\ Code("ErrImmutable") # "ok"
  BY DEF Code

\* A step of one call, for every client.
LEMMA OthersStay ==
  ASSUME CallTyped, landed \in [Clients -> Seq(Object)], NEW x \in Clients,
         NEW c, NEW l,
         call' = [call EXCEPT ![x] = c],
         landed' = [landed EXCEPT ![x] = l],
         \/ GoesOn(call[x], c, landed[x], l)
         \/ EndsWithout(call[x], c, landed[x], l)
         \/ EndsLanded(call[x], c, landed[x], l)
  PROVE  \A y \in Clients : CallMove(y)
  <1> SUFFICES ASSUME NEW y \in Clients PROVE CallMove(y)
    OBVIOUS
  <1>1. CASE y = x
    <2>1. call'[x] = c /\ landed'[x] = l
      BY DEF CallTyped
    <2> QED
      BY <1>1, <2>1 DEF CallMove
  <1>2. CASE y # x
    BY <1>2 DEF CallMove, CallTyped
  <1> QED
    BY <1>1, <1>2

\* The call of one client ends with an error.
LEMMA ErrorMoves ==
  ASSUME CallTyped, landed \in [Clients -> Seq(Object)], NEW x \in Clients,
         Live(call[x]), NEW code, code # "ok",
         call' = [call EXCEPT ![x] = Answered(@, code)],
         landed' = landed
  PROVE  \A y \in Clients : CallMove(y)
  <1> DEFINE c == Answered(call[x], code)
  <1>1. c.stage = "answered" /\ c.code # "ok"
    BY CallOf, AnsweredIs
  <1>2. call' = [call EXCEPT ![x] = c] /\ landed' = [landed EXCEPT ![x] = landed[x]]
    OBVIOUS
  <1> HIDE DEF c
  <1>3. EndsWithout(call[x], c, landed[x], landed[x])
    BY <1>1 DEF EndsWithout, Live
  <1> QED
    BY <1>2, <1>3, OthersStay

\* The call of one client ends with its object in the table.
LEMMA LandingMoves ==
  ASSUME CallTyped, landed \in [Clients -> Seq(Object)], NEW x \in Clients,
         Live(call[x]), NEW code,
         call' = [call EXCEPT ![x] = Answered(@, code)],
         landed' = [landed EXCEPT ![x] = Append(@, call[x].object)]
  PROVE  \A y \in Clients : CallMove(y)
  <1> DEFINE c == Answered(call[x], code)
             l == Append(landed[x], call[x].object)
  <1>1. c.stage = "answered"
    BY CallOf, AnsweredIs
  <1>2. call' = [call EXCEPT ![x] = c] /\ landed' = [landed EXCEPT ![x] = l]
    OBVIOUS
  <1> HIDE DEF c
  <1>3. EndsLanded(call[x], c, landed[x], l)
    BY <1>1 DEF EndsLanded, Live
  <1> HIDE DEF l
  <1> QED
    BY <1>2, <1>3, OthersStay

\* The call of one client goes on.
LEMMA GoingOnMoves ==
  ASSUME CallTyped, landed \in [Clients -> Seq(Object)], NEW x \in Clients,
         Live(call[x]), NEW c,
         call' = [call EXCEPT ![x] = c],
         Live(c), c.object = call[x].object,
         landed' = landed
  PROVE  \A y \in Clients : CallMove(y)
  <1>1. landed' = [landed EXCEPT ![x] = landed[x]]
    OBVIOUS
  <1>2. GoesOn(call[x], c, landed[x], landed[x])
    BY DEF GoesOn
  <1> QED
    BY <1>1, <1>2, OthersStay

\* Steps of the calls.
LEMMA CallStepsAreMoves ==
  ASSUME KeeperTyped, NEW x \in Clients, CallStep(x) \/ Acquire(x)
  PROVE  \A y \in Clients : CallMove(y)
  <1> USE DEF KeeperTyped
  <1>1. CASE Handle(x)
    <2> DEFINE k == call[x]
               c == [k EXCEPT !.stage = "waiting", !.left = Statements(k.object)]
    <2>1. Live(k) /\ landed' = landed
      BY <1>1 DEF Handle, Live
    <2>2. CASE Accepted(k.object)
      <3>1. c.stage = "waiting" /\ c.object = k.object
        BY CallOf DEF CallRecord
      <3>2. call' = [call EXCEPT ![x] = c]
        BY <1>1, <2>2 DEF Handle
      <3> HIDE DEF c
      <3>3. Live(c)
        BY <3>1 DEF Live
      <3> QED
        BY <2>1, <3>1, <3>2, <3>3, GoingOnMoves
    <2>3. CASE ~Accepted(k.object)
      <3>1. call' = [call EXCEPT ![x] = Answered(@, "invalid_argument")]
        BY <1>1, <2>3 DEF Handle
      <3> QED
        BY <2>1, <3>1, ErrorMoves
    <2> QED
      BY <2>2, <2>3
  <1>2. CASE Panic(x) \/ AcquireFails(x)
    <2>1. Live(call[x]) /\ landed' = landed
      BY <1>2 DEF Panic, AcquireFails, Live
    <2>2. \E code : code # "ok" /\ call' = [call EXCEPT ![x] = Answered(@, code)]
      BY <1>2, ErrorsAreNotOk DEF Panic, AcquireFails
    <2> QED
      BY <2>1, <2>2, ErrorMoves
  <1>3. CASE Acquire(x)
    <2> DEFINE c == [call[x] EXCEPT !.stage = "running"]
    <2>1. c.stage = "running" /\ c.object = call[x].object
      BY CallOf DEF CallRecord
    <2>2. call' = [call EXCEPT ![x] = c] /\ landed' = landed /\ Live(call[x])
      BY <1>3 DEF Acquire, Live
    <2> HIDE DEF c
    <2>3. Live(c)
      BY <2>1 DEF Live
    <2> QED
      BY <2>1, <2>2, <2>3, GoingOnMoves
  <1>4. CASE /\ Live(call[x])
             /\ landed' = landed
             /\ Settle(x, "other") \/ Settle(x, "ErrImmutable")
    BY <1>4, ErrorsAreNotOk, ErrorMoves DEF Settle
  <1>5. CASE /\ Live(call[x])
             /\ landed' = [landed EXCEPT ![x] = Append(@, call[x].object)]
             /\ \E err : Settle(x, err)
    BY <1>5, LandingMoves DEF Settle
  <1>6. CASE /\ Live(call[x])
             /\ landed' = landed
             /\ call' = [call EXCEPT ![x].stage = "waiting", ![x].left = 1]
    <2> DEFINE b == [call[x] EXCEPT !.stage = "waiting"]
               c == [b EXCEPT !.left = 1]
    <2>1. b \in CallRecord /\ b.stage = "waiting" /\ b.object = call[x].object
      BY CallOf DEF CallRecord
    <2>2. call' = [call EXCEPT ![x] = c]
      BY <1>6, CallOf DEF CallTyped
    <2> HIDE DEF b
    <2>3. c.stage = "waiting" /\ c.object = call[x].object
      BY <2>1 DEF CallRecord
    <2> HIDE DEF c
    <2>4. Live(c)
      BY <2>3 DEF Live
    <2> QED
      BY <1>6, <2>2, <2>3, <2>4, GoingOnMoves
  <1>7. CASE ReadImmutable(x)
    <2>1. Live(call[x])
      BY <1>7 DEF ReadImmutable, Live
    <2> QED
      BY <1>4, <1>5, <1>6, <1>7, <2>1 DEF ReadImmutable
  <1>8. CASE Write(x)
    <2>1. Live(call[x])
      BY <1>8 DEF Write, Live
    <2> QED
      BY <1>4, <1>5, <1>8, <2>1 DEF Write
  <1>9. CASE StatementFails(x)
    <2>1. Live(call[x])
      BY <1>9 DEF StatementFails, Live
    <2> QED
      BY <1>4, <1>9, <2>1 DEF StatementFails
  <1> QED
    BY <1>1, <1>2, <1>3, <1>7, <1>8, <1>9 DEF CallStep

\* The end of the process loses the calls at work.
LEMMA ExitMoves ==
  ASSUME KeeperTyped, Exit
  PROVE  \A y \in Clients : CallMove(y)
  <1> SUFFICES ASSUME NEW y \in Clients PROVE CallMove(y)
    OBVIOUS
  <1>1. landed' = landed
    BY DEF Exit
  <1>2. CASE Live(call[y])
    <2>1. call'[y] = [NoCall EXCEPT !.stage = "lost"]
      BY <1>2 DEF Exit, Live
    <2>2. call'[y].stage = "lost"
      BY <2>1, NoCallTyped DEF CallRecord
    <2> QED
      BY <1>1, <1>2, <2>2 DEF CallMove, EndsWithout, Live
  <1>3. CASE ~Live(call[y])
    BY <1>1, <1>3 DEF Exit, Live, CallMove
  <1> QED
    BY <1>2, <1>3

\* Every step of the Keeper.
LEMMA KeeperStepsAreMoves ==
  ASSUME KeeperTyped, KeeperNext
  PROVE  \A y \in Clients : CallMove(y)
  <1>1. CASE \E x \in Clients : CallStep(x) \/ Acquire(x)
    BY <1>1, CallStepsAreMoves
  <1>2. CASE call' = call /\ landed' = landed
    BY <1>2 DEF CallMove
  <1>3. CASE \E w \in Watchers :
               \/ OpenStream(w) \/ StreamStep(w)
               \/ Stall(w) \/ ReadOn(w) \/ Leave(w)
    BY <1>2, <1>3
    DEF OpenStream, StreamStep, Poll, SendRow, Drain, Stop, Stall, ReadOn, Leave
  <1>4. CASE Signal \/ ServeError \/ Drained
    BY <1>2, <1>4 DEF Signal, ServeError, Drained
  <1>5. CASE PoolCloses \/ Kill
    BY <1>5, ExitMoves DEF PoolCloses, Kill
  <1> QED
    BY <1>1, <1>3, <1>4, <1>5 DEF KeeperNext

-----------------------------------------------------------------------------
(* Steps of a command.                                                     *)

\* A step of one command leaves the others consistent.
LEMMA OtherCommandsStay ==
  ASSUME Typed, AllConsistent, NEW x \in Clients, NEW d,
         cmd' = [cmd EXCEPT ![x] = d],
         \A y \in Clients : y # x => call'[y] = call[y],
         landed' = landed,
         Consistent(d, call'[x], landed[x])
  PROVE  AllConsistent'
  <1> SUFFICES ASSUME NEW y \in Clients
               PROVE  Consistent(cmd'[y], call'[y], landed'[y])
    BY DEF AllConsistent
  <1>1. CASE y = x
    BY <1>1 DEF Typed, CmdTyped
  <1>2. CASE y # x
    BY <1>2 DEF Typed, CmdTyped, AllConsistent
  <1> QED
    BY <1>1, <1>2

\* A failure, at whatever point the call is.
LEMMA FailConsistent ==
  ASSUME NEW c \in CmdRecord, NEW k, NEW l,
         Consistent(c, k, l)
  PROVE  Consistent([c EXCEPT !.stage = "done", !.exit = 1,
                              !.report = ReportAfter(c)], k, l)
  <1> DEFINE r == ReportAfter(c)
             d == [c EXCEPT !.stage = "done", !.exit = 1, !.report = r]
  <1>1. /\ d.stage = "done" /\ d.exit = 1 /\ d.report = r
        /\ d.at = c.at /\ d.docs = c.docs
    BY DEF CmdRecord
  <1> HIDE DEF d
  <1>2. ReportAfter(d) = r
    BY <1>1 DEF ReportAfter
  <1>3. InOrder(d, l) /\ Counted(d, l)
    BY <1>1 DEF Consistent, InOrder, Counted
  <1>4. Underway(d, k, l) /\ Ended(d, l)
    BY <1>1, <1>2 DEF Underway, Ended
  <1>5. LiveIsCurrent(d, k, l)
    BY <1>1 DEF Consistent, LiveIsCurrent
  <1>6. Consistent(d, k, l)
    BY <1>3, <1>4, <1>5 DEF Consistent
  <1> QED
    BY <1>6 DEF d, r

\* The command stops; of its call at most the mark on the request changes.
LEMMA FailKeeps ==
  ASSUME Typed, AllConsistent, NEW x \in Clients, Fail(x),
         \A y \in Clients : y # x => call'[y] = call[y],
         call'[x].stage = call[x].stage, call'[x].object = call[x].object,
         landed' = landed
  PROVE  AllConsistent'
  <1> DEFINE d == [cmd[x] EXCEPT !.stage = "done", !.exit = 1,
                                 !.report = ReportAfter(cmd[x])]
  <1>1. cmd' = [cmd EXCEPT ![x] = d]
    BY DEF Fail
  <1>2. Consistent(d, call[x], landed[x])
    BY CommandOf, FailConsistent DEF Typed, AllConsistent
  <1>3. d.stage = "done"
    BY CommandOf DEF Typed, CmdRecord
  <1> HIDE DEF d
  <1>4. Consistent(d, call'[x], landed[x])
    BY <1>2, <1>3
    DEF Consistent, InOrder, Underway, LiveIsCurrent, Live, Counted, Ended
  <1> QED
    BY <1>1, <1>4, OtherCommandsStay

\* The manifest is read: nothing has landed, and the first document is next.
LEMMA ReadKeeps ==
  ASSUME Typed, AllConsistent, NEW x \in Clients, Read(x)
  PROVE  AllConsistent'
  <1>1. CASE Fail(x)
    BY <1>1, FailKeeps DEF Read, keeperVars
  <1>2. CASE Readable(cmd[x].docs)
           /\ cmd' = [cmd EXCEPT ![x].stage = "sending", ![x].at = 1]
    <2> DEFINE b == [cmd[x] EXCEPT !.stage = "sending"]
               d == [b EXCEPT !.at = 1]
    <2>1. /\ b \in CmdRecord /\ b.stage = "sending" /\ b.docs = cmd[x].docs
          /\ b.exit = cmd[x].exit
      BY CommandOf DEF Typed, CmdRecord
    <2>2. cmd' = [cmd EXCEPT ![x] = d]
      BY <1>2, CommandOf DEF Typed, CmdTyped
    <2> HIDE DEF b
    <2>3. /\ d.stage = "sending" /\ d.at = 1 /\ d.docs = cmd[x].docs
          /\ d.exit = cmd[x].exit
      BY <2>1 DEF CmdRecord
    <2> HIDE DEF d
    <2>4. /\ cmd[x].stage = "reading" /\ cmd[x].at = 0 /\ ~Live(call[x])
          /\ Len(landed[x]) = 0 /\ cmd[x].exit \notin {0, 1}
          /\ InOrder(cmd[x], landed[x])
      BY DEF Read, AllConsistent, Consistent, Underway, LiveIsCurrent, Counted, Ended
    <2>5. Consistent(d, call[x], landed[x])
      BY <1>2, <2>3, <2>4
      DEF Consistent, InOrder, Underway, LiveIsCurrent, Counted, Ended
    <2>6. call' = call /\ landed' = landed
      BY DEF Read, keeperVars
    <2> QED
      BY <2>2, <2>5, <2>6, OtherCommandsStay
  <1> QED
    BY <1>1, <1>2 DEF Read

\* The current document is sent.
LEMMA SendKeeps ==
  ASSUME Typed, AllConsistent, NEW x \in Clients, Send(x)
  PROVE  AllConsistent'
  <1> DEFINE o == Current(x).object
             c == [NoCall EXCEPT !.stage = "arrived", !.object = o]
             d == [cmd[x] EXCEPT !.stage = "waiting"]
  <1>1. call' = [call EXCEPT ![x] = c] /\ landed' = landed
        /\ cmd' = [cmd EXCEPT ![x] = d] /\ cmd[x].stage = "sending"
    BY DEF Send, Arrive
  <1>2. o \in Object
    BY <1>1, CurrentOf DEF Typed
  <1>3. c.stage = "arrived" /\ c.object = o
    BY DEF NoCall
  <1>4. /\ d.stage = "waiting" /\ d.at = cmd[x].at /\ d.docs = cmd[x].docs
        /\ d.exit = cmd[x].exit
    BY CommandOf DEF Typed, CmdRecord
  <1>5. o = cmd[x].docs[cmd[x].at].object
    BY DEF Current
  <1> HIDE DEF c, d, o
  <1>6. /\ cmd[x].at > 0 /\ Len(landed[x]) = cmd[x].at - 1
        /\ cmd[x].exit \notin {0, 1}
        /\ InOrder(cmd[x], landed[x]) /\ Counted(cmd[x], landed[x])
    BY <1>1 DEF AllConsistent, Consistent, Underway, Ended
  <1>7. Consistent(d, c, landed[x])
    BY <1>3, <1>4, <1>5, <1>6
    DEF Consistent, InOrder, Underway, LiveIsCurrent, Counted, Ended
  <1>8. call'[x] = c /\ \A y \in Clients : y # x => call'[y] = call[y]
    BY <1>1 DEF Typed, KeeperTyped, CallTyped
  <1> QED
    BY <1>1, <1>7, <1>8, OtherCommandsStay

\* The answer: after "ok" the next document, or success after the last one.
LEMMA ReceiveKeeps ==
  ASSUME Typed, AllConsistent, NEW x \in Clients, Receive(x)
  PROVE  AllConsistent'
  <1> DEFINE c == cmd[x]
  <1>1. CASE Fail(x)
    BY <1>1, FailKeeps DEF Receive, keeperVars
  <1>2. CASE ~Fail(x)
    <2>1. c.stage = "waiting" /\ call[x].stage = "answered" /\ call[x].code = "ok"
          /\ call' = call /\ landed' = landed
      BY <1>2 DEF Receive, keeperVars
    <2>2. /\ c.at > 0 /\ Len(landed[x]) = c.at /\ c.exit \notin {0, 1}
          /\ ~Live(call[x]) /\ Readable(c.docs) /\ InOrder(c, landed[x])
      BY <2>1 DEF AllConsistent, Consistent, Underway, Ended, Counted, Live
    <2>3. c.at \in Nat /\ c \in CmdRecord
      BY CommandOf DEF Typed
    <2>4. CASE c.at = Len(c.docs)
      <3> DEFINE d == [c EXCEPT !.stage = "done", !.exit = 0]
      <3>1. /\ d.stage = "done" /\ d.exit = 0 /\ d.at = c.at /\ d.docs = c.docs
        BY <2>3 DEF CmdRecord
      <3>2. cmd' = [cmd EXCEPT ![x] = d]
        BY <1>2, <2>4 DEF Receive
      <3> HIDE DEF c, d
      <3>3. Consistent(d, call[x], landed[x])
        BY <2>2, <2>3, <2>4, <3>1
        DEF Consistent, InOrder, Underway, LiveIsCurrent, Counted, Ended
      <3> QED
        BY <2>1, <3>2, <3>3, OtherCommandsStay
    <2>5. CASE c.at # Len(c.docs)
      <3> DEFINE n == c.at + 1
                 d == [c EXCEPT !.stage = "sending", !.at = n]
      <3>1. cmd' = [cmd EXCEPT ![x] = d]
        BY <1>2, <2>5 DEF Receive
      <3>2. n > 0 /\ n - 1 = c.at
        BY <2>2, <2>3
      <3> HIDE DEF n
      <3>3. /\ d.stage = "sending" /\ d.at = n /\ d.docs = c.docs
            /\ d.exit = c.exit
        BY <2>3 DEF CmdRecord
      <3>6. n # 0
        BY <3>2
      <3> HIDE DEF c, d
      <3>4. Consistent(d, call[x], landed[x])
        BY <2>2, <3>2, <3>3, <3>6
        DEF Consistent, InOrder, Underway, LiveIsCurrent, Counted, Ended
      <3> QED
        BY <2>1, <3>1, <3>4, OtherCommandsStay
    <2> QED
      BY <2>4, <2>5
  <1> QED
    BY <1>1, <1>2

\* Steps of a command.
LEMMA CommandStepsKeep ==
  ASSUME Typed, AllConsistent, NEW x \in Clients, CommandStep(x)
  PROVE  AllConsistent'
  <1>1. CASE Read(x)
    BY <1>1, ReadKeeps
  <1>2. CASE RejectDocument(x) \/ NotReached(x)
    BY <1>2, FailKeeps DEF RejectDocument, NotReached, keeperVars
  <1>3. CASE Send(x)
    BY <1>3, SendKeeps
  <1>4. CASE Receive(x)
    BY <1>4, ReceiveKeeps
  <1>5. CASE GiveUp(x)
    <2> DEFINE c == [call[x] EXCEPT !.client = "gone"]
    <2>1. c.stage = call[x].stage /\ c.object = call[x].object
      BY CallOf DEF Typed, KeeperTyped, CallRecord
    <2>2. call' = [call EXCEPT ![x] = c] /\ landed' = landed /\ Fail(x)
      BY <1>5 DEF GiveUp
    <2> HIDE DEF c
    <2>3. call'[x] = c /\ \A y \in Clients : y # x => call'[y] = call[y]
      BY <2>2 DEF Typed, KeeperTyped, CallTyped
    <2> QED
      BY <2>1, <2>2, <2>3, FailKeeps
  <1> QED
    BY <1>1, <1>2, <1>3, <1>4, <1>5 DEF CommandStep

-----------------------------------------------------------------------------
(* The theorem.                                                            *)

\* Before anything has been read.
LEMMA ConsistentInit == Init => AllConsistent
  <1> SUFFICES ASSUME Init, NEW x \in Clients
               PROVE  Consistent(cmd[x], call[x], landed[x])
    BY DEF AllConsistent
  <1>1. PICK given \in [Clients -> UNION {Manifests[y] : y \in Clients}] :
          cmd = [y \in Clients |->
            [stage |-> "reading", docs |-> given[y], at |-> 0, exit |-> Nil,
             report |-> Nil]]
    BY DEF Init
  <1>2. cmd[x].stage = "reading" /\ cmd[x].at = 0 /\ cmd[x].exit = Nil
    BY <1>1
  <1>3. call[x].stage = "none" /\ landed[x] = << >>
    BY NoCallTyped DEF Init, KeeperInit
  <1>4. Len(cmd[x].docs) \in Nat
    BY TypedInit, CommandOf DEF Typed
  <1>5. Len(landed[x]) = 0
    BY <1>3
  <1>6. Nil \notin {0, 1}
    BY NilAssumption
  <1> QED
    BY <1>2, <1>3, <1>4, <1>5, <1>6
    DEF Consistent, InOrder, Underway, LiveIsCurrent, Live, Counted, Ended

\* Every step of the system.
LEMMA ConsistentStep == Typed /\ AllConsistent /\ [Next]_vars => AllConsistent'
  <1> SUFFICES ASSUME Typed, AllConsistent, [Next]_vars PROVE AllConsistent'
    OBVIOUS
  <1>1. CASE KeeperNext /\ UNCHANGED cmd
    BY <1>1, KeeperStepsAreMoves, MovesKeep DEF Typed
  <1>2. CASE \E x \in Clients : CommandStep(x)
    BY <1>2, CommandStepsKeep
  <1>3. CASE UNCHANGED vars
    BY <1>3 DEF vars, keeperVars, AllConsistent
  <1> QED
    BY <1>1, <1>2, <1>3 DEF Next

\* A sequence that agrees with the beginning of another one is that beginning.
LEMMA BeginningIsSubSeq ==
  ASSUME NEW m \in Seq(Document), NEW l \in Seq(Object),
         Len(l) <= Len(m), \A i \in 1 .. Len(l) : l[i] = m[i].object
  PROVE  l = SubSeq(Objects(m), 1, Len(l))
  <1> DEFINE n == Len(l)
             s == SubSeq(Objects(m), 1, n)
  <1>1. n \in Nat /\ Len(m) \in Nat /\ DOMAIN m = 1 .. Len(m)
    BY LenProperties
  <1>2. \A i \in 1 .. n : Objects(m)[i] = l[i] /\ l[i] \in Object
    BY <1>1, ElementOfSeq DEF Objects
  <1>3. /\ s \in Seq(Object)
        /\ Len(s) = IF 1 <= n THEN n - 1 + 1 ELSE 0
        /\ \A i \in 1 .. n - 1 + 1 : s[i] = Objects(m)[1 + i - 1]
    BY <1>1, <1>2, SubSeqProperties
  <1>4. Len(s) = n
    BY <1>1, <1>3
  <1>5. \A i \in 1 .. n : s[i] = l[i]
    BY <1>1, <1>2, <1>3
  <1> HIDE DEF s
  <1>6. l = s
    BY <1>3, <1>4, <1>5, SeqEqual
  <1> QED
    BY <1>6 DEF s

\* A consistent command's report is true.
LEMMA ConsistentIsTrue == Typed /\ AllConsistent => ReportIsTrue
  <1> SUFFICES ASSUME Typed, AllConsistent, NEW x \in Clients
               PROVE  LET c == cmd[x]
                          n == Len(landed[x])
                      IN
                      /\ n <= Len(c.docs)
                      /\ landed[x] = SubSeq(Objects(c.docs), 1, n)
                      /\ c.exit = 0 => n = Len(c.docs)
                      /\ c.exit = 1 /\ c.report # Nil =>
                           c.report.applied <= n /\ n <= Len(c.docs) - c.report.skipped
                      /\ c.exit = 1 /\ c.report = Nil => n <= 1
                      /\ (\E i \in DOMAIN c.docs : ~c.docs[i].readable) => n = 0
    BY DEF ReportIsTrue
  <1> DEFINE c == cmd[x]
             n == Len(landed[x])
  <1>1. Consistent(c, call[x], landed[x])
    BY DEF AllConsistent
  <1>2. /\ c.docs \in Seq(Document) /\ Len(c.docs) \in Nat /\ c.at \in Nat
        /\ landed[x] \in Seq(Object) /\ n \in Nat
    BY CommandOf DEF Typed, KeeperTyped
  <1> HIDE DEF c, n
  <1>3. n <= Len(c.docs) /\ landed[x] = SubSeq(Objects(c.docs), 1, n)
    BY <1>1, <1>2, BeginningIsSubSeq DEF Consistent, InOrder, n
  <1>4. c.exit = 0 => n = Len(c.docs)
    BY <1>1 DEF Consistent, Ended, n
  <1>5. /\ c.at = 0 => n = 0
        /\ c.at > 0 => Readable(c.docs) /\ n \in {c.at - 1, c.at}
    BY <1>1 DEF Consistent, Counted, n
  <1>6. ASSUME c.exit = 1, c.report # Nil
        PROVE  c.report.applied <= n /\ n <= Len(c.docs) - c.report.skipped
    <2>1. c.report = ReportAfter(c)
      BY <1>1, <1>6 DEF Consistent, Ended
    <2>2. c.at > 1 /\ c.report = [applied |-> c.at - 1, skipped |-> Len(c.docs) - c.at]
      BY <1>2, <1>6, <2>1 DEF ReportAfter
    <2> QED
      BY <1>2, <1>5, <2>2
  <1>7. ASSUME c.exit = 1, c.report = Nil PROVE n <= 1
    <2>1. c.report = ReportAfter(c)
      BY <1>1, <1>7 DEF Consistent, Ended
    <2>2. c.at \in 0 .. Len(c.docs)
      BY CommandOf DEF Typed, c
    <2>3. c.at \in {0, 1}
      <3> SUFFICES ASSUME c.at \notin {0, 1} PROVE FALSE
        OBVIOUS
      <3>1. c.at - 1 \in Nat /\ Len(c.docs) - c.at \in Nat
        BY <1>2, <2>2
      <3>2. ReportAfter(c) = [applied |-> c.at - 1, skipped |-> Len(c.docs) - c.at]
        BY DEF ReportAfter
      <3>3. ReportAfter(c) \in Report
        BY <3>1, <3>2 DEF Report
      <3> QED
        BY <1>7, <2>1, <3>3, NilAssumption
    <2> QED
      BY <1>2, <1>5, <2>3
  <1>8. (\E i \in DOMAIN c.docs : ~c.docs[i].readable) => n = 0
    BY <1>2, <1>5 DEF Readable
  <1> QED
    BY <1>3, <1>4, <1>6, <1>7, <1>8 DEF c, n

\* What `hived apply` says is what happened, for every manifest, any number of
\* other commands, lost answers, timeouts and ends of the Keeper.
THEOREM ReportsAreTrue == Spec => []ReportIsTrue
  <1>1. Init => Typed /\ AllConsistent
    BY TypedInit, ConsistentInit
  <1>2. (Typed /\ AllConsistent) /\ [Next]_vars => (Typed /\ AllConsistent)'
    BY TypedStep, ConsistentStep
  <1>3. Typed /\ AllConsistent => ReportIsTrue
    BY ConsistentIsTrue
  <1> QED
    BY <1>1, <1>2, <1>3, PTL DEF Spec

--------------------------------------------------------------------------------
(* Two Applies of one AgentVersion.  The invariant relates what has landed *)
(* to the table: the row of every AgentVersion that landed is there and has*)
(* the spec it landed with.  The UNIQUE key keeps it: the INSERT of an     *)
(* AgentVersion finds no row, and every other statement writes a row of    *)
(* another kind.                                                           *)

\* A row of the table holds what landed.
HoldsRow(table, o) ==
  StoreKey(o) \in DOMAIN table /\ table[StoreKey(o)] = o.spec

LandedIsStored(table, l) ==
  \A i \in 1 .. Len(l) : l[i].kind = "AgentVersion" => HoldsRow(table, l[i])

AllStored == \A x \in Clients : LandedIsStored(stored, landed[x])

\* Rows stay, those of AgentVersions as they are.
RowsStay ==
  /\ DOMAIN stored \subseteq DOMAIN stored'
  /\ \A k \in DOMAIN stored :
       k.kind = "AgentVersion" => k \in DOMAIN stored' /\ stored'[k] = stored[k]

\* What a step lands, if anything: one object, for one client, and its row
\* holds it.
LandsWhatIsStored ==
  \/ landed' = landed
  \/ \E x \in Clients, o \in Object :
       /\ landed' = [landed EXCEPT ![x] = Append(@, o)]
       /\ HoldsRow(stored', o)

\* Such a step keeps the invariant.
LEMMA StoredStep ==
  ASSUME landed \in [Clients -> Seq(Object)], AllStored,
         RowsStay, LandsWhatIsStored
  PROVE  AllStored'
  <1> SUFFICES ASSUME NEW x \in Clients, NEW i \in 1 .. Len(landed'[x]),
                      landed'[x][i].kind = "AgentVersion"
               PROVE  HoldsRow(stored', landed'[x][i])
    BY DEF AllStored, LandedIsStored
  <1> DEFINE l == landed[x]
  <1>1. l \in Seq(Object) /\ Len(l) \in Nat
    OBVIOUS
  <1>2. ASSUME i \in 1 .. Len(l), landed'[x][i] = l[i]
        PROVE  HoldsRow(stored', landed'[x][i])
    <2>1. HoldsRow(stored, l[i])
      BY <1>2 DEF AllStored, LandedIsStored
    <2>2. StoreKey(l[i]).kind = "AgentVersion"
      BY <1>2 DEF StoreKey
    <2> QED
      BY <1>2, <2>1, <2>2 DEF HoldsRow, RowsStay
  <1>3. CASE landed' = landed
    BY <1>2, <1>3
  <1>4. ASSUME NEW y \in Clients, NEW o \in Object,
               landed' = [landed EXCEPT ![y] = Append(@, o)],
               o.kind = "AgentVersion" => HoldsRow(stored', o)
        PROVE  HoldsRow(stored', landed'[x][i])
    <2>1. CASE y # x
      <3>1. landed'[x] = l
        BY <1>4, <2>1
      <3> QED
        BY <1>2, <3>1
    <2>2. CASE y = x
      <3>1. landed'[x] = Append(l, o)
        BY <1>4, <2>2
      <3>2. Len(landed'[x]) = Len(l) + 1
        BY <1>1, <3>1
      <3>3. CASE i = Len(l) + 1
        <4>1. landed'[x][i] = o
          BY <1>1, <3>1, <3>3
        <4> QED
          BY <1>4, <4>1
      <3>4. CASE i # Len(l) + 1
        <4>1. i \in 1 .. Len(l)
          BY <1>1, <3>2, <3>4
        <4>2. landed'[x][i] = l[i]
          BY <1>1, <3>1, <4>1
        <4> QED
          BY <1>2, <4>1, <4>2
      <3> QED
        BY <3>3, <3>4
    <2> QED
      BY <2>1, <2>2
  <1> QED
    BY <1>3, <1>4 DEF LandsWhatIsStored

\* A step that neither writes a row nor lands an object.
LEMMA NothingWritten ==
  ASSUME UNCHANGED <<stored, landed>>
  PROVE  RowsStay /\ LandsWhatIsStored
  BY DEF RowsStay, LandsWhatIsStored

-----------------------------------------------------------------------------
(* The two statements that land an object.                                 *)

\* applyImmutable's Get lands what it finds stored.
LEMMA ReadLandsStored ==
  ASSUME Typed, NEW x \in Clients, ReadImmutable(x)
  PROVE  RowsStay /\ LandsWhatIsStored
  <1> DEFINE o == call[x].object
             k == StoreKey(o)
  <1>1. o \in Object
    BY DEF Typed, KeeperTyped, CallTyped, CallsAreValid, ReadImmutable
  <1> HIDE DEF o
  <1>2. stored' = stored
    BY DEF ReadImmutable
  <1>3. \/ landed' = landed
        \/ /\ k \in DOMAIN stored /\ stored[k] = o.spec
           /\ landed' = [landed EXCEPT ![x] = Append(@, o)]
    BY DEF ReadImmutable, o
  <1> QED
    BY <1>1, <1>2, <1>3 DEF RowsStay, LandsWhatIsStored, HoldsRow

\* The statement that writes. An AgentVersion's row is not there before.
LEMMA WriteLandsStored ==
  ASSUME Typed, NEW x \in Clients, Write(x)
  PROVE  RowsStay /\ LandsWhatIsStored
  <1> DEFINE o == call[x].object
             q == StoreKey(o)
  <1>1. o \in Object
    BY DEF Typed, KeeperTyped, CallTyped, CallsAreValid, Write
  <1>2. CASE Taken(o)
    BY <1>2, NothingWritten DEF Write
  <1>3. CASE ~Taken(o)
    <2> HIDE DEF o
    <2>1. /\ stored' = [k \in DOMAIN stored \cup {q} |->
                          IF k = q THEN o.spec ELSE stored[k]]
          /\ landed' = [landed EXCEPT ![x] = Append(@, o)]
      BY <1>3 DEF Write, o
    <2>2. q.kind = o.kind
      BY DEF StoreKey
    <2>3. o.kind = "AgentVersion" => q \notin DOMAIN stored
      BY <1>3 DEF Taken, ImmutableKinds
    <2>4. RowsStay
      <3> SUFFICES ASSUME NEW k \in DOMAIN stored, k.kind = "AgentVersion"
                   PROVE  k \in DOMAIN stored' /\ stored'[k] = stored[k]
        BY <2>1 DEF RowsStay
      <3>1. k # q
        BY <2>2, <2>3
      <3> HIDE DEF q
      <3> QED
        BY <2>1, <3>1
    <2>5. HoldsRow(stored', o)
      BY <2>1 DEF HoldsRow
    <2> QED
      BY <1>1, <2>1, <2>4, <2>5 DEF LandsWhatIsStored
  <1> QED
    BY <1>2, <1>3

-----------------------------------------------------------------------------
(* The theorem.                                                            *)

\* A step of the Keeper for one client.
LEMMA CallStepsLandStored ==
  ASSUME Typed, NEW x \in Clients, CallStep(x) \/ Acquire(x)
  PROVE  RowsStay /\ LandsWhatIsStored
  <1>1. CASE ReadImmutable(x)
    BY <1>1, ReadLandsStored
  <1>2. CASE Write(x)
    BY <1>2, WriteLandsStored
  <1>3. CASE Handle(x) \/ Panic(x) \/ AcquireFails(x) \/ StatementFails(x) \/ Acquire(x)
    BY <1>3, NothingWritten
    DEF Handle, Panic, AcquireFails, StatementFails, Acquire
  <1> QED
    BY <1>1, <1>2, <1>3 DEF CallStep

\* Every step of the system.
LEMMA StepsLandStored ==
  ASSUME Typed, [Next]_vars
  PROVE  RowsStay /\ LandsWhatIsStored
  <1>1. CASE \E x \in Clients : CallStep(x) \/ Acquire(x)
    BY <1>1, CallStepsLandStored
  <1>2. CASE \E w \in Watchers :
               \/ OpenStream(w) \/ StreamStep(w)
               \/ Stall(w) \/ ReadOn(w) \/ Leave(w)
    BY <1>2, NothingWritten
    DEF OpenStream, StreamStep, Poll, SendRow, Drain, Stop, Stall, ReadOn, Leave
  <1>3. CASE Signal \/ ServeError \/ Drained \/ PoolCloses \/ Kill
    BY <1>3, NothingWritten DEF Signal, ServeError, Drained, PoolCloses, Kill, Exit
  <1>4. CASE \E x \in Clients : CommandStep(x)
    <2>1. PICK x \in Clients : CommandStep(x)
      BY <1>4
    <2>2. UNCHANGED <<stored, landed>>
      BY <2>1
      DEF CommandStep, Read, RejectDocument, Send, Arrive, NotReached, Receive,
          GiveUp, keeperVars
    <2> QED
      BY <2>2, NothingWritten
  <1>5. CASE UNCHANGED vars
    BY <1>5, NothingWritten DEF vars, keeperVars
  <1> QED
    BY <1>1, <1>2, <1>3, <1>4, <1>5 DEF Next, KeeperNext

\* The table has one row for a key, so what landed under it agrees.
LEMMA StoredAgree ==
  landed \in [Clients -> Seq(Object)] /\ AllStored => AgentVersionsAgree
  <1> SUFFICES ASSUME landed \in [Clients -> Seq(Object)], AllStored,
                      NEW x \in Clients, NEW y \in Clients,
                      NEW i \in DOMAIN landed[x], NEW j \in DOMAIN landed[y],
                      landed[x][i].kind = "AgentVersion",
                      StoreKey(landed[x][i]) = StoreKey(landed[y][j])
               PROVE  landed[x][i].spec = landed[y][j].spec
    BY DEF AgentVersionsAgree
  <1>1. i \in 1 .. Len(landed[x]) /\ j \in 1 .. Len(landed[y])
    OBVIOUS
  <1>2. landed[y][j].kind = "AgentVersion"
    BY DEF StoreKey
  <1> QED
    BY <1>1, <1>2 DEF AllStored, LandedIsStored, HoldsRow

\* Two Applies of one AgentVersion that both took effect had the same spec,
\* whatever other calls run between the Get and the INSERT of applyImmutable.
THEOREM AgentVersionsNeverDiffer == Spec => []AgentVersionsAgree
  <1>1. Init => Typed /\ AllStored
    <2>1. Init => AllStored
      BY DEF Init, KeeperInit, AllStored, LandedIsStored
    <2> QED
      BY <2>1, TypedInit
  <1>2. (Typed /\ AllStored) /\ [Next]_vars => (Typed /\ AllStored)'
    BY TypedStep, StepsLandStored, StoredStep DEF Typed, KeeperTyped
  <1>3. Typed /\ AllStored => AgentVersionsAgree
    BY StoredAgree DEF Typed, KeeperTyped
  <1> QED
    BY <1>1, <1>2, <1>3, PTL DEF Spec

-----------------------------------------------------------------------------
(* Get after Apply.                                                        *)

\* What each command was given, and the rows of what has landed.
DocsAreGiven == \A x \in Clients : cmd[x].docs \in Manifests[x]

LandedHaveRows ==
  \A x \in Clients : \A i \in 1 .. Len(landed[x]) : StoreKey(landed[x][i]) \in DOMAIN stored

\* A command keeps the documents it was given.
LEMMA DocsStay ==
  ASSUME Typed, DocsAreGiven, [Next]_vars
  PROVE  DocsAreGiven'
  <1>1. cmd \in [Clients -> CmdRecord]
    BY DEF Typed, CmdTyped
  <1>2. \A x \in Clients : cmd'[x].docs = cmd[x].docs
    <2>1. CASE cmd' = cmd
      BY <2>1
    <2>2. ASSUME NEW x \in Clients, NEW d, d.docs = cmd[x].docs, cmd' = [cmd EXCEPT ![x] = d]
          PROVE  \A y \in Clients : cmd'[y].docs = cmd[y].docs
      BY <1>1, <2>2
    <2>3. ASSUME NEW x \in Clients, Fail(x)
          PROVE  \A y \in Clients : cmd'[y].docs = cmd[y].docs
      <3> DEFINE r == ReportAfter(cmd[x])
                 d == [cmd[x] EXCEPT !.stage = "done", !.exit = 1, !.report = r]
      <3>1. cmd[x] \in CmdRecord
        BY <1>1
      <3> HIDE DEF r
      <3>2. d.docs = cmd[x].docs
        BY <3>1 DEF CmdRecord
      <3>3. cmd' = [cmd EXCEPT ![x] = d]
        BY <1>1, <2>3 DEF Fail, r
      <3> HIDE DEF d
      <3> QED
        BY <2>2, <3>2, <3>3
    <2>4. ASSUME NEW x \in Clients, CommandStep(x)
          PROVE  \A y \in Clients : cmd'[y].docs = cmd[y].docs
      <3>1. cmd[x] \in CmdRecord
        BY <1>1
      <3>2. CASE Read(x)
        <4> DEFINE d == [cmd[x] EXCEPT !.stage = "sending", !.at = 1]
        <4>1. d.docs = cmd[x].docs
          BY <3>1 DEF CmdRecord
        <4>2. cmd' = [cmd EXCEPT ![x] = d] \/ Fail(x)
          BY <1>1, <3>2 DEF Read
        <4> HIDE DEF d
        <4> QED
          BY <2>2, <2>3, <4>1, <4>2
      <3>3. CASE RejectDocument(x) \/ NotReached(x) \/ GiveUp(x)
        BY <2>3, <3>3 DEF RejectDocument, NotReached, GiveUp
      <3>4. CASE Send(x)
        <4> DEFINE d == [cmd[x] EXCEPT !.stage = "waiting"]
        <4>1. d.docs = cmd[x].docs
          BY <3>1 DEF CmdRecord
        <4>2. cmd' = [cmd EXCEPT ![x] = d]
          BY <1>1, <3>4 DEF Send
        <4> HIDE DEF d
        <4> QED
          BY <2>2, <4>1, <4>2
      <3>5. CASE Receive(x)
        <4> DEFINE n == cmd[x].at + 1
                   d == [cmd[x] EXCEPT !.stage = "done", !.exit = 0]
                   e == [cmd[x] EXCEPT !.stage = "sending", !.at = n]
        <4>1. \/ cmd' = [cmd EXCEPT ![x] = d]
              \/ cmd' = [cmd EXCEPT ![x] = e]
              \/ Fail(x)
          BY <1>1, <3>5 DEF Receive
        <4> HIDE DEF n
        <4>2. d.docs = cmd[x].docs /\ e.docs = cmd[x].docs
          BY <3>1 DEF CmdRecord
        <4> HIDE DEF d, e
        <4> QED
          BY <2>2, <2>3, <4>1, <4>2
      <3> QED
        BY <2>4, <3>2, <3>3, <3>4, <3>5 DEF CommandStep
    <2> QED
      BY <2>1, <2>4 DEF Next, vars
  <1> QED
    BY <1>2 DEF DocsAreGiven

LEMMA PlacesOf ==
  ASSUME NEW T, NEW s \in Seq(T)
  PROVE  Len(s) \in Nat /\ DOMAIN s = 1 .. Len(s)
  OBVIOUS

LEMMA WithinLonger ==
  ASSUME NEW n \in Nat, NEW e \in Nat, n <= e, NEW i \in 1 .. n
  PROVE  i \in 1 .. e
  OBVIOUS

\* A step that lands one object lands it under a key of the table.
LEMMA LandedRowsStep ==
  ASSUME landed \in [Clients -> Seq(Object)], LandedHaveRows, RowsStay, LandsWhatIsStored
  PROVE  LandedHaveRows'
  <1> SUFFICES ASSUME NEW x \in Clients, NEW i \in 1 .. Len(landed'[x])
               PROVE  StoreKey(landed'[x][i]) \in DOMAIN stored'
    BY DEF LandedHaveRows
  <1> DEFINE l == landed[x]
  <1>1. l \in Seq(Object) /\ Len(l) \in Nat
    OBVIOUS
  <1>2. ASSUME NEW j \in 1 .. Len(l) PROVE StoreKey(l[j]) \in DOMAIN stored'
    BY DEF LandedHaveRows, RowsStay
  <1>3. CASE landed'[x] = l
    BY <1>2, <1>3
  <1>4. ASSUME NEW o \in Object, landed'[x] = Append(l, o), HoldsRow(stored', o)
        PROVE  StoreKey(landed'[x][i]) \in DOMAIN stored'
    <2>1. Len(landed'[x]) = Len(l) + 1
      BY <1>1, <1>4
    <2>2. CASE i = Len(l) + 1
      <3>1. landed'[x][i] = o
        BY <1>1, <1>4, <2>2
      <3> QED
        BY <1>4, <3>1 DEF HoldsRow
    <2>3. CASE i # Len(l) + 1
      <3>1. i \in 1 .. Len(l)
        BY <1>1, <2>1, <2>3
      <3>2. landed'[x][i] = l[i]
        BY <1>1, <1>4, <3>1
      <3> QED
        BY <1>2, <3>1, <3>2
    <2> QED
      BY <2>2, <2>3
  <1> QED
    BY <1>3, <1>4 DEF LandsWhatIsStored

LEMMA NothingLandedYet == Init => LandedHaveRows
  <1>1. Init => \A x \in Clients : landed[x] = << >>
    BY DEF Init, KeeperInit
  <1> QED
    BY <1>1 DEF LandedHaveRows

\* Whatever Apply stored, Get finds under the kind, colony and name the object
\* was applied with, unless a manifest puts a Colony into a colony: Apply then
\* stores it under that colony (colony.go:52-71) and GetColony looks for it
\* under none (colony.go:73-74).
THEOREM AppliedIsAlwaysFound ==
  ASSUME \A x \in Clients : \A m \in Manifests[x] : \A i \in DOMAIN m :
           m[i].object.kind = "Colony" => m[i].object.colony = ""
  PROVE  Spec => []AppliedIsFound
  <1> DEFINE Inv == Typed /\ AllConsistent /\ DocsAreGiven /\ LandedHaveRows
  <1>1. Init => Inv
    <2>1. ASSUME Init PROVE DocsAreGiven
      <3>1. PICK given \in [Clients -> UNION {Manifests[x] : x \in Clients}] :
              /\ \A x \in Clients : given[x] \in Manifests[x]
              /\ cmd = [x \in Clients |->
                   [stage |-> "reading", docs |-> given[x], at |-> 0, exit |-> Nil,
                    report |-> Nil]]
        BY <2>1 DEF Init
      <3> QED
        BY <3>1 DEF DocsAreGiven
    <2> QED
      BY <2>1, NothingLandedYet, TypedInit, ConsistentInit
  <1>2. Inv /\ [Next]_vars => Inv'
    BY TypedStep, ConsistentStep, DocsStay, StepsLandStored, LandedRowsStep
    DEF Typed, KeeperTyped
  <1>3. Inv => AppliedIsFound
    <2> SUFFICES ASSUME Inv, NEW x \in Clients, NEW i \in DOMAIN landed[x]
                 PROVE  LET o == landed[x][i]
                        IN  GetKey(o.kind, o.colony, o.name) \in DOMAIN stored
      BY DEF AppliedIsFound
    <2> DEFINE o == landed[x][i]
               d == cmd[x].docs
               n == Len(landed[x])
    <2>1. /\ n \in Nat /\ DOMAIN landed[x] = 1 .. n
          /\ Len(d) \in Nat /\ DOMAIN d = 1 .. Len(d)
      <3>1. landed[x] \in Seq(Object) /\ d \in Seq(Document)
        BY CommandOf DEF Typed, KeeperTyped
      <3> QED
        BY <3>1, PlacesOf
    <2>2. i \in 1 .. n
      BY <2>1
    <2>3. n <= Len(d) /\ o = d[i].object
      BY <2>2 DEF AllConsistent, Consistent, Counted, InOrder
    <2>4. StoreKey(o) \in DOMAIN stored
      BY <2>2 DEF LandedHaveRows
    <2>5. i \in DOMAIN d
      BY <2>1, <2>2, <2>3, WithinLonger
    <2>6. o.kind = "Colony" => o.colony = ""
      BY <2>3, <2>5 DEF DocsAreGiven
    <2>7. GetKey(o.kind, o.colony, o.name) = StoreKey(o)
      BY <2>6 DEF GetKey, StoreKey
    <2> QED
      BY <2>4, <2>7
  <1> HIDE DEF Inv
  <1> QED
    BY <1>1, <1>2, <1>3, PTL DEF Spec
=============================================================================
