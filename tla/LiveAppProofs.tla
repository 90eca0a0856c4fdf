--------------------------- MODULE LiveAppProofs ---------------------------
(***************************************************************************)
(* The live wiring for any number of threads, hooks, events, policies and  *)
(* requests: what the engine has seen is on disk, no page shows a policy   *)
(* as unobserved next to a verdict of it, the engine sees of every thread  *)
(* what it emitted, in its order, and every page is one moment of the      *)
(* dashboard.                                                              *)
(*                                                                         *)
(* The first two say that an event met a hook before it met the engine.    *)
(* So both need the same invariant: the events the hook has dealt with     *)
(* include what the engine has seen, what is in the queue and what each    *)
(* thread that is past the hook still carries.  The third is about the     *)
(* line that leads from a thread through the queue to the engine.  The     *)
(* last compares the board with the histories of what was tapped and       *)
(* decided: they may differ by what the holder of the lock is doing, and   *)
(* by nothing else.                                                        *)
(***************************************************************************)
EXTENDS LiveApp, FiniteSetTheorems, SequenceTheorems, WellFoundedInduction, TLAPS

Record == [by : Thread, n : Nat]
Reader == Viewer \cup {Engine}

(* What the proofs need of types.                                          *)
Stage  == {"idle", "newline", "flush", "keep", "tap", "tapping", "push", "put", "set", "sentinel"}

Threads ==
  /\ calls \in [Thread -> Nat] /\ pc \in [Thread -> Stage] /\ em \in [Thread -> Stage]
  /\ \A t \in Thread : pc[t] = "put" => em[t] = "push"
Stores ==
  /\ DOMAIN file = {"buffer", "disk", "open", "torn", "horizon"}
  /\ DOMAIN board = {"events", "verdicts", "violations", "observed", "status", "alarms", "feed"}
  /\ DOMAIN board.status = Policy \X Key
Requests ==
  /\ DOMAIN view = Reader
  /\ \A r \in Reader : DOMAIN view[r] = {"stage", "asked", "page"}

Shape == Threads /\ Stores /\ Requests

(* The event a thread carries: the one in the second half of push(), or    *)
(* the next one.                                                           *)
Carried(t) == [by |-> t, n |-> IF pc[t] = "put" THEN calls[t] ELSE calls[t] + 1]

(* All that is queued or was yielded, and all that the threads in the      *)
(* given stages carry, belongs to S.                                       *)
Queued(S)  == queue \in Seq({CLOSED} \cup S) /\ yielded \in Seq(S)
Past(S, stages) == \A t \in Thread : em[t] \in stages => Carried(t) \in S

(* The first invariant: everything past the recorder is on disk.           *)
Traced ==
  "recorder" \in wired =>
    /\ Queued(file.disk)
    /\ Past(file.disk, {"keep", "tap", "tapping", "push"})
    /\ Past(file.buffer \cup file.disk, {"newline", "flush"})

(* The events whose type the dashboard has seen.                           *)
Noticed == {e \in Record : EventOf(e).type \in board.observed}
Observed(p) == board.observed \cap Watches[p] # {}
Consistent(upper) == \A p \in upper.unobserved, k \in Key : upper.status[<<p, k>>] = None

Truthful(v) == /\ v.stage = "half" => Consistent(v.page)
               /\ v.stage = "done" => Consistent(v.page.upper)

Verdict == [policy : Policy, key : Key, outcome : {Outcomes[i] : i \in Nat}]

Fed     == "dashboard" \in wired => Queued(Noticed) /\ Past(Noticed, {"tapping", "push"})
Decided == /\ sunk \in Seq({v \in Verdict : Observed(v.policy)})
           /\ engine \in {"sink", "sinking"} => sunk # <<>>
Cells   == \A p \in Policy, k \in Key : board.status[<<p, k>>] # None => Observed(p)
Pages   == \A r \in Reader : Truthful(view[r])

(* The second: everything past the dashboard was noticed, so a policy with *)
(* a verdict, a cell or a place on a page that is being read was observed. *)
Watched == Fed /\ Decided /\ Cells /\ Pages

-----------------------------------------------------------------------------
(* The application starts in that shape.                                   *)
LEMMA ShapeInit == LiveInit => Shape
<1> SUFFICES ASSUME LiveInit  PROVE Shape
  OBVIOUS
<1> USE DEF LiveInit, Init, DashboardInit
<1>1. /\ calls \in [Thread -> Nat] /\ pc \in [Thread -> Stage] /\ em \in [Thread -> Stage]
      /\ \A t \in Thread : pc[t] = "put" => em[t] = "push"
  <2>1. /\ pc = [t \in Thread |-> "idle"] /\ calls = [t \in Thread |-> 0]
        /\ em = [t \in Thread |-> "idle"]
    OBVIOUS
  <2> QED BY ONLY <2>1 DEF Stage
<1>2. DOMAIN file = {"buffer", "disk", "open", "torn", "horizon"}
  BY DEF NoTrace
<1>3. /\ DOMAIN board = {"events", "verdicts", "violations", "observed", "status", "alarms", "feed"}
      /\ DOMAIN board.status = Policy \X Key
  BY DEF Blank
<1>4. /\ DOMAIN view = Reader
      /\ \A r \in Reader : DOMAIN view[r] = {"stage", "asked", "page"}
  BY DEF NoView, Reader
<1> QED BY <1>1, <1>2, <1>3, <1>4 DEF Shape, Threads, Stores, Requests

(* Nothing is queued, emitted or written at the start.                     *)
LEMMA TracedInit == LiveInit => Traced
  BY DEF LiveInit, Init, Traced, Queued, Past

(* The page is blank at the start, and nobody has asked for it.            *)
LEMMA WatchedInit == LiveInit => Watched
<1> SUFFICES ASSUME LiveInit  PROVE Watched
  OBVIOUS
<1> USE DEF LiveInit, Init, DashboardInit
<1>1. Queued(Noticed) /\ Past(Noticed, {"tapping", "push"})
  BY DEF Queued, Past
<1>2. sunk = <<>> /\ engine = "pull"
  OBVIOUS
<1>3. \A p \in Policy, k \in Key : board.status[<<p, k>>] = None
  BY DEF Blank
<1>4. \A r \in Reader : view[r].stage = "none"
  BY DEF NoView, Reader
<1> QED BY <1>1, <1>2, <1>3, <1>4 DEF Watched, Fed, Decided, Cells, Pages, Truthful

(* Every step of the application keeps the shape; in particular a thread   *)
(* in the second half of push() is past its hooks.                         *)
LEMMA ShapeKept == Shape /\ [LiveNext]_lvars => Shape'
<1> SUFFICES ASSUME Shape, [LiveNext]_lvars  PROVE Shape'
  OBVIOUS
<1> USE DEF vars, dashboardVars, recorderVars
<1>1. ASSUME NEW t \in Thread, RecordLine(t)  PROVE Shape'
  <2>1. Threads'
    BY <1>1 DEF RecordLine, At, Then, Abort, Shape, Threads, Stage
  <2>2. Stores' /\ Requests'
    BY <1>1 DEF RecordLine, Shape, Stores, Requests
  <2> QED BY <2>1, <2>2 DEF Shape
<1>2. ASSUME NEW t \in Thread, RecordNewline(t)  PROVE Shape'
  <2>1. Threads'
    BY <1>2 DEF RecordNewline, Then, Abort, Shape, Threads, Stage
  <2>2. Stores' /\ Requests'
    BY <1>2 DEF RecordNewline, Shape, Stores, Requests
  <2> QED BY <2>1, <2>2 DEF Shape
<1>3. ASSUME NEW t \in Thread, RecordFlush(t)  PROVE Shape'
  <2>1. Threads'
    BY <1>3 DEF RecordFlush, BehindRecorder, Then, Abort, Shape, Threads, Stage
  <2>2. Stores' /\ Requests'
    BY <1>3 DEF RecordFlush, Flushed, Shape, Stores, Requests
  <2> QED BY <2>1, <2>2 DEF Shape
<1>4. ASSUME NEW t \in Thread, RecordTime(t)  PROVE Shape'
  BY <1>4 DEF RecordTime, BehindRecorder, Then, Shape, Threads, Stores, Requests, Stage
<1>5. ASSUME NEW t \in Thread, Tap(t)  PROVE Shape'
  BY <1>5 DEF Tap, TapBegin, Take, At, Then, Shape, Threads, Stores, Requests, Stage
<1>6. ASSUME NEW t \in Thread, TapDone(t)  PROVE Shape'
  <2>1. Threads'
    BY <1>6 DEF TapDone, Then, Abort, Shape, Threads, Stage
  <2>2. Stores'
    BY <1>6 DEF TapDone, TapEnd, Shape, Stores
  <2> QED BY <1>6, <2>1, <2>2 DEF TapDone, Shape, Requests
<1>7. ASSUME NEW t \in Thread, Push(t)  PROVE Shape'
  <2>1. CASE PushCheck(t)
    <3>1. Then(t, IF closed THEN "idle" ELSE "push")
      BY <1>7, <2>1 DEF Push, PushPut, PushCheck
    <3>2. Threads'
      <4>1. CASE closed
        BY <3>1, <2>1, <4>1 DEF PushCheck, Then, Shape, Threads, Stage
      <4>2. CASE ~closed
        BY <3>1, <2>1, <4>2 DEF PushCheck, Then, Shape, Threads, Stage
      <4> QED BY <4>1, <4>2
    <3> QED BY <1>7, <3>2 DEF Push, Shape, Stores, Requests
  <2>2. CASE PushPut(t)
    BY <1>7, <2>2 DEF Push, PushPut, Then, Shape, Threads, Stores, Requests, Stage
  <2> QED BY <1>7, <2>1, <2>2 DEF Push
<1>8. ASSUME NEW r \in Reader, Ask(r) \/ StateBegin(r) \/ StateEnd(r)  PROVE Shape'
  <2>1. Threads' /\ Stores'
    BY <1>8 DEF Ask, StateBegin, StateEnd, ReadBegin, ReadEnd, Shape, Threads, Stores
  <2>2. CASE Ask(r)
    BY <2>1, <2>2 DEF Ask, Shape, Requests
  <2>3. CASE StateBegin(r)
    BY <2>1, <2>3 DEF StateBegin, Shape, Requests
  <2>4. CASE StateEnd(r)
    BY <2>1, <2>4 DEF StateEnd, Shape, Requests
  <2> QED BY <1>8, <2>2, <2>3, <2>4
<1>9. CASE Pull
  BY <1>9 DEF Pull, Get, Shape, Threads, Stores, Requests
<1>10. CASE Sink
  <2>1. Threads' /\ Requests'
    BY <1>10 DEF Sink, Shape, Threads, Requests
  <2>2. CASE \E v : SinkBegin(Engine, v)
    BY <1>10, <2>1, <2>2 DEF Sink, SinkBegin, Shape, Stores
  <2>3. CASE \E v : SinkEnd(v)
    BY <1>10, <2>1, <2>3 DEF Sink, SinkEnd, Shape, Stores
  <2> QED BY <1>10, <2>2, <2>3 DEF Sink
<1>11. CASE Forward \/ Looked
  BY <1>11 DEF Forward, Looked, NoView, Reader, Shape, Threads, Stores, Requests
<1>12. CASE CloseSource
  BY <1>12, LiveAppAssumption DEF CloseSource, CloseCheck, CloseSet, CloseSentinel, Shape, Threads, Stores, Requests, Stage
<1>13. CASE WriteHorizon \/ CloseRecorder
  BY <1>13 DEF WriteHorizon, CloseRecorder, Flushed, Shape, Threads, Stores, Requests
<1>14. ASSUME \/ UNCHANGED lvars \/ Return \/ JoinAndStop
              \/ \E p \in Policy, k \in Key : Decide(p, k)
       PROVE  Shape'
  BY <1>14 DEF lvars, Return, JoinAndStop, Decide, Shape, Threads, Stores, Requests
<1> QED
  BY <1>1, <1>2, <1>3, <1>4, <1>5, <1>6, <1>7, <1>8, <1>9, <1>10, <1>11, <1>12, <1>13, <1>14
     DEF LiveNext, Emission, Reader

(* QueueSource adds nothing to what is queued or was yielded but the       *)
(* sentinel and the event a thread puts.                                   *)
LEMMA SourceKept ==
  ASSUME NEW S, Queued(S),
         \/ UNCHANGED <<queue, yielded>>
         \/ Get
         \/ CloseSource
         \/ \E t \in Thread : PushPut(t) /\ Event(t) \in S
  PROVE  queue' \in Seq({CLOSED} \cup S) /\ yielded' \in Seq(S)
<1> USE DEF Queued
<1>1. CASE Get
  <2>1. Head(queue) \in {CLOSED} \cup S /\ Tail(queue) \in Seq({CLOSED} \cup S)
    BY <1>1, HeadTailProperties DEF Get
  <2>2. Head(queue) # CLOSED => Append(yielded, Head(queue)) \in Seq(S)
    BY <2>1, AppendProperties
  <2> QED BY <1>1, <2>1, <2>2 DEF Get
<1>2. CASE CloseSource
  <2>1. Append(queue, CLOSED) \in Seq({CLOSED} \cup S)
    BY AppendProperties
  <2> QED BY <1>2, <2>1 DEF CloseSource, CloseCheck, CloseSet, CloseSentinel
<1>3. ASSUME NEW t \in Thread, PushPut(t) /\ Event(t) \in S
      PROVE  queue' \in Seq({CLOSED} \cup S) /\ yielded' \in Seq(S)
  <2>1. Event(t) \in S => Append(queue, Event(t)) \in Seq({CLOSED} \cup S)
    BY AppendProperties
  <2> QED BY <1>3, <2>1 DEF PushPut
<1> QED BY <1>1, <1>2, <1>3

(* What holds of the queue for a set holds for a larger one.               *)
LEMMA SourceWiden ==
  ASSUME NEW S, NEW T, S \subseteq T, Queued(S)
  PROVE  Queued(T)
<1>1. {CLOSED} \cup S \subseteq {CLOSED} \cup T
  OBVIOUS
<1> QED BY <1>1, SeqMonotonic DEF Queued

(* The hooks of an application are fixed when it is built.                 *)
LEMMA WiredKept == [LiveNext]_lvars => wired' = wired
  BY DEF lvars, LiveNext, Emission, RecordLine, RecordNewline, RecordFlush, RecordTime, Tap, TapDone,
         Push, Ask, StateBegin, StateEnd, Pull, Decide, Sink, Forward, Looked, Return, CloseSource,
         JoinAndStop, WriteHorizon, CloseRecorder

(* TraceRecorder.__call__ flushes before the thread goes on to push, and   *)
(* nothing takes a record out of the file.                                 *)
LEMMA TracedKept == Shape /\ Traced /\ [LiveNext]_lvars => Traced'
<1> SUFFICES ASSUME Shape, Traced, [LiveNext]_lvars, "recorder" \in wired'
             PROVE  /\ Queued(file.disk)'
                    /\ Past(file.disk, {"keep", "tap", "tapping", "push"})'
                    /\ Past(file.buffer \cup file.disk, {"newline", "flush"})'
  BY DEF Traced
<1> DEFINE Kept == /\ Queued(file.disk)'
                   /\ Past(file.disk, {"keep", "tap", "tapping", "push"})'
                   /\ Past(file.buffer \cup file.disk, {"newline", "flush"})'
<1> USE DEF vars, dashboardVars, recorderVars
<1>0. /\ Threads /\ Stores
      /\ Queued(file.disk)
      /\ Past(file.disk, {"keep", "tap", "tapping", "push"})
      /\ Past(file.buffer \cup file.disk, {"newline", "flush"})
      /\ Entrance = "line"
  BY WiredKept DEF Traced, Shape, Entrance
<1>1. ASSUME NEW t \in Thread, RecordLine(t)  PROVE Kept
  <2>1. em[t] = "idle" /\ pc[t] = "idle"
    <3>1. em[t] # "line"
      BY <1>0 DEF Threads, Stage
    <3> QED BY <1>1, <3>1 DEF RecordLine, At
  <2>2. CASE main = "done"
    BY <1>0, <1>1, <2>2 DEF RecordLine, Then, Abort, Threads, Queued, Past, Carried
  <2>3. CASE main # "done"
    <3>1. /\ file'.disk = file.disk
          /\ file'.buffer = file.buffer \cup {Carried(t)}
          /\ Then(t, "newline") /\ UNCHANGED <<queue, yielded, pc, calls>>
      BY <1>0, <1>1, <2>1, <2>3 DEF RecordLine, Stores, Threads, Carried
    <3> QED BY <1>0, <3>1 DEF Then, Threads, Queued, Past, Carried
  <2> QED BY <2>2, <2>3
<1>2. ASSUME NEW t \in Thread, RecordNewline(t)  PROVE Kept
  BY <1>0, <1>2 DEF RecordNewline, Then, Abort, Threads, Stores, Queued, Past, Carried
<1>3. ASSUME NEW t \in Thread, RecordFlush(t)  PROVE Kept
  <2>1. CASE main = "done"
    BY <1>0, <1>3, <2>1 DEF RecordFlush, Then, Abort, Threads, Queued, Past, Carried
  <2>2. CASE main # "done"
    <3>1. /\ file'.disk = file.disk \cup file.buffer /\ file'.buffer = {}
          /\ em[t] = "flush" /\ UNCHANGED <<queue, yielded, pc, calls>>
          /\ \E stage \in {"keep", "tap", "push"} : Then(t, stage)
      BY <1>0, <1>3, <2>2 DEF RecordFlush, Flushed, BehindRecorder, Stores
    <3>2. Queued(file'.disk)
      BY <1>0, <3>1, SourceWiden
    <3>3. Carried(t) \in file'.disk
      BY <1>0, <1>3, <3>1 DEF Past
    <3> QED BY <1>0, <3>1, <3>2, <3>3 DEF Then, Threads, Queued, Past, Carried
  <2> QED BY <2>1, <2>2
<1>4. ASSUME NEW t \in Thread, RecordTime(t)  PROVE Kept
  BY <1>0, <1>4 DEF RecordTime, BehindRecorder, Then, Threads, Stores, Queued, Past, Carried
<1>5. ASSUME NEW t \in Thread, Tap(t)  PROVE Kept
  BY <1>0, <1>5 DEF Tap, TapBegin, At, Then, Threads, Queued, Past, Carried
<1>6. ASSUME NEW t \in Thread, TapDone(t)  PROVE Kept
  BY <1>0, <1>6 DEF TapDone, Then, Abort, Threads, Queued, Past, Carried
<1>7. ASSUME NEW t \in Thread, Push(t)  PROVE Kept
  <2>1. em[t] = "push" /\ UNCHANGED file
    BY <1>0, <1>7 DEF Push, At
  <2>2. CASE PushCheck(t)
    <3>1. CASE closed
      BY <1>0, <1>7, <2>1, <2>2, <3>1 DEF Push, PushCheck, PushPut, Then, Threads, Queued, Past, Carried
    <3>2. CASE ~closed
      <4>1. Carried(t)' = Carried(t)
        BY <1>0, <2>2, <3>2 DEF PushCheck, Threads, Carried
      <4> QED BY <1>0, <1>7, <2>1, <2>2, <3>2, <4>1
              DEF Push, PushCheck, PushPut, Then, Threads, Queued, Past, Carried
    <3> QED BY <3>1, <3>2
  <2>3. CASE PushPut(t)
    <3>1. Event(t) \in file.disk
      BY <1>0, <2>1, <2>3 DEF PushPut, Event, Past, Carried
    <3>2. queue' \in Seq({CLOSED} \cup file.disk) /\ yielded' \in Seq(file.disk)
      BY <1>0, <2>3, <3>1, SourceKept
    <3> QED BY <1>0, <1>7, <2>1, <2>3, <3>2
            DEF Push, PushCheck, PushPut, Then, Threads, Queued, Past, Carried
  <2> QED BY <1>7, <2>2, <2>3 DEF Push
<1>8. CASE Pull
  <2>1. queue' \in Seq({CLOSED} \cup file.disk) /\ yielded' \in Seq(file.disk)
    BY <1>0, <1>8, SourceKept DEF Pull
  <2> QED BY <1>0, <1>8, <2>1 DEF Pull, Get, Queued, Past, Carried
<1>9. CASE CloseSource
  <2>1. queue' \in Seq({CLOSED} \cup file.disk) /\ yielded' \in Seq(file.disk)
    BY <1>0, <1>9, SourceKept
  <2>2. \A t \in Thread : Carried(t)' = Carried(t)
    BY <1>0, <1>9, LiveAppAssumption
       DEF CloseSource, CloseCheck, CloseSet, CloseSentinel, Threads, Stage, Carried
  <2> QED BY <1>0, <1>9, <2>1, <2>2 DEF CloseSource, Queued, Past
<1>10. CASE WriteHorizon \/ CloseRecorder
  <2>1. /\ file.disk \subseteq file'.disk
        /\ file.buffer \cup file.disk \subseteq file'.buffer \cup file'.disk
        /\ UNCHANGED <<queue, yielded, pc, calls, em>>
    BY <1>0, <1>10 DEF WriteHorizon, CloseRecorder, Flushed, Stores
  <2>2. Queued(file'.disk)
    BY <1>0, <2>1, SourceWiden
  <2> QED BY <1>0, <2>1, <2>2 DEF Queued, Past, Carried
<1>11. ASSUME \/ UNCHANGED lvars \/ Sink \/ Forward \/ Looked \/ Return \/ JoinAndStop
              \/ \E r \in Reader : Ask(r) \/ StateBegin(r) \/ StateEnd(r)
              \/ \E p \in Policy, k \in Key : Decide(p, k)
       PROVE  Kept
  <2>1. UNCHANGED <<queue, yielded, pc, calls, em, file>>
    BY <1>11 DEF lvars, Ask, StateBegin, StateEnd, Sink, Forward, Looked, Return, JoinAndStop, Decide
  <2> QED BY <1>0, <2>1 DEF Queued, Past, Carried
<1> QED
  BY <1>1, <1>2, <1>3, <1>4, <1>5, <1>6, <1>7, <1>8, <1>9, <1>10, <1>11 DEF LiveNext, Emission, Reader

(* Only tap and sink write the dashboard's store.                          *)
LEMMA BoardKept ==
  ASSUME Stores, [LiveNext]_lvars
  PROVE  \/ board' = board
         \/ \E t \in Thread : Tap(t) \/ TapDone(t)
         \/ Sink
<1> USE DEF vars, dashboardVars
<1>1. ASSUME NEW t \in Thread, RecordLine(t) \/ RecordNewline(t) \/ RecordFlush(t) \/ RecordTime(t) \/ Push(t)
      PROVE  board' = board
  BY <1>1 DEF RecordLine, RecordNewline, RecordFlush, RecordTime, Push
<1>2. ASSUME NEW r \in Reader, Ask(r) \/ StateBegin(r) \/ StateEnd(r)  PROVE board' = board
  BY <1>2 DEF Ask, StateBegin, StateEnd, ReadBegin, ReadEnd
<1>3. ASSUME \/ UNCHANGED lvars \/ Pull \/ Forward \/ Looked \/ Return \/ CloseSource \/ JoinAndStop
             \/ WriteHorizon \/ CloseRecorder \/ \E p \in Policy, k \in Key : Decide(p, k)
      PROVE  board' = board
  BY <1>3 DEF lvars, Pull, Forward, Looked, Return, CloseSource, JoinAndStop, WriteHorizon, CloseRecorder,
              Decide
<1> QED BY <1>1, <1>2, <1>3 DEF LiveNext, Emission, Reader

(* The dashboard never forgets a type it has seen.                         *)
LEMMA ObservedGrows ==
  ASSUME Stores, [LiveNext]_lvars
  PROVE  board.observed \subseteq board'.observed
<1>1. ASSUME NEW t \in Thread, Tap(t)  PROVE board.observed \subseteq board'.observed
  BY <1>1 DEF Tap, TapBegin, Stores
<1>2. ASSUME NEW t \in Thread, TapDone(t)  PROVE board.observed \subseteq board'.observed
  BY <1>2 DEF TapDone, TapEnd, Stores
<1>3. CASE Sink
  BY <1>3 DEF Sink, SinkBegin, SinkEnd, Stores
<1> QED BY <1>1, <1>2, <1>3, BoardKept

(* Dashboard.tap notes the type of an event before the thread goes on to   *)
(* push it.                                                                *)
LEMMA FedKept == Shape /\ Fed /\ [LiveNext]_lvars => Fed'
<1> SUFFICES ASSUME Shape, Fed, [LiveNext]_lvars, "dashboard" \in wired'
             PROVE  Queued(Noticed)' /\ Past(Noticed, {"tapping", "push"})'
  BY DEF Fed
<1> DEFINE N == Noticed'
           Kept == /\ queue' \in Seq({CLOSED} \cup N) /\ yielded' \in Seq(N)
                   /\ \A t \in Thread : em'[t] \in {"tapping", "push"} => Carried(t)' \in N
<1> USE DEF vars, dashboardVars, recorderVars
<1>0. /\ Threads /\ Stores
      /\ Queued(N) /\ Past(N, {"tapping", "push"})
      /\ BehindRecorder = "tap" /\ (Entrance = "line" \/ Entrance = "tap")
  <2>1. wired' = wired
    BY WiredKept
  <2>2. Threads /\ Stores /\ Queued(Noticed) /\ Past(Noticed, {"tapping", "push"})
    BY <2>1 DEF Shape, Fed
  <2>3. Noticed \subseteq N
    BY <2>2, ObservedGrows DEF Noticed, EventOf
  <2>4. Queued(N)
    BY <2>2, <2>3, SourceWiden
  <2>5. BehindRecorder = "tap" /\ (Entrance = "line" \/ Entrance = "tap")
    BY <2>1 DEF BehindRecorder, Entrance
  <2> QED BY <2>2, <2>3, <2>4, <2>5 DEF Past
<1> HIDE DEF N
<1>1. ASSUME NEW t \in Thread, RecordLine(t) \/ RecordNewline(t) \/ RecordFlush(t) \/ RecordTime(t)
      PROVE  Kept
  <2>1. /\ UNCHANGED <<queue, yielded, pc>>
        /\ \A u \in Thread : u # t => calls'[u] = calls[u] /\ em'[u] = em[u]
        /\ em'[t] \notin {"tapping", "push"}
    BY <1>0, <1>1 DEF RecordLine, RecordNewline, RecordFlush, RecordTime, Then, Abort, Threads
  <2> QED BY <1>0, <2>1 DEF Queued, Past, Carried
<1>2. ASSUME NEW t \in Thread, Tap(t)  PROVE Kept
  <2>1. em[t] # "push" /\ pc[t] # "put"
    BY <1>0, <1>2 DEF Tap, At, Threads
  <2>2. Carried(t) \in Record /\ EventOf(Carried(t)) = Coming(t)
    BY <1>0, <2>1 DEF Record, Carried, EventOf, Coming, Threads
  <2>3. Coming(t).type \in board'.observed
    BY <1>0, <1>2 DEF Tap, TapBegin, Stores
  <2>4. Carried(t)' = Carried(t) /\ Carried(t) \in N
    BY <1>2, <2>2, <2>3 DEF Tap, N, Noticed, EventOf, Carried
  <2> QED BY <1>0, <1>2, <2>4 DEF Tap, Then, Threads, Queued, Past, Carried
<1>3. ASSUME NEW t \in Thread, TapDone(t)  PROVE Kept
  <2>1. CASE Coming(t).timed
    BY <1>0, <1>3, <2>1 DEF TapDone, Then, Threads, Queued, Past, Carried
  <2>2. CASE ~Coming(t).timed
    BY <1>0, <1>3, <2>2 DEF TapDone, Then, Abort, Threads, Queued, Past, Carried
  <2> QED BY <2>1, <2>2
<1>4. ASSUME NEW t \in Thread, Push(t)  PROVE Kept
  <2>1. em[t] = "push"
    BY <1>0, <1>4 DEF Push, At
  <2>2. CASE PushCheck(t) /\ closed
    BY <1>0, <1>4, <2>1, <2>2 DEF Push, PushCheck, PushPut, Then, Threads, Queued, Past, Carried
  <2>3. CASE PushCheck(t) /\ ~closed
    <3>1. Carried(t)' = Carried(t)
      BY <1>0, <2>3 DEF PushCheck, Threads, Carried
    <3> QED BY <1>0, <1>4, <2>1, <2>3, <3>1
            DEF Push, PushCheck, PushPut, Then, Threads, Queued, Past, Carried
  <2>4. CASE PushPut(t)
    <3>1. Event(t) \in N
      BY <1>0, <2>1, <2>4 DEF PushPut, Event, Past, Carried
    <3>2. queue' \in Seq({CLOSED} \cup N) /\ yielded' \in Seq(N)
      BY <1>0, <2>4, <3>1, SourceKept
    <3> QED BY <1>0, <1>4, <2>1, <2>4, <3>2
            DEF Push, PushCheck, PushPut, Then, Threads, Past, Carried
  <2> QED BY <1>4, <2>2, <2>3, <2>4 DEF Push
<1>5. ASSUME Pull  PROVE Kept
  <2>1. queue' \in Seq({CLOSED} \cup N) /\ yielded' \in Seq(N)
    BY <1>0, <1>5, SourceKept DEF Pull
  <2> QED BY <1>0, <1>5, <2>1 DEF Pull, Get, Past, Carried
<1>6. ASSUME CloseSource  PROVE Kept
  <2>1. queue' \in Seq({CLOSED} \cup N) /\ yielded' \in Seq(N)
    BY <1>0, <1>6, SourceKept
  <2>2. \A t \in Thread : Carried(t)' = Carried(t)
    BY <1>0, <1>6, LiveAppAssumption
       DEF CloseSource, CloseCheck, CloseSet, CloseSentinel, Threads, Stage, Carried
  <2> QED BY <1>0, <1>6, <2>1, <2>2 DEF CloseSource, Past
<1>7. ASSUME \/ UNCHANGED lvars \/ Sink \/ Forward \/ Looked \/ Return \/ JoinAndStop
             \/ WriteHorizon \/ CloseRecorder
             \/ \E r \in Reader : Ask(r) \/ StateBegin(r) \/ StateEnd(r)
             \/ \E p \in Policy, k \in Key : Decide(p, k)
      PROVE  Kept
  <2>1. UNCHANGED <<queue, yielded, pc, calls, em>>
    BY <1>7 DEF lvars, Ask, StateBegin, StateEnd, Sink, Forward, Looked, Return, JoinAndStop, Decide,
                WriteHorizon, CloseRecorder
  <2> QED BY <1>0, <2>1 DEF Queued, Past, Carried
<1>8. Kept
  BY <1>1, <1>2, <1>3, <1>4, <1>5, <1>6, <1>7 DEF LiveNext, Emission, Reader
<1> QED BY <1>8 DEF N, Queued, Past

(* A verdict is of a policy one of whose types the engine has seen.        *)
LEMMA DecidedKept == Shape /\ Fed /\ Decided /\ [LiveNext]_lvars => Decided'
<1> SUFFICES ASSUME Shape, Fed, Decided, [LiveNext]_lvars  PROVE Decided'
  OBVIOUS
<1> DEFINE S == {v \in Verdict : Observed(v.policy)}
           T == {v \in Verdict : Observed(v.policy)'}
<1> USE DEF vars, dashboardVars, recorderVars
<1>1. sunk \in Seq(S) /\ sunk \in Seq(T)
  <2>1. S \subseteq T
    BY ObservedGrows DEF Shape, Observed
  <2> QED BY <2>1, SeqMonotonic DEF Decided
<1>2. ASSUME NEW p \in Policy, NEW k \in Key, Decide(p, k)  PROVE Decided'
  <2>1. PICK i \in DOMAIN yielded : EventOf(yielded[i]).key = k /\ EventOf(yielded[i]).type \in Watches[p]
    BY <1>2 DEF Decide
  <2>2. yielded[i] \in Noticed
    BY <1>2, <2>1, ElementOfSeq, LenProperties DEF Decide, Fed, Queued
  <2>3. Observed(p)'
    BY <1>2, <2>1, <2>2 DEF Decide, Noticed, Observed
  <2>4. Len(sunk) + 1 \in Nat
    BY <1>1, LenProperties
  <2> DEFINE v == [policy |-> p, key |-> k, outcome |-> Outcomes[Len(sunk) + 1]]
  <2>5. v \in T
    BY <2>3, <2>4 DEF Verdict
  <2>6. sunk' = Append(sunk, v)
    BY <1>2 DEF Decide
  <2> QED BY <1>1, <2>5, <2>6, AppendProperties DEF Decided
<1>3. ASSUME NEW t \in Thread, Emission(t)  PROVE Decided'
  <2>1. UNCHANGED <<sunk, engine>>
    BY <1>3 DEF Emission, RecordLine, RecordNewline, RecordFlush, RecordTime, Tap, TapBegin, TapDone, TapEnd,
                Push
  <2> QED BY <1>1, <2>1 DEF Decided
<1>4. CASE Sink
  <2>1. UNCHANGED sunk /\ (engine' = "sinking" => engine = "sink") /\ engine' # "sink"
    BY <1>4 DEF Sink, SinkBegin, SinkEnd
  <2> QED BY <1>1, <2>1 DEF Decided
<1>5. CASE Forward \/ Looked \/ Return
  BY <1>1, <1>5 DEF Forward, Looked, Return, Decided
<1>6. ASSUME \/ UNCHANGED lvars \/ Pull \/ CloseSource \/ JoinAndStop \/ WriteHorizon \/ CloseRecorder
             \/ \E r \in Reader : Ask(r) \/ StateBegin(r) \/ StateEnd(r)
      PROVE  Decided'
  <2>1. UNCHANGED <<sunk, engine>>
    BY <1>6 DEF lvars, Pull, CloseSource, JoinAndStop, WriteHorizon, CloseRecorder, Ask, StateBegin, StateEnd,
                ReadBegin, ReadEnd
  <2> QED BY <1>1, <2>1 DEF Decided
<1> QED BY <1>2, <1>3, <1>4, <1>5, <1>6 DEF LiveNext, Reader

(* Dashboard.sink fills the cells of such policies only.                   *)
LEMMA CellsKept == Shape /\ Decided /\ Cells /\ [LiveNext]_lvars => Cells'
<1> SUFFICES ASSUME Shape, Decided, Cells, [LiveNext]_lvars,
                    NEW p \in Policy, NEW k \in Key, board'.status[<<p, k>>] # None
             PROVE  Observed(p)'
  BY DEF Cells
<1> USE DEF Shape, Stores
<1>1. Observed(p) => Observed(p)'
  BY ObservedGrows DEF Observed
<1>2. ASSUME engine = "sink", SinkBegin(Engine, sunk[Len(sunk)])  PROVE Observed(p)'
  <2> DEFINE v == sunk[Len(sunk)]
  <2>1. v \in {x \in Verdict : Observed(x.policy)}
    BY <1>2, ElementOfSeq, LenProperties, EmptySeq DEF Decided
  <2>2. /\ board'.observed = board.observed
        /\ board'.status = [board.status EXCEPT ![<<v.policy, v.key>>] = v.outcome]
    BY <1>2 DEF SinkBegin
  <2>3. CASE v.policy = p
    BY <2>1, <2>2, <2>3 DEF Observed
  <2>4. CASE v.policy # p
    <3>1. board'.status[<<p, k>>] = board.status[<<p, k>>]
      BY <2>2, <2>4
    <3> QED BY <1>1, <3>1 DEF Cells
  <2> QED BY <2>3, <2>4
<1>3. CASE board'.status = board.status
  BY <1>1, <1>3 DEF Cells
<1>4. ASSUME NEW t \in Thread, Tap(t) \/ TapDone(t)  PROVE board'.status = board.status
  BY <1>4 DEF Tap, TapBegin, TapDone, TapEnd
<1>5. ASSUME NEW v, SinkEnd(v)  PROVE board'.status = board.status
  BY <1>5 DEF SinkEnd
<1> QED BY <1>2, <1>3, <1>4, <1>5, BoardKept DEF Sink

(* Dashboard.state lists a policy as unobserved only when its cells are    *)
(* empty, in both halves of what it reads.                                 *)
LEMMA PagesKept == Shape /\ Cells /\ Pages /\ [LiveNext]_lvars => Pages'
<1> SUFFICES ASSUME Shape, Cells, Pages, [LiveNext]_lvars,
                    NEW q \in Reader, view'[q] # view[q]
             PROVE  Truthful(view'[q])
  BY DEF Pages, Truthful, Consistent
<1> USE DEF Shape, Requests
<1>1. ASSUME NEW r \in Reader, StateBegin(r)  PROVE Truthful(view'[q])
  <2>1. Consistent(UpperHalf)
    BY DEF Cells, Consistent, UpperHalf, Unobserved, Observed
  <2>2. q = r /\ view'[r].stage = "half" /\ view'[r].page = UpperHalf
    BY <1>1 DEF StateBegin
  <2> QED BY <2>1, <2>2 DEF Truthful
<1>2. ASSUME NEW r \in Reader, StateEnd(r)  PROVE Truthful(view'[q])
  <2>1. q = r /\ view'[r].stage = "done" /\ view'[r].page.upper = view[r].page /\ view[r].stage = "half"
    BY <1>2 DEF StateEnd
  <2> QED BY <2>1 DEF Pages, Truthful
<1>3. ASSUME NEW r \in Reader, Ask(r)  PROVE Truthful(view'[q])
  BY <1>3 DEF Ask, Truthful
<1>4. CASE Forward \/ Looked
  BY <1>4 DEF Forward, Looked, NoView, Reader, Truthful
<1>5. ASSUME NEW t \in Thread, Emission(t)  PROVE UNCHANGED view
  BY <1>5 DEF Emission, RecordLine, RecordNewline, RecordFlush, RecordTime, Tap, TapDone, Push
<1>6. ASSUME \/ UNCHANGED lvars \/ Pull \/ Sink \/ Return \/ CloseSource \/ JoinAndStop \/ WriteHorizon
             \/ CloseRecorder \/ \E p \in Policy, k \in Key : Decide(p, k)
      PROVE  UNCHANGED view
  BY <1>6 DEF lvars, Pull, Sink, Return, CloseSource, JoinAndStop, WriteHorizon, CloseRecorder, Decide
<1> QED BY <1>1, <1>2, <1>3, <1>4, <1>5, <1>6 DEF LiveNext, Reader

-----------------------------------------------------------------------------
(* The first invariant holds throughout.                                   *)
LEMMA TracedInvariant == LiveSpec => [](Shape /\ Traced)
<1>1. Shape /\ Traced /\ [LiveNext]_lvars => (Shape /\ Traced)'
  BY ShapeKept, TracedKept
<1> QED BY <1>1, ShapeInit, TracedInit, PTL DEF LiveSpec

(* So does the second.                                                     *)
LEMMA WatchedInvariant == LiveSpec => [](Shape /\ Watched)
<1>1. Shape /\ Watched /\ [LiveNext]_lvars => (Shape /\ Watched)'
  BY ShapeKept, FedKept, DecidedKept, CellsKept, PagesKept DEF Watched
<1> QED BY <1>1, ShapeInit, WatchedInit, PTL DEF LiveSpec

(* Every event the engine has seen is flushed in the trace                 *)
(* (TraceRecorder.__call__ comes before push), whoever emits and whenever  *)
(* the recorder is closed, so that a crash loses no event a verdict rests  *)
(* on.                                                                     *)
THEOREM TraceHoldsTheRun == LiveSpec => []YieldedOnDisk
<1>1. Traced => YieldedOnDisk
  <2> SUFFICES ASSUME Traced, "recorder" \in wired, NEW i \in DOMAIN yielded
               PROVE  yielded[i] \in file.disk
    BY DEF YieldedOnDisk
  <2> QED BY ElementOfSeq, LenProperties DEF Traced, Queued
<1> QED BY <1>1, TracedInvariant, PTL

(* No page of the dashboard warns that a policy is unobserved while it     *)
(* shows a verdict of it (Dashboard.state), for every interleaving of      *)
(* tap, sink and state, although a page is read after its event was        *)
(* tapped, queued, yielded and decided by three threads.                   *)
THEOREM WarningsAreTrue == LiveSpec => []VerdictWasObserved
<1>1. Shape /\ Watched => VerdictWasObserved
  BY DEF Watched, Pages, Truthful, Consistent, VerdictWasObserved, Reader
<1> QED BY <1>1, WatchedInvariant, PTL

-----------------------------------------------------------------------------
(* The third: the events of a thread, from the oldest the engine has seen  *)
(* to the youngest in the queue, are in the order of their emission, and   *)
(* none of those the thread is done with is missing.                       *)
Of(x, t) == x # CLOSED /\ x.by = t
Emitted(t, n) == [by |-> t, n |-> n]

(* y was yielded, q is queued, the thread t is done with its first k.      *)
InLine(t, y, q, k) ==
  /\ \A i, j \in DOMAIN y : i < j /\ Of(y[i], t) /\ Of(y[j], t) => y[i].n < y[j].n
  /\ \A i, j \in DOMAIN q : i < j /\ Of(q[i], t) /\ Of(q[j], t) => q[i].n < q[j].n
  /\ \A i \in DOMAIN y, j \in DOMAIN q : Of(y[i], t) /\ Of(q[j], t) => y[i].n < q[j].n
  /\ \A i \in DOMAIN y : Of(y[i], t) => y[i].n <= k
  /\ \A j \in DOMAIN q : Of(q[j], t) => q[j].n <= k
Somewhere(e, y, q, r) ==
  (\E i \in DOMAIN y : y[i] = e) \/ (\E j \in DOMAIN q : q[j] = e) \/ e \in r
NoneLost(t, y, q, r, k) == \A m \in 1 .. k : Somewhere(Emitted(t, m), y, q, r)

(* How many events the thread is done with: all that it has begun to push, *)
(* but for the one it carries to the queue.                                *)
DoneWith(t) == IF pc[t] = "put" THEN calls[t] - 1 ELSE calls[t]

Flowing ==
  /\ Queued(Record)
  /\ \A t \in Thread : /\ DoneWith(t) \in Nat
                       /\ InLine(t, yielded, queue, DoneWith(t))
                       /\ NoneLost(t, yielded, queue, refused, DoneWith(t))

(* One more element at the end of the queue: the sentinel, another         *)
(* thread's event, or the next of this thread.                             *)
LEMMA LineGrows ==
  ASSUME NEW t \in Thread, NEW k \in Nat, NEW y \in Seq(Record),
         NEW q \in Seq({CLOSED} \cup Record), NEW r, InLine(t, y, q, k), NoneLost(t, y, q, r, k),
         NEW x \in {CLOSED} \cup Record, Of(x, t) => x.n = k + 1,
         NEW h, h = IF Of(x, t) THEN k + 1 ELSE k
  PROVE  InLine(t, y, Append(q, x), h) /\ NoneLost(t, y, Append(q, x), r, h)
<1> DEFINE p == Append(q, x)
<1>1. /\ DOMAIN q = 1 .. Len(q) /\ DOMAIN p = 1 .. Len(q) + 1 /\ Len(q) \in Nat
      /\ p[Len(q) + 1] = x /\ \A j \in 1 .. Len(q) : p[j] = q[j]
  OBVIOUS
<1>2. /\ \A i \in DOMAIN y : y[i] \in Record
      /\ \A j \in DOMAIN q : q[j] \in {CLOSED} \cup Record
  OBVIOUS
<1>3. \A e \in Record : e.n \in Nat /\ e # CLOSED /\ e = Emitted(e.by, e.n)
  BY QueueAssumption DEF Record, Emitted
<1> DEFINE l == Len(q) + 1
<1>4. \A j \in DOMAIN p : (j \in DOMAIN q /\ j < l /\ p[j] = q[j]) \/ (j = l /\ p[j] = x)
  <2> HIDE DEF p
  <2> QED  BY <1>1
<1>5. h \in Nat /\ k <= h
  OBVIOUS
<1>6. \A j \in DOMAIN q : j \in Int /\ ~(l < j)
  BY <1>1
<1> HIDE DEF p, l
<1>7. \A i \in DOMAIN y : Of(y[i], t) => y[i].n <= h /\ (Of(x, t) => y[i].n < x.n)
  BY <1>2, <1>3 DEF InLine
<1>8. \A j \in DOMAIN q : Of(q[j], t) => q[j].n <= h /\ (Of(x, t) => q[j].n < x.n)
  <2> SUFFICES ASSUME NEW j \in DOMAIN q, Of(q[j], t)
               PROVE  q[j].n <= h /\ (Of(x, t) => q[j].n < x.n)
    OBVIOUS
  <2>1. q[j].n \in Nat /\ q[j].n <= k
    BY <1>2, <1>3 DEF InLine, Of
  <2> QED  BY <1>5, <2>1
<1>9. Of(x, t) => x.n <= h
  BY <1>5
<1>10. \A i, j \in DOMAIN p : i < j /\ Of(p[i], t) /\ Of(p[j], t) => p[i].n < p[j].n
  <2> SUFFICES ASSUME NEW i \in DOMAIN p, NEW j \in DOMAIN p, i < j, Of(p[i], t), Of(p[j], t)
               PROVE  p[i].n < p[j].n
    OBVIOUS
  <2>1. CASE j = l /\ p[j] = x
    <3>1. i \in DOMAIN q /\ p[i] = q[i]
      BY <1>1, <1>4, <2>1 DEF l
    <3> QED  BY <1>8, <2>1, <3>1
  <2>2. CASE j \in DOMAIN q /\ p[j] = q[j]
    <3>1. i \in DOMAIN q /\ p[i] = q[i]
      BY <1>4, <1>6, <2>2
    <3> QED  BY <2>2, <3>1 DEF InLine
  <2> QED  BY <1>4, <2>1, <2>2
<1>11. \A i \in DOMAIN y, j \in DOMAIN p : Of(y[i], t) /\ Of(p[j], t) => y[i].n < p[j].n
  <2> TAKE i \in DOMAIN y, j \in DOMAIN p
  <2>1. CASE p[j] = x
    BY <1>7, <2>1
  <2>2. CASE j \in DOMAIN q /\ p[j] = q[j]
    BY <2>2 DEF InLine
  <2> QED  BY <1>4, <2>1, <2>2
<1>12. \A j \in DOMAIN p : Of(p[j], t) => p[j].n <= h
  BY <1>4, <1>8, <1>9
<1>13. InLine(t, y, p, h)
  BY <1>7, <1>10, <1>11, <1>12 DEF InLine
<1>14. \A e : Somewhere(e, y, q, r) => Somewhere(e, y, p, r)
  BY <1>1, <1>4 DEF Somewhere, p
<1>15. Somewhere(x, y, p, r)
  BY <1>1 DEF Somewhere, p
<1>16. NoneLost(t, y, p, r, h)
  <2> SUFFICES ASSUME NEW m \in 1 .. h  PROVE Somewhere(Emitted(t, m), y, p, r)
    BY DEF NoneLost
  <2>1. CASE m \in 1 .. k
    BY <1>14, <2>1 DEF NoneLost
  <2>2. CASE m \notin 1 .. k
    <3>1. m = k + 1 /\ Of(x, t)
      BY <2>2
    <3>2. x = Emitted(t, m)
      BY <1>3, <3>1 DEF Of
    <3> QED  BY <1>15, <3>2
  <2> QED  BY <2>1, <2>2
<1> QED  BY <1>13, <1>16 DEF p

(* The head of the queue is yielded, or was the sentinel.                  *)
LEMMA LineMoves ==
  ASSUME NEW t \in Thread, NEW k \in Nat, NEW y \in Seq(Record),
         NEW q \in Seq({CLOSED} \cup Record), NEW r, InLine(t, y, q, k), NoneLost(t, y, q, r, k),
         q # <<>>, NEW z, z = IF Head(q) = CLOSED THEN y ELSE Append(y, Head(q))
  PROVE  InLine(t, z, Tail(q), k) /\ NoneLost(t, z, Tail(q), r, k)
<1> DEFINE x == Head(q)
           p == Tail(q)
           l == Len(y) + 1
<1>1. /\ DOMAIN q = 1 .. Len(q) /\ DOMAIN p = 1 .. Len(q) - 1 /\ Len(q) \in Nat \ {0}
      /\ x = q[1] /\ \A j \in 1 .. Len(q) - 1 : p[j] = q[j + 1]
      /\ x \in {CLOSED} \cup Record
  OBVIOUS
<1>2. \A j \in DOMAIN p : j + 1 \in DOMAIN q /\ p[j] = q[j + 1] /\ 1 < j + 1 /\ j \in Int
  BY <1>1
<1>3. \A j \in DOMAIN q : (j = 1 /\ q[j] = x) \/ (j - 1 \in DOMAIN p /\ q[j] = p[j - 1])
  <2> HIDE DEF p, x
  <2> TAKE j \in DOMAIN q
  <2>1. CASE j = 1
    BY <1>1, <2>1
  <2>2. CASE j # 1
    <3>1. j \in 1 .. Len(q) /\ Len(q) \in Nat
      BY <1>1
    <3>2. j - 1 \in 1 .. Len(q) - 1 /\ j - 1 + 1 = j
      BY <2>2, <3>1
    <3> QED  BY <1>1, <3>2
  <2> QED  BY <2>1, <2>2
<1>4. 1 \in DOMAIN q /\ q[1] = x
  BY <1>1
<1>5. \/ x = CLOSED /\ z = y
      \/ /\ x # CLOSED /\ l \in DOMAIN z /\ z[l] = x
         /\ \A i \in DOMAIN y : i \in DOMAIN z /\ z[i] = y[i]
         /\ \A i \in DOMAIN z : (i \in DOMAIN y /\ i < l /\ z[i] = y[i]) \/ (i = l /\ z[i] = x)
         /\ \A i \in DOMAIN y : ~(l < i)
  <2>1. CASE x = CLOSED
    BY <2>1
  <2>2. CASE x # CLOSED
    <3>1. z = Append(y, x) /\ x \in Record
      BY <1>1, <2>2
    <3> HIDE DEF x
    <3>2. /\ DOMAIN y = 1 .. Len(y) /\ DOMAIN z = 1 .. Len(y) + 1 /\ Len(y) \in Nat
          /\ z[Len(y) + 1] = x /\ \A i \in 1 .. Len(y) : z[i] = y[i]
      BY <3>1
    <3>3. l \in DOMAIN z /\ z[l] = x
      BY <3>2
    <3>4. \A i \in DOMAIN y : i \in DOMAIN z /\ z[i] = y[i] /\ ~(l < i)
      BY <3>2
    <3>5. ASSUME NEW i \in DOMAIN z
          PROVE  (i \in DOMAIN y /\ i < l /\ z[i] = y[i]) \/ (i = l /\ z[i] = x)
      <4>1. i = Len(y) + 1 \/ i \in 1 .. Len(y)
        BY <3>2
      <4> QED  BY <3>2, <4>1
    <3> HIDE DEF l
    <3> QED  BY <2>2, <3>3, <3>4, <3>5
  <2> QED  BY <2>1, <2>2
<1> HIDE DEF x, p, l
<1>6. \A i, j \in DOMAIN p : i < j /\ Of(p[i], t) /\ Of(p[j], t) => p[i].n < p[j].n
  <2> SUFFICES ASSUME NEW i \in DOMAIN p, NEW j \in DOMAIN p, i < j, Of(p[i], t), Of(p[j], t)
               PROVE  p[i].n < p[j].n
    OBVIOUS
  <2>1. i + 1 \in DOMAIN q /\ j + 1 \in DOMAIN q /\ i + 1 < j + 1
    BY <1>2
  <2> QED  BY <1>2, <2>1 DEF InLine
<1>7. \A j \in DOMAIN p : Of(p[j], t) => p[j].n <= k /\ (Of(x, t) => x.n < p[j].n)
  BY <1>2, <1>4 DEF InLine
<1>8. Of(x, t) => x.n <= k /\ (\A i \in DOMAIN y : Of(y[i], t) => y[i].n < x.n)
  BY <1>4 DEF InLine
<1>9. \A i \in DOMAIN y, j \in DOMAIN p : Of(y[i], t) /\ Of(p[j], t) => y[i].n < p[j].n
  BY <1>2 DEF InLine
<1>10. InLine(t, z, p, k)
  <2>1. CASE z = y
    BY <1>6, <1>7, <1>9, <2>1 DEF InLine
  <2>2. CASE ~(z = y)
    <3>1. \A i \in DOMAIN z : (i \in DOMAIN y /\ i < l /\ z[i] = y[i]) \/ (i = l /\ z[i] = x)
      BY <1>5, <2>2
    <3>2. \A i \in DOMAIN y : ~(l < i)
      BY <1>5, <2>2
    <3>3. \A i, j \in DOMAIN z : i < j /\ Of(z[i], t) /\ Of(z[j], t) => z[i].n < z[j].n
      <4> SUFFICES ASSUME NEW i \in DOMAIN z, NEW j \in DOMAIN z, i < j, Of(z[i], t), Of(z[j], t)
                   PROVE  z[i].n < z[j].n
        OBVIOUS
      <4>1. CASE j = l /\ z[j] = x
        <5>1. i \in DOMAIN y /\ z[i] = y[i]
          <6>1. l \in Int
            BY DEF l
          <6> QED  BY <3>1, <4>1, <6>1
        <5> QED  BY <1>8, <4>1, <5>1
      <4>2. CASE j \in DOMAIN y /\ z[j] = y[j]
        <5>1. i \in DOMAIN y /\ z[i] = y[i]
          BY <3>1, <3>2, <4>2
        <5> QED  BY <4>2, <5>1 DEF InLine
      <4> QED  BY <3>1, <4>1, <4>2
    <3>4. \A i \in DOMAIN z, j \in DOMAIN p : Of(z[i], t) /\ Of(p[j], t) => z[i].n < p[j].n
      BY <1>7, <1>9, <3>1
    <3>5. \A i \in DOMAIN z : Of(z[i], t) => z[i].n <= k
      BY <1>8, <3>1 DEF InLine
    <3> QED  BY <1>6, <1>7, <3>3, <3>4, <3>5 DEF InLine
  <2> QED  BY <2>1, <2>2
<1>11. ASSUME NEW m \in 1 .. k  PROVE Somewhere(Emitted(t, m), z, p, r)
  <2> DEFINE e == Emitted(t, m)
  <2>1. Somewhere(e, y, q, r)
    BY DEF NoneLost
  <2>2. e # CLOSED
    BY QueueAssumption DEF Emitted
  <2> HIDE DEF e
  <2>3. ASSUME NEW i \in DOMAIN y, y[i] = e  PROVE Somewhere(e, z, p, r)
    BY <1>5, <2>3 DEF Somewhere
  <2>4. ASSUME NEW j \in DOMAIN q, q[j] = e  PROVE Somewhere(e, z, p, r)
    BY <1>3, <1>5, <2>2, <2>4 DEF Somewhere
  <2> QED  BY <2>1, <2>3, <2>4 DEF Somewhere, e
<1> QED  BY <1>10, <1>11 DEF NoneLost, p, x

(* An event that raised in the service is done with and out of the line.   *)
LEMMA LineSkips ==
  ASSUME NEW t \in Thread, NEW k \in Nat, NEW y \in Seq(Record),
         NEW q \in Seq({CLOSED} \cup Record), NEW r, InLine(t, y, q, k), NoneLost(t, y, q, r, k)
  PROVE  /\ InLine(t, y, q, k + 1)
         /\ NoneLost(t, y, q, r \cup {Emitted(t, k + 1)}, k + 1)
<1>1. /\ \A i \in DOMAIN y : y[i] \in Record
      /\ \A j \in DOMAIN q : q[j] \in {CLOSED} \cup Record
  OBVIOUS
<1>2. \A n \in Nat : n <= k => n <= k + 1
  OBVIOUS
<1>3. \A e \in Record : e.n \in Nat
  BY DEF Record
<1>4. /\ \A i \in DOMAIN y : Of(y[i], t) => y[i].n <= k + 1
      /\ \A j \in DOMAIN q : Of(q[j], t) => q[j].n <= k + 1
  BY <1>1, <1>2, <1>3 DEF InLine, Of
<1>5. InLine(t, y, q, k + 1)
  BY <1>4 DEF InLine
<1>6. ASSUME NEW m \in 1 .. k + 1
      PROVE  Somewhere(Emitted(t, m), y, q, r \cup {Emitted(t, k + 1)})
  <2>1. m = k + 1 \/ m \in 1 .. k
    OBVIOUS
  <2> QED  BY <2>1 DEF NoneLost, Somewhere
<1> QED  BY <1>5, <1>6 DEF NoneLost

(* What a step does to the line: an event of t raises, a push begins, the  *)
(* put of one, a turn of the consumer, a part of close(), or nothing.      *)
Left(t) ==
  /\ pc[t] # "put" /\ calls' = [calls EXCEPT ![t] = @ + 1]
  /\ refused' = refused \cup {Emitted(t, calls[t] + 1)}
  /\ UNCHANGED <<queue, yielded, pc>>
Begun(t) ==
  /\ pc[t] = "idle" /\ calls' = [calls EXCEPT ![t] = @ + 1] /\ pc' = [pc EXCEPT ![t] = "put"]
  /\ UNCHANGED <<queue, yielded, refused>>

(* Every step of the application is one of these for the line.             *)
LEMMA StepOfLine ==
  ASSUME Shape, [LiveNext]_lvars
  PROVE  \/ \E t \in Thread : Left(t) \/ Begun(t) \/ PushPut(t)
         \/ Get \/ CloseSource
         \/ UNCHANGED <<queue, yielded, refused, pc, calls>>
<1> DEFINE Goal == \/ \E t \in Thread : Left(t) \/ Begun(t) \/ PushPut(t)
                   \/ Get \/ CloseSource
                   \/ UNCHANGED <<queue, yielded, refused, pc, calls>>
<1> USE DEF vars
<1>0. Threads
  BY DEF Shape
<1>1. ASSUME NEW t \in Thread, pc[t] # "put", Abort(t)  PROVE Left(t)
  BY <1>0, <1>1 DEF Abort, Left, Event, Emitted, Threads
<1>2. ASSUME NEW t \in Thread, Emission(t)  PROVE Goal
  <2>1. CASE RecordLine(t) \/ RecordNewline(t) \/ RecordFlush(t) \/ TapDone(t)
    <3>1. pc[t] # "put"
      BY <1>0, <2>1 DEF RecordLine, RecordNewline, RecordFlush, TapDone, At, Threads, Stage
    <3>2. Abort(t) \/ UNCHANGED vars
      BY <2>1 DEF RecordLine, RecordNewline, RecordFlush, TapDone
    <3> QED  BY <1>1, <3>1, <3>2
  <2>2. CASE RecordTime(t) \/ Tap(t)
    BY <2>2 DEF RecordTime, Tap
  <2>3. CASE Push(t)
    <3>1. CASE PushCheck(t)
      <4>1. CASE closed
        BY <1>0, <3>1, <4>1 DEF PushCheck, Left, Event, Emitted, Threads
      <4>2. CASE ~closed
        BY <3>1, <4>2 DEF PushCheck, Begun
      <4> QED  BY <4>1, <4>2
    <3>2. CASE PushPut(t)
      BY <3>2
    <3> QED  BY <2>3, <3>1, <3>2 DEF Push
  <2> QED  BY <1>2, <2>1, <2>2, <2>3 DEF Emission
<1>3. ASSUME Pull \/ CloseSource  PROVE Goal
  BY <1>3 DEF Pull
<1>4. CASE UNCHANGED lvars
  BY <1>4 DEF lvars
<1>5. ASSUME NEW r \in Reader, Ask(r) \/ StateBegin(r) \/ StateEnd(r)  PROVE Goal
  BY <1>5 DEF Ask, StateBegin, StateEnd
<1>6. ASSUME NEW p \in Policy, NEW k \in Key, Decide(p, k)  PROVE Goal
  BY <1>6 DEF Decide
<1>7. ASSUME \/ Sink \/ Forward \/ Looked \/ Return \/ JoinAndStop \/ WriteHorizon \/ CloseRecorder
      PROVE  Goal
  BY <1>7 DEF Sink, Forward, Looked, Return, JoinAndStop, WriteHorizon, CloseRecorder
<1> QED  BY <1>2, <1>3, <1>4, <1>5, <1>6, <1>7 DEF LiveNext, Reader

(* The lines are empty at the start.                                       *)
LEMMA FlowingInit == LiveInit => Flowing
<1> SUFFICES ASSUME LiveInit  PROVE Flowing
  OBVIOUS
<1>1. /\ queue = <<>> /\ yielded = <<>>
      /\ \A t \in Thread : pc[t] = "idle" /\ calls[t] = 0
  BY DEF LiveInit, Init
<1>2. \A t \in Thread : DoneWith(t) = 0
  BY <1>1 DEF DoneWith
<1> QED  BY <1>1, <1>2 DEF Flowing, Queued, InLine, NoneLost

(* Every step keeps the lines.                                             *)
LEMMA FlowingKept == Shape /\ Flowing /\ [LiveNext]_lvars => Flowing'
<1> SUFFICES ASSUME Shape, Flowing, [LiveNext]_lvars  PROVE Flowing'
  OBVIOUS
<1> DEFINE Line(t, y, q, r, k) == k \in Nat /\ InLine(t, y, q, k) /\ NoneLost(t, y, q, r, k)
           Lines == \A t \in Thread : Line(t, yielded', queue', refused', DoneWith(t)')
<1>1. /\ Queued(Record) /\ Threads
      /\ \A t \in Thread : Line(t, yielded, queue, refused, DoneWith(t))
  BY DEF Flowing, Shape
<1>2. /\ queue \in Seq({CLOSED} \cup Record) /\ yielded \in Seq(Record)
      /\ calls \in [Thread -> Nat] /\ pc \in [Thread -> Stage]
  BY <1>1 DEF Queued, Threads
<1>3. ASSUME Queued(Record)', Lines  PROVE Flowing'
  BY <1>3 DEF Flowing
<1>4. ASSUME NEW S, NEW t \in Thread, NEW k, Line(t, yielded, queue, refused, k)
      PROVE  Line(t, yielded, queue, refused \cup S, k)
  BY <1>4 DEF NoneLost, Somewhere
<1> HIDE DEF Line
<1>5. ASSUME NEW t \in Thread, Left(t)  PROVE Flowing'
  <2>1. DoneWith(t) = calls[t] /\ DoneWith(t)' = calls[t] + 1
    BY <1>2, <1>5 DEF Left, DoneWith
  <2>2. \A u \in Thread : u # t => DoneWith(u)' = DoneWith(u)
    BY <1>2, <1>5 DEF Left, DoneWith
  <2>3. Line(t, yielded, queue, refused \cup {Emitted(t, calls[t] + 1)}, calls[t] + 1)
    <3>1. calls[t] \in Nat /\ calls[t] + 1 \in Nat /\ Line(t, yielded, queue, refused, calls[t])
      BY <1>1, <1>2, <2>1
    <3> QED  BY <1>2, <3>1, LineSkips DEF Line
  <2>4. /\ yielded' = yielded /\ queue' = queue
        /\ refused' = refused \cup {Emitted(t, calls[t] + 1)}
    BY <1>5 DEF Left
  <2>5. ASSUME NEW u \in Thread  PROVE Line(u, yielded', queue', refused', DoneWith(u)')
    <3>1. CASE u = t
      BY <2>1, <2>3, <2>4, <3>1
    <3>2. CASE u # t
      BY <1>1, <1>4, <2>2, <2>4, <3>2
    <3> QED  BY <3>1, <3>2
  <2> QED  BY <1>2, <1>3, <2>4, <2>5 DEF Queued
<1>6. ASSUME NEW t \in Thread, Begun(t)  PROVE Flowing'
  <2>1. \A u \in Thread : DoneWith(u)' = DoneWith(u)
    BY <1>2, <1>6 DEF Begun, DoneWith
  <2> QED  BY <1>1, <1>2, <1>3, <1>6, <2>1 DEF Begun, Queued
<1>7. ASSUME NEW t \in Thread, PushPut(t)  PROVE Flowing'
  <2>1. /\ pc[t] = "put" /\ queue' = Append(queue, Event(t)) /\ pc' = [pc EXCEPT ![t] = "idle"]
        /\ yielded' = yielded /\ refused' = refused /\ calls' = calls
    BY <1>7 DEF PushPut
  <2>2. DoneWith(t) = calls[t] - 1 /\ DoneWith(t)' = calls[t]
    BY <1>2, <2>1 DEF DoneWith
  <2>3. \A u \in Thread : u # t => DoneWith(u)' = DoneWith(u)
    BY <1>2, <2>1 DEF DoneWith
  <2>4. Event(t) \in Record /\ Event(t).by = t /\ Event(t).n = calls[t]
    BY <1>2 DEF Event, Record
  <2>5. Event(t) # CLOSED
    BY <2>4, QueueAssumption DEF Record
  <2>6. ASSUME NEW u \in Thread  PROVE Line(u, yielded', queue', refused', DoneWith(u)')
    <3>1. DoneWith(u) \in Nat /\ Line(u, yielded, queue, refused, DoneWith(u))
      BY <1>1 DEF Line
    <3>2. CASE u = t
      <4>1. DoneWith(u) + 1 = calls[t] /\ Of(Event(t), u)
        BY <1>2, <2>2, <2>4, <2>5, <3>2 DEF Of
      <4>2. /\ InLine(u, yielded, Append(queue, Event(t)), calls[t])
            /\ NoneLost(u, yielded, Append(queue, Event(t)), refused, calls[t])
        <5>1. /\ InLine(u, yielded, queue, DoneWith(u)) 
              /\ NoneLost(u, yielded, queue, refused, DoneWith(u))
          BY <3>1 DEF Line
        <5> DEFINE k == DoneWith(u)
        <5> HIDE DEF k
        <5>2. \A h : h = (IF Of(Event(t), u) THEN k + 1 ELSE k) =>
                /\ InLine(u, yielded, Append(queue, Event(t)), h)
                /\ NoneLost(u, yielded, Append(queue, Event(t)), refused, h)
          <6> SUFFICES ASSUME NEW h, h = IF Of(Event(t), u) THEN k + 1 ELSE k
                       PROVE  /\ InLine(u, yielded, Append(queue, Event(t)), h)
                              /\ NoneLost(u, yielded, Append(queue, Event(t)), refused, h)
            OBVIOUS
          <6>1. k \in Nat /\ InLine(u, yielded, queue, k) /\ NoneLost(u, yielded, queue, refused, k)
            BY <3>1, <5>1 DEF k
          <6>2. Of(Event(t), u) => Event(t).n = k + 1
            BY <2>4, <4>1 DEF k
          <6> QED  BY ONLY <1>2, <2>4, <6>1, <6>2, h = IF Of(Event(t), u) THEN k + 1 ELSE k, LineGrows
        <5> QED  BY <4>1, <5>2 DEF k
      <4> QED  BY <1>2, <2>1, <2>2, <3>2, <4>2 DEF Line
    <3>3. CASE u # t
      <4>1. ~Of(Event(t), u)
        BY <2>4, <3>3 DEF Of
      <4>2. /\ InLine(u, yielded, Append(queue, Event(t)), DoneWith(u))
            /\ NoneLost(u, yielded, Append(queue, Event(t)), refused, DoneWith(u))
        BY <1>2, <2>4, <3>1, <4>1, LineGrows DEF Line
      <4> QED  BY <2>1, <2>3, <3>1, <3>3, <4>2 DEF Line
    <3> QED  BY <3>2, <3>3
  <2>7. Queued(Record)'
    BY <1>1, <1>7, <2>4, SourceKept DEF Queued
  <2> QED  BY <1>3, <2>6, <2>7
<1>8. ASSUME Get  PROVE Flowing'
  <2>1. /\ queue # <<>> /\ queue' = Tail(queue) /\ UNCHANGED <<refused, pc, calls>>
        /\ yielded' = IF Head(queue) = CLOSED THEN yielded ELSE Append(yielded, Head(queue))
    BY <1>8 DEF Get
  <2>2. ASSUME NEW u \in Thread  PROVE Line(u, yielded', queue', refused', DoneWith(u)')
    <3>1. DoneWith(u)' = DoneWith(u) /\ DoneWith(u) \in Nat
      BY <1>1, <2>1 DEF DoneWith, Line
    <3>2. InLine(u, yielded', Tail(queue), DoneWith(u))
          /\ NoneLost(u, yielded', Tail(queue), refused, DoneWith(u))
      BY <1>1, <1>2, <2>1, <3>1, LineMoves DEF Line
    <3> QED  BY <2>1, <3>1, <3>2 DEF Line
  <2>3. Queued(Record)'
    BY <1>1, <1>8, SourceKept DEF Queued
  <2> QED  BY <1>3, <2>2, <2>3
<1>9. ASSUME CloseSource  PROVE Flowing'
  <2>1. \/ queue' = queue
        \/ queue' = Append(queue, CLOSED)
    BY <1>9 DEF CloseSource, CloseCheck, CloseSet, CloseSentinel
  <2>2. yielded' = yielded /\ refused' = refused /\ calls' = calls
    BY <1>9 DEF CloseSource, CloseCheck, CloseSet, CloseSentinel
  <2>3. Main \in Thread
    BY LiveAppAssumption
  <2>4. \A u \in Thread : DoneWith(u)' = DoneWith(u)
    BY <1>2, <1>9, <2>3 DEF CloseSource, CloseCheck, CloseSet, CloseSentinel, DoneWith
  <2>5. ASSUME NEW u \in Thread  PROVE Line(u, yielded', queue', refused', DoneWith(u)')
    <3>1. CASE queue' = queue
      BY <1>1, <2>2, <2>4, <3>1
    <3>2. CASE queue' = Append(queue, CLOSED)
      <4>1. ~Of(CLOSED, u) /\ DoneWith(u) \in Nat
        BY <1>1 DEF Of, Line
      <4>2. /\ InLine(u, yielded, Append(queue, CLOSED), DoneWith(u))
            /\ NoneLost(u, yielded, Append(queue, CLOSED), refused, DoneWith(u))
        BY <1>1, <1>2, <4>1, LineGrows DEF Line
      <4> QED  BY <2>2, <2>4, <3>2, <4>1, <4>2 DEF Line
    <3> QED  BY <2>1, <3>1, <3>2
  <2>6. Queued(Record)'
    BY <1>1, <1>9, SourceKept DEF Queued
  <2> QED  BY <1>3, <2>5, <2>6
<1>10. ASSUME UNCHANGED <<queue, yielded, refused, pc, calls>>  PROVE Flowing'
  <2>1. \A u \in Thread : DoneWith(u)' = DoneWith(u)
    BY <1>10 DEF DoneWith
  <2> QED  BY <1>1, <1>2, <1>3, <1>10, <2>1 DEF Queued
<1> QED  BY StepOfLine, <1>5, <1>6, <1>7, <1>8, <1>9, <1>10

(* The lines hold in every state of the application.                       *)
LEMMA FlowingInvariant == LiveSpec => [](Shape /\ Flowing)
<1>1. Shape /\ Flowing /\ [LiveNext]_lvars => Shape' /\ Flowing'
  BY ShapeKept, FlowingKept
<1> QED BY <1>1, ShapeInit, FlowingInit, PTL DEF LiveSpec

(* Whoever emits, whatever raises and whenever the source is closed, the   *)
(* engine sees of each thread what it emitted (QueueSource.push), in its   *)
(* order and each event once; an event before one it saw that it did not   *)
(* see raised in the service.                                              *)
THEOREM ThreadsAreSeenInOrder == LiveSpec => []EmittedInOrder
<1>1. Flowing => EmittedInOrder
  <2> SUFFICES ASSUME Flowing, NEW t \in Thread
               PROVE  LET mine == {i \in DOMAIN yielded : yielded[i].by = t}
                          seen == {yielded[i].n : i \in mine}
                      IN /\ \A i, j \in mine : i < j => yielded[i].n < yielded[j].n
                         /\ \A n \in seen : \A m \in 1..n :
                              m \in seen \/ [by |-> t, n |-> m] \in refused
    BY DEF EmittedInOrder
  <2> DEFINE mine == {i \in DOMAIN yielded : yielded[i].by = t}
             seen == {yielded[i].n : i \in mine}
  <2>1. /\ queue \in Seq({CLOSED} \cup Record) /\ yielded \in Seq(Record) /\ DoneWith(t) \in Nat
        /\ InLine(t, yielded, queue, DoneWith(t))
        /\ NoneLost(t, yielded, queue, refused, DoneWith(t))
    BY DEF Flowing, Queued
  <2>2. \A i \in mine : yielded[i] \in Record /\ Of(yielded[i], t) /\ yielded[i].n \in Nat
    <3> SUFFICES ASSUME NEW i \in mine
                 PROVE  yielded[i] \in Record /\ Of(yielded[i], t) /\ yielded[i].n \in Nat
      OBVIOUS
    <3>1. yielded[i] \in Record /\ yielded[i].by = t
      BY <2>1
    <3> QED  BY <3>1, QueueAssumption DEF Of, Record
  <2>3. \A i, j \in mine : i < j => yielded[i].n < yielded[j].n
    BY <2>1, <2>2 DEF InLine
  <2>4. ASSUME NEW i \in mine, NEW m \in 1 .. yielded[i].n
        PROVE  m \in seen \/ [by |-> t, n |-> m] \in refused
    <3> DEFINE e == Emitted(t, m)
               n == yielded[i].n
    <3>1. m \in Nat /\ m <= n /\ n \in Nat /\ n <= DoneWith(t)
      BY <2>1, <2>2 DEF InLine
    <3>2. m \in 1 .. DoneWith(t)
      BY <2>1, <3>1
    <3>3. Somewhere(e, yielded, queue, refused)
      BY <2>1, <3>2 DEF NoneLost
    <3>4. e.by = t /\ e.n = m /\ e # CLOSED
      BY <3>1, QueueAssumption DEF Emitted
    <3>5. e = [by |-> t, n |-> m]
      BY DEF Emitted
    <3> HIDE DEF e
    <3>6. ASSUME NEW j \in DOMAIN queue, queue[j] = e  PROVE FALSE
      <4>1. n < m
        BY <2>1, <2>2, <3>4, <3>6 DEF InLine, Of
      <4> QED  BY <3>1, <4>1
    <3>7. ASSUME NEW j \in DOMAIN yielded, yielded[j] = e  PROVE m \in seen
      BY <3>4, <3>7
    <3> QED  BY <3>3, <3>5, <3>6, <3>7 DEF Somewhere
  <2> QED  BY <2>3, <2>4
<1> QED BY <1>1, FlowingInvariant, PTL

-----------------------------------------------------------------------------
(* A set of positions whose members can be counted from the last.          *)
Ranked(I) ==
  /\ IsFiniteSet(I) /\ I \subseteq Nat
  /\ \A i \in I : Rank(I, i) \in 1 .. Cardinality(I)
  /\ \A i, j \in I : Rank(I, i) = Rank(I, j) => i = j
  /\ \A n \in 1 .. Cardinality(I) : \E i \in I : Rank(I, i) = n
Ith(I, n) == CHOOSE i \in I : Rank(I, i) = n

(* Nothing to count.                                                       *)
LEMMA NoneRanked == Ranked({})
  BY FS_EmptySet DEF Ranked

(* The member with the rank that was asked for.                            *)
LEMMA IthIs ==
  ASSUME NEW I, Ranked(I), NEW i \in I, NEW n, Rank(I, i) = n
  PROVE  Ith(I, n) = i
<1>1. \E j \in I : Rank(I, j) = n
  OBVIOUS
<1>2. Ith(I, n) \in I /\ Rank(I, Ith(I, n)) = n
  BY <1>1 DEF Ith
<1> QED  BY <1>2 DEF Ranked

(* A new last position ...                                                 *)
WithNext(I, l) == I \cup {l + 1}

(* ... moves the others one place on.                                      *)
LEMMA RankGrows ==
  ASSUME NEW l \in Nat, NEW I, Ranked(I), I \subseteq 1 .. l, NEW J, J = WithNext(I, l)
  PROVE  /\ Ranked(J) /\ Cardinality(I) \in Nat /\ Cardinality(J) = Cardinality(I) + 1
         /\ Ith(J, 1) = l + 1
         /\ \A n \in 1 .. Cardinality(I) : Ith(I, n) \in I /\ Ith(J, n + 1) = Ith(I, n)
<1> DEFINE c == Cardinality(I)
           After(S, i) == {j \in S : i <= j}
<1> USE DEF WithNext
<1>1. /\ IsFiniteSet(I) /\ I \subseteq Nat /\ l + 1 \notin I
      /\ \A i \in I : Rank(I, i) \in 1 .. c
      /\ \A i, j \in I : Rank(I, i) = Rank(I, j) => i = j
      /\ \A n \in 1 .. c : \E i \in I : Rank(I, i) = n
  BY DEF Ranked
<1>2. c \in Nat /\ IsFiniteSet(J) /\ Cardinality(J) = c + 1
  BY <1>1, FS_CardinalityType, FS_AddElement
<1>3. Rank(J, l + 1) = 1
  <2>1. \A i \in J : l + 1 <= i <=> i = l + 1
    <3>1. \A i \in I : i \in Nat /\ ~(l + 1 <= i)
      OBVIOUS
    <3>2. l + 1 <= l + 1
      OBVIOUS
    <3> QED  BY <3>1, <3>2
  <2>2. After(J, l + 1) = {l + 1}
    BY <2>1
  <2> QED  BY <2>2, FS_Singleton DEF Rank
<1>4. ASSUME NEW i \in I  PROVE Rank(J, i) = Rank(I, i) + 1
  <2>1. After(J, i) = After(I, i) \cup {l + 1} /\ l + 1 \notin After(I, i)
    BY <1>1
  <2>2. IsFiniteSet(After(I, i))
    BY <1>1, FS_Subset
  <2> HIDE DEF After
  <2>3. Cardinality(After(J, i)) = Cardinality(After(I, i)) + 1
    BY <2>1, <2>2, FS_AddElement
  <2> QED  BY <2>3 DEF After, Rank
<1> HIDE DEF c
<1>5. ASSUME NEW i \in J  PROVE Rank(J, i) \in 1 .. c + 1
  <2>1. CASE i \in I
    <3>1. Rank(I, i) \in 1 .. c /\ Rank(J, i) = Rank(I, i) + 1
      BY <1>1, <1>4, <2>1
    <3> QED  BY <1>2, <3>1
  <2>2. CASE i = l + 1
    BY <1>2, <1>3, <2>2
  <2> QED  BY <2>1, <2>2
<1>6. ASSUME NEW i \in J, NEW j \in J, Rank(J, i) = Rank(J, j)  PROVE i = j
  <2>1. \A x \in I : Rank(J, x) = Rank(I, x) + 1 /\ Rank(I, x) \in 1 .. c
    BY <1>1, <1>4
  <2>2. \A x \in I : Rank(J, x) # 1
    <3>1. \A r \in 1 .. c : r + 1 # 1
      BY <1>2
    <3> QED  BY <2>1, <3>1
  <2>3. CASE i \in I /\ j \in I
    <3>1. Rank(I, i) = Rank(I, j)
      BY <1>2, <1>6, <2>1, <2>3
    <3> QED  BY <1>1, <2>3, <3>1
  <2> QED  BY <1>3, <1>6, <2>2, <2>3
<1>7. ASSUME NEW n \in 1 .. c + 1  PROVE \E i \in J : Rank(J, i) = n
  <2>1. CASE n = 1
    BY <1>3, <2>1
  <2>2. CASE n # 1
    <3>1. n - 1 \in 1 .. c
      BY <1>2, <2>2
    <3>2. PICK i \in I : Rank(I, i) = n - 1
      BY <1>1, <3>1
    <3> QED  BY <1>4, <3>1, <3>2
  <2> QED  BY <2>1, <2>2
<1>8. Ranked(J)
  <2>1. IsFiniteSet(J) /\ J \subseteq Nat
    BY <1>1, <1>2
  <2>2. \A i \in J : Rank(J, i) \in 1 .. Cardinality(J)
    BY <1>2, <1>5
  <2>3. \A n \in 1 .. Cardinality(J) : \E i \in J : Rank(J, i) = n
    BY <1>2, <1>7
  <2> QED  BY <1>6, <2>1, <2>2, <2>3 DEF Ranked
<1>9. Ith(J, 1) = l + 1
  BY <1>3, <1>8, IthIs
<1>10. ASSUME NEW n \in 1 .. c  PROVE Ith(I, n) \in I /\ Ith(J, n + 1) = Ith(I, n)
  <2>1. PICK i \in I : Rank(I, i) = n
    BY <1>1
  <2>2. Ith(I, n) = i
    BY <2>1, IthIs
  <2>3. Rank(J, i) = n + 1 /\ i \in J
    BY <1>4, <2>1
  <2>4. Ith(J, n + 1) = i
    BY <1>8, <2>3, IthIs
  <2> QED  BY <2>2, <2>4
<1> QED  BY <1>2, <1>8, <1>9, <1>10 DEF c

(* How many entries a list on the page has.                                *)
Shown(n) == IF n < History THEN n ELSE History

(* The lists of the page, by the positions they show.                      *)
LEMMA LastOnesAre ==
  ASSUME NEW s, NEW I, Cardinality(I) \in Nat
  PROVE  /\ Len(LastOnes(s, I)) = Shown(Cardinality(I))
         /\ DOMAIN LastOnes(s, I) = 1 .. Shown(Cardinality(I))
         /\ \A n \in 1 .. Shown(Cardinality(I)) : LastOnes(s, I)[n] = s[Ith(I, n)]
         /\ Shown(Cardinality(I)) \in Nat
<1>1. Shown(Cardinality(I)) \in Nat
  BY DashboardAssumption DEF Shown
<1>2. LastOnes(s, I) = [n \in 1 .. Shown(Cardinality(I)) |-> s[Ith(I, n)]]
  BY DEF LastOnes, Shown, Ith
<1> QED  BY <1>1, <1>2

(* A member that counts is the newest of the list.                         *)
LEMMA LastOnesGrows ==
  ASSUME NEW S, NEW s \in Seq(S), NEW e \in S, NEW I, Ranked(I), I \subseteq DOMAIN s,
         NEW J, J = WithNext(I, Len(s))
  PROVE  Ranked(J) /\ LastOnes(Append(s, e), J) = Newest(e, LastOnes(s, I))
<1> DEFINE l == Len(s)
           c == Cardinality(I)
           u == Append(s, e)
           a == LastOnes(s, I)
           b == LastOnes(u, J)
           m == Shown(c)
           d == IF m < History THEN m + 1 ELSE History
           T == S \cup {s[i] : i \in I}
<1>1. /\ l \in Nat /\ DOMAIN s = 1 .. l /\ u \in Seq(S) /\ Len(u) = l + 1
      /\ \A i \in 1 .. l : u[i] = s[i] /\ s[i] \in S
      /\ u[l + 1] = e
  BY AppendProperties, LenProperties, ElementOfSeq
<1>2. /\ Ranked(J) /\ c \in Nat /\ Cardinality(J) = c + 1
      /\ Ith(J, 1) = l + 1
      /\ \A n \in 1 .. c : Ith(I, n) \in I /\ Ith(J, n + 1) = Ith(I, n)
  <2>1. l \in Nat /\ I \subseteq 1 .. l /\ J = WithNext(I, l)
    BY <1>1
  <2> HIDE DEF l
  <2> QED  BY <2>1, RankGrows
<1>3. /\ Len(a) = m /\ m \in Nat /\ DOMAIN a = 1 .. m
      /\ \A n \in 1 .. m : a[n] = s[Ith(I, n)]
  BY <1>2, LastOnesAre
<1>4. /\ DOMAIN b = 1 .. Shown(c + 1)
      /\ \A n \in 1 .. Shown(c + 1) : b[n] = u[Ith(J, n)]
  <2> HIDE DEF c
  <2> HIDE DEF u
  <2>1. Cardinality(J) \in Nat
    BY <1>2
  <2>2. /\ DOMAIN b = 1 .. Shown(Cardinality(J))
        /\ \A n \in 1 .. Shown(Cardinality(J)) : b[n] = u[Ith(J, n)]
    BY <2>1, LastOnesAre
  <2> QED  BY <1>2, <2>2
<1>5. History \in Nat \ {0}
  BY DashboardAssumption
<1>6. Shown(c + 1) = d /\ m <= c /\ d \in Nat /\ d <= m + 1 /\ d >= 1
  <2> HIDE DEF c
  <2> QED  BY <1>2, <1>5 DEF Shown
<1>7. \A n \in 1 .. m : n \in 1 .. c
  BY <1>2, <1>3, <1>6
<1>8. a = [n \in 1 .. m |-> s[Ith(I, n)]]
  BY <1>2 DEF LastOnes, Shown, Ith
<1>9. a \in Seq(S)
  <2> DEFINE f(n) == s[Ith(I, n)]
  <2>1. \A n \in 1 .. m : f(n) \in S
    BY <1>1, <1>2, <1>7
  <2> HIDE DEF f
  <2>2. [n \in 1 .. m |-> f(n)] \in Seq(S)
    BY <1>3, <2>1, IsASeq
  <2> QED  BY <1>8, <2>2 DEF f
<1> HIDE DEF a, b, m, c, u, l
<1>10. /\ <<e>> \o a \in Seq(S) /\ Len(<<e>> \o a) = m + 1
       /\ (<<e>> \o a)[1] = e
       /\ \A n \in 1 .. m : (<<e>> \o a)[n + 1] = a[n]
  <2>1. <<e>> \in Seq(S) /\ Len(<<e>>) = 1 /\ <<e>>[1] = e
    OBVIOUS
  <2> DEFINE p == <<e>>
  <2> HIDE DEF p
  <2>2. /\ p \o a \in Seq(S) /\ Len(p \o a) = 1 + m
        /\ \A i \in 1 .. 1 + m : (p \o a)[i] = IF i <= 1 THEN p[i] ELSE a[i - 1]
    BY <1>3, <1>9, <2>1, ConcatProperties DEF p
  <2> QED  BY <1>3, <2>1, <2>2 DEF p
<1> DEFINE q == <<e>> \o a
<1> HIDE DEF q
<1>11. Newest(e, a) = SubSeq(q, 1, d)
  BY <1>3 DEF Newest, q
<1>12. /\ SubSeq(q, 1, d) \in Seq(S) /\ Len(SubSeq(q, 1, d)) = d
       /\ \A n \in 1 .. d : SubSeq(q, 1, d)[n] = q[n]
  <2>1. \A i \in 1 .. d : q[i] \in S
    BY <1>3, <1>6, <1>10, ElementOfSeq DEF q
  <2> HIDE DEF d
  <2>2. /\ SubSeq(q, 1, d) \in Seq(S)
        /\ Len(SubSeq(q, 1, d)) = IF 1 <= d THEN d - 1 + 1 ELSE 0
        /\ \A i \in 1 .. d - 1 + 1 : SubSeq(q, 1, d)[i] = q[1 + i - 1]
    BY <1>6, <2>1, SubSeqProperties
  <2> QED  BY <1>6, <2>2
<1> HIDE DEF d
<1>13. ASSUME NEW n \in 1 .. d  PROVE b[n] = q[n]
  <2>1. CASE n = 1
    BY <1>1, <1>2, <1>4, <1>6, <1>10, <2>1 DEF q
  <2>2. CASE n # 1
    <3>1. PICK k \in 1 .. m : n = k + 1
      <4>1. n - 1 \in 1 .. m /\ n = (n - 1) + 1
        BY <1>3, <1>6, <2>2
      <4> QED  BY <4>1
    <3>2. k \in 1 .. c /\ Ith(J, n) = Ith(I, k) /\ Ith(I, k) \in I
      BY <1>2, <1>7, <3>1
    <3>3. Ith(I, k) \in 1 .. l
      BY <1>1, <3>2 DEF l
    <3>4. b[n] = s[Ith(I, k)]
      BY <1>1, <1>4, <1>6, <3>2, <3>3
    <3> QED  BY <1>3, <1>10, <3>1, <3>4 DEF q
  <2> QED  BY <2>1, <2>2
<1>14. b = [n \in 1 .. d |-> b[n]] /\ SubSeq(q, 1, d) = [n \in 1 .. d |-> SubSeq(q, 1, d)[n]]
  <2>1. b = [n \in 1 .. d |-> u[Ith(J, n)]]
    <3>1. \E h : b = [n \in 1 .. Shown(Cardinality(J)) |-> h[Ith(J, n)]]
      BY DEF b, LastOnes, Shown, Ith
    <3>2. Shown(Cardinality(J)) = d
      BY <1>2, <1>6
    <3> QED  BY <1>4, <1>6, <3>1, <3>2
  <2> DEFINE w == SubSeq(q, 1, d)
  <2>2. w \in Seq(S) /\ Len(w) = d
    BY <1>12
  <2> HIDE DEF w
  <2>3. w = [n \in 1 .. d |-> w[n]]
    BY <2>2
  <2> QED  BY <2>1, <2>3 DEF w
<1>15. b = SubSeq(q, 1, d)
  BY <1>12, <1>13, <1>14
<1> QED  BY <1>2, <1>11, <1>15 DEF a, b, u, l

(* A member that does not count leaves the list as it was.                 *)
LEMMA LastOnesStay ==
  ASSUME NEW S, NEW s \in Seq(S), NEW e \in S, NEW I, Ranked(I), I \subseteq DOMAIN s
  PROVE  LastOnes(Append(s, e), I) = LastOnes(s, I)
<1>1. Cardinality(I) \in Nat
  BY FS_CardinalityType DEF Ranked
<1>2. \A i \in DOMAIN s : Append(s, e)[i] = s[i]
  BY AppendProperties, LenProperties
<1>3. ASSUME NEW n \in 1 .. Shown(Cardinality(I))
      PROVE  Append(s, e)[Ith(I, n)] = s[Ith(I, n)]
  <2>1. n \in 1 .. Cardinality(I)
    BY <1>1, DashboardAssumption DEF Shown
  <2>2. PICK i \in I : Rank(I, i) = n
    BY <2>1 DEF Ranked
  <2>3. Ith(I, n) \in I
    BY <2>2, IthIs
  <2> QED  BY <1>2, <2>3
<1>4. \A t : LastOnes(t, I) = [n \in 1 .. Shown(Cardinality(I)) |-> t[Ith(I, n)]]
  BY DEF LastOnes, Shown, Ith
<1> QED  BY <1>3, <1>4

-----------------------------------------------------------------------------
(* Sequences that lose or gain their last member.                          *)
ButLast(s) == SubSeq(s, 1, Len(s) - 1)

(* What is left of a longer sequence without its last member.              *)
LEMMA ButLastOfAppend ==
  ASSUME NEW S, NEW s \in Seq(S), NEW e \in S
  PROVE  ButLast(Append(s, e)) = s
<1> DEFINE u == Append(s, e)
           l == Len(s)
           w == SubSeq(u, 1, l)
<1>1. /\ l \in Nat /\ Len(u) = l + 1 /\ \A i \in 1 .. l : u[i] = s[i] /\ s[i] \in S
  BY AppendProperties, LenProperties, ElementOfSeq
<1>2. ButLast(u) = w
  <2> HIDE DEF l
  <2>1. Len(u) - 1 = l
    BY <1>1
  <2> QED  BY <2>1 DEF ButLast
<1> HIDE DEF u
<1>3. /\ w \in Seq(S) /\ Len(w) = l /\ \A i \in 1 .. l : w[i] = u[i]
  <2>1. l \in Nat /\ \A i \in 1 .. l : u[i] \in S
    BY <1>1
  <2> HIDE DEF l
  <2>2. /\ SubSeq(u, 1, l) \in Seq(S)
        /\ Len(SubSeq(u, 1, l)) = IF 1 <= l THEN l - 1 + 1 ELSE 0
        /\ \A i \in 1 .. l - 1 + 1 : SubSeq(u, 1, l)[i] = u[1 + i - 1]
    BY <2>1, SubSeqProperties
  <2> QED  BY <2>1, <2>2
<1> HIDE DEF w
<1>4. w = s
  BY <1>1, <1>3, SeqEqual
<1> QED  BY <1>2, <1>4 DEF u

(* A sequence is its front and its last member.                            *)
LEMMA FrontAndLast ==
  ASSUME NEW S, NEW s \in Seq(S), s # <<>>
  PROVE  /\ ButLast(s) \in Seq(S) /\ s[Len(s)] \in S /\ s = Append(ButLast(s), s[Len(s)])
         /\ Len(s) = Len(ButLast(s)) + 1
<1>1. PICK r \in Seq(S), e \in S : s = Append(r, e)
  BY SequenceEmptyOrAppend
<1>2. ButLast(s) = r
  BY <1>1, ButLastOfAppend
<1>3. Len(s) = Len(r) + 1 /\ s[Len(s)] = e
  BY <1>1, AppendProperties
<1> QED  BY <1>1, <1>2, <1>3

(* What is appended does not change the beginning.                         *)
LEMMA PrefixStays ==
  ASSUME NEW S, NEW s \in Seq(S), NEW e \in S, NEW i \in Int, i <= Len(s)
  PROVE  SubSeq(Append(s, e), 1, i) = SubSeq(s, 1, i)
<1> DEFINE u == Append(s, e)
           l == Len(s)
<1>1. /\ l \in Nat /\ \A n \in 1 .. l : u[n] = s[n] /\ s[n] \in S
  BY AppendProperties, LenProperties, ElementOfSeq
<1>2. i <= l
  OBVIOUS
<1> HIDE DEF u, l
<1>3. CASE i < 1
  BY <1>3, SubSeqEmpty DEF u
<1>4. CASE i >= 1
  <2>1. \A n \in 1 .. i : n \in 1 .. l
    BY <1>1, <1>2
  <2>2. \A n \in 1 .. i : u[n] \in S /\ s[n] \in S /\ u[n] = s[n]
    BY <1>1, <2>1
  <2>3. /\ SubSeq(s, 1, i) \in Seq(S) /\ Len(SubSeq(s, 1, i)) = IF 1 <= i THEN i - 1 + 1 ELSE 0
        /\ \A n \in 1 .. i - 1 + 1 : SubSeq(s, 1, i)[n] = s[1 + n - 1]
    BY <2>2, SubSeqProperties
  <2>4. /\ SubSeq(u, 1, i) \in Seq(S) /\ Len(SubSeq(u, 1, i)) = IF 1 <= i THEN i - 1 + 1 ELSE 0
        /\ \A n \in 1 .. i - 1 + 1 : SubSeq(u, 1, i)[n] = u[1 + n - 1]
    BY <2>2, SubSeqProperties
  <2> DEFINE x == SubSeq(s, 1, i)
             y == SubSeq(u, 1, i)
  <2>5. Len(x) = i /\ \A n \in 1 .. i : x[n] = s[n]
    BY <1>4, <2>3
  <2>6. Len(y) = i /\ \A n \in 1 .. i : y[n] = u[n]
    BY <1>4, <2>4
  <2>7. x \in Seq(S) /\ y \in Seq(S)
    BY <2>3, <2>4
  <2> HIDE DEF x, y
  <2>8. x = y
    BY <2>2, <2>5, <2>6, <2>7, SeqEqual
  <2> QED  BY <2>8 DEF x, y, u
<1> QED  BY <1>3, <1>4

(* The events with a usable time, of a longer sequence.                    *)
LEMMA TimedGrows ==
  ASSUME NEW S, NEW s \in Seq(S), NEW e \in S
  PROVE  Timed(Append(s, e)) = IF e.timed THEN WithNext(Timed(s), Len(s)) ELSE Timed(s)
<1> DEFINE u == Append(s, e)
           l == Len(s)
<1>1. /\ l \in Nat /\ DOMAIN s = 1 .. l /\ DOMAIN u = 1 .. l + 1
      /\ \A n \in 1 .. l : u[n] = s[n]
      /\ u[l + 1] = e
  BY AppendProperties, LenProperties
<1> HIDE DEF u, l
<1>2. Timed(u) = {i \in 1 .. l + 1 : u[i].timed} /\ Timed(s) = {i \in 1 .. l : s[i].timed}
  BY <1>1 DEF Timed
<1>3. \A i : i \in 1 .. l + 1 <=> i \in 1 .. l \/ i = l + 1
  BY <1>1
<1>4. CASE e.timed
  BY <1>1, <1>2, <1>3, <1>4 DEF WithNext, u, l
<1>5. CASE ~e.timed
  BY <1>1, <1>2, <1>3, <1>5 DEF u, l
<1> QED  BY <1>4, <1>5

(* The same for the verdicts that are violations.                          *)
LEMMA ViolatedGrows ==
  ASSUME NEW S, NEW s \in Seq(S), NEW v \in S
  PROVE  Violated(Append(s, v)) =
           IF v.outcome = "violated" THEN WithNext(Violated(s), Len(s)) ELSE Violated(s)
<1> DEFINE u == Append(s, v)
           l == Len(s)
<1>1. /\ l \in Nat /\ DOMAIN s = 1 .. l /\ DOMAIN u = 1 .. l + 1
      /\ \A n \in 1 .. l : u[n] = s[n]
      /\ u[l + 1] = v
  BY AppendProperties, LenProperties
<1> HIDE DEF u, l
<1>2. /\ Violated(u) = {i \in 1 .. l + 1 : u[i].outcome = "violated"}
      /\ Violated(s) = {i \in 1 .. l : s[i].outcome = "violated"}
  BY <1>1 DEF Violated
<1>3. \A i : i \in 1 .. l + 1 <=> i \in 1 .. l \/ i = l + 1
  BY <1>1
<1>4. CASE v.outcome = "violated"
  BY <1>1, <1>2, <1>3, <1>4 DEF WithNext, u, l
<1>5. CASE v.outcome # "violated"
  BY <1>1, <1>2, <1>3, <1>5 DEF u, l
<1> QED  BY <1>4, <1>5

(* A nonempty set of positions has a last one.                             *)
LEMMA LastPosition ==
  ASSUME NEW n \in Nat, NEW I, I \subseteq 1 .. n, I # {}
  PROVE  \E i \in I : \A j \in I : j <= i
<1> DEFINE J == {x \in Nat : \E j \in I : x = n - j}
           R == OpToRel(<, Nat)
<1>1. J \subseteq Nat /\ J # {} /\ \A j \in I : n - j \in J
  <2>1. \A j \in I : n - j \in Nat
    OBVIOUS
  <2>2. \A j \in I : n - j \in J
    BY <2>1
  <2> QED  BY <2>2
<1>2. PICK x \in J : \A y \in J : <<y, x>> \notin R
  <2> HIDE DEF J
  <2> QED  BY <1>1, NatLessThanWellFounded, WFMin
<1>3. \A y \in J : x <= y
  <2> TAKE y \in J
  <2>1. ~(y < x)
    BY <1>2 DEF OpToRel
  <2> QED  BY <1>1, <2>1
<1>4. PICK i \in I : x = n - i
  OBVIOUS
<1>5. \A j \in I : n - i <= n - j
  BY <1>1, <1>3, <1>4
<1>6. \A j \in I : j <= i
  BY <1>5
<1> QED  BY <1>6

(* A verdict fills its own cell and no other.                              *)
LEMMA LatestGrows ==
  ASSUME NEW S, NEW s \in Seq(S), NEW v \in S, NEW p, NEW k
  PROVE  Latest(Append(s, v), p, k) =
           IF v.policy = p /\ v.key = k THEN v.outcome ELSE Latest(s, p, k)
<1> DEFINE u == Append(s, v)
           l == Len(s)
           mine(t) == {i \in DOMAIN t : t[i].policy = p /\ t[i].key = k}
           last(I) == CHOOSE i \in I : \A j \in I : j <= i
<1>1. /\ l \in Nat /\ DOMAIN s = 1 .. l /\ DOMAIN u = 1 .. l + 1
      /\ \A n \in 1 .. l : u[n] = s[n]
      /\ u[l + 1] = v
  BY AppendProperties, LenProperties
<1>2. /\ Latest(u, p, k) = IF mine(u) = {} THEN None ELSE u[last(mine(u))].outcome
      /\ Latest(s, p, k) = IF mine(s) = {} THEN None ELSE s[last(mine(s))].outcome
  BY DEF Latest
<1> HIDE DEF u, l
<1>3. \A i : i \in 1 .. l + 1 <=> i \in 1 .. l \/ i = l + 1
  BY <1>1
<1>4. CASE v.policy = p /\ v.key = k
  <2>1. l + 1 \in mine(u) /\ \A j \in mine(u) : j <= l + 1
    BY <1>1, <1>4
  <2>2. \A i \in mine(u) : (\A j \in mine(u) : j <= i) => i = l + 1
    BY <1>1, <2>1
  <2> DEFINE I == mine(u)
  <2> HIDE DEF mine
  <2>3. last(I) \in I /\ \A j \in I : j <= last(I)
    BY <2>1
  <2> HIDE DEF last
  <2>4. last(I) = l + 1
    BY <2>2, <2>3
  <2> QED  BY <1>1, <1>2, <1>4, <2>1, <2>4 DEF u
<1>5. CASE ~(v.policy = p /\ v.key = k)
  <2>1. mine(u) = mine(s) /\ mine(s) \subseteq 1 .. l
    BY <1>1, <1>3, <1>5
  <2> HIDE DEF mine
  <2>2. CASE mine(s) = {}
    BY <1>2, <1>5, <2>1, <2>2 DEF u
  <2>3. CASE mine(s) # {}
    <3>1. \E i \in mine(s) : \A j \in mine(s) : j <= i
      BY <1>1, <2>1, <2>3, LastPosition
    <3>2. last(mine(s)) \in mine(s)
      BY <3>1
    <3> HIDE DEF last
    <3>3. u[last(mine(s))] = s[last(mine(s))]
      BY <1>1, <2>1, <3>2
    <3> QED  BY <1>2, <1>5, <2>1, <2>3, <3>3 DEF u
  <2> QED  BY <2>2, <2>3
<1> QED  BY <1>4, <1>5

-----------------------------------------------------------------------------
(* What a tap brings, and the threads that are inside one.                 *)
Told    == {What[t][n] : t \in Thread, n \in Nat}
Tapping == {t \in Thread : em[t] = "tapping"}

(* The events that have their row in the feed, the verdicts that have      *)
(* their cell and those that are among the alarms.                         *)
Rowed   == IF Tapping = {} THEN tapped ELSE ButLast(tapped)
Taken   == IF engine = "sink" THEN ButLast(sunk) ELSE sunk
Alerted == IF engine \in {"sink", "sinking"} THEN ButLast(sunk) ELSE sunk

(* The board b when the events tap have been counted and rows listed, the  *)
(* verdicts ver have filled their cells and alerts been listed.            *)
Shows(b, tap, rows, ver, alerts) ==
  /\ b.events = Len(tap) /\ b.observed = {tap[i].type : i \in DOMAIN tap}
  /\ b.feed = LastOnes(rows, Timed(rows))
  /\ b.verdicts = Len(ver)
  /\ b.status = [cell \in Policy \X Key |-> Latest(ver, cell[1], cell[2])]
  /\ b.violations = Cardinality(Violated(alerts))
  /\ b.alarms = LastOnes(alerts, Violated(alerts))

(* A page that was asked for shows a beginning of both histories that is   *)
(* not before the request.                                                 *)
Moment(v, tap, ver) ==
  \E i \in v.asked[1] .. Len(tap), j \in v.asked[2] .. Len(ver) :
    v.page = PageOf(SubSeq(tap, 1, i), SubSeq(ver, 1, j))

(* The third invariant: who is in the middle of an access holds the lock,  *)
(* the board shows what has been completed, and no request is ahead of it. *)
Held ==
  /\ \A t \in Tapping : lock = t /\ tapped # <<>> /\ tapped[Len(tapped)] = Coming(t)
  /\ engine = "sinking" => lock = Engine
  /\ engine \in {"sink", "sinking"} => sunk # <<>>
  /\ \A r \in Reader : view[r].stage = "half" => lock = r /\ view[r].page = UpperHalf
  /\ view[Engine].stage # "none" => engine = "looking"
Boarded ==
  /\ tapped \in Seq(Told) /\ sunk \in Seq(Verdict)
  /\ Shows(board, tapped, Rowed, Taken, Alerted)
  /\ Ranked(Timed(Rowed)) /\ Ranked(Violated(Alerted))
Requested ==
  \A r \in Reader : view[r].stage # "none" =>
    /\ view[r].asked[1] \in Int /\ view[r].asked[1] <= Len(Rowed)
    /\ view[r].asked[2] \in Int /\ view[r].asked[2] <= Len(Alerted)
Shot == \A r \in Reader : view[r].stage = "done" => Moment(view[r], tapped, sunk)

Moments == Held /\ Boarded /\ Requested /\ Shot

-----------------------------------------------------------------------------
(* The first half of tap counts the event ...                              *)
LEMMA Counted ==
  ASSUME NEW S, NEW tap \in Seq(S), NEW e \in S, NEW rows, NEW ver, NEW alerts, NEW b,
         DOMAIN b = {"events", "verdicts", "violations", "observed", "status", "alarms", "feed"},
         Shows(b, tap, rows, ver, alerts)
  PROVE  Shows([b EXCEPT !.events = @ + 1, !.observed = @ \cup {e.type}],
               Append(tap, e), rows, ver, alerts)
<1> DEFINE u == Append(tap, e)
           l == Len(tap)
<1>1. /\ l \in Nat /\ DOMAIN tap = 1 .. l /\ DOMAIN u = 1 .. l + 1 /\ Len(u) = l + 1
      /\ \A i \in 1 .. l : u[i] = tap[i]
      /\ u[l + 1] = e
  BY AppendProperties, LenProperties
<1> HIDE DEF u, l
<1>2. {u[i].type : i \in DOMAIN u} = {tap[i].type : i \in DOMAIN tap} \cup {e.type}
  <2>1. \A i : i \in 1 .. l + 1 <=> i \in 1 .. l \/ i = l + 1
    BY <1>1
  <2> QED  BY <1>1, <2>1
<1>3. Len(u) = Len(tap) + 1
  BY <1>1 DEF l
<1> QED  BY <1>2, <1>3 DEF Shows, u

(* ... and the second lists it, unless its time is no number.              *)
LEMMA RowAdded ==
  ASSUME NEW S, NEW rows \in Seq(S), NEW e \in S, NEW tap, NEW ver, NEW alerts, NEW b,
         DOMAIN b = {"events", "verdicts", "violations", "observed", "status", "alarms", "feed"},
         Shows(b, tap, rows, ver, alerts), Ranked(Timed(rows))
  PROVE  /\ Shows(IF e.timed THEN [b EXCEPT !.feed = Newest(e, @)] ELSE b,
                  tap, Append(rows, e), ver, alerts)
         /\ Ranked(Timed(Append(rows, e)))
<1> DEFINE u == Append(rows, e)
           I == Timed(rows)
<1>1. Timed(u) = IF e.timed THEN WithNext(I, Len(rows)) ELSE I
  BY TimedGrows
<1>2. I \subseteq DOMAIN rows
  BY DEF Timed
<1>3. b.feed = LastOnes(rows, I)
  BY DEF Shows
<1>4. CASE e.timed
  <2>1. Ranked(Timed(u)) /\ LastOnes(u, Timed(u)) = Newest(e, LastOnes(rows, I))
    <3>1. Timed(u) = WithNext(I, Len(rows))
      BY <1>1, <1>4
    <3> HIDE DEF I
    <3> QED  BY <1>2, <3>1, LastOnesGrows DEF I
  <2> HIDE DEF u, I
  <2> QED  BY <1>3, <1>4, <2>1 DEF Shows, u
<1>5. CASE ~e.timed
  <2>1. LastOnes(u, I) = LastOnes(rows, I)
    BY <1>2, LastOnesStay
  <2>2. Timed(u) = I
    BY <1>1, <1>5
  <2> HIDE DEF u
  <2> QED  BY <1>5, <2>1, <2>2 DEF Shows, u
<1> QED  BY <1>4, <1>5

(* The first half of sink fills the verdict's cell ...                     *)
LEMMA CellFilled ==
  ASSUME NEW S, NEW ver \in Seq(S), NEW v \in S, NEW tap, NEW rows, NEW alerts, NEW b,
         DOMAIN b = {"events", "verdicts", "violations", "observed", "status", "alarms", "feed"},
         Shows(b, tap, rows, ver, alerts)
  PROVE  Shows([b EXCEPT !.verdicts = @ + 1, !.status[<<v.policy, v.key>>] = v.outcome],
               tap, rows, Append(ver, v), alerts)
<1> DEFINE u == Append(ver, v)
<1>1. Len(u) = Len(ver) + 1
  BY AppendProperties
<1>2. \A p, k : Latest(u, p, k) = IF v.policy = p /\ v.key = k THEN v.outcome ELSE Latest(ver, p, k)
  BY LatestGrows
<1> HIDE DEF u
<1>3. [cell \in Policy \X Key |-> Latest(u, cell[1], cell[2])]
        = [b.status EXCEPT ![<<v.policy, v.key>>] = v.outcome]
  <2>1. b.status = [cell \in Policy \X Key |-> Latest(ver, cell[1], cell[2])]
    BY DEF Shows
  <2>2. \A cell \in Policy \X Key :
          cell = <<v.policy, v.key>> <=> v.policy = cell[1] /\ v.key = cell[2]
    OBVIOUS
  <2>3. \A cell \in Policy \X Key :
          Latest(u, cell[1], cell[2])
            = IF cell = <<v.policy, v.key>> THEN v.outcome ELSE Latest(ver, cell[1], cell[2])
    BY <1>2, <2>2
  <2> QED  BY <2>1, <2>3
<1> QED  BY <1>1, <1>3 DEF Shows, u

(* ... and the second lists it, if it is a violation.                      *)
LEMMA AlarmAdded ==
  ASSUME NEW S, NEW alerts \in Seq(S), NEW v \in S, NEW tap, NEW rows, NEW ver, NEW b,
         DOMAIN b = {"events", "verdicts", "violations", "observed", "status", "alarms", "feed"},
         Shows(b, tap, rows, ver, alerts), Ranked(Violated(alerts))
  PROVE  /\ Shows(IF v.outcome # "violated" THEN b
                  ELSE [b EXCEPT !.violations = @ + 1, !.alarms = Newest(v, @)],
                  tap, rows, ver, Append(alerts, v))
         /\ Ranked(Violated(Append(alerts, v)))
<1> DEFINE u == Append(alerts, v)
           I == Violated(alerts)
<1>1. Violated(u) = IF v.outcome = "violated" THEN WithNext(I, Len(alerts)) ELSE I
  BY ViolatedGrows
<1>2. I \subseteq DOMAIN alerts
  BY DEF Violated
<1>3. b.alarms = LastOnes(alerts, I) /\ b.violations = Cardinality(I)
  BY DEF Shows
<1>4. CASE v.outcome = "violated"
  <2>1. /\ Ranked(Violated(u)) /\ LastOnes(u, Violated(u)) = Newest(v, LastOnes(alerts, I))
        /\ Cardinality(Violated(u)) = Cardinality(I) + 1
    <3>1. Violated(u) = WithNext(I, Len(alerts))
      BY <1>1, <1>4
    <3>2. Len(alerts) \in Nat /\ I \subseteq 1 .. Len(alerts)
      BY <1>2, LenProperties
    <3> HIDE DEF I
    <3>3. Cardinality(Violated(u)) = Cardinality(I) + 1
      BY <3>1, <3>2, RankGrows DEF I
    <3> QED  BY <1>2, <3>1, <3>3, LastOnesGrows DEF I
  <2> HIDE DEF u, I
  <2> QED  BY <1>3, <1>4, <2>1 DEF Shows, u
<1>5. CASE v.outcome # "violated"
  <2>1. LastOnes(u, I) = LastOnes(alerts, I)
    BY <1>2, LastOnesStay
  <2>2. Violated(u) = I
    BY <1>1, <1>5
  <2> HIDE DEF u
  <2> QED  BY <1>5, <2>1, <2>2 DEF Shows, u
<1> QED  BY <1>4, <1>5

(* A page that was a moment remains one when more is tapped or decided.    *)
LEMMA MomentStays ==
  ASSUME NEW S, NEW R, NEW tap \in Seq(S), NEW ver \in Seq(R), NEW v,
         v.asked[1] \in Int, v.asked[2] \in Int, Moment(v, tap, ver)
  PROVE  /\ \A e \in S : Moment(v, Append(tap, e), ver)
         /\ \A e \in R : Moment(v, tap, Append(ver, e))
<1>1. PICK i \in v.asked[1] .. Len(tap), j \in v.asked[2] .. Len(ver) :
        v.page = PageOf(SubSeq(tap, 1, i), SubSeq(ver, 1, j))
  BY DEF Moment
<1>2. Len(tap) \in Nat /\ Len(ver) \in Nat
  BY LenProperties
<1>3. i \in Int /\ i <= Len(tap) /\ j \in Int /\ j <= Len(ver)
  BY <1>2
<1>4. ASSUME NEW e \in S  PROVE Moment(v, Append(tap, e), ver)
  <2>1. SubSeq(Append(tap, e), 1, i) = SubSeq(tap, 1, i)
    BY <1>3, PrefixStays
  <2>2. i \in v.asked[1] .. Len(Append(tap, e))
    BY <1>2, AppendProperties
  <2> QED  BY <1>1, <2>1, <2>2 DEF Moment
<1>5. ASSUME NEW e \in R  PROVE Moment(v, tap, Append(ver, e))
  <2>1. SubSeq(Append(ver, e), 1, j) = SubSeq(ver, 1, j)
    BY <1>3, PrefixStays
  <2>2. j \in v.asked[2] .. Len(Append(ver, e))
    BY <1>2, AppendProperties
  <2> QED  BY <1>1, <2>1, <2>2 DEF Moment
<1> QED  BY <1>4, <1>5

(* What is read in one piece of a board is the page of its histories.      *)
LEMMA PageShown ==
  ASSUME NEW S, NEW tap \in Seq(S), NEW ver, Shows(board, tap, tap, ver, ver)
  PROVE  [upper |-> UpperHalf, lower |-> LowerHalf] = PageOf(tap, ver)
<1>1. Len(tap) \in Nat /\ DOMAIN tap = 1 .. Len(tap) /\ (tap # <<>> <=> Len(tap) > 0)
  BY LenProperties, EmptySeq
<1>2. Unobserved(board.events, board.observed)
        = {p \in Policy : tap # <<>> /\ \A i \in DOMAIN tap : tap[i].type \notin Watches[p]}
  BY <1>1 DEF Unobserved, Shows
<1> QED  BY <1>2 DEF UpperHalf, LowerHalf, PageOf, Shows

-----------------------------------------------------------------------------
(* Nobody has tapped, decided or asked at the start.                       *)
LEMMA MomentsInit == LiveInit => Moments
<1> SUFFICES ASSUME LiveInit  PROVE Moments
  OBVIOUS
<1>1. /\ Tapping = {} /\ tapped = <<>> /\ sunk = <<>> /\ engine = "pull" /\ board = Blank
      /\ \A r \in Reader : view[r].stage = "none"
  BY DEF LiveInit, Init, DashboardInit, Tapping, NoView, Reader
<1>2. Rowed = <<>> /\ Taken = <<>> /\ Alerted = <<>>
  BY <1>1 DEF Rowed, Taken, Alerted
<1>3. Timed(<<>>) = {} /\ Violated(<<>>) = {} /\ Cardinality({}) = 0
  BY FS_EmptySet DEF Timed, Violated
<1>4. LastOnes(<<>>, {}) = <<>>
  <2>1. Shown(0) = 0
    BY DashboardAssumption DEF Shown
  <2>2. LastOnes(<<>>, {}) = [n \in 1 .. Shown(0) |-> <<>>[Ith({}, n)]]
    BY <1>3 DEF LastOnes, Shown, Ith
  <2> QED  BY <2>1, <2>2
<1>5. \A p, k : Latest(<<>>, p, k) = None
  BY DEF Latest
<1>6. Shows(Blank, <<>>, <<>>, <<>>, <<>>)
  <2> DEFINE none == <<>>
  <2>1. DOMAIN none = {} /\ Len(none) = 0
    OBVIOUS
  <2>2. {none[i].type : i \in DOMAIN none} = {}
    BY <2>1
  <2> HIDE DEF none
  <2>3. /\ Timed(none) = {} /\ Violated(none) = {} /\ Cardinality({}) = 0
        /\ LastOnes(none, {}) = <<>>
        /\ [cell \in Policy \X Key |-> Latest(none, cell[1], cell[2])] = [cell \in Policy \X Key |-> None]
    BY <1>3, <1>4, <1>5 DEF none
  <2>4. Shows(Blank, none, none, none, none)
    BY <2>1, <2>2, <2>3 DEF Shows, Blank
  <2> QED  BY <2>4 DEF none
<1>7. Boarded
  <2>1. Shows(board, tapped, Rowed, Taken, Alerted)
    BY <1>1, <1>2, <1>6
  <2>2. Ranked(Timed(Rowed)) /\ Ranked(Violated(Alerted))
    BY <1>2, <1>3, NoneRanked
  <2>3. tapped \in Seq(Told) /\ sunk \in Seq(Verdict)
    BY <1>1
  <2> QED  BY <2>1, <2>2, <2>3 DEF Boarded
<1>8. Held /\ Requested /\ Shot
  BY <1>1 DEF Held, Requested, Shot, Reader
<1> QED  BY <1>7, <1>8 DEF Moments

(* The threads inside a tap: one, and it has the lock.                     *)
LEMMA OneTapping ==
  ASSUME Held, NEW t \in Tapping
  PROVE  Tapping = {t}
  BY DEF Held

(* A step that keeps out of the dashboard.                                 *)
Aside ==
  /\ UNCHANGED <<lock, board, tapped, sunk, view>>
  /\ Tapping' = Tapping /\ \A t \in Tapping : calls'[t] = calls[t]
  /\ engine' = engine \/ (engine = "pull" /\ engine' = "done")

(* What the board shows and who is inside are as before.                   *)
LEMMA MomentsAside == Moments /\ Aside => Moments'
<1> SUFFICES ASSUME Moments, Aside  PROVE Moments'
  OBVIOUS
<1>1. Rowed' = Rowed /\ Taken' = Taken /\ Alerted' = Alerted
  BY DEF Aside, Rowed, Taken, Alerted
<1>2. Held'
  BY DEF Moments, Held, Aside, Coming, UpperHalf
<1>3. Boarded'
  BY <1>1 DEF Moments, Boarded, Aside
<1>4. Requested'
  BY <1>1 DEF Moments, Requested, Aside
<1>5. Shot'
  BY DEF Moments, Shot, Aside
<1> QED  BY <1>2, <1>3, <1>4, <1>5 DEF Moments

(* tap, its first half.                                                    *)
LEMMA MomentsTap ==
  ASSUME Shape, Moments, NEW t \in Thread, Tap(t)
  PROVE  Moments'
<1> DEFINE e == Coming(t)
<1>1. /\ lock = None /\ lock' = t /\ sunk' = sunk /\ tapped' = Append(tapped, e)
      /\ board' = [board EXCEPT !.events = @ + 1, !.observed = @ \cup {e.type}]
      /\ calls' = calls /\ view' = view /\ engine' = engine
      /\ em' = [em EXCEPT ![t] = "tapping"]
  BY DEF Tap, TapBegin, Take, Then, vars
<1>2. None \notin Thread /\ Engine # None /\ None \notin Reader
  BY LiveAppAssumption DEF Reader
<1>3. Tapping = {}
  BY <1>1, <1>2 DEF Moments, Held, Tapping
<1>4. Tapping' = {t}
  <2>1. em \in [Thread -> Stage]
    BY DEF Shape, Threads
  <2> QED  BY <1>1, <1>3, <2>1 DEF Tapping
<1>5. e \in Told /\ Coming(t)' = e
  <2>1. calls[t] \in Nat
    BY DEF Shape, Threads
  <2> QED  BY <1>1, <2>1 DEF Coming, Told
<1>6. tapped \in Seq(Told) /\ sunk \in Seq(Verdict)
  BY DEF Moments, Boarded
<1> HIDE DEF e
<1>7. /\ tapped' \in Seq(Told) /\ tapped' # <<>> /\ tapped'[Len(tapped')] = e
      /\ ButLast(tapped') = tapped
  <2>1. Append(tapped, e) \in Seq(Told) /\ Append(tapped, e) # <<>>
        /\ Append(tapped, e)[Len(Append(tapped, e))] = e
    BY <1>5, <1>6, AppendProperties
  <2> QED  BY <1>1, <1>5, <1>6, <2>1, ButLastOfAppend
<1>8. Rowed = tapped /\ Rowed' = Rowed /\ Taken' = Taken /\ Alerted' = Alerted
  BY <1>1, <1>3, <1>4, <1>7 DEF Rowed, Taken, Alerted
<1>9. Held'
  <2>1. \A r \in Reader : view[r].stage # "half"
    BY <1>1, <1>2 DEF Moments, Held
  <2>2. engine # "sinking"
    BY <1>1, <1>2 DEF Moments, Held
  <2>3. \A x \in Tapping' : x = t
    BY <1>4
  <2> QED  BY <1>1, <1>5, <1>7, <2>1, <2>2, <2>3 DEF Moments, Held
<1>10. Boarded'
  <2>1. Shows(board, tapped, Rowed, Taken, Alerted)
    BY DEF Moments, Boarded
  <2>2. Shows(board', tapped', Rowed, Taken, Alerted)
    BY <1>1, <1>5, <1>6, <2>1, Counted DEF Shape, Stores
  <2> QED  BY <1>1, <1>6, <1>7, <1>8, <2>2 DEF Moments, Boarded
<1>11. Requested'
  BY <1>1, <1>8 DEF Moments, Requested
<1>12. Shot'
  <2> SUFFICES ASSUME NEW r \in Reader, view[r].stage = "done"
               PROVE  Moment(view[r], Append(tapped, e), sunk)
    BY <1>1 DEF Shot
  <2>1. view[r].asked[1] \in Int /\ view[r].asked[2] \in Int
    BY DEF Moments, Requested
  <2>2. Moment(view[r], tapped, sunk)
    BY DEF Moments, Shot
  <2> QED  BY <1>5, <1>6, <2>1, <2>2, MomentStays
<1> QED  BY <1>9, <1>10, <1>11, <1>12 DEF Moments

(* ... and its second.                                                     *)
LEMMA MomentsTapDone ==
  ASSUME Shape, Moments, NEW t \in Thread, TapDone(t)
  PROVE  Moments'
<1> DEFINE e == Coming(t)
           s == ButLast(tapped)
<1>1. /\ em[t] = "tapping" /\ lock' = None /\ UNCHANGED <<tapped, sunk>>
      /\ board' = IF e.timed THEN [board EXCEPT !.feed = Newest(e, @)] ELSE board
      /\ view' = view /\ engine' = engine
      /\ em' = [em EXCEPT ![t] = "push"] \/ em' = [em EXCEPT ![t] = "idle"]
  BY DEF TapDone, TapEnd, Release, Then, Abort
<1>2. t \in Tapping
  BY <1>1 DEF Tapping
<1>3. Tapping = {t}
  BY <1>2, OneTapping DEF Moments
<1>4. Tapping' = {}
  <2>1. em \in [Thread -> Stage]
    BY DEF Shape, Threads
  <2> QED  BY <1>1, <1>3, <2>1 DEF Tapping
<1>5. lock = t /\ tapped # <<>> /\ tapped[Len(tapped)] = e
  BY <1>2 DEF Moments, Held
<1> HIDE DEF e
<1>6. tapped \in Seq(Told) /\ sunk \in Seq(Verdict)
  BY DEF Moments, Boarded
<1>7. s \in Seq(Told) /\ e \in Told /\ tapped = Append(s, e) /\ Len(tapped) = Len(s) + 1
  BY <1>5, <1>6, FrontAndLast
<1> HIDE DEF s
<1>8. Rowed = s /\ Rowed' = tapped /\ Taken' = Taken /\ Alerted' = Alerted
  BY <1>1, <1>3, <1>4 DEF Rowed, Taken, Alerted, s
<1>9. Held'
  <2>1. \A r \in Reader : view[r].stage # "half"
    BY <1>5, LiveAppAssumption DEF Moments, Held, Reader
  <2>2. engine # "sinking"
    BY <1>5, LiveAppAssumption DEF Moments, Held
  <2> QED  BY <1>1, <1>4, <2>1, <2>2 DEF Moments, Held
<1>10. Boarded'
  <2>1. Shows(board, tapped, s, Taken, Alerted) /\ Ranked(Timed(s)) /\ Ranked(Violated(Alerted))
    BY <1>8 DEF Moments, Boarded
  <2>2. Shows(board', tapped, Append(s, e), Taken, Alerted) /\ Ranked(Timed(Append(s, e)))
    BY <1>1, <1>7, <2>1, RowAdded DEF Shape, Stores
  <2> QED  BY <1>1, <1>6, <1>7, <1>8, <2>1, <2>2 DEF Boarded
<1>11. Requested'
  <2>1. Len(Rowed) <= Len(Rowed') /\ Len(Rowed) \in Nat /\ Len(Rowed') \in Nat
    BY <1>6, <1>7, <1>8, LenProperties
  <2>2. \A n \in Int : n <= Len(Rowed) => n <= Len(Rowed')
    BY <2>1
  <2> QED  BY <1>1, <1>8, <2>2 DEF Moments, Requested
<1>12. Shot'
  BY <1>1 DEF Moments, Shot
<1> QED  BY <1>9, <1>10, <1>11, <1>12 DEF Moments

(* A verdict that is decided is not on the board yet.                      *)
LEMMA MomentsDecide ==
  ASSUME Moments, NEW p \in Policy, NEW k \in Key, Decide(p, k)
  PROVE  Moments'
<1> DEFINE v == [policy |-> p, key |-> k, outcome |-> Outcomes[Len(sunk) + 1]]
<1>1. /\ engine = "pull" /\ engine' = "sink" /\ sunk' = Append(sunk, v)
      /\ UNCHANGED <<lock, board, tapped, em, view, calls>>
  BY DEF Decide, vars
<1>2. tapped \in Seq(Told) /\ sunk \in Seq(Verdict)
  BY DEF Moments, Boarded
<1>3. v \in Verdict
  <2>1. Len(sunk) + 1 \in Nat
    BY <1>2, LenProperties
  <2> QED  BY <2>1 DEF Verdict
<1> HIDE DEF v
<1>4. sunk' \in Seq(Verdict) /\ sunk' # <<>> /\ ButLast(sunk') = sunk
  BY <1>1, <1>2, <1>3, AppendProperties, ButLastOfAppend
<1>5. Rowed' = Rowed /\ Taken' = Taken /\ Alerted' = Alerted /\ Tapping' = Tapping
  BY <1>1, <1>4 DEF Rowed, Taken, Alerted, Tapping
<1>6. Held'
  BY <1>1, <1>4, <1>5 DEF Moments, Held, Coming, UpperHalf
<1>7. Boarded'
  BY <1>1, <1>4, <1>5 DEF Moments, Boarded
<1>8. Requested'
  BY <1>1, <1>5 DEF Moments, Requested
<1>9. Shot'
  <2> SUFFICES ASSUME NEW r \in Reader, view[r].stage = "done"
               PROVE  Moment(view[r], tapped, Append(sunk, v))
    BY <1>1 DEF Shot
  <2>1. view[r].asked[1] \in Int /\ view[r].asked[2] \in Int
    BY DEF Moments, Requested
  <2>2. Moment(view[r], tapped, sunk)
    BY DEF Moments, Shot
  <2> QED  BY <1>2, <1>3, <2>1, <2>2, MomentStays
<1> QED  BY <1>6, <1>7, <1>8, <1>9 DEF Moments

(* sink, its two halves.                                                   *)
LEMMA MomentsSink ==
  ASSUME Shape, Moments, Sink
  PROVE  Moments'
<1> DEFINE v == sunk[Len(sunk)]
           s == ButLast(sunk)
<1>1. UNCHANGED <<tapped, sunk, em, view, calls>> /\ engine \in {"sink", "sinking"}
  BY DEF Sink, SinkBegin, SinkEnd, vars
<1>2. tapped \in Seq(Told) /\ sunk \in Seq(Verdict) /\ sunk # <<>>
  BY <1>1 DEF Moments, Boarded, Held
<1>3. s \in Seq(Verdict) /\ v \in Verdict /\ sunk = Append(s, v) /\ Len(sunk) = Len(s) + 1
  BY <1>2, FrontAndLast
<1>4. \/ /\ engine = "sink" /\ engine' = "sinking" /\ lock = None /\ lock' = Engine
         /\ board' = [board EXCEPT !.verdicts = @ + 1, !.status[<<v.policy, v.key>>] = v.outcome]
      \/ /\ engine = "sinking" /\ engine' = "forward" /\ lock' = None
         /\ board' = IF v.outcome # "violated" THEN board
                     ELSE [board EXCEPT !.violations = @ + 1, !.alarms = Newest(v, @)]
  BY DEF Sink, SinkBegin, SinkEnd, Take, Release
<1> HIDE DEF v
<1>5. Shot'
  BY <1>1 DEF Moments, Shot
<1>6. Tapping' = Tapping /\ Rowed' = Rowed
  BY <1>1 DEF Tapping, Rowed
<1>7. Alerted = s /\ Len(s) \in Nat
  BY <1>1, <1>3, LenProperties DEF Alerted
<1>8. Tapping = {} /\ (\A r \in Reader : view[r].stage # "half") /\ view[Engine].stage = "none"
  <2>1. lock = None \/ lock = Engine
    BY <1>4 DEF Moments, Held
  <2>2. view[Engine].stage = "none"
    BY <1>1 DEF Moments, Held
  <2> QED  BY <2>1, <2>2, LiveAppAssumption DEF Moments, Held, Reader, Tapping
<1>9. Held'
  <2>1. engine' # "sink" /\ (engine' = "sinking" => lock' = Engine)
    BY <1>4
  <2> QED  BY <1>1, <1>2, <1>6, <1>8, <2>1 DEF Held
<1>10. DOMAIN board = {"events", "verdicts", "violations", "observed", "status", "alarms", "feed"}
  BY DEF Shape, Stores
<1>11. Shows(board, tapped, Rowed, Taken, s) /\ Ranked(Timed(Rowed)) /\ Ranked(Violated(s))
  BY <1>7 DEF Moments, Boarded
<1>12. CASE engine = "sink"
  <2>1. /\ Alerted' = s /\ Taken = s /\ Taken' = sunk
    BY <1>1, <1>4, <1>12 DEF Alerted, Taken
  <2>2. Shows(board', tapped, Rowed, sunk, s)
    <3>1. Shows(board, tapped, Rowed, s, s)
      BY <1>11, <2>1
    <3> HIDE DEF s
    <3>2. Shows([board EXCEPT !.verdicts = @ + 1, !.status[<<v.policy, v.key>>] = v.outcome],
                tapped, Rowed, Append(s, v), s)
      BY <1>3, <1>10, <3>1, CellFilled
    <3> QED  BY <1>3, <1>4, <1>12, <3>2
  <2>3. Boarded'
    BY <1>1, <1>2, <1>6, <1>11, <2>1, <2>2 DEF Boarded
  <2>4. Requested'
    BY <1>1, <1>6, <1>7, <2>1 DEF Moments, Requested
  <2> QED  BY <1>5, <1>9, <2>3, <2>4 DEF Moments
<1>13. CASE engine = "sinking"
  <2>1. /\ Alerted' = sunk /\ Taken = sunk /\ Taken' = sunk
    BY <1>1, <1>4, <1>13 DEF Alerted, Taken
  <2>2. Shows(board', tapped, Rowed, sunk, sunk) /\ Ranked(Violated(sunk))
    <3>1. Shows(board, tapped, Rowed, sunk, s) /\ Ranked(Violated(s))
      BY <1>11, <2>1
    <3> HIDE DEF s
    <3>2. /\ Shows(IF v.outcome # "violated" THEN board
                    ELSE [board EXCEPT !.violations = @ + 1, !.alarms = Newest(v, @)],
                    tapped, Rowed, sunk, Append(s, v))
          /\ Ranked(Violated(Append(s, v)))
      BY <1>3, <1>10, <3>1, AlarmAdded
    <3> QED  BY <1>3, <1>4, <1>13, <3>2
  <2>3. Boarded'
    BY <1>1, <1>2, <1>6, <1>11, <2>1, <2>2 DEF Boarded
  <2>4. Requested'
    <3>1. \A n \in Int : n <= Len(s) => n <= Len(sunk)
      BY <1>3, <1>7
    <3> QED  BY <1>1, <1>6, <1>7, <2>1, <3>1 DEF Moments, Requested
  <2> QED  BY <1>5, <1>9, <2>3, <2>4 DEF Moments
<1> QED  BY <1>1, <1>12, <1>13

(* A request that is made now is not ahead of what has been completed.     *)
LEMMA CompletedNow ==
  ASSUME Moments
  PROVE  /\ Completed[1] = Len(Rowed) /\ Completed[2] = Len(Alerted)
         /\ Len(Rowed) \in Int /\ Len(Alerted) \in Int
<1>1. tapped \in Seq(Told) /\ sunk \in Seq(Verdict) /\ Len(tapped) \in Nat /\ Len(sunk) \in Nat
  BY LenProperties DEF Moments, Boarded
<1>2. Len(Rowed) = Len(tapped) - Cardinality(Tapping) /\ Len(Rowed) \in Int
  <2>1. CASE Tapping = {}
    <3>1. Cardinality({}) = 0
      BY FS_EmptySet
    <3> QED  BY <1>1, <2>1, <3>1 DEF Rowed
  <2>2. ASSUME NEW t \in Tapping
        PROVE  Len(Rowed) = Len(tapped) - Cardinality(Tapping) /\ Len(Rowed) \in Int
    <3>1. Cardinality(Tapping) = 1
      BY OneTapping, FS_Singleton DEF Moments
    <3>2. Rowed = ButLast(tapped) /\ tapped # <<>>
      BY DEF Rowed, Moments, Held
    <3>3. Len(tapped) = Len(Rowed) + 1 /\ Len(Rowed) \in Nat
      BY <1>1, <3>2, FrontAndLast, LenProperties
    <3> QED  BY <3>1, <3>3
  <2> QED  BY <2>1, <2>2
<1>3. Len(Alerted) = Len(sunk) - (IF engine \in {"sink", "sinking"} THEN 1 ELSE 0) /\ Len(Alerted) \in Int
  <2>1. CASE engine \in {"sink", "sinking"}
    <3>1. Alerted = ButLast(sunk) /\ sunk # <<>>
      BY <2>1 DEF Alerted, Moments, Held
    <3>2. Len(sunk) = Len(Alerted) + 1 /\ Len(Alerted) \in Nat
      BY <1>1, <3>1, FrontAndLast, LenProperties
    <3> QED  BY <2>1, <3>2
  <2>2. CASE engine \notin {"sink", "sinking"}
    BY <1>1, <2>2 DEF Alerted
  <2> QED  BY <2>1, <2>2
<1>4. Tapping = {t \in Thread : em[t] = "tapping"}
  BY DEF Tapping
<1> QED  BY <1>2, <1>3, <1>4 DEF Completed

(* Requests come and go between the accesses.                              *)
LEMMA MomentsAsked ==
  ASSUME Shape, Moments, (\E r \in Viewer : Ask(r)) \/ Forward \/ Looked
  PROVE  Moments'
<1>1. UNCHANGED <<lock, board, tapped, sunk, em, calls>>
  BY DEF Ask, Forward, Looked, dashboardVars, vars
<1>2. /\ engine' \notin {"sink", "sinking"} \/ engine' = engine
      /\ engine \notin {"sink", "sinking"} \/ engine' = engine
  BY DEF Ask, Forward, Looked
<1>3. Tapping' = Tapping /\ Rowed' = Rowed /\ Taken' = Taken /\ Alerted' = Alerted
  BY <1>1, <1>2 DEF Tapping, Rowed, Taken, Alerted
<1>4. DOMAIN view = Reader /\ Viewer \subseteq Reader /\ Engine \in Reader /\ Engine \notin Viewer
  BY LiveAppAssumption DEF Shape, Requests, Reader
<1>5. \A r \in Reader :
        \/ view'[r] = view[r]
        \/ view'[r].stage = "none"
        \/ view'[r].stage = "asked" /\ view'[r].asked = Completed
  BY <1>4 DEF Ask, Forward, Looked, NoView
<1>6. view'[Engine].stage # "none" => engine' = "looking"
  <2>1. view[Engine].stage # "none" => engine = "looking"
    BY DEF Moments, Held
  <2> QED  BY <1>4, <2>1 DEF Ask, Forward, Looked, NoView
<1>7. Held'
  <2>1. \A r \in Reader : view'[r].stage = "half" => lock' = r /\ view'[r].page = UpperHalf'
    BY <1>1, <1>5 DEF Moments, Held, UpperHalf
  <2> QED  BY <1>1, <1>2, <1>3, <1>6, <2>1 DEF Moments, Held, Coming
<1>8. Boarded'
  BY <1>1, <1>3 DEF Moments, Boarded
<1>9. Requested'
  BY <1>3, <1>5, CompletedNow DEF Moments, Requested
<1>10. Shot'
  BY <1>1, <1>5 DEF Moments, Shot
<1> QED  BY <1>7, <1>8, <1>9, <1>10 DEF Moments

(* state, its two halves.                                                  *)
LEMMA MomentsRead ==
  ASSUME Shape, Moments, NEW r \in Reader, StateBegin(r) \/ StateEnd(r)
  PROVE  Moments'
<1>1. UNCHANGED <<board, tapped, sunk, em, calls, engine>>
  BY DEF StateBegin, StateEnd, ReadBegin, ReadEnd, vars
<1>2. Tapping' = Tapping /\ Rowed' = Rowed /\ Taken' = Taken /\ Alerted' = Alerted
  BY <1>1 DEF Tapping, Rowed, Taken, Alerted
<1>3. DOMAIN view = Reader /\ DOMAIN view[r] = {"stage", "asked", "page"} /\ None \notin Reader
      /\ Engine \in Reader
  BY LiveAppAssumption DEF Shape, Requests, Reader
<1>4. /\ \A x \in Reader : x # r => view'[x] = view[x]
      /\ view'[r].asked = view[r].asked /\ view'[r].stage # "none" /\ view[r].stage # "none"
  BY <1>3 DEF StateBegin, StateEnd
<1>5. Boarded'
  BY <1>1, <1>2 DEF Moments, Boarded
<1>6. Requested'
  BY <1>2, <1>4 DEF Moments, Requested
<1>7. r = Engine => engine = "looking"
  BY <1>4 DEF Moments, Held
<1>8. view'[Engine].stage # "none" => engine' = "looking"
  BY <1>1, <1>3, <1>4, <1>7 DEF Moments, Held
<1>9. UpperHalf' = UpperHalf
  BY <1>1 DEF UpperHalf
<1>10. CASE StateBegin(r)
  <2>1. lock = None /\ lock' = r /\ view'[r].stage = "half" /\ view'[r].page = UpperHalf
    BY <1>3, <1>10 DEF StateBegin, ReadBegin, Take
  <2>2. Tapping = {} /\ engine # "sinking" /\ \A x \in Reader : view[x].stage # "half"
    BY <1>3, <2>1, LiveAppAssumption DEF Moments, Held, Tapping, Reader
  <2>3. Held'
    BY <1>1, <1>2, <1>4, <1>8, <1>9, <2>1, <2>2 DEF Moments, Held
  <2>4. Shot'
    BY <1>1, <1>4, <2>1 DEF Moments, Shot
  <2> QED  BY <1>5, <1>6, <2>3, <2>4 DEF Moments
<1>11. CASE StateEnd(r)
  <2>1. /\ view[r].stage = "half" /\ view'[r].stage = "done" /\ lock' = None
        /\ view'[r].page = [upper |-> view[r].page, lower |-> LowerHalf]
    BY <1>3, <1>11 DEF StateEnd, ReadEnd, Release
  <2>2. lock = r /\ view[r].page = UpperHalf
    BY <2>1 DEF Moments, Held
  <2>3. Tapping = {} /\ engine # "sinking" /\ \A x \in Reader : x # r => view[x].stage # "half"
    BY <1>7, <2>2, LiveAppAssumption DEF Moments, Held, Tapping, Reader
  <2>4. Held'
    BY <1>1, <1>2, <1>4, <1>8, <2>1, <2>3 DEF Moments, Held
  <2>5. Rowed = tapped /\ Alerted = Taken
    BY <2>3 DEF Rowed, Alerted, Taken
  <2>6. /\ tapped \in Seq(Told) /\ sunk \in Seq(Verdict)
        /\ Shows(board, tapped, tapped, Taken, Taken)
    BY <2>5 DEF Moments, Boarded
  <2>7. view'[r].page = PageOf(tapped, Taken)
    BY <2>1, <2>2, <2>6, PageShown
  <2>8. SubSeq(tapped, 1, Len(tapped)) = tapped
    BY <2>6, SubSeqFull
  <2>9. SubSeq(sunk, 1, Len(Taken)) = Taken /\ Len(Taken) \in Nat /\ Len(Taken) <= Len(sunk)
    <3>1. CASE engine = "sink"
      <4>1. Taken = ButLast(sunk) /\ sunk # <<>>
        BY <3>1 DEF Taken, Moments, Held
      <4>2. Len(sunk) = Len(Taken) + 1 /\ Len(Taken) \in Nat
        BY <2>6, <4>1, FrontAndLast, LenProperties
      <4>3. Len(sunk) - 1 = Len(Taken)
        BY <4>2
      <4> QED  BY <4>1, <4>2, <4>3 DEF ButLast
    <3>2. CASE engine # "sink"
      BY <2>6, <3>2, SubSeqFull, LenProperties DEF Taken
    <3> QED  BY <3>1, <3>2
  <2>10. /\ view[r].asked[1] \in Int /\ view[r].asked[1] <= Len(tapped)
         /\ view[r].asked[2] \in Int /\ view[r].asked[2] <= Len(Taken)
    BY <1>4, <2>5 DEF Moments, Requested
  <2>11. Moment(view'[r], tapped, sunk)
    <3> DEFINE i == Len(tapped)
               j == Len(Taken)
    <3>1. i \in view'[r].asked[1] .. Len(tapped)
      BY <1>4, <2>6, <2>10, LenProperties
    <3>2. j \in view'[r].asked[2] .. Len(sunk)
      BY <1>4, <2>6, <2>9, <2>10, LenProperties
    <3>3. view'[r].page = PageOf(SubSeq(tapped, 1, i), SubSeq(sunk, 1, j))
      BY <2>7, <2>8, <2>9
    <3> QED  BY <3>1, <3>2, <3>3 DEF Moment
  <2>12. Shot'
    BY <1>1, <1>4, <2>11 DEF Moments, Shot
  <2> QED  BY <1>5, <1>6, <2>4, <2>12 DEF Moments
<1> QED  BY <1>10, <1>11

(* Every step is one of those, or keeps out of the dashboard.              *)
LEMMA MomentsKept == Shape /\ Moments /\ [LiveNext]_lvars => Moments'
<1> SUFFICES ASSUME Shape, Moments, [LiveNext]_lvars  PROVE Moments'
  OBVIOUS
<1>0. calls \in [Thread -> Nat] /\ em \in [Thread -> Stage] /\ Main \in Thread
  BY LiveAppAssumption DEF Shape, Threads
<1> DEFINE Hooks(t) == RecordLine(t) \/ RecordNewline(t) \/ RecordFlush(t) \/ RecordTime(t) \/ Push(t)
<1>1. ASSUME NEW t \in Thread, Hooks(t)  PROVE Aside
  <2>1. UNCHANGED <<lock, board, tapped, sunk, view, engine>>
    BY <1>1 DEF RecordLine, RecordNewline, RecordFlush, RecordTime, Push, dashboardVars
  <2>2. em[t] # "tapping" /\ em'[t] # "tapping" /\ \A x \in Thread : x # t => em'[x] = em[x]
    BY <1>0, <1>1 DEF RecordLine, RecordNewline, RecordFlush, RecordTime, Push, At, Then, Abort,
                      BehindRecorder
  <2>3. \A x \in Thread : x # t => calls'[x] = calls[x]
    BY <1>0, <1>1 DEF RecordLine, RecordNewline, RecordFlush, RecordTime, Push, Abort, PushCheck,
                      PushPut, vars
  <2> QED  BY <2>1, <2>2, <2>3 DEF Aside, Tapping
<1>2. ASSUME \/ UNCHANGED lvars \/ Pull \/ Return \/ CloseSource
             \/ JoinAndStop \/ WriteHorizon \/ CloseRecorder
      PROVE  Aside
  <2>1. UNCHANGED <<lock, board, tapped, sunk, view, em, calls>>
    BY <1>2 DEF lvars, Pull, Get, Return, CloseSource, CloseCheck, CloseSet, CloseSentinel,
                JoinAndStop, WriteHorizon, CloseRecorder, dashboardVars, vars
  <2>2. engine' = engine \/ (engine = "pull" /\ engine' = "done")
    BY <1>2 DEF lvars, Pull, Return, CloseSource, JoinAndStop, WriteHorizon, CloseRecorder
  <2> QED  BY <2>1, <2>2 DEF Aside, Tapping
<1> QED
  BY <1>1, <1>2, MomentsAside, MomentsTap, MomentsTapDone, MomentsDecide, MomentsSink, MomentsAsked,
     MomentsRead DEF LiveNext, Emission, Reader

(* The lock makes every page one moment of what was tapped and decided:    *)
(* no cell without its count, no row without its type, nothing missing     *)
(* that was complete before the request (dashboard.py, Dashboard.state).   *)
THEOREM PagesAreMoments == LiveSpec => []SnapshotIsAMoment
<1>1. LiveInit => Shape /\ Moments
  BY ShapeInit, MomentsInit
<1>2. Shape /\ Moments /\ [LiveNext]_lvars => (Shape /\ Moments)'
  BY ShapeKept, MomentsKept
<1>3. Shape /\ Moments => SnapshotIsAMoment
  BY DEF Moments, Shot, Moment, SnapshotIsAMoment, Reader
<1> QED  BY <1>1, <1>2, <1>3, PTL DEF LiveSpec
=============================================================================
