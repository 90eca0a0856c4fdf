---------------------------- MODULE RecordedRun ----------------------------
(***************************************************************************)
(* behave_rv.events.sources.replay: a live run with a TraceRecorder teed   *)
(* into the service's emit chain, closed after the run as the ticketing    *)
(* example closes it, and the replay of the file it wrote.                 *)
(***************************************************************************)
EXTENDS LiveEngine
LOCAL INSTANCE SequencesExt

VARIABLES file,      \* the trace: the events and, at its end, the marker
          maxTime,   \* TraceRecorder._max_time
          fileOpen,  \* the file has not been closed
          hasClock,  \* the recorder had the service's clock; known at the end
          replay     \* the engine that has replayed the file

recorderVars == <<file, maxTime, fileOpen, hasClock, replay>>
allVars == <<vars, recorderVars>>

HORIZON == "behave_rv.clock"
(* The clock-horizon marker: no bindings, first in content order.          *)
HorizonEvent(t) ==
  [tie |-> 0, type |-> HORIZON, status |-> HORIZON, time |-> t,
   bindings |-> [f \in {p.field : p \in Policies} |-> None]]

RecordInit ==
  /\ Init
  /\ file = <<>> /\ maxTime = NegInf /\ fileOpen = TRUE
  /\ hasClock = None /\ replay = None

(* source.push(recorder(e)): the line is written, then the event pushed.   *)
RecordAndPush(e) ==
  /\ Push1(e)
  /\ fileOpen
  /\ file' = Append(file, e)
  /\ maxTime' = IF UsableTime(e.time) THEN Larger(maxTime, e.time) ELSE maxTime
  /\ UNCHANGED <<fileOpen, hasClock, replay>>

(* Engine.run over ReplaySource(file): every line through the window, then *)
(* the flush.                                                              *)
ReplayLine(run, e) ==
  IF ~Buffered THEN [run EXCEPT !.eng = HandleEvent(@, e)]
  ELSE LET b == Push(run.buffer, e) IN
       [buffer |-> AfterReleasable(b), eng |-> HandleAll(run.eng, Events(Releasable(b)))]

Replayed(f) ==
  LET run == InSequence(ReplayLine, [buffer |-> EmptyBuffer, eng |-> EmptyEngine], f)
  IN IF Buffered THEN HandleAll(run.eng, Events(Flush(run.buffer))) ELSE run.eng


(* The moment recording stopped.                                           *)
Horizon(clock) == IF clock THEN wall ELSE maxTime

(* The recorder is closed when the run has returned, and the file is       *)
(* replayed.                                                               *)
CloseRecorder(clock) ==
  LET at == Horizon(clock) IN
  /\ ~running /\ fileOpen
  /\ fileOpen' = FALSE /\ hasClock' = clock
  /\ file' = IF at # NegInf /\ at >= maxTime THEN Append(file, HorizonEvent(at)) ELSE file
  /\ replay' = Replayed(file')
  /\ UNCHANGED <<vars, maxTime>>

(* Bound: wall time passes while the run or the service may go on.         *)
RecordedTick == (running \/ wall < LastPush) /\ Tick

(* Nothing that happens once the recorder is closed concerns the file.     *)
RecordNext ==
  \/ \E e \in Event : RecordAndPush(e)
  \/ fileOpen /\ (Close \/ RecordedTick \/ Loop) /\ UNCHANGED recorderVars
  \/ \E clock \in BOOLEAN : CloseRecorder(clock)

(* The fairness of the live loop.                                          *)
RecordFairness ==
  /\ []<>~LoopReady \/ []<><<LoopStep>>_vars
  /\ WF_vars(fileOpen /\ RecordedTick)
RecordSpec == RecordInit /\ [][RecordNext]_allVars /\ RecordFairness

-----------------------------------------------------------------------------
(* The verdicts of an engine about an id, those at the end of the run that *)
(* only say "pending" apart.                                               *)
Decided(e, id) == SelectSeq(e.verdicts[id], LAMBDA v : v.verdict # "pending")

Recorded == ~running /\ ~fileOpen /\ buffer.late = <<>>

(* SEMANTICS.md:279-281: "verdicts can differ from a pure-event replay of  *)
(* the same trace only via the flagged dropped set".  So every verdict of  *)
(* the live run is one of the replay, with the same date and evidence,     *)
(* unless an event was flagged late; and without a clock ("the recorder    *)
(* must never invent time", test_epoch_and_horizon.py:121) or with one     *)
(* ("firing exactly the deadlines the live wall clock fired",              *)
(* SEMANTICS.md:297-298) the replay has no others.                         *)
ReplayLosesNothing ==
  Recorded /\ hasClock =>
    \A id \in Id : IsPrefix(Decided(eng, id), Decided(replay, id))
NothingInvented ==
  \A id \in Id : IsPrefix(Decided(replay, id), Decided(eng, id))
ReplayInventsNothing == Recorded /\ ~hasClock => NothingInvented
ReplayIsExact == Recorded => NothingInvented

(* The verdict of a deadline that has passed.                              *)
IsTimeout(v, id) ==
  /\ PolicyOf(id).kind = "within" /\ v.verdict = "violated" /\ Len(v.because) = 1
  /\ v.at = v.because[1].time + PolicyOf(id).seconds

(* What the two runs say of one lifetime: the same; or the live run says   *)
(* that the deadline has passed, and the replay that the same obligation   *)
(* was decided earlier, less than a grace before the deadline, when a wall *)
(* fire can be over an event that is still held.                           *)
Agree(live, again, id) ==
  \/ again = live
  \/ /\ IsTimeout(live, id)
     /\ again.because[1] = live.because[1]
     /\ live.at - Grace < again.at /\ again.at < live.at

AgreeAsFar(id) ==
  LET live == Decided(eng, id)
      again == Decided(replay, id)
  IN \A k \in DOMAIN live \cap DOMAIN again : Agree(live[k], again[k], id)



=============================================================================
