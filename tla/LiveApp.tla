------------------------------ MODULE LiveApp ------------------------------
(***************************************************************************)
(* The live wiring (examples/ticketing/live_monitor.py, the docstrings of  *)
(* dashboard.py and replay.py):                                            *)
(*                                                                         *)
(*   service threads: source.push(dashboard.tap(recorder(event)))          *)
(*   engine thread:   engine.run(source, sink=dashboard.sink)              *)
(*   HTTP threads:    dashboard.state()                                    *)
(*   main thread:     source.close(), dashboard.stop(), recorder.close()   *)
(*                                                                         *)
(* The engine is abstract here: having yielded an event of a policy's type *)
(* it may decide any verdict for that policy and entity, now or later,     *)
(* also while it flushes; LiveEngine has the details.                      *)
(***************************************************************************)
EXTENDS QueueSource, Dashboard

CONSTANTS What,        \* [Thread -> the events it emits: [type, key, timed, at]]
          Main,        \* the thread that shuts down, and emits nothing
          Engine,      \* the engine's thread
          Viewer,      \* requests for the page
          Wirings,     \* the hooks of the emit chain: sets of "recorder" and "dashboard"
          Outcomes     \* bound: the outcomes of the verdicts, in order

ASSUME LiveAppAssumption ==
  /\ Main \in Thread /\ What[Main] = <<>>
  /\ Engine \notin Thread \cup Viewer /\ Thread \cap Viewer = {}
  /\ None \notin Thread \cup Viewer \cup {Engine}
  /\ \A t \in Thread : Len(What[t]) <= MaxCalls

VARIABLES wired,    \* the hooks of this application
          em,       \* [Thread -> what its emission does next]
          file,     \* the trace, see below
          maxTime,  \* TraceRecorder._max_time
          main,     \* the main thread's progress
          engine,   \* the engine's progress
          view      \* [Viewer or Engine -> [stage, asked, page]] of its state()

(* The trace: the events whose record was written and not flushed, those   *)
(* in the file, whether the last line has an end, whether some line holds  *)
(* two records, and the time of the horizon marker (0: none).              *)
NoTrace == [buffer |-> {}, disk |-> {}, open |-> FALSE, torn |-> FALSE, horizon |-> 0]

recorderVars == <<file, maxTime>>
lvars == <<vars, dashboardVars, wired, em, recorderVars, main, engine, view>>

Coming(t) == What[t][calls[t] + 1]
EventOf(e) == What[e.by][e.n]

NoView == [stage |-> "none", asked |-> <<0, 0>>, page |-> None]

LiveInit ==
  /\ Init /\ DashboardInit
  /\ wired \in Wirings
  /\ em = [t \in Thread |-> "idle"]
  /\ file = NoTrace /\ maxTime = 0
  /\ main = "serving" /\ engine = "pull"
  /\ view = [r \in Viewer \cup {Engine} |-> NoView]

-----------------------------------------------------------------------------
(* A service thread emits: through the hooks that are wired, to the queue. *)
BehindRecorder == IF "dashboard" \in wired THEN "tap" ELSE "push"
Entrance == IF "recorder" \in wired THEN "line" ELSE BehindRecorder

(* t does the given step next; from "idle", an emission begins.            *)
At(t, stage) ==
  \/ em[t] = stage
  \/ em[t] = "idle" /\ stage = Entrance /\ pc[t] = "idle" /\ calls[t] < Len(What[t])
Then(t, stage) == em' = [em EXCEPT ![t] = stage]

(* An exception of the recorder or of tap reaches the service: the event   *)
(* is not pushed.                                                          *)
Abort(t) ==
  /\ calls' = [calls EXCEPT ![t] = @ + 1]
  /\ refused' = refused \cup {Event(t)'}
  /\ Then(t, "idle")
  /\ UNCHANGED <<queue, closed, pc, yielded, ended, accepted>>

(* TraceRecorder.__call__: the line, its end, the flush, the highest time; *)
(* a closed file raises.                                                   *)
RecordLine(t) ==
  /\ At(t, "line")
  /\ IF main = "done" THEN Abort(t) /\ UNCHANGED file
     ELSE /\ file' = [file EXCEPT !.buffer = @ \cup {[by |-> t, n |-> calls[t] + 1]},
                                 !.torn = @ \/ file.open, !.open = TRUE]
          /\ Then(t, "newline") /\ UNCHANGED vars
  /\ UNCHANGED <<wired, dashboardVars, maxTime, main, engine, view>>

RecordNewline(t) ==
  /\ em[t] = "newline"
  /\ IF main = "done" THEN Abort(t) /\ UNCHANGED file
     ELSE file' = [file EXCEPT !.open = FALSE] /\ Then(t, "flush") /\ UNCHANGED vars
  /\ UNCHANGED <<wired, dashboardVars, maxTime, main, engine, view>>

(* Mutant: nothing is flushed.                                             *)
NotFlushed(trace) == trace

Flushed(trace) == [trace EXCEPT !.disk = @ \cup trace.buffer, !.buffer = {}]

Higher(e) == e.timed /\ e.at > maxTime

RecordFlush(t) ==
  /\ em[t] = "flush"
  /\ IF main = "done" THEN Abort(t) /\ UNCHANGED file
     ELSE file' = Flushed(file) /\ Then(t, IF Higher(Coming(t)) THEN "keep" ELSE BehindRecorder) /\ UNCHANGED vars
  /\ UNCHANGED <<wired, dashboardVars, maxTime, main, engine, view>>

RecordTime(t) ==
  /\ em[t] = "keep"
  /\ maxTime' = Coming(t).at
  /\ Then(t, BehindRecorder)
  /\ UNCHANGED <<wired, vars, dashboardVars, file, main, engine, view>>

(* dashboard.tap                                                           *)
Tap(t) ==
  /\ At(t, "tap")
  /\ TapBegin(t, Coming(t))
  /\ Then(t, "tapping")
  /\ UNCHANGED <<wired, vars, recorderVars, main, engine, view>>

TapDone(t) ==
  /\ em[t] = "tapping"
  /\ TapEnd(Coming(t))
  /\ IF Coming(t).timed THEN Then(t, "push") /\ UNCHANGED vars ELSE Abort(t)
  /\ UNCHANGED <<wired, recorderVars, main, engine, view>>

(* source.push                                                             *)
Push(t) ==
  /\ At(t, "push")
  /\ \/ PushCheck(t) /\ Then(t, IF closed THEN "idle" ELSE "push")
     \/ PushPut(t) /\ Then(t, "idle")
  /\ UNCHANGED <<wired, dashboardVars, recorderVars, main, engine, view>>

Emission(t) ==
  \/ RecordLine(t) \/ RecordNewline(t) \/ RecordFlush(t) \/ RecordTime(t)
  \/ Tap(t) \/ TapDone(t) \/ Push(t)

-----------------------------------------------------------------------------
(* A request for the page.                                                 *)
Completed ==
  <<Len(tapped) - Cardinality({t \in Thread : em[t] = "tapping"}),
    Len(sunk) - (IF engine \in {"sink", "sinking"} THEN 1 ELSE 0)>>

StateBegin(r) ==
  /\ view[r].stage = "asked"
  /\ ReadBegin(r)
  /\ view' = [view EXCEPT ![r].stage = "half", ![r].page = UpperHalf]
  /\ UNCHANGED <<wired, vars, em, recorderVars, main, engine>>

StateEnd(r) ==
  /\ view[r].stage = "half"
  /\ ReadEnd
  /\ view' = [view EXCEPT ![r].stage = "done",
                          ![r].page = [upper |-> @, lower |-> LowerHalf]]
  /\ UNCHANGED <<wired, vars, em, recorderVars, main, engine>>

(* The server accepts a request; one it has accepted is answered even when *)
(* stop() comes in between (the threads of ThreadingHTTPServer are daemons *)
(* nobody joins).                                                          *)
Ask(r) ==
  /\ "dashboard" \in wired /\ main \in {"serving", "closing"}
  /\ view[r].stage = "none"
  /\ view' = [view EXCEPT ![r] = [stage |-> "asked", asked |-> Completed, page |-> None]]
  /\ UNCHANGED <<wired, vars, dashboardVars, em, recorderVars, main, engine>>

-----------------------------------------------------------------------------
(* The engine's thread.                                                    *)
Pull ==
  /\ engine = "pull"
  /\ Get
  /\ UNCHANGED <<wired, dashboardVars, em, recorderVars, main, engine, view>>

(* deliver(verdict), of a policy that has an instance for that entity.     *)
Decide(p, k) ==
  /\ "dashboard" \in wired /\ engine = "pull" /\ Len(sunk) < Len(Outcomes)
  /\ \E i \in DOMAIN yielded :
       EventOf(yielded[i]).key = k /\ EventOf(yielded[i]).type \in Watches[p]
  /\ engine' = "sink"
  /\ sunk' = Append(sunk, [policy |-> p, key |-> k, outcome |-> Outcomes[Len(sunk) + 1]])
  /\ UNCHANGED <<wired, vars, lock, board, tapped, em, recorderVars, main, view>>

Sink ==
  /\ \/ engine = "sink" /\ SinkBegin(Engine, sunk[Len(sunk)]) /\ engine' = "sinking"
     \/ engine = "sinking" /\ SinkEnd(sunk[Len(sunk)]) /\ engine' = "forward"
  /\ UNCHANGED <<wired, vars, em, recorderVars, main, view>>

(* The chained sink returns, or raises and is contained by deliver, or     *)
(* looks at the dashboard itself.                                          *)
Forward ==
  /\ engine = "forward"
  /\ \/ engine' = "pull" /\ UNCHANGED view
     \/ /\ engine' = "looking"
        /\ view' = [view EXCEPT ![Engine] = [stage |-> "asked", asked |-> Completed, page |-> None]]
  /\ UNCHANGED <<wired, vars, dashboardVars, em, recorderVars, main>>

Looked ==
  /\ engine = "looking" /\ view[Engine].stage = "done"
  /\ engine' = "pull"
  /\ view' = [view EXCEPT ![Engine] = NoView]
  /\ UNCHANGED <<wired, vars, dashboardVars, em, recorderVars, main>>

Return ==
  /\ engine = "pull" /\ ended
  /\ engine' = "done"
  /\ UNCHANGED <<wired, vars, dashboardVars, em, recorderVars, main, view>>

-----------------------------------------------------------------------------
(* The main thread: it closes the source, waits for the engine but not     *)
(* longer than a timeout, stops the server and closes the recorder.        *)
CloseSource ==
  /\ \/ main = "serving" /\ (CloseCheck(Main) \/ CloseSet(Main)) /\ UNCHANGED main
     \/ main = "serving" /\ CloseSentinel(Main) /\ main' = "closing"
  /\ UNCHANGED <<wired, dashboardVars, em, recorderVars, engine, view>>

JoinAndStop ==
  /\ main = "closing"
  /\ main' = IF "recorder" \in wired THEN "stopped" ELSE "done"
  /\ UNCHANGED <<wired, vars, dashboardVars, em, recorderVars, engine, view>>

(* TraceRecorder.close without a clock: the marker at the highest time,    *)
(* unless there is none; then the file is closed.                          *)
WriteHorizon ==
  /\ main = "stopped"
  /\ main' = "marked"
  /\ file' = IF maxTime = 0 THEN file ELSE [file EXCEPT !.horizon = maxTime, !.torn = @ \/ file.open]
  /\ UNCHANGED <<wired, vars, dashboardVars, em, maxTime, engine, view>>

CloseRecorder ==
  /\ main = "marked"
  /\ main' = "done"
  /\ file' = Flushed(file)
  /\ UNCHANGED <<wired, vars, dashboardVars, em, maxTime, engine, view>>

-----------------------------------------------------------------------------
LiveNext ==
  \/ \E t \in Thread : Emission(t)
  \/ \E r \in Viewer : Ask(r)
  \/ \E r \in Viewer \cup {Engine} : StateBegin(r) \/ StateEnd(r)
  \/ Pull \/ (\E p \in Policy, k \in Key : Decide(p, k)) \/ Sink \/ Forward \/ Looked \/ Return
  \/ CloseSource \/ JoinAndStop \/ WriteHorizon \/ CloseRecorder

(* Every thread inside a call goes on with it, the engine's thread runs    *)
(* and a page somebody asked for is read.  Nobody is obliged to emit, to   *)
(* ask or to close.                                                        *)
LiveFairness ==
  /\ \A t \in Thread : WF_lvars(em[t] # "idle" /\ Emission(t))
  /\ \A r \in Viewer \cup {Engine} : WF_lvars(StateBegin(r) \/ StateEnd(r))
  /\ WF_lvars(Pull) /\ WF_lvars(Sink) /\ WF_lvars(Forward) /\ WF_lvars(Looked) /\ WF_lvars(Return)
  /\ WF_lvars(CloseSource /\ pc[Main] # "idle")

LiveSpec == LiveInit /\ [][LiveNext]_lvars /\ LiveFairness

-----------------------------------------------------------------------------
(* What the engine sees of a thread is what that thread emitted, in its    *)
(* order, each event once; what is left out raised in the service.         *)
EmittedInOrder ==
  \A t \in Thread :
    LET mine == {i \in DOMAIN yielded : yielded[i].by = t}
        seen == {yielded[i].n : i \in mine}
    IN /\ \A i, j \in mine : i < j => yielded[i].n < yielded[j].n
       /\ \A n \in seen : \A m \in 1..n : m \in seen \/ [by |-> t, n |-> m] \in refused

(* "Every event is appended (and flushed) as one JSON line" before it goes *)
(* on (replay.py:74): whenever the process dies, the trace holds every     *)
(* event the engine has seen.                                              *)
YieldedOnDisk ==
  "recorder" \in wired => \A i \in DOMAIN yielded : yielded[i] \in file.disk

(* A page is one moment of the dashboard between the request and the       *)
(* answer: its cells, its counts, its lists and its warnings all follow    *)
(* from the same taps and the same verdicts, none completed before the     *)
(* request is missing, and none that was not yet tapped or decided shows.  *)
SnapshotIsAMoment ==
  \A r \in {x \in Viewer \cup {Engine} : view[x].stage = "done"} :
    \E i \in view[r].asked[1]..Len(tapped), j \in view[r].asked[2]..Len(sunk) :
      view[r].page = PageOf(SubSeq(tapped, 1, i), SubSeq(sunk, 1, j))

(* "A policy is unobserved when events ARE flowing but none of its event   *)
(* types has appeared" (dashboard.py:187): no page shows that warning for  *)
(* a policy together with a verdict of it.                                 *)
VerdictWasObserved ==
  \A r \in {x \in Viewer \cup {Engine} : view[x].stage = "done"} :
    \A p \in view[r].page.upper.unobserved, k \in Key : view[r].page.upper.status[<<p, k>>] = None

(* A close ends the run, whatever the chained sink does and whoever is     *)
(* inside the dashboard: the engine's thread gets out of its loop.         *)
RunReturns == closed ~> engine = "done"

(* "Every event is appended (and flushed) as one JSON line" (replay.py:74):*)
(* no line of the trace holds two records.                                 *)
LinesAreWhole == ~file.torn

(* The horizon marker is not before an event the trace holds ("else the    *)
(* highest event time seen", replay.py:82).                                *)
HorizonCoversTrace ==
  file.horizon # 0 => \A e \in file.disk : EventOf(e).timed => EventOf(e).at <= file.horizon
=============================================================================
