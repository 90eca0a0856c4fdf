---------------------------- MODULE QueueSource ----------------------------
(***************************************************************************)
(* behave_rv.events.sources.subscription.QueueSource: push() and close()   *)
(* run on the service's threads, the consumer on the engine's.  The queue  *)
(* is thread-safe, the flag _closed is a plain attribute: each read, write *)
(* or queue operation is one step.                                         *)
(***************************************************************************)
EXTENDS Naturals, Sequences, FiniteSets

CONSTANTS Thread,   \* the service's threads
          MaxCalls, \* bound: calls of push by a thread
          CLOSED    \* the sentinel

ASSUME QueueAssumption == CLOSED \notin [by : Thread, n : Nat]

VARIABLES queue,    \* the queue.Queue
          closed,   \* _closed
          pc,       \* [Thread -> "idle", "put", "set" or "sentinel"]
          calls,    \* number of pushes each thread has begun
          yielded,  \* history: what the consumer got before the sentinel
          ended,    \* the consumer got the sentinel
          accepted, \* history: events whose push returned
          refused   \* history: events whose push raised

vars == <<queue, closed, pc, calls, yielded, ended, accepted, refused>>

(* A thread's n-th event.                                                  *)
Event(t) == [by |-> t, n |-> calls[t]]

Init ==
  /\ queue = <<>> /\ closed = FALSE
  /\ pc = [t \in Thread |-> "idle"] /\ calls = [t \in Thread |-> 0]
  /\ yielded = <<>> /\ ended = FALSE
  /\ accepted = {} /\ refused = {}

-----------------------------------------------------------------------------
(* push(): the check ...                                                   *)
PushCheck(t) ==
  /\ pc[t] = "idle" /\ calls[t] < MaxCalls
  /\ calls' = [calls EXCEPT ![t] = @ + 1]
  /\ IF closed
     THEN refused' = refused \cup {Event(t)'} /\ UNCHANGED pc
     ELSE pc' = [pc EXCEPT ![t] = "put"] /\ UNCHANGED refused
  /\ UNCHANGED <<queue, closed, yielded, ended, accepted>>

(* Mutant: last in, first out.                                             *)
PushFront(t) ==
  /\ pc[t] = "put"
  /\ queue' = <<Event(t)>> \o queue
  /\ accepted' = accepted \cup {Event(t)}
  /\ pc' = [pc EXCEPT ![t] = "idle"]
  /\ UNCHANGED <<closed, calls, yielded, ended, refused>>

(* ... and the put.                                                        *)
PushPut(t) ==
  /\ pc[t] = "put"
  /\ queue' = Append(queue, Event(t))
  /\ accepted' = accepted \cup {Event(t)}
  /\ pc' = [pc EXCEPT ![t] = "idle"]
  /\ UNCHANGED <<closed, calls, yielded, ended, refused>>

(* close(): the check, the flag, the sentinel.                             *)
CloseCheck(t) ==
  /\ pc[t] = "idle"
  /\ pc' = IF closed THEN pc ELSE [pc EXCEPT ![t] = "set"]
  /\ UNCHANGED <<queue, closed, calls, yielded, ended, accepted, refused>>

CloseSet(t) ==
  /\ pc[t] = "set"
  /\ closed' = TRUE
  /\ pc' = [pc EXCEPT ![t] = "sentinel"]
  /\ UNCHANGED <<queue, calls, yielded, ended, accepted, refused>>

CloseSentinel(t) ==
  /\ pc[t] = "sentinel"
  /\ queue' = Append(queue, CLOSED)
  /\ pc' = [pc EXCEPT ![t] = "idle"]
  /\ UNCHANGED <<closed, calls, yielded, ended, accepted, refused>>

(* The consumer: next_event() or one turn of events().                     *)
Get ==
  /\ ~ended /\ queue # <<>>
  /\ queue' = Tail(queue)
  /\ IF Head(queue) = CLOSED THEN ended' = TRUE /\ UNCHANGED yielded
     ELSE yielded' = Append(yielded, Head(queue)) /\ UNCHANGED ended
  /\ UNCHANGED <<closed, pc, calls, accepted, refused>>

Step(t) == PushCheck(t) \/ PushPut(t) \/ CloseCheck(t) \/ CloseSet(t) \/ CloseSentinel(t)
Next == Get \/ \E t \in Thread : Step(t)

(* The consumer runs, and a thread inside push() or close() comes out of   *)
(* it; no thread is obliged to call either.                                *)
Fairness ==
  /\ WF_vars(Get)
  /\ \A t \in Thread : WF_vars(PushPut(t) \/ CloseSet(t) \/ CloseSentinel(t))
Spec == Init /\ [][Next]_vars /\ Fairness

-----------------------------------------------------------------------------
(* An event whose push returned is part of the stream the engine runs      *)
(* over: once the stream has ended it was yielded ("feed one event, safe   *)
(* to call from any thread", subscription.py:53).                          *)
AcceptedIsYielded ==
  ended => \A e \in accepted : \E i \in DOMAIN yielded : yielded[i] = e
=============================================================================
