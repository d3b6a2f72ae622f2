---------------------------- MODULE TriggerQueue ----------------------------
(***************************************************************************)
(* TriggerQueue, through which threads hand triggers to the one thread of  *)
(* CSystemStateMachine.  mQueue is guarded by mQueueMutex and the flag     *)
(* mIsQueueEmpty, on which that thread waits, by mCondVar: both calls take *)
(* the two locks one after the other.  Init is the state after             *)
(* resetTriggerQueue, which is only called before the threads start.  The  *)
(* process may exit at any time: SystemStateMachine says when it does.     *)
(***************************************************************************)
EXTENDS Naturals, Sequences

CONSTANTS Sender,    \* threads that deliver IPC callbacks, and the main thread
          Handler,   \* the trigger thread, which sends triggers to itself too
          MaxSent    \* bound: triggers that one thread sends

ASSUME HandlerAssumption == Handler \notin Sender
ASSUME MaxSentAssumption == MaxSent \in Nat \ {0}

Thread == Sender \cup {Handler}

Trigger == [from : Thread, n : 1..MaxSent]

VARIABLES
  mQueue,
  mIsQueueEmpty,
  pushed,      \* threads of sendTrigger between the two locks
  at,          \* where the trigger thread is
  queueState,  \* its local variable: mQueue was empty after pop_front
  sent,        \* history: number of triggers of each thread
  received     \* history: what receiveTrigger took, in order

vars == <<mQueue, mIsQueueEmpty, pushed, at, queueState, sent, received>>

-----------------------------------------------------------------------------
\* The process is gone: the assertion of receiveTrigger failed, or it exited.
Stopped == at \in {"aborted", "exited"}

Init ==
  /\ mQueue = <<>>
  /\ mIsQueueEmpty = TRUE
  /\ pushed = {}
  /\ at = "wait"
  /\ queueState = TRUE
  /\ sent = [t \in Thread |-> 0]
  /\ received = <<>>

Enqueued(trigger) == Append(mQueue, trigger)

\* sendTrigger, under mQueueMutex.
PushTrigger(t) ==
  /\ t \notin pushed /\ sent[t] < MaxSent
  /\ t = Handler => at = "handle"
  /\ ~Stopped
  /\ mQueue' = Enqueued([from |-> t, n |-> sent[t] + 1])
  /\ sent' = [sent EXCEPT ![t] = @ + 1]
  /\ pushed' = pushed \cup {t}
  /\ UNCHANGED <<mIsQueueEmpty, at, queueState, received>>

\* sendTrigger, under mCondVar, which the trigger thread holds at "update".
SignalTrigger(t) ==
  /\ t \in pushed
  /\ at # "update" /\ ~Stopped
  /\ mIsQueueEmpty' = FALSE
  /\ pushed' = pushed \ {t}
  /\ UNCHANGED <<mQueue, at, queueState, sent, received>>

\* receiveTrigger leaves the wait loop.
Wake ==
  /\ at = "wait" /\ ~mIsQueueEmpty
  /\ at' = "pop"
  /\ UNCHANGED <<mQueue, mIsQueueEmpty, pushed, queueState, sent, received>>

\* receiveTrigger, under mQueueMutex: an empty queue fails the assertion.
PopTrigger ==
  /\ at = "pop"
  /\ \/ /\ mQueue # <<>>
        /\ received' = Append(received, Head(mQueue))
        /\ mQueue' = Tail(mQueue)
        /\ queueState' = (Tail(mQueue) = <<>>)
        /\ at' = "check"
     \/ /\ mQueue = <<>>
        /\ at' = "aborted"
        /\ UNCHANGED <<received, mQueue, queueState>>
  /\ UNCHANGED <<mIsQueueEmpty, pushed, sent>>

\* Mutant: the flag is set from the snapshot, without a look at the queue.
CheckQueue_Skipped ==
  /\ at = "check"
  /\ at' = "update"
  /\ UNCHANGED <<mQueue, mIsQueueEmpty, pushed, queueState, sent, received>>

\* receiveTrigger takes mCondVar and reads mQueue without its mutex.
CheckQueue ==
  /\ at = "check"
  /\ at' = IF mQueue = <<>> THEN "update" ELSE "handle"
  /\ UNCHANGED <<mQueue, mIsQueueEmpty, pushed, queueState, sent, received>>

UpdateFlag ==
  /\ at = "update"
  /\ mIsQueueEmpty' = queueState
  /\ at' = "handle"
  /\ UNCHANGED <<mQueue, pushed, queueState, sent, received>>

\* startTriggerHandler is done with the trigger and calls receiveTrigger again.
Handled ==
  /\ at = "handle" /\ Handler \notin pushed
  /\ at' = "wait"
  /\ UNCHANGED <<mQueue, mIsQueueEmpty, pushed, queueState, sent, received>>

\* The process exits, in another thread's hands.
Exit ==
  /\ ~Stopped
  /\ at' = "exited"
  /\ UNCHANGED <<mQueue, mIsQueueEmpty, pushed, queueState, sent, received>>

HandlerStep == Wake \/ PopTrigger \/ CheckQueue \/ UpdateFlag \/ Handled

Next == \/ \E t \in Thread : PushTrigger(t) \/ SignalTrigger(t)
        \/ HandlerStep
        \/ Exit

Spec == Init /\ [][Next]_vars

-----------------------------------------------------------------------------
\* Types of the queue, the flag and the threads' positions.
TypeOK ==
  /\ mQueue \in Seq(Trigger)
  /\ mIsQueueEmpty \in BOOLEAN
  /\ pushed \subseteq Thread
  /\ at \in {"wait", "pop", "check", "update", "handle",
             "aborted", "exited"}
  /\ queueState \in BOOLEAN
  /\ sent \in [Thread -> 0..MaxSent]
  /\ received \in Seq(Trigger)

\* When the trigger thread waits (receiveTrigger, the loop on mIsQueueEmpty)
\* although there are triggers, a thread that will wake it is on its way
\* through sendTrigger: the flag is never set over a trigger whose sender has
\* already signalled.
NoLostWakeup ==
  at = "wait" /\ mIsQueueEmpty /\ mQueue # <<>> => pushed # {}

\* What the assertion of receiveTrigger claims, "reading from empty queue for
\* some reason": the thread is not woken for an empty queue.
NeverReadsEmptyQueue == at # "aborted"

=============================================================================
