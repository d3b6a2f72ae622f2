------------------------- MODULE TriggerQueueProofs -------------------------
(***************************************************************************)
(* TriggerQueue wakes the trigger thread, for any number of threads and    *)
(* triggers.  NoLostWakeup speaks of the waiting thread; what is inductive *)
(* is that the flag is never wrong without a sender on its way, and that   *)
(* no sender gets past the thread while it is about to set the flag.       *)
(***************************************************************************)
EXTENDS TriggerQueue, TLAPS

\* A set flag over a nonempty queue is going to be cleared.
FlagWillBeCleared == mIsQueueEmpty /\ mQueue # <<>> => pushed # {}

\* What was pushed since the queue was read as empty is not signalled yet.
UpdateIsObserved == at = "update" /\ mQueue # <<>> => pushed # {}

WakeupInv == FlagWillBeCleared /\ UpdateIsObserved

\* A sender that has pushed is between the two locks of sendTrigger.
LEMMA PushStep ==
  ASSUME NEW t \in Thread, PushTrigger(t)
  PROVE WakeupInv'
  BY DEF PushTrigger, WakeupInv, FlagWillBeCleared, UpdateIsObserved

\* Signalling clears the flag and is excluded while the flag is updated.
LEMMA SignalStep ==
  ASSUME NEW t \in Thread, SignalTrigger(t)
  PROVE WakeupInv'
  BY DEF SignalTrigger, WakeupInv, FlagWillBeCleared, UpdateIsObserved

\* receiveTrigger sets the flag only after it has read an empty queue.
LEMMA HandlerStepInv ==
  ASSUME WakeupInv, HandlerStep
  PROVE WakeupInv'
  <1>1. CASE Wake \/ Handled
    BY <1>1 DEF Wake, Handled, WakeupInv, FlagWillBeCleared, UpdateIsObserved
  <1>2. CASE PopTrigger
    BY <1>2 DEF PopTrigger, WakeupInv, FlagWillBeCleared, UpdateIsObserved
  <1>3. CASE CheckQueue
    BY <1>3 DEF CheckQueue, WakeupInv, FlagWillBeCleared, UpdateIsObserved
  <1>4. CASE UpdateFlag
    BY <1>4 DEF UpdateFlag, WakeupInv, FlagWillBeCleared, UpdateIsObserved
  <1>5. QED BY <1>1, <1>2, <1>3, <1>4 DEF HandlerStep

\* The trigger thread of CSystemStateMachine never sleeps over a trigger whose
\* sendTrigger call has returned, whatever the number of threads.
THEOREM NoWakeupIsLost == Spec => []NoLostWakeup
  <1>1. Init => WakeupInv
    BY DEF Init, WakeupInv, FlagWillBeCleared, UpdateIsObserved
  <1>2. WakeupInv /\ [Next]_vars => WakeupInv'
    <2> SUFFICES ASSUME WakeupInv, [Next]_vars PROVE WakeupInv'
      OBVIOUS
    <2>1. CASE \E t \in Thread : PushTrigger(t) \/ SignalTrigger(t)
      BY <2>1, PushStep, SignalStep
    <2>2. CASE HandlerStep
      BY <2>2, HandlerStepInv
    <2>3. CASE UNCHANGED vars
      BY <2>3 DEF vars, WakeupInv, FlagWillBeCleared, UpdateIsObserved
    <2>4. CASE Exit
      BY <2>4 DEF Exit, WakeupInv, FlagWillBeCleared, UpdateIsObserved
    <2>5. QED BY <2>1, <2>2, <2>3, <2>4 DEF Next
  <1>3. WakeupInv => NoLostWakeup
    BY DEF WakeupInv, FlagWillBeCleared, NoLostWakeup
  <1>4. QED BY <1>1, <1>2, <1>3, PTL DEF Spec

\* The queue only ever holds and returns triggers that some thread has sent,
\* and no thread sends more than its bound.
THEOREM TypeCorrect == Spec => []TypeOK
  <1>1. Init => TypeOK
    BY MaxSentAssumption DEF Init, TypeOK
  <1>2. TypeOK /\ [Next]_vars => TypeOK'
    <2> SUFFICES ASSUME TypeOK, [Next]_vars PROVE TypeOK'
      OBVIOUS
    <2>1. ASSUME NEW t \in Thread, PushTrigger(t) PROVE TypeOK'
      <3>1. sent[t] + 1 \in 1..MaxSent
        BY <2>1, MaxSentAssumption DEF PushTrigger, TypeOK
      <3>2. [from |-> t, n |-> sent[t] + 1] \in Trigger
        BY <3>1 DEF Trigger
      <3>3. mQueue' \in Seq(Trigger)
        BY <2>1, <3>2 DEF PushTrigger, Enqueued, TypeOK
      <3>4. sent' \in [Thread -> 0..MaxSent]
        BY <2>1, <3>1, MaxSentAssumption DEF PushTrigger, TypeOK
      <3>5. QED BY <2>1, <3>3, <3>4 DEF PushTrigger, TypeOK
    <2>2. ASSUME NEW t \in Thread, SignalTrigger(t) PROVE TypeOK'
      BY <2>2 DEF SignalTrigger, TypeOK
    <2>3. CASE PopTrigger
      <3>1. CASE mQueue = <<>>
        BY <2>3, <3>1 DEF PopTrigger, TypeOK
      <3>2. CASE mQueue # <<>>
        <4>1. Head(mQueue) \in Trigger /\ Tail(mQueue) \in Seq(Trigger)
          BY <3>2 DEF TypeOK
        <4>2. Append(received, Head(mQueue)) \in Seq(Trigger)
          BY <4>1 DEF TypeOK
        <4>3. (Tail(mQueue) = <<>>) \in BOOLEAN
          OBVIOUS
        <4>4. mQueue' \in Seq(Trigger) /\ received' \in Seq(Trigger)
          BY <2>3, <3>2, <4>1, <4>2 DEF PopTrigger
        <4>5. queueState' \in BOOLEAN
          BY <2>3, <3>2, <4>3, Zenon DEF PopTrigger
        <4>6. QED BY <2>3, <3>2, <4>4, <4>5 DEF PopTrigger, TypeOK
      <3>3. QED BY <3>1, <3>2
    <2>4. CASE Wake \/ CheckQueue \/ UpdateFlag \/ Handled \/ Exit
      BY <2>4 DEF Wake, CheckQueue, UpdateFlag, Handled, Exit, TypeOK
    <2>5. CASE UNCHANGED vars
      BY <2>5 DEF vars, TypeOK
    <2>6. QED BY <2>1, <2>2, <2>3, <2>4, <2>5 DEF Next, HandlerStep
  <1>3. QED BY <1>1, <1>2, PTL DEF Spec

=============================================================================
