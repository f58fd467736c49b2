---------------------------- MODULE BoundedQueue ----------------------------
(***************************************************************************)
(* The bounded queue of week 13 (src/week13/w13.c): one producer and one   *)
(* consumer share a circular array under a mutex and two condition         *)
(* variables.  A critical section has two steps, the copy of the datum and *)
(* the update of the indices, which only the mutex keeps together; a       *)
(* thread that sleeps in pthread_cond_wait wakes up when it is signalled,  *)
(* or for no reason.                                                       *)
(***************************************************************************)
EXTENDS Integers

CONSTANTS Capacity,        \* queue->capacity
          TotalIterations, \* queue->total_n_iterations
          Garbage          \* what malloc left in a slot

ASSUME QueueAssumption ==
  /\ Capacity \in Nat \ {0}
  /\ TotalIterations \in Nat \ {0}
  /\ Garbage \notin Nat

Threads == {"producer", "consumer"}
Slots == 0..Capacity - 1

VARIABLES
  put_index, get_index, length, data,
  lock,     \* the thread that holds queue->lock, "none" if it is free
  pc,       \* where each thread is
  produced, \* i of produce
  consumed, \* i of consume
  got,      \* what get_data returned last
  freed     \* has qdelete released the queue?

queue == <<put_index, get_index, length, data>>
vars == <<queue, lock, pc, produced, consumed, got, freed>>

TypeOK ==
  /\ put_index \in Slots
  /\ get_index \in Slots
  /\ length \in 0..Capacity
  /\ data \in [Slots -> Nat \cup {Garbage}]
  /\ lock \in Threads \cup {"none"}
  /\ pc \in [Threads -> {"loop", "lock", "test", "copied", "wait", "done"}]
  /\ produced \in 0..TotalIterations
  /\ consumed \in 0..TotalIterations
  /\ got \in Nat \cup {Garbage}
  /\ freed \in BOOLEAN

Init ==
  /\ put_index = 0 /\ get_index = 0 /\ length = 0
  /\ data = [s \in Slots |-> Garbage]
  /\ lock = "none"
  /\ pc = [t \in Threads |-> "loop"]
  /\ produced = 0 /\ consumed = 0
  /\ got = Garbage
  /\ freed = FALSE

-----------------------------------------------------------------------------

Iterations(t) == IF t = "producer" THEN produced ELSE consumed

(***************************************************************************)
(* The condition of the while loop around pthread_cond_wait.               *)
(***************************************************************************)
MustWait(t) == IF t = "producer" THEN length = Capacity ELSE length = 0

(***************************************************************************)
(* The for loop of produce and consume, and pthread_exit.                  *)
(***************************************************************************)
Loop(t) ==
  /\ pc[t] = "loop"
  /\ pc' = [pc EXCEPT ![t] =
             IF Iterations(t) < TotalIterations THEN "lock" ELSE "done"]
  /\ UNCHANGED <<queue, lock, produced, consumed, got, freed>>

(***************************************************************************)
(* pthread_mutex_lock, also at the end of pthread_cond_wait.               *)
(***************************************************************************)
AnyLock(mutex) == TRUE
Free(mutex) == mutex = "none"

Lock(t) ==
  /\ pc[t] = "lock"
  /\ Free(lock)
  /\ lock' = t
  /\ pc' = [pc EXCEPT ![t] = "test"]
  /\ UNCHANGED <<queue, produced, consumed, got, freed>>

(***************************************************************************)
(* pthread_cond_wait gives the mutex up and sleeps, in one step.           *)
(***************************************************************************)
Wait(t) ==
  /\ pc[t] = "test"
  /\ MustWait(t)
  /\ lock' = "none"
  /\ pc' = [pc EXCEPT ![t] = "wait"]
  /\ UNCHANGED <<queue, produced, consumed, got, freed>>

(***************************************************************************)
(* POSIX lets a thread return from pthread_cond_wait without a signal.     *)
(***************************************************************************)
WakeUp(t) ==
  /\ pc[t] = "wait"
  /\ pc' = [pc EXCEPT ![t] = "lock"]
  /\ UNCHANGED <<queue, lock, produced, consumed, got, freed>>

(***************************************************************************)
(* pthread_cond_signal for the condition thread t waits for.               *)
(***************************************************************************)
NoSignal(t, state) == state
Signal(t, state) == IF state[t] = "wait" THEN [state EXCEPT ![t] = "lock"] ELSE state

Advance(i) == (i + 1) % Capacity

(***************************************************************************)
(* put_data once it holds the mutex and the queue is not full: the datum,  *)
(* then the index, the length, the signal and the unlock.                  *)
(***************************************************************************)
Store ==
  /\ pc["producer"] = "test"
  /\ ~MustWait("producer")
  /\ data' = [data EXCEPT ![put_index] = produced]
  /\ pc' = [pc EXCEPT !["producer"] = "copied"]
  /\ UNCHANGED <<put_index, get_index, length, lock, produced, consumed, got,
                 freed>>

Publish ==
  /\ pc["producer"] = "copied"
  /\ put_index' = Advance(put_index)
  /\ length' = length + 1
  /\ pc' = Signal("consumer", [pc EXCEPT !["producer"] = "loop"])
  /\ lock' = "none"
  /\ produced' = produced + 1
  /\ UNCHANGED <<get_index, data, consumed, got, freed>>

(***************************************************************************)
(* An empty queue starts over at slot 0.                                   *)
(***************************************************************************)
RewindEarly(i) == IF length <= 2 THEN 0 ELSE i
Rewind(i) == IF length = 1 THEN 0 ELSE i

(***************************************************************************)
(* get_data once it holds the mutex and the queue is not empty.            *)
(***************************************************************************)
Fetch ==
  /\ pc["consumer"] = "test"
  /\ ~MustWait("consumer")
  /\ got' = data[get_index]
  /\ pc' = [pc EXCEPT !["consumer"] = "copied"]
  /\ UNCHANGED <<queue, lock, produced, consumed, freed>>

Retire ==
  /\ pc["consumer"] = "copied"
  /\ get_index' = Rewind(Advance(get_index))
  /\ put_index' = Rewind(put_index)
  /\ length' = length - 1
  /\ pc' = Signal("producer", [pc EXCEPT !["consumer"] = "loop"])
  /\ lock' = "none"
  /\ consumed' = consumed + 1
  /\ UNCHANGED <<data, produced, got, freed>>

(***************************************************************************)
(* main: both threads are joined, then the queue is freed.                 *)
(***************************************************************************)
Delete ==
  /\ \A t \in Threads : pc[t] = "done"
  /\ ~freed
  /\ freed' = TRUE
  /\ UNCHANGED <<queue, lock, pc, produced, consumed, got>>

Finished == freed /\ UNCHANGED vars

Next == \/ \E t \in Threads : Loop(t) \/ Lock(t) \/ Wait(t) \/ WakeUp(t)
        \/ Store \/ Publish \/ Fetch \/ Retire \/ Delete \/ Finished

Spec == Init /\ [][Next]_vars

(***************************************************************************)
(* Threads run; one that keeps asking for a mutex gets it in the end.  No  *)
(* fairness for WakeUp: a spurious wake-up need never happen.              *)
(***************************************************************************)
Fairness ==
  /\ \A t \in Threads : WF_vars(Loop(t)) /\ SF_vars(Lock(t)) /\ WF_vars(Wait(t))
  /\ WF_vars(Store \/ Publish) /\ WF_vars(Fetch \/ Retire) /\ WF_vars(Delete)

FairSpec == Spec /\ Fairness

-----------------------------------------------------------------------------
(* Correctness.                                                            *)

(***************************************************************************)
(* The k-th slot after get_index.                                          *)
(***************************************************************************)
Nth(k) == IF get_index + k < Capacity THEN get_index + k
          ELSE get_index + k - Capacity

(***************************************************************************)
(* What the consumer has read, the value it is about to return included.   *)
(***************************************************************************)
Taken == IF pc["consumer"] = "copied" THEN consumed + 1 ELSE consumed

(***************************************************************************)
(* The array holds what has been produced and not been consumed, in order, *)
(* and what get_data returns is the next value: nothing is lost, repeated, *)
(* overtaken or made up, although the indices wrap around and start over.  *)
(***************************************************************************)
FirstInFirstOut ==
  /\ produced = consumed + length
  /\ \A k \in 0..length - 1 : data[Nth(k)] = consumed + k
  /\ Taken > 0 => got = Taken - 1

(***************************************************************************)
(* No wake-up is lost: a thread sleeps only while there is nothing for it  *)
(* to do, so that the two never sleep at the same time.                    *)
(***************************************************************************)
SleepersHaveToWait == \A t \in Threads : pc[t] = "wait" => MustWait(t)

(***************************************************************************)
(* Both threads finish and the queue is freed, with nothing left in it.    *)
(***************************************************************************)
EverythingIsConsumed == <>(freed /\ length = 0 /\ consumed = TotalIterations)
=============================================================================
