------------------------- MODULE BoundedQueueProofs -------------------------
(***************************************************************************)
(* Theorems about the bounded queue, for every capacity and every number   *)
(* of iterations.                                                          *)
(***************************************************************************)
EXTENDS BoundedQueue, TLAPS

(***************************************************************************)
(* The thread between a lock and an unlock is the one that holds the mutex.*)
(***************************************************************************)
MutexInv == \A t \in Threads : pc[t] \in {"test", "copied"} <=> lock = t

(***************************************************************************)
(* A thread inside put_data or get_data has an iteration left, and once it *)
(* has copied its datum the queue has had room for it, or held it.         *)
(***************************************************************************)
ProgressInv ==
  /\ \A t \in Threads :
       pc[t] \notin {"loop", "done"} => Iterations(t) < TotalIterations
  /\ pc["producer"] = "copied" => length < Capacity /\ data[put_index] = produced
  /\ pc["consumer"] = "copied" => length > 0

(***************************************************************************)
(* put_index is the slot after the last value held.                        *)
(***************************************************************************)
IndicesAgree == put_index = Nth(length)

QueueInv == TypeOK /\ MutexInv /\ ProgressInv /\ IndicesAgree /\ FirstInFirstOut

(***************************************************************************)
(* Incrementing modulo the capacity, without the modulus.                  *)
(***************************************************************************)
LEMMA AdvanceWraps ==
  ASSUME NEW i \in Slots
  PROVE  Advance(i) = IF i + 1 = Capacity THEN 0 ELSE i + 1
<1>1. CASE i + 1 = Capacity
  BY <1>1, QueueAssumption, SMT DEF Advance, Slots
<1>2. CASE i + 1 < Capacity
  BY <1>2, QueueAssumption, SMT DEF Advance, Slots
<1> QED BY <1>1, <1>2, QueueAssumption, SMT DEF Slots

(***************************************************************************)
(* The invariant holds when the threads are created.                       *)
(***************************************************************************)
LEMMA QueueInit == Init => QueueInv
<1> SUFFICES ASSUME Init PROVE QueueInv
  OBVIOUS
<1>1. TypeOK
  <2>1. /\ put_index \in Slots /\ get_index \in Slots /\ length \in 0..Capacity
        /\ produced \in 0..TotalIterations /\ consumed \in 0..TotalIterations
    BY QueueAssumption DEF Init, Slots
  <2>2. /\ data \in [Slots -> Nat \cup {Garbage}]
        /\ pc \in [Threads -> {"loop", "lock", "test", "copied", "wait", "done"}]
    BY DEF Init
  <2> QED BY <2>1, <2>2 DEF Init, TypeOK
<1>2. MutexInv /\ ProgressInv
  BY QueueAssumption DEF Init, MutexInv, ProgressInv, Threads
<1>3. IndicesAgree /\ FirstInFirstOut
  BY QueueAssumption DEF Init, IndicesAgree, FirstInFirstOut, Nth, Taken, Threads
<1> QED BY <1>1, <1>2, <1>3 DEF QueueInv

(***************************************************************************)
(* Steps that move a thread without touching the queue.                    *)
(***************************************************************************)
LEMMA ControlStep ==
  ASSUME QueueInv, NEW t \in Threads,
         Loop(t) \/ Lock(t) \/ Wait(t) \/ WakeUp(t)
  PROVE  QueueInv'
<1> USE DEF QueueInv
<1>1. UNCHANGED <<queue, produced, consumed, got, freed>>
  BY DEF Loop, Lock, Wait, WakeUp
<1>2. /\ lock' \in Threads \cup {"none"}
      /\ pc' \in [Threads -> {"loop", "lock", "test", "copied", "wait", "done"}]
  BY DEF TypeOK, Loop, Lock, Wait, WakeUp
<1>3. TypeOK'
  BY <1>1, <1>2 DEF TypeOK, queue
<1>4. MutexInv'
  BY DEF TypeOK, MutexInv, Loop, Lock, Wait, WakeUp, Free, Threads
<1>5. pc["consumer"] = "copied" <=> pc'["consumer"] = "copied"
  BY DEF TypeOK, Loop, Lock, Wait, WakeUp, Threads
<1>6. pc["producer"] = "copied" <=> pc'["producer"] = "copied"
  BY DEF TypeOK, Loop, Lock, Wait, WakeUp, Threads
<1>7. ProgressInv'
  <2>1. ASSUME NEW s \in Threads, pc'[s] \notin {"loop", "done"}
        PROVE  Iterations(s)' < TotalIterations
    BY <1>1, <2>1 DEF TypeOK, ProgressInv, Iterations, Loop, Lock, Wait, WakeUp
  <2> QED BY <1>1, <1>5, <1>6, <2>1 DEF ProgressInv, queue
<1>8. IndicesAgree' /\ FirstInFirstOut'
  BY <1>1, <1>5 DEF IndicesAgree, FirstInFirstOut, Nth, Taken, queue
<1> QED BY <1>3, <1>4, <1>7, <1>8

(***************************************************************************)
(* put_data writes behind the values held, into none of their slots.       *)
(***************************************************************************)
LEMMA StoreStep == QueueInv /\ Store => QueueInv'
<1> SUFFICES ASSUME QueueInv, Store PROVE QueueInv'
  OBVIOUS
<1> USE DEF QueueInv
<1>1. length < Capacity /\ length \in Nat
  BY QueueAssumption DEF Store, MustWait, TypeOK
<1>2. TypeOK'
  BY DEF TypeOK, Store, Threads, Slots
<1>3. MutexInv'
  BY DEF TypeOK, MutexInv, Store, Threads
<1>4. ProgressInv'
  BY <1>1 DEF TypeOK, ProgressInv, Iterations, Store, Threads, Slots
<1>5. IndicesAgree'
  BY DEF IndicesAgree, Nth, Store
<1>6. ASSUME NEW k \in 0..length - 1
      PROVE  Nth(k) \in Slots /\ Nth(k) # put_index
  BY <1>1, QueueAssumption DEF IndicesAgree, Nth, TypeOK, Slots
<1>7. FirstInFirstOut'
  BY <1>6 DEF FirstInFirstOut, Nth, Taken, Store, TypeOK, Threads
<1> QED BY <1>2, <1>3, <1>4, <1>5, <1>7

(***************************************************************************)
(* The rest of put_data makes the new value the last one held.             *)
(***************************************************************************)
LEMMA PublishStep == QueueInv /\ Publish => QueueInv'
<1> SUFFICES ASSUME QueueInv, Publish PROVE QueueInv'
  OBVIOUS
<1> USE DEF QueueInv
<1>1. /\ length < Capacity /\ length \in Nat /\ get_index \in Slots
      /\ data[put_index] = produced /\ produced < TotalIterations
  BY DEF Publish, ProgressInv, Iterations, TypeOK, Threads
<1>2. put_index' = (IF put_index + 1 = Capacity THEN 0 ELSE put_index + 1)
  BY AdvanceWraps DEF Publish, TypeOK
<1>3. IndicesAgree'
  BY <1>1, <1>2, QueueAssumption DEF IndicesAgree, Nth, Publish, TypeOK, Slots
<1>4. pc' \in [Threads -> {"loop", "lock", "test", "copied", "wait", "done"}]
  BY DEF Publish, Signal, TypeOK
<1>5. TypeOK'
  <2>1. put_index' \in Slots
    BY <1>2, QueueAssumption DEF TypeOK, Slots
  <2>2. length' \in 0..Capacity /\ produced' \in 0..TotalIterations
    BY <1>1, QueueAssumption DEF Publish, TypeOK
  <2> QED BY <1>4, <2>1, <2>2 DEF Publish, TypeOK
<1>6. MutexInv'
  BY DEF TypeOK, MutexInv, Publish, Signal, Threads
<1>7. /\ pc'["producer"] = "loop"
      /\ pc'["consumer"] # "copied" /\ pc["consumer"] # "copied"
      /\ pc["consumer"] \in {"loop", "done"} => pc'["consumer"] \in {"loop", "done"}
  BY DEF TypeOK, MutexInv, Publish, Signal, Threads
<1>8. ProgressInv'
  BY <1>7 DEF ProgressInv, Iterations, Publish, Threads
<1>9. FirstInFirstOut'
  <2>1. produced' = consumed' + length'
    BY DEF FirstInFirstOut, Publish, TypeOK
  <2>2. ASSUME NEW k \in 0..length' - 1
        PROVE  data'[Nth(k)'] = consumed' + k
    BY <1>1 DEF FirstInFirstOut, IndicesAgree, Nth, Publish, TypeOK
  <2> QED BY <1>7, <2>1, <2>2 DEF FirstInFirstOut, Taken, Publish
<1> QED BY <1>3, <1>5, <1>6, <1>8, <1>9

(***************************************************************************)
(* get_data reads the oldest value.                                        *)
(***************************************************************************)
LEMMA FetchStep == QueueInv /\ Fetch => QueueInv'
<1> SUFFICES ASSUME QueueInv, Fetch PROVE QueueInv'
  OBVIOUS
<1> USE DEF QueueInv
<1>1. length > 0 /\ length \in Nat
  BY QueueAssumption DEF Fetch, MustWait, TypeOK
<1>2. got' = consumed
  <2>1. 0 \in 0..length - 1 /\ Nth(0) = get_index
    BY <1>1, QueueAssumption DEF Nth, TypeOK, Slots
  <2>2. data[Nth(0)] = consumed + 0
    BY <2>1 DEF FirstInFirstOut
  <2> QED BY <2>1, <2>2 DEF Fetch, TypeOK
<1>3. TypeOK'
  BY <1>2 DEF TypeOK, Fetch, queue, Threads
<1>4. MutexInv'
  BY DEF TypeOK, MutexInv, Fetch, Threads
<1>5. ProgressInv'
  BY <1>1 DEF TypeOK, ProgressInv, Iterations, Fetch, queue, Threads
<1>6. IndicesAgree'
  BY DEF IndicesAgree, Nth, Fetch, queue
<1>7. FirstInFirstOut'
  BY <1>2 DEF FirstInFirstOut, Nth, Taken, Fetch, queue, TypeOK, Threads
<1> QED BY <1>3, <1>4, <1>5, <1>6, <1>7

(***************************************************************************)
(* The rest of get_data makes the next value the oldest one, and starts    *)
(* over when there is none.                                                *)
(***************************************************************************)
LEMMA RetireStep == QueueInv /\ Retire => QueueInv'
<1> SUFFICES ASSUME QueueInv, Retire PROVE QueueInv'
  OBVIOUS
<1> USE DEF QueueInv
<1>1. /\ length > 0 /\ length \in Nat /\ get_index \in Slots /\ put_index \in Slots
      /\ consumed < TotalIterations /\ consumed \in Nat
  BY DEF Retire, ProgressInv, Iterations, TypeOK, Threads
<1>2. get_index' = (IF length = 1 \/ get_index + 1 = Capacity
                    THEN 0 ELSE get_index + 1)
  BY AdvanceWraps DEF Retire, Rewind, TypeOK
<1>3. /\ put_index' = (IF length = 1 THEN 0 ELSE put_index)
      /\ length' = length - 1
  BY DEF Retire, Rewind
<1>4. IndicesAgree'
  BY <1>1, <1>2, <1>3, QueueAssumption DEF IndicesAgree, Nth, TypeOK, Slots
<1>5. pc' \in [Threads -> {"loop", "lock", "test", "copied", "wait", "done"}]
  BY DEF Retire, Signal, TypeOK
<1>6. TypeOK'
  <2>1. put_index' \in Slots /\ get_index' \in Slots
    BY <1>1, <1>2, <1>3, QueueAssumption DEF Slots
  <2>2. length' \in 0..Capacity /\ consumed' \in 0..TotalIterations
    BY <1>1, <1>3, QueueAssumption DEF Retire, TypeOK
  <2> QED BY <1>5, <2>1, <2>2 DEF Retire, TypeOK
<1>7. MutexInv'
  BY DEF TypeOK, MutexInv, Retire, Signal, Threads
<1>8. /\ pc'["consumer"] = "loop" /\ pc["consumer"] = "copied"
      /\ pc'["producer"] # "copied"
      /\ pc["producer"] \in {"loop", "done"} => pc'["producer"] \in {"loop", "done"}
  BY DEF TypeOK, MutexInv, Retire, Signal, Threads
<1>9. ProgressInv'
  BY <1>8 DEF ProgressInv, Iterations, Retire, Threads
<1>10. FirstInFirstOut'
  <2>1. produced' = consumed' + length'
    BY <1>1 DEF FirstInFirstOut, Retire, TypeOK
  <2>2. ASSUME NEW k \in 0..length' - 1
        PROVE  data'[Nth(k)'] = consumed' + k
    <3>1. k + 1 \in 0..length - 1 /\ data[Nth(k + 1)] = consumed + (k + 1)
      BY <1>1, <1>3 DEF FirstInFirstOut
    <3>2. Nth(k)' = Nth(k + 1)
      BY <1>1, <1>2, <1>3, <3>1, QueueAssumption DEF Nth, Slots, TypeOK
    <3> QED BY <1>1, <3>1, <3>2 DEF Retire
  <2>3. Taken' > 0 => got' = Taken' - 1
    BY <1>1, <1>8 DEF FirstInFirstOut, Taken, Retire
  <2> QED BY <2>1, <2>2, <2>3 DEF FirstInFirstOut
<1> QED BY <1>4, <1>6, <1>7, <1>9, <1>10

(***************************************************************************)
(* QueueInv is inductive.                                                  *)
(***************************************************************************)
LEMMA QueueStep == QueueInv /\ [Next]_vars => QueueInv'
<1> SUFFICES ASSUME QueueInv, [Next]_vars PROVE QueueInv'
  OBVIOUS
<1>1. ASSUME NEW t \in Threads, Loop(t) \/ Lock(t) \/ Wait(t) \/ WakeUp(t)
      PROVE  QueueInv'
  BY <1>1, ControlStep
<1>2. CASE Store
  BY <1>2, StoreStep
<1>3. CASE Publish
  BY <1>3, PublishStep
<1>4. CASE Fetch
  BY <1>4, FetchStep
<1>5. CASE Retire
  BY <1>5, RetireStep
<1>6. CASE Delete
  BY <1>6 DEF QueueInv, Delete, queue, TypeOK, MutexInv, ProgressInv, Iterations,
              IndicesAgree, FirstInFirstOut, Nth, Taken
<1>7. CASE UNCHANGED vars
  BY <1>7 DEF vars, QueueInv, queue, TypeOK, MutexInv, ProgressInv, Iterations,
              IndicesAgree, FirstInFirstOut, Nth, Taken
<1> QED BY <1>1, <1>2, <1>3, <1>4, <1>5, <1>6, <1>7 DEF Next, Finished

LEMMA QueueHolds == Spec => []QueueInv
<1> QED BY QueueInit, QueueStep, PTL DEF Spec

(***************************************************************************)
(* The indices of the array and the length stay in range: no slot outside  *)
(* queue->data is ever read or written.                                    *)
(***************************************************************************)
THEOREM QueueTypeCorrect == Spec => []TypeOK
<1>1. QueueInv => TypeOK
  BY DEF QueueInv
<1> QED BY QueueHolds, <1>1, PTL

(***************************************************************************)
(* get_data returns what put_data stored, each value once and in order,    *)
(* for every capacity.                                                     *)
(***************************************************************************)
THEOREM DeliveredInOrder == Spec => []FirstInFirstOut
<1>1. QueueInv => FirstInFirstOut
  BY DEF QueueInv
<1> QED BY QueueHolds, <1>1, PTL

(***************************************************************************)
(* A thread sleeps only as long as it has to wait.                         *)
(***************************************************************************)
THEOREM NoLostWakeup == Spec => []SleepersHaveToWait
<1>1. Init => SleepersHaveToWait
  BY DEF Init, SleepersHaveToWait
<1>2. ASSUME QueueInv, SleepersHaveToWait, [Next]_vars
      PROVE  SleepersHaveToWait'
  <2> USE <1>2
  <2>1. ASSUME NEW t \in Threads, Loop(t) \/ Lock(t) \/ Wait(t) \/ WakeUp(t)
        PROVE  SleepersHaveToWait'
    BY <2>1 DEF SleepersHaveToWait, MustWait, Loop, Lock, Wait, WakeUp, queue,
                QueueInv, TypeOK
  <2>2. CASE Store \/ Fetch \/ Delete \/ UNCHANGED vars
    BY <2>2 DEF SleepersHaveToWait, MustWait, Store, Fetch, Delete, vars, queue,
                QueueInv, TypeOK
  <2>3. CASE Publish
    BY <2>3 DEF SleepersHaveToWait, Publish, Signal, Threads, QueueInv, TypeOK
  <2>4. CASE Retire
    BY <2>4 DEF SleepersHaveToWait, Retire, Signal, Threads, QueueInv, TypeOK
  <2> QED BY <2>1, <2>2, <2>3, <2>4 DEF Next, Finished
<1> QED BY QueueHolds, <1>1, <1>2, PTL DEF Spec
=============================================================================
