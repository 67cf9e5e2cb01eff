-------------------------- MODULE ThreadPoolProofs --------------------------
(***************************************************************************)
(* Proofs about the thread pool, for any finite set of threads, any tasks  *)
(* and any max_queue.  PoolType is the type invariant with two facts that  *)
(* keep it inductive: no thread finishes the exit task, and the event loop *)
(* starts no more exit rounds than there are threads.  The counting        *)
(* invariant PoolCount relates "waiting", the queue and the threads;       *)
(* WorkConserving is inductive on its own because a post either wakes a    *)
(* thread or finds nobody waiting.  PlaceInv follows every copy of a task, *)
(* and ExitInv the exit task: one of it at a time, behind every other task *)
(* of the queue, so the last thread that leaves leaves an empty queue.     *)
(***************************************************************************)
EXTENDS ThreadPool, Counting, SequenceTheorems

PoolType ==
    /\ TypeOK
    /\ \A t \in Threads : pc[t] = "finish" => task[t] # Exit
    /\ main = "spin" => exits < Cardinality(Threads)

PoolCount ==
    /\ WaitingCounts
    /\ waiting <= MaxQueue

LEMMA ThreadsFinite ==
    IsFiniteSet(Threads) /\ Cardinality(Threads) \in Nat
  BY PoolAssumption, FS_CardinalityType

-----------------------------------------------------------------------------
\* The initial state is well typed, and every step keeps it so.
LEMMA PoolTypeInit == Init => PoolType
<1> SUFFICES ASSUME Init PROVE PoolType
  OBVIOUS
<1>1. notified \in BOOLEAN /\ spin \in BOOLEAN /\ unheard \in BOOLEAN
  BY Zenon DEF Init
<1>2. QED
  BY <1>1, PoolAssumption, ThreadsFinite
     DEF Init, PoolType, TypeOK, NoTask, ThreadPoints, MainPoints

LEMMA PoolTypeStep == PoolType /\ [Next]_vars => PoolType'
<1> SUFFICES ASSUME PoolType, [Next]_vars PROVE PoolType'
  OBVIOUS
<1> USE PoolAssumption, ThreadsFinite
    DEF PoolType, TypeOK, Goto, ThreadPoints, MainPoints
<1>1. ASSUME NEW t \in Threads, Enter(t) PROVE PoolType'
  <2>1. CASE queue = <<>>
    BY <1>1, <2>1 DEF Enter, Take
  <2>2. CASE queue # <<>>
    <3>1. Head(queue) \in Tasks \cup {Exit} /\ Tail(queue) \in Seq(Tasks \cup {Exit})
      BY <2>2
    <3>2. /\ queue' \in Seq(Tasks \cup {Exit})
          /\ task' = [task EXCEPT ![t] = Head(queue)]
          /\ pc' = [pc EXCEPT ![t] = "run"]
      BY <1>1, <2>2, <3>1 DEF Enter, Take
    <3>3. /\ task' \in [Threads -> Tasks \cup {Exit}]
          /\ pc' \in [Threads -> ThreadPoints]
          /\ \A u \in Threads : pc'[u] = "finish" => task'[u] # Exit
      BY <3>1, <3>2
    <3>4. QED
      BY <1>1, <3>2, <3>3 DEF Enter
  <2>3. QED
    BY <2>1, <2>2
<1>2. ASSUME NEW t \in Threads, Wake(t) PROVE PoolType'
  <2>1. CASE queue = <<>>
    BY <1>2, <2>1 DEF Wake, Take
  <2>2. CASE queue # <<>>
    <3>1. Head(queue) \in Tasks \cup {Exit} /\ Tail(queue) \in Seq(Tasks \cup {Exit})
      BY <2>2
    <3>2. /\ queue' \in Seq(Tasks \cup {Exit})
          /\ task' = [task EXCEPT ![t] = Head(queue)]
          /\ pc' = [pc EXCEPT ![t] = "run"]
      BY <1>2, <2>2, <3>1 DEF Wake, Take
    <3>3. /\ task' \in [Threads -> Tasks \cup {Exit}]
          /\ pc' \in [Threads -> ThreadPoints]
          /\ \A u \in Threads : pc'[u] = "finish" => task'[u] # Exit
      BY <3>1, <3>2
    <3>4. QED
      BY <1>2, <3>2, <3>3 DEF Wake
  <2>3. QED
    BY <2>1, <2>2
<1>3. ASSUME NEW t \in Threads, Run(t) PROVE PoolType'
  BY <1>3 DEF Run
<1>4. ASSUME NEW t \in Threads, Finish(t) PROVE PoolType'
  BY <1>4 DEF Finish
<1>5. ASSUME NEW t \in Threads, Notify(t) PROVE PoolType'
  BY <1>5 DEF Notify
<1>6. ASSUME NEW t \in Threads, SpuriousWakeup(t) PROVE PoolType'
  BY <1>6 DEF SpuriousWakeup
<1>7. ASSUME NEW t \in Threads, WaitFails(t) PROVE PoolType'
  BY <1>7 DEF WaitFails
<1>8. ASSUME NEW t \in Threads, NotifyFails(t) PROVE PoolType'
  BY <1>8 DEF NotifyFails
<1>9. ASSUME NEW k \in Tasks, Post(k) PROVE PoolType'
  <2>1. pc' \in [Threads -> ThreadPoints]
        /\ \A t \in Threads : pc'[t] = "finish" => pc[t] = "finish"
    BY <1>9 DEF Post, Enqueue, Signal, At
  <2>2. queue' \in Seq(Tasks \cup {Exit}) /\ waiting' \in Int
    BY <1>9 DEF Post, Enqueue
  <2>3. QED
    BY <1>9, <2>1, <2>2 DEF Post
<1>10. ASSUME NEW k \in Tasks, PostFails(k) PROVE PoolType'
  BY <1>10 DEF PostFails, Full
<1>11. CASE Handler
  <2>1. notified' \in BOOLEAN
    BY <1>11, Zenon DEF Handler
  <2>2. QED
    BY <1>11, <2>1 DEF Handler
<1>12. CASE Complete
  <2>1. Head(batch) \in Tasks /\ Tail(batch) \in Seq(Tasks)
    BY <1>12 DEF Complete
  <2>2. QED
    BY <1>12, <2>1 DEF Complete
<1>13. CASE Return
  BY <1>13 DEF Return
<1>14. CASE Destroy
  BY <1>14 DEF Destroy
<1>15. CASE PostExit
  <2>1. pc' \in [Threads -> ThreadPoints]
        /\ \A t \in Threads : pc'[t] = "finish" => pc[t] = "finish"
    BY <1>15 DEF PostExit, Enqueue, Signal, At
  <2>2. queue' \in Seq(Tasks \cup {Exit}) /\ waiting' \in Int
    <3>1. \/ queue' = Append(queue, Exit) /\ waiting' = waiting + 1
          \/ queue' = queue /\ waiting' = waiting
      BY <1>15 DEF PostExit, Enqueue
    <3>2. Append(queue, Exit) \in Seq(Tasks \cup {Exit})
      OBVIOUS
    <3>3. CASE queue' = queue /\ waiting' = waiting
      BY <3>3
    <3>4. CASE queue' = Append(queue, Exit) /\ waiting' = waiting + 1
      BY <3>2, <3>4
    <3>5. QED
      BY <3>1, <3>3, <3>4
  <2>3. spin' \in BOOLEAN
    BY <1>15, Zenon DEF PostExit
  <2>4. /\ main' \in MainPoints /\ faults' \in 0..MaxFaults
        /\ exits < Cardinality(Threads) /\ exits' = exits
    BY <1>15 DEF PostExit
  <2>5. QED
    BY <1>15, <2>1, <2>2, <2>3, <2>4 DEF PostExit
<1>16. CASE Spin
  BY <1>16 DEF Spin
<1>17. CASE Destroyed
  BY <1>17 DEF Destroyed
<1>18. CASE UNCHANGED vars
  BY <1>18 DEF vars
<1>19. QED
  BY <1>1, <1>2, <1>3, <1>4, <1>5, <1>6, <1>7, <1>8,
     <1>9, <1>10, <1>11, <1>12, <1>13, <1>14, <1>15, <1>16, <1>17, <1>18
     DEF Next, Thread, Cycle, Drain, Stop

\* Every variable keeps its type; in particular the exit task of
\* ngx_thread_pool_destroy(), which is on a stack, never gets into the done
\* queue.
THEOREM PoolTypeCorrect == Spec => []TypeOK
<1>1. PoolType => TypeOK
  BY DEF PoolType
<1>2. QED
  BY <1>1, PoolTypeInit, PoolTypeStep, PTL DEF Spec

-----------------------------------------------------------------------------
\* How a step of one thread changes the counts.
LEMMA MoveThread ==
    ASSUME PoolType, NEW t \in Threads, NEW point, Goto(t, point), NEW S
    PROVE  /\ IsFiniteSet(At(S)) /\ Cardinality(At(S)) \in Nat
           /\ Cardinality(At(S)') = Cardinality(At(S))
                                     + (IF pc[t] \in S THEN 0 ELSE 1)
                                     - (IF point \in S THEN 0 ELSE 1)
<1>1. /\ At(S)' \ {t} = At(S) \ {t}
      /\ t \in At(S) <=> pc[t] \in S
      /\ t \in At(S)' <=> point \in S
      /\ IsFiniteSet(At(S))
  BY ThreadsFinite, FS_Subset DEF PoolType, TypeOK, Goto, At
<1>2. QED
  BY <1>1, CountMove

\* The lengths of the queue after a step.
LEMMA QueueLengths ==
    ASSUME PoolType
    PROVE  /\ Len(queue) \in Nat
           /\ \A k \in Tasks \cup {Exit} : Len(Append(queue, k)) = Len(queue) + 1
           /\ queue # <<>> => Len(Tail(queue)) = Len(queue) - 1
           /\ queue = <<>> <=> Len(queue) = 0
  BY DEF PoolType, TypeOK

\* Every count of threads is a number.
LEMMA CountsAreNat ==
    ASSUME NEW S PROVE IsFiniteSet(At(S)) /\ Cardinality(At(S)) \in Nat
<1>1. IsFiniteSet(At(S))
  BY ThreadsFinite, FS_Subset DEF At
<1>2. QED
  BY <1>1, FS_CardinalityType

\* What an accepted post does to the queue and to the threads.
LEMMA EnqueueEffect ==
    ASSUME PoolType, NEW k \in Tasks \cup {Exit}, Enqueue(k)
    PROVE  /\ Len(queue') = Len(queue) + 1
           /\ waiting' = waiting + 1 /\ waiting < MaxQueue
           /\ Cardinality(Waiters') = Cardinality(Waiters)
           /\ \/ At({"wait"})' = {}
              \/ Cardinality(At({"woken"})') = Cardinality(At({"woken"})) + 1
<1>1. Len(queue') = Len(queue) + 1 /\ waiting' = waiting + 1 /\ waiting < MaxQueue
  BY QueueLengths, PoolAssumption DEF Enqueue, Full, PoolType, TypeOK
<1>2. CASE At({"wait"}) = {} /\ UNCHANGED pc
  BY <1>1, <1>2 DEF At, Waiters
<1>3. CASE \E t \in At({"wait"}) : Goto(t, "woken")
  <2>1. PICK t \in At({"wait"}) : Goto(t, "woken")
    BY <1>3
  <2>2. t \in Threads /\ pc[t] = "wait"
    BY DEF At
  <2>3. /\ Cardinality(At({"wait", "woken", "failed"})') = Cardinality(Waiters)
        /\ Cardinality(At({"woken"})') = Cardinality(At({"woken"})) + 1
    BY <2>1, <2>2, MoveThread, CountsAreNat DEF Waiters
  <2>4. QED
    BY <1>1, <2>3 DEF Waiters
<1>4. QED
  BY <1>2, <1>3 DEF Enqueue, Signal

\* What taking a task, or going to wait, does to them.
LEMMA TakeEffect ==
    ASSUME PoolType, NEW t \in Threads, Take(t)
    PROVE  /\ Len(queue) \in Nat /\ Len(queue') \in Nat
           /\ Cardinality(Waiters) \in Nat
           /\ Len(queue') - Cardinality(Waiters')
                = Len(queue) - Cardinality(Waiters)
                    - (IF pc[t] \in {"wait", "woken", "failed"} THEN 0 ELSE 1)
<1>1. Len(queue) \in Nat /\ Cardinality(Waiters) \in Nat
  BY QueueLengths, CountsAreNat DEF Waiters
<1>2. CASE queue = <<>> /\ Goto(t, "wait") /\ UNCHANGED queue
  <2>1. Cardinality(At({"wait", "woken", "failed"})')
          = Cardinality(Waiters)
              + (IF pc[t] \in {"wait", "woken", "failed"} THEN 0 ELSE 1)
    BY <1>1, <1>2, MoveThread, CountsAreNat DEF Waiters
  <2>2. QED
    BY <1>1, <1>2, <2>1 DEF Waiters
<1>3. CASE queue # <<>> /\ queue' = Tail(queue) /\ Goto(t, "run")
  <2>1. Cardinality(At({"wait", "woken", "failed"})')
          = Cardinality(Waiters)
              - (IF pc[t] \in {"wait", "woken", "failed"} THEN 1 ELSE 0)
    BY <1>1, <1>3, MoveThread, CountsAreNat DEF Waiters
  <2>2. Len(queue') = Len(queue) - 1 /\ Len(queue) # 0
    BY <1>3, QueueLengths
  <2>3. QED
    BY <1>1, <2>1, <2>2 DEF Waiters
<1>4. QED
  BY <1>2, <1>3 DEF Take

LEMMA PoolCountInit == Init => PoolCount
<1> SUFFICES ASSUME Init PROVE PoolCount
  OBVIOUS
<1>1. Waiters = {} /\ Len(queue) = 0
  BY DEF Init, Waiters, At
<1>2. QED
  BY <1>1, FS_EmptySet, PoolAssumption DEF Init, PoolCount, WaitingCounts

LEMMA PoolCountStep == PoolType /\ PoolCount /\ [Next]_vars => PoolCount'
<1> SUFFICES ASSUME PoolType, PoolCount, [Next]_vars PROVE PoolCount'
  OBVIOUS
<1>a. /\ Len(queue) \in Nat /\ Cardinality(Waiters) \in Nat
      /\ waiting \in Int /\ MaxQueue \in Nat
  BY QueueLengths, CountsAreNat, PoolAssumption DEF Waiters, PoolType, TypeOK
<1> USE <1>a DEF PoolCount, WaitingCounts
<1>1. ASSUME NEW t \in Threads, Enter(t) PROVE PoolCount'
  BY <1>1, TakeEffect DEF Enter
<1>2. ASSUME NEW t \in Threads, Wake(t) PROVE PoolCount'
  BY <1>2, TakeEffect DEF Wake
<1>3. ASSUME NEW t \in Threads, Run(t) PROVE PoolCount'
  <2>1. \E point : Goto(t, point) /\ (point \in {"wait", "woken", "failed"} <=> pc[t] \in {"wait", "woken", "failed"})
    BY <1>3 DEF Run
  <2>2. Cardinality(Waiters') = Cardinality(Waiters)
    BY <2>1, MoveThread, CountsAreNat DEF Waiters
  <2>3. QED
    BY <1>3, <2>2 DEF Run
<1>4. ASSUME NEW t \in Threads, Finish(t) PROVE PoolCount'
  <2>1. \E point : Goto(t, point) /\ (point \in {"wait", "woken", "failed"} <=> pc[t] \in {"wait", "woken", "failed"})
    BY <1>4 DEF Finish
  <2>2. Cardinality(Waiters') = Cardinality(Waiters)
    BY <2>1, MoveThread, CountsAreNat DEF Waiters
  <2>3. QED
    BY <1>4, <2>2 DEF Finish
<1>5. ASSUME NEW t \in Threads, Notify(t) PROVE PoolCount'
  <2>1. \E point : Goto(t, point) /\ (point \in {"wait", "woken", "failed"} <=> pc[t] \in {"wait", "woken", "failed"})
    BY <1>5 DEF Notify
  <2>2. Cardinality(Waiters') = Cardinality(Waiters)
    BY <2>1, MoveThread, CountsAreNat DEF Waiters
  <2>3. QED
    BY <1>5, <2>2 DEF Notify
<1>6. ASSUME NEW t \in Threads, SpuriousWakeup(t) PROVE PoolCount'
  <2>1. \E point : Goto(t, point) /\ (point \in {"wait", "woken", "failed"} <=> pc[t] \in {"wait", "woken", "failed"})
    BY <1>6 DEF SpuriousWakeup
  <2>2. Cardinality(Waiters') = Cardinality(Waiters)
    BY <2>1, MoveThread, CountsAreNat DEF Waiters
  <2>3. QED
    BY <1>6, <2>2 DEF SpuriousWakeup
<1>7. ASSUME NEW t \in Threads, WaitFails(t) PROVE PoolCount'
  <2>1. \E point : Goto(t, point) /\ (point \in {"wait", "woken", "failed"} <=> pc[t] \in {"wait", "woken", "failed"})
    BY <1>7 DEF WaitFails
  <2>2. Cardinality(Waiters') = Cardinality(Waiters)
    BY <2>1, MoveThread, CountsAreNat DEF Waiters
  <2>3. QED
    BY <1>7, <2>2 DEF WaitFails
<1>8. ASSUME NEW t \in Threads, NotifyFails(t) PROVE PoolCount'
  <2>1. \E point : Goto(t, point) /\ (point \in {"wait", "woken", "failed"} <=> pc[t] \in {"wait", "woken", "failed"})
    BY <1>8 DEF NotifyFails
  <2>2. Cardinality(Waiters') = Cardinality(Waiters)
    BY <2>1, MoveThread, CountsAreNat DEF Waiters
  <2>3. QED
    BY <1>8, <2>2 DEF NotifyFails
<1>9. ASSUME NEW k \in Tasks, Post(k) PROVE PoolCount'
  BY <1>9, EnqueueEffect DEF Post
<1>10. ASSUME NEW k \in Tasks, PostFails(k) PROVE PoolCount'
  BY <1>10 DEF PostFails, Waiters, At
<1>11. CASE Handler
  BY <1>11 DEF Handler, Waiters, At
<1>12. CASE Complete
  BY <1>12 DEF Complete, Waiters, At
<1>13. CASE Return
  BY <1>13 DEF Return, Waiters, At
<1>14. CASE Destroy
  BY <1>14 DEF Destroy, Waiters, At
<1>15. CASE PostExit
  <2>1. CASE Enqueue(Exit)
    BY <2>1, EnqueueEffect
  <2>2. CASE UNCHANGED <<queue, waiting, pc>>
    BY <2>2 DEF Waiters, At
  <2>3. QED
    BY <1>15, <2>1, <2>2 DEF PostExit
<1>16. CASE Spin
  BY <1>16 DEF Spin, Waiters, At
<1>17. CASE Destroyed
  BY <1>17 DEF Destroyed, Waiters, At
<1>18. CASE UNCHANGED vars
  BY <1>18 DEF vars, Waiters, At
<1>19. QED
  BY <1>1, <1>2, <1>3, <1>4, <1>5, <1>6, <1>7, <1>8,
     <1>9, <1>10, <1>11, <1>12, <1>13, <1>14, <1>15, <1>16, <1>17, <1>18
     DEF Next, Thread, Cycle, Drain, Stop

\* "waiting" is the length of the queue less the threads that have come for a
\* task and not got one (ngx_thread_task_post, ngx_thread_pool_cycle).
THEOREM PoolWaitingCounts == Spec => []WaitingCounts
<1>1. PoolCount => WaitingCounts
  BY DEF PoolCount
<1>2. QED
  BY <1>1, PoolTypeInit, PoolTypeStep, PoolCountInit, PoolCountStep, PTL DEF Spec

\* The queue never exceeds max_queue and one task for each waiting thread.
THEOREM PoolQueueBound == Spec => []QueueBound
<1>1. PoolType /\ PoolCount => QueueBound
  BY QueueLengths, CountsAreNat, PoolAssumption
     DEF PoolType, TypeOK, PoolCount, WaitingCounts, QueueBound, Waiters
<1>2. QED
  BY <1>1, PoolTypeInit, PoolTypeStep, PoolCountInit, PoolCountStep, PTL DEF Spec

LEMMA ConservingInit == Init => WorkConserving
  BY DEF Init, WorkConserving, At

LEMMA ConservingStep ==
    PoolType /\ WorkConserving /\ [Next]_vars => WorkConserving'
<1> SUFFICES ASSUME PoolType, WorkConserving, [Next]_vars PROVE WorkConserving'
  OBVIOUS
<1> DEFINE Woken == Cardinality(At({"woken"}))
<1>a. Len(queue) \in Nat /\ Woken \in Nat
  BY QueueLengths, CountsAreNat
<1>b. UNCHANGED pc => UNCHANGED <<At({"wait"}), Woken>>
  BY DEF At
<1>c. WorkConserving <=> (At({"wait"}) # {} => Len(queue) <= Woken)
  BY DEF WorkConserving
<1>d. WorkConserving' <=> (At({"wait"})' # {} => Len(queue') <= Woken')
  BY DEF WorkConserving
<1>e. Woken' \in Nat
  <2>1. IsFiniteSet(At({"woken"})')
    BY ThreadsFinite, FS_Subset DEF At
  <2>2. QED
    BY <2>1, FS_CardinalityType
<1> USE <1>a, <1>c, <1>d
<1> HIDE DEF Woken
<1>1. ASSUME NEW t \in Threads, Enter(t) PROVE WorkConserving'
  <2>1. CASE queue = <<>>
    <3>1. Len(queue') = 0
      BY <1>1, <2>1 DEF Enter, Take
    <3>2. QED
      BY <3>1, <1>e
  <2>2. CASE queue # <<>>
    <3>1. Len(queue') = Len(queue) - 1 /\ Goto(t, "run")
      BY <1>1, <2>2, QueueLengths DEF Enter, Take
    <3>2. Woken' = Woken
      BY <1>1, <3>1, MoveThread DEF Woken, Enter
    <3>3. At({"wait"})' = At({"wait"})
      BY <1>1, <3>1 DEF Enter, At, Goto, PoolType, TypeOK
    <3>4. QED
      BY <3>1, <3>2, <3>3
  <2>3. QED
    BY <2>1, <2>2
<1>2. ASSUME NEW t \in Threads, Wake(t) PROVE WorkConserving'
  <2>1. CASE queue = <<>>
    <3>1. Len(queue') = 0
      BY <1>2, <2>1 DEF Wake, Take
    <3>2. QED
      BY <3>1, <1>e
  <2>2. CASE queue # <<>>
    <3>1. Len(queue') = Len(queue) - 1 /\ Goto(t, "run")
      BY <1>2, <2>2, QueueLengths DEF Wake, Take
    <3>2. Woken' = Woken - 1
      BY <1>2, <3>1, MoveThread DEF Woken, Wake
    <3>3. At({"wait"})' = At({"wait"})
      BY <1>2, <3>1 DEF Wake, At, Goto, PoolType, TypeOK
    <3>4. QED
      BY <3>1, <3>2, <3>3
  <2>3. QED
    BY <2>1, <2>2
<1>3. ASSUME NEW t \in Threads, Run(t) PROVE WorkConserving'
  <2>1. /\ At({"woken"})' = At({"woken"}) /\ queue' = queue
        /\ At({"wait"})' \subseteq At({"wait"})
    BY <1>3 DEF Run, At, Goto, PoolType, TypeOK
  <2>2. QED
    BY <2>1 DEF Woken
<1>4. ASSUME NEW t \in Threads, Finish(t) PROVE WorkConserving'
  <2>1. /\ At({"woken"})' = At({"woken"}) /\ queue' = queue
        /\ At({"wait"})' \subseteq At({"wait"})
    BY <1>4 DEF Finish, At, Goto, PoolType, TypeOK
  <2>2. QED
    BY <2>1 DEF Woken
<1>5. ASSUME NEW t \in Threads, Notify(t) PROVE WorkConserving'
  <2>1. /\ At({"woken"})' = At({"woken"}) /\ queue' = queue
        /\ At({"wait"})' \subseteq At({"wait"})
    BY <1>5 DEF Notify, At, Goto, PoolType, TypeOK
  <2>2. QED
    BY <2>1 DEF Woken
<1>6. ASSUME NEW t \in Threads, SpuriousWakeup(t) PROVE WorkConserving'
  <2>1. Woken' = Woken + 1 /\ queue' = queue /\ At({"wait"}) # {}
    <3>1. Woken' = Woken + 1
      BY <1>6, MoveThread DEF Woken, SpuriousWakeup
    <3>2. QED
      BY <1>6, <3>1 DEF SpuriousWakeup, At
  <2>2. QED
    BY <2>1
<1>7. ASSUME NEW t \in Threads, WaitFails(t) PROVE WorkConserving'
  <2>1. /\ At({"woken"})' = At({"woken"}) /\ queue' = queue
        /\ At({"wait"})' \subseteq At({"wait"})
    BY <1>7 DEF WaitFails, At, Goto, PoolType, TypeOK
  <2>2. QED
    BY <2>1 DEF Woken
<1>8. ASSUME NEW t \in Threads, NotifyFails(t) PROVE WorkConserving'
  <2>1. /\ At({"woken"})' = At({"woken"}) /\ queue' = queue
        /\ At({"wait"})' \subseteq At({"wait"})
    BY <1>8 DEF NotifyFails, At, Goto, PoolType, TypeOK
  <2>2. QED
    BY <2>1 DEF Woken
<1>9. ASSUME NEW k \in Tasks, Post(k) PROVE WorkConserving'
  <2>1. Len(queue') = Len(queue) + 1
        /\ (At({"wait"})' = {} \/ Woken' = Woken + 1)
    BY <1>9, EnqueueEffect DEF Woken, Post
  <2>2. Woken' = Woken + 1 => At({"wait"}) # {}
    BY <1>9, <1>b DEF Post, Enqueue, Signal, At
  <2>3. QED
    BY <2>1, <2>2
<1>10. ASSUME NEW k \in Tasks, PostFails(k) PROVE WorkConserving'
  BY <1>10, <1>b DEF PostFails
<1>11. CASE Handler
  BY <1>11, <1>b DEF Handler
<1>12. CASE Complete
  BY <1>12, <1>b DEF Complete
<1>13. CASE Return
  BY <1>13, <1>b DEF Return
<1>14. CASE Destroy
  BY <1>14, <1>b DEF Destroy
<1>15. CASE PostExit
  <2>1. CASE Enqueue(Exit)
    <3>1. Len(queue') = Len(queue) + 1
          /\ (At({"wait"})' = {} \/ Woken' = Woken + 1)
      BY <2>1, EnqueueEffect DEF Woken
    <3>2. Woken' = Woken + 1 => At({"wait"}) # {}
      BY <2>1, <1>b DEF Enqueue, Signal, At
    <3>3. QED
      BY <3>1, <3>2
  <2>2. CASE UNCHANGED <<queue, waiting, pc>>
    BY <2>2, <1>b
  <2>3. QED
    BY <1>15, <2>1, <2>2 DEF PostExit
<1>16. CASE Spin
  BY <1>16, <1>b DEF Spin
<1>17. CASE Destroyed
  BY <1>17, <1>b DEF Destroyed
<1>18. CASE UNCHANGED vars
  BY <1>18, <1>b DEF vars
<1>19. QED
  BY <1>1, <1>2, <1>3, <1>4, <1>5, <1>6, <1>7, <1>8,
     <1>9, <1>10, <1>11, <1>12, <1>13, <1>14, <1>15, <1>16, <1>17, <1>18
     DEF Next, Thread, Cycle, Drain, Stop

\* No thread sleeps while more tasks are queued than threads were woken, for
\* any number of threads: cond_signal() before the append is enough.
THEOREM PoolWorkConserving == Spec => []WorkConserving
  BY PoolTypeInit, PoolTypeStep, ConservingInit, ConservingStep, PTL DEF Spec

-----------------------------------------------------------------------------
LEMMA NotifiedInit == Init => DoneNotified
  BY DEF Init, DoneNotified

LEMMA NotifiedStep ==
    PoolType /\ DoneNotified /\ [Next]_vars => DoneNotified'
<1> SUFFICES ASSUME PoolType, DoneNotified, [Next]_vars PROVE DoneNotified'
  OBVIOUS
<1> USE DEF PoolType, TypeOK, DoneNotified, At, Goto
<1>1. ASSUME NEW t \in Threads, Enter(t) PROVE DoneNotified'
  BY <1>1 DEF Enter, Take
<1>2. ASSUME NEW t \in Threads, Wake(t) PROVE DoneNotified'
  BY <1>2 DEF Wake, Take
<1>3. ASSUME NEW t \in Threads, Run(t) PROVE DoneNotified'
  BY <1>3 DEF Run
<1>4. ASSUME NEW t \in Threads, Finish(t) PROVE DoneNotified'
  BY <1>4 DEF Finish
<1>5. ASSUME NEW t \in Threads, Notify(t) PROVE DoneNotified'
  BY <1>5 DEF Notify
<1>6. ASSUME NEW t \in Threads, SpuriousWakeup(t) PROVE DoneNotified'
  BY <1>6 DEF SpuriousWakeup
<1>7. ASSUME NEW t \in Threads, WaitFails(t) PROVE DoneNotified'
  BY <1>7 DEF WaitFails
<1>8. ASSUME NEW t \in Threads, NotifyFails(t) PROVE DoneNotified'
  BY <1>8 DEF NotifyFails
<1>9. ASSUME NEW k \in Tasks, Post(k) PROVE DoneNotified'
  BY <1>9 DEF Post, Enqueue, Signal
<1>10. ASSUME NEW k \in Tasks, PostFails(k) PROVE DoneNotified'
  BY <1>10 DEF PostFails
<1>11. CASE Handler
  BY <1>11 DEF Handler
<1>12. CASE Complete
  BY <1>12 DEF Complete
<1>13. CASE Return
  BY <1>13 DEF Return
<1>14. CASE Destroy
  BY <1>14 DEF Destroy
<1>15. CASE PostExit
  BY <1>15 DEF PostExit, Enqueue, Signal
<1>16. CASE Spin
  BY <1>16 DEF Spin
<1>17. CASE Destroyed
  BY <1>17 DEF Destroyed
<1>18. CASE UNCHANGED vars
  BY <1>18 DEF vars
<1>19. QED
  BY <1>1, <1>2, <1>3, <1>4, <1>5, <1>6, <1>7, <1>8,
     <1>9, <1>10, <1>11, <1>12, <1>13, <1>14, <1>15, <1>16, <1>17, <1>18
     DEF Next, Thread, Cycle, Drain, Stop

\* A finished task in the done queue always has a notification to come, or a
\* thread about to send one, unless a write to the eventfd failed.
THEOREM PoolDoneNotified == Spec => []DoneNotified
  BY PoolTypeInit, PoolTypeStep, NotifiedInit, NotifiedStep, PTL DEF Spec

-----------------------------------------------------------------------------
(* Where the tasks are. *)

\* How often k occurs in a sequence that grows at its end and shrinks at its head.
LEMMA CopiesOf ==
    ASSUME NEW S, NEW s \in Seq(S), NEW k
    PROVE  /\ Copies(k, s) \in Nat
           /\ \A x \in S : Copies(k, Append(s, x)) = Copies(k, s) + (IF x = k THEN 1 ELSE 0)
           /\ s # <<>> => Copies(k, Tail(s)) = Copies(k, s) - (IF Head(s) = k THEN 1 ELSE 0)
           /\ Copies(k, s) = 0 <=> \A i \in DOMAIN s : s[i] # k
<1> DEFINE B == {i \in DOMAIN s : s[i] = k}
<1>1. Len(s) \in Nat /\ DOMAIN s = 1..Len(s)
  BY LenProperties
<1>2. IsFiniteSet(B) /\ Cardinality(B) \in Nat
  <2>1. IsFiniteSet(1..Len(s)) /\ B \in SUBSET (1..Len(s))
    BY <1>1, FS_Interval
  <2> HIDE DEF B
  <2>2. QED
    BY <2>1, FS_Subset, FS_CardinalityType
<1>3. Copies(k, s) = Cardinality(B)
  BY DEF Copies
<1>4. Cardinality(B) = 0 <=> \A i \in DOMAIN s : s[i] # k
  <2>1. Cardinality(B) = 0 <=> B = {}
    <3> HIDE DEF B
    <3>1. QED
      BY <1>2, FS_EmptySet
  <2>2. QED
    BY <2>1
<1>5. ASSUME NEW x \in S
      PROVE  Copies(k, Append(s, x)) = Copies(k, s) + (IF x = k THEN 1 ELSE 0)
  <2> DEFINE n == Len(s) + 1
             A == {i \in DOMAIN Append(s, x) : Append(s, x)[i] = k}
  <2>1. /\ DOMAIN Append(s, x) = 1..n /\ Append(s, x)[n] = x
        /\ \A i \in 1..Len(s) : Append(s, x)[i] = s[i]
    BY <1>1, AppendProperties, LenProperties
  <2>2. A \ {n} = B \ {n} /\ n \notin B /\ (n \in A <=> x = k)
    BY <1>1, <2>1
  <2>3. Copies(k, Append(s, x)) = Cardinality(A)
    BY DEF Copies
  <2> HIDE DEF A, B, n
  <2>4. Cardinality(A) = Cardinality(B) + (IF n \in B THEN 0 ELSE 1)
                                        - (IF n \in A THEN 0 ELSE 1)
    BY <1>2, <2>2, CountMove
  <2>5. QED
    BY <1>2, <1>3, <2>2, <2>3, <2>4
<1>6. ASSUME s # <<>>
      PROVE  Copies(k, Tail(s)) = Copies(k, s) - (IF Head(s) = k THEN 1 ELSE 0)
  <2> DEFINE C == {i \in B : i # 1}
             A == {i \in DOMAIN Tail(s) : Tail(s)[i] = k}
             f == [i \in A |-> i + 1]
  <2>1. /\ DOMAIN Tail(s) = 1..(Len(s) - 1) /\ Len(s) >= 1 /\ Head(s) = s[1]
        /\ \A i \in 1..(Len(s) - 1) : Tail(s)[i] = s[i + 1]
    BY <1>1, <1>6, HeadTailProperties, LenProperties, EmptySeq
  <2>2. f \in Bijection(A, C)
    <3>1. \A i \in A : i + 1 \in C
      BY <1>1, <2>1
    <3>2. \A j \in C : j - 1 \in A /\ j = (j - 1) + 1
      BY <1>1, <2>1
    <3>3. A \subseteq Int
      BY <1>1, <2>1
    <3> HIDE DEF A, C
    <3>4. f \in [A -> C]
      BY <3>1
    <3>5. IsInjective(f)
      BY <3>3 DEF IsInjective
    <3>6. f \in Injection(A, C)
      BY <3>4, <3>5 DEF Injection
    <3>7. f \in Surjection(A, C)
      <4>1. \A j \in C : f[j - 1] = j
        BY <3>2
      <4> HIDE DEF f
      <4>2. QED
        BY <3>2, <3>4, <4>1 DEF Surjection
    <3>8. QED
      BY <3>6, <3>7 DEF Bijection
  <2>3. B \ {1} = C \ {1} /\ 1 \notin C /\ (1 \in B <=> Head(s) = k)
    BY <1>1, <2>1
  <2>4. Copies(k, Tail(s)) = Cardinality(A)
    BY DEF Copies
  <2>5. IsFiniteSet(A)
    <3>1. A \in SUBSET (1..(Len(s) - 1)) /\ IsFiniteSet(1..(Len(s) - 1))
      BY <1>1, <2>1, FS_Interval
    <3>2. QED
      BY <3>1, FS_Subset
  <2> HIDE DEF A, B, C, f
  <2>6. Cardinality(C) = Cardinality(A) /\ IsFiniteSet(C)
    BY <2>2, <2>5, FS_Bijection DEF ExistsBijection
  <2>7. /\ Cardinality(C) = Cardinality(B) + (IF 1 \in B THEN 0 ELSE 1)
                                          - (IF 1 \in C THEN 0 ELSE 1)
    BY <1>2, <2>3, CountMove
  <2>8. QED
    BY <1>2, <1>3, <2>3, <2>4, <2>6, <2>7
<1>7. QED
  BY <1>2, <1>3, <1>4, <1>5, <1>6

LEMMA NoCopies == \A k : Copies(k, <<>>) = 0
<1>1. <<>> \in Seq({}) /\ DOMAIN <<>> = {}
  OBVIOUS
<1>2. QED
  BY <1>1, CopiesOf

\* The threads at a point of S with task k.
With(k, S) == {t \in At(S) : task[t] = k}

LEMMA WithIsNat ==
    ASSUME NEW k, NEW S
    PROVE  /\ IsFiniteSet(With(k, S)) /\ Cardinality(With(k, S)) \in Nat
           /\ Cardinality(With(k, S)) = 0 <=> With(k, S) = {}
<1>1. IsFiniteSet(With(k, S))
  BY ThreadsFinite, FS_Subset DEF With, At
<1>2. QED
  BY <1>1, FS_CardinalityType, FS_EmptySet

\* How a step of one thread changes them.
LEMMA MoveWith ==
    ASSUME PoolType, NEW t \in Threads, NEW point, Goto(t, point), NEW k, NEW S,
           \A u \in Threads \ {t} : task'[u] = task[u]
    PROVE  Cardinality(With(k, S)') = Cardinality(With(k, S))
                                        + (IF point \in S /\ task'[t] = k THEN 1 ELSE 0)
                                        - (IF pc[t] \in S /\ task[t] = k THEN 1 ELSE 0)
<1> DEFINE A == With(k, S)'
           B == With(k, S)
<1>1. /\ A \ {t} = B \ {t}
      /\ t \in B <=> pc[t] \in S /\ task[t] = k
      /\ t \in A <=> point \in S /\ task'[t] = k
  BY DEF PoolType, TypeOK, Goto, At, With
<1>2. IsFiniteSet(B) /\ Cardinality(B) \in Nat
  BY WithIsNat
<1> HIDE DEF A, B
<1>3. Cardinality(A) = Cardinality(B) + (IF t \in B THEN 0 ELSE 1)
                                      - (IF t \in A THEN 0 ELSE 1)
  BY <1>1, <1>2, CountMove
<1>4. QED
  BY <1>1, <1>2, <1>3 DEF A, B

PlaceInv ==
    /\ OnePlace
    /\ leaked \subseteq active
    /\ main # "batch" => batch = <<>>

\* The exit tasks: at most one is under way, it is the last of the queue, and
\* every completed round has made one thread leave.
ExitInv ==
    /\ spin => main = "spin"
    /\ Copies(Exit, queue) + Cardinality(With(Exit, {"run"}))
          = IF main = "spin" /\ spin THEN 1 ELSE 0
    /\ Cardinality(At({"gone"})) = exits + (IF main = "spin" /\ ~spin THEN 1 ELSE 0)
    /\ main \in {"loop", "batch"} => exits = 0
    /\ main = "destroyed" => exits = Cardinality(Threads)
    /\ \A i \in DOMAIN queue : queue[i] = Exit => i = Len(queue)
    /\ At({"gone"}) \cup With(Exit, {"run"}) # {} =>
          \A i \in DOMAIN queue : queue[i] = Exit

\* A post leaves the threads that have a task or are gone where they are.
LEMMA SignalWith ==
    ASSUME PoolType, Signal, task' = task, NEW S, "wait" \notin S, "woken" \notin S
    PROVE  At(S)' = At(S) /\ \A k : With(k, S)' = With(k, S)
<1>1. \A u \in Threads : pc'[u] \in S <=> pc[u] \in S
  <2>1. CASE UNCHANGED pc
    BY <2>1
  <2>2. CASE \E t \in At({"wait"}) : Goto(t, "woken")
    <3>1. PICK t \in At({"wait"}) : Goto(t, "woken")
      BY <2>2
    <3>2. QED
      BY <3>1 DEF At, Goto, PoolType, TypeOK
  <2>3. QED
    BY <2>1, <2>2 DEF Signal
<1>2. At(S)' = At(S)
  BY <1>1 DEF At
<1>3. QED
  BY <1>2 DEF With

\* A task that leaves the queue is with the thread that took it.
LEMMA TakeWith ==
    ASSUME PoolType, NEW t \in Threads, Take(t), pc[t] \in {"enter", "woken"},
           NEW S, "run" \in S, {"enter", "woken", "wait"} \cap S = {}, NEW k
    PROVE  /\ Copies(k, queue) \in Nat /\ Copies(k, queue') \in Nat
           /\ Copies(k, queue') + Cardinality(With(k, S)')
                = Copies(k, queue) + Cardinality(With(k, S))
           /\ queue # <<>> =>
                 Copies(k, queue') = Copies(k, queue) - (IF Head(queue) = k THEN 1 ELSE 0)
           /\ queue = <<>> => queue' = queue /\ Cardinality(With(k, S)') = Cardinality(With(k, S))
<1>1. /\ Cardinality(With(k, S)) \in Nat /\ Copies(k, queue) \in Nat
      /\ queue \in Seq(Tasks \cup {Exit}) /\ pc[t] \notin S
  BY WithIsNat, CopiesOf DEF PoolType, TypeOK
<1>2. CASE queue = <<>> /\ Goto(t, "wait") /\ UNCHANGED <<queue, task>>
  <2>1. Cardinality(With(k, S)') = Cardinality(With(k, S))
    BY <1>1, <1>2, MoveWith
  <2>2. QED
    BY <1>1, <1>2, <2>1
<1>3. CASE queue # <<>> /\ task' = [task EXCEPT ![t] = Head(queue)]
           /\ queue' = Tail(queue) /\ Goto(t, "run")
  <2>1. task'[t] = Head(queue) /\ \A u \in Threads \ {t} : task'[u] = task[u]
    BY <1>3 DEF PoolType, TypeOK
  <2>2. Cardinality(With(k, S)') = Cardinality(With(k, S)) + (IF Head(queue) = k THEN 1 ELSE 0)
    BY <1>1, <1>3, <2>1, MoveWith
  <2>3. Copies(k, Tail(queue)) = Copies(k, queue) - (IF Head(queue) = k THEN 1 ELSE 0)
    BY <1>1, <1>3, CopiesOf
  <2>4. Copies(k, queue') \in Nat
    <3>1. Tail(queue) \in Seq(Tasks \cup {Exit})
      BY <1>1, <1>3
    <3>2. QED
      BY <1>3, <3>1, CopiesOf
  <2>5. QED
    BY <1>1, <1>3, <2>2, <2>3, <2>4
<1>4. QED
  BY <1>2, <1>3 DEF Take

LEMMA PlaceInit == Init => PlaceInv
<1> SUFFICES ASSUME Init PROVE PlaceInv
  OBVIOUS
<1>1. ASSUME NEW k \in Tasks PROVE Cardinality(With(k, {"run", "finish"})) = 0
  <2>1. With(k, {"run", "finish"}) = {}
    BY DEF Init, With, At
  <2>2. QED
    BY <2>1, FS_EmptySet
<1>2. OnePlace
  BY <1>1, NoCopies DEF Init, OnePlace, With
<1>3. QED
  BY <1>2 DEF Init, PlaceInv

LEMMA PlaceStep == PoolType /\ PlaceInv /\ [Next]_vars => PlaceInv'
<1> SUFFICES ASSUME PoolType, PlaceInv, [Next]_vars PROVE PlaceInv'
  OBVIOUS
<1> DEFINE R == {"run", "finish"}
           Sum(k) == Copies(k, queue) + Copies(k, done) + Copies(k, batch)
                        + Cardinality(With(k, R))
           Own(k) == IF k \in active \ leaked THEN 1 ELSE 0
<1>a. \A k : /\ Copies(k, queue) \in Nat /\ Copies(k, done) \in Nat
             /\ Copies(k, batch) \in Nat /\ Cardinality(With(k, R)) \in Nat
  BY CopiesOf, WithIsNat DEF PoolType, TypeOK
<1>b. \A k \in Tasks : Sum(k) = Own(k)
  BY DEF PlaceInv, OnePlace, With
<1>c. SUFFICES /\ \A k \in Tasks : Sum(k)' = Own(k)'
               /\ leaked' \subseteq active' /\ (main' # "batch" => batch' = <<>>)
  BY DEF PlaceInv, OnePlace, With
<1>d. leaked \subseteq active /\ (main # "batch" => batch = <<>>)
  BY DEF PlaceInv
<1>e. ASSUME UNCHANGED <<pc, task>>, NEW k PROVE Cardinality(With(k, R)') = Cardinality(With(k, R))
  BY <1>e DEF With, At
<1>f. \A k \in Tasks : k # Exit
  BY PoolAssumption
<1>1. ASSUME NEW t \in Threads, Enter(t) \/ Wake(t)
      PROVE  /\ \A k \in Tasks : Sum(k)' = Own(k)'
             /\ leaked' \subseteq active' /\ (main' # "batch" => batch' = <<>>)
  <2>1. /\ UNCHANGED <<done, batch, active, leaked, main>> /\ Take(t)
        /\ pc[t] \in {"enter", "woken"}
    BY <1>1 DEF Enter, Wake
  <2>2. \A k : /\ Copies(k, queue') \in Nat
               /\ Copies(k, queue') + Cardinality(With(k, R)')
                     = Copies(k, queue) + Cardinality(With(k, R))
    BY <2>1, TakeWith
  <2>3. ASSUME NEW k \in Tasks PROVE Sum(k)' = Own(k)'
    <3>1. Sum(k)' = Copies(k, queue') + Copies(k, done) + Copies(k, batch)
                      + Cardinality(With(k, R)')
      BY <2>1
    <3>2. Cardinality(With(k, R)') \in Nat
      BY <2>1, ThreadsFinite, FS_Subset, FS_CardinalityType DEF With, At
    <3>3. Sum(k)' = Sum(k)
      <4> HIDE DEF R
      <4>1. QED
        BY <1>a, <2>2, <3>1, <3>2
    <3>4. QED
      BY <1>b, <2>1, <3>3
  <2>4. QED
    BY <1>d, <2>1, <2>3
<1>2. ASSUME NEW t \in Threads, Run(t)
      PROVE  /\ \A k \in Tasks : Sum(k)' = Own(k)'
             /\ leaked' \subseteq active' /\ (main' # "batch" => batch' = <<>>)
  <2>1. /\ UNCHANGED <<queue, task, done, batch, active, leaked, main>> /\ pc[t] = "run"
        /\ Goto(t, IF task[t] = Exit THEN "gone" ELSE "finish")
    BY <1>2 DEF Run
  <2>2. ASSUME NEW k \in Tasks PROVE Cardinality(With(k, R)') = Cardinality(With(k, R))
    BY <1>a, <1>f, <2>1, MoveWith
  <2>3. QED
    BY <1>b, <1>d, <2>1, <2>2
<1>3. ASSUME NEW t \in Threads, Finish(t)
      PROVE  /\ \A k \in Tasks : Sum(k)' = Own(k)'
             /\ leaked' \subseteq active' /\ (main' # "batch" => batch' = <<>>)
  <2>1. /\ UNCHANGED <<queue, task, batch, active, leaked, main>> /\ pc[t] = "finish"
        /\ Goto(t, "notify") /\ done' = Append(done, task[t]) /\ task[t] \in Tasks
    BY <1>3 DEF Finish, PoolType, TypeOK
  <2>2. ASSUME NEW k \in Tasks PROVE Sum(k)' = Sum(k)
    <3>1. Cardinality(With(k, R)') =
             Cardinality(With(k, R)) - (IF task[t] = k THEN 1 ELSE 0)
      BY <1>a, <2>1, MoveWith
    <3>2. Copies(k, done') = Copies(k, done) + (IF task[t] = k THEN 1 ELSE 0)
      BY <2>1, CopiesOf DEF PoolType, TypeOK
    <3>3. QED
      BY <1>a, <2>1, <3>1, <3>2
  <2>3. QED
    BY <1>b, <1>d, <2>1, <2>2
<1>4. ASSUME NEW t \in Threads,
             Notify(t) \/ NotifyFails(t) \/ SpuriousWakeup(t) \/ WaitFails(t)
      PROVE  /\ \A k \in Tasks : Sum(k)' = Own(k)'
             /\ leaked' \subseteq active' /\ (main' # "batch" => batch' = <<>>)
  <2>1. /\ UNCHANGED <<queue, task, done, batch, active, leaked, main>>
        /\ pc[t] \in {"notify", "wait"}
    BY <1>4 DEF Notify, NotifyFails, SpuriousWakeup, WaitFails
  <2>2. PICK point \in {"enter", "woken", "failed"} : Goto(t, point)
    BY <1>4 DEF Notify, NotifyFails, SpuriousWakeup, WaitFails
  <2>3. ASSUME NEW k \in Tasks PROVE Cardinality(With(k, R)') = Cardinality(With(k, R))
    BY <1>a, <2>1, <2>2, MoveWith
  <2>4. QED
    BY <1>b, <1>d, <2>1, <2>3
<1>5. ASSUME NEW j \in Tasks, Post(j)
      PROVE  /\ \A k \in Tasks : Sum(k)' = Own(k)'
             /\ leaked' \subseteq active' /\ (main' # "batch" => batch' = <<>>)
  <2>1. /\ UNCHANGED <<task, done, batch, leaked, main>> /\ Signal
        /\ queue' = Append(queue, j) /\ j \notin active /\ active' = active \cup {j}
    BY <1>5 DEF Post, Enqueue
  <2>2. ASSUME NEW k \in Tasks PROVE Sum(k)' = Own(k)'
    <3>1. With(k, R)' = With(k, R)
      BY <2>1, SignalWith
    <3>2. Copies(k, queue') = Copies(k, queue) + (IF j = k THEN 1 ELSE 0)
      BY <2>1, CopiesOf DEF PoolType, TypeOK
    <3>3. Sum(k)' = Sum(k) + (IF j = k THEN 1 ELSE 0)
      BY <1>a, <2>1, <3>1, <3>2
    <3>4. Own(k)' = IF j = k THEN 1 ELSE Own(k)
      BY <1>d, <2>1
    <3>5. j = k => Own(k) = 0
      BY <2>1
    <3>6. QED
      BY <1>b, <3>3, <3>4, <3>5
  <2>3. QED
    BY <1>d, <2>1, <2>2
<1>6. ASSUME NEW j \in Tasks, PostFails(j)
      PROVE  /\ \A k \in Tasks : Sum(k)' = Own(k)'
             /\ leaked' \subseteq active' /\ (main' # "batch" => batch' = <<>>)
  <2>1. /\ UNCHANGED <<queue, pc, task, done, batch, main>> /\ j \notin active
        /\ active' = active \cup {j} /\ leaked' = leaked \cup {j}
    BY <1>6 DEF PostFails
  <2>2. \A k \in Tasks : Sum(k)' = Sum(k) /\ Own(k)' = Own(k)
    BY <1>e, <2>1
  <2>3. QED
    BY <1>b, <1>d, <2>1, <2>2
<1>7. ASSUME Handler
      PROVE  /\ \A k \in Tasks : Sum(k)' = Own(k)'
             /\ leaked' \subseteq active' /\ (main' # "batch" => batch' = <<>>)
  <2>1. /\ UNCHANGED <<queue, pc, task, active, leaked>> /\ batch = <<>>
        /\ batch' = done /\ done' = <<>> /\ main' = "batch"
    BY <1>7, <1>d DEF Handler
  <2>2. \A k \in Tasks : Sum(k)' = Sum(k)
    BY <1>a, <1>e, <2>1, NoCopies
  <2>3. QED
    BY <1>b, <1>d, <2>1, <2>2
<1>8. ASSUME Complete
      PROVE  /\ \A k \in Tasks : Sum(k)' = Own(k)'
             /\ leaked' \subseteq active' /\ (main' # "batch" => batch' = <<>>)
  <2>1. /\ UNCHANGED <<queue, pc, task, done, leaked, main>> /\ main = "batch"
        /\ batch # <<>> /\ batch' = Tail(batch) /\ active' = active \ {Head(batch)}
        /\ Head(batch) \in Tasks /\ batch \in Seq(Tasks)
    BY <1>8 DEF Complete, PoolType, TypeOK
  <2>2. ASSUME NEW k \in Tasks
        PROVE  Sum(k)' = Sum(k) - (IF Head(batch) = k THEN 1 ELSE 0)
    <3>1. Copies(k, batch') = Copies(k, batch) - (IF Head(batch) = k THEN 1 ELSE 0)
      BY <2>1, CopiesOf
    <3>2. QED
      BY <1>a, <1>e, <2>1, <3>1
  <2>3. Head(batch) \in active \ leaked
    <3> DEFINE h == Head(batch)
    <3>1. Copies(h, batch) # 0
      <4>1. 1 \in DOMAIN batch /\ batch[1] = h
        BY <2>1
      <4>2. QED
        BY <2>1, <4>1, CopiesOf
    <3>2. Sum(h) # 0
      <4> HIDE DEF h
      <4>1. /\ Copies(h, queue) \in Nat /\ Copies(h, done) \in Nat
            /\ Copies(h, batch) \in Nat /\ Cardinality(With(h, R)) \in Nat
        BY <1>a
      <4> HIDE DEF R
      <4>2. QED
        BY <3>1, <4>1
    <3>3. QED
      BY <1>b, <2>1, <3>2
  <2>4. ASSUME NEW k \in Tasks PROVE Sum(k)' = Own(k)'
    <3>1. Own(k)' = IF Head(batch) = k THEN 0 ELSE Own(k)
      BY <2>1
    <3>2. Head(batch) = k => Own(k) = 1
      BY <2>3
    <3>3. QED
      BY <1>b, <2>2, <3>1, <3>2
  <2>5. QED
    BY <1>d, <2>1, <2>3, <2>4
<1>9. ASSUME Return \/ Destroy \/ Spin \/ Destroyed \/ UNCHANGED vars
      PROVE  /\ \A k \in Tasks : Sum(k)' = Own(k)'
             /\ leaked' \subseteq active' /\ (main' # "batch" => batch' = <<>>)
  <2>1. /\ UNCHANGED <<queue, pc, task, done, batch, active, leaked>>
        /\ main' # "batch" => main # "batch" \/ batch = <<>>
    BY <1>9 DEF Return, Destroy, Spin, Destroyed, vars
  <2>2. QED
    BY <1>b, <1>d, <1>e, <2>1
<1>10. ASSUME PostExit
      PROVE  /\ \A k \in Tasks : Sum(k)' = Own(k)'
             /\ leaked' \subseteq active' /\ (main' # "batch" => batch' = <<>>)
  <2>1. /\ UNCHANGED <<task, done, batch, active, leaked>> /\ main = "next"
        /\ \/ Signal /\ queue' = Append(queue, Exit)
           \/ UNCHANGED <<queue, pc>>
    BY <1>10 DEF PostExit, Enqueue
  <2>2. ASSUME NEW k \in Tasks PROVE Sum(k)' = Sum(k)
    <3>1. With(k, R)' = With(k, R)
      BY <2>1, SignalWith DEF With, At
    <3>2. Copies(k, queue') = Copies(k, queue)
      <4>1. Copies(k, Append(queue, Exit)) = Copies(k, queue) + (IF Exit = k THEN 1 ELSE 0)
        BY CopiesOf DEF PoolType, TypeOK
      <4>2. Copies(k, Append(queue, Exit)) = Copies(k, queue)
        BY <1>a, <4>1, PoolAssumption
      <4>3. QED
        BY <2>1, <4>2
    <3>3. QED
      BY <2>1, <3>1, <3>2
  <2>3. QED
    BY <1>b, <1>d, <2>1, <2>2
<1>11. QED
  BY <1>1, <1>2, <1>3, <1>4, <1>5, <1>6, <1>7, <1>8, <1>9, <1>10
     DEF Next, Thread, Cycle, Drain, Stop

\* A task is active exactly while it is in one place, so it is never run twice for
\* one post and never lost, but for the failed cond_signal() that leaks it.
THEOREM PoolOnePlace == Spec => []OnePlace
<1>1. PlaceInv => OnePlace
  BY DEF PlaceInv
<1>2. QED
  BY <1>1, PoolTypeInit, PoolTypeStep, PlaceInit, PlaceStep, PTL DEF Spec

-----------------------------------------------------------------------------
(* The end of the pool. *)

LEMMA ExitInit == Init => ExitInv
<1> SUFFICES ASSUME Init PROVE ExitInv
  OBVIOUS
<1>1. /\ With(Exit, {"run"}) = {} /\ At({"gone"}) = {} /\ queue = <<>> /\ main = "loop"
      /\ ~spin /\ exits = 0
  BY DEF Init, With, At
<1>2. Cardinality({}) = 0 /\ Copies(Exit, queue) = 0
  BY <1>1, FS_EmptySet, NoCopies
<1>3. DOMAIN queue = {}
  BY <1>1
<1>a. Cardinality(With(Exit, {"run"})) = 0 /\ Cardinality(At({"gone"})) = 0
  BY <1>1, <1>2, Zenon
<1>4. /\ Copies(Exit, queue) + Cardinality(With(Exit, {"run"})) = 0
      /\ Cardinality(At({"gone"})) = exits + 0
  BY <1>1, <1>2, <1>a
<1>5. QED
  BY <1>1, <1>3, <1>4, SMT DEF ExitInv

LEMMA ExitStep == PoolType /\ ExitInv /\ [Next]_vars => ExitInv'
<1> SUFFICES ASSUME PoolType, ExitInv, [Next]_vars PROVE ExitInv'
  OBVIOUS
<1> DEFINE Q == Copies(Exit, queue)
           X == Cardinality(With(Exit, {"run"}))
           G == Cardinality(At({"gone"}))
           AtEnd == \A i \in DOMAIN queue : queue[i] = Exit => i = Len(queue)
           Only == \A i \in DOMAIN queue : queue[i] = Exit
           Left == At({"gone"}) \cup With(Exit, {"run"}) # {}
<1>a. Q \in Nat /\ X \in Nat /\ G \in Nat /\ exits \in Nat /\ Cardinality(Threads) \in Nat
  BY CopiesOf, WithIsNat, CountsAreNat, ThreadsFinite DEF PoolType, TypeOK
<1> DEFINE Good == /\ spin => main = "spin" /\ Q + X = 1
                   /\ ~spin => Q + X = 0
                   /\ main = "spin" /\ ~spin => G = exits + 1
                   /\ main # "spin" \/ spin => G = exits
                   /\ main \in {"loop", "batch"} => exits = 0
                   /\ main = "destroyed" => exits = Cardinality(Threads)
                   /\ AtEnd /\ (Left => Only)
<1>b. Good
  BY <1>a DEF ExitInv
<1>c. ASSUME Good' PROVE ExitInv'
  <2>a. PoolType'
    BY PoolTypeStep
  <2>1. exits' \in Nat
    BY <1>a, <2>a DEF PoolType, TypeOK
  <2>2. CASE spin'
    <3> HIDE DEF Q, X, G, AtEnd, Only, Left
    <3>a. exits' + 0 = exits'
      <4>1. \A n \in Nat : n + 0 = n
        OBVIOUS
      <4>2. QED
        BY <2>1, <4>1, Zenon
    <3>1. /\ main' = "spin" /\ Q' + X' = 1 /\ G' = exits' /\ exits' + 0 = exits'
          /\ AtEnd' /\ (Left' => Only')
      BY <1>c, <2>2, <3>a, Zenon
    <3>2. /\ Q' + X' = (IF main' = "spin" /\ spin' THEN 1 ELSE 0)
          /\ G' = exits' + (IF main' = "spin" /\ ~spin' THEN 1 ELSE 0)
      BY <2>2, <3>1
    <3>3. QED
      BY <2>2, <3>1, <3>2 DEF ExitInv, Q, X, G, AtEnd, Only, Left
  <2>3. CASE ~spin'
    BY <1>c, <2>1, <2>3 DEF ExitInv
  <2>4. QED
    BY <2>2, <2>3
<1>d. (Q = 0 <=> \A i \in DOMAIN queue : queue[i] # Exit)
      /\ (X = 0 <=> With(Exit, {"run"}) = {}) /\ (G = 0 <=> At({"gone"}) = {})
  BY CopiesOf, WithIsNat, CountsAreNat, FS_EmptySet DEF PoolType, TypeOK
<1>e. queue \in Seq(Tasks \cup {Exit}) /\ Len(queue) \in Nat /\ DOMAIN queue = 1..Len(queue)
  BY LenProperties DEF PoolType, TypeOK
<1> HIDE DEF Q, X, G, AtEnd, Only, Left, Good
<1>1. ASSUME NEW t \in Threads, Enter(t) \/ Wake(t) PROVE Good'
  <2>1. /\ UNCHANGED <<spin, main, exits>> /\ Take(t) /\ pc[t] \in {"enter", "woken"}
    BY <1>1 DEF Enter, Wake
  <2>2. /\ Q' \in Nat /\ Q' + X' = Q + X
        /\ queue = <<>> => queue' = queue /\ X' = X
    BY <2>1, TakeWith DEF Q, X
  <2>3. At({"gone"})' = At({"gone"})
    BY <2>1 DEF Take, Goto, At, PoolType, TypeOK
  <2>4. G' = G
    BY <2>3 DEF G
  <2>5. X' \in Nat /\ (X' = 0 <=> With(Exit, {"run"})' = {})
    <3>1. IsFiniteSet(With(Exit, {"run"})')
      BY ThreadsFinite, FS_Subset DEF With, At
    <3>2. QED
      BY <3>1, FS_CardinalityType, FS_EmptySet DEF X
  <2>6. AtEnd' /\ (Left' => Only')
    <3>1. CASE queue = <<>>
      BY <2>1, <3>1 DEF Take, AtEnd, Only
    <3>2. CASE queue # <<>>
      <4>a. queue' = Tail(queue)
        BY <2>1, <3>2 DEF Take
      <4>b. Len(queue) # 0
        BY <1>e, <3>2
      <4>1. /\ Len(queue') = Len(queue) - 1
            /\ DOMAIN queue' = 1..(Len(queue) - 1)
            /\ \A i \in DOMAIN queue' : queue'[i] = queue[i + 1]
            /\ Head(queue) = queue[1] /\ Len(queue) >= 1
        BY <1>e, <4>a, <4>b
      <4>2. AtEnd'
        BY <1>b, <1>e, <4>1 DEF AtEnd, Good
      <4>3. CASE Head(queue) = Exit
        <5>1. Len(queue) = 1
          BY <1>b, <1>e, <4>1, <4>3 DEF AtEnd, Good
        <5>2. DOMAIN queue' = {}
          BY <4>1, <5>1
        <5>3. QED
          BY <4>2, <5>2 DEF Only
      <4>4. CASE Head(queue) # Exit
        <5>1. With(Exit, {"run"})' = With(Exit, {"run"})
          BY <2>1, <3>2, <4>4 DEF Take, Goto, With, At, PoolType, TypeOK
        <5>2. Left' => Left
          BY <2>3, <5>1 DEF Left
        <5>3. Only => Only'
          BY <1>e, <4>1 DEF Only
        <5>4. QED
          BY <1>b, <4>2, <5>2, <5>3 DEF Good
      <4>5. QED
        BY <4>3, <4>4
    <3>3. QED
      BY <3>1, <3>2
  <2>7. QED
    BY <1>a, <1>b, <2>1, <2>2, <2>4, <2>5, <2>6 DEF Good
<1>2. ASSUME NEW t \in Threads, Run(t) PROVE Good'
  <2>1. /\ UNCHANGED <<queue, task, main, exits>> /\ pc[t] = "run"
        /\ Goto(t, IF task[t] = Exit THEN "gone" ELSE "finish")
        /\ spin' = (spin /\ task[t] # Exit)
    BY <1>2 DEF Run
  <2>2. Q' = Q /\ (AtEnd' <=> AtEnd) /\ (Only' <=> Only)
    BY <2>1 DEF Q, AtEnd, Only
  <2>3. CASE task[t] = Exit
    <3>1. X' = X - 1 /\ G' = G + 1
      BY <1>a, <2>1, <2>3, MoveWith, MoveThread DEF X, G
    <3>2. With(Exit, {"run"}) # {} /\ Left
      BY <2>1, <2>3 DEF With, At, Left
    <3>3. X # 0
      BY <1>d, <3>2
    <3>4. main = "spin" /\ spin /\ Q = 0 /\ X = 1
      BY <1>a, <1>b, <3>3 DEF Good
    <3>5. ~spin'
      BY <2>1, <2>3
    <3>6. QED
      BY <1>a, <1>b, <2>1, <2>2, <3>1, <3>2, <3>4, <3>5 DEF Good
  <2>4. CASE task[t] # Exit
    <3>1. X' = X /\ G' = G
      BY <1>a, <2>1, <2>4, MoveWith, MoveThread DEF X, G
    <3>2. At({"gone"})' = At({"gone"}) /\ With(Exit, {"run"})' = With(Exit, {"run"})
      BY <2>1, <2>4 DEF With, At, Goto, PoolType, TypeOK
    <3>3. Left' <=> Left
      BY <3>2 DEF Left
    <3>4. spin' <=> spin
      BY <2>1, <2>4
    <3>5. QED
      BY <1>b, <2>1, <2>2, <3>1, <3>3, <3>4 DEF Good
  <2>5. QED
    BY <2>3, <2>4
<1>3. ASSUME UNCHANGED <<queue, main, exits, spin>>,
             At({"gone"})' = At({"gone"}), With(Exit, {"run"})' = With(Exit, {"run"})
      PROVE  Good'
  <2>1. Q' = Q /\ X' = X /\ G' = G /\ (AtEnd' <=> AtEnd) /\ (Only' <=> Only) /\ (Left' <=> Left)
    BY <1>3 DEF Q, X, G, AtEnd, Only, Left
  <2>2. QED
    BY <1>3, <1>b, <2>1 DEF Good
<1>4. ASSUME NEW t \in Threads, \/ Finish(t) \/ Notify(t) \/ NotifyFails(t)
                                \/ SpuriousWakeup(t) \/ WaitFails(t)
      PROVE  Good'
  <2>1. /\ UNCHANGED <<queue, task, main, exits, spin>>
        /\ pc[t] \in {"finish", "notify", "wait"}
    BY <1>4 DEF Finish, Notify, NotifyFails, SpuriousWakeup, WaitFails
  <2>2. PICK point \in {"notify", "enter", "woken", "failed"} : Goto(t, point)
    BY <1>4 DEF Finish, Notify, NotifyFails, SpuriousWakeup, WaitFails
  <2>3. At({"gone"})' = At({"gone"}) /\ With(Exit, {"run"})' = With(Exit, {"run"})
    BY <2>1, <2>2 DEF With, At, Goto, PoolType, TypeOK
  <2>4. QED
    BY <1>3, <2>1, <2>3
<1>5. ASSUME NEW j \in Tasks, Post(j) PROVE Good'
  <2>1. /\ UNCHANGED <<task, main, exits, spin>> /\ Signal /\ main \in {"loop", "batch"}
        /\ queue' = Append(queue, j)
    BY <1>5 DEF Post, Enqueue
  <2>2. At({"gone"})' = At({"gone"}) /\ With(Exit, {"run"})' = With(Exit, {"run"})
    BY <2>1, SignalWith
  <2>3. X' = X /\ G' = G /\ (Left' <=> Left)
    BY <2>2 DEF X, G, Left
  <2>4. j # Exit /\ Q' = Q + (IF j = Exit THEN 1 ELSE 0)
    BY <1>e, <2>1, PoolAssumption, CopiesOf DEF Q
  <2>5. Q = 0 /\ X = 0 /\ G = 0
    BY <1>a, <1>b, <2>1 DEF Good
  <2>6. ~Left
    BY <1>d, <2>5 DEF Left
  <2>7. AtEnd'
    <3>1. \A i \in DOMAIN queue' : queue'[i] # Exit
      BY <1>d, <1>e, <2>1, <2>4, <2>5
    <3>2. QED
      BY <3>1 DEF AtEnd
  <2>8. QED
    BY <1>a, <1>b, <2>1, <2>3, <2>4, <2>5, <2>6, <2>7 DEF Good
<1>6. ASSUME \/ \E k \in Tasks : PostFails(k)
             \/ Handler \/ Complete \/ Return \/ Destroy \/ Destroyed \/ UNCHANGED vars
      PROVE  Good'
  <2>1. UNCHANGED <<queue, pc, task, exits, spin>>
    BY <1>6 DEF PostFails, Handler, Complete, Return, Destroy, Destroyed, vars
  <2>2. Q' = Q /\ X' = X /\ G' = G /\ (AtEnd' <=> AtEnd) /\ (Only' <=> Only) /\ (Left' <=> Left)
    BY <2>1 DEF Q, X, G, AtEnd, Only, Left, With, At
  <2>3. /\ main' = "spin" <=> main = "spin"
        /\ main' \in {"loop", "batch"} => main \in {"loop", "batch"}
        /\ main' = "destroyed" => main = "destroyed" \/ exits = Cardinality(Threads)
    BY <1>6 DEF PostFails, Handler, Complete, Return, Destroy, Destroyed, vars
  <2>4. QED
    BY <1>b, <2>1, <2>2, <2>3 DEF Good
<1>7. ASSUME PostExit PROVE Good'
  <2>1. UNCHANGED <<task, exits>> /\ main = "next"
    BY <1>7 DEF PostExit
  <2>2. ~spin /\ Q = 0 /\ X = 0 /\ G = exits
    BY <1>a, <1>b, <2>1 DEF Good
  <2>3. CASE Signal /\ queue' = Append(queue, Exit) /\ main' = "spin" /\ spin' = TRUE
    <3>1. At({"gone"})' = At({"gone"}) /\ With(Exit, {"run"})' = With(Exit, {"run"})
      BY <2>1, <2>3, SignalWith
    <3>2. X' = X /\ G' = G /\ (Left' <=> Left)
      BY <3>1 DEF X, G, Left
    <3>3. Q' = Q + (IF Exit = Exit THEN 1 ELSE 0)
      BY <1>e, <2>3, CopiesOf DEF Q
    <3>4. /\ DOMAIN queue' = 1..(Len(queue) + 1) /\ Len(queue') = Len(queue) + 1
          /\ \A i \in 1..Len(queue) : queue'[i] = queue[i]
          /\ queue'[Len(queue) + 1] = Exit
      BY <1>e, <2>3
    <3>5. AtEnd'
      BY <1>d, <1>e, <2>2, <3>4 DEF AtEnd
    <3>6. Only => Only'
      BY <1>e, <3>4 DEF Only
    <3>7. QED
      BY <1>a, <1>b, <2>1, <2>2, <2>3, <3>2, <3>3, <3>5, <3>6 DEF Good
  <2>4. CASE UNCHANGED <<queue, pc, spin>> /\ main' = "refused"
    <3>1. Q' = Q /\ X' = X /\ G' = G /\ (AtEnd' <=> AtEnd) /\ (Only' <=> Only)
          /\ (Left' <=> Left)
      BY <2>1, <2>4 DEF Q, X, G, AtEnd, Only, Left, With, At
    <3>2. QED
      BY <1>a, <1>b, <2>1, <2>2, <2>4, <3>1 DEF Good
  <2>5. QED
    BY <1>7, <2>3, <2>4 DEF PostExit, Enqueue
<1>8. ASSUME Spin PROVE Good'
  <2>1. /\ UNCHANGED <<queue, pc, task, spin>> /\ main = "spin" /\ ~spin
        /\ exits' = exits + 1 /\ main' = "next"
    BY <1>8 DEF Spin
  <2>2. Q' = Q /\ X' = X /\ G' = G /\ (AtEnd' <=> AtEnd) /\ (Only' <=> Only) /\ (Left' <=> Left)
    BY <2>1 DEF Q, X, G, AtEnd, Only, Left, With, At
  <2>3. QED
    BY <1>a, <1>b, <2>1, <2>2 DEF Good
<1>9. QED
  BY <1>c, <1>1, <1>2, <1>4, <1>5, <1>6, <1>7, <1>8 DEF Next, Thread, Cycle, Drain, Stop

\* When ngx_thread_pool_destroy() destroys the mutex and the condition variable,
\* every thread has left and the queue is empty.
THEOREM PoolDestroyedUnused == Spec => []DestroyedUnused
<1>1. PoolType /\ ExitInv => DestroyedUnused
  <2> SUFFICES ASSUME PoolType, ExitInv, main = "destroyed"
               PROVE  At({"gone"}) = Threads /\ queue = <<>>
    BY DEF DestroyedUnused
  <2>1. At({"gone"}) = Threads
    <3>1. Cardinality(At({"gone"})) = Cardinality(Threads)
      BY DEF ExitInv, PoolType, TypeOK
    <3>2. At({"gone"}) \in SUBSET Threads
      BY DEF At
    <3>3. QED
      BY <3>1, <3>2, ThreadsFinite, FS_Subset
  <2>2. \A i \in DOMAIN queue : queue[i] = Exit
    BY <2>1, PoolAssumption DEF ExitInv
  <2>3. \A i \in DOMAIN queue : queue[i] # Exit
    <3>1. /\ Copies(Exit, queue) \in Nat /\ Cardinality(With(Exit, {"run"})) \in Nat
          /\ Copies(Exit, queue) = 0 <=> \A i \in DOMAIN queue : queue[i] # Exit
      BY CopiesOf, WithIsNat DEF PoolType, TypeOK
    <3>2. Copies(Exit, queue) + Cardinality(With(Exit, {"run"})) = 0
      BY DEF ExitInv
    <3>3. QED
      BY <3>1, <3>2
  <2>4. queue = <<>>
    BY <2>2, <2>3 DEF PoolType, TypeOK
  <2>5. QED
    BY <2>1, <2>4
<1>2. QED
  BY <1>1, PoolTypeInit, PoolTypeStep, ExitInit, ExitStep, PTL DEF Spec

=============================================================================
