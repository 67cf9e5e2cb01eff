----------------------------- MODULE ThreadPool -----------------------------
(***************************************************************************)
(* One thread pool of a worker process, src/core/ngx_thread_pool.c: the    *)
(* event loop posts tasks, the pool's threads run them and hand them back  *)
(* through the done queue and ngx_notify(), and the event loop runs their  *)
(* completion handlers.  At the end of the worker the event loop stops the *)
(* threads with one exit task each.                                        *)
(*                                                                         *)
(* A section under tp->mtx or under ngx_thread_pool_done_lock is one step: *)
(* what it reads and writes is touched only under the same lock.  The      *)
(* event loop is one thread, and task->event belongs to it.                *)
(***************************************************************************)
EXTENDS Integers, Sequences, FiniteSets

CONSTANTS
    Threads,     \* the tp->threads threads of the pool
    Tasks,       \* the tasks the program posts
    Exit,        \* the task of ngx_thread_pool_destroy()
    MaxQueue,    \* tp->max_queue
    MaxPosts,    \* bound: accepted posts
    MaxFaults    \* bound: failing pthread and eventfd calls

ASSUME PoolAssumption ==
    /\ IsFiniteSet(Threads) /\ Threads # {}
    /\ Exit \notin Tasks
    /\ MaxQueue \in Nat /\ MaxPosts \in Nat /\ MaxFaults \in Nat

VARIABLES
    queue,     \* tp->queue
    waiting,   \* tp->waiting
    pc,        \* where each thread is in ngx_thread_pool_cycle()
    task,      \* the task each thread took
    active,    \* task->event.active, set of tasks
    done,      \* ngx_thread_pool_done
    notified,  \* the eventfd is readable and its edge not yet reported
    main,      \* what the event loop does
    batch,     \* the chain ngx_thread_pool_handler() walks
    exits,     \* exit rounds that ngx_thread_pool_destroy() completed
    spin,      \* its flag "lock"
    posts,     \* accepted posts
    faults,    \* failed calls
    leaked,    \* history: tasks left active by a failed cond_signal()
    unheard    \* history: a task went to the done queue and ngx_notify() failed

vars == <<queue, waiting, pc, task, active, done, notified, main, batch, exits,
          spin, posts, faults, leaked, unheard>>

(***************************************************************************)
(* A thread is at                                                          *)
(*   enter   before mutex_lock()        run     task->handler()            *)
(*   wait    in cond_wait()             finish  before the done queue      *)
(*   woken   cond_wait() returned       notify  before ngx_notify()        *)
(*   gone    exited                     failed  returned: cond_wait failed *)
(* and the event loop at                                                   *)
(*   loop    anywhere else              spin    while (lock) in destroy()  *)
(*   batch   ngx_thread_pool_handler()  next    between two exit rounds    *)
(*   destroyed, refused   ngx_thread_pool_destroy() returned               *)
(***************************************************************************)
ThreadPoints == {"enter", "wait", "woken", "run", "finish", "notify", "gone",
                 "failed"}
MainPoints == {"loop", "batch", "next", "spin", "destroyed", "refused"}

At(S) == {t \in Threads : pc[t] \in S}
Goto(t, point) == pc' = [pc EXCEPT ![t] = point]
NoTask == [t \in Threads |-> Exit]

\* ngx_thread_pool_init_worker(), ngx_thread_pool_init().
Init ==
    /\ queue = <<>> /\ waiting = 0
    /\ pc = [t \in Threads |-> "enter"]
    /\ task = NoTask
    /\ active = {}
    /\ done = <<>> /\ notified = FALSE
    /\ main = "loop" /\ batch = <<>> /\ exits = 0 /\ spin = FALSE
    /\ posts = 0 /\ faults = 0 /\ leaked = {} /\ unheard = FALSE

-----------------------------------------------------------------------------
(***************************************************************************)
(* ngx_thread_task_post(): refused, with no effect, when the task is       *)
(* active or the queue is full.  Otherwise the task becomes active, one    *)
(* waiting thread, if there is one, is woken, and the task is appended.    *)
(***************************************************************************)
Full == waiting >= MaxQueue

Signal ==
    \/ /\ At({"wait"}) = {}
       /\ UNCHANGED pc
    \/ \E t \in At({"wait"}) : Goto(t, "woken")

\* Mutant: nobody is signalled.
EnqueueSilently(k) ==
    /\ ~Full
    /\ UNCHANGED pc
    /\ queue' = Append(queue, k)
    /\ waiting' = waiting + 1

Enqueue(k) ==
    /\ ~Full
    /\ Signal
    /\ queue' = Append(queue, k)
    /\ waiting' = waiting + 1

\* An event handler, or the completion handler of a task, posts a task.
Post(k) ==
    /\ main \in {"loop", "batch"}
    /\ k \notin active
    /\ posts < MaxPosts
    /\ posts' = posts + 1
    /\ Enqueue(k)
    /\ active' = active \cup {k}
    /\ UNCHANGED <<task, done, notified, main, batch, exits, spin, faults,
                   leaked, unheard>>

\* cond_signal() fails: the post returns with event.active set.
PostFails(k) ==
    /\ main \in {"loop", "batch"}
    /\ k \notin active
    /\ ~Full
    /\ faults < MaxFaults
    /\ faults' = faults + 1
    /\ active' = active \cup {k}
    /\ leaked' = leaked \cup {k}
    /\ UNCHANGED <<queue, waiting, pc, task, done, notified, main, batch, exits,
                   spin, posts, unheard>>

-----------------------------------------------------------------------------
(***************************************************************************)
(* ngx_thread_pool_cycle().  Take is the rest of the section once the      *)
(* queue was looked at: the first task, or cond_wait().  A mutex that      *)
(* cannot be locked or unlocked, after which a thread leaves or a post is  *)
(* refused, is left out: it takes a broken mutex.                          *)
(***************************************************************************)
Take(t) ==
    \/ /\ queue = <<>>
       /\ Goto(t, "wait")
       /\ UNCHANGED <<queue, task>>
    \/ /\ queue # <<>>
       /\ task' = [task EXCEPT ![t] = Head(queue)]
       /\ queue' = Tail(queue)
       /\ Goto(t, "run")

Enter(t) ==
    /\ pc[t] = "enter"
    /\ waiting' = waiting - 1
    /\ Take(t)
    /\ UNCHANGED <<active, done, notified, main, batch, exits, spin, posts,
                   faults, leaked, unheard>>

\* The loop around cond_wait(): the task may have been taken by a thread that
\* came in meanwhile.
Wake(t) ==
    /\ pc[t] = "woken"
    /\ Take(t)
    /\ UNCHANGED <<waiting, active, done, notified, main, batch, exits, spin,
                   posts, faults, leaked, unheard>>

SpuriousWakeup(t) ==
    /\ pc[t] = "wait"
    /\ Goto(t, "woken")
    /\ UNCHANGED <<queue, waiting, task, active, done, notified, main, batch,
                   exits, spin, posts, faults, leaked, unheard>>

\* cond_wait() fails: the thread unlocks and returns.
WaitFails(t) ==
    /\ pc[t] = "wait"
    /\ faults < MaxFaults
    /\ faults' = faults + 1
    /\ Goto(t, "failed")
    /\ UNCHANGED <<queue, waiting, task, active, done, notified, main, batch,
                   exits, spin, posts, leaked, unheard>>

\* Mutant: the exit handler does not clear the flag.
RunKeepsFlag(t) ==
    /\ pc[t] = "run"
    /\ Goto(t, IF task[t] = Exit THEN "gone" ELSE "finish")
    /\ UNCHANGED <<queue, waiting, task, active, done, notified, main, batch,
                   exits, spin, posts, faults, leaked, unheard>>

\* task->handler(); the exit handler clears the flag and ends the thread.
Run(t) ==
    /\ pc[t] = "run"
    /\ Goto(t, IF task[t] = Exit THEN "gone" ELSE "finish")
    /\ spin' = (spin /\ task[t] # Exit)
    /\ UNCHANGED <<queue, waiting, task, active, done, notified, main, batch,
                   exits, posts, faults, leaked, unheard>>

\* The section under ngx_thread_pool_done_lock.
Finish(t) ==
    /\ pc[t] = "finish"
    /\ done' = Append(done, task[t])
    /\ Goto(t, "notify")
    /\ UNCHANGED <<queue, waiting, task, active, notified, main, batch, exits,
                   spin, posts, faults, leaked, unheard>>

\* Mutant: the event loop is notified only of the first task in the queue.
NotifyFirst(t) ==
    /\ pc[t] = "notify"
    /\ notified' = (notified \/ Len(done) = 1)
    /\ Goto(t, "enter")
    /\ UNCHANGED <<queue, waiting, task, active, done, main, batch, exits,
                   spin, posts, faults, leaked, unheard>>

\* ngx_notify(): a write to the eventfd, whose edge the event loop will see.
Notify(t) ==
    /\ pc[t] = "notify"
    /\ notified' = TRUE
    /\ Goto(t, "enter")
    /\ UNCHANGED <<queue, waiting, task, active, done, main, batch, exits,
                   spin, posts, faults, leaked, unheard>>

\* The write fails and the error is ignored.
NotifyFails(t) ==
    /\ pc[t] = "notify"
    /\ faults < MaxFaults
    /\ faults' = faults + 1
    /\ unheard' = TRUE
    /\ Goto(t, "enter")
    /\ UNCHANGED <<queue, waiting, task, active, done, notified, main, batch,
                   exits, spin, posts, leaked>>

-----------------------------------------------------------------------------
\* ngx_thread_pool_handler(): epoll reports the edge, the done queue is taken.
Handler ==
    /\ main = "loop"
    /\ notified
    /\ notified' = FALSE
    /\ batch' = done
    /\ done' = <<>>
    /\ main' = "batch"
    /\ UNCHANGED <<queue, waiting, pc, task, active, exits, spin, posts, faults,
                   leaked, unheard>>

\* Mutant: the next task is read after the completion handler, which may have
\* posted the task again and so cleared task->next.
CompleteThenNext ==
    /\ main = "batch"
    /\ batch # <<>>
    /\ \/ /\ active' = active \ {Head(batch)}
          /\ batch' = Tail(batch)
          /\ UNCHANGED <<queue, waiting, pc>>
       \/ /\ Enqueue(Head(batch))
          /\ batch' = <<>>
          /\ UNCHANGED active
    /\ UNCHANGED <<task, done, notified, main, exits, spin, posts, faults, leaked,
                   unheard>>

\* One round of its loop.  The next task is read before the completion handler
\* runs; what the handler posts is Post.
Complete ==
    /\ main = "batch"
    /\ batch # <<>>
    /\ batch' = Tail(batch)
    /\ active' = active \ {Head(batch)}
    /\ UNCHANGED <<queue, waiting, pc, task, done, notified, main, exits, spin,
                   posts, faults, leaked, unheard>>

Return ==
    /\ main = "batch"
    /\ batch = <<>>
    /\ main' = "loop"
    /\ UNCHANGED <<queue, waiting, pc, task, active, done, notified, batch,
                   exits, spin, posts, faults, leaked, unheard>>

-----------------------------------------------------------------------------
(***************************************************************************)
(* ngx_thread_pool_destroy(), called when the worker exits.  Each round    *)
(* posts the exit task and spins until a thread cleared the flag.  A       *)
(* refused post ends it at once.                                           *)
(***************************************************************************)
Destroy ==
    /\ main = "loop"
    /\ main' = "next"
    /\ UNCHANGED <<queue, waiting, pc, task, active, done, notified, batch,
                   exits, spin, posts, faults, leaked, unheard>>

PostExit ==
    /\ main = "next"
    /\ exits < Cardinality(Threads)
    /\ \/ /\ Enqueue(Exit)
          /\ main' = "spin"
          /\ spin' = TRUE
          /\ UNCHANGED faults
       \/ /\ Full
          /\ main' = "refused"
          /\ UNCHANGED <<queue, waiting, pc, spin, faults>>
       \/ /\ ~Full
          /\ faults < MaxFaults
          /\ faults' = faults + 1
          /\ main' = "refused"
          /\ UNCHANGED <<queue, waiting, pc, spin>>
    /\ UNCHANGED <<task, active, done, notified, batch, exits, posts, leaked, unheard>>

\* Mutant: the rounds do not wait for the thread to leave.
SpinSkipped ==
    /\ main = "spin"
    /\ exits' = exits + 1
    /\ main' = "next"
    /\ UNCHANGED <<queue, waiting, pc, task, active, done, notified, batch,
                   spin, posts, faults, leaked, unheard>>

Spin ==
    /\ main = "spin"
    /\ ~spin
    /\ exits' = exits + 1
    /\ main' = "next"
    /\ UNCHANGED <<queue, waiting, pc, task, active, done, notified, batch,
                   spin, posts, faults, leaked, unheard>>

\* cond_destroy() and mutex_destroy().
Destroyed ==
    /\ main = "next"
    /\ exits = Cardinality(Threads)
    /\ main' = "destroyed"
    /\ UNCHANGED <<queue, waiting, pc, task, active, done, notified, batch,
                   exits, spin, posts, faults, leaked, unheard>>

-----------------------------------------------------------------------------
Cycle(t) == Enter(t) \/ Wake(t) \/ Run(t) \/ Finish(t) \/ Notify(t)

Thread(t) == Cycle(t) \/ SpuriousWakeup(t) \/ WaitFails(t) \/ NotifyFails(t)

Drain == Handler \/ Complete \/ Return

Stop == PostExit \/ Spin \/ Destroyed

Next ==
    \/ \E t \in Threads : Thread(t)
    \/ \E k \in Tasks : Post(k) \/ PostFails(k)
    \/ Drain
    \/ Destroy
    \/ Stop

Spec == Init /\ [][Next]_vars

\* The kernel schedules the threads, tasks end, and the event loop comes back
\* to epoll_wait(); nobody has to post, and the worker does not have to exit.
FairSpec ==
    /\ Spec
    /\ \A t \in Threads : WF_vars(Cycle(t))
    /\ WF_vars(Drain)
    /\ WF_vars(Stop)

-----------------------------------------------------------------------------
Copies(k, s) == Cardinality({i \in DOMAIN s : s[i] = k})

\* Type invariant.
TypeOK ==
    /\ queue \in Seq(Tasks \cup {Exit}) /\ waiting \in Int
    /\ pc \in [Threads -> ThreadPoints]
    /\ task \in [Threads -> Tasks \cup {Exit}]
    /\ active \in SUBSET Tasks
    /\ done \in Seq(Tasks) /\ batch \in Seq(Tasks)
    /\ notified \in BOOLEAN /\ spin \in BOOLEAN /\ unheard \in BOOLEAN
    /\ main \in MainPoints
    /\ exits \in 0..Cardinality(Threads)
    /\ posts \in 0..MaxPosts /\ faults \in 0..MaxFaults
    /\ leaked \in SUBSET Tasks

\* In the section that decrements "waiting" for the task it will take: waits,
\* was woken, or left it by an error.
Waiters == At({"wait", "woken", "failed"})

\* "waiting" is the queue less the threads that came to take a task and have
\* none yet, so it runs below zero; a thread that died waiting stays counted.
WaitingCounts == waiting = Len(queue) - Cardinality(Waiters)

\* No more tasks are queued than max_queue and one for every thread that waits
\* for one: this is what comparing "waiting" with max_queue amounts to.
QueueBound == Len(queue) <= MaxQueue + Cardinality(Waiters)

\* No thread sleeps on the condition variable while tasks are queued that no
\* woken thread comes for, although the signal is sent before the task is
\* appended and a thread that comes in may take the task of a woken one.
WorkConserving ==
    At({"wait"}) # {} => Len(queue) <= Cardinality(At({"woken"}))

\* A task is active exactly while it is in one place: queued once, with one
\* thread, or once on its way back; or it was leaked by a failed signal.
OnePlace ==
    \A k \in Tasks :
        Copies(k, queue) + Copies(k, done) + Copies(k, batch)
            + Cardinality({t \in At({"run", "finish"}) : task[t] = k})
        = IF k \in active \ leaked THEN 1 ELSE 0

\* A finished task is never forgotten in the done queue: the event loop has a
\* notification to come, unless ngx_notify() failed.
DoneNotified ==
    done # <<>> => notified \/ unheard \/ At({"notify"}) # {}

\* The mutex and the condition variable are destroyed only when no thread can
\* touch them again and nothing is left in the queue.
DestroyedUnused ==
    main = "destroyed" => At({"gone"}) = Threads /\ queue = <<>>

\* A posted task is completed, unless the worker exits, its post failed
\* half-way, a notification failed, or every thread died of an error.
PostedCompletes ==
    \A k \in Tasks :
        (k \in active) ~> (\/ k \notin active \/ k \in leaked \/ unheard
                           \/ main \notin {"loop", "batch"}
                           \/ At({"failed"}) = Threads)

\* Stopping the pool ends, unless a thread had died of an error before and
\* nobody is left to take its exit task.
StopEnds ==
    (main = "next") ~> (main \in {"destroyed", "refused"} \/ At({"failed"}) # {})

=============================================================================
