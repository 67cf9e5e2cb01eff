------------------------------- MODULE Shmtx -------------------------------
(***************************************************************************)
(* The process mutex of nginx, src/core/ngx_shmtx.c, in the build that     *)
(* objs/ngx_auto_config.h describes: atomic operations and POSIX           *)
(* semaphores.  The lock word and the wait counter live in shared memory;  *)
(* workers take the lock, the master takes it away from a worker that      *)
(* died (os/unix/ngx_process.c, ngx_unlock_mutexes).                       *)
(*                                                                         *)
(* One step is one atomic instruction or one semaphore call.  The test     *)
(* "*lock == 0 && cmp_set(lock, 0, pid)" is one step: it has no effect     *)
(* when either half fails, so it takes effect at the read that finds the   *)
(* lock taken or at the cmp_set.  The attempts of the spin loop are        *)
(* repetitions of that step.                                               *)
(***************************************************************************)
EXTENDS Integers, FiniteSets

CONSTANTS
    Procs,       \* the worker processes, by slot of ngx_processes[]
    Master,      \* the master process
    Free,        \* the lock value 0
    MaxOps,      \* bound: lock or trylock calls one process makes
    MaxKills,    \* bound: workers that die abnormally
    MaxFaults    \* bound: sem_wait() failures other than EINTR

ASSUME ProcsAssumption ==
    /\ IsFiniteSet(Procs)
    /\ Master \notin Procs
    /\ Free \notin Procs \cup {Master}

ASSUME BoundsAssumption ==
    MaxOps \in Nat /\ MaxKills \in Nat /\ MaxFaults \in Nat

Actors == Procs \cup {Master}

VARIABLES
    lock,        \* *mtx->lock: Free or the pid of the holder
    wait,        \* *mtx->wait, read as the signed number the code casts it to
    sem,         \* the value of mtx->sem
    semaphore,   \* mtx->semaphore: sem_init() succeeded
    pc,          \* the next statement of each process
    seen,        \* the local "wait" of ngx_shmtx_wakeup()
    ops,         \* calls made by each worker
    reaping,     \* the pid ngx_unlock_mutexes() is called with
    kills,       \* workers killed so far
    faults,      \* sem_wait() failures so far
    stale,       \* history: registrations in wait that no live process owns
    lost         \* history: a worker died owing somebody a wakeup

vars == <<lock, wait, sem, semaphore, pc, seen, ops, reaping, kills, faults,
          stale, lost>>

history == <<kills, faults, stale, lost>>

-----------------------------------------------------------------------------
(***************************************************************************)
(* The program points of a worker.                                         *)
(*   idle   outside the mutex code      sleep  sem_wait()                  *)
(*   try    lines 84 and 96             cs     lock returned               *)
(*   inc    fetch_add(wait, 1)          read   wakeup(): reads *wait       *)
(*   retry  line 109                    cas    wakeup(): cmp_set(wait)     *)
(*   dec    fetch_add(wait, -1)         post   wakeup(): sem_post()        *)
(*   dead   exited, not yet reaped                                         *)
(* The master runs only force_unlock() and wakeup().                       *)
(***************************************************************************)
WorkerPoints == {"idle", "try", "inc", "retry", "dec", "sleep", "cs",
                 "read", "cas", "post", "dead"}
MasterPoints == {"idle", "force", "read", "cas", "post"}

\* The owner of the lock word is at one of these points, or dead there.
Holding == {"dec", "cs"}
\* Counted in mtx->wait and not yet released from it.
Registered == {"retry", "dec", "sleep"}
\* Will look at the lock, or wake a sleeper, without being woken first.
Active == {"try", "inc", "retry", "read", "cas", "post"}

At(S) == {a \in Actors : pc[a] \in S}

Goto(a, point) == pc' = [pc EXCEPT ![a] = point]

-----------------------------------------------------------------------------
(***************************************************************************)
(* ngx_shmtx_create(): the semaphore starts at 0; when sem_init() fails,   *)
(* or the caller asked for spin == -1 as the accept mutex does, the mutex  *)
(* works without it.                                                       *)
(***************************************************************************)
Init ==
    /\ lock = Free
    /\ wait = 0
    /\ sem = 0
    /\ semaphore \in BOOLEAN
    /\ pc = [a \in Actors |-> "idle"]
    /\ seen = [a \in Actors |-> 0]
    /\ ops = [p \in Procs |-> 0]
    /\ reaping = Free
    /\ kills = 0
    /\ faults = 0
    /\ stale = 0
    /\ lost = FALSE

\* ngx_shmtx_trylock(): one attempt, and the caller goes on without the lock.
Trylock(p) ==
    /\ pc[p] = "idle"
    /\ ops[p] < MaxOps
    /\ ops' = [ops EXCEPT ![p] = @ + 1]
    /\ lock' = IF lock = Free THEN p ELSE lock
    /\ Goto(p, IF lock = Free THEN "cs" ELSE "idle")
    /\ UNCHANGED <<wait, sem, semaphore, seen, reaping, history>>

\* ngx_shmtx_lock() is called.
Lock(p) ==
    /\ pc[p] = "idle"
    /\ ops[p] < MaxOps
    /\ ops' = [ops EXCEPT ![p] = @ + 1]
    /\ Goto(p, "try")
    /\ UNCHANGED <<lock, wait, sem, semaphore, seen, reaping, history>>

\* The first attempt and those of the spin loop.  After the last one fails a
\* process with no semaphore yields and starts over.
Attempt(p) ==
    /\ pc[p] = "try"
    /\ lock' = IF lock = Free THEN p ELSE lock
    /\ Goto(p, IF lock = Free THEN "cs"
               ELSE IF semaphore THEN "inc" ELSE "try")
    /\ UNCHANGED <<wait, sem, semaphore, seen, ops, reaping, history>>

Register(p) ==
    /\ pc[p] = "inc"
    /\ wait' = wait + 1
    /\ Goto(p, "retry")
    /\ UNCHANGED <<lock, sem, semaphore, seen, ops, reaping, history>>

\* Mutant: a process sleeps without looking at the lock again.
ReattemptSleeps(p) ==
    /\ pc[p] = "retry"
    /\ Goto(p, "sleep")
    /\ UNCHANGED <<lock, wait, sem, semaphore, seen, ops, reaping, history>>

\* The attempt after registering: an unlock that came before the registration
\* woke nobody, so the lock must be looked at again before sleeping.
Reattempt(p) ==
    /\ pc[p] = "retry"
    /\ lock' = IF lock = Free THEN p ELSE lock
    /\ Goto(p, IF lock = Free THEN "dec" ELSE "sleep")
    /\ UNCHANGED <<wait, sem, semaphore, seen, ops, reaping, history>>

\* Mutant: line 110 is missing.
UnregisterForgotten(p) ==
    /\ pc[p] = "dec"
    /\ Goto(p, "cs")
    /\ UNCHANGED <<lock, wait, sem, semaphore, seen, ops, reaping, history>>

Unregister(p) ==
    /\ pc[p] = "dec"
    /\ wait' = wait - 1
    /\ Goto(p, "cs")
    /\ UNCHANGED <<lock, sem, semaphore, seen, ops, reaping, history>>

\* sem_wait() returns 0; EINTR only repeats the call.
SemWait(p) ==
    /\ pc[p] = "sleep"
    /\ sem > 0
    /\ sem' = sem - 1
    /\ Goto(p, "try")
    /\ UNCHANGED <<lock, wait, semaphore, seen, ops, reaping, history>>

\* sem_wait() fails otherwise: logged, and the outer loop continues with the
\* registration left behind.
SemWaitFails(p) ==
    /\ pc[p] = "sleep"
    /\ faults < MaxFaults
    /\ faults' = faults + 1
    /\ stale' = stale + 1
    /\ Goto(p, "try")
    /\ UNCHANGED <<lock, wait, sem, semaphore, seen, ops, reaping, kills, lost>>

-----------------------------------------------------------------------------
(***************************************************************************)
(* ngx_shmtx_unlock() and ngx_shmtx_force_unlock() release the lock word   *)
(* only if it holds the given pid, and then call ngx_shmtx_wakeup().       *)
(***************************************************************************)
\* Mutant: the lock is cleared whoever holds it.
ReleaseUnchecked(a, pid) ==
    /\ lock' = Free
    /\ Goto(a, IF semaphore THEN "read" ELSE "idle")

\* Mutant: nobody is woken.
ReleaseSilently(a, pid) ==
    /\ lock' = IF lock = pid THEN Free ELSE lock
    /\ Goto(a, "idle")

Release(a, pid) ==
    /\ lock' = IF lock = pid THEN Free ELSE lock
    /\ Goto(a, IF lock = pid /\ semaphore THEN "read" ELSE "idle")

Unlock(p) ==
    /\ pc[p] = "cs"
    /\ Release(p, p)
    /\ UNCHANGED <<wait, sem, semaphore, seen, ops, reaping, history>>

WakeRead(a) ==
    /\ pc[a] = "read"
    /\ seen' = [seen EXCEPT ![a] = wait]
    /\ Goto(a, IF wait <= 0 THEN "idle" ELSE "cas")
    /\ UNCHANGED <<lock, wait, sem, semaphore, ops, reaping, history>>

WakeCas(a) ==
    /\ pc[a] = "cas"
    /\ wait' = IF wait = seen[a] THEN seen[a] - 1 ELSE wait
    /\ Goto(a, IF wait = seen[a] THEN "post" ELSE "read")
    /\ UNCHANGED <<lock, sem, semaphore, seen, ops, reaping, history>>

\* sem_post(), which fails only when the semaphore is at its maximum: the alert
\* for that is left out.
WakePost(a) ==
    /\ pc[a] = "post"
    /\ sem' = sem + 1
    /\ Goto(a, "idle")
    /\ UNCHANGED <<lock, wait, semaphore, seen, ops, reaping, history>>

-----------------------------------------------------------------------------
(***************************************************************************)
(* A worker dies abnormally at any point.  Its registration, if it has     *)
(* one, stays in the counter; a decrement it made for another process and  *)
(* did not post is gone; if it was active and a sleeper counts on it, the  *)
(* wakeup is lost.                                                         *)
(***************************************************************************)
Kill(p) ==
    /\ pc[p] # "dead"
    /\ kills < MaxKills
    /\ kills' = kills + 1
    /\ stale' = CASE pc[p] \in Registered -> stale + 1
                  [] pc[p] = "post" -> stale - 1
                  [] OTHER -> stale
    /\ lost' = (lost \/ pc[p] \in Active)
    /\ Goto(p, "dead")
    /\ UNCHANGED <<lock, wait, sem, semaphore, seen, ops, reaping, faults>>

\* ngx_process_get_status(): waitpid() returns the pid of a dead worker, and
\* ngx_unlock_mutexes() is called with it.  The slot is respawned only after
\* the handler has returned, here in the step that ends the reaping.
Reap(p) ==
    /\ pc[Master] = "idle"
    /\ reaping = Free
    /\ pc[p] = "dead"
    /\ reaping' = p
    /\ Goto(Master, "force")
    /\ UNCHANGED <<lock, wait, sem, semaphore, seen, ops, history>>

\* Mutant: the lock of the reaped pid is left alone.
ForceUnlockSkipped ==
    /\ pc[Master] = "force"
    /\ Goto(Master, "idle")
    /\ UNCHANGED <<lock, wait, sem, semaphore, seen, ops, reaping, history>>

ForceUnlock ==
    /\ pc[Master] = "force"
    /\ Release(Master, reaping)
    /\ UNCHANGED <<wait, sem, semaphore, seen, ops, reaping, history>>

\* ngx_reap_children() respawns the worker in its slot.
Respawn ==
    /\ pc[Master] = "idle"
    /\ reaping # Free
    /\ reaping' = Free
    /\ Goto(reaping, "idle")
    /\ UNCHANGED <<lock, wait, sem, semaphore, seen, ops, history>>

-----------------------------------------------------------------------------
Wakeup(a) == WakeRead(a) \/ WakeCas(a) \/ WakePost(a)

Worker(p) ==
    \/ Trylock(p) \/ Lock(p) \/ Attempt(p) \/ Register(p) \/ Reattempt(p)
    \/ Unregister(p) \/ SemWait(p) \/ SemWaitFails(p) \/ Unlock(p)
    \/ Wakeup(p)

Reaper == (\E p \in Procs : Reap(p)) \/ ForceUnlock \/ Respawn \/ Wakeup(Master)

Next ==
    \/ \E p \in Procs : Worker(p) \/ Kill(p)
    \/ Reaper

Spec == Init /\ [][Next]_vars

\* A live process inside the mutex code is scheduled again, and the kernel
\* delivers SIGCHLD; no process has to call the mutex or to die.
Inside(p) ==
    \/ Attempt(p) \/ Register(p) \/ Reattempt(p) \/ Unregister(p)
    \/ SemWait(p) \/ Unlock(p) \/ Wakeup(p)

Fairness ==
    /\ \A p \in Procs : WF_vars(Inside(p))
    /\ WF_vars(Reaper)

FairSpec == Spec /\ Fairness

-----------------------------------------------------------------------------
\* Type invariant.
TypeOK ==
    /\ lock \in Procs \cup {Free}
    /\ wait \in Int
    /\ sem \in Nat
    /\ semaphore \in BOOLEAN
    /\ pc \in [Actors -> WorkerPoints \cup MasterPoints]
    /\ pc[Master] \in MasterPoints
    /\ \A p \in Procs : pc[p] \in WorkerPoints
    /\ seen \in [Actors -> Int]
    /\ ops \in [Procs -> 0..MaxOps]
    /\ reaping \in Procs \cup {Free}
    /\ kills \in 0..MaxKills
    /\ faults \in 0..MaxFaults
    /\ stale \in Int
    /\ lost \in BOOLEAN

\* Two processes never hold the mutex together, whoever is killed, wherever it
\* is killed, and although the master releases the lock of a dead worker while
\* others lock and unlock (ngx_shmtx_lock, _unlock, _force_unlock).
MutualExclusion ==
    \A p, q \in Procs : pc[p] \in Holding /\ pc[q] \in Holding => p = q

\* The lock word is an abstract mutex of the live processes: it changes hands
\* only through 0, it is released only by its holder's unlock or, once the
\* holder is dead, by ngx_unlock_mutexes(), and no worker is respawned while
\* the lock word still holds the pid of its slot.
Abstract == INSTANCE AbstractMutex WITH
    owner <- lock, dead <- {p \in Procs : pc[p] = "dead"}

ImplementsMutex == Abstract!Spec

\* Every registration is accounted for.  *mtx->wait may go below zero (a
\* process that takes the lock at line 109 gives back a registration that a
\* concurrent wakeup already took), but with the posted and the about to be
\* posted wakeups it always sums up to the registered processes, plus what
\* killed processes and failed sem_wait() calls left behind.
TokenAccounting ==
    wait + sem + Cardinality(At({"post"}))
        = Cardinality(At(Registered)) + stale

\* No wakeup is lost: while the mutex is free and some process sleeps in
\* sem_wait(), a wakeup is posted or some process is running that will take
\* the lock or post one.  Only killing a process in the middle of the mutex
\* code breaks this.
NoLostWakeup ==
    ~lost /\ lock = Free /\ At({"sleep"}) # {} => sem > 0 \/ At(Active) # {}

\* With finitely many calls every caller gets through and every dead worker's
\* lock is recovered: in the end nobody waits, unless a wakeup was lost to a
\* kill.
Drained == <>[](lost \/ \A a \in Actors : pc[a] = "idle")

=============================================================================
