---------------------------- MODULE ShmtxProofs ----------------------------
(***************************************************************************)
(* Proofs about the process mutex, for any finite set of workers and any   *)
(* values of the bounds.  The inductive invariant is the conjunction of    *)
(* four parts:                                                             *)
(*   TypeOK      the type invariant;                                       *)
(*   LockInv     the lock word agrees with where its holder is, and with   *)
(*               how far the master is in reaping a dead holder;           *)
(*   CountInv    TokenAccounting, and the registrations nobody owns are    *)
(*               negative only after a kill lost a wakeup;                 *)
(*   SleepInv    NoLostWakeup, and nobody sleeps without a semaphore.      *)
(* LockInv needs only TypeOK, CountInv needs TypeOK, and SleepInv needs    *)
(* all of them: the wakeup that finds *mtx->wait <= 0 and posts nothing    *)
(* is right only because of the accounting.                                *)
(***************************************************************************)
EXTENDS Shmtx, Counting

LockInv ==
    /\ \A p \in Procs : pc[p] \in Holding => lock = p
    /\ \A p \in Procs : lock = p => pc[p] \in Holding \cup {"dead"}
    /\ reaping = Free => pc[Master] = "idle"
    /\ reaping # Free => pc[reaping] = "dead"
    /\ reaping # Free /\ pc[Master] # "force" => lock # reaping

CountInv ==
    /\ TokenAccounting
    /\ ~lost => stale >= 0

SleepInv ==
    /\ NoLostWakeup
    /\ ~semaphore => At({"inc", "retry", "dec", "sleep"}) = {}

Points == WorkerPoints \cup MasterPoints

-----------------------------------------------------------------------------
\* The initial state is well typed, and every step keeps it so.
LEMMA TypeInit == Init => TypeOK
<1> SUFFICES ASSUME Init PROVE TypeOK
  OBVIOUS
<1>1. lost \in BOOLEAN /\ semaphore \in BOOLEAN
  BY Zenon DEF Init
<1>2. QED
  BY <1>1, ProcsAssumption, BoundsAssumption
     DEF Init, TypeOK, Actors, WorkerPoints, MasterPoints

LEMMA TypeStep == TypeOK /\ [Next]_vars => TypeOK'
<1> SUFFICES ASSUME TypeOK, [Next]_vars PROVE TypeOK'
  OBVIOUS
<1> USE ProcsAssumption, BoundsAssumption DEF TypeOK, Goto, history, Actors
<1>1. ASSUME NEW p \in Procs, Trylock(p) PROVE TypeOK'
  BY <1>1 DEF Trylock, WorkerPoints, MasterPoints
<1>2. ASSUME NEW p \in Procs, Lock(p) PROVE TypeOK'
  BY <1>2 DEF Lock, WorkerPoints, MasterPoints
<1>3. ASSUME NEW p \in Procs, Attempt(p) PROVE TypeOK'
  BY <1>3 DEF Attempt, WorkerPoints, MasterPoints
<1>4. ASSUME NEW p \in Procs, Register(p) PROVE TypeOK'
  BY <1>4 DEF Register, WorkerPoints, MasterPoints
<1>5. ASSUME NEW p \in Procs, Reattempt(p) PROVE TypeOK'
  BY <1>5 DEF Reattempt, WorkerPoints, MasterPoints
<1>6. ASSUME NEW p \in Procs, Unregister(p) PROVE TypeOK'
  BY <1>6 DEF Unregister, WorkerPoints, MasterPoints
<1>7. ASSUME NEW p \in Procs, SemWait(p) PROVE TypeOK'
  BY <1>7 DEF SemWait, WorkerPoints, MasterPoints
<1>8. ASSUME NEW p \in Procs, SemWaitFails(p) PROVE TypeOK'
  BY <1>8 DEF SemWaitFails, WorkerPoints, MasterPoints
<1>9. ASSUME NEW p \in Procs, Unlock(p) PROVE TypeOK'
  BY <1>9 DEF Unlock, Release, WorkerPoints, MasterPoints
<1>10. ASSUME NEW a \in Actors, WakeRead(a) PROVE TypeOK'
  BY <1>10 DEF WakeRead, WorkerPoints, MasterPoints
<1>11. ASSUME NEW a \in Actors, WakeCas(a) PROVE TypeOK'
  BY <1>11 DEF WakeCas, WorkerPoints, MasterPoints
<1>12. ASSUME NEW a \in Actors, WakePost(a) PROVE TypeOK'
  BY <1>12 DEF WakePost, WorkerPoints, MasterPoints
<1>13. ASSUME NEW p \in Procs, Kill(p) PROVE TypeOK'
  BY <1>13 DEF Kill, Active, Registered, WorkerPoints, MasterPoints
<1>14. ASSUME NEW p \in Procs, Reap(p) PROVE TypeOK'
  BY <1>14 DEF Reap, WorkerPoints, MasterPoints
<1>15. CASE ForceUnlock
  BY <1>15 DEF ForceUnlock, Release, WorkerPoints, MasterPoints
<1>16. CASE Respawn
  BY <1>16 DEF Respawn, WorkerPoints, MasterPoints
<1>17. CASE UNCHANGED vars
  BY <1>17 DEF vars
<1>18. QED
  BY <1>1, <1>2, <1>3, <1>4, <1>5, <1>6, <1>7, <1>8, <1>9, <1>10, <1>11,
     <1>12, <1>13, <1>14, <1>15, <1>16, <1>17
     DEF Next, Worker, Reaper, Wakeup

\* Every variable keeps its type, whatever the workers, the kills and the
\* failing semaphore calls (src/core/ngx_shmtx.c, ngx_unlock_mutexes).
THEOREM TypeCorrect == Spec => []TypeOK
  BY TypeInit, TypeStep, PTL DEF Spec

-----------------------------------------------------------------------------
\* The lock word and the positions of the processes agree.
LEMMA LockInit == Init => LockInv
  BY ProcsAssumption DEF Init, LockInv, Actors, Holding

LEMMA LockStep == TypeOK /\ LockInv /\ [Next]_vars => LockInv'
<1> SUFFICES ASSUME TypeOK, LockInv, [Next]_vars PROVE LockInv'
  OBVIOUS
<1> USE ProcsAssumption DEF TypeOK, LockInv, Goto, history, Actors, Holding
<1>1. ASSUME NEW p \in Procs, Trylock(p) PROVE LockInv'
  BY <1>1 DEF Trylock
<1>2. ASSUME NEW p \in Procs, Lock(p) PROVE LockInv'
  BY <1>2 DEF Lock
<1>3. ASSUME NEW p \in Procs, Attempt(p) PROVE LockInv'
  BY <1>3 DEF Attempt
<1>4. ASSUME NEW p \in Procs, Register(p) PROVE LockInv'
  BY <1>4 DEF Register
<1>5. ASSUME NEW p \in Procs, Reattempt(p) PROVE LockInv'
  BY <1>5 DEF Reattempt
<1>6. ASSUME NEW p \in Procs, Unregister(p) PROVE LockInv'
  BY <1>6 DEF Unregister
<1>7. ASSUME NEW p \in Procs, SemWait(p) PROVE LockInv'
  BY <1>7 DEF SemWait
<1>8. ASSUME NEW p \in Procs, SemWaitFails(p) PROVE LockInv'
  BY <1>8 DEF SemWaitFails
<1>9. ASSUME NEW p \in Procs, Unlock(p) PROVE LockInv'
  BY <1>9 DEF Unlock, Release
<1>10. ASSUME NEW a \in Actors, WakeRead(a) PROVE LockInv'
  BY <1>10 DEF WakeRead
<1>11. ASSUME NEW a \in Actors, WakeCas(a) PROVE LockInv'
  BY <1>11 DEF WakeCas
<1>12. ASSUME NEW a \in Actors, WakePost(a) PROVE LockInv'
  BY <1>12 DEF WakePost
<1>13. ASSUME NEW p \in Procs, Kill(p) PROVE LockInv'
  BY <1>13 DEF Kill
<1>14. ASSUME NEW p \in Procs, Reap(p) PROVE LockInv'
  BY <1>14 DEF Reap
<1>15. CASE ForceUnlock
  BY <1>15 DEF ForceUnlock, Release
<1>16. CASE Respawn
  BY <1>16 DEF Respawn
<1>17. CASE UNCHANGED vars
  BY <1>17 DEF vars
<1>18. QED
  BY <1>1, <1>2, <1>3, <1>4, <1>5, <1>6, <1>7, <1>8, <1>9, <1>10, <1>11,
     <1>12, <1>13, <1>14, <1>15, <1>16, <1>17
     DEF Next, Worker, Reaper, Wakeup

\* At most one process holds the mutex, for any number of workers, killed at
\* any point, and with the master releasing dead workers' locks at any time
\* (ngx_shmtx_lock, ngx_shmtx_unlock, ngx_shmtx_force_unlock).
THEOREM MutexSafe == Spec => []MutualExclusion
<1>1. LockInv => MutualExclusion
  BY DEF LockInv, MutualExclusion
<1>2. QED
  BY <1>1, TypeInit, TypeStep, LockInit, LockStep, PTL DEF Spec

-----------------------------------------------------------------------------
LEMMA ActorsFinite == IsFiniteSet(Actors)
  BY ProcsAssumption, FS_Singleton, FS_Union DEF Actors

\* The accounting of registrations.
LEMMA CountInit == Init => CountInv
<1> SUFFICES ASSUME Init PROVE CountInv
  OBVIOUS
<1>1. At({"post"}) = {} /\ At(Registered) = {}
  BY DEF Init, At, Registered
<1>2. QED
  BY <1>1, FS_EmptySet DEF Init, CountInv, TokenAccounting

LEMMA CountStep == TypeOK /\ LockInv /\ CountInv /\ [Next]_vars => CountInv'
<1> SUFFICES ASSUME TypeOK, LockInv, CountInv, [Next]_vars PROVE CountInv'
  OBVIOUS
<1> DEFINE Posting == Cardinality(At({"post"}))
           Waiting == Cardinality(At(Registered))
<1>a. Posting \in Nat /\ Waiting \in Nat
  <2>1. IsFiniteSet(At({"post"})) /\ IsFiniteSet(At(Registered))
    BY ActorsFinite, FS_Subset DEF At
  <2>2. QED
    BY <2>1, FS_CardinalityType
<1>b. ASSUME NEW a \in Actors, NEW point, Goto(a, point)
      PROVE  /\ Posting' = Posting + (IF pc[a] = "post" THEN 0 ELSE 1)
                                  - (IF point = "post" THEN 0 ELSE 1)
             /\ Waiting' = Waiting + (IF pc[a] \in Registered THEN 0 ELSE 1)
                                  - (IF point \in Registered THEN 0 ELSE 1)
  <2>1. pc \in [Actors -> Points] /\ pc' = [pc EXCEPT ![a] = point]
    BY <1>b DEF TypeOK, Points, Goto
  <2>2. ASSUME NEW S
        PROVE  /\ At(S)' \ {a} = At(S) \ {a}
               /\ a \in At(S) <=> pc[a] \in S
               /\ a \in At(S)' <=> point \in S
               /\ IsFiniteSet(At(S))
    BY <2>1, ActorsFinite, FS_Subset DEF At
  <2>3. Posting' = Posting + (IF pc[a] \in {"post"} THEN 0 ELSE 1)
                           - (IF point \in {"post"} THEN 0 ELSE 1)
    BY <2>2, CountMove
  <2>4. Waiting' = Waiting + (IF pc[a] \in Registered THEN 0 ELSE 1)
                           - (IF point \in Registered THEN 0 ELSE 1)
    BY <2>2, CountMove DEF Registered
  <2>5. QED
    BY <2>3, <2>4
<1> HIDE DEF Posting, Waiting
<1>c. CountInv <=> /\ wait + sem + Posting = Waiting + stale
                   /\ ~lost => stale >= 0
  BY DEF CountInv, TokenAccounting, Posting, Waiting
<1>d. CountInv' <=> /\ wait' + sem' + Posting' = Waiting' + stale'
                    /\ ~lost' => stale' >= 0
  BY DEF CountInv, TokenAccounting, Posting, Waiting
<1> USE <1>a, <1>c, <1>d, ProcsAssumption DEF TypeOK, Actors, Registered, history
<1>1. ASSUME NEW p \in Procs, Trylock(p) PROVE CountInv'
  BY <1>1, <1>b DEF Trylock
<1>2. ASSUME NEW p \in Procs, Lock(p) PROVE CountInv'
  BY <1>2, <1>b DEF Lock
<1>3. ASSUME NEW p \in Procs, Attempt(p) PROVE CountInv'
  BY <1>3, <1>b DEF Attempt
<1>4. ASSUME NEW p \in Procs, Register(p) PROVE CountInv'
  BY <1>4, <1>b DEF Register
<1>5. ASSUME NEW p \in Procs, Reattempt(p) PROVE CountInv'
  BY <1>5, <1>b DEF Reattempt
<1>6. ASSUME NEW p \in Procs, Unregister(p) PROVE CountInv'
  BY <1>6, <1>b DEF Unregister
<1>7. ASSUME NEW p \in Procs, SemWait(p) PROVE CountInv'
  BY <1>7, <1>b DEF SemWait
<1>8. ASSUME NEW p \in Procs, SemWaitFails(p) PROVE CountInv'
  BY <1>8, <1>b DEF SemWaitFails
<1>9. ASSUME NEW p \in Procs, Unlock(p) PROVE CountInv'
  BY <1>9, <1>b DEF Unlock, Release
<1>10. ASSUME NEW a \in Actors, WakeRead(a) PROVE CountInv'
  BY <1>10, <1>b DEF WakeRead
<1>11. ASSUME NEW a \in Actors, WakeCas(a) PROVE CountInv'
  BY <1>11, <1>b DEF WakeCas
<1>12. ASSUME NEW a \in Actors, WakePost(a) PROVE CountInv'
  BY <1>12, <1>b DEF WakePost
<1>13. ASSUME NEW p \in Procs, Kill(p) PROVE CountInv'
  <2>1. /\ Posting' = Posting - (IF pc[p] = "post" THEN 1 ELSE 0)
        /\ Waiting' = Waiting - (IF pc[p] \in Registered THEN 1 ELSE 0)
    BY <1>13, <1>b DEF Kill
  <2>2. lost' = (lost \/ pc[p] \in Active)
    BY <1>13 DEF Kill
  <2>3. CASE pc[p] \in Registered
    BY <1>13, <2>1, <2>2, <2>3 DEF Kill
  <2>4. CASE pc[p] = "post"
    <3>1. lost' = TRUE
      BY <2>2, <2>4, Zenon DEF Active
    <3>2. stale' = stale - 1 /\ wait' = wait /\ sem' = sem
      BY <1>13, <2>4 DEF Kill
    <3>3. wait' + sem' + Posting' = Waiting' + stale'
      BY <2>1, <2>4, <3>2
    <3>4. QED
      BY <3>1, <3>3
  <2>5. CASE pc[p] \notin Registered /\ pc[p] # "post"
    BY <1>13, <2>1, <2>2, <2>5 DEF Kill
  <2>6. QED
    BY <2>3, <2>4, <2>5
<1>14. ASSUME NEW p \in Procs, Reap(p) PROVE CountInv'
  BY <1>14, <1>b DEF Reap
<1>15. CASE ForceUnlock
  <2>1. \E point : Goto(Master, point) /\ point \in {"read", "idle"}
    BY <1>15 DEF ForceUnlock, Release
  <2>2. Posting' = Posting /\ Waiting' = Waiting
    BY <1>15, <1>b, <2>1 DEF ForceUnlock
  <2>3. QED
    BY <1>15, <2>2 DEF ForceUnlock
<1>16. CASE Respawn
  BY <1>16, <1>b DEF Respawn, LockInv
<1>17. CASE UNCHANGED vars
  BY <1>17 DEF vars, CountInv, TokenAccounting, At
<1>18. QED
  BY <1>1, <1>2, <1>3, <1>4, <1>5, <1>6, <1>7, <1>8,
     <1>9, <1>10, <1>11, <1>12, <1>13, <1>14, <1>15, <1>16, <1>17
     DEF Next, Worker, Reaper, Wakeup

\* The wait counter, the semaphore and the wakeups under way always account
\* for every process registered in ngx_shmtx_lock(), although *mtx->wait is
\* changed without the lock by lock, unlock and the master's force_unlock.
THEOREM TokensCounted == Spec => []TokenAccounting
<1>1. CountInv => TokenAccounting
  BY DEF CountInv
<1>2. QED
  BY <1>1, TypeInit, TypeStep, LockInit, LockStep, CountInit, CountStep, PTL
     DEF Spec

-----------------------------------------------------------------------------
\* A wakeup that finds *mtx->wait <= 0 may leave without posting: if somebody
\* sleeps, another wakeup is posted or about to be.
LEMMA WakeReadEnough ==
    ASSUME TypeOK, CountInv, ~lost, wait <= 0, At({"sleep"}) # {}
    PROVE  sem > 0 \/ At({"post"}) # {}
<1> DEFINE Posting == Cardinality(At({"post"}))
           Waiting == Cardinality(At(Registered))
<1>1. IsFiniteSet(At({"post"})) /\ IsFiniteSet(At(Registered))
  BY ActorsFinite, FS_Subset DEF At
<1>2. At(Registered) # {}
  BY DEF At, Registered
<1>3. Waiting \in Nat /\ Posting \in Nat /\ Waiting # 0
  BY <1>1, <1>2, FS_CardinalityType, FS_EmptySet
<1>4. Posting # 0 => At({"post"}) # {}
  BY FS_EmptySet
<1>5. wait + sem + Posting = Waiting + stale /\ stale >= 0
  BY DEF CountInv, TokenAccounting
<1> HIDE DEF Posting, Waiting
<1>6. sem > 0 \/ Posting # 0
  BY <1>3, <1>5 DEF TypeOK
<1>7. QED
  BY <1>4, <1>6

\* Sleepers are never forgotten.
LEMMA SleepInit == Init => SleepInv
  BY DEF Init, SleepInv, NoLostWakeup, At

LEMMA SleepStep ==
    TypeOK /\ LockInv /\ CountInv /\ SleepInv /\ [Next]_vars => SleepInv'
<1> SUFFICES ASSUME TypeOK, LockInv, CountInv, SleepInv, [Next]_vars
             PROVE  SleepInv'
  OBVIOUS
<1> USE ProcsAssumption
        DEF TypeOK, LockInv, SleepInv, NoLostWakeup, At, Goto, Actors, Active,
            Holding, history
<1>1. ASSUME NEW p \in Procs, Trylock(p) PROVE SleepInv'
  BY <1>1 DEF Trylock
<1>2. ASSUME NEW p \in Procs, Lock(p) PROVE SleepInv'
  BY <1>2 DEF Lock
<1>3. ASSUME NEW p \in Procs, Attempt(p) PROVE SleepInv'
  BY <1>3 DEF Attempt
<1>4. ASSUME NEW p \in Procs, Register(p) PROVE SleepInv'
  BY <1>4 DEF Register
<1>5. ASSUME NEW p \in Procs, Reattempt(p) PROVE SleepInv'
  BY <1>5 DEF Reattempt
<1>6. ASSUME NEW p \in Procs, Unregister(p) PROVE SleepInv'
  BY <1>6 DEF Unregister
<1>7. ASSUME NEW p \in Procs, SemWait(p) PROVE SleepInv'
  BY <1>7 DEF SemWait
<1>8. ASSUME NEW p \in Procs, SemWaitFails(p) PROVE SleepInv'
  BY <1>8 DEF SemWaitFails
<1>9. ASSUME NEW p \in Procs, Unlock(p) PROVE SleepInv'
  BY <1>9 DEF Unlock, Release
<1>10. ASSUME NEW a \in Actors, WakeRead(a) PROVE SleepInv'
  <2>1. CASE wait > 0
    BY <1>10, <2>1 DEF WakeRead
  <2>2. CASE wait <= 0
    <3>1. ~lost /\ At({"sleep"}) # {} => sem > 0 \/ At({"post"}) # {}
      BY <2>2, WakeReadEnough
    <3>2. QED
      BY <1>10, <2>2, <3>1 DEF WakeRead
  <2>3. QED
    BY <2>1, <2>2
<1>11. ASSUME NEW a \in Actors, WakeCas(a) PROVE SleepInv'
  BY <1>11 DEF WakeCas
<1>12. ASSUME NEW a \in Actors, WakePost(a) PROVE SleepInv'
  BY <1>12 DEF WakePost
<1>13. ASSUME NEW p \in Procs, Kill(p) PROVE SleepInv'
  BY <1>13 DEF Kill
<1>14. ASSUME NEW p \in Procs, Reap(p) PROVE SleepInv'
  BY <1>14 DEF Reap
<1>15. CASE ForceUnlock
  BY <1>15 DEF ForceUnlock, Release
<1>16. CASE Respawn
  BY <1>16 DEF Respawn
<1>17. CASE UNCHANGED vars
  BY <1>17 DEF vars
<1>18. QED
  BY <1>1, <1>2, <1>3, <1>4, <1>5, <1>6, <1>7, <1>8,
     <1>9, <1>10, <1>11, <1>12, <1>13, <1>14, <1>15, <1>16, <1>17
     DEF Next, Worker, Reaper, Wakeup

\* No wakeup is lost: a free mutex with a sleeper has a wakeup posted or a
\* process under way that will take the mutex or post one, unless a process
\* was killed in the middle of the mutex code (ngx_shmtx_lock, _wakeup).
THEOREM NoWakeupLost == Spec => []NoLostWakeup
<1>1. SleepInv => NoLostWakeup
  BY DEF SleepInv
<1>2. QED
  BY <1>1, TypeInit, TypeStep, LockInit, LockStep, CountInit, CountStep,
     SleepInit, SleepStep, PTL DEF Spec

-----------------------------------------------------------------------------
\* Every step of the code is a step of the abstract mutex or leaves it alone.
LEMMA AbstractStep ==
    TypeOK /\ LockInv /\ [Next]_vars => [Abstract!Next]_(Abstract!vars)
<1> SUFFICES ASSUME TypeOK, LockInv, [Next]_vars
             PROVE  Abstract!Next \/ UNCHANGED Abstract!vars
  OBVIOUS
<1> USE ProcsAssumption
        DEF TypeOK, LockInv, Goto, Actors, Holding, history, Abstract!vars
<1>1. ASSUME NEW p \in Procs, Trylock(p)
      PROVE  Abstract!Next \/ UNCHANGED Abstract!vars
  BY <1>1 DEF Trylock, Abstract!Next, Abstract!Acquire
<1>2. ASSUME NEW p \in Procs, Lock(p)
      PROVE  Abstract!Next \/ UNCHANGED Abstract!vars
  BY <1>2 DEF Lock
<1>3. ASSUME NEW p \in Procs, Attempt(p)
      PROVE  Abstract!Next \/ UNCHANGED Abstract!vars
  BY <1>3 DEF Attempt, Abstract!Next, Abstract!Acquire
<1>4. ASSUME NEW p \in Procs, Register(p)
      PROVE  Abstract!Next \/ UNCHANGED Abstract!vars
  BY <1>4 DEF Register
<1>5. ASSUME NEW p \in Procs, Reattempt(p)
      PROVE  Abstract!Next \/ UNCHANGED Abstract!vars
  BY <1>5 DEF Reattempt, Abstract!Next, Abstract!Acquire
<1>6. ASSUME NEW p \in Procs, Unregister(p)
      PROVE  Abstract!Next \/ UNCHANGED Abstract!vars
  BY <1>6 DEF Unregister
<1>7. ASSUME NEW p \in Procs, SemWait(p)
      PROVE  Abstract!Next \/ UNCHANGED Abstract!vars
  BY <1>7 DEF SemWait
<1>8. ASSUME NEW p \in Procs, SemWaitFails(p)
      PROVE  Abstract!Next \/ UNCHANGED Abstract!vars
  BY <1>8 DEF SemWaitFails
<1>9. ASSUME NEW p \in Procs, Unlock(p)
      PROVE  Abstract!Next \/ UNCHANGED Abstract!vars
  BY <1>9 DEF Unlock, Release, Abstract!Next, Abstract!Release
<1>10. ASSUME NEW a \in Actors, WakeRead(a)
      PROVE  Abstract!Next \/ UNCHANGED Abstract!vars
  BY <1>10 DEF WakeRead
<1>11. ASSUME NEW a \in Actors, WakeCas(a)
      PROVE  Abstract!Next \/ UNCHANGED Abstract!vars
  BY <1>11 DEF WakeCas
<1>12. ASSUME NEW a \in Actors, WakePost(a)
      PROVE  Abstract!Next \/ UNCHANGED Abstract!vars
  BY <1>12 DEF WakePost
<1>13. ASSUME NEW p \in Procs, Kill(p)
      PROVE  Abstract!Next \/ UNCHANGED Abstract!vars
  BY <1>13 DEF Kill, Abstract!Next, Abstract!Die
<1>14. ASSUME NEW p \in Procs, Reap(p)
      PROVE  Abstract!Next \/ UNCHANGED Abstract!vars
  BY <1>14 DEF Reap
<1>15. CASE ForceUnlock
  BY <1>15 DEF ForceUnlock, Release, Abstract!Next, Abstract!Recover
<1>16. CASE Respawn
  BY <1>16 DEF Respawn, Abstract!Next, Abstract!Restart
<1>17. CASE UNCHANGED vars
  BY <1>17 DEF vars
<1>18. QED
  BY <1>1, <1>2, <1>3, <1>4, <1>5, <1>6, <1>7, <1>8,
     <1>9, <1>10, <1>11, <1>12, <1>13, <1>14, <1>15, <1>16, <1>17
     DEF Next, Worker, Reaper, Wakeup

\* The lock word implements the abstract crash-recoverable mutex: it changes
\* hands only through 0, is taken from a live holder by nobody else, and a
\* worker is respawned only after its dead predecessor's lock was released
\* (ngx_shmtx.c with ngx_unlock_mutexes and ngx_reap_children).
THEOREM MutexRefinement == Spec => ImplementsMutex
<1>1. Init => Abstract!Init
  BY ProcsAssumption DEF Init, Abstract!Init, Actors
<1>2. QED
  BY <1>1, TypeInit, TypeStep, LockInit, LockStep, AbstractStep, PTL
     DEF Spec, ImplementsMutex, Abstract!Spec

=============================================================================
