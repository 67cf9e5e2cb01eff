------------------------- MODULE AcceptMutexProofs -------------------------
(***************************************************************************)
(* Proofs about the accept mutex and the event cycle, for any workers,     *)
(* sockets and configurations, and any bounds.                             *)
(*                                                                         *)
(* AcceptPhase is not inductive.  CycleOK adds what the cycle relies on:   *)
(* the owner of the mutex has the flag ngx_accept_mutex_held set, except   *)
(* between the trylock and the adding of the events; a worker that could   *)
(* not lock does not post its events; and without the mutex the flag is    *)
(* never set, with it no timer of a listening socket is.                   *)
(***************************************************************************)
EXTENDS AcceptMutex, TLAPS

CycleOK ==
    /\ \A w \in Procs :
          /\ lock = w => held[w] \/ pc[w] \in {"enable", "dead"}
          /\ pc[w] = "enable" => lock = w /\ UseMutex
          /\ pc[w] = "delay" => ~post[w]
          /\ ~UseMutex => ~held[w]
          /\ UseMutex => timers[w] = {}

AcceptInv == TypeOK /\ AcceptPhase /\ CycleOK

\* The sockets a worker listens on are sockets, and so is every socket it
\* watches after ngx_event_process_init().
LEMMA ListeningSockets ==
    ASSUME NEW w \in Procs
    PROVE  /\ Listening(w) \subseteq Sockets /\ InitActive(w) \subseteq Sockets
           /\ None \notin Sockets /\ Shared \subseteq Sockets
  BY SocketsAssumption DEF Listening, InitActive, Sockets

\* The initial state is well typed, and every step keeps it so.
LEMMA AcceptTypeInit == Init => TypeOK
<1> SUFFICES ASSUME Init PROVE TypeOK
  OBVIOUS
<1>1. \A w \in Procs : InitActive(w) \in SUBSET Sockets
  BY ListeningSockets
<1>2. QED
  BY <1>1, SocketsAssumption, LimitsAssumption DEF Init, TypeOK, Points

LEMMA AcceptTypeStep == TypeOK /\ [Next]_vars => TypeOK'
<1> SUFFICES ASSUME TypeOK, [Next]_vars PROVE TypeOK'
  OBVIOUS
<1> USE SocketsAssumption, LimitsAssumption, ListeningSockets
    DEF TypeOK, Points, Set, Goto, NoFault, Fault, shared, local, bounds
<1>1. ASSUME NEW w \in Procs, Plain(w) PROVE TypeOK'
  BY <1>1 DEF Plain
<1>2. ASSUME NEW w \in Procs, Skip(w) PROVE TypeOK'
  BY <1>2 DEF Skip
<1>3. ASSUME NEW w \in Procs, Trylock(w) PROVE TypeOK'
  BY <1>3 DEF Trylock
<1>4. ASSUME NEW w \in Procs, Enable(w) PROVE TypeOK'
  BY <1>4 DEF Enable
<1>5. ASSUME NEW w \in Procs, EnableFails(w) PROVE TypeOK'
  BY <1>5 DEF EnableFails, Unlocked
<1>6. ASSUME NEW w \in Procs, TrylockFails(w) PROVE TypeOK'
  BY <1>6 DEF TrylockFails
<1>7. ASSUME NEW w \in Procs, DisableFails(w) PROVE TypeOK'
  BY <1>7 DEF DisableFails
<1>8. ASSUME NEW w \in Procs, Wait(w) PROVE TypeOK'
  BY <1>8 DEF Wait, Events
<1>9. ASSUME NEW w \in Procs, Dispatch(w) PROVE TypeOK'
  BY <1>9 DEF Dispatch, Call
<1>10. ASSUME NEW w \in Procs, RunPosted(w) PROVE TypeOK'
  BY <1>10 DEF RunPosted, Call
<1>11. ASSUME NEW w \in Procs, Release(w) PROVE TypeOK'
  BY <1>11 DEF Release, Unlocked
<1>12. ASSUME NEW w \in Procs, NotReady(w) PROVE TypeOK'
  BY <1>12 DEF NotReady, Return
<1>13. ASSUME NEW w \in Procs, Aborted(w) PROVE TypeOK'
  BY <1>13 DEF Aborted, Taken, LoopOrReturn, Return
<1>14. ASSUME NEW w \in Procs, Accept(w) PROVE TypeOK'
  <2>1. /\ backlog' \in [Sockets -> Nat]
        /\ disabled' \in [Procs -> Int]
        /\ free' \in [Procs -> 0..FreeN]
    BY <1>14 DEF Accept, Taken
  <2>2. /\ pc' \in [Procs -> Points]
        /\ cur' \in [Procs -> Sockets \cup {None}]
        /\ from' = from
        /\ \A v \in Procs : pc'[v] = "accept" => cur'[v] # None
    BY <1>14 DEF Accept, LoopOrReturn, Return
  <2>3. QED
    BY <1>14, <2>1, <2>2 DEF Accept
<1>15. ASSUME NEW w \in Procs, ReorderFails(w) PROVE TypeOK'
  BY <1>15 DEF ReorderFails, Taken, Return
<1>16. ASSUME NEW w \in Procs, Emfile(w) PROVE TypeOK'
  <2>1. lock' \in Procs \cup {Free} /\ held' \in [Procs -> BOOLEAN]
    <3>1. CASE UseMutex
      BY <1>16, <3>1 DEF Emfile, Unlocked
    <3>2. CASE ~UseMutex
      BY <1>16, <3>2 DEF Emfile
    <3>3. QED
      BY <3>1, <3>2
  <2>2. disabled' \in [Procs -> Int] /\ timers' \in [Procs -> SUBSET Sockets]
    BY <1>16 DEF Emfile
  <2>3. /\ pc' \in [Procs -> Points]
        /\ cur' \in [Procs -> Sockets \cup {None}]
        /\ from' = from
        /\ \A v \in Procs : pc'[v] = "accept" => cur'[v] # None
    BY <1>16 DEF Emfile, Return
  <2>4. QED
    BY <1>16, <2>1, <2>2, <2>3 DEF Emfile
<1>17. ASSUME NEW w \in Procs, EmfileDisableFails(w) PROVE TypeOK'
  BY <1>17 DEF EmfileDisableFails, Return
<1>18. ASSUME NEW w \in Procs, Expire(w) PROVE TypeOK'
  BY <1>18 DEF Expire, Call
<1>19. ASSUME NEW w \in Procs, ExpireFails(w) PROVE TypeOK'
  BY <1>19 DEF ExpireFails
<1>20. ASSUME NEW w \in Procs, Close(w) PROVE TypeOK'
  BY <1>20 DEF Close
<1>21. ASSUME NEW w \in Procs, EndCycle(w) PROVE TypeOK'
  BY <1>21 DEF EndCycle
<1>22. ASSUME NEW w \in Procs, Quit(w) PROVE TypeOK'
  BY <1>22 DEF Quit
<1>23. ASSUME NEW w \in Procs, Kill(w) PROVE TypeOK'
  BY <1>23 DEF Kill
<1>24. ASSUME NEW w \in Procs, Reap(w) PROVE TypeOK'
  BY <1>24 DEF Reap
<1>25. ASSUME NEW w \in Procs, Respawn(w) PROVE TypeOK'
  BY <1>25 DEF Respawn
<1>26. ASSUME NEW l \in Sockets, Connect(l) PROVE TypeOK'
  BY <1>26 DEF Connect
<1>27. CASE UNCHANGED vars
  BY <1>27 DEF vars
<1>28. QED
  BY <1>1, <1>2, <1>3, <1>4, <1>5, <1>6, <1>7, <1>8, <1>9, <1>10, <1>11, <1>12,
     <1>13, <1>14, <1>15, <1>16, <1>17, <1>18, <1>19, <1>20, <1>21, <1>22, <1>23,
     <1>24, <1>25, <1>26, <1>27
     DEF Next, Step, Failure

\* The cycle starts with the mutex free and no flag set.
LEMMA AcceptPhaseInit == Init => AcceptPhase /\ CycleOK
<1> SUFFICES ASSUME Init PROVE AcceptPhase /\ CycleOK
  OBVIOUS
<1>1. UseMutex => \A w \in Procs : InitActive(w) \cap Shared = {}
  BY DEF InitActive
<1>2. QED
  BY <1>1, SocketsAssumption
     DEF Init, AcceptPhase, LockCovers, LockScope, HeldIsWatching, CycleOK

\* Every step keeps the mutex with the worker that is in the accept phase,
\* and the flag in agreement with what the worker watches.
LEMMA AcceptPhaseStep ==
    TypeOK /\ AcceptPhase /\ CycleOK /\ [Next]_vars => AcceptPhase' /\ CycleOK'
<1> SUFFICES ASSUME TypeOK, AcceptPhase, CycleOK, [Next]_vars
             PROVE  AcceptPhase' /\ CycleOK'
  OBVIOUS
<1> USE SocketsAssumption
    DEF TypeOK, AcceptPhase, LockCovers, LockScope, HeldIsWatching, CycleOK, UseMutex,
        Set, Goto, NoFault, Fault, shared, local, bounds
<1>1. ASSUME NEW w \in Procs, Plain(w) PROVE AcceptPhase' /\ CycleOK'
  BY <1>1 DEF Plain
<1>2. ASSUME NEW w \in Procs, Skip(w) PROVE AcceptPhase' /\ CycleOK'
  BY <1>2 DEF Skip
<1>3. ASSUME NEW w \in Procs, Trylock(w) PROVE AcceptPhase' /\ CycleOK'
  BY <1>3 DEF Trylock
<1>4. ASSUME NEW w \in Procs, Enable(w) PROVE AcceptPhase' /\ CycleOK'
  BY <1>4 DEF Enable
<1>5. ASSUME NEW w \in Procs, EnableFails(w) PROVE AcceptPhase' /\ CycleOK'
  BY <1>5 DEF EnableFails, Unlocked
<1>6. ASSUME NEW w \in Procs, TrylockFails(w) PROVE AcceptPhase' /\ CycleOK'
  BY <1>6 DEF TrylockFails
<1>7. ASSUME NEW w \in Procs, DisableFails(w) PROVE AcceptPhase' /\ CycleOK'
  BY <1>7 DEF DisableFails
<1>8. ASSUME NEW w \in Procs, Wait(w) PROVE AcceptPhase' /\ CycleOK'
  BY <1>8 DEF Wait, Events
<1>9. ASSUME NEW w \in Procs, Dispatch(w) PROVE AcceptPhase' /\ CycleOK'
  <2>1. /\ UNCHANGED <<lock, held, active, post, timers, faulty, conf>>
        /\ \A v \in Procs : \/ pc'[v] = pc[v] /\ from'[v] = from[v]
                            \/ v = w /\ pc'[v] = "accept" /\ from'[v] = "batch"
    BY <1>9 DEF Dispatch, Call
  <2>2. lock # w /\ pc[w] = "batch"
    BY <1>9 DEF Dispatch
  <2>3. QED
    BY <1>9, <2>1, <2>2
<1>10. ASSUME NEW w \in Procs, RunPosted(w) PROVE AcceptPhase' /\ CycleOK'
  BY <1>10 DEF RunPosted, Call
<1>11. ASSUME NEW w \in Procs, Release(w) PROVE AcceptPhase' /\ CycleOK'
  BY <1>11 DEF Release, Unlocked
<1>12. ASSUME NEW w \in Procs, NotReady(w) PROVE AcceptPhase' /\ CycleOK'
  BY <1>12 DEF NotReady, Return
<1>13. ASSUME NEW w \in Procs, Aborted(w) PROVE AcceptPhase' /\ CycleOK'
  BY <1>13 DEF Aborted, Taken, LoopOrReturn, Return
<1>14. ASSUME NEW w \in Procs, Accept(w) PROVE AcceptPhase' /\ CycleOK'
  BY <1>14 DEF Accept, Taken, LoopOrReturn, Return
<1>15. ASSUME NEW w \in Procs, ReorderFails(w) PROVE AcceptPhase' /\ CycleOK'
  BY <1>15 DEF ReorderFails, Taken, Return
<1>16. ASSUME NEW w \in Procs, Emfile(w) PROVE AcceptPhase' /\ CycleOK'
  BY <1>16 DEF Emfile, Return, Unlocked
<1>17. ASSUME NEW w \in Procs, EmfileDisableFails(w) PROVE AcceptPhase' /\ CycleOK'
  BY <1>17 DEF EmfileDisableFails, Return
<1>18. ASSUME NEW w \in Procs, Expire(w) PROVE AcceptPhase' /\ CycleOK'
  BY <1>18 DEF Expire, Call
<1>19. ASSUME NEW w \in Procs, ExpireFails(w) PROVE AcceptPhase' /\ CycleOK'
  BY <1>19 DEF ExpireFails
<1>20. ASSUME NEW w \in Procs, Close(w) PROVE AcceptPhase' /\ CycleOK'
  BY <1>20 DEF Close
<1>21. ASSUME NEW w \in Procs, EndCycle(w) PROVE AcceptPhase' /\ CycleOK'
  BY <1>21 DEF EndCycle
<1>22. ASSUME NEW w \in Procs, Quit(w) PROVE AcceptPhase' /\ CycleOK'
  BY <1>22 DEF Quit
<1>23. ASSUME NEW w \in Procs, Kill(w) PROVE AcceptPhase' /\ CycleOK'
  BY <1>23 DEF Kill
<1>24. ASSUME NEW w \in Procs, Reap(w) PROVE AcceptPhase' /\ CycleOK'
  BY <1>24 DEF Reap
<1>25. ASSUME NEW w \in Procs, Respawn(w) PROVE AcceptPhase' /\ CycleOK'
  BY <1>25 DEF Respawn, InitActive
<1>26. ASSUME NEW l \in Sockets, Connect(l) PROVE AcceptPhase' /\ CycleOK'
  BY <1>26 DEF Connect
<1>27. CASE UNCHANGED vars
  BY <1>27 DEF vars
<1>28. QED
  BY <1>1, <1>2, <1>3, <1>4, <1>5, <1>6, <1>7, <1>8, <1>9, <1>10, <1>11, <1>12,
     <1>13, <1>14, <1>15, <1>16, <1>17, <1>18, <1>19, <1>20, <1>21, <1>22, <1>23,
     <1>24, <1>25, <1>26, <1>27
     DEF Next, Step, Failure

\* Every variable keeps its type; in particular ngx_event_accept() always
\* runs for a socket, and no worker takes a connection it does not have.
THEOREM AcceptTypeCorrect == Spec => []TypeOK
  BY AcceptTypeInit, AcceptTypeStep, PTL DEF Spec

\* The inductive invariant holds in every reachable state.
LEMMA AcceptInvariant == Spec => []AcceptInv
<1>1. Init => AcceptInv
  BY AcceptTypeInit, AcceptPhaseInit DEF AcceptInv
<1>2. AcceptInv /\ [Next]_vars => AcceptInv'
  BY AcceptTypeStep, AcceptPhaseStep DEF AcceptInv
<1>3. QED
  BY <1>1, <1>2, PTL DEF Spec

\* The mutex covers the accept phase and only that phase, for every worker
\* and through every error path, death and restart, and as long as no
\* epoll_ctl() fails ngx_accept_mutex_held says what the worker watches.
THEOREM AcceptPhaseHolds == Spec => []AcceptPhase
<1>1. AcceptInv => AcceptPhase
  BY DEF AcceptInv
<1>2. QED
  BY <1>1, AcceptInvariant, PTL

-----------------------------------------------------------------------------
\* The workers that died, as the abstract mutex sees them.
DeadSet == {w \in Procs : pc[w] = "dead"}

\* A step of the event cycle is a step of the abstract mutex or leaves both
\* its variables alone.
LEMMA MutexStep ==
    AcceptInv /\ [Next]_vars => [Mutex!Next]_(Mutex!vars)
<1> SUFFICES ASSUME AcceptInv, [Next]_vars PROVE [Mutex!Next]_(Mutex!vars)
  OBVIOUS
<1> USE SocketsAssumption
    DEF AcceptInv, TypeOK, Points, Set, Goto, NoFault, Fault, shared, local, bounds
<1> DEFINE Quiet == lock' = lock /\ DeadSet' = DeadSet
<1>a. Quiet => [Mutex!Next]_(Mutex!vars)
  BY DEF Mutex!vars, DeadSet
<1>b. ASSUME NEW w \in Procs, lock = w, lock' = Free, pc[w] # "dead", DeadSet' = DeadSet
      PROVE  Mutex!Next
  BY <1>b DEF Mutex!Next, Mutex!Release, DeadSet
<1>1. ASSUME NEW w \in Procs, Plain(w) PROVE [Mutex!Next]_(Mutex!vars)
  <2>1. Quiet
    BY <1>1 DEF Plain, DeadSet
  <2>2. QED
    BY <1>a, <2>1
<1>2. ASSUME NEW w \in Procs, Skip(w) PROVE [Mutex!Next]_(Mutex!vars)
  <2>1. Quiet
    BY <1>2 DEF Skip, DeadSet
  <2>2. QED
    BY <1>a, <2>1
<1>3. ASSUME NEW w \in Procs, Trylock(w) PROVE [Mutex!Next]_(Mutex!vars)
  <2>1. Mutex!Acquire(w)
    BY <1>3 DEF Trylock, Mutex!Acquire
  <2>2. QED
    BY <2>1 DEF Mutex!Next
<1>4. ASSUME NEW w \in Procs, Enable(w) PROVE [Mutex!Next]_(Mutex!vars)
  <2>1. Quiet
    BY <1>4 DEF Enable, DeadSet
  <2>2. QED
    BY <1>a, <2>1
<1>5. ASSUME NEW w \in Procs, EnableFails(w) PROVE [Mutex!Next]_(Mutex!vars)
  <2>1. DeadSet' = DeadSet /\ pc[w] # "dead"
    BY <1>5 DEF EnableFails, DeadSet
  <2>2. lock' = lock \/ (lock = w /\ lock' = Free)
    BY <1>5 DEF EnableFails, Unlocked
  <2>3. QED
    BY <1>a, <1>b, <2>1, <2>2
<1>6. ASSUME NEW w \in Procs, TrylockFails(w) PROVE [Mutex!Next]_(Mutex!vars)
  <2>1. Quiet
    BY <1>6 DEF TrylockFails, DeadSet
  <2>2. QED
    BY <1>a, <2>1
<1>7. ASSUME NEW w \in Procs, DisableFails(w) PROVE [Mutex!Next]_(Mutex!vars)
  <2>1. Quiet
    BY <1>7 DEF DisableFails, DeadSet
  <2>2. QED
    BY <1>a, <2>1
<1>8. ASSUME NEW w \in Procs, Wait(w) PROVE [Mutex!Next]_(Mutex!vars)
  <2>1. Quiet
    BY <1>8 DEF Wait, DeadSet, Events
  <2>2. QED
    BY <1>a, <2>1
<1>9. ASSUME NEW w \in Procs, Dispatch(w) PROVE [Mutex!Next]_(Mutex!vars)
  <2>1. Quiet
    BY <1>9 DEF Dispatch, DeadSet, Call
  <2>2. QED
    BY <1>a, <2>1
<1>10. ASSUME NEW w \in Procs, RunPosted(w) PROVE [Mutex!Next]_(Mutex!vars)
  <2>1. Quiet
    BY <1>10 DEF RunPosted, DeadSet, Call
  <2>2. QED
    BY <1>a, <2>1
<1>11. ASSUME NEW w \in Procs, Release(w) PROVE [Mutex!Next]_(Mutex!vars)
  <2>1. DeadSet' = DeadSet /\ pc[w] # "dead"
    BY <1>11 DEF Release, DeadSet
  <2>2. lock' = lock \/ (lock = w /\ lock' = Free)
    BY <1>11 DEF Release, Unlocked
  <2>3. QED
    BY <1>a, <1>b, <2>1, <2>2
<1>12. ASSUME NEW w \in Procs, NotReady(w) PROVE [Mutex!Next]_(Mutex!vars)
  <2>1. Quiet
    BY <1>12 DEF NotReady, DeadSet, Return
  <2>2. QED
    BY <1>a, <2>1
<1>13. ASSUME NEW w \in Procs, Aborted(w) PROVE [Mutex!Next]_(Mutex!vars)
  <2>1. Quiet
    BY <1>13 DEF Aborted, DeadSet, Taken, LoopOrReturn, Return
  <2>2. QED
    BY <1>a, <2>1
<1>14. ASSUME NEW w \in Procs, Accept(w) PROVE [Mutex!Next]_(Mutex!vars)
  <2>1. Quiet
    BY <1>14 DEF Accept, DeadSet, Taken, LoopOrReturn, Return
  <2>2. QED
    BY <1>a, <2>1
<1>15. ASSUME NEW w \in Procs, ReorderFails(w) PROVE [Mutex!Next]_(Mutex!vars)
  <2>1. Quiet
    BY <1>15 DEF ReorderFails, DeadSet, Taken, Return
  <2>2. QED
    BY <1>a, <2>1
<1>16. ASSUME NEW w \in Procs, Emfile(w) PROVE [Mutex!Next]_(Mutex!vars)
  <2>1. DeadSet' = DeadSet /\ pc[w] # "dead"
    BY <1>16 DEF Emfile, DeadSet, Return
  <2>2. lock' = lock \/ (lock = w /\ lock' = Free)
    BY <1>16 DEF Emfile, Unlocked
  <2>3. QED
    BY <1>a, <1>b, <2>1, <2>2
<1>17. ASSUME NEW w \in Procs, EmfileDisableFails(w) PROVE [Mutex!Next]_(Mutex!vars)
  <2>1. Quiet
    BY <1>17 DEF EmfileDisableFails, DeadSet, Return
  <2>2. QED
    BY <1>a, <2>1
<1>18. ASSUME NEW w \in Procs, Expire(w) PROVE [Mutex!Next]_(Mutex!vars)
  <2>1. Quiet
    BY <1>18 DEF Expire, DeadSet, Call
  <2>2. QED
    BY <1>a, <2>1
<1>19. ASSUME NEW w \in Procs, ExpireFails(w) PROVE [Mutex!Next]_(Mutex!vars)
  <2>1. Quiet
    BY <1>19 DEF ExpireFails, DeadSet
  <2>2. QED
    BY <1>a, <2>1
<1>20. ASSUME NEW w \in Procs, Close(w) PROVE [Mutex!Next]_(Mutex!vars)
  <2>1. Quiet
    BY <1>20 DEF Close, DeadSet
  <2>2. QED
    BY <1>a, <2>1
<1>21. ASSUME NEW w \in Procs, EndCycle(w) PROVE [Mutex!Next]_(Mutex!vars)
  <2>1. Quiet
    BY <1>21 DEF EndCycle, DeadSet
  <2>2. QED
    BY <1>a, <2>1
<1>22. ASSUME NEW w \in Procs, Quit(w) PROVE [Mutex!Next]_(Mutex!vars)
  <2>1. Quiet
    BY <1>22 DEF Quit, DeadSet
  <2>2. QED
    BY <1>a, <2>1
<1>23. ASSUME NEW w \in Procs, Kill(w) PROVE [Mutex!Next]_(Mutex!vars)
  <2>1. Mutex!Die(w)
    BY <1>23 DEF Kill, Mutex!Die
  <2>2. QED
    BY <2>1 DEF Mutex!Next
<1>24. ASSUME NEW w \in Procs, Reap(w) PROVE [Mutex!Next]_(Mutex!vars)
  <2>1. Mutex!Recover(w)
    BY <1>24 DEF Reap, Mutex!Recover
  <2>2. QED
    BY <2>1 DEF Mutex!Next
<1>25. ASSUME NEW w \in Procs, Respawn(w) PROVE [Mutex!Next]_(Mutex!vars)
  <2>1. Mutex!Restart(w)
    BY <1>25 DEF Respawn, Mutex!Restart
  <2>2. QED
    BY <2>1 DEF Mutex!Next
<1>26. ASSUME NEW l \in Sockets, Connect(l) PROVE [Mutex!Next]_(Mutex!vars)
  <2>1. Quiet
    BY <1>26 DEF Connect, DeadSet
  <2>2. QED
    BY <1>a, <2>1
<1>27. CASE UNCHANGED vars
  <2>1. Quiet
    BY <1>27 DEF vars, DeadSet
  <2>2. QED
    BY <1>a, <2>1
<1>28. QED
  BY <1>1, <1>2, <1>3, <1>4, <1>5, <1>6, <1>7, <1>8, <1>9, <1>10, <1>11, <1>12,
     <1>13, <1>14, <1>15, <1>16, <1>17, <1>18, <1>19, <1>20, <1>21, <1>22, <1>23,
     <1>24, <1>25, <1>26, <1>27
     DEF Next, Step, Failure

\* The event cycle uses its mutex as the abstract one: a worker takes it when
\* it is free, gives it back itself, and only once it is dead does the master
\* take it away, before the slot gets a new worker.
THEOREM AcceptImplementsMutex == Spec => ImplementsMutex
<1>1. Init => Mutex!Init
  BY DEF Init, Mutex!Init
<1>2. Spec => [][Mutex!Next]_(Mutex!vars)
  BY AcceptInvariant, MutexStep, PTL DEF Spec
<1>3. QED
  BY <1>1, <1>2, PTL DEF ImplementsMutex, Mutex!Spec, Spec

=============================================================================
