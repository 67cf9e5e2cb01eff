---------------------------- MODULE AcceptMutex ----------------------------
(***************************************************************************)
(* How the workers of nginx share the listening sockets: the event cycle   *)
(* of a worker (src/event/ngx_event.c, ngx_process_events_and_timers) with *)
(* the accept handler and the accept mutex (src/event/ngx_event_accept.c). *)
(*                                                                         *)
(* The mutex is the one of module Shmtx, used through trylock, unlock and  *)
(* force_unlock only; each of them is one step here.  What one worker does *)
(* between two operations on the mutex or on a socket is one step.  The    *)
(* events are those of epoll, level-triggered for listening sockets.       *)
(***************************************************************************)
EXTENDS Integers, FiniteSets

CONSTANTS
    Procs,        \* the workers
    Free,         \* the lock value 0
    None,         \* no listening socket
    Shared,       \* listening sockets every worker has
    Reuse,        \* "reuseport" listening sockets
    Owner,        \* the worker each reuseport socket belongs to
    Confs,        \* the configurations, each with mutex and multi
    ConnN,        \* worker_connections
    FreeN,        \* connections free when the worker starts
    MaxClients,   \* bound: connections that clients open
    MaxEmfile,    \* bound: accept() failures with EMFILE or ENFILE
    MaxFaults,    \* bound: epoll_ctl() failures
    MaxKills      \* bound: workers that die abnormally

ASSUME SocketsAssumption ==
    /\ IsFiniteSet(Procs) /\ Free \notin Procs
    /\ None \notin Shared \cup Reuse
    /\ Shared \cap Reuse = {}
    /\ Owner \in [Reuse -> Procs]
    /\ Confs \subseteq [mutex : BOOLEAN, multi : BOOLEAN]

ASSUME LimitsAssumption ==
    /\ ConnN \in Nat /\ FreeN \in 0..ConnN
    /\ MaxClients \in Nat /\ MaxEmfile \in Nat
    /\ MaxFaults \in Nat /\ MaxKills \in Nat

Sockets == Shared \cup Reuse

\* cycle->listening as worker w sees it: the entries with a connection.
Listening(w) == Shared \cup {l \in Reuse : Owner[l] = w}

VARIABLES
    lock,         \* ngx_accept_mutex: Free or the worker that owns it
    backlog,      \* the connections each socket has ready to be accepted
    pc,           \* the next statement of each worker
    held,         \* ngx_accept_mutex_held
    disabled,     \* ngx_accept_disabled
    active,       \* the sockets whose read event is in the worker's epoll
    post,         \* the flag NGX_POST_EVENTS of this cycle
    ready,        \* event_list: the sockets epoll_wait() reported
    posted,       \* ngx_posted_accept_events
    timers,       \* the sockets whose read event has a timer
    cur,          \* the socket ngx_event_accept() runs for
    from,         \* where ngx_event_accept() returns to
    free,         \* cycle->free_connection_n
    clients, emfiles, faults, kills,   \* counted for the bounds
    faulty,       \* history: epoll_ctl() failed in this worker
    conf          \* the configuration of the workers

shared == <<lock, backlog>>
local  == <<held, disabled, active, post, ready, posted, timers, cur, from, free>>
bounds == <<clients, emfiles, faults, kills>>
vars   == <<lock, backlog, pc, held, disabled, active, post, ready, posted,
            timers, cur, from, free, clients, emfiles, faults, kills, faulty,
            conf>>

\* ngx_use_accept_mutex, as ngx_event_process_init() sets it, and the
\* multi_accept directive.
UseMutex    == conf.mutex
MultiAccept == conf.multi

-----------------------------------------------------------------------------
(***************************************************************************)
(* The points of a worker's cycle.                                         *)
(*   top     start of ngx_process_events_and_timers()                      *)
(*   enable  the mutex is locked, the accept events are to be added        *)
(*   wait    epoll_wait() until there is an event or a timer expires       *)
(*   delay   epoll_wait() for accept_mutex_delay at most                   *)
(*   batch   the loop over event_list; handlers are called from it         *)
(*   posted  ngx_event_process_posted(&ngx_posted_accept_events)           *)
(*   accept  inside ngx_event_accept()                                     *)
(*   timers  the mutex is released: timers and the other events            *)
(*   quit    the listening sockets are closed                              *)
(*   dead    exited abnormally                                             *)
(***************************************************************************)
Points == {"top", "enable", "wait", "delay", "batch", "posted", "accept", "timers",
           "quit", "dead"}

Set(f, w, v) == [f EXCEPT ![w] = v]

Goto(w, point) == pc' = Set(pc, w, point)

\* What a worker has after ngx_event_process_init().
InitActive(w) == IF UseMutex THEN Listening(w) \ Shared ELSE Listening(w)

Init ==
    /\ conf \in Confs
    /\ lock = Free
    /\ backlog = [l \in Sockets |-> 0]
    /\ pc = [w \in Procs |-> "top"]
    /\ held = [w \in Procs |-> FALSE]
    /\ disabled = [w \in Procs |-> 0]
    /\ active = [w \in Procs |-> InitActive(w)]
    /\ post = [w \in Procs |-> FALSE]
    /\ ready = [w \in Procs |-> {}]
    /\ posted = [w \in Procs |-> {}]
    /\ timers = [w \in Procs |-> {}]
    /\ cur = [w \in Procs |-> None]
    /\ from = [w \in Procs |-> "batch"]
    /\ free = [w \in Procs |-> FreeN]
    /\ clients = 0 /\ emfiles = 0 /\ faults = 0 /\ kills = 0
    /\ faulty = [w \in Procs |-> FALSE]

\* Mutant: the unlock does not compare the pid.
UnlockedBlindly(w) == Free

\* ngx_shmtx_unlock() by w: a cmp_set of the own pid, so it does nothing
\* when w is not the owner.
Unlocked(w) == IF lock = w THEN Free ELSE lock

\* An epoll_ctl() call of w fails.
Fault(w) ==
    /\ faults < MaxFaults
    /\ faults' = faults + 1
    /\ faulty' = Set(faulty, w, TRUE)
    /\ UNCHANGED <<clients, emfiles, kills, conf>>

NoFault == UNCHANGED <<bounds, faulty, conf>>

-----------------------------------------------------------------------------
(* ngx_process_events_and_timers() up to epoll_wait(). *)

\* No mutex is used: straight to epoll_wait().
Plain(w) ==
    /\ pc[w] = "top" /\ ~UseMutex
    /\ Goto(w, "wait")
    /\ UNCHANGED <<shared, local>> /\ NoFault

\* Near its limit of connections the worker does not ask for the mutex.
Skip(w) ==
    /\ pc[w] = "top" /\ UseMutex /\ disabled[w] > 0
    /\ disabled' = Set(disabled, w, disabled[w] - 1)
    /\ post' = Set(post, w, FALSE)
    /\ Goto(w, "wait")
    /\ UNCHANGED <<shared, held, active, ready, posted, timers, cur, from, free>>
    /\ NoFault

\* ngx_trylock_accept_mutex() locks; a worker that still has its events
\* goes on, another one adds them first.
Trylock(w) ==
    /\ pc[w] = "top" /\ UseMutex /\ disabled[w] <= 0
    /\ lock = Free
    /\ lock' = w
    /\ IF held[w] THEN post' = Set(post, w, TRUE) /\ Goto(w, "wait")
                  ELSE post' = post /\ Goto(w, "enable")
    /\ UNCHANGED <<backlog, held, disabled, active, ready, posted, timers, cur,
                   from, free>>
    /\ NoFault

\* ngx_enable_accept_events() succeeds.
Enable(w) ==
    /\ pc[w] = "enable"
    /\ active' = Set(active, w, Listening(w))
    /\ held' = Set(held, w, TRUE)
    /\ post' = Set(post, w, TRUE)
    /\ Goto(w, "wait")
    /\ UNCHANGED <<shared, disabled, ready, posted, timers, cur, from, free>>
    /\ NoFault

\* It fails at some socket: the events before it stay, the cycle ends.
EnableFails(w) ==
    /\ pc[w] = "enable"
    /\ \E S \in SUBSET (Listening(w) \ active[w]) :
          /\ S # Listening(w) \ active[w]
          /\ active' = Set(active, w, active[w] \cup S)
    /\ lock' = Unlocked(w)
    /\ Goto(w, "top")
    /\ UNCHANGED <<backlog, held, disabled, post, ready, posted, timers, cur,
                   from, free>>
    /\ Fault(w)

\* The mutex is taken: the events of the shared sockets are removed, and
\* epoll_wait() is given accept_mutex_delay at most.
TrylockFails(w) ==
    /\ pc[w] = "top" /\ UseMutex /\ disabled[w] <= 0
    /\ lock # Free
    /\ active' = IF held[w] THEN Set(active, w, active[w] \ Shared) ELSE active
    /\ held' = Set(held, w, FALSE)
    /\ post' = Set(post, w, FALSE)
    /\ Goto(w, "delay")
    /\ UNCHANGED <<shared, disabled, ready, posted, timers, cur, from, free>>
    /\ NoFault

\* The removal fails half way: the flag stays set, the cycle ends.
DisableFails(w) ==
    /\ pc[w] = "top" /\ UseMutex /\ disabled[w] <= 0
    /\ lock # Free /\ held[w]
    /\ \E S \in SUBSET (active[w] \cap Shared) :
          /\ S # active[w] \cap Shared
          /\ active' = Set(active, w, active[w] \ S)
    /\ UNCHANGED <<shared, pc, held, disabled, post, ready, posted, timers, cur,
                   from, free>>
    /\ Fault(w)

-----------------------------------------------------------------------------
(* epoll_wait() and the handlers. *)

\* The listening sockets epoll reports.
Events(w) == {l \in active[w] : backlog[l] > 0}

\* epoll_wait() returns, by an event of these or of other connections, a
\* timeout or a signal.  With the flag the events are posted, else they are
\* handled one by one.
Wait(w) ==
    /\ pc[w] \in {"wait", "delay"}
    /\ IF post[w]
       THEN /\ posted' = Set(posted, w, Events(w))
            /\ Goto(w, "posted") /\ UNCHANGED ready
       ELSE /\ ready' = Set(ready, w, Events(w))
            /\ Goto(w, "batch") /\ UNCHANGED posted
    /\ UNCHANGED <<shared, held, disabled, active, post, timers, cur, from, free>>
    /\ NoFault

\* ngx_event_accept() is called for socket l from the given point.
Call(w, l, point) ==
    /\ cur' = Set(cur, w, l)
    /\ from' = Set(from, w, point)
    /\ Goto(w, "accept")

\* One entry of event_list; its event may have been removed meanwhile.
Dispatch(w) ==
    /\ pc[w] = "batch"
    /\ \E l \in ready[w] :
          /\ ready' = Set(ready, w, ready[w] \ {l})
          /\ IF l \in active[w] THEN Call(w, l, "batch")
                                ELSE UNCHANGED <<pc, cur, from>>
    /\ UNCHANGED <<shared, held, disabled, active, post, posted, timers, free>>
    /\ NoFault

\* One entry of ngx_posted_accept_events.
RunPosted(w) ==
    /\ pc[w] = "posted"
    /\ \E l \in posted[w] :
          /\ posted' = Set(posted, w, posted[w] \ {l})
          /\ Call(w, l, "posted")
    /\ UNCHANGED <<shared, held, disabled, active, post, ready, timers, free>>
    /\ NoFault

\* Both are empty: the mutex is released before the slow handlers run.
Release(w) ==
    /\ pc[w] \in {"batch", "posted"}
    /\ ready[w] = {} /\ posted[w] = {}
    /\ lock' = IF held[w] THEN Unlocked(w) ELSE lock
    /\ Goto(w, "timers")
    /\ UNCHANGED <<backlog, local>> /\ NoFault

-----------------------------------------------------------------------------
(* ngx_event_accept(). *)

Return(w) ==
    /\ Goto(w, from[w])
    /\ cur' = Set(cur, w, None)
    /\ UNCHANGED from

\* The loop goes on with multi_accept.
LoopOrReturn(w) ==
    IF MultiAccept THEN UNCHANGED <<pc, cur, from>> ELSE Return(w)

Taken(w) == backlog' = Set(backlog, cur[w], backlog[cur[w]] - 1)

\* EAGAIN: there is no connection, or another worker took it.
NotReady(w) ==
    /\ pc[w] = "accept" /\ backlog[cur[w]] = 0
    /\ Return(w)
    /\ UNCHANGED <<shared, held, disabled, active, post, ready, posted, timers, free>>
    /\ NoFault

\* ECONNABORTED.
Aborted(w) ==
    /\ pc[w] = "accept" /\ backlog[cur[w]] > 0
    /\ Taken(w)
    /\ LoopOrReturn(w)
    /\ UNCHANGED <<lock, held, disabled, active, post, ready, posted, timers, free>>
    /\ NoFault

\* accept() gives a socket; without a free connection it is closed again,
\* and so it is when a later allocation fails.
Accept(w) ==
    /\ pc[w] = "accept" /\ backlog[cur[w]] > 0
    /\ Taken(w)
    /\ disabled' = Set(disabled, w, (ConnN \div 8) - free[w])
    /\ \/ Return(w) /\ UNCHANGED free
       \/ free[w] > 0 /\ LoopOrReturn(w) /\ free' = Set(free, w, free[w] - 1)
    /\ UNCHANGED <<lock, held, active, post, ready, posted, timers>>
    /\ NoFault

\* ngx_reorder_accept_events() removed the event and cannot add it again;
\* it runs when the loop ended without multi_accept.
ReorderFails(w) ==
    /\ pc[w] = "accept" /\ backlog[cur[w]] > 0 /\ cur[w] \in Shared
    /\ ~UseMutex /\ ~MultiAccept
    /\ Taken(w)
    /\ free[w] > 0 /\ free' = Set(free, w, free[w] - 1)
    /\ disabled' = Set(disabled, w, (ConnN \div 8) - free[w])
    /\ active' = Set(active, w, active[w] \ {cur[w]})
    /\ Return(w)
    /\ UNCHANGED <<lock, held, post, ready, posted, timers>>
    /\ Fault(w)

\* EMFILE or ENFILE: no event is left; the mutex is given to somebody else
\* and asked for again in the cycle after the next, or a timer is set.
Emfile(w) ==
    /\ pc[w] = "accept" /\ emfiles < MaxEmfile
    /\ emfiles' = emfiles + 1
    /\ active' = Set(active, w, {})
    /\ IF UseMutex
       THEN /\ lock' = IF held[w] THEN Unlocked(w) ELSE lock
            /\ held' = Set(held, w, FALSE)
            /\ disabled' = Set(disabled, w, 1)
            /\ UNCHANGED timers
       ELSE /\ timers' = Set(timers, w, timers[w] \cup {cur[w]})
            /\ UNCHANGED <<lock, held, disabled>>
    /\ Return(w)
    /\ UNCHANGED <<backlog, post, ready, posted, free, clients, faults, kills,
                   faulty, conf>>

\* The same, but ngx_disable_accept_events() fails half way.
EmfileDisableFails(w) ==
    /\ pc[w] = "accept" /\ emfiles < MaxEmfile
    /\ \E S \in SUBSET active[w] :
          S # active[w] /\ active' = Set(active, w, active[w] \ S)
    /\ Return(w)
    /\ UNCHANGED <<shared, held, disabled, post, ready, posted, timers, free>>
    /\ Fault(w)

-----------------------------------------------------------------------------
(* The rest of the cycle. *)

\* Mutant: the handler of the timer does not add the events again.
ExpireSilently(w) ==
    /\ pc[w] = "timers"
    /\ \E l \in timers[w] :
          /\ timers' = Set(timers, w, timers[w] \ {l})
          /\ Call(w, l, "timers")
    /\ UNCHANGED <<shared, held, disabled, active, post, ready, posted, free>>
    /\ NoFault

\* The timer of a socket expires: the events are added, accept() is tried.
Expire(w) ==
    /\ pc[w] = "timers"
    /\ \E l \in timers[w] :
          /\ timers' = Set(timers, w, timers[w] \ {l})
          /\ Call(w, l, "timers")
    /\ active' = Set(active, w, Listening(w))
    /\ UNCHANGED <<shared, held, disabled, post, ready, posted, free>>
    /\ NoFault

\* ngx_enable_accept_events() fails in the timer's handler.  That ev->timedout
\* then stays set, so that the next call of the handler tries once more before it
\* accepts, is left out.
ExpireFails(w) ==
    /\ pc[w] = "timers"
    /\ \E l \in timers[w], S \in SUBSET (Listening(w) \ active[w]) :
          /\ S # Listening(w) \ active[w]
          /\ timers' = Set(timers, w, timers[w] \ {l})
          /\ active' = Set(active, w, active[w] \cup S)
    /\ UNCHANGED <<shared, pc, held, disabled, post, ready, posted, cur, from, free>>
    /\ Fault(w)

\* A handler closes a connection.
Close(w) ==
    /\ pc[w] = "timers" /\ free[w] < FreeN
    /\ free' = Set(free, w, free[w] + 1)
    /\ UNCHANGED <<shared, pc, held, disabled, active, post, ready, posted,
                   timers, cur, from>>
    /\ NoFault

\* ngx_process_events_and_timers() returns.
EndCycle(w) ==
    /\ pc[w] = "timers"
    /\ Goto(w, "top")
    /\ UNCHANGED <<shared, local>> /\ NoFault

\* Graceful shutdown: ngx_close_listening_sockets().
Quit(w) ==
    /\ pc[w] = "timers"
    /\ held' = Set(held, w, FALSE)
    /\ active' = Set(active, w, {})
    /\ Goto(w, "quit")
    /\ UNCHANGED <<shared, disabled, post, ready, posted, timers, cur, from, free>>
    /\ NoFault

-----------------------------------------------------------------------------
(* Clients, deaths and the master. *)

\* A client connects; the kernel queues the connection on a socket.
Connect(l) ==
    /\ clients < MaxClients
    /\ clients' = clients + 1
    /\ backlog' = Set(backlog, l, backlog[l] + 1)
    /\ UNCHANGED <<lock, pc, local, emfiles, faults, kills, faulty, conf>>

\* A worker dies, and its epoll instance with it; the master has the
\* listening sockets open, so what is queued on them stays.
Kill(w) ==
    /\ pc[w] \notin {"quit", "dead"} /\ kills < MaxKills
    /\ kills' = kills + 1
    /\ Goto(w, "dead")
    /\ UNCHANGED <<shared, local, clients, emfiles, faults, faulty, conf>>

\* Mutant: the mutex of a dead worker is not released.
ReapNothing(w) ==
    /\ pc[w] = "dead" /\ lock = w
    /\ Goto(w, "top")
    /\ UNCHANGED <<shared, local>> /\ NoFault

\* The master's SIGCHLD handler: ngx_unlock_mutexes().
Reap(w) ==
    /\ pc[w] = "dead" /\ lock = w
    /\ lock' = Free
    /\ UNCHANGED <<backlog, pc, local>> /\ NoFault

\* The master starts a worker in its place.
Respawn(w) ==
    /\ pc[w] = "dead" /\ lock # w
    /\ Goto(w, "top")
    /\ held' = Set(held, w, FALSE)
    /\ disabled' = Set(disabled, w, 0)
    /\ active' = Set(active, w, InitActive(w))
    /\ post' = Set(post, w, FALSE)
    /\ ready' = Set(ready, w, {})
    /\ posted' = Set(posted, w, {})
    /\ timers' = Set(timers, w, {})
    /\ cur' = Set(cur, w, None)
    /\ from' = Set(from, w, "batch")
    /\ free' = Set(free, w, FreeN)
    /\ faulty' = Set(faulty, w, FALSE)
    /\ UNCHANGED <<shared, bounds, conf>>

-----------------------------------------------------------------------------
\* The loop of a worker, the return of epoll_wait() apart.
Step(w) ==
    \/ Plain(w) \/ Skip(w) \/ Trylock(w) \/ Enable(w) \/ TrylockFails(w)
    \/ Dispatch(w) \/ RunPosted(w) \/ Release(w)
    \/ NotReady(w) \/ Accept(w) \/ EndCycle(w)

Failure(w) ==
    \/ EnableFails(w) \/ DisableFails(w) \/ ReorderFails(w) \/ Aborted(w)
    \/ Emfile(w) \/ EmfileDisableFails(w) \/ ExpireFails(w)

Next ==
    \/ \E w \in Procs : Step(w) \/ Wait(w) \/ Failure(w) \/ Expire(w) \/ Close(w)
                        \/ Quit(w) \/ Kill(w) \/ Reap(w) \/ Respawn(w)
    \/ \E l \in Sockets : Connect(l)

Spec == Init /\ [][Next]_vars

\* epoll_wait() is sure to return for an event or at the end of its time;
\* what other connections do, and when a client closes, nobody promises.
Woken(w) ==
    Wait(w) /\ (pc[w] = "delay" \/ Events(w) # {} \/ timers[w] # {})

\* A process runs, a timer that is set expires in some cycle, and the master
\* looks after the dead.
FairSpec ==
    /\ Spec
    /\ \A w \in Procs :
          /\ WF_vars(Step(w) \/ Woken(w))
          /\ SF_vars(Expire(w))
          /\ WF_vars(Reap(w) \/ Respawn(w))

-----------------------------------------------------------------------------
(* Properties. *)

\* Every variable has its type; the accept handler runs for a socket.
TypeOK ==
    /\ lock \in Procs \cup {Free}
    /\ backlog \in [Sockets -> Nat]
    /\ pc \in [Procs -> Points]
    /\ held \in [Procs -> BOOLEAN] /\ post \in [Procs -> BOOLEAN]
    /\ disabled \in [Procs -> Int]
    /\ active \in [Procs -> SUBSET Sockets]
    /\ ready \in [Procs -> SUBSET Sockets]
    /\ posted \in [Procs -> SUBSET Sockets]
    /\ timers \in [Procs -> SUBSET Sockets]
    /\ cur \in [Procs -> Sockets \cup {None}]
    /\ from \in [Procs -> {"batch", "posted", "timers"}]
    /\ \A w \in Procs : pc[w] = "accept" => cur[w] # None
    /\ free \in [Procs -> 0..FreeN]
    /\ clients \in Nat /\ emfiles \in Nat /\ faults \in Nat /\ kills \in Nat
    /\ faulty \in [Procs -> BOOLEAN] /\ conf \in Confs

\* While a worker that posted its accept events works on them with the flag
\* ngx_accept_mutex_held set, the mutex is its own.  Workers unlock without
\* being the owner (line 257 after a cycle that skipped the trylock), so this
\* rests on the compare in ngx_shmtx_unlock().
LockCovers ==
    \A w \in Procs :
        held[w] /\ post[w] /\ pc[w] \in {"wait", "posted", "accept"}
        /\ (pc[w] = "accept" => from[w] = "posted") => lock = w

\* No connection but an accepted one is handled under the mutex, and no error
\* path keeps it: outside the accept phase no live worker owns the mutex.
LockScope ==
    \A w \in Procs :
        lock = w => \/ pc[w] \in {"enable", "posted", "dead"}
                    \/ pc[w] = "wait" /\ post[w]
                    \/ pc[w] = "accept" /\ from[w] = "posted"

\* What ngx_accept_mutex_held says of the epoll instance, as long as no
\* epoll_ctl() failed.  Set: every socket is watched, so the early return of
\* ngx_trylock_accept_mutex() leaves none out.  Not set: no shared socket is
\* watched, so none has to be removed.
HeldIsWatching ==
    UseMutex => \A w \in Procs :
        ~faulty[w] /\ pc[w] \notin {"quit", "dead"} =>
            IF held[w] THEN active[w] = Listening(w)
                       ELSE active[w] \cap Shared = {}

\* What the mutex and its flag promise the handlers of the accept phase: the
\* mutex covers that phase, only that phase, and the flag says which sockets
\* the worker watches.
AcceptPhase == LockCovers /\ LockScope /\ HeldIsWatching

\* The accept mutex is a mutex in the sense of AbstractMutex: a dead owner
\* loses it to the master before the next worker of that slot starts.
Mutex == INSTANCE AbstractMutex WITH
            owner <- lock, dead <- {w \in Procs : pc[w] = "dead"}

ImplementsMutex == Mutex!Spec

\* All workers that still accept wait for events of other connections,
\* without the mutex and without a shared socket: after EMFILE, or a cycle
\* that was skipped because of ngx_accept_disabled, epoll_wait() is not
\* bounded by accept_mutex_delay.
Parked ==
    \A w \in Procs :
        \/ pc[w] \in {"quit", "dead"}
        \/ pc[w] = "wait" /\ ~held[w] /\ active[w] \cap Shared = {}

\* Connections do not stay in the queue of a shared socket for ever: they are
\* accepted (or refused for want of a free connection), whichever worker
\* has the mutex, is near its limit or dies, unless the workers are parked
\* or an epoll_ctl() failed.
SharedServed ==
    \A l \in Shared :
        []<>(backlog[l] = 0) \/ <>[]Parked \/ <>(\E w \in Procs : faulty[w])

\* Without the mutex that exception does not exist: the timer set on EMFILE
\* always brings the worker back, for reuseport sockets too.
PlainServed ==
    \A l \in Sockets :
        []<>(backlog[l] = 0)
        \/ <>(\A w \in Procs : l \in Listening(w) => pc[w] = "quit")
        \/ <>(\E w \in Procs : faulty[w])

\* With and without the mutex, clients that wait are served.
ClientsServed ==
    /\ UseMutex => SharedServed
    /\ ~UseMutex => PlainServed

=============================================================================
