---------------------------- MODULE Connections ----------------------------
(***************************************************************************)
(* The connections of one worker and the events that refer to them: the    *)
(* pool of src/core/ngx_connection.c, the batch of epoll events of         *)
(* src/event/modules/ngx_epoll_module.c, the posted events and the timers. *)
(*                                                                         *)
(* A slot of the pool is used again and again, and the kernel, event_list, *)
(* the queues of posted events and the tree of timers all point to slots.  *)
(* A pointer that outlives the connection it was made for is stale.  The   *)
(* history counter gen numbers the uses of a slot; the code has one bit of *)
(* it, the instance.                                                       *)
(*                                                                         *)
(* The worker is one thread.  Between two calls of ngx_connection.c a      *)
(* handler may do anything, so each call is an action of its own, allowed  *)
(* while a handler runs.                                                   *)
(***************************************************************************)
EXTENDS Integers, SequencesExt

CONSTANTS
    Conns,       \* cycle->connections
    Listener,    \* the connection of the listening socket
    Fds,         \* socket numbers
    NoFd,        \* -1
    NoReg,       \* the socket is not in the epoll instance
    MaxGets,     \* bound: connections opened
    MaxQueued    \* bound: events posted and timers set by handlers at a time

ASSUME PoolAssumption ==
    /\ IsFiniteSet(Conns) /\ Listener \in Conns
    /\ Fds # {} /\ NoFd \notin Fds
    /\ NoReg \notin [c : Conns, i : {0, 1}]
    /\ MaxGets \in Nat /\ MaxQueued \in Nat

ConnN == Cardinality(Conns)

\* c->read and c->write.
Dirs == {"read", "write"}

\* An event of use g of slot c; an entry of event_list with its instance.
Event == [c : Conns, d : Dirs, g : Nat]
Entry == [c : Conns, i : {0, 1}, ev : SUBSET Dirs, g : Nat]

VARIABLES
    pool,     \* the connections, see Pool
    pc,       \* the next statement of the worker
    ret,      \* where the running handler returns to
    flag,     \* NGX_POST_EVENTS in this cycle
    batch,    \* entries of event_list not yet looked at
    entry,    \* the entry the loop is at, when a handler is called from it
    call,     \* the call of ngx_get_connection() under way, see NoCall
    gets,     \* connections opened so far
    quit,     \* the listening sockets are closed
    skew      \* history: uses of the slot between the newest event that passed
              \* the test for stale events in this batch and the slot it was given to

vars == <<pool, pc, ret, flag, batch, entry, call, gets, quit, skew>>

Pool ==
    [fd       : [Conns -> Fds \cup {NoFd}],
     inst     : [Conns -> {0, 1}],          \* rev->instance, wev->instance
     gen      : [Conns -> Nat],             \* history: uses of the slot
     active   : [Conns -> SUBSET Dirs],     \* rev->active, wev->active
     free     : Seq(Conns),                 \* cycle->free_connections
     freeN    : Nat,                        \* cycle->free_connection_n
     reusable : Seq(Conns),                 \* cycle->reusable_connections_queue
     timers   : SUBSET Event,               \* ngx_event_timer_rbtree
     posted   : Seq(Event),                 \* ngx_posted_events
     next     : Seq(Event),                 \* ngx_posted_next_events
     reg      : [Fds -> [c : Conns, i : {0, 1}] \cup {NoReg}]]  \* the kernel

-----------------------------------------------------------------------------
(* ngx_connection.c, as functions of the pool. *)

IsOpen(p, c) == p.fd[c] # NoFd

EventOf(p, c, d) == [c |-> c, d |-> d, g |-> p.gen[c]]

\* ngx_queue_remove(), for the queue of reusable connections: slot c is taken out
\* of its place.
Unqueued(s, c) ==
    IF Contains(s, c) THEN RemoveAt(s, CHOOSE i \in 1..Len(s) : s[i] = c) ELSE s

\* ngx_delete_posted_event(), when the event is in the queue s, for the read and
\* for the write event of slot c.
Deleted(s, c, d) ==
    LET places == {i \in 1..Len(s) : s[i].c = c /\ s[i].d = d}
    IN IF places = {} THEN s ELSE RemoveAt(s, CHOOSE i \in places : TRUE)

NotOf(c, s) == Deleted(Deleted(s, c, "read"), c, "write")

\* ngx_free_connection(): the slot becomes the head of the free list.
Freed(p, c) == [p EXCEPT !.free = <<c>> \o @, !.freeN = @ + 1]

\* Mutant: the socket number is not cleared.
ClosedKeepsFd(p, c) ==
    IF ~IsOpen(p, c) THEN p
    ELSE Freed([p EXCEPT !.timers = {e \in @ : e.c # c}, !.active[c] = {},
                  !.posted = NotOf(c, @), !.next = NotOf(c, @),
                  !.reusable = Unqueued(@, c), !.reg[p.fd[c]] = NoReg], c)

\* ngx_close_connection(): nothing is left that points to the slot.
Closed(p, c) ==
    IF ~IsOpen(p, c) THEN p
    ELSE Freed([p EXCEPT
                  !.timers = {e \in @ : e.c # c \/ e.g # p.gen[c]},
                  !.active[c] = {},
                  !.posted = NotOf(c, @),
                  !.next = NotOf(c, @),
                  !.reusable = Unqueued(@, c),
                  !.fd[c] = NoFd,
                  !.reg[p.fd[c]] = NoReg], c)

\* ngx_reusable_connection(c, 1): the newest is at the head.
Reusable(p, c) == [p EXCEPT !.reusable = <<c>> \o Unqueued(@, c)]

\* ngx_reusable_connection(c, 0).
NotReusable(p, c) == [p EXCEPT !.reusable = Unqueued(@, c)]

\* ngx_drain_connections(): how many of the oldest reusable connections have
\* their read handler called with c->close set.
ToDrain(p) ==
    IF p.freeN > ConnN \div 16 \/ p.reusable = <<>> THEN 0
    ELSE Max({Min({32, Len(p.reusable) \div 8}), 1})

\* Mutant: the connection is closed the way the listening ones are, and what
\* was posted or timed for it stays.
DrainedFreed(p, c) ==
    {Freed([p EXCEPT !.active[c] = {}, !.reusable = Unqueued(@, c),
                     !.fd[c] = NoFd, !.reg[p.fd[c]] = NoReg], c),
     Reusable(p, c)}

\* Such a handler closes its connection, or keeps it for a lingering close and
\* queues it again.
Drained(p, c) == {Closed(p, c), Reusable(p, c)}

\* ngx_get_connection() with a free slot: the slot is wiped, the instance
\* is turned over.
Opened(p, s) ==
    LET c == Head(p.free)
    IN [p EXCEPT !.free = Tail(@), !.freeN = @ - 1, !.fd[c] = s,
                 !.inst[c] = 1 - @, !.gen[c] = @ + 1, !.active[c] = {}]

\* ngx_epoll_add_event() and ngx_epoll_del_event(): the kernel is given the
\* address of the slot with the instance in its lowest bit.
Registered(p, c, ds) ==
    [p EXCEPT !.active[c] = ds,
              !.reg[p.fd[c]] = IF ds = {} THEN NoReg
                               ELSE [c |-> c, i |-> p.inst[c]]]

\* ngx_post_event(): an event that is posted stays where it is.
IsPosted(p, c, d) ==
    \E e \in ToSet(p.posted) \cup ToSet(p.next) : e.c = c /\ e.d = d

Posted(p, c, ds) ==
    LET new(d) == IF d \in ds /\ ~IsPosted(p, c, d)
                  THEN <<EventOf(p, c, d)>> ELSE <<>>
    IN [p EXCEPT !.posted = @ \o new("read") \o new("write")]

\* ngx_event_move_posted_next(): what was posted for the next cycle is posted.
Moved(p) == [p EXCEPT !.posted = @ \o p.next, !.next = <<>>]

\* ngx_close_listening_sockets(): the slot is freed, its timer is not
\* deleted.
ListenerClosed(p) ==
    Freed([p EXCEPT !.active[Listener] = {}, !.fd[Listener] = NoFd,
                    !.reg[p.fd[Listener]] = NoReg], Listener)

-----------------------------------------------------------------------------
\* ngx_get_connection() works for the socket s, has n handlers left to call in
\* ngx_drain_connections(), and c is the connection it called last, if any.
NoCall == [s |-> NoFd, n |-> 0, c |-> {}]

\* After ngx_event_process_init(): one listening socket, watched.
Init ==
    \E s \in Fds :
        /\ pool = [fd       |-> [c \in Conns |-> IF c = Listener THEN s ELSE NoFd],
                   inst     |-> [c \in Conns |-> IF c = Listener THEN 0 ELSE 1],
                   gen      |-> [c \in Conns |-> IF c = Listener THEN 1 ELSE 0],
                   active   |-> [c \in Conns |-> IF c = Listener THEN {"read"} ELSE {}],
                   free     |-> SetToSeq(Conns \ {Listener}),
                   freeN    |-> ConnN - 1,
                   reusable |-> <<>>,
                   timers   |-> {},
                   posted   |-> <<>>,
                   next     |-> <<>>,
                   reg      |-> [f \in Fds |-> IF f = s THEN [c |-> Listener, i |-> 0]
                                                        ELSE NoReg]]
        /\ pc = "wait" /\ ret = "wait" /\ flag = FALSE
        /\ batch = {} /\ entry = {}
        /\ call = NoCall /\ gets = 0 /\ quit = FALSE /\ skew = 0

UsedFds == {pool.fd[c] : c \in Conns} \ {NoFd}

-----------------------------------------------------------------------------
(* The event cycle. *)

\* epoll_wait(): any registered sockets, each with any events (an error is
\* reported as both).  The events of the last cycle are moved before it.
Wait ==
    /\ pc = "wait"
    /\ \E F \in SUBSET {f \in Fds : pool.reg[f] # NoReg} :
       \E evs \in [F -> SUBSET Dirs \ {{}}] :
          batch' = {[c |-> pool.reg[f].c, i |-> pool.reg[f].i, ev |-> evs[f],
                     g |-> pool.gen[pool.reg[f].c]] : f \in F}
    /\ pool' = Moved(pool)
    /\ flag' \in BOOLEAN
    /\ pc' = "batch"
    /\ UNCHANGED <<ret, entry, call, gets, quit, skew>>

\* The test for a stale event.
Stale(e) == ~IsOpen(pool, e.c) \/ pool.inst[e.c] # e.i

\* The handler of an event is called; it returns to the given point.
Call(point) == pc' = "handler" /\ ret' = point

\* The loop looks at the next entry and calls the read handler, or posts
\* both events.
Dispatch ==
    /\ pc = "batch"
    /\ \E e \in batch :
          LET ds == e.ev \cap pool.active[e.c]
          IN /\ batch' = batch \ {e}
             /\ \/ /\ Stale(e)
                   /\ UNCHANGED <<pool, pc, ret, entry, skew>>
                \/ /\ ~Stale(e) /\ flag
                   /\ pool' = Posted(pool, e.c, ds)
                   /\ skew' = IF ds = {} THEN skew ELSE pool.gen[e.c] - e.g
                   /\ UNCHANGED <<pc, ret, entry>>
                \/ /\ ~Stale(e) /\ ~flag /\ "read" \in ds
                   /\ entry' = {e}
                   /\ Call("write")
                   /\ skew' = pool.gen[e.c] - e.g
                   /\ UNCHANGED pool
                \/ /\ ~Stale(e) /\ ~flag /\ "read" \notin ds
                   /\ entry' = {e}
                   /\ pc' = "write"
                   /\ UNCHANGED <<pool, ret, skew>>
    /\ UNCHANGED <<flag, call, gets, quit>>

\* Mutant: the test is not made again after the read handler.
WriteUntested ==
    /\ pc = "write"
    /\ \E e \in entry :
          IF "write" \in e.ev \cap pool.active[e.c]
          THEN Call("batch") /\ skew' = pool.gen[e.c] - e.g
          ELSE pc' = "batch" /\ UNCHANGED <<ret, skew>>
    /\ entry' = {}
    /\ UNCHANGED <<pool, flag, batch, call, gets, quit>>

\* The write part of the entry: the read handler may have closed the
\* connection, so the test is made again.
Write ==
    /\ pc = "write"
    /\ \E e \in entry :
          IF "write" \in e.ev \cap pool.active[e.c] /\ ~Stale(e)
          THEN Call("batch") /\ skew' = pool.gen[e.c] - e.g
          ELSE pc' = "batch" /\ UNCHANGED <<ret, skew>>
    /\ entry' = {}
    /\ UNCHANGED <<pool, flag, batch, call, gets, quit>>

BatchEnds ==
    /\ pc = "batch" /\ batch = {}
    /\ pc' = "timers" /\ flag' = FALSE /\ skew' = 0
    /\ UNCHANGED <<pool, ret, batch, entry, call, gets, quit>>

\* ngx_event_expire_timers(): some timers are due.
Expire ==
    /\ pc = "timers"
    /\ \/ /\ \E e \in pool.timers : pool' = [pool EXCEPT !.timers = @ \ {e}]
          /\ Call("timers")
       \/ pc' = "posted" /\ UNCHANGED <<pool, ret>>
    /\ UNCHANGED <<flag, batch, entry, call, gets, quit, skew>>

\* ngx_event_process_posted(&ngx_posted_events), and the end of the cycle.
RunPosted ==
    /\ pc = "posted"
    /\ IF pool.posted # <<>>
       THEN pool' = [pool EXCEPT !.posted = Tail(@)] /\ Call("posted")
       ELSE pc' = "wait" /\ UNCHANGED <<pool, ret>>
    /\ UNCHANGED <<flag, batch, entry, call, gets, quit, skew>>

\* The handler returns.
Return ==
    /\ pc = "handler"
    /\ pc' = ret /\ ret' = "wait"
    /\ UNCHANGED <<pool, flag, batch, entry, call, gets, quit, skew>>

-----------------------------------------------------------------------------
(* What handlers do. *)

Handler(p) ==
    /\ pc = "handler"
    /\ pool' = p
    /\ UNCHANGED <<pc, ret, flag, batch, entry, call, gets, quit, skew>>

\* The open connections other than the listening one, whose slot becomes an
\* ordinary one after the shutdown began.
Others == {c \in Conns : IsOpen(pool, c) /\ (c # Listener \/ quit)}

\* The bound on what handlers queue.
Room == Len(pool.posted) + Len(pool.next) + Cardinality(pool.timers) < MaxQueued

\* accept() or socket() gave a number: ngx_get_connection().
Get ==
    /\ pc = "handler" /\ gets < MaxGets
    /\ gets' = gets + 1
    /\ \E s \in Fds \ UsedFds : call' = [s |-> s, n |-> ToDrain(pool), c |-> {}]
    /\ pc' = "drain"
    /\ UNCHANGED <<pool, ret, flag, batch, entry, quit, skew>>

\* One round of ngx_drain_connections().
Drain ==
    /\ pc = "drain" /\ call.n > 0 /\ pool.reusable # <<>>
    /\ pool' \in Drained(pool, Last(pool.reusable))
    /\ call' = [call EXCEPT !.n = @ - 1, !.c = {Last(pool.reusable)}]
    /\ UNCHANGED <<pc, ret, flag, batch, entry, gets, quit, skew>>

\* Its end: when nothing was freed the last connection is called once more.
Again(p) ==
    IF p.freeN = 0 /\ \E c \in call.c : Contains(p.reusable, c)
    THEN UNION {Drained(p, c) : c \in call.c}
    ELSE {p}

\* The rest of ngx_get_connection(): without a free slot the socket is closed.
Take ==
    /\ pc = "drain" /\ (call.n = 0 \/ pool.reusable = <<>>)
    /\ \E p \in Again(pool) :
          pool' = IF p.free = <<>> THEN p ELSE Opened(p, call.s)
    /\ pc' = "handler" /\ call' = NoCall
    /\ UNCHANGED <<ret, flag, batch, entry, gets, quit, skew>>

Close == \E c \in Others : Handler(Closed(pool, c))

\* ngx_add_event(), ngx_del_event() or ngx_add_conn().
Control ==
    \/ \E c \in Others, ds \in SUBSET Dirs : Handler(Registered(pool, c, ds))
    \/ /\ IsOpen(pool, Listener) /\ ~quit
       /\ Handler(Registered(pool, Listener, {"read"}))

\* EMFILE in the accept handler: the event is removed, a timer is set.
Emfile ==
    /\ IsOpen(pool, Listener) /\ ~quit /\ Room
    /\ Handler([Registered(pool, Listener, {}) EXCEPT
                  !.timers = @ \cup {EventOf(pool, Listener, "read")}])

SetTimer ==
    \E c \in Others, d \in Dirs :
        /\ Room
        /\ Handler([pool EXCEPT !.timers = @ \cup {EventOf(pool, c, d)}])

DelTimer ==
    \E e \in pool.timers : Handler([pool EXCEPT !.timers = @ \ {e}])

Post ==
    \E c \in Others, d \in Dirs :
        /\ Room
        /\ Handler(Posted(pool, c, {d}))

PostNext ==
    \E c \in Others, d \in Dirs :
        /\ Room
        /\ ~IsPosted(pool, c, d)
        /\ Handler([pool EXCEPT !.next = Append(@, EventOf(pool, c, d))])

Reuse ==
    \E c \in Others : Handler(Reusable(pool, c)) \/ Handler(NotReusable(pool, c))

\* Graceful shutdown, after a cycle: the listening socket is closed.
Quit ==
    /\ pc = "wait" /\ ~quit
    /\ quit' = TRUE
    /\ pool' = ListenerClosed(pool)
    /\ pc' = "idle"
    /\ UNCHANGED <<ret, flag, batch, entry, call, gets, skew>>

\* Then the read handlers of idle connections are called with c->close set, and
\* the events they posted are run.
CloseIdle ==
    /\ pc = "idle"
    /\ \/ Others # {} /\ Call("idle")
       \/ pc' = "posted" /\ UNCHANGED ret
    /\ UNCHANGED <<pool, flag, batch, entry, call, gets, quit, skew>>

-----------------------------------------------------------------------------
Next ==
    \/ Wait \/ Dispatch \/ Write \/ BatchEnds \/ Expire \/ RunPosted \/ Return
    \/ Get \/ Drain \/ Take \/ Close \/ Control \/ Emfile \/ SetTimer \/ DelTimer
    \/ Post \/ PostNext \/ Reuse
    \/ Quit \/ CloseIdle

Spec == Init /\ [][Next]_vars

-----------------------------------------------------------------------------
(* Properties. *)

\* Every variable has its type.
TypeOK ==
    /\ pool \in Pool
    /\ pc \in {"wait", "batch", "write", "timers", "posted", "handler",
             "drain", "idle"}
    /\ ret \in {"wait", "batch", "write", "timers", "posted", "idle"}
    /\ flag \in BOOLEAN /\ quit \in BOOLEAN
    /\ batch \subseteq Entry /\ entry \subseteq Entry
    /\ (pc = "write" => entry # {})
    /\ call \in [s : Fds \cup {NoFd}, n : Nat, c : SUBSET Conns]
    /\ gets \in 0..MaxGets /\ skew \in Nat

\* The free list holds exactly the closed slots, each once, and
\* free_connection_n is its length: neither a double close nor the drain
\* inside ngx_get_connection() puts a slot there twice.
FreeExact ==
    /\ ToSet(pool.free) = {c \in Conns : ~IsOpen(pool, c)}
    /\ Len(pool.free) = Cardinality(ToSet(pool.free))
    /\ pool.freeN = Len(pool.free)

\* The timer that EMFILE set on the listening socket when
\* ngx_close_listening_sockets() freed its slot: nothing deletes it.
LeftBehind(e) == quit /\ e.c = Listener /\ e.d = "read" /\ e.g = 1

\* Posted events and timers belong to the connection that has the slot now, and
\* no event is posted twice: a handler is never called for a connection that was
\* closed.  Reusable connections are open and queued once: the drain closes a
\* connection that exists.
QueuesCurrent ==
    /\ \A e \in ToSet(pool.posted) \cup ToSet(pool.next) \cup pool.timers :
          (IsOpen(pool, e.c) /\ pool.gen[e.c] = e.g) \/ LeftBehind(e)
    /\ LET q == pool.posted \o pool.next
       IN \A i, j \in DOMAIN q : q[i].c = q[j].c /\ q[i].d = q[j].d => i = j
    /\ \A c \in ToSet(pool.reusable) : IsOpen(pool, c)
    /\ Len(pool.reusable) = Cardinality(ToSet(pool.reusable))

\* What the kernel will report is the slot that has the socket now, with
\* the instance of its present use.
KernelCurrent ==
    /\ \A f \in Fds : pool.reg[f] # NoReg =>
          /\ pool.fd[pool.reg[f].c] = f
          /\ pool.inst[pool.reg[f].c] = pool.reg[f].i
    /\ \A c \in Conns : pool.active[c] # {} =>
          IsOpen(pool, c) /\ pool.reg[pool.fd[c]] # NoReg

\* Whatever names a slot, in this process or in the kernel, means the connection
\* that has it now: no handler runs for a connection that was closed, though
\* handlers close and open connections within a batch.
RefsCurrent == QueuesCurrent /\ KernelCurrent

\* An event reaches a connection it was not reported for only when the slot
\* was used twice more within the batch: one bit of instance, tested again
\* after the read handler, filters a slot that was closed and used once.
StaleFiltered == skew = 0 \/ skew >= 2

=============================================================================
