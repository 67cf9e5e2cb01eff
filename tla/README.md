# A TLA+ development of nginx's processes, events and requests, and of GmSSL's handshakes

The repository is a collection of open-source C code that its owner reads and annotates. Nearly all of
it is nginx 1.24.0 (`src/nginx/nginx-1.24.0/`, with comments added in the core files and notes beside it
in `src/nginx/01-*.txt` to `13-*.txt`) and GmSSL 3.1.1 (`src/gmssl/`); the rest are two libev demos, documents
and unopened archives. This project models the part of nginx in which processes, threads, signals, shared
memory and epoll events meet, the life of an HTTP request on top of them (its subrequests, the servers it is
passed to, the disk cache it is answered from), and the three handshakes of GmSSL with the tools that run them.

The build is the one of `objs/ngx_auto_config.h`: GCC atomic operations, POSIX semaphores, epoll with
EPOLLEXCLUSIVE and eventfd, SO_REUSEPORT. That file does not define `NGX_THREADS`; the thread pool is
modelled as a build `--with-threads` compiles it.

Paths below are relative to `src/nginx/nginx-1.24.0/src/`; those of GmSSL to `src/gmssl/GmSSL-3.1.1/`.

## 1. Inventory

### How the parts interact

The *master* process reads the configuration, forks *workers*, and then only handles signals. A worker runs an
*event cycle*: it competes for the *accept mutex*, waits in epoll, dispatches events to *connections*, runs
timers and posted events. Slow file operations go to the worker's *thread pool* and come back through an
eventfd. Workers share memory: a zone is managed by the *slab allocator* under a *process mutex*; upstream
peers in a zone are protected by the *read-write lock*. When a worker dies, the master's SIGCHLD handler
releases the process mutexes the worker held (`ngx_unlock_mutexes()`), and its loop forks a replacement.

A connection's handlers work for a *request*, which may make *subrequests*, and which a content handler answers from
a file, from the *cache* or from an *upstream* server. The counters of the servers and the nodes of the cache are in shared
zones; the connections to servers that are kept for later belong to one worker.

GmSSL is a program of its own here: a client and a server process with one blocking socket between them.

    operator --signals--> Master --fork, channel, kill--> workers
                            |                                |
                            | force_unlock                   | trylock / unlock
                            v                                v
                          Shmtx <-------- AcceptMutex (event cycle, listening sockets)
                                                             |
                          ThreadPool <--post/notify--> event loop of a worker
                                                             |
                          Rwlock  <-- zones           Connections (slots, epoll batch, timers)
                                        ^                    |
                                        |                 Request (subrequests, output order)
                                        |                    |
                                        +--- Upstream, FileCache (shared counters and nodes)

    GmSSL:  tlcp/tls12/tls13_client <----- records -----> ..._server      (Tls)

### Components, their state, operations and hard behaviour

| component | state | operations | what is hard | what makes it correct |
|---|---|---|---|---|
| process mutex `core/ngx_shmtx.c` | lock word, wait counter, semaphore, all in shared memory | lock, trylock, unlock, force_unlock, wakeup | two counters and a semaphore changed by several processes without a lock; a process may be killed between any two instructions | one holder; no sleeper is forgotten; a dead holder loses the lock, a live one never |
| read-write lock `core/ngx_rwlock.c` | one word: readers or all ones | wlock, rlock, unlock, downgrade | unlock guesses its mode from the word; downgrade is a plain store; nothing recovers a dead holder's lock | a writer is alone; the word counts the readers |
| thread pool `core/ngx_thread_pool.c` | queue, `waiting`, done queue, `event.active`, exit flag | post, cycle, notify, handler, destroy | signal before append; coalesced notifications; handlers that post their own task; one exit task on the stack | a task is in one place; none is forgotten; the pool is destroyed when nobody uses it |
| accept mutex and event cycle `event/ngx_event.c`, `event/ngx_event_accept.c` | the mutex, `ngx_accept_mutex_held`, `ngx_accept_disabled`, the watched sockets, timers, free connections | trylock, enable/disable accept events, accept, posted events, expire | EMFILE, near-full workers, failing `epoll_ctl()`, dying owners, flags that outlive the lock | the accept phase is covered by the lock, only it; waiting clients are served |
| connections and events `core/ngx_connection.c`, `event/modules/ngx_epoll_module.c`, `event/ngx_event_posted.c`, `event/ngx_event_timer.c` | slots with instance bit, free list, reusable queue, kernel registrations, batch, posted queues, timers | get, free, close, drain, reusable, epoll_wait dispatch, posted, expire | slots are used again while four data structures still point to them | what points to a slot belongs to its present user |
| master and process table `os/unix/ngx_process_cycle.c`, `os/unix/ngx_process.c`, `os/unix/ngx_channel.c` | `ngx_processes[]`, channels, the signal flags, live, delay and sigio, `ngx_new_binary` | every signal, spawn, reap, signal workers, exit | any order of signals, deaths and failing system calls; a table with holes; binary upgrade | every child is known; who must exit was told; the master leaves last, and does leave |
| slab allocator `core/ngx_slab.c` | pages, slots, bitmaps, free lists | alloc, free, pages | bit layouts, coalescing | chunks do not overlap; freed pages join |
| configuration cycle `core/ngx_cycle.c` | listening sockets, files, zones of two cycles | init_cycle | what is inherited, what is undone after a failure | a rejected configuration changes nothing |
| timers `event/ngx_event_timer.c`, `core/ngx_rbtree.c` | red-black tree of millisecond keys | add, del, expire, find | wrap-around of the key | order and balance |
| requests `http/ngx_http_request.c`, `ngx_http_core_module.c` (subrequests), `ngx_http_postpone_filter_module.c` | reference count, posted requests, active request, postponed output, write handlers | run, subrequest, redirect, finalize, terminate, writer, run posted requests | one count for handlers, redirects, subrequests, upstream answers and cleanups; subrequests are ready in any order; failures arrive in the middle | the memory is freed when nobody uses it, and then; the client gets the page in its order; no wake-up is lost |
| upstream requests `http/ngx_http_upstream.c`, `ngx_http_upstream_round_robin.c`, `modules/ngx_http_upstream_keepalive_module.c` | tries, the server in use, what was sent; weights, fails, conns per server (shared); kept connections (per worker) | choose, connect, send, read, next server, finalize, keep and reuse a connection | every kind of failure at every point, retries, backup servers, early answers, dying workers | counts are exact; what must not be repeated is not; a kept connection is clean; retries end |
| disk cache `http/ngx_http_file_cache.c` with the cache part of `ngx_http_upstream.c` | nodes with counts and marks, the inactive queue, files | lookup, lock, read, update, free, expire, load, delete | files are opened, renamed and deleted with the mutex released; locks age and are taken over | references are exact; no entry stays in the state UPDATING |
| limits `http/modules/ngx_http_limit_req_module.c`, `..._conn_module.c` | excess and counters per key | lookup, account, cleanup | time differences, eviction | the rate holds |
| HTTP parsing and filters, HTTP/2, mail, stream, resolver, open file cache, containers, logging | data | | mostly data | not modelled, section 8 |
| GmSSL handshakes and records `src/tls.c`, `tlcp.c`, `tls12.c`, `tls13.c`, `tools/*_client.c`, `tools/*_server.c` | the step of each side, its transcript, secrets, sequence numbers, certificates | handshake, send, receive, shutdown | two step lists that must fit with and without client authentication; changed records; a peer that dies anywhere | who ends its handshake agrees with the other; a handshake fails only for a reason; calls return |
| GmSSL ciphers, certificates, encodings | keys, data | | arithmetic, data | not modelled, section 8 |

The hazards, each at its line and with the properties that would catch it, are in `PROJECT.json`.

## 2. Plan

Order: what everything else rests on first.

1. **Done**: `Shmtx` with the abstract specification `AbstractMutex`; `Rwlock`; `ThreadPool`; their proofs.
2. **Done**: `AcceptMutex`, which uses the mutex through its abstract operations and is shown to implement
   `AbstractMutex` again; `Connections`; `Master`.
3. **Done**: `Upstream`, `FileCache`, `Request` and `RequestBody`, which extends it; `Tls`.
4. **Done**: the proofs of `OnePlace` and `DestroyedUnused` of `ThreadPool`; of `AcceptMutex`, with its refinement; of all invariants of
   `Upstream`; of both invariants of `FileCache`; of all invariants of `Connections`, whose drain and shutdown became steps of their own for it.
   **Proofs next**: `CountExact` and `Unused` of `Request` (needs the shape of the tree of postponed requests and what the order of the
   posted requests implies, and that the 16-bit count does not wrap) and `ChildrenKnown` of `Master` (its loops over the table are folds
   and have to become steps too, as those of `Connections` did).
5. **Later models**: `Slab` with an abstract allocator (a set of disjoint chunks) that it implements; the wrap-around of timer
   keys on a small word; the rate limit; the inheritance of sockets and zones from one cycle to the next, composed with
   `Master`'s reload; HTTP/2 streams on top of `Request`.

Abstract specifications: `AbstractMutex` (implemented by `Shmtx` and `AcceptMutex`); an abstract allocator (planned).

## 3. Modules and the code

| module | models | a step is |
|---|---|---|
| `AbstractMutex` | what a mutex that survives the death of its owner promises: it changes hands through free, only its owner or, for a dead owner, the master releases it, and a dead process returns only after that | acquire, release, die, recover, restart |
| `Shmtx` | `ngx_shmtx.c`, `ngx_unlock_mutexes()` | one atomic instruction or semaphore call |
| `Rwlock` | `ngx_rwlock.c` on a word of `Width` bits | one access to the word |
| `ThreadPool` | `ngx_thread_pool.c` with the pthread wrappers and `ngx_notify()` | a critical section, a handler |
| `AcceptMutex` | `ngx_process_events_and_timers()`, `ngx_event_accept()` and what they call | what a worker does between two operations on the mutex or a socket |
| `Connections` | `ngx_connection.c` (slots), the epoll batch, posted events, timers | one call of a handler into these, one test of an entry of the batch |
| `Master` | `ngx_master_process_cycle()`, `ngx_process.c`, the channels | one part of the loop's body |
| `Request` | `ngx_http_request.c` from the first handler to the freed request, `ngx_http_subrequest()`, redirects, the postpone filter, SSI includes, the end of upstream answers | one call the worker's thread makes for the request |
| `RequestBody` | the same with a body that is discarded | |
| `Upstream` | `ngx_http_upstream.c`, the round robin balancer, kept connections | an event handler, or a part of it between two uses of the shared counters |
| `FileCache` | `ngx_http_file_cache.c` and the decisions of `ngx_http_upstream.c` about it | a section under the mutex of the zone, or a file operation |
| `Tls` | `tls_do_handshake()` for the three protocols and both sides, records, `tls_send/recv/shutdown()`, the main loops of the tools | one record sent or received, with its checks |
| `Counting` | lemmas on cardinalities, on sums over finite sets, on largest elements and on queues, which the proofs share | |
| `ShmtxProofs`, `RwlockProofs`, `ThreadPoolProofs`, `AcceptMutexProofs`, `UpstreamProofs`, `FileCacheProofs`, `ConnectionsProofs` | the proofs about the module of that name | |
| `MC*` | the constants' values for TLC | |

`map` in `PROJECT.json` names the lines behind every definition. The forms listed under `mutants` are
deliberate mistakes that some property must catch; no specification uses them. `TypeOK` states the types of a module's variables; it is
proved for `Shmtx`, `Rwlock`, `ThreadPool`, `AcceptMutex`, `Upstream` and `Connections`.

**Shmtx.** `lock`, `wait`, `sem` are `*mtx->lock`, `*mtx->wait` (read as signed, as line 184 casts it) and the semaphore.
`Trylock`, `Lock`, `Attempt`, `Register`, `Reattempt`, `Unregister`, `SemWait`, `SemWaitFails`, `Unlock`, `WakeRead`,
`WakeCas`, `WakePost` are the statements of a worker; `Kill` ends it anywhere; `Reap`, `ForceUnlock` and `Respawn` are the
master. `*lock == 0 && cmp_set(lock, 0, pid)` is one step since it has no effect when either half fails. The rounds of the spin
loop are repetitions of `Attempt`. `semaphore = FALSE` is the mutex without a semaphore (`sem_init()` failed or
`spin == -1`), which yields instead of sleeping. Two history variables, `stale` and `lost`, record what kills and
failed `sem_wait()` calls left behind; they only appear in properties.

**Rwlock.** `hold` is a history of what each process was granted, against which the word is compared. `rlock()` reads and
compares in two steps, `unlock()` and `downgrade()` read, choose and write in two. All arithmetic is modulo `2^Width`.

**ThreadPool.** A section under `tp->mtx` or the done lock is one step, as all it touches is only touched under that lock. The
condition variable may wake spuriously. `notified` is the eventfd with its edge-triggered event.
`Complete`/`Return` walk the chain of done tasks; a completion handler may post its own task again while the chain is walked.
`PostExit`, `Spin` and `Destroyed` are `ngx_thread_pool_destroy()`. `cond_signal()`, `cond_wait()` and the write to the eventfd may fail.

**AcceptMutex.** One action per outcome of each call: `Trylock`/`TrylockFails`, `Enable`/`EnableFails`, `Wait`, `Dispatch`,
`RunPosted`, `Accept`, `NotReady`, `Aborted`, `Emfile`, `ReorderFails`, `Release`, `Expire`, `Close`, `Quit`. `UseMutex` is
`ngx_use_accept_mutex`, `Skip` the cycle that `ngx_accept_disabled` skips. The mutex is used through `trylock`, `unlock` and
`force_unlock` only, each one step; that this is sound is what `MutexRefinement` proves of `Shmtx`. Level-triggered epoll: a
watched socket with a backlog is reported.

**Connections.** `pool` is a record of everything that refers to slots. A slot's use is numbered by the history `gen`; the code
has one bit of it. A handler may make any sequence of calls, so each call is an action allowed while a handler runs
(`Get`, `Close`, `Control`, `SetTimer`, `DelTimer`, `Post`, `PostNext`, `Reuse`, `Emfile`), except what nginx's
handlers never do: touch a closed connection of their own. Two calls run handlers of other connections in the middle and are several steps:
`ngx_get_connection()` is `Get`, one `Drain` for each reusable connection it closes, and `Take`; the shutdown is `Quit`, which closes the
listening socket between two cycles, and one `CloseIdle` for each handler of an idle connection, after which the worker runs what those handlers
posted. `call` is the state of `ngx_get_connection()` meanwhile. `Moved` is `ngx_event_move_posted_next()`, before `epoll_wait()`. `skew` records, for an event that passed the test for stale events,
how many uses of the slot it is behind.

**Master.** All signals are blocked except in `sigsuspend()`, so `Suspend` takes all pending ones at once and the
parts of the body follow in the order of the code. Children take steps, and signals arrive, only while the master sleeps: the
body does not look at what children do, so any later moment gives the same result. A channel pair is one number and a new
pair takes the lowest free number, as `socketpair()` does; that is what makes a stale number in the table meet
a new child. `kids` numbers children by `fork()`, so a pid is never used again.

**Request.** A worker has one thread, so everything between two events is a sequence of calls; `thread` is where it is, with the number of
enclosing calls that will still end in `finalize_request(NGX_DONE)`. `count`, `active` (`c->data`), `posted` and each request's `postponed`
list are the code's. `Emit`, `Last`, `HeaderOnly`, `Include`, `IncludeWait`, `Hold`, `Background`, `Redirect`, `GoUpstream` and `HandlerFails` are
what a content handler and the filters below it may do; the `Finish...` actions are the branches of `ngx_http_finalize_request()` in
its order; `Cleanup` and `Terminate` are `ngx_http_terminate_request()`, whose cleanup handlers finalize other requests. `Page` is the reference:
what the client should get, computed from what each request produced. The count is the 16-bit field of the code.
The write event of the connection is `client` (ready and buffered), `armed` (active), `delayed`, `timer` and `timedout`; `WaitWritable` is
`ngx_handle_write_event()` with the timer, and what its callers do when it fails; `WriterTimesOut`, `WriterDelayed`, `CallWriter` and `Written` are the
branches of `ngx_http_writer()`; `ClientWritable`, `StrayEvent`, `DelayEnds` and `WriteTimeout` are the ways the write event comes. `SubrequestFails` and
`FinishUnposted` are the allocations that fail in the middle of a change. `books` is history: holds taken for a termination (`pins`), holders whose hold a
failure took away (`lapses`), holds released by a cleanup handler (`given`), and whether a subrequest was made and not posted.

**RequestBody.** `Discard` and `BodyRead` add the body that `ngx_http_discard_request_body()` reads in the background, with one hold for
it and a copy of the flag in each subrequest.

**Upstream.** `peer` is the shared part of a server, `cache` a worker's kept connections, `req` the request. `Picked` is the weighted choice with
its arithmetic, `Freed` the accounting of a failure, `NextServer` `ngx_http_upstream_next()`. What a server has not sent or not received
on a connection is its `wire`; the code does not see it, the properties do. `Pass` is time: it ends `fail_timeout`.

**FileCache.** A request goes through `Found`/`Insert`/`Full`/`Retry` (lookup), `Open`, `Read`, `Lock`/`Busy`/`Wake` (the cache lock), a fetch that ends
in `Store`, `Rename`, `Update`, `Revalidated`, `Failed` or `NotCached`, and `Free`. `Delete`, `Unlink` and `Relock` are the deletion, which releases the
mutex in the middle; `ForcedByRequest`, `ForcedByManager` and `Expire` begin it. Ages are abstracted to what is compared. The size of the
files is kept but never read; the run's view leaves it out.

**Tls.** The step lists (`TlcpConnectHello` and so on) are the handshake functions in the order of their sends and receives; `Send` and `Receive`
interpret them with the checks of the message's type. The cryptography is ideal: a record opens under the same secret and number, a
signature or a Finished is accepted over the same transcript. A record may be changed (in a part that is computed with, in another part, or
beyond parsing) and a process killed, also in the middle of a record. `status` "spinning" is the loop of `tls_record_do_recv()` over the
body of a record when the peer is gone; "left" is a server that went back to `accept()` with the socket open.

## 4. Runs

| run | instance | shows | distinct states |
|---|---|---|---|
| `shmtx` | 3 workers, 1 call each, 1 kill, 1 failing `sem_wait()` | one holder, accounting, no lost wakeup, refinement and, with fairness, `Drained` | 120 thousand |
| `rwlock` | 3 processes, 3-bit word, 2 calls each, 1 death | exclusion, the word counts, everybody served | 83 thousand |
| `pool` | 2 threads, 3 tasks, room for one, 4 posts, 1 fault | queues, notification, shutdown, completion | 278 thousand |
| `accept` | 2 workers, a shared and a reuseport socket, with the mutex and multi_accept or without both, 2 EMFILE, 1 `epoll_ctl()` failure, 1 death | scope of the mutex and meaning of its flag, refinement, clients served | 1.0 million |
| `connections` | 1 slot and the listening one, 3 opens | which stale events pass, lists exact, references current; also with a full pool, drained or refusing | 706 thousand |
| `master` | 1 worker, 3 signals, 2 deaths, 1 failing fork, 1 rejected configuration | table and children agree, who exits was told, exits last, reload replaces, workers return, the master ends | 316 thousand |
| `master_reload` | 1 worker, 2 signals, 1 failure | SIGHUP after a failed SIGUSR2 does not reload | violation |
| `filecache` | 2 requests at a time, 3 in all, 2 keys, room for 1 node, manager, loader, 1 fault or death | references exact, marks owned | 3.1 million |
| `upstream` | 2 workers, 2 requests, 2 servers with a backup server or 1 alone, 1 death | counts exact, clean reuse, sent once, bounded retries, balanced weights | 912 thousand |
| `request` | a page with 2 subrequests, 1 redirect, delay or stray event, 1 fault | count exact, nothing used after it is freed, order of the page, every request freed | 1.5 million |
| `request_body` | 2 subrequests and a discarded body, no fault | the hold of the body is released twice | violation |
| `tls` | 3 protocols, all 18 combinations of certificates, 2 lines of data, 2 faults | agreement, no false alarm, calls return | 160 thousand |

**Why the bounds are enough.** *Shmtx*: a lost wakeup takes one holder, one process between a failed attempt and sleeping, and a third
that registers or wakes at the same time; the theorems cover all other sizes. *Rwlock*: an upgrade of a count to the written value, or a
lost reader, takes two readers and a writer; the 3-bit word leaves the values between three readers and 7 unused as the real
word does. *ThreadPool*: two threads race for one task, the queue holds one, the third task is refused, and four posts let a task be
posted again. *AcceptMutex*: one worker that holds and one that does not; two EMFILE are needed to
park both; `FreeN = 1` of `ConnN = 16` makes `ngx_accept_disabled` positive by the code's own formula as soon as one connection is
taken. *Connections*: with one slot besides the listening one the pool is full after one open, so that the next one drains it or is refused; three opens
use a slot twice more within one batch, where the one-bit instance repeats; the handler of the listening socket closes another connection
than its own. Two such slots with two opens satisfy the same invariants (1.2 million states), and the theorems cover all sizes. *Master*: three signals reach the upgrade sequences, two deaths a worker and its successor or the new
binary; two workers with two signals, where the table gets holes, satisfy the same invariants (694 thousand states). `KillDelay` is 3 instead of 6
doublings, which shortens the wait for SIGKILL only. *FileCache*: the hazards are between a request that deletes, or takes a lock over, and one that
looks the same node up; three starts let a slot be used again; one node for two keys forces eviction, and `MinUses` 2 for one key lets
a node exist without a file. *Upstream*: a retry, its refund, a switch to the backup server and a second request that meets a counter in between; the
weights 2 and 1 make the choice differ from plain alternation; `MaxConns` 1 on one server is reached. *Request*: two
subrequests are nested or side by side, one is ready before the other, waited for or in the background; one buffer before the last is what
has to be held back. The main request and one subrequest, whose answer is cached, may have their content from a server. A delay, a redirect and a
stray event share one bound, the failures another: one of each meet in every order. *Tls*: two faults are a changed record whose alert is lost, or a record changed in each direction.

**Deadlock.** All runs say `CHECK_DEADLOCK FALSE`: calls, clients, signals, requests and faults are bounded, and a system that has used them up
may rest; a master, a request or a connection that ended, too. That nothing rests too early is what the liveness properties check.

## 5. Fairness

* `Shmtx`, `Rwlock`: a live process inside the lock code or holding the lock is scheduled again (weak fairness; the scheduler). Nobody has
  to call, nobody has to die; the master handles SIGCHLD. With finitely many calls weak fairness is enough although both locks
  may starve one process as long as others keep calling; the properties (`Drained`, `EveryoneServed`) are about finitely many calls.
* `ThreadPool`: threads run, tasks end, the event loop comes back to `epoll_wait()`. Nobody has to post or to exit.
* `AcceptMutex`: workers run; `epoll_wait()` returns when there is an event or a timeout; a timer that stays set expires. Events of other
  connections, on which an unbounded `epoll_wait()` depends, are promised by nobody: hence the exception `Parked`.
* `Master`: the master runs whenever it is not asleep or a signal is pending; an armed interval timer expires; a child that does not hang
  obeys and ends (strong fairness, because the model takes these steps only while the master sleeps).
  `MasterFair` is weak fairness of `MasterStep` written without `ENABLED`: only steps of the master change `pc` or `flags`.
* `Request`: one weak fairness (`Due`): the worker's thread goes on (it never blocks), and when it waits and something is due, something that is
  due happens: a client that is connected reads, a delay by `limit_rate` ends, a server ends its answer. A send timer is promised only for a client
  that was given up before (`GivenUp`), when the answer is read on for the cache alone; elsewhere timers may come or not, so that none can hide
  a lost wake-up: `Freed` does not need them.
* `Upstream`, `FileCache`: no fairness, only safety is claimed; what a server or a file system does is promised by nobody.
* `Tls`: both processes run (handshake, close, the read in `tls_shutdown()`, the server's loop); the user need not type and the network
  need not fail.

## 6. What the checks found

Findings (violation runs):

1. *SIGHUP after a failed SIGUSR2* (`ngx_process_cycle.c:214`): `ngx_new_binary` is -1, which the test `if (ngx_new_binary)` takes for a
   running new binary. The configuration is not read and a second set of workers is started beside the old one.
   `man/nginx.8` promises a reload.
2. *A discarded body and subrequests* (`ngx_http_core_module.c:2458`): the body holds the main request once, but every subrequest gets a copy of
   `discard_body` and of the length that is left, and releases the hold when its copy is used up. `ngx_http_close_request()` logs an alert when
   the count is zero already; `request_body` shows the count of an unfinished request reach zero.

Where a comment or a note says something else than the code (read in passing, without a run of their own):

* `waiting` in the thread pool (`core/ngx_thread_pool.c:32`): the comment says the number of waiting threads; the code keeps the queue's length
  less the waiting threads, as `PoolWaitingCounts` proves.
* Note 13 (line 115) shows the accept mutex released inside `ngx_event_accept()`; the code releases it after all posted accept events
  (`event/ngx_event.c:257`).
* `sh->size` of the cache: a node that is looked up while its file is deleted keeps an `fs_size` that was already subtracted
  (`ngx_http_file_cache.c:1923`), and an expired error resets `fs_size` without subtracting it (line 904), so the sum drifts from
  the files. Nothing but the eviction threshold reads it.
* `tls.c` says of a received alert that the caller should not answer; the handshake functions answer any failed receive with an alert.

Conditions the properties name because TLC reaches them:

* `Shmtx`: a kill inside the mutex code can take a wakeup with it (`lost`), after which sleepers wait for the next unlock; a failed `sem_wait()` leaves a
  registration behind (`stale`) that only costs spurious posts.
* `AcceptMutex`: after two EMFILE all workers may be `Parked`: the cycle that `ngx_accept_disabled` skips does not bound its `epoll_wait()`.
  `ngx_accept_mutex_held` outlives the lock; skipped cycles accept without the lock and unlock without owning it, which the compare
  in `ngx_shmtx_unlock()` makes harmless. Failing `epoll_ctl()` in `ngx_reorder_accept_events()` leaves a socket unwatched.
* `Connections`: `ngx_close_listening_sockets()` frees a slot whose EMFILE timer is still set (`LeftBehind`); a slot used
  twice more within one batch receives a stale event (`StaleFiltered` says exactly that).
* `ThreadPool`: a failed `cond_signal()` leaks the task; a thread lost to a failed `cond_wait()` makes `destroy()` spin for ever; a failed
  notification leaves tasks in the done queue until the next one.
* `Master`: a SIGHUP during an upgrade starts workers without setting `live`, so a following SIGQUIT or SIGTERM may end the master before them
  (`ExitsLast` excepts an upgrade); a failed respawn is retried only at the next SIGCHLD and leaves channel numbers in the slot that can
  make the next child close its own channel and exit with code 2; `live` is set even when no fork succeeded, after which SIGTERM
  does not end the master (`Deserted`); a rejected configuration delays `ngx_restart` until the next signal.
* `Upstream`: the uses of a server by a worker that died are counted for ever (`leaked`), and with `max_conns` use it up.
* `FileCache`: the references of a dead worker stay too (`dead`), and its mark UPDATING stays until another request takes the lock over.
* `Request`: when `epoll_ctl()` fails to watch a full socket, `ngx_http_set_write_handler()` (`ngx_http_request.c:2791`) and `ngx_http_writer()` (lines 2833
  and 2857) close the request although its holders stay (`books.lapses`). The first may free the request, on which its callers (2529, 2599) then call
  `ngx_http_terminate_request()`; the second leave the count one too small, so that a subrequest brings it to 0 at line 2563 without freeing
  the request, and the last close wraps it to 65535. `CountExact` says by how much the count is off, `Unused` and `Freed` except that failure.
  `ngx_http_subrequest()` without memory leaves an active request that is never posted (`ngx_http_core_module.c:2438`, `:2494`, `books.unposted`),
  and the page waits for a timer. A failed post of the parent (2584) and the shutdown timer hold the request for good (`books.pins`), until it is terminated.
* `Tls`: the loop over the body of a record does not test `recv()` for 0 (`tls.c:1515`), so a peer that dies within a record leaves the other side
  spinning; a server that could not read goes back to `accept()` and leaves the socket open (`tools/tlcp_server.c:182`, marked FIXME there), so a
  client in `tls_shutdown()` waits for ever. `CallsReturn` names both.

A remark on compiling: `ngx_thread_pool.c:24` has a `//` comment after the backslash of a macro, which breaks a build `--with-threads`.

## 7. What is proved

TLAPS proves the following for every finite set of processes or threads and every value of the bounds, from the `ASSUME`s of the
modules, which TLC evaluates in the runs.

| theorem | from | along |
|---|---|---|
| `TypeCorrect`, `MutexSafe`, `TokensCounted`, `NoWakeupLost`, `MutexRefinement` | `Procs` finite, `Master` and `Free` no workers | see below |
| `RwTypeCorrect`, `RwExclusion`, `RwWordCounts`, `RwOrphanBlocks` | fewer processes than the largest value of the word | `RwInv` = type, `PointInv` (what a process holds at each point of the code), `Exclusion`, `WordCounts` |
| `PoolTypeCorrect`, `PoolWaitingCounts`, `PoolQueueBound`, `PoolWorkConserving`, `PoolDoneNotified`, `PoolOnePlace`, `PoolDestroyedUnused` | threads finite and at least one, the exit task no other task | type with two facts on program points, then the counters, then each property on top; `PlaceInv`, `ExitInv` |
| `AcceptTypeCorrect`, `AcceptPhaseHolds`, `AcceptImplementsMutex` | workers finite, each reuseport socket owned by one of them, the free connections no more than all | `AcceptInv` = type, `AcceptPhase`, `CycleOK` |
| `UpstreamTypeCorrect`, `ConnsExactHolds`, `CleanReuseHolds`, `SentOnceHolds`, `RetryBoundHolds`, `WeightsBalancedHolds` | servers, workers and requests finite, a server once in a group, at least one primary server, weights at least 1 | `UpstreamInv` = types, `ReqOK` of every request, `ConnsExact`, `WeightsBalanced` |
| `CountExactHolds`, `UpdatingOwnedHolds` | keys, nodes and requests finite, `None` none of them, the manager no request | `CacheInv` = `ReqInv`, `NodeInv`, `CountExact`, `UpdatingOwned` |
| `ConnTypeCorrect`, `FreeListExact`, `ReferencesCurrent`, `StaleEventsFiltered` | slots finite, the listening one among them, at least one socket number | `ConnInv` = `PoolOK`, `CycleOK`, `BatchOK`, `StaleFiltered` |

*The mutex.* `MutualExclusion` follows from `LockInv`: a process at a point where it holds is named by the lock word, the word names
only such processes or dead ones, and while the master reaps a worker it is still dead and, past `force_unlock`, no longer named. Without the
last two conjuncts a respawned worker could lose a lock it has just taken. `TokenAccounting` (with: `stale` is negative only after `lost`) is
inductive given `LockInv`; each step moves one process between the sets it counts, and `CountMove` of `Counting` says what
that does to the cardinality. `NoLostWakeup` needs both: the dangerous step is a wakeup that reads `wait <= 0`
and posts nothing. By the accounting, a sleeper is then matched by a posted token or a post under way, or by `stale < 0` and
so by `lost`. `MutexRefinement` maps the lock word to the owner and the dead program points to the dead processes; each step is
shown to be a step of `AbstractMutex` or to leave both alone.

*The read-write lock.* `WordCounts` is not inductive alone: `unlock()` decides by a value it read a step before. `PointInv` says that
what it decided agrees with what it holds; `Exclusion` gives that no reader exists when `downgrade()` stores 1.
`RwOrphanBlocks` is an action property: no step makes the word 0 while a dead process holds the lock.

*The thread pool.* `WaitingCounts` with `waiting <= MaxQueue` is inductive and gives `QueueBound`. `WorkConserving` compares the queue
with the woken threads: a post adds to both as long as a thread sleeps, and a thread takes at most one task.

`OnePlace` counts the copies of a task over the queue, the threads, the done queue and the batch; every step moves one copy, or
none. `PlaceInv` adds that a leaked task keeps its `event.active`, which is what refuses a second post of it. `DestroyedUnused` needs the
bookkeeping of `ngx_thread_pool_destroy()`: at most one exit task is under way, it is the last of the queue, and each completed round
has made one thread leave (`ExitInv`). So all threads are gone after as many rounds as there are threads, and the queue is empty.

*The accept mutex.* `AcceptPhase` does not survive a cycle by itself, since `ngx_accept_mutex_held` outlives the lock. `CycleOK`
says how far they may differ: the owner has the flag, except between the trylock and the adding of the events and when it is dead; a worker
that could not lock does not post its events; without the mutex the flag is never set, with it no listening socket has a timer. Each step then is a
step of `AbstractMutex` or leaves the owner and the dead workers alone.

*Upstream.* `ReqOK` says what a request has at each point: `Holds` (a server from the choice until the request is finalized),
`WireOK` (what its connection may still carry, and which flags say so), `OnceOK` (a request that must not be repeated asks for
a server only while nothing was sent) and `RetryOK` (the tries that failed and those that are left make up at most what the
balancer gave). `CleanReuse`, `SentOnce` and `RetryBound` follow from it for each request; `ConnsExact` is the count of requests that hold a server, one of
which a step moves. `WeightsBalanced` is a sum over the servers of a group. A sum is defined by a fold and `Counting` derives what adding an
element does to it, with an induction over finite sets stated for a set of sets rather than for an operator, which the provers can use. A choice
raises every server by its weight and lowers one of those with the largest value by the total, so the sum is what it was before.

*The disk cache.* `ReqInv` says what a request, and whoever deletes a node, has at each point between two sections under the mutex: a node
where the code goes on to use one, and the mark `updating` only past the lookup it was set in. `NodeInv` says that the inactive queue holds the
allocated nodes, each once. Every action is one of: a step that moves no reference, a request that gets a node or gives it back, a new node, the deletion of
a node or its taking up again, a death; for each kind a lemma shows that it keeps both invariants. `UpdatingOwned` hangs on
`ngx_http_file_cache_free()` and on the takeover of an aged lock, which must not leave a mark that no live request will take away.

*The connections.* Everything that refers to a slot is in one record, so `PoolOK` is stated of a record and shown to be kept by each function of
`ngx_connection.c` and the queues; an action is then one or two of these. `FreeExact` (the free list and its counter are the slots without a
socket) and `RefsCurrent` (a timer, a posted event or a place among the reusable ones belongs to the present use of an open slot) need each other: a
slot is freed by a close that first takes its references away, and a slot that is taken has none. They also need what neither states: a
socket is in one slot only, the listening slot stays in its first use until the shutdown, and nothing is posted between two cycles, when the
shutdown frees that slot without looking at the queues (its timer it does leave behind, which is the exception `LeftBehind`). `StaleFiltered`
rests on `BatchOK`: the instance is the lowest bit of the number of uses, in the slot and in every entry that `epoll_wait()` returned, so an entry
that passes the test is an even number of uses behind. What the proof adds to the run here is the number of uses, which the run has to bound.

*What the proofs changed.* They led to no change of a property. In `Connections`, the drain of reusable connections and the closing of idle ones were
one step each; as steps of their own they show the states between two handlers, and that a pool has to be full before a drain, which
the run's instance now makes happen; and the shutdown now goes on to the posted events as
`ngx_worker_process_cycle()` does. In `Upstream` and `FileCache`, choices by overlapping `CASE`s (whose value TLA+ leaves
open where two apply) are written with `IF` in the order of the code, and `Without` removes a node from the queue at its
place, as `ngx_queue_remove()` does.

Only model-checked:

* all liveness properties (`Drained`, `EveryoneServed`, those of the pool, of the accept mutex, of the master, `Freed`, `CallsReturn`): fairness and
  `ENABLED` are beyond the prover;
* the invariants and action properties of `Master`: its definitions fold a call over the table of processes, and what a fold does for every
  input is an induction over data;
* the invariants of `Request`: `InOrder` compares what was sent with a page defined by recursion over the tree of requests, again an induction over
  data; `CountExact` and `Unused` depend on the order in which posted requests run, and wait for the invariant on that tree (section 2);
* `Agreement` and `NoFalseAlarm` of `Tls`: the step lists are fixed sequences that the model interprets, all of which TLC covers; the constants
  that are left (faults, lines of data) only bound repetitions, so a proof would add the least here;
* `TypeOK` of `FileCache`: `ReqInv` and `NodeInv` contain the parts of it the two theorems need.

## 8. Not modelled, and why

* The `fcntl()` variant of the mutex, other event methods, the Windows port: not compiled.
* Cache manager and loader, the single-process mode, the pid file's names, SIGIO, the numbers workers pass over channels:
  they do not change what the properties of `Master` speak of.
* UDP (`ngx_event_recvmsg`), file AIO, the setup of an accepted connection, opening of listening sockets: data or start-up.
* Slab, timers and tree, limits, configuration cycle: planned.
* Within the modelled parts of HTTP: reading and parsing a request, the phases, keep-alive and lingering close (a request ends with its
  connection), `post_action`, file AIO and threads inside a request, subrequests in memory, TLS to servers, upgraded connections, the relaying of a body
  in more than one step, the content of cache headers, and the other balancers.
* Failures no property could tell from others, or that take a broken primitive: `sem_post()` (`ngx_shmtx.c:196`), locking and unlocking a
  pthread mutex (`ngx_thread_pool.c:239`, `:307`, `:330`), `ev->timedout` that stays set when `ngx_enable_accept_events()` fails
  (`ngx_event_accept.c:37`), `fcn->uses` that wraps after 1023 uses (the model keeps what reaches `min_uses`).
* In `Request`: `r->aio` (no file AIO in the build), deleting the read event in `ngx_http_test_reading()` (only level-triggered event methods),
  `sendfile_max_chunk` (what it leaves is taken for a full socket), what happens after a request was freed under its caller.
* HTTP/2, mail, stream, resolver, open file cache, parsers, containers, logging, memory pools: protocols and data on top of
  the infrastructure, largely sequential and covered by tests.
* GmSSL: ciphers, signatures and encodings are arithmetic and data out of TLC's reach. Of the handshakes: the content of messages and extensions,
  certificate chains beyond right and wrong, sides that speak different protocols, damaged lengths of records.
* libev demos, notes, archives: no system of their own.

## 9. Running

`tlc -config Shmtx.cfg MCShmtx` runs a model; the pairs of module and configuration are in `PROJECT.json` under
`runs`. `tlapm ShmtxProofs.tla` checks a proof module.
