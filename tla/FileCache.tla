----------------------------- MODULE FileCache -----------------------------
(***************************************************************************)
(* The disk cache of responses: src/http/ngx_http_file_cache.c with the    *)
(* decisions src/http/ngx_http_upstream.c takes for a request that may be  *)
(* answered from it.  Workers, the cache manager and the cache loader      *)
(* share the nodes (one per cached key), their inactive queue and the size *)
(* of the files, under the mutex of the zone; the files themselves are     *)
(* opened, renamed into place and deleted without it.                      *)
(*                                                                         *)
(* A section under the mutex is one step, and so is a file operation.      *)
(* Times are abstracted to what is compared: a response is fresh or stale, *)
(* a cached error is valid or not, a lock has its age or not.  Every file  *)
(* has size 1.  A request slot stands for one request of some worker; the  *)
(* death of that worker takes the request with it and nothing else.        *)
(***************************************************************************)
EXTENDS Integers, SequencesExt

CONSTANTS
    Keys,        \* cache keys
    Nodes,       \* what the slab of the zone has room for
    MinUses,     \* proxy_cache_min_uses where each key is used
    OnDisk,      \* keys whose files an earlier run may have left
    Reqs,        \* requests at a time
    Manager,     \* the cache manager process
    None,        \* no key, node or request
    MaxStarts,   \* bound: requests started
    MaxFaults    \* bound: files not renamed or not deleted, and dead workers

ASSUME CacheAssumption ==
    /\ IsFiniteSet(Keys) /\ IsFiniteSet(Nodes) /\ IsFiniteSet(Reqs)
    /\ OnDisk \subseteq Keys
    /\ MinUses \in [Keys -> 1..2]
    /\ None \notin Keys \cup Nodes \cup Reqs
    /\ Manager \notin Reqs \cup {None}
    /\ MaxStarts \in Nat /\ MaxFaults \in Nat

Deleters == Reqs \cup {Manager}

VARIABLES
    node,     \* ngx_http_file_cache_node_t, see Node
    queue,    \* sh->queue, the most recently used first
    size,     \* sh->size
    cold,     \* sh->cold
    loader,   \* the loader: what it does, to which key
    toload,   \* the files the loader has not come to
    file,     \* the cache files
    req,      \* ngx_http_cache_t of each request, see Req
    del,      \* what each process in ngx_http_file_cache_delete() deletes
    locks,    \* the values lock_time has had
    starts, faults,   \* counted for the bounds
    dead      \* history: references to each node that died with a worker

loading == <<cold, loader, toload>>
counts  == <<starts, faults>>
vars    == <<node, queue, size, cold, loader, toload, file, req, del, locks, starts,
             faults, dead>>

Node == [key      : Keys \cup {None},      \* None: not allocated
         count    : Nat,
         uses     : 0..2,                  \* only compared with min_uses
         exists   : BOOLEAN,
         error    : BOOLEAN,
         valid    : BOOLEAN,               \* valid_sec of the error is not over
         updating : BOOLEAN,
         lock     : Nat,                   \* lock_time, 0 when never set
         aged     : BOOLEAN,               \* lock_time has passed
         deleting : BOOLEAN,
         size     : 0..1]                  \* fs_size

Points == {"idle", "lookup", "forced", "alloc", "open", "read", "check", "lock",
           "wait", "fetch", "store", "renamed", "unrenamed", "serve"}

Req == [pc        : Points,
        key       : Keys \cup {None},
        main      : Keys \cup {None},      \* c->main, when c->secondary is set
        node      : Nodes \cup {None},
        for       : {"open", "store"},     \* what the lookup is made for
        cacheable : BOOLEAN,               \* u->cacheable
        error     : BOOLEAN,               \* c->error
        updating  : BOOLEAN,
        lock      : Nat,                   \* c->lock_time
        waited    : {"no", "yes", "timeout"},
        read      : {"no", "fresh", "stale"},   \* the header that was read
        same      : BOOLEAN,               \* ... is of the file that is there now
        parent    : Reqs \cup {None}]      \* whose background update this is

FreeNode == [key |-> None, count |-> 0, uses |-> 0, exists |-> FALSE, error |-> FALSE,
             valid |-> FALSE, updating |-> FALSE, lock |-> 0, aged |-> TRUE,
             deleting |-> FALSE, size |-> 0]

Idle == [pc |-> "idle", key |-> None, main |-> None, node |-> None,
         for |-> "open", cacheable |-> TRUE, error |-> FALSE, updating |-> FALSE,
         lock |-> 0, waited |-> "no", read |-> "no", same |-> FALSE, parent |-> None]

NoDelete == [pc |-> "no", node |-> None]

Known(k) == [FreeNode EXCEPT !.key = k, !.uses = 1, !.exists = TRUE, !.size = 1]

\* A zone that is new, with files of an earlier run, or one that was loaded.
Init ==
    /\ \/ /\ cold = TRUE /\ loader = [pc |-> "walk", key |-> None]
          /\ toload \in SUBSET OnDisk
          /\ node = [n \in Nodes |-> FreeNode]
          /\ queue = <<>>
       \/ /\ cold = FALSE /\ loader = [pc |-> "done", key |-> None]
          /\ toload = {}
          /\ \E S \in SUBSET Nodes : \E f \in Injection(S, Keys) :
                /\ node = [n \in Nodes |-> IF n \in S THEN Known(f[n]) ELSE FreeNode]
                /\ queue = SetToSeq(S)
    /\ file = [k \in Keys |-> IF k \in toload \/ \E n \in Nodes : node[n].key = k
                              THEN "fresh" ELSE "none"]
    /\ size = Len(queue)
    /\ req = [r \in Reqs |-> Idle]
    /\ del = [d \in Deleters |-> NoDelete]
    /\ locks = 0 /\ starts = 0 /\ faults = 0
    /\ dead = [n \in Nodes |-> 0]

\* c->min_uses, of the location the request came to.
MinOf(c) == MinUses[IF c.main = None THEN c.key ELSE c.main]

Set(f, x, v) == [f EXCEPT ![x] = v]

\* Request r goes on as c, without what it does not need any more: the file it
\* read once the response is sent or stored, and how it waited.
Trimmed(c) ==
    IF c.pc \notin {"fetch", "store", "serve"} THEN c
    ELSE [c EXCEPT !.waited = "no",
                   !.read = IF c.pc = "fetch" THEN @ ELSE "no",
                   !.same = IF c.pc = "fetch" THEN @ ELSE FALSE,
                   !.cacheable = (c.pc # "fetch") \/ @]

Becomes(r, c) == req' = Set(req, r, Trimmed(c))

\* ngx_queue_remove() takes node n out of the queue q, where it is linked once.
Without(q, n) ==
    IF Contains(q, n) THEN RemoveAt(q, CHOOSE i \in 1..Len(q) : q[i] = n) ELSE q

Touched(n) == <<n>> \o Without(queue, n)

\* Node n has new values, or is removed from the queue and the tree and freed.
Keep(n, f) == node' = Set(node, n, f) /\ UNCHANGED queue
Drop(n) == node' = Set(node, n, FreeNode) /\ queue' = Without(queue, n)

\* Every open file of key k is another one than the file that is there now.
Replaced(k, rs) ==
    [r \in Reqs |-> IF rs[r].key = k THEN [rs[r] EXCEPT !.same = FALSE] ELSE rs[r]]

-----------------------------------------------------------------------------
(* A request starts. *)

\* The request may bypass the cache: it looks its key up when the response
\* comes.  The directives are those of a location, the zone may be shared.
Start(r) ==
    /\ req[r].pc = "idle" /\ starts < MaxStarts
    /\ starts' = starts + 1
    /\ \E k \in Keys, bypass \in BOOLEAN :
          Becomes(r, [Idle EXCEPT !.key = k,
                                  !.pc = IF bypass THEN "fetch" ELSE "lookup"])
    /\ UNCHANGED <<node, queue, size, loading, file, del, locks, faults, dead>>

-----------------------------------------------------------------------------
(* ngx_http_file_cache_exists() and what ngx_http_file_cache_open() makes of *)
(* its result; a lookup for "store" is that of a bypassed request or of the  *)
(* main key of a variant.                                                    *)

After(r, n, f, rc) ==
    LET c == [req[r] EXCEPT !.node = n, !.error = f.error]
    IN  IF c.for = "store" THEN [c EXCEPT !.pc = "store"]
        ELSE IF rc = "again" THEN [c EXCEPT !.pc = "fetch", !.cacheable = FALSE]
        ELSE IF rc = "ok"
        THEN [c EXCEPT !.pc = IF c.error THEN "serve" ELSE IF f.exists THEN "open" ELSE "lock"]
        ELSE [c EXCEPT !.cacheable = (MinOf(c) = 1),
                       !.pc = IF cold THEN "open"
                              ELSE IF MinOf(c) = 1 THEN "lock" ELSE "fetch"]

Renewed(f) ==
    [f EXCEPT !.valid = FALSE, !.error = FALSE, !.exists = FALSE, !.size = 0]

\* The node is there, or the request has it already.  Of fcn->uses only what
\* reaches min_uses is kept: that its 10 bits wrap is left out.
Found(r) ==
    /\ req[r].pc = "lookup"
    /\ \E n \in Nodes, over \in BOOLEAN :
          LET first == req[r].node = None
              f     == IF first THEN [node[n] EXCEPT !.uses = Min({2, @ + 1}),
                                                     !.count = @ + 1]
                                ELSE node[n]
              renew == f.error /\ (~f.valid \/ over)
              rc    == IF renew THEN "declined"
                       ELSE IF f.error \/ f.exists \/ f.uses >= MinOf(req[r]) THEN "ok"
                       ELSE "again"
              g     == IF renew THEN Renewed(f) ELSE f
          IN /\ over => f.error
             /\ IF first THEN node[n].key = req[r].key ELSE n = req[r].node
             /\ node' = Set(node, n, g)
             /\ queue' = Touched(n)
             /\ Becomes(r, After(r, n, g, rc))
    /\ UNCHANGED <<size, loading, file, del, locks, counts, dead>>

Insert(r, n) ==
    LET f == [FreeNode EXCEPT !.key = req[r].key, !.uses = 1, !.count = 1]
    IN /\ node[n].key = None
       /\ node' = Set(node, n, f)
       /\ queue' = Touched(n)
       /\ Becomes(r, After(r, n, f, "declined"))

Missing(r) == req[r].node = None /\ \A n \in Nodes : node[n].key # req[r].key

\* A new node; the slab has room.
NotFound(r) ==
    /\ req[r].pc = "lookup" /\ Missing(r)
    /\ \E n \in Nodes : Insert(r, n)
    /\ UNCHANGED <<size, loading, file, del, locks, counts, dead>>

\* The slab is full: the mutex is released to make room.
Full(r) ==
    /\ req[r].pc = "lookup" /\ Missing(r)
    /\ \A n \in Nodes : node[n].key # None
    /\ Becomes(r, [req[r] EXCEPT !.pc = "forced"])
    /\ UNCHANGED <<node, queue, size, loading, file, del, locks, counts, dead>>

\* The second allocation; the key is not looked up again.
Retry(r) ==
    /\ req[r].pc = "alloc"
    /\ \/ \E n \in Nodes : Insert(r, n)
       \/ /\ \A n \in Nodes : node[n].key # None
          /\ Becomes(r, Idle)
          /\ UNCHANGED <<node, queue>>
    /\ UNCHANGED <<size, loading, file, del, locks, counts, dead>>

-----------------------------------------------------------------------------
(* The file is opened and read. *)

\* How old the response is, is seen when it is read.
Open(r) ==
    LET k == req[r].key
    IN /\ req[r].pc = "open"
       /\ \/ /\ file[k] = "none"
             /\ Becomes(r, [req[r] EXCEPT !.pc = IF req[r].cacheable THEN "lock" ELSE "fetch"])
             /\ UNCHANGED file
          \/ /\ file[k] # "none"
             /\ \E age \in {file[k], "stale"} :
                   /\ file' = Set(file, k, age)
                   /\ Becomes(r, [req[r] EXCEPT !.pc = "read", !.cacheable = TRUE,
                                                !.read = age, !.same = TRUE])
       /\ UNCHANGED <<node, queue, size, loading, del, locks, counts, dead>>

\* ngx_http_file_cache_read(): the header is damaged, or of another variant
\* although the variant's own key was used.
Damaged(r) ==
    /\ req[r].pc = "read"
    /\ Becomes(r, [req[r] EXCEPT !.pc = "fetch", !.read = "no", !.same = FALSE])
    /\ UNCHANGED <<node, queue, size, loading, file, del, locks, counts, dead>>

\* ngx_http_file_cache_reopen(): the response varies, this request goes on
\* with the key of its variant.
Reopen(r) ==
    /\ req[r].pc = "read" /\ req[r].main = None
    /\ \E v \in Keys \ {req[r].key} :
          Becomes(r, [req[r] EXCEPT !.pc = "lookup", !.key = v, !.main = req[r].key,
                                    !.node = None, !.read = "no", !.same = FALSE])
    /\ Keep(req[r].node, [node[req[r].node] EXCEPT !.count = @ - 1])
    /\ UNCHANGED <<size, loading, file, del, locks, counts, dead>>

\* The header is good; until the loader is through, the file may be new to
\* the node.
Read(r) ==
    /\ req[r].pc = "read"
    /\ LET n == req[r].node
           new == cold /\ ~node[n].exists
       IN /\ Keep(n, IF new THEN [node[n] EXCEPT !.uses = 1, !.exists = TRUE, !.size = 1]
                            ELSE node[n])
          /\ size' = IF new THEN size + 1 ELSE size
    /\ Becomes(r, [req[r] EXCEPT !.pc = IF req[r].read = "fresh" THEN "serve" ELSE "check"])
    /\ UNCHANGED <<loading, file, del, locks, counts, dead>>

\* The response is stale and somebody updates it: it is sent as it is, or
\* this request asks the upstream too.
Updating(r) ==
    /\ req[r].pc = "check" /\ node[req[r].node].updating
    /\ \E p \in IF req[r].parent = None THEN {"serve", "fetch"} ELSE {"fetch"} :
          Becomes(r, [req[r] EXCEPT !.pc = p])
    /\ UNCHANGED <<node, queue, size, loading, file, del, locks, counts, dead>>

\* The response is stale and this request updates it, by itself or by a
\* subrequest while it sends the stale response.
Stale(r) ==
    LET n == req[r].node
        c == [req[r] EXCEPT !.updating = TRUE, !.lock = node[n].lock]
        k == IF c.main = None THEN c.key ELSE c.main
    IN /\ req[r].pc = "check" /\ ~node[n].updating
       /\ Keep(n, [node[n] EXCEPT !.updating = TRUE])
       /\ \/ /\ Becomes(r, [c EXCEPT !.pc = "fetch"])
             /\ UNCHANGED starts
          \/ /\ c.parent = None /\ starts < MaxStarts
             /\ starts' = starts + 1
             /\ \E s \in Reqs :
                   /\ req[s].pc = "idle"
                   /\ req' = [req EXCEPT ![r] = [c EXCEPT !.pc = "serve"],
                                         ![s] = [Idle EXCEPT !.pc = "lookup", !.key = k,
                                                   !.parent = r]]
    /\ UNCHANGED <<size, loading, file, del, locks, faults, dead>>

-----------------------------------------------------------------------------
(* ngx_http_file_cache_lock(). *)

Fetch(r) == Becomes(r, [req[r] EXCEPT !.pc = "fetch"])

\* Without the directive nobody waits.
NoLock(r) ==
    /\ req[r].pc = "lock" /\ req[r].waited = "no"
    /\ Fetch(r)
    /\ UNCHANGED <<node, queue, size, loading, file, del, locks, counts, dead>>

Locked(f) == f.updating /\ ~f.aged

\* The lock is free, or lock_time has passed by now.
Lock(r) ==
    LET n == req[r].node
    IN /\ req[r].pc = "lock"
       /\ locks' = locks + 1
       /\ Keep(n, [node[n] EXCEPT !.updating = TRUE, !.lock = locks + 1, !.aged = FALSE])
       /\ Becomes(r, [req[r] EXCEPT !.pc = "fetch", !.updating = TRUE, !.lock = locks + 1])
       /\ UNCHANGED <<size, loading, file, del, counts, dead>>

\* The request waits, or has waited long enough and goes on without the cache.
Busy(r) ==
    /\ req[r].pc = "lock" /\ Locked(node[req[r].node])
    /\ \/ /\ req[r].waited # "timeout"
          /\ Becomes(r, [req[r] EXCEPT !.pc = "wait"])
       \/ /\ req[r].waited # "yes"
          /\ Becomes(r, [req[r] EXCEPT !.pc = "fetch", !.cacheable = FALSE])
    /\ UNCHANGED <<node, queue, size, loading, file, del, locks, counts, dead>>

\* ngx_http_file_cache_lock_wait().
Wake(r) ==
    LET n == req[r].node
    IN /\ req[r].pc = "wait"
       /\ \/ /\ Becomes(r, [req[r] EXCEPT !.pc = "lookup", !.waited = "timeout"])
             /\ UNCHANGED node
          \/ /\ Becomes(r, [req[r] EXCEPT !.pc = "lookup", !.waited = "yes"])
             /\ node' = Set(node, n, [node[n] EXCEPT !.aged = @ \/ node[n].updating])
       /\ UNCHANGED <<queue, size, loading, file, del, locks, counts, dead>>

-----------------------------------------------------------------------------
(* The response of the upstream. *)

\* Mutant: the mark is left to the next lookup.
FreeMarked(r, fails) ==
    LET c == req[r]
        n == c.node
        f == [node[n] EXCEPT !.count = @ - 1]
    IN /\ IF n = None THEN UNCHANGED <<node, queue>>
          ELSE IF c.error \/ fails
          THEN Keep(n, [f EXCEPT !.error = TRUE, !.valid = @ \/ fails])
          ELSE IF ~f.exists /\ f.count = 0 /\ MinOf(c) = 1 THEN Drop(n)
          ELSE Keep(n, f)
       /\ Becomes(r, Idle)
       /\ UNCHANGED <<size, loading, file, del, locks, counts, dead>>

\* ngx_http_file_cache_free(), with an error of this request that is cached
\* for some time or without.
Free(r, fails) ==
    LET c == req[r]
        n == c.node
        f == [node[n] EXCEPT !.count = @ - 1,
                             !.updating = @ /\ ~(c.updating /\ node[n].lock = c.lock)]
    IN /\ IF n = None THEN UNCHANGED <<node, queue>>
          ELSE IF c.error \/ fails
          THEN Keep(n, [f EXCEPT !.error = TRUE, !.valid = @ \/ fails])
          ELSE IF ~f.exists /\ f.count = 0 /\ MinOf(c) = 1 THEN Drop(n)
          ELSE Keep(n, f)
       /\ Becomes(r, Idle)
       /\ UNCHANGED <<size, loading, file, del, locks, counts, dead>>

\* The answer cannot be cached, or there is none and the stale response is
\* used, or the client goes away: the entry is left as it is.
NotCached(r) == req[r].pc = "fetch" /\ Free(r, FALSE)

\* An error that is cached in the node, without a file.
Failed(r) == req[r].pc = "fetch" /\ req[r].cacheable /\ Free(r, TRUE)

\* 304: the header of the file is written again, if it is still that file.
Revalidated(r) ==
    /\ req[r].pc = "fetch" /\ req[r].read = "stale"
    /\ file' = IF req[r].same THEN Set(file, req[r].key, "fresh") ELSE file
    /\ Becomes(r, [req[r] EXCEPT !.pc = "serve"])
    /\ UNCHANGED <<node, queue, size, loading, del, locks, counts, dead>>

\* The response is cacheable and is being received into a temporary file; a
\* bypassed request needs its node first (ngx_http_file_cache_create()).
Store(r) ==
    /\ req[r].pc = "fetch" /\ req[r].cacheable
    /\ Becomes(r, IF req[r].node = None
                  THEN [req[r] EXCEPT !.pc = "lookup", !.for = "store"]
                  ELSE [req[r] EXCEPT !.pc = "store"])
    /\ UNCHANGED <<node, queue, size, loading, file, del, locks, counts, dead>>

\* ngx_http_file_cache_update_variant(): the response is not of the variant
\* the request looked for; it is stored under the main key.
ToMain(r) ==
    /\ req[r].pc = "fetch" /\ req[r].cacheable /\ req[r].main # None
    /\ req[r].node # None
    /\ Keep(req[r].node, [node[req[r].node] EXCEPT !.count = @ - 1, !.updating = FALSE])
    /\ Becomes(r, [req[r] EXCEPT !.pc = "lookup", !.for = "store", !.node = None,
                                 !.key = req[r].main, !.same = FALSE])
    /\ UNCHANGED <<size, loading, file, del, locks, counts, dead>>

\* The response came short.
Incomplete(r) == req[r].pc = "store" /\ Free(r, FALSE)

\* ngx_http_file_cache_update() renames the temporary file, without the mutex.
Rename(r) ==
    /\ req[r].pc = "store"
    /\ file' = Set(file, req[r].key, "fresh")
    /\ req' = Set(Replaced(req[r].key, req), r, [req[r] EXCEPT !.pc = "renamed"])
    /\ UNCHANGED <<node, queue, size, loading, del, locks, counts, dead>>

\* The file is not renamed, or nothing is known about the renamed one.
RenameFails(r) ==
    /\ req[r].pc = "store" /\ faults < MaxFaults
    /\ faults' = faults + 1
    /\ \E moved \in BOOLEAN :
          /\ file' = IF moved THEN Set(file, req[r].key, "fresh") ELSE file
          /\ req' = Set(IF moved THEN Replaced(req[r].key, req) ELSE req, r,
                        [req[r] EXCEPT !.pc = "unrenamed"])
    /\ UNCHANGED <<node, queue, size, loading, del, locks, starts, dead>>

\* ... and tells the node.
Update(r) ==
    LET n  == req[r].node
        fs == IF req[r].pc = "renamed" THEN 1 ELSE 0
    IN /\ req[r].pc \in {"renamed", "unrenamed"}
       /\ Keep(n, [node[n] EXCEPT !.count = @ - 1, !.error = FALSE, !.size = fs,
                                  !.exists = @ \/ fs = 1, !.updating = FALSE])
       /\ size' = size + fs - node[n].size
       /\ Becomes(r, Idle)
       /\ UNCHANGED <<loading, file, del, locks, counts, dead>>

\* The response was sent from the cache, background update included.
Finish(r) ==
    /\ req[r].pc = "serve"
    /\ \A s \in Reqs : req[s].parent # r
    /\ Free(r, FALSE)

-----------------------------------------------------------------------------
(* ngx_http_file_cache_delete(), called with the mutex, by process d. *)

Delete(d, n, q) ==
    IF node[n].exists
    THEN /\ size' = size - node[n].size
         /\ node' = Set(node, n, [node[n] EXCEPT !.count = @ + 1, !.deleting = TRUE])
         /\ queue' = q
         /\ del' = Set(del, d, [pc |-> "unlink", node |-> n])
    ELSE /\ node' = Set(node, n, FreeNode)
         /\ queue' = Without(q, n)
         /\ UNCHANGED <<size, del>>

Unlink(d) ==
    /\ del[d].pc = "unlink"
    /\ LET k == node[del[d].node].key
       IN /\ file' = Set(file, k, "none")
          /\ req' = Replaced(k, req)
    /\ del' = Set(del, d, [del[d] EXCEPT !.pc = "relock"])
    /\ UNCHANGED <<node, queue, size, loading, locks, counts, dead>>

UnlinkFails(d) ==
    /\ del[d].pc = "unlink" /\ faults < MaxFaults
    /\ faults' = faults + 1
    /\ del' = Set(del, d, [del[d] EXCEPT !.pc = "relock"])
    /\ UNCHANGED <<node, queue, size, loading, file, req, locks, starts, dead>>

\* Mutant: a node that was taken meanwhile is freed all the same.
RelockFrees(d) ==
    /\ del[d].pc = "relock"
    /\ Drop(del[d].node)
    /\ del' = Set(del, d, NoDelete)
    /\ req' = IF d \in Reqs THEN Set(req, d, [req[d] EXCEPT !.pc = "alloc"]) ELSE req
    /\ UNCHANGED <<size, loading, file, locks, counts, dead>>

\* Somebody may have taken the node meanwhile: it stays as it is.
Relock(d) ==
    LET n == del[d].node
        f == [node[n] EXCEPT !.count = @ - 1, !.deleting = FALSE]
    IN /\ del[d].pc = "relock"
       /\ IF f.count = 0 THEN Drop(n) ELSE Keep(n, f)
       /\ del' = Set(del, d, NoDelete)
       /\ req' = IF d \in Reqs THEN Set(req, d, [req[d] EXCEPT !.pc = "alloc"]) ELSE req
       /\ UNCHANGED <<size, loading, file, locks, counts, dead>>

-----------------------------------------------------------------------------
(* The cache manager; a worker forces an expiry when the slab is full. *)

Held(n) == node[n].count > 0 /\ ~node[n].deleting

\* ngx_http_file_cache_forced_expire(): entries in use at the end of the queue
\* are moved to its head, 20 at most, the first other one is deleted, unless
\* somebody is about to.
Forced(d) ==
    LET low  == IF Len(queue) > 20 THEN Len(queue) - 20 ELSE 0
        ends == {i \in low + 1..Len(queue) : ~Held(queue[i])}
        i    == IF ends = {} THEN low ELSE Max(ends)
        q    == SubSeq(queue, i + 1, Len(queue)) \o SubSeq(queue, 1, i)
    IN /\ IF ends # {} /\ node[queue[i]].count = 0
          THEN Delete(d, queue[i], q)
          ELSE queue' = q /\ UNCHANGED <<node, size, del>>
       /\ UNCHANGED <<loading, file, locks, counts, dead>>

ForcedByRequest(r) ==
    /\ req[r].pc = "forced" /\ del[r].pc = "no"
    /\ Forced(r)
    /\ req' = IF del'[r].pc = "no" THEN Set(req, r, [req[r] EXCEPT !.pc = "alloc"]) ELSE req

\* The size, the number of nodes or the free space calls for it.
ForcedByManager ==
    /\ del[Manager].pc = "no"
    /\ Forced(Manager)
    /\ UNCHANGED req

\* ngx_http_file_cache_expire(): the last entry was not used for long enough.
Expire ==
    /\ del[Manager].pc = "no" /\ queue # <<>>
    /\ LET n == Last(queue)
       IN \/ node[n].count = 0 /\ Delete(Manager, n, queue)
          \/ Held(n) /\ queue' = Touched(n) /\ UNCHANGED <<node, size, del>>
    /\ UNCHANGED <<req, loading, file, locks, counts, dead>>

-----------------------------------------------------------------------------
(* The cache loader. *)

\* ngx_http_file_cache_add(), for a file that was there when the walk looked: it
\* may be gone by now.  Without room for a node the file is deleted.
Load(k) ==
    /\ loader.pc = "walk" /\ k \in toload
    /\ toload' = toload \ {k}
    /\ \/ file[k] = "none" /\ UNCHANGED <<node, queue, size, loader>>
       \/ /\ \E n \in Nodes : node[n].key = k /\ queue' = Touched(n)
          /\ UNCHANGED <<node, size, loader>>
       \/ /\ \A n \in Nodes : node[n].key # k
          /\ \E n \in Nodes :
                /\ node[n].key = None
                /\ node' = Set(node, n, [FreeNode EXCEPT !.key = k, !.uses = 1,
                                           !.exists = TRUE, !.size = 1])
                /\ queue' = Touched(n)
          /\ size' = size + 1 /\ UNCHANGED loader
       \/ /\ \A n \in Nodes : node[n].key \notin {k, None}
          /\ loader' = [pc |-> "unlink", key |-> k]
          /\ UNCHANGED <<node, queue, size>>
    /\ UNCHANGED <<cold, file, req, del, locks, counts, dead>>

LoaderUnlink ==
    /\ loader.pc = "unlink"
    /\ file' = Set(file, loader.key, "none")
    /\ req' = Replaced(loader.key, req)
    /\ loader' = [pc |-> "walk", key |-> None]
    /\ UNCHANGED <<node, queue, size, cold, toload, del, locks, counts, dead>>

Loaded ==
    /\ loader.pc = "walk" /\ toload = {}
    /\ cold' = FALSE /\ loader' = [pc |-> "done", key |-> None]
    /\ UNCHANGED <<node, queue, size, toload, file, req, del, locks, counts, dead>>

-----------------------------------------------------------------------------
(* Death. *)

\* The worker of request r dies, its background update with it.
Kill(r) ==
    /\ req[r].pc # "idle" /\ faults < MaxFaults
    /\ faults' = faults + 1
    /\ LET gone == {s \in Reqs : s = r \/ req[s].parent = r \/ req[r].parent = s}
       IN /\ req' = [s \in Reqs |-> IF s \in gone THEN Idle ELSE req[s]]
          /\ dead' = [n \in Nodes |->
                         dead[n] + Cardinality({s \in gone : req[s].node = n})
                                 + Cardinality({s \in gone : del[s].node = n})]
          /\ del' = [d \in Deleters |-> IF d \in gone THEN NoDelete ELSE del[d]]
    /\ UNCHANGED <<node, queue, size, loading, file, locks, starts>>

\* The cache manager dies while it deletes a file; another one is started.
KillManager ==
    /\ del[Manager].pc # "no" /\ faults < MaxFaults
    /\ faults' = faults + 1
    /\ dead' = [dead EXCEPT ![del[Manager].node] = @ + 1]
    /\ del' = Set(del, Manager, NoDelete)
    /\ UNCHANGED <<node, queue, size, loading, file, req, locks, starts>>

-----------------------------------------------------------------------------
RequestStep(r) ==
    \/ Start(r) \/ Found(r) \/ NotFound(r) \/ Full(r) \/ Retry(r) \/ ForcedByRequest(r)
    \/ Open(r) \/ Damaged(r) \/ Reopen(r) \/ Read(r) \/ Updating(r) \/ Stale(r)
    \/ NoLock(r) \/ Lock(r) \/ Busy(r) \/ Wake(r)
    \/ NotCached(r) \/ Failed(r) \/ Revalidated(r) \/ Store(r) \/ ToMain(r)
    \/ Incomplete(r) \/ Rename(r) \/ RenameFails(r) \/ Update(r) \/ Finish(r)

Next ==
    \/ \E r \in Reqs : RequestStep(r) \/ Kill(r)
    \/ \E d \in Deleters : Unlink(d) \/ UnlinkFails(d) \/ Relock(d)
    \/ ForcedByManager \/ Expire \/ KillManager
    \/ \E k \in Keys : Load(k)
    \/ LoaderUnlink \/ Loaded

Spec == Init /\ [][Next]_vars

-----------------------------------------------------------------------------
(* Properties. *)

\* Every variable has its type.
TypeOK ==
    /\ node \in [Nodes -> Node]
    /\ ToSet(queue) \subseteq Nodes
    /\ size \in Int
    /\ cold \in BOOLEAN
    /\ loader \in [pc : {"walk", "unlink", "done"}, key : Keys \cup {None}]
    /\ toload \subseteq Keys
    /\ file \in [Keys -> {"none", "fresh", "stale"}]
    /\ req \in [Reqs -> Req]
    /\ del \in [Deleters -> [pc : {"no", "unlink", "relock"}, node : Nodes \cup {None}]]
    /\ locks \in Nat /\ starts \in Nat /\ faults \in Nat
    /\ dead \in [Nodes -> Nat]

\* The requests that have node n, and the processes that delete it.
Users(n)    == {r \in Reqs : req[r].node = n}
DeletedBy(n) == {d \in Deleters : del[d].node = n}

\* fcn->count is exact: the requests that look at a node, through waits, variants,
\* updates and failures, and the process that deletes its file with the mutex
\* released, are counted once each, and so are the dead, for ever.  So no node
\* is freed while somebody has it, and none that nobody has is kept from the
\* cache manager.  A node is marked as being deleted only by a process that
\* does, or died doing it.
CountExact ==
    \A n \in Nodes :
        /\ node[n].count =
              Cardinality(Users(n)) + Cardinality(DeletedBy(n)) + dead[n]
        /\ node[n].deleting => DeletedBy(n) # {} \/ dead[n] > 0
        /\ node[n].key = None => node[n] = FreeNode
        /\ node[n].key # None <=> Contains(queue, n)

\* A response does not stay in the state UPDATING: the mark fcn->updating has a
\* live request that will take it away, one with the present lock_time, unless
\* a worker died with the node.  Locks that age and are taken over, updates by
\* requests without the lock and variants all change the mark or lock_time.
UpdatingOwned ==
    \A n \in Nodes : node[n].updating =>
        \/ \E r \in Users(n) : req[r].updating /\ req[r].lock = node[n].lock
        \/ dead[n] > 0

=============================================================================
