------------------------------ MODULE Request ------------------------------
(***************************************************************************)
(* The life of one HTTP request with its subrequests, in one worker:       *)
(* http/ngx_http_request.c (run_posted_requests, finalize_request,         *)
(* terminate_request, finalize_connection, writer, close_request),         *)
(* ngx_http_core_module.c (subrequest, internal_redirect),                 *)
(* ngx_http_postpone_filter_module.c, the include command of the SSI       *)
(* filter and the part of ngx_http_upstream.c that ends a request.         *)
(*                                                                         *)
(* A worker has one thread: it takes an event, runs a handler, which calls *)
(* finalize_request from any depth, and then runs the posted requests      *)
(* until none is left.  `thread' is where it is; each action below is one  *)
(* call it makes.  The subrequests of a page run side by side, while the   *)
(* client must get their output in the order of the page: the connection's *)
(* `active' request may write, the others leave their output in their      *)
(* `postponed' lists.  The main request is freed with its memory pool when *)
(* `count', its number of holders, falls to zero.                          *)
(*                                                                         *)
(* The build has no file AIO, no thread pool and no HTTP/2, so that        *)
(* r->main->blocked and r->aio are 0 and r->stream NULL throughout;        *)
(* post_action and subrequests in memory are not configured.  The event    *)
(* method is epoll, edge-triggered: what the code does for level-triggered *)
(* ones (deleting the read event) is not reached.                          *)
(***************************************************************************)
EXTENDS Naturals, Sequences, FiniteSets

CONSTANTS
    main,            \* r->main
    Subs,            \* the subrequests that may be created
    None,            \* a null pointer
    Proxied,         \* requests whose content a server may have
    Cacheable,       \* those whose answer from a server goes into a cache
    MaxChunks,       \* bound: buffers of output by one request before its last
    MaxDetours,      \* bound: internal redirects, bodies read in place, delays
                     \* by limit_rate and stray events
    MaxFaults        \* bound: failures, of the client, a handler, a timer,
                     \* memory or epoll_ctl()

Requests == {main} \cup Subs

ASSUME RequestAssumption ==
    /\ main \notin Subs /\ None \notin Requests
    /\ Proxied \subseteq Requests /\ Cacheable \subseteq Proxied
    /\ MaxChunks \in Nat /\ MaxDetours \in Nat /\ MaxFaults \in Nat

VARIABLES
    count,       \* r->main->count
    active,      \* c->data: the request whose output goes to the client
    posted,      \* r->main->posted_requests
    req,         \* the requests: see Blank
    thread,      \* what the worker is doing for this connection
    client,      \* c->buffered and c->write->ready: "sent" (nothing buffered),
                 \* "full" (not writable), "ready" (buffered, and writable)
    delayed,     \* c->write->delayed, by limit_rate
    armed,       \* c->write->active: epoll watches for a writable socket
    error,       \* c->error
    timer,       \* c->write->timer_set
    timedout,    \* c->write->timedout
    destroyed,   \* c->destroyed: the pool of the request is gone
    detours, faults,    \* used up of their bounds
    books,       \* history of the count, see NoBooks
    doc,         \* history: what each request produced, in its order
    sent         \* history: what was handed to the client, in order

turn == <<active, posted>>
conn == <<client, delayed, armed, error, timer, timedout>>
holds == <<count, destroyed, books>>
used == <<detours, faults>>
page == <<doc, sent>>
vars == <<turn, req, thread, conn, holds, used, page>>

(***************************************************************************)
(* parent: the creator.  handler: r->write_event_handler, one of handler   *)
(* (run the phases), upstream (ngx_http_upstream's), writer, finalizer,    *)
(* empty, terminate.  postponed: output buffers and requests, in order.    *)
(* upstream: u->cleanup # NULL, a server is at work for it.  wait: the     *)
(* subrequest its SSI page waits for.  background: outside the page, its   *)
(* response has no body.  held: the copy filter has the rest of it.        *)
(* broken: p->downstream_error, the answer is read for the cache alone.    *)
(* discard: r->discard_body, see RequestBody.                              *)
(***************************************************************************)
Blank == [parent |-> None, handler |-> "empty", postponed |-> <<>>,
          upstream |-> FALSE, wait |-> None, waited |-> FALSE,
          background |-> FALSE, done |-> FALSE, logged |-> FALSE,
          held |-> FALSE, broken |-> FALSE, discard |-> FALSE,
          subrequests |-> 0]

\* What happened to the count apart from a holder coming or going: pins, holds
\* taken for a termination and never released; lapses, holders without a hold,
\* which a failure released or never took; given, requests whose hold a cleanup
\* handler released; unposted, a subrequest was made and not posted.
NoBooks == [pins |-> 0, lapses |-> 0, given |-> {}, unposted |-> FALSE]

NGX_HTTP_MAX_SUBREQUESTS == 50

Live == {r \in Requests : r = main \/ req[r].parent # None}
Fresh == Subs \ Live

\* What the thread does for request `who': "event", about to call its write
\* event handler; "run", in its content handler; "written", in the writer after
\* the output filter; "finish", finalize_request with NGX_OK or NGX_AGAIN;
\* "cleanup", terminate_request, which is all that finalize_request with an
\* error does; "return", on the way out.  frames: the enclosing calls that will
\* end in finalize_request(who, NGX_DONE).
Idle == [who |-> None, doing |-> "idle", frames |-> 0]
At(r, what) == [who |-> r, doing |-> what, frames |-> 0]
Doing(what) == [thread EXCEPT !.doing = what]
Out == IF thread.frames = 0 THEN Idle ELSE Doing("return")

Init ==
    /\ count = 1 /\ active = main /\ posted = <<>>
    /\ req = [r \in Requests |->
                IF r = main
                THEN [Blank EXCEPT !.handler = "handler",
                                   !.subrequests = NGX_HTTP_MAX_SUBREQUESTS + 1]
                ELSE Blank]
    /\ thread = At(main, "run")
    /\ client = "sent" /\ delayed = FALSE /\ armed = FALSE
    /\ error = FALSE /\ timer = FALSE /\ timedout = FALSE /\ destroyed = FALSE
    /\ detours = 0 /\ faults = 0 /\ books = NoBooks
    /\ doc = [r \in Requests |-> <<>>] /\ sent = <<>>

Fault == faults < MaxFaults /\ faults' = faults + 1

-----------------------------------------------------------------------------
(* Output: ngx_http_postpone_filter *)

Chunk(r) == <<r, Len(SelectSeq(doc[r], LAMBDA x : x \notin Requests)) + 1>>

\* What the filter does with `in' when r is not the active request, and when it
\* is: the buffers up to the first postponed request go out, and that request
\* becomes active and is posted.
FirstRequest(s) ==
    CHOOSE k \in 1..Len(s) + 1 :
        /\ k <= Len(s) => s[k] \in Requests
        /\ \A j \in 1..k - 1 : s[j] \notin Requests

Postpone(r, in) ==
    LET all == req[r].postponed \o in
        k == FirstRequest(all)
        due == k <= Len(all)
    IN IF r # active
       THEN [out |-> <<>>, left |-> all, next |-> active, wake |-> <<>>]
       ELSE [out  |-> SubSeq(all, 1, k - 1),
             left |-> IF due THEN SubSeq(all, k + 1, Len(all)) ELSE <<>>,
             next |-> IF due THEN all[k] ELSE active,
             wake |-> IF due THEN <<all[k]>> ELSE <<>>]

\* Is the write filter called? It fails on a connection in error.
Writes(r, f) == f.out # <<>> \/ (r = active /\ f.wake = <<>> /\ client # "sent")

\* The client after the write filter: it takes what there is, or not all of it,
\* and the main request's limit_rate may delay the rest or the next output.  What
\* is left by the limit of one call (sendfile_max_chunk), for which the filter
\* posts an event itself, is taken for a full socket.
Taken(f) ==
    LET room == IF client = "full" THEN {"full"}
                ELSE {"sent"} \cup (IF f.out # <<>> THEN {"full"} ELSE {})
        kept == IF client = "full" THEN "full" ELSE "ready"
    IN IF delayed THEN {<<kept, TRUE>>}
       ELSE (room \X {FALSE}) \cup
            (IF detours < MaxDetours THEN (room \cup {kept}) \X {TRUE} ELSE {})

\* ngx_http_output_filter(r, in), past the copy and SSI filters: `now' is the
\* record of r at this call, `then' where the thread goes on.
Output(r, in, now, then) ==
    LET f == Postpone(r, in)
    IN /\ ~(error /\ Writes(r, f))
       /\ req' = [req EXCEPT ![r] = [now EXCEPT !.postponed = f.left]]
       /\ sent' = sent \o f.out
       /\ active' = f.next
       /\ posted' = posted \o f.wake
       /\ \E t \in IF Writes(r, f) THEN Taken(f) ELSE {<<client, delayed>>} :
             client' = t[1] /\ delayed' = t[2]
       /\ detours' = IF delayed' /\ ~delayed THEN detours + 1 ELSE detours
       /\ timer' = (timer \/ (delayed' /\ ~delayed))
       /\ thread' = then
       /\ UNCHANGED <<error, faults>>

\* The same call when the client's socket fails, now or before.  The answer of a
\* server is then read on for the cache, or ended with the request.
OutputFails(r, in, now) ==
    /\ Writes(r, Postpone(r, in))
    /\ IF error THEN UNCHANGED faults ELSE Fault
    /\ error' = TRUE
    /\ IF now.upstream /\ r \in Cacheable
       THEN /\ req' = [req EXCEPT ![r] = [now EXCEPT !.broken = TRUE]]
            /\ thread' = [thread EXCEPT !.who = r, !.doing = "run"]
       ELSE /\ req' = [req EXCEPT ![r] = [now EXCEPT !.upstream = FALSE]]
            /\ thread' = [thread EXCEPT !.who = r, !.doing = "cleanup"]
    /\ UNCHANGED <<sent, turn, client, delayed, timer, detours>>

-----------------------------------------------------------------------------
(* The handler of a request, thread.doing = "run" *)

Running(r) == ~destroyed /\ thread.who = r /\ thread.doing = "run"

\* Output of r goes through its filters.
Sends(r) == ~req[r].background /\ ~req[r].broken

\* A buffer of the response that is not the last one: the handler goes on.
Emit(r) ==
    /\ Running(r) /\ Sends(r) /\ Chunk(r)[2] <= MaxChunks
    /\ doc' = [doc EXCEPT ![r] = Append(@, Chunk(r))]
    /\ \/ Output(r, <<Chunk(r)>>, req[r], thread)
       \/ OutputFails(r, <<Chunk(r)>>, req[r])
    /\ UNCHANGED <<holds, armed, timedout>>

\* The last buffer; the handler returns and its caller finalizes the request.
\* An upstream answer that is complete ends in the same way, see UpstreamDone.
Last(r) ==
    /\ Running(r) /\ Sends(r) /\ ~req[r].upstream
    /\ doc' = [doc EXCEPT ![r] = Append(@, Chunk(r))]
    /\ \/ Output(r, <<Chunk(r)>>, req[r], Doing("finish"))
       \/ OutputFails(r, <<Chunk(r)>>, req[r])
    /\ UNCHANGED <<holds, armed, timedout>>

\* A response with no body: a background request, or an empty one.
HeaderOnly(r) ==
    /\ Running(r) /\ ~req[r].upstream /\ doc[r] = <<>>
    /\ thread' = Doing("finish")
    /\ UNCHANGED <<turn, req, conn, holds, used, page>>

\* The record of a subrequest of r.
Subrequested(r, waited, background) ==
    [Blank EXCEPT !.parent = r, !.handler = "handler", !.waited = waited,
                  !.background = background, !.discard = req[r].discard,
                  !.subrequests = req[r].subrequests - 1]

\* The limits of nesting and of the count.  A call they refuse has no effect: the
\* page goes on with an error message in the place of the include.
Permits(r) == req[r].subrequests > 0 /\ count < 65535 - 1000

\* Mutant: the new request is active whatever is postponed before it.
SubrequestJumps(r, sr, waited, background) ==
    /\ Permits(r)
    /\ count' = count + 1
    /\ active' = IF ~background /\ active = r THEN sr ELSE active
    /\ posted' = Append(posted, sr)
    /\ req' = [req EXCEPT
                 ![sr] = Subrequested(r, waited, background),
                 ![r].postponed = IF background THEN @ ELSE Append(@, sr),
                 ![r].wait = IF waited THEN sr ELSE @]
    /\ doc' = IF background THEN doc ELSE [doc EXCEPT ![r] = Append(@, sr)]
    /\ UNCHANGED <<conn, destroyed, books, used, sent>>

\* ngx_http_subrequest for r, sr: the new request is active when r is and
\* nothing of r is postponed; it is appended to r's postponed list and posted.
Subrequest(r, sr, waited, background) ==
    /\ Permits(r)
    /\ count' = count + 1
    /\ active' = IF ~background /\ active = r /\ req[r].postponed = <<>>
                 THEN sr ELSE active
    /\ posted' = Append(posted, sr)
    /\ req' = [req EXCEPT
                 ![sr] = Subrequested(r, waited, background),
                 ![r].postponed = IF background THEN @ ELSE Append(@, sr),
                 ![r].wait = IF waited THEN sr ELSE @]
    /\ doc' = IF background THEN doc ELSE [doc EXCEPT ![r] = Append(@, sr)]
    /\ UNCHANGED <<conn, destroyed, books, used, sent>>

\* The same call out of memory.  For the entry in the postponed list: the new
\* request is active already, and has neither a hold nor a place in a queue.  For
\* the entry in posted_requests: it has all but that.  The caller goes on as if
\* there were no subrequest.
SubrequestFails(r) ==
    /\ Running(r) /\ Sends(r) /\ Permits(r) /\ Fresh # {} /\ Fault
    /\ LET sr == CHOOSE s \in Fresh : TRUE
       IN \/ /\ active = r /\ req[r].postponed = <<>>
             /\ active' = sr
             /\ req' = [req EXCEPT ![sr] = [Blank EXCEPT !.parent = r,
                                                         !.handler = "handler"]]
             /\ doc' = [doc EXCEPT ![r] = Append(@, sr)]
             /\ books' = [books EXCEPT !.lapses = @ + 1]
             /\ UNCHANGED count
          \/ \E waited \in BOOLEAN, background \in BOOLEAN :
                /\ background => ~waited /\ doc[r] = <<>>
                /\ active' = IF ~background /\ active = r /\ req[r].postponed = <<>>
                             THEN sr ELSE active
                /\ req' = [req EXCEPT
                             ![sr] = Subrequested(r, waited, background),
                             ![r].postponed = IF background THEN @ ELSE Append(@, sr)]
                /\ doc' = IF background THEN doc ELSE [doc EXCEPT ![r] = Append(@, sr)]
                /\ books' = [books EXCEPT !.unposted = TRUE]
                /\ count' = count + 1
    /\ UNCHANGED <<posted, thread, conn, destroyed, detours, sent>>

\* An SSI include met in r's output.
Include(r) ==
    /\ Running(r) /\ Sends(r) /\ Fresh # {}
    /\ Subrequest(r, CHOOSE s \in Fresh : TRUE, FALSE, FALSE)
    /\ UNCHANGED thread

\* An include with wait="yes": the rest of the page stays in the SSI filter,
\* and the handler finalizes r with NGX_AGAIN.
IncludeWait(r) ==
    /\ Running(r) /\ Sends(r) /\ ~req[r].upstream /\ Fresh # {}
    /\ Subrequest(r, CHOOSE s \in Fresh : TRUE, TRUE, FALSE)
    /\ thread' = Doing("finish")

\* The copy filter is out of buffers, because r is not active or what it passed
\* on cannot be written: it keeps the rest, and the handler finalizes r with
\* NGX_AGAIN.
Hold(r) ==
    /\ Running(r) /\ Sends(r) /\ ~req[r].upstream /\ doc[r] # <<>>
    /\ r # active \/ client = "full" \/ (client = "ready" /\ delayed)
    /\ req' = [req EXCEPT ![r].held = TRUE]
    /\ thread' = Doing("finish")
    /\ UNCHANGED <<turn, conn, holds, used, page>>

\* A subrequest outside the page: a mirror, or the update of a stale cache entry.
Background(r) ==
    /\ Running(r) /\ Sends(r) /\ doc[r] = <<>> /\ Fresh # {}
    /\ Subrequest(r, CHOOSE s \in Fresh : TRUE, FALSE, TRUE)
    /\ UNCHANGED thread

\* ngx_http_internal_redirect, or a request body that is complete when
\* ngx_http_read_client_request_body is called: the next handler runs inside
\* this one, which then returns NGX_DONE.
Redirect(r) ==
    /\ Running(r) /\ ~req[r].upstream /\ doc[r] = <<>> /\ detours < MaxDetours
    /\ detours' = detours + 1
    /\ count' = count + 1
    /\ thread' = [thread EXCEPT !.frames = @ + 1]
    /\ UNCHANGED <<turn, req, conn, destroyed, books, faults, page>>

\* The content comes from a server: the body is read (count++), the upstream
\* request starts, and the handler returns NGX_DONE.
GoUpstream(r) ==
    /\ Running(r) /\ r \in Proxied /\ ~req[r].upstream /\ doc[r] = <<>>
    /\ req' = [req EXCEPT ![r].upstream = TRUE, ![r].handler = "upstream"]
    /\ count' = count + 1
    /\ thread' = [thread EXCEPT !.frames = @ + 1, !.doing = "return"]
    /\ UNCHANGED <<turn, conn, destroyed, books, used, page>>

\* The end of ngx_event_pipe() for r, once its header is out: the active request
\* waits for the client too.  Where this fails the upstream request does.
PipeWaits(r) ==
    IF r = active /\ doc[r] # <<>>
    THEN /\ armed' = (armed \/ client = "full")
         /\ timer' = IF delayed THEN timer ELSE client = "full"
    ELSE UNCHANGED <<armed, timer>>

\* The read handler of the upstream connection has no more data for now.
UpstreamWaits(r) ==
    /\ Running(r) /\ req[r].upstream
    /\ PipeWaits(r)
    /\ thread' = Out
    /\ UNCHANGED <<turn, req, client, delayed, timedout, error, holds, used, page>>

\* The handler fails for want of memory, or the pipe from the server does.
HandlerFails(r) ==
    /\ Running(r) /\ Fault
    /\ req' = [req EXCEPT ![r].upstream = FALSE]
    /\ thread' = Doing("cleanup")
    /\ UNCHANGED <<turn, conn, holds, detours, page>>

-----------------------------------------------------------------------------
(* The end of a request *)

\* ngx_http_close_request.  ngx_http_finalize_connection comes to the same: with
\* one holder left it frees the request, keeping the connection alive or not.
\* r->count is a 16-bit field.
Minus1(n) == (n + 65535) % 65536
CloseRequest == count' = Minus1(count) /\ destroyed' = (Minus1(count) = 0)

Finishing(r) == ~destroyed /\ thread.who = r /\ thread.doing = "finish"

\* r->buffered, r->postponed and, for the main request, c->buffered.
Buffered(r) ==
    \/ req[r].held \/ req[r].wait # None \/ req[r].postponed # <<>>
    \/ r = main /\ client # "sent"

FinishInError(r) ==
    /\ Finishing(r) /\ error
    /\ thread' = Doing("cleanup")
    /\ UNCHANGED <<turn, req, conn, holds, used, page>>

\* The timer of the write event is set, and ngx_handle_write_event() has epoll
\* watch a socket that is not writable and not watched yet.  When epoll_ctl()
\* fails, ngx_http_close_request() releases a hold, and the caller is at `failed'.
\* (What it does there with a request that this has freed is left open.)
WaitWritable(failed) ==
    /\ timer' = (timer \/ ~delayed)
    /\ \/ /\ armed' = (armed \/ client = "full")
          /\ thread' = Out
          /\ UNCHANGED <<holds, faults>>
       \/ /\ client = "full" /\ ~armed /\ Fault
          /\ CloseRequest
          /\ books' = [books EXCEPT !.lapses = @ + 1]
          /\ thread' = failed
          /\ UNCHANGED armed
    /\ UNCHANGED <<turn, client, delayed, timedout, error, detours, page>>

\* Something is still to be written: ngx_http_set_write_handler, and after its
\* failure ngx_http_terminate_request.
FinishWrites(r) ==
    /\ Finishing(r) /\ ~error /\ Buffered(r)
    /\ req' = [req EXCEPT ![r].handler = "writer"]
    /\ WaitWritable(Doing("cleanup"))

\* A background request is done.
FinishBackground(r) ==
    /\ Finishing(r) /\ ~error /\ ~Buffered(r) /\ req[r].background
    /\ req' = [req EXCEPT ![r].done = TRUE, ![r].logged = TRUE]
    /\ CloseRequest
    /\ thread' = Out
    /\ UNCHANGED <<turn, conn, books, used, page>>

FinishesSubrequest(r) ==
    Finishing(r) /\ ~error /\ ~Buffered(r) /\ r \in Subs /\ ~req[r].background

\* The active subrequest is done, and its parent active again.
Ended(r) ==
    LET pr == req[r].parent
        list == req[pr].postponed
    IN [req EXCEPT ![r].done = TRUE, ![r].logged = TRUE,
                   ![pr].postponed = IF list # <<>> /\ Head(list) = r
                                     THEN Tail(list) ELSE list]

\* Mutant: the parent is not woken.
FinishSubrequestAlone(r) ==
    /\ FinishesSubrequest(r) /\ r = active
    /\ req' = Ended(r) /\ active' = req[r].parent
    /\ count' = Minus1(count)
    /\ thread' = Out
    /\ UNCHANGED <<posted, conn, destroyed, books, used, page>>

\* The active subrequest is done: its parent is active again and is woken.
FinishSubrequest(r) ==
    /\ FinishesSubrequest(r) /\ r = active
    /\ req' = Ended(r) /\ active' = req[r].parent
    /\ count' = Minus1(count)
    /\ posted' = Append(posted, req[r].parent)
    /\ thread' = Out
    /\ UNCHANGED <<conn, destroyed, books, used, page>>

\* A subrequest that is not active has to be finalized again once it is.
Later(r) == [req EXCEPT ![r].handler = "finalizer", ![r].done = req[r].waited]

\* Mutant: the hold of a subrequest that is not active is released as well.
FinishLaterReleases(r) ==
    /\ FinishesSubrequest(r) /\ r # active
    /\ req' = Later(r)
    /\ count' = Minus1(count)
    /\ posted' = Append(posted, req[r].parent)
    /\ thread' = Out
    /\ UNCHANGED <<active, conn, destroyed, books, used, page>>

\* The parent is woken, and nothing released yet.
FinishLater(r) ==
    /\ FinishesSubrequest(r) /\ r # active
    /\ req' = Later(r)
    /\ posted' = Append(posted, req[r].parent)
    /\ thread' = Out
    /\ UNCHANGED <<active, conn, holds, used, page>>

\* Either way without memory to post the parent: the request is held once more,
\* and terminated.
FinishUnposted(r) ==
    /\ FinishesSubrequest(r) /\ Fault
    /\ IF r = active
       THEN req' = Ended(r) /\ active' = req[r].parent /\ UNCHANGED count
       ELSE req' = Later(r) /\ count' = count + 1 /\ UNCHANGED active
    /\ books' = [books EXCEPT !.pins = @ + 1]
    /\ thread' = Doing("cleanup")
    /\ UNCHANGED <<posted, conn, destroyed, detours, page>>

\* The main request is done.  When it is not active this is logged as an alert
\* and nothing else happens.
FinishMain(r) ==
    /\ Finishing(r) /\ ~error /\ ~Buffered(r) /\ r = main
    /\ IF r = active
       THEN /\ req' = [req EXCEPT ![r].done = TRUE, ![r].handler = "empty"]
            /\ timer' = FALSE /\ delayed' = (delayed /\ ~timer)
            /\ CloseRequest
       ELSE UNCHANGED <<req, timer, delayed, count, destroyed>>
    /\ thread' = Out
    /\ UNCHANGED <<turn, client, armed, timedout, error, books, used, page>>

\* finalize_request(r, NGX_DONE) by an enclosing call.
Return(r) ==
    /\ ~destroyed /\ thread.who = r /\ thread.doing = "return"
    /\ CloseRequest
    /\ thread' = IF thread.frames = 1 THEN Idle ELSE [thread EXCEPT !.frames = @ - 1]
    /\ UNCHANGED <<turn, req, conn, books, used, page>>

\* terminate_request runs the cleanup handlers: that of an upstream request
\* closes it and calls finalize_request(u, NGX_DONE).
Cleanup(u) ==
    /\ ~destroyed /\ thread.doing = "cleanup" /\ req[u].upstream
    /\ req' = [req EXCEPT ![u].upstream = FALSE]
    /\ CloseRequest
    /\ books' = [books EXCEPT !.given = @ \cup {u}]
    /\ UNCHANGED <<turn, thread, conn, used, page>>

\* With no cleanup left, the main request alone is posted, to be freed.
Terminate ==
    /\ ~destroyed /\ thread.doing = "cleanup"
    /\ \A u \in Requests : ~req[u].upstream
    /\ req' = [req EXCEPT ![main].handler = "terminate"]
    /\ posted' = <<main>>
    /\ thread' = Out
    /\ UNCHANGED <<active, conn, holds, used, page>>

-----------------------------------------------------------------------------
(* Posted requests and write event handlers *)

\* ngx_http_run_posted_requests, called at the end of every event handler.
RunPosted ==
    /\ ~destroyed /\ thread = Idle /\ posted # <<>>
    /\ thread' = At(Head(posted), "event")
    /\ posted' = Tail(posted)
    /\ UNCHANGED <<active, req, conn, holds, used, page>>

Called(r, handler) ==
    /\ ~destroyed /\ thread.who = r /\ thread.doing = "event"
    /\ req[r].handler = handler

\* ngx_http_handler: the phases, and the content handler.
CallHandler(r) ==
    /\ Called(r, "handler")
    /\ thread' = Doing("run")
    /\ UNCHANGED <<turn, req, conn, holds, used, page>>

\* ngx_http_writer after the write timer expired.
WriterTimesOut(r) ==
    /\ Called(r, "writer") /\ timedout
    /\ thread' = Doing("cleanup")
    /\ UNCHANGED <<turn, req, conn, holds, used, page>>

\* While the output is delayed nothing is written.
WriterDelayed(r) ==
    /\ Called(r, "writer") /\ ~timedout /\ delayed
    /\ WaitWritable(Out)
    /\ UNCHANGED req

\* Otherwise what the SSI filter holds back goes on when r is active and the
\* subrequest it waits for is done.
CallWriter(r) ==
    /\ Called(r, "writer") /\ ~timedout /\ ~delayed
    /\ IF req[r].wait # None /\ r = active /\ req[req[r].wait].done
       THEN /\ req' = [req EXCEPT ![r].wait = None]
            /\ thread' = Doing("run")
            /\ UNCHANGED <<turn, client, delayed, timer, error, detours, faults, sent>>
       ELSE \/ Output(r, <<>>, req[r], Doing("written"))
            \/ OutputFails(r, <<>>, req[r])
    /\ UNCHANGED <<holds, armed, timedout, doc>>

\* The copy filter, with its buffers released, goes on inside the output filter.
Refills(r) == req[r].held /\ r = active /\ client = "sent"

\* The rest of the writer: it waits, or is done.
Written(r) ==
    /\ ~destroyed /\ thread.who = r /\ thread.doing = "written"
    /\ \/ /\ Refills(r)
          /\ req' = [req EXCEPT ![r].held = FALSE]
          /\ thread' = Doing("run")
          /\ UNCHANGED <<turn, conn, holds, used, page>>
       \/ /\ Buffered(r) /\ ~Refills(r)
          /\ WaitWritable(Out)
          /\ UNCHANGED req
       \/ /\ ~Buffered(r)
          /\ req' = [req EXCEPT ![r].handler = "empty"]
          /\ thread' = Doing("finish")
          /\ UNCHANGED <<turn, conn, holds, used, page>>

CallFinalizer(r) ==
    /\ Called(r, "finalizer")
    /\ thread' = Doing("finish")
    /\ UNCHANGED <<turn, req, conn, holds, used, page>>

\* ngx_http_request_empty_handler.
CallEmpty(r) ==
    /\ Called(r, "empty")
    /\ thread' = Out
    /\ UNCHANGED <<turn, req, conn, holds, used, page>>

\* ngx_http_upstream_process_downstream passes on what the connection buffers,
\* and waits again; until the header is out, the handler only looks for a
\* closed connection, see ClientCloses.
CallUpstream(r) ==
    /\ Called(r, "upstream") /\ (~timedout \/ doc[r] = <<>>)
    /\ client' = IF /\ r = active /\ doc[r] # <<>> /\ ~req[r].broken
                    /\ client = "ready" /\ ~delayed /\ ~error
                 THEN "sent" ELSE client
    /\ PipeWaits(r)
    /\ thread' = Out
    /\ UNCHANGED <<turn, req, delayed, timedout, error, holds, used, page>>

\* The same after the write timer expired: only the cache still wants the answer.
DownstreamTimesOut(r) ==
    /\ Called(r, "upstream") /\ timedout /\ doc[r] # <<>>
    /\ IF r \in Cacheable
       THEN req' = [req EXCEPT ![r].broken = TRUE] /\ thread' = Out
       ELSE req' = [req EXCEPT ![r].upstream = FALSE] /\ thread' = Doing("cleanup")
    /\ UNCHANGED <<turn, conn, holds, used, page>>

\* ngx_http_terminate_handler: r->count = 1, and close_request.
CallTerminate(r) ==
    /\ Called(r, "terminate")
    /\ count' = 0 /\ destroyed' = TRUE
    /\ thread' = Out
    /\ UNCHANGED <<turn, req, conn, books, used, page>>

-----------------------------------------------------------------------------
(* Events *)

Event == ~destroyed /\ thread = Idle /\ posted = <<>>

\* ngx_http_request_handler for the write event, which ends a delay when it has
\* timed out, and calls the active request's handler.
WriteEvent(out) ==
    /\ delayed' = (delayed /\ ~out)
    /\ timedout' = (out /\ ~delayed)
    /\ thread' = At(active, "event")
    /\ UNCHANGED <<turn, req, armed, error, holds, page>>

\* The client's socket is writable again.
ClientWritable ==
    /\ Event /\ client = "full" /\ armed
    /\ client' = "ready"
    /\ WriteEvent(timedout)
    /\ UNCHANGED <<timer, detours, faults>>

\* It was writable: epoll says so again with every read event of the socket.
StrayEvent ==
    /\ Event /\ client # "full" /\ armed
    /\ detours < MaxDetours /\ detours' = detours + 1
    /\ WriteEvent(timedout)
    /\ UNCHANGED <<client, timer, faults>>

TimerExpires ==
    /\ Event /\ timer
    /\ timer' = FALSE
    /\ WriteEvent(TRUE)
    /\ UNCHANGED <<client, detours>>

\* The time limit_rate asked for is over.
DelayEnds == delayed /\ TimerExpires /\ UNCHANGED faults

\* A timer expired before, and perhaps the answer of a server is read on without
\* the client.
GivenUp == timedout \/ \E r \in Requests : req[r].broken

\* The client does not read for as long as send_timeout.  Of the client that is
\* given up no other end is in sight.
WriteTimeout == ~delayed /\ TimerExpires /\ IF GivenUp THEN UNCHANGED faults ELSE Fault

\* A part of the server's answer for r: it goes through r's output filters.
UpstreamData(r) ==
    /\ Event /\ req[r].upstream /\ Sends(r) /\ Chunk(r)[2] <= MaxChunks
    /\ doc' = [doc EXCEPT ![r] = Append(@, Chunk(r))]
    /\ \/ Output(r, <<Chunk(r)>>, req[r], At(r, "run"))
       \/ OutputFails(r, <<Chunk(r)>>, req[r])
    /\ UNCHANGED <<holds, armed, timedout>>

\* A part that begins with an include: nothing is output before it is met.
UpstreamInclude(r) ==
    /\ Event /\ req[r].upstream /\ Sends(r) /\ Fresh # {}
    /\ Subrequest(r, CHOOSE s \in Fresh : TRUE, FALSE, FALSE)
    /\ thread' = At(r, "run")

\* ngx_http_upstream_finalize_request for a complete answer: the last buffer is
\* sent, unless there is no body or nobody to send it to.  When the server broke
\* off after the header the buffer says flush instead, and before it there is an
\* error page; r is finalized with what becomes of the buffer all the same.
UpstreamDone(r) ==
    /\ Event /\ req[r].upstream
    /\ LET now == [req[r] EXCEPT !.upstream = FALSE]
       IN IF Sends(r)
          THEN /\ doc' = [doc EXCEPT ![r] = Append(@, Chunk(r))]
               /\ \/ Output(r, <<Chunk(r)>>, now, At(r, "finish"))
                  \/ OutputFails(r, <<Chunk(r)>>, now)
          ELSE /\ req' = [req EXCEPT ![r] = now]
               /\ thread' = At(r, "finish")
               /\ UNCHANGED <<turn, client, delayed, timer, error, detours, faults, page>>
    /\ UNCHANGED <<holds, armed, timedout>>

\* The upstream request is finalized with NGX_ERROR: the pipe fails, or the server
\* breaks off when only the cache wanted the answer.
UpstreamFails(r) ==
    /\ Event /\ req[r].upstream /\ Fault
    /\ req' = [req EXCEPT ![r].upstream = FALSE]
    /\ thread' = At(r, "cleanup")
    /\ UNCHANGED <<turn, conn, holds, detours, page>>

\* The client closes: ngx_http_test_reading of a request that writes,
\* ngx_http_upstream_check_broken_connection of one with an upstream, which
\* goes on alone when the answer is to be cached.
ClientCloses ==
    /\ Event /\ Fault /\ ~error
    /\ error' = TRUE
    /\ \/ /\ req[active].handler = "writer" /\ ~req[active].discard
          /\ thread' = At(active, "cleanup")
          /\ UNCHANGED req
       \/ /\ req[active].upstream
          /\ IF active \in Cacheable
             THEN UNCHANGED <<req, thread>>
             ELSE /\ req' = [req EXCEPT ![active].upstream = FALSE]
                  /\ thread' = At(active, "cleanup")
    /\ UNCHANGED <<turn, client, delayed, armed, timer, timedout, holds, detours, page>>

\* Mutant: the terminated request is not held over its cleanup handlers.
ShutdownUnheld ==
    /\ Event /\ Fault
    /\ error' = TRUE
    /\ thread' = At(active, "cleanup")
    /\ UNCHANGED <<turn, req, client, delayed, armed, timer, timedout, holds, detours,
                   page>>

\* The worker's shutdown timer: c->close and c->error are set and the read event
\* handler, ngx_http_request_handler, is called.
ShutdownTimeout ==
    /\ Event /\ Fault
    /\ error' = TRUE
    /\ count' = count + 1 /\ books' = [books EXCEPT !.pins = @ + 1]
    /\ thread' = At(active, "cleanup")
    /\ UNCHANGED <<turn, req, client, delayed, armed, timer, timedout, destroyed,
                   detours, page>>

-----------------------------------------------------------------------------
Step(r) ==
    \/ Emit(r) \/ Last(r) \/ HeaderOnly(r) \/ Include(r) \/ IncludeWait(r)
    \/ SubrequestFails(r) \/ Hold(r) \/ Background(r) \/ Redirect(r)
    \/ GoUpstream(r) \/ UpstreamWaits(r) \/ HandlerFails(r)
    \/ FinishInError(r) \/ FinishWrites(r) \/ FinishBackground(r)
    \/ FinishSubrequest(r) \/ FinishLater(r) \/ FinishUnposted(r) \/ FinishMain(r)
    \/ Return(r) \/ CallHandler(r) \/ WriterTimesOut(r) \/ WriterDelayed(r)
    \/ CallWriter(r) \/ Written(r) \/ CallFinalizer(r) \/ CallEmpty(r)
    \/ CallUpstream(r) \/ DownstreamTimesOut(r) \/ CallTerminate(r)

Next ==
    \/ \E r \in Requests : Step(r) \/ Cleanup(r)
    \/ Terminate \/ RunPosted
    \/ ClientWritable \/ StrayEvent \/ DelayEnds \/ WriteTimeout
    \/ ClientCloses \/ ShutdownTimeout
    \/ \E r \in Requests :
          UpstreamData(r) \/ UpstreamInclude(r) \/ UpstreamDone(r) \/ UpstreamFails(r)

\* What is due happens: the thread goes on with the request it is at, and where
\* it waits, a client that is connected reads, a delay or the wait for a client
\* that was given up ends, or a server ends its answer.  Other timers and failures
\* may never come.
Due ==
    \/ thread.who \in Requests /\ Step(thread.who)
    \/ (\E r \in Requests : Cleanup(r)) \/ Terminate \/ RunPosted
    \/ ClientWritable \/ DelayEnds \/ (GivenUp /\ WriteTimeout)
    \/ \E r \in Requests : UpstreamDone(r)

Spec == Init /\ [][Next]_vars /\ WF_vars(Due)

-----------------------------------------------------------------------------
TypeOK ==
    /\ count \in 0..65535
    /\ active \in Requests
    /\ posted \in Seq(Requests)
    /\ \A r \in Requests :
          /\ req[r].parent \in Requests \cup {None}
          /\ req[r].handler \in {"handler", "upstream", "writer", "finalizer",
                                 "empty", "terminate"}
    /\ thread.doing \in {"idle", "event", "run", "written", "finish", "cleanup",
                         "return"}
    /\ client \in {"sent", "full", "ready"} 
    /\ timer \in BOOLEAN /\ timedout \in BOOLEAN
    /\ delayed \in BOOLEAN /\ armed \in BOOLEAN /\ error \in BOOLEAN
    /\ books.given \subseteq Requests

\* The reference count is the number of holders: the main request until it is
\* done, every subrequest until it is logged, either until the cleanup of its
\* upstream request, and every enclosing call that will still end in NGX_DONE.
\* It differs by what failures add or take, and by no more: a termination may
\* hold the request for good, and where the write event cannot be set a hold is
\* released though its holder stays.
Released(r) ==
    r \in books.given \/ (IF r = main THEN req[r].done ELSE req[r].logged)

CountExact ==
    ~destroyed =>
        count = (Cardinality({r \in Live : ~Released(r)}) + thread.frames
                 + books.pins + 65536 - books.lapses) % 65536

\* The pool is not destroyed while something still uses it: an enclosing call,
\* a cleanup loop, or an upstream connection whose handlers hold a request.  A
\* holder without a hold, which a failing epoll_ctl() or allocation leaves
\* behind, is the one exception: ngx_http_set_write_handler() then frees the
\* request its caller goes on to terminate.
Unused ==
    destroyed /\ books.lapses = 0 =>
        thread = Idle /\ \A r \in Requests : ~req[r].upstream

\* The page: the output of each request with that of its subrequests in place.
Page[d \in Nat] ==
    [r \in Requests |->
        LET Part[i \in Nat] ==
                IF i = 0 THEN <<>>
                ELSE LET x == doc[r][i]
                     IN Part[i - 1] \o (IF x \notin Requests THEN <<x>>
                                        ELSE IF d = 0 THEN <<>> ELSE Page[d - 1][x])
        IN Part[Len(doc[r])]]
WholePage == Page[Cardinality(Subs)][main]

\* The client gets the page in its order, whichever subrequest is ready first,
\* and all of it when the request ends without an error.
InOrder ==
    /\ Len(sent) <= Len(WholePage) /\ sent = SubSeq(WholePage, 1, Len(sent))
    /\ destroyed /\ ~error /\ req[main].done => sent = WholePage

\* Every request is freed in the end, and nothing but the thread, the servers,
\* the delays and a client that reads is needed for it: no wake-up of a request
\* whose turn has come is lost.  After a failure that released a hold too many,
\* or left a subrequest unposted, it may wait for a timer, or for ever.
Freed == <>(destroyed \/ books.lapses > 0 \/ books.unposted)
=============================================================================
