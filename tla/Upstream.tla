----------------------------- MODULE Upstream ------------------------------
(***************************************************************************)
(* Requests that are passed to the servers of an upstream group:           *)
(* src/http/ngx_http_upstream.c (connect, send, process_header, next,      *)
(* finalize), the balancer ngx_http_upstream_round_robin.c with its        *)
(* counters in a zone shared by the workers, and the connections that      *)
(* modules/ngx_http_upstream_keepalive_module.c keeps in each worker.      *)
(*                                                                         *)
(* A step is an event handler of a worker, or a part of one between two    *)
(* uses of the shared counters: a request in the states of Transit is in   *)
(* the middle of a handler, and its worker does nothing else.  The servers *)
(* and the client are external: a server answers when it has seen at least *)
(* a part of the request, or fails in any way at any time.                 *)
(***************************************************************************)
EXTENDS Integers, SequencesExt, FiniteSetsExt

CONSTANTS
    Peers,        \* servers
    Groups,       \* upstream blocks: the lists of primary and backup servers
    Down,         \* servers marked "down"
    Weight, MaxFails, MaxConns,   \* parameters of the servers, MaxConns 0: none
    NextUpstream, \* proxy_next_upstream: for which failures another server is tried
    NextTries,    \* proxy_next_upstream_tries, 0: no limit
    MaxCached,    \* keepalive: connections kept by a worker
    Workers, Reqs,
    Kinds,        \* what clients ask for
    None,
    MaxStarts,    \* bound: requests started
    MaxDeaths     \* bound: workers that die

Failures == {"error", "timeout", "invalid_header", "http_404", "http_500"}

ASSUME UpstreamAssumption ==
    /\ IsFiniteSet(Peers) /\ IsFiniteSet(Workers) /\ IsFiniteSet(Reqs)
    /\ Groups \subseteq [primary : Seq(Peers), backup : Seq(Peers)]
    /\ \A g \in Groups : g.primary # <<>> /\ IsInjective(g.primary \o g.backup)
    /\ Down \subseteq Peers
    /\ Weight \in [Peers -> Nat \ {0}]
    /\ MaxFails \in [Peers -> Nat] /\ MaxConns \in [Peers -> Nat]
    /\ NextUpstream \subseteq Failures \cup {"non_idempotent"}
    /\ NextTries \in Nat /\ MaxCached \in Nat \ {0}
    /\ Kinds \subseteq [kind : {"get", "post", "stream"}, cacheable : BOOLEAN]
    /\ None \notin Peers \cup Workers
    /\ MaxStarts \in Nat /\ MaxDeaths \in Nat

VARIABLES
    group,    \* the group in use
    peer,     \* ngx_http_upstream_rr_peer_t, see Peer
    cache,    \* kcf->cache of each worker, the last used first
    req,      \* ngx_http_upstream_t of each request, see Req
    starts, deaths,   \* counted for the bounds
    leaked    \* history: the uses of each server that died with a worker

vars == <<group, peer, cache, req, starts, deaths, leaked>>
counts == <<starts, deaths, leaked>>

Peer == [conns     : Nat,
         fails     : Nat,          \* only compared with max_fails
         current   : Int,          \* current_weight
         effective : Int,          \* effective_weight
         recent    : BOOLEAN,      \* now - checked <= fail_timeout
         behind    : BOOLEAN]      \* accessed < checked

\* What a server has not sent or not received yet on a connection.
Wire == [answer : BOOLEAN, body : BOOLEAN]
Silent == [answer |-> FALSE, body |-> FALSE]

Transit == {"connect", "got", "send"}
Points  == Transit \cup {"idle", "connecting", "sending", "waiting", "relay"}

Req == [pc        : Points,
        worker    : Workers \cup {None},
        kind      : {"get", "post", "stream"},   \* "stream": the body is not buffered
        cacheable : BOOLEAN,
        gone      : BOOLEAN,                  \* r->connection->error
        tier      : {"primary", "backup"},    \* rrp->peers
        tried     : SUBSET Peers,
        tries     : Nat,
        peer      : Peers \cup {None},        \* rrp->current while sockaddr is set
        cached    : BOOLEAN,
        wire      : Wire,                     \* of u->peer.connection
        sent      : BOOLEAN,                  \* u->request_sent
        bodysent  : BOOLEAN,                  \* u->request_body_sent
        keepalive : BOOLEAN,                  \* u->keepalive
        hits      : 0..2,                     \* history: times it was sent, unless "get"
        failed    : Nat]                      \* history: tries that failed, but for
                                              \* kept connections that were closed

Idle == [pc |-> "idle", worker |-> None, kind |-> "get", cacheable |-> FALSE, gone |-> FALSE,
         tier |-> "primary", tried |-> {}, tries |-> 0, peer |-> None, cached |-> FALSE,
         wire |-> Silent, sent |-> FALSE, bodysent |-> FALSE, keepalive |-> FALSE,
         hits |-> 0, failed |-> 0]

\* peers->single
Single == Len(group.primary) = 1 /\ group.backup = <<>>

Init ==
    /\ group \in Groups
    /\ peer = [p \in Peers |-> [conns |-> 0, fails |-> 0, current |-> 0,
                                effective |-> Weight[p], recent |-> FALSE, behind |-> FALSE]]
    /\ cache = [w \in Workers |-> <<>>]
    /\ req = [r \in Reqs |-> Idle]
    /\ starts = 0 /\ deaths = 0
    /\ leaked = [p \in Peers |-> 0]

Becomes(r, c) == req' = [req EXCEPT ![r] = c]

\* No other request of the worker is in the middle of a handler.
Ready(r) == \A s \in Reqs \ {r} : req[s].worker = req[r].worker => req[s].pc \notin Transit

-----------------------------------------------------------------------------
(* The balancer. *)

\* ngx_http_upstream_tries(), limited by the directive.
Tries ==
    LET all == Cardinality(ToSet(group.primary \o group.backup) \ Down)
    IN  IF NextTries > 0 THEN Min({all, NextTries}) ELSE all

\* The servers of list l that may be used; a single one is not given up.
Candidates(l, tried) ==
    {p \in ToSet(l) \ (tried \cup Down) :
        /\ MaxConns[p] = 0 \/ peer[p].conns < MaxConns[p]
        /\ Single \/ MaxFails[p] = 0 \/ peer[p].fails < MaxFails[p] \/ ~peer[p].recent}

\* The times of a server are only looked at after failures.
Timed(f) == IF f.fails > 0 THEN f ELSE [f EXCEPT !.recent = FALSE, !.behind = FALSE]

\* ngx_http_upstream_get_peer(), the smooth weighted choice.  Every server of E
\* gains its weight, which recovers by one after failures ...
Raised(E) ==
    [p \in Peers |-> IF p \in E THEN [peer[p] EXCEPT !.current = @ + peer[p].effective,
                                                    !.effective = Min({@ + 1, Weight[p]})]
                                ELSE peer[p]]

Total(E) == SumFunctionOnSet([p \in Peers |-> peer[p].effective], E)

\* ... and the first of list l with the greatest one ...
Best(l, E) ==
    l[Min({i \in DOMAIN l : l[i] \in E /\ \A p \in E :
               Raised(E)[l[i]].current >= Raised(E)[p].current})]

\* Mutant: the weights of all servers of the list are taken from the best.
PickedOfAll(l, E) ==
    LET best == Best(l, E)
    IN  [best  |-> best,
         peers |-> [Raised(E) EXCEPT ![best] = Timed([Raised(E)[best] EXCEPT
                        !.current = @ - Total(ToSet(l)),
                        !.recent = TRUE, !.behind = @ \/ ~peer[best].recent])]]

\* ... is the best, and gives back what all of them gained.
Picked(l, E) ==
    LET best == Best(l, E)
    IN  [best  |-> best,
         peers |-> [Raised(E) EXCEPT ![best] = Timed([Raised(E)[best] EXCEPT
                        !.current = @ - Total(E),
                        !.recent = TRUE, !.behind = @ \/ ~peer[best].recent])]]

\* ngx_http_upstream_free_round_robin_peer(): the counters of the server ...
Freed(c, failed) ==
    LET p == c.peer
        f == peer[p]
        left == IF Single THEN [f EXCEPT !.conns = @ - 1]
                ELSE IF failed
                THEN Timed([f EXCEPT
                        !.conns = @ - 1,
                        !.fails = Min({@ + 1, MaxFails[p]}),
                        !.effective = IF MaxFails[p] = 0 THEN @
                                      ELSE Max({0, @ - Weight[p] \div MaxFails[p]}),
                        !.recent = TRUE, !.behind = FALSE])
                ELSE Timed([f EXCEPT !.conns = @ - 1, !.fails = IF f.behind THEN 0 ELSE @])
    IN  IF p = None THEN peer ELSE [peer EXCEPT ![p] = left]

\* ... and the tries of the request.
TriesLeft(c) ==
    IF c.peer = None THEN c.tries
    ELSE IF Single THEN 0 ELSE Max({0, c.tries - 1})

\* fail_timeout is over.
Pass(p) ==
    /\ peer[p].recent
    /\ peer' = [peer EXCEPT ![p].recent = FALSE]
    /\ UNCHANGED <<group, cache, req, counts>>

-----------------------------------------------------------------------------
(* Kept connections. *)

\* Mutant: an answer is enough, the request may be half sent.
MaySaveEarly(c, failed) ==
    ~failed /\ c.pc \notin {"connect", "got"} /\ c.keepalive

\* ngx_http_upstream_free_keepalive_peer(): the connection may be kept, if it is
\* still good, not too old and not used too often.
MaySave(c, failed) ==
    ~failed /\ c.pc \notin {"connect", "got"} /\ c.keepalive /\ c.bodysent

Save(c) ==
    LET q == <<[peer |-> c.peer, wire |-> c.wire]>> \o cache[c.worker]
    IN  cache' = [cache EXCEPT ![c.worker] = SubSeq(q, 1, Min({Len(q), MaxCached}))]

\* Mutant: the balancer is not told when the connection is kept.
ReleaseSilently(c, failed) ==
    \/ peer' = Freed(c, failed) /\ UNCHANGED cache
    \/ MaySave(c, failed) /\ Save(c) /\ UNCHANGED peer

\* The server of request c is given back, the connection kept or closed.
Release(c, failed) ==
    /\ peer' = Freed(c, failed)
    /\ \/ UNCHANGED cache
       \/ MaySave(c, failed) /\ Save(c)

\* ngx_http_upstream_keepalive_close_handler(): closed by the server, or unused
\* for too long.
CloseCached(w, i) ==
    /\ i \in DOMAIN cache[w]
    /\ \A r \in Reqs : req[r].worker = w => req[r].pc \notin Transit
    /\ cache' = [cache EXCEPT ![w] = RemoveAt(@, i)]
    /\ UNCHANGED <<group, peer, req, counts>>

-----------------------------------------------------------------------------
(* The end of a try. *)

\* ngx_http_upstream_finalize_request().
Finalize(r, c) ==
    /\ Release(c, FALSE)
    /\ Becomes(r, Idle)
    /\ UNCHANGED <<group, counts>>

\* Mutant: what the request is, is not looked at.
MayGoOnBlindly(c, ft, tries) ==
    tries > 0 /\ ft \in NextUpstream /\ ~c.gone

\* Another server may be tried after a failure ft.
MayGoOn(c, ft, tries) ==
    /\ tries > 0
    /\ ft \in NextUpstream
    /\ c.kind = "post" /\ c.sent => "non_idempotent" \in NextUpstream
    /\ ~(c.kind = "stream" /\ c.sent)
    /\ ~c.gone

\* Mutant: a kept connection costs no try, whatever happened on it.
RefundAlways(c, ft) == c.cached

\* A kept connection may have been closed meanwhile: that costs no try.
Refund(c, ft) == c.cached /\ ft = "error"

\* ngx_http_upstream_next(); next_upstream_timeout may be over.
NextServer(r, c, ft) ==
    LET tries == TriesLeft(c) + (IF Refund(c, ft) THEN 1 ELSE 0)
    IN /\ Release(c, ft # "http_404")
       /\ \/ /\ MayGoOn(c, ft, tries)
             /\ Becomes(r, [c EXCEPT !.pc = "connect", !.tries = tries, !.peer = None,
                                     !.cached = FALSE, !.wire = Silent,
                                     !.failed = IF c.cached /\ ft = "error" THEN @ ELSE @ + 1])
          \/ Becomes(r, Idle)
       /\ UNCHANGED <<group, counts>>

-----------------------------------------------------------------------------
(* The handlers. *)

Start(r) ==
    /\ req[r].pc = "idle" /\ starts < MaxStarts
    /\ starts' = starts + 1
    /\ \E w \in Workers, k \in Kinds :
          /\ \A s \in Reqs : req[s].worker = w => req[s].pc \notin Transit
          /\ Becomes(r, [Idle EXCEPT !.pc = "connect", !.worker = w, !.kind = k.kind,
                                     !.cacheable = k.cacheable, !.tries = Tries])
    /\ UNCHANGED <<group, peer, cache, deaths, leaked>>

\* ngx_http_upstream_connect() asks the balancer; without a live server the
\* request ends.
NoLive(r) ==
    /\ req[r].pc = "connect"
    /\ Candidates(group[req[r].tier], req[r].tried) = {}
    /\ Candidates(group.backup, {}) = {} \/ req[r].tier = "backup"
    /\ Finalize(r, req[r])

\* A server is chosen; if a connection to it was kept, it is used.
GetPeer(r) ==
    LET own   == Candidates(group[req[r].tier], req[r].tried)
        tier  == IF own = {} THEN "backup" ELSE req[r].tier
        tried == IF tier = req[r].tier THEN req[r].tried ELSE {}
        E     == Candidates(group[tier], tried)
        pick  == IF Single THEN [best |-> group.primary[1], peers |-> peer]
                           ELSE Picked(group[tier], E)
        w     == req[r].worker
        kept  == {i \in DOMAIN cache[w] : cache[w][i].peer = pick.best}
        c     == [req[r] EXCEPT !.tier = tier, !.peer = pick.best, !.cached = kept # {},
                                !.tried = IF Single THEN {} ELSE tried \cup {pick.best}]
    IN /\ req[r].pc = "connect" /\ E # {}
       /\ own = {} => req[r].tier = "primary"
       /\ peer' = [pick.peers EXCEPT ![pick.best].conns = @ + 1]
       /\ IF kept = {}
          THEN /\ Becomes(r, [c EXCEPT !.pc = "got"])
               /\ UNCHANGED cache
          ELSE /\ Becomes(r, [c EXCEPT !.pc = "send", !.wire = cache[w][Min(kept)].wire,
                                       !.sent = FALSE, !.bodysent = FALSE,
                                       !.keepalive = @ /\ ~req[r].sent])
               /\ cache' = [cache EXCEPT ![w] = RemoveAt(@, Min(kept))]
       /\ UNCHANGED <<group, counts>>

\* ngx_event_connect_peer() fails: no socket, or connect() is refused at once.
NoSocket(r) == req[r].pc = "got" /\ Finalize(r, req[r])
Refused(r)  == req[r].pc = "got" /\ NextServer(r, req[r], "error")

\* The connection is being made or is there; ngx_http_upstream_reinit() resets
\* what a request that was sent left behind.
Connect(r) ==
    /\ req[r].pc = "got"
    /\ \E p \in {"connecting", "send"} :
          Becomes(r, [req[r] EXCEPT !.pc = p, !.keepalive = @ /\ ~req[r].sent,
                                    !.sent = FALSE, !.bodysent = FALSE])
    /\ UNCHANGED <<group, peer, cache, counts>>

\* Before the request: the connection failed, or was not made in time.
ConnectFails(r) ==
    /\ Ready(r)
    /\ \/ req[r].pc \in {"connecting", "send"} /\ NextServer(r, req[r], "error")
       \/ req[r].pc = "connecting" /\ NextServer(r, req[r], "timeout")

\* ngx_http_upstream_send_request() sends all of the request, a part of it, or
\* fails.
Send(r) ==
    LET c == [req[r] EXCEPT !.sent = TRUE,
                            !.hits = IF req[r].sent \/ req[r].kind = "get" THEN @
                                    ELSE Min({2, @ + 1})]
    IN /\ Ready(r) /\ req[r].pc \in {"connecting", "send", "sending"}
       /\ \/ /\ Becomes(r, [c EXCEPT !.pc = "waiting", !.bodysent = TRUE,
                                     !.wire = [answer |-> TRUE, body |-> FALSE]])
             /\ UNCHANGED <<group, peer, cache, counts>>
          \/ /\ req[r].pc # "sending"
             /\ Becomes(r, [c EXCEPT !.pc = "sending",
                                     !.wire = [answer |-> TRUE, body |-> TRUE]])
             /\ UNCHANGED <<group, peer, cache, counts>>
          \/ NextServer(r, c, "error")

\* The write timer while the request is sent, the read timer afterwards.
Timeout(r) ==
    /\ Ready(r) /\ req[r].pc \in {"sending", "waiting"}
    /\ NextServer(r, req[r], "timeout")

\* ngx_http_upstream_process_header(): the server closed the connection, or
\* sent no header.
BadHeader(r) ==
    /\ Ready(r) /\ req[r].pc \in {"sending", "waiting"}
    /\ \E ft \in {"error", "invalid_header"} : NextServer(r, req[r], ft)

\* A request whose answer is sent to the client tries no other server.
Relayed(c) == [Idle EXCEPT !.pc = "relay", !.worker = c.worker, !.peer = c.peer,
                           !.wire = c.wire, !.bodysent = c.bodysent,
                           !.keepalive = c.keepalive]

\* u->keepalive after the header, as ngx_http_proxy_input_filter_init() sets it;
\* with a body to come the filters of the proxy module set it at its end.
KeptAlive(body, alive) == ~body /\ alive

\* A header came, maybe before the whole request was sent.  Without a body the
\* answer is complete, and the server may leave the connection open.  Some answers
\* make another server be tried, or are replaced by a page of ours.
Header(r) ==
    /\ Ready(r) /\ req[r].pc \in {"sending", "waiting"}
    /\ \E body \in BOOLEAN, alive \in BOOLEAN :
          LET c == [req[r] EXCEPT !.wire.answer = body, !.keepalive = KeptAlive(body, alive)]
          IN /\ body => ~alive
             /\ \/ /\ Becomes(r, Relayed(c))
                   /\ UNCHANGED <<group, peer, cache, counts>>
                \/ Finalize(r, c)
                \/ \E ft \in {"http_404", "http_500"} :
                      /\ c.tries > 1 /\ MayGoOn([c EXCEPT !.gone = FALSE], ft, c.tries)
                      /\ NextServer(r, c, ft)

\* The answer is sent to the client to its end, which the server or the client
\* may bring about early.
Relay(r) ==
    /\ Ready(r) /\ req[r].pc = "relay"
    /\ \E alive \in BOOLEAN :
          \/ Finalize(r, [req[r] EXCEPT !.wire.answer = FALSE, !.keepalive = @ \/ alive])
          \/ Finalize(r, req[r])

\* ngx_http_upstream_check_broken_connection(): the client closed its connection.
ClientGone(r) ==
    /\ Ready(r) /\ req[r].pc \in {"connecting", "sending", "waiting"} /\ ~req[r].gone
    /\ \/ ~req[r].cacheable /\ Finalize(r, req[r])
       \/ /\ req[r].cacheable
          /\ Becomes(r, [req[r] EXCEPT !.gone = TRUE])
          /\ UNCHANGED <<group, peer, cache, counts>>

\* ngx_http_upstream_cleanup(), or an error of our own in a handler.
Cleanup(r) ==
    /\ Ready(r) /\ req[r].pc \in {"connecting", "send", "sending", "waiting"}
    /\ Finalize(r, req[r])

\* A worker dies with its requests and connections; another one replaces it.
Kill(w) ==
    /\ deaths < MaxDeaths
    /\ deaths' = deaths + 1
    /\ leaked' = [p \in Peers |-> leaked[p] +
                     Cardinality({r \in Reqs : req[r].worker = w /\ req[r].peer = p})]
    /\ req' = [r \in Reqs |-> IF req[r].worker = w THEN Idle ELSE req[r]]
    /\ cache' = [cache EXCEPT ![w] = <<>>]
    /\ UNCHANGED <<group, peer, starts>>

-----------------------------------------------------------------------------
Handle(r) ==
    \/ NoLive(r) \/ GetPeer(r) \/ NoSocket(r) \/ Refused(r) \/ Connect(r)
    \/ ConnectFails(r) \/ Send(r) \/ Timeout(r) \/ BadHeader(r) \/ Header(r)
    \/ Relay(r) \/ Cleanup(r)

Next ==
    \/ \E r \in Reqs : Start(r) \/ Handle(r) \/ ClientGone(r)
    \/ \E p \in Peers : Pass(p)
    \/ \E w \in Workers : Kill(w) \/ \E i \in 1..MaxCached : CloseCached(w, i)

\* Every state of a request in which its worker waits has a timer of the
\* connection: the handler runs in the end.
Spec == Init /\ [][Next]_vars /\ \A r \in Reqs : WF_vars(Handle(r))

-----------------------------------------------------------------------------
(* Properties. *)

\* Every variable has its type.
TypeOK ==
    /\ group \in Groups
    /\ peer \in [Peers -> Peer]
    /\ \A w \in Workers : \A i \in DOMAIN cache[w] : cache[w][i] \in [peer : Peers, wire : Wire]
    /\ req \in [Reqs -> Req]
    /\ starts \in Nat /\ deaths \in Nat /\ leaked \in [Peers -> Nat]

\* peer->conns is exact: the requests that use a server, counted once each through
\* refusals, retries, kept connections, switches to the backup servers and ends of
\* every kind, and the uses that died with their workers, which nothing gives back.
\* So max_conns is neither exceeded nor used up by requests that are over.
ConnsExact ==
    \A p \in Peers :
        /\ peer[p].conns = Cardinality({r \in Reqs : req[r].peer = p}) + leaked[p]
        /\ MaxConns[p] > 0 => peer[p].conns <= MaxConns[p]

\* A kept connection is silent: the answer of the last request was read to its end
\* and the server does not wait for the rest of its body, so the next request gets
\* its own answer.
CleanReuse ==
    /\ \A w \in Workers : \A i \in DOMAIN cache[w] : cache[w][i].wire = Silent
    /\ \A r \in Reqs : req[r].pc = "send" => req[r].wire = Silent

\* A request that must not be repeated, or whose body is gone when it was sent, is
\* sent to at most one server.
SentOnce ==
    \A r \in Reqs :
        \/ req[r].kind = "stream"
        \/ req[r].kind = "post" /\ "non_idempotent" \notin NextUpstream
        => req[r].hits <= 1

\* A request fails no more often than it has tries, although kept connections that
\* turn out to be closed are not counted.
RetryBound == \A r \in Reqs : req[r].failed < Max({1, Tries})

\* The weights stay balanced: whatever servers are left out of a choice, what the
\* others gain is taken from the best, so no server is preferred in the long run.
WeightsBalanced ==
    /\ \A l \in {group.primary, group.backup} :
          SumFunctionOnSet([p \in Peers |-> peer[p].current], ToSet(l)) = 0
    /\ \A p \in Peers : peer[p].effective \in 0..Weight[p]

=============================================================================
