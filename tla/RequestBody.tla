---------------------------- MODULE RequestBody ----------------------------
(***************************************************************************)
(* Request with a client's body that the handler does not read:            *)
(* ngx_http_discard_request_body holds the main request until the body has *)
(* arrived.  ngx_http_subrequest copies r->discard_body, and headers_in    *)
(* with the length that is left, into the subrequest, and a request that   *)
(* writes reads the body on behalf of its own copy.                        *)
(***************************************************************************)
EXTENDS Request

\* A handler of the main request discards the body: r->count++.
Discard(r) ==
    /\ r = main /\ Running(r) /\ ~req[r].upstream /\ doc[r] = <<>>
    /\ ~req[r].discard
    /\ req' = [req EXCEPT ![r].discard = TRUE]
    /\ count' = count + 1
    /\ UNCHANGED <<turn, thread, conn, destroyed, books, used, page>>

\* ngx_http_discarded_request_body_handler, of the active request when it is its
\* read handler: the rest of the body was read, or the client sends no more.
BodyRead(r) ==
    /\ Event /\ r = active /\ req[r].discard
    /\ req[r].handler = "writer" \/ req[r].done
    /\ req' = [req EXCEPT ![r].discard = FALSE]
    /\ CloseRequest
    /\ UNCHANGED <<turn, thread, conn, books, used, page>>

NextBody == Next \/ \E r \in Requests : Discard(r) \/ BodyRead(r)

SpecBody == Init /\ [][NextBody]_vars

\* The alert in ngx_http_close_request, "http request count is zero", never has
\* cause to be written: a request that is not freed yet has a holder.
CountNotZero == ~destroyed => count # 0
=============================================================================
