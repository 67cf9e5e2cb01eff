-------------------------------- MODULE Tls --------------------------------
(***************************************************************************)
(* GmSSL's handshakes and the two tools that run them: one client and one  *)
(* server process of the same protocol (TLCP, TLS 1.2 or TLS 1.3), each a  *)
(* single thread on a blocking socket (src/tlcp.c, tls12.c, tls13.c,       *)
(* tls.c; tools/*_client.c, *_server.c of GmSSL-3.1.1).                    *)
(*                                                                         *)
(* A handshake function is a fixed list of sends and receives; a step here *)
(* is one of them with the checks and the updates that follow it.  The     *)
(* cryptography is abstract: a record is encrypted under the secret its    *)
(* sender derived from what it has seen, a signature or a Finished covers  *)
(* its sender's transcript, and a receiver whose own values differ rejects *)
(* it.  A message is its type, and d: "" as it was sent, "alt" a part that *)
(* the handshake computes with was changed on the way (a random, a key, a  *)
(* signature, an issuer), "rest" any other part, "junk" it does not parse  *)
(* or decrypt, "part" the sender died before it had written all of it.     *)
(***************************************************************************)
EXTENDS Naturals, Sequences, SequencesExt

CONSTANTS
    Protocols,    \* a subset of {"tlcp", "tls12", "tls13"}
    MaxData,      \* lines typed into the client
    MaxFaults     \* damaged records and killed processes

ASSUME TlsAssumption ==
    /\ Protocols \subseteq {"tlcp", "tls12", "tls13"}
    /\ MaxData \in Nat /\ MaxFaults \in Nat

VARIABLES
    conf,     \* protocol; client's certificate and CA; does the server have a CA
    status,   \* what each process is doing
    pc,       \* its place in its handshake function
    certs,    \* conn->client_certs of the client
    hash,     \* the messages in each side's transcript
    seq,      \* each side's client_seq_num and server_seq_num
    wire,     \* the records on the way to each side
    open,     \* sockets not closed yet
    est,      \* sides whose tls_do_handshake returned 1
    sent,     \* application data written by each side
    got,      \* application data returned by tls_recv
    faults    \* what has gone wrong from outside, in order

vars == <<conf, status, pc, certs, hash, seq, wire, open, est, sent, got, faults>>

Roles == {"client", "server"}

Peer(r) == CHOOSE p \in Roles : p # r

-----------------------------------------------------------------------------
\* The handshake functions.  A step sends or receives a message of a type; "if"
\* marks the steps of client authentication, "may" the request for it, which the
\* client finds out by reading it.
S(t) == [op |-> "send", t |-> t, when |-> "always"]
R(t) == [op |-> "recv", t |-> t, when |-> "always"]
SIf(t) == [op |-> "send", t |-> t, when |-> "if"]
RIf(t) == [op |-> "recv", t |-> t, when |-> "if"]
RMay(t) == [op |-> "recv", t |-> t, when |-> "may"]

TlcpConnectHello == <<S("Hello"), R("ServerHello"), R("Certificate"), R("KeyExchange")>>
TlcpConnectAsked == <<RMay("Request"), R("HelloDone")>>
TlcpConnectReply == <<SIf("ClientCertificate"), S("ClientKeyExchange"), SIf("Verify")>>
TlcpConnectFinish == <<S("ChangeCipher"), S("Finished"), R("ChangeCipher"), R("Finished")>>

TlcpAcceptHello == <<R("Hello"), S("ServerHello"), S("Certificate"), S("KeyExchange")>>
TlcpAcceptAskOnly == <<SIf("Request")>>
TlcpAcceptAsk == <<SIf("Request"), S("HelloDone")>>
TlcpAcceptReply == <<RIf("ClientCertificate"), R("ClientKeyExchange"), RIf("Verify")>>
TlcpAcceptFinish == <<R("ChangeCipher"), R("Finished"), S("ChangeCipher"), S("Finished")>>

Tls12ConnectHello == <<S("Hello"), R("ServerHello"), R("Certificate"), R("KeyExchange")>>
Tls12ConnectAsked == <<RMay("Request"), R("HelloDone")>>
Tls12ConnectReply == <<SIf("ClientCertificate"), S("ClientKeyExchange"), SIf("Verify")>>
Tls12ConnectFinish == <<S("ChangeCipher"), S("Finished"), R("ChangeCipher"), R("Finished")>>

Tls12AcceptHello == <<R("Hello"), S("ServerHello"), S("Certificate"), S("KeyExchange")>>
Tls12AcceptAsk == <<SIf("Request"), S("HelloDone")>>
Tls12AcceptReply == <<RIf("ClientCertificate"), R("ClientKeyExchange"), RIf("Verify")>>
Tls12AcceptFinish == <<R("ChangeCipher"), R("Finished"), S("ChangeCipher"), S("Finished")>>

Tls13ConnectHello == <<S("Hello"), R("ServerHello"), R("Extensions")>>
Tls13ConnectServer == <<RMay("Request"), R("Certificate"), R("Verify"), R("Finished")>>
Tls13ConnectFinish == <<SIf("ClientCertificate"), SIf("Verify"), S("Finished")>>

Tls13AcceptHello == <<R("Hello"), S("ServerHello"), S("Extensions")>>
Tls13AcceptServer == <<SIf("Request"), S("Certificate"), S("Verify"), S("Finished")>>
Tls13AcceptFinish == <<RIf("ClientCertificate"), RIf("Verify"), R("Finished")>>

\* tls_do_handshake: the function for the protocol and the side.
Steps(p, r) ==
    CASE p = "tlcp" /\ r = "client" ->
            TlcpConnectHello \o TlcpConnectAsked \o TlcpConnectReply \o TlcpConnectFinish
      [] p = "tlcp" /\ r = "server" ->
            TlcpAcceptHello \o TlcpAcceptAsk \o TlcpAcceptReply \o TlcpAcceptFinish
      [] p = "tls12" /\ r = "client" ->
            Tls12ConnectHello \o Tls12ConnectAsked \o Tls12ConnectReply \o Tls12ConnectFinish
      [] p = "tls12" /\ r = "server" ->
            Tls12AcceptHello \o Tls12AcceptAsk \o Tls12AcceptReply \o Tls12AcceptFinish
      [] p = "tls13" /\ r = "client" ->
            Tls13ConnectHello \o Tls13ConnectServer \o Tls13ConnectFinish
      [] p = "tls13" /\ r = "server" ->
            Tls13AcceptHello \o Tls13AcceptServer \o Tls13AcceptFinish

MySteps(r) == Steps(conf.proto, r)

\* The first step from i on that this side takes: the server skips client
\* authentication without CA certificates, the client without certificates.
From(r, i, cs) ==
    LET asked == IF r = "server" THEN conf.ca ELSE cs # "none"
    IN  CHOOSE j \in i..Len(MySteps(r)) + 1 :
            /\ j <= Len(MySteps(r)) => MySteps(r)[j].when # "if" \/ asked
            /\ \A k \in i..j - 1 : MySteps(r)[k].when = "if" /\ ~asked

-----------------------------------------------------------------------------
Init ==
    /\ conf \in [proto : Protocols, cert : {"none", "right", "wrong"}, ca : BOOLEAN,
                 clientCa : {"none", "right", "wrong"}]
    /\ status = [r \in Roles |-> "handshake"]
    /\ pc = [r \in Roles |-> 1]
    /\ certs = conf.cert
    /\ hash = [r \in Roles |-> <<>>]
    /\ seq = [r \in Roles |-> [w \in Roles |-> 0]]
    /\ wire = [r \in Roles |-> <<>>]
    /\ open = Roles
    /\ est = {}
    /\ sent = [r \in Roles |-> <<>>]
    /\ got = [r \in Roles |-> <<>>]
    /\ faults = <<>>

-----------------------------------------------------------------------------
\* The traffic secret a side derives.  TLCP and TLS 1.2: from the two randoms and
\* the pre-master secret.  TLS 1.3: from the key shares and the transcript to
\* ServerHello, and for application data the transcript to the server's Finished.
Secret(r) ==
    LET h == hash[r]
        end == SelectInSeq(h, LAMBDA e : e[1] = "Finished")
    IN  CASE conf.proto # "tls13" ->
               <<"master">> \o SelectSeq(h, LAMBDA e :
                   e[1] \in {"Hello", "ServerHello", "ClientKeyExchange"} /\ e[2] = "alt")
          [] conf.proto = "tls13" /\ status[r] = "handshake" ->
               <<"handshake">> \o SubSeq(h, 1, 2)
          [] OTHER -> <<"application">> \o SubSeq(h, 1, end)

\* Messages sent encrypted.
Encrypted(t) ==
    \/ t \in {"Finished", "data"}
    \/ conf.proto = "tls13" /\ t \notin {"Hello", "ServerHello", "alert", "close_notify"}

\* A record from r: v is what the message carries or covers.
Record(r, t, v) ==
    LET x == Encrypted(t)
    IN  [t |-> t, d |-> "", v |-> v,
         key |-> IF x THEN Secret(r) ELSE <<>>, n |-> IF x THEN seq[r][r] ELSE 0]

\* tls_record_decrypt, tls13_record_decrypt: under this side's secret and its own
\* number for the peer's next record.
Decrypts(r, m) ==
    m.d = "" /\ m.key = Secret(r) /\ m.n = seq[r][Peer(r)]

\* The randoms and the certificate that the ServerKeyExchange signature covers.
Signed(h) ==
    SelectSeq(h, LAMBDA e : e[1] \in {"Hello", "ServerHello", "Certificate"} /\ e[2] = "alt")

\* What a message carries: a certificate, a signature, a verify_data.
Carried(r, t) ==
    CASE t = "ClientCertificate" -> <<certs>>
      [] t = "KeyExchange" -> Signed(hash[r])
      [] t \in {"Verify", "Finished"} -> hash[r]
      [] OTHER -> <<>>

\* A TLCP client without CA certificates does not verify the server's chain; a
\* TLS client without them cannot.
ServerTrusted ==
    conf.clientCa = "right" \/ (conf.proto = "tlcp" /\ conf.clientCa = "none")

\* CertificateVerify and Finished cover the sender's transcript; the receiver
\* computes them over its own.
CoversAnything(r, m) == m.d = ""

Covers(r, m) == m.d = "" /\ m.v = hash[r]

\* The checks on a message that parses.
Accepts(r, m) ==
    CASE m.t = "Certificate" ->
               ServerTrusted /\ (m.d = "alt" => conf.clientCa = "none")
      [] m.t = "KeyExchange" -> m.d = "" /\ m.v = Signed(hash[r])
      [] m.t = "Request" ->
               conf.proto = "tls13" \/ (certs = "right" /\ m.d # "alt")
      [] m.t = "ClientCertificate" -> m.v = <<"right">> /\ m.d # "alt"
      [] m.t = "ClientKeyExchange" -> conf.proto = "tlcp" => m.d # "alt"
      [] m.t \in {"Verify", "Finished"} -> Covers(r, m)
      [] OTHER -> TRUE

-----------------------------------------------------------------------------
\* tls_record_send: to a socket whose other end is closed, the bytes are lost.
Put(r, m) ==
    [wire EXCEPT ![Peer(r)] = IF Peer(r) \in open THEN Append(@, m) ELSE @]

\* tls_send_alert, which TLS 1.3 leaves out at some places; then the process gives
\* up and will close its socket.
Fail(r) ==
    /\ status' = [status EXCEPT ![r] = "failed"]
    /\ \/ wire' = [Put(r, Record(r, "alert", <<>>)) EXCEPT ![r] = Tail(@)]
       \/ conf.proto = "tls13" /\ wire' = [wire EXCEPT ![r] = Tail(@)]

\* The transcript after a message; ChangeCipherSpec is no handshake message.
Hashed(h, m) == IF m.t = "ChangeCipher" THEN h ELSE Append(h, <<m.t, m.d>>)

\* The sequence numbers after the message: counted when encrypted, and set to
\* zero when the TLS 1.3 keys change.
Numbered(r, w, t, last) ==
    IF conf.proto = "tls13" /\ (t = "ServerHello" \/ last)
    THEN [seq EXCEPT ![r] = [x \in Roles |-> 0]]
    ELSE [seq EXCEPT ![r][w] = IF Encrypted(t) THEN @ + 1 ELSE @]

\* The handshake function goes on to the next step, or returns 1.
Goes(r, i, w, m, cs) ==
    LET next == From(r, i + 1, cs)
        last == next > Len(MySteps(r))
    IN  /\ pc' = [pc EXCEPT ![r] = next]
        /\ hash' = [hash EXCEPT ![r] = Hashed(@, m)]
        /\ seq' = Numbered(r, w, m.t, last)
        /\ status' = [status EXCEPT ![r] = IF last THEN "up" ELSE @]
        /\ est' = IF last THEN est \cup {r} ELSE est

\* A send step.  A send that fails ends the handshake, without an alert.
Send(r) ==
    /\ status[r] = "handshake"
    /\ MySteps(r)[pc[r]].op = "send"
    /\ LET t == MySteps(r)[pc[r]].t
           m == Record(r, t, Carried(r, t))
       IN  \/ /\ wire' = Put(r, m)
              /\ Goes(r, pc[r], r, m, certs)
           \/ /\ Peer(r) \notin open
              /\ status' = [status EXCEPT ![r] = "failed"]
              /\ UNCHANGED <<pc, hash, seq, wire, est>>
    /\ UNCHANGED <<conf, certs, open, sent, got, faults>>

\* The step at which a record is taken: when no request comes, the record read in
\* its place is the next step's.
TakenAt(r, m) ==
    IF MySteps(r)[pc[r]].when = "may" /\ m.t # "Request" THEN pc[r] + 1 ELSE pc[r]

\* A client that is asked for nothing clears its certificates.
CertsKept(r, i) == certs

CertsLeft(r, i) == IF i # pc[r] THEN "none" ELSE certs

\* A receive step: parse, decrypt, check.
Receive(r) ==
    /\ status[r] = "handshake"
    /\ MySteps(r)[pc[r]].op = "recv"
    /\ wire[r] # <<>>
    /\ LET m == Head(wire[r])
           i == TakenAt(r, m)
           cs == CertsLeft(r, i)
       IN  CASE m.d = "part" ->
                  /\ status' = [status EXCEPT ![r] = "spinning"]
                  /\ UNCHANGED <<pc, certs, hash, seq, wire, est>>
             [] /\ m.d \in {"", "alt", "rest"}
                /\ m.t = MySteps(r)[i].t
                /\ Encrypted(m.t) => Decrypts(r, m)
                /\ Accepts(r, m) ->
                  /\ wire' = [wire EXCEPT ![r] = Tail(@)]
                  /\ certs' = cs
                  /\ Goes(r, i, Peer(r), m, cs)
             [] OTHER ->
                  /\ Fail(r)
                  /\ UNCHANGED <<pc, certs, hash, seq, est>>
    /\ UNCHANGED <<conf, open, sent, got, faults>>

\* tls_record_do_recv returns 0 or -1: the peer has closed.
ReceiveEnd(r) ==
    /\ status[r] = "handshake"
    /\ MySteps(r)[pc[r]].op = "recv"
    /\ wire[r] = <<>> /\ Peer(r) \notin open
    /\ status' = [status EXCEPT ![r] = "failed"]
    /\ UNCHANGED <<conf, pc, certs, hash, seq, wire, open, est, sent, got, faults>>

-----------------------------------------------------------------------------
\* tls_send, tls13_send: TLS 1.3 takes no notice of a send that fails.
Write(r, n) ==
    LET m == Record(r, "data", n)
    IN  /\ wire' = Put(r, m)
        /\ seq' = [seq EXCEPT ![r][r] = @ + 1]
        /\ sent' = [sent EXCEPT ![r] = Append(@, n)]

SendFails(r) == Peer(r) \notin open /\ conf.proto # "tls13"

\* A line typed into the client.
Type ==
    /\ status["client"] = "up"
    /\ Len(sent["client"]) < MaxData
    /\ \/ /\ Write("client", Len(sent["client"]) + 1)
          /\ UNCHANGED status
       \/ /\ SendFails("client")
          /\ status' = [status EXCEPT !["client"] = "done"]
          /\ seq' = [seq EXCEPT !["client"]["client"] = @ + 1]
          /\ UNCHANGED <<wire, sent>>
    /\ UNCHANGED <<conf, pc, certs, hash, open, est, got, faults>>

\* select() reports the client's socket, first asked after a line: tls_recv.
ClientReads ==
    /\ status["client"] = "up" /\ sent["client"] # <<>>
    /\ \/ /\ wire["client"] # <<>>
          /\ LET m == Head(wire["client"])
             IN  /\ wire' = [wire EXCEPT !["client"] = Tail(@)]
                 /\ IF m.t = "data" /\ Decrypts("client", m)
                    THEN /\ got' = [got EXCEPT !["client"] = Append(@, m.v)]
                         /\ seq' = [seq EXCEPT !["client"]["server"] = @ + 1]
                         /\ UNCHANGED status
                    ELSE /\ status' = [status EXCEPT !["client"] =
                                          IF m.d = "part" THEN "spinning" ELSE "done"]
                         /\ UNCHANGED <<got, seq>>
       \/ /\ wire["client"] = <<>> /\ "server" \notin open
          /\ status' = [status EXCEPT !["client"] = "done"]
          /\ UNCHANGED <<wire, got, seq>>
    /\ UNCHANGED <<conf, pc, certs, hash, open, est, sent, faults>>

\* End of the client's input: tls_shutdown sends close_notify...
Shutdown ==
    /\ status["client"] = "up"
    /\ \/ /\ wire' = Put("client", Record("client", "close_notify", <<>>))
          /\ status' = [status EXCEPT !["client"] = "shutdown"]
       \/ /\ "server" \notin open
          /\ status' = [status EXCEPT !["client"] = "done"]
          /\ UNCHANGED wire
    /\ UNCHANGED <<conf, pc, certs, hash, seq, open, est, sent, got, faults>>

\* ... and reads one record, whatever it is.
ShutdownReads ==
    /\ status["client"] = "shutdown"
    /\ \/ /\ wire["client"] # <<>>
          /\ wire' = [wire EXCEPT !["client"] = Tail(@)]
          /\ status' = [status EXCEPT !["client"] =
                            IF Head(wire["client"]).d = "part" THEN "spinning" ELSE "done"]
       \/ /\ wire["client"] = <<>> /\ "server" \notin open
          /\ status' = [status EXCEPT !["client"] = "done"]
          /\ UNCHANGED wire
    /\ UNCHANGED <<conf, pc, certs, hash, seq, open, est, sent, got, faults>>

\* The server's loop: tls_recv, then tls_send of the same data.  When the receive
\* fails it goes back to accept() and leaves the socket open.
ServerReads ==
    /\ status["server"] = "up"
    /\ wire["server"] # <<>>
    /\ LET m == Head(wire["server"])
           reply == IF m.t = "data" THEN Record("server", "data", m.v)
                    ELSE Record("server", "close_notify", <<>>)
           answered == [Put("server", reply) EXCEPT !["server"] = Tail(@)]
           unanswered == [wire EXCEPT !["server"] = Tail(@)]
       IN  IF m.t = "data" /\ Decrypts("server", m)
           THEN /\ got' = [got EXCEPT !["server"] = Append(@, m.v)]
                /\ sent' = [sent EXCEPT !["server"] = Append(@, m.v)]
                /\ seq' = [seq EXCEPT !["server"] = [w \in Roles |-> @[w] + 1]]
                /\ \/ wire' = answered /\ UNCHANGED status
                   \/ /\ SendFails("server")
                      /\ wire' = unanswered
                      /\ status' = [status EXCEPT !["server"] = "done"]
           ELSE /\ wire' = IF m.t = "close_notify" /\ m.d = "" THEN answered ELSE unanswered
                /\ status' = [status EXCEPT !["server"] =
                                 IF m.d = "part" THEN "spinning" ELSE "left"]
                /\ UNCHANGED <<got, sent, seq>>
    /\ UNCHANGED <<conf, pc, certs, hash, open, est, faults>>

\* The same when the client has closed.
ServerReadsEnd ==
    /\ status["server"] = "up"
    /\ wire["server"] = <<>> /\ "client" \notin open
    /\ status' = [status EXCEPT !["server"] = "left"]
    /\ UNCHANGED <<conf, pc, certs, hash, seq, wire, open, est, sent, got, faults>>

-----------------------------------------------------------------------------
\* The process closes its socket or exits.  With unread records the kernel resets
\* the connection, and what it had not transmitted yet is lost.
Close(r) ==
    /\ status[r] \in {"failed", "done"} /\ r \in open
    /\ open' = open \ {r}
    /\ \E n \in (IF wire[r] = <<>> THEN {Len(wire[Peer(r)])} ELSE 0..Len(wire[Peer(r)])) :
          wire' = [wire EXCEPT ![r] = <<>>, ![Peer(r)] = SubSeq(@, 1, n)]
    /\ UNCHANGED <<conf, status, pc, certs, hash, seq, est, sent, got, faults>>

\* A record is changed on its way; one that is encrypted or has no content will
\* not decrypt or parse.
Damage(r) ==
    /\ Len(faults) < MaxFaults
    /\ \E i \in DOMAIN wire[r] :
          LET m == wire[r][i]
              empty == m.t \in {"HelloDone", "ChangeCipher", "alert", "close_notify"}
          IN  /\ m.d = ""
              /\ \E d \in IF empty \/ m.key # <<>> THEN {"junk"} ELSE {"alt", "rest", "junk"} :
                    wire' = [wire EXCEPT ![r][i].d = d]
    /\ faults' = Append(faults, "damage")
    /\ UNCHANGED <<conf, status, pc, certs, hash, seq, open, est, sent, got>>

\* A process is killed, maybe in the middle of a send.
Die(r) ==
    /\ Len(faults) < MaxFaults /\ r \in open
    /\ status' = [status EXCEPT ![r] = "dead"]
    /\ open' = open \ {r}
    /\ \/ /\ wire' = [wire EXCEPT ![r] = <<>>]
          /\ faults' = Append(faults, "death")
       \/ /\ wire[Peer(r)] # <<>>
          /\ wire' = [wire EXCEPT ![r] = <<>>, ![Peer(r)][Len(wire[Peer(r)])].d = "part"]
          /\ faults' = Append(faults, "part")
    /\ UNCHANGED <<conf, pc, certs, hash, seq, est, sent, got>>

-----------------------------------------------------------------------------
Handshake(r) == Send(r) \/ Receive(r) \/ ReceiveEnd(r)

Next ==
    \/ \E r \in Roles : Handshake(r) \/ Close(r) \/ Damage(r) \/ Die(r)
    \/ Type \/ ClientReads \/ Shutdown \/ ShutdownReads
    \/ ServerReads \/ ServerReadsEnd

\* The processes run; the user types and the network fails as they like.
Spec ==
    /\ Init /\ [][Next]_vars
    /\ \A r \in Roles : WF_vars(Handshake(r)) /\ WF_vars(Close(r))
    /\ WF_vars(ShutdownReads)
    /\ WF_vars(ServerReads \/ ServerReadsEnd)

-----------------------------------------------------------------------------
\* The certificates and the CAs of the two sides fit together.
Fits == ServerTrusted /\ (conf.ca => conf.cert = "right")

\* The side whose handshake ends with a receive.
LastSide == IF conf.proto = "tls13" THEN "server" ELSE "client"

\* A side that ends its handshake agrees with the other on what was said, whatever
\* happened to the records in between; the side that ends last knows that the
\* other has ended and shares its secret, and that they trust each other as
\* configured; what tls_recv returns is what the other side wrote, in its order.
Agreement ==
    /\ \A r \in est : IsPrefix(hash[r], hash[Peer(r)]) \/ IsPrefix(hash[Peer(r)], hash[r])
    /\ LastSide \in est => est = Roles /\ hash["client"] = hash["server"] /\ Fits
    /\ \A r \in Roles : IsPrefix(got[r], sent[Peer(r)])

\* A handshake fails only because the certificates do not fit or something went
\* wrong outside: the two sides' step lists, sequence numbers and transcripts
\* keep in step, with and without client authentication.
NoFalseAlarm ==
    faults = <<>> /\ Fits => \A r \in Roles : status[r] # "failed"

\* tls_do_handshake and tls_shutdown return, also when the peer fails, dies or its
\* alert is lost: unless a record was cut short, which tls_record_do_recv waits for
\* without end, or the server has left the connection open after a damaged record.
CallsReturn ==
    \A r \in Roles :
        status[r] \in {"handshake", "shutdown"} ~>
            \/ status[r] \notin {"handshake", "shutdown", "spinning"}
            \/ Contains(faults, "part")
            \/ Contains(faults, "damage") /\ status["server"] = "left"

=============================================================================
