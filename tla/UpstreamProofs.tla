--------------------------- MODULE UpstreamProofs ---------------------------
(***************************************************************************)
(* Proofs about the requests that are passed to upstream servers, for any  *)
(* servers, groups, weights, limits and retry conditions, and any number   *)
(* of workers and requests.                                                *)
(*                                                                         *)
(* None of the five invariants is inductive.  What they rest on is said of *)
(* one request at a time (ReqOK): when it holds a server, what its         *)
(* connection may still carry, whether it was sent, and how many tries it  *)
(* has left.  UpstreamInv adds the types of the shared state.              *)
(***************************************************************************)
EXTENDS Upstream, Counting, SequenceTheorems

Kept == [peer : Peers, wire : {Silent}]

\* A request that must reach one server only.
NoRepeat(c) ==
    \/ c.kind = "stream"
    \/ c.kind = "post" /\ "non_idempotent" \notin NextUpstream

\* A request holds a server from the choice to the end of the try, and has a
\* worker from the start to the end.
Holds(c) ==
    /\ c.pc = "idle" => c = Idle
    /\ c.pc # "idle" => c.worker \in Workers
    /\ c.peer = None <=> c.pc \in {"idle", "connect"}

\* What a connection may carry, and what the flags say of it.
WireOK(c) ==
    /\ c.pc \in {"connect", "got", "connecting", "send"} => c.wire = Silent
    /\ c.pc \in {"connect", "got"} /\ c.keepalive => c.sent
    /\ c.pc \in {"connecting", "send", "sending", "waiting"} => ~c.keepalive
    /\ c.pc \in {"sending", "waiting"} => c.sent
    /\ c.pc \in {"connecting", "send", "sending"} => ~c.bodysent
    /\ c.pc \in {"waiting", "relay"} /\ c.bodysent => ~c.wire.body
    /\ c.pc = "relay" /\ c.keepalive => ~c.wire.answer

\* A request that must not be repeated asks for a server only while unsent.
OnceOK(c) ==
    NoRepeat(c) => /\ c.hits <= IF c.sent THEN 1 ELSE 0
                   /\ c.pc \in {"connect", "got"} => ~c.sent

\* Tries that failed and tries that are left; a request that has a server
\* has a try left.
RetryOK(c) ==
    /\ c.pc \in {"idle", "relay"} => c.failed = 0
    /\ c.pc \notin {"idle", "relay"} =>
          /\ c.failed + c.tries <= Tries
          /\ c.tries >= 1 \/ Tries = 0
    /\ c.peer # None => Tries >= 1

ReqOK(c) == c \in Req /\ Holds(c) /\ WireOK(c) /\ OnceOK(c) /\ RetryOK(c)

SharedOK ==
    /\ group \in Groups
    /\ peer \in [Peers -> Peer]
    /\ cache \in [Workers -> Seq(Kept)]
    /\ DOMAIN req = Reqs
    /\ starts \in Nat /\ deaths \in Nat /\ leaked \in [Peers -> Nat]

UpstreamInv ==
    /\ SharedOK
    /\ req = [r \in Reqs |-> req[r]] /\ \A r \in Reqs : ReqOK(req[r])
    /\ ConnsExact
    /\ WeightsBalanced

-----------------------------------------------------------------------------
\* Where the elements of two sequences are in their concatenation, and what
\* it means that it holds each element once.
LEMMA ConcatParts ==
    ASSUME NEW S, NEW a \in Seq(S), NEW b \in Seq(S)
    PROVE  /\ ToSet(a) \subseteq S
           /\ ToSet(a \o b) = ToSet(a) \cup ToSet(b)
           /\ IsInjective(a \o b) => ToSet(a) \cap ToSet(b) = {}
<1> DEFINE l == a \o b
           n == Len(a)
<1>1. ToSet(a) \subseteq S
  BY DEF ToSet
<1>2. /\ n \in Nat /\ Len(b) \in Nat
      /\ DOMAIN a = 1..n /\ DOMAIN b = 1..Len(b) /\ DOMAIN l = 1..(n + Len(b))
      /\ \A k \in 1..(n + Len(b)) : l[k] = IF k <= n THEN a[k] ELSE b[k - n]
  BY ConcatProperties, LenProperties
<1> HIDE DEF l, n
<1>3. /\ \A i \in DOMAIN a : i \in DOMAIN l /\ l[i] = a[i]
      /\ \A j \in DOMAIN b : n + j \in DOMAIN l /\ l[n + j] = b[j]
  BY <1>2
<1>4. \A k \in DOMAIN l :
         \/ k \in DOMAIN a /\ l[k] = a[k]
         \/ k - n \in DOMAIN b /\ l[k] = b[k - n]
  BY <1>2
<1>5. ToSet(l) = ToSet(a) \cup ToSet(b)
  BY <1>3, <1>4 DEF ToSet
<1>6. ASSUME IsInjective(l), NEW i \in DOMAIN a, NEW j \in DOMAIN b, a[i] = b[j]
      PROVE  FALSE
  <2>1. i = n + j
    BY <1>6, <1>3 DEF IsInjective
  <2>2. QED
    BY <2>1, <1>2
<1>7. IsInjective(l) => ToSet(a) \cap ToSet(b) = {}
  BY <1>6 DEF ToSet
<1>8. QED
  BY <1>1, <1>5, <1>7 DEF l

\* The lists of a group hold servers, each once.
LEMMA GroupLists ==
    ASSUME group \in Groups
    PROVE  /\ group.primary \in Seq(Peers) /\ group.backup \in Seq(Peers)
           /\ group.primary # <<>>
           /\ ToSet(group.primary) \subseteq Peers /\ ToSet(group.backup) \subseteq Peers
           /\ ToSet(group.primary \o group.backup)
                 = ToSet(group.primary) \cup ToSet(group.backup)
           /\ ToSet(group.primary) \cap ToSet(group.backup) = {}
<1>1. group \in [primary : Seq(Peers), backup : Seq(Peers)]
  BY UpstreamAssumption
<1>2. /\ group.primary \in Seq(Peers) /\ group.backup \in Seq(Peers)
      /\ group.primary # <<>> /\ IsInjective(group.primary \o group.backup)
  BY <1>1, UpstreamAssumption
<1>3. QED
  BY <1>2, ConcatParts

\* The number of tries of a request; where a server may be used, there is one.
LEMMA TriesType ==
    ASSUME group \in Groups
    PROVE  /\ Tries \in Nat
           /\ \A p \in ToSet(group.primary) \cup ToSet(group.backup) :
                 p \notin Down => Tries >= 1
<1> DEFINE A == ToSet(group.primary \o group.backup) \ Down
<1>1. ToSet(group.primary \o group.backup) = ToSet(group.primary) \cup ToSet(group.backup)
  BY GroupLists
<1>2. A \subseteq Peers /\ IsFiniteSet(A)
  <2>1. A \subseteq Peers
    BY <1>1, GroupLists
  <2>2. QED
    BY <2>1, UpstreamAssumption, FS_Subset
<1>3. Cardinality(A) \in Nat /\ (A # {} => Cardinality(A) >= 1)
  BY <1>2, FS_CardinalityType, FS_EmptySet
<1>4. Tries = IF NextTries > 0
              THEN (IF Cardinality(A) <= NextTries THEN Cardinality(A) ELSE NextTries)
              ELSE Cardinality(A)
  <2>1. NextTries \in Nat
    BY UpstreamAssumption
  <2>2. Cardinality(A) \in Int /\ NextTries \in Int
    BY <2>1, <1>3
  <2>3. QED
    BY <2>2, MinMaxPair DEF Tries
<1>5. NextTries \in Nat
  BY UpstreamAssumption
<1>6. Tries \in Nat /\ (A # {} => Tries >= 1)
  <2> HIDE DEF A
  <2>1. QED
    BY <1>3, <1>4, <1>5
<1>7. QED
  BY <1>1, <1>6

-----------------------------------------------------------------------------
(* The balancer. *)

PeersOK == peer \in [Peers -> Peer] /\ \A p \in Peers : peer[p].effective \in 0..Weight[p]

\* The fields of a server.
PeerFields(d) ==
    [conns |-> d.conns, fails |-> d.fails, current |-> d.current,
     effective |-> d.effective, recent |-> d.recent, behind |-> d.behind]

LEMMA PeerRecord ==
    /\ \A d \in Peer : /\ d = PeerFields(d) /\ d.conns \in Nat /\ d.fails \in Nat
                       /\ d.current \in Int /\ d.effective \in Int
                       /\ d.recent \in BOOLEAN /\ d.behind \in BOOLEAN
    /\ \A d : /\ d = PeerFields(d) /\ d.conns \in Nat /\ d.fails \in Nat
              /\ d.current \in Int /\ d.effective \in Int
              /\ d.recent \in BOOLEAN /\ d.behind \in BOOLEAN
             => d \in Peer
  BY DEF Peer, PeerFields

\* The updates of a server: the gain of a round, the choice, a connection
\* more or less, a failure, a good answer, the end of fail_timeout.
Gains(c, x, e) == [c EXCEPT !.current = x, !.effective = e]
Chosen(c, x, b) == [c EXCEPT !.current = x, !.recent = TRUE, !.behind = b]
Counts(c, n) == [c EXCEPT !.conns = n]
Fails(c, n, k, e) ==
    [c EXCEPT !.conns = n, !.fails = k, !.effective = e, !.recent = TRUE, !.behind = FALSE]
Answers(c, n, k) == [c EXCEPT !.conns = n, !.fails = k]
Passes(c) == [c EXCEPT !.recent = FALSE]
Resets(c) == [c EXCEPT !.recent = FALSE, !.behind = FALSE]

\* What they leave of the server.
LEMMA GainsOK ==
    ASSUME NEW c \in Peer, NEW x \in Int, NEW e \in Int
    PROVE  /\ Gains(c, x, e) \in Peer /\ Gains(c, x, e).conns = c.conns
           /\ Gains(c, x, e).current = x
           /\ Gains(c, x, e).effective = e
<1> SUFFICES ASSUME NEW d, d = Gains(c, x, e)
             PROVE  /\ d \in Peer /\ d.conns = c.conns
                    /\ d.current = x /\ d.effective = e
  OBVIOUS
<1>1. c = PeerFields(c)
  BY PeerRecord
<1>2. /\ d = PeerFields(d) /\ d.conns = c.conns /\ d.fails = c.fails
      /\ d.current = x /\ d.effective = e
  BY <1>1 DEF PeerFields, Gains
<1>3. d.recent = c.recent /\ d.behind = c.behind
  BY <1>1 DEF PeerFields, Gains
<1>4. d.recent \in BOOLEAN /\ d.behind \in BOOLEAN
  BY <1>3, PeerRecord, Zenon
<1>5. QED
  BY <1>2, <1>4, PeerRecord

LEMMA ChosenOK ==
    ASSUME NEW c \in Peer, NEW x \in Int, NEW b \in BOOLEAN
    PROVE  /\ Chosen(c, x, b) \in Peer /\ Chosen(c, x, b).conns = c.conns
           /\ Chosen(c, x, b).current = x
           /\ Chosen(c, x, b).effective = c.effective
<1> SUFFICES ASSUME NEW d, d = Chosen(c, x, b)
             PROVE  /\ d \in Peer /\ d.conns = c.conns
                    /\ d.current = x /\ d.effective = c.effective
  OBVIOUS
<1>1. c = PeerFields(c)
  BY PeerRecord
<1>2. /\ d = PeerFields(d) /\ d.conns = c.conns /\ d.fails = c.fails
      /\ d.current = x /\ d.effective = c.effective
  BY <1>1 DEF PeerFields, Chosen
<1>3. d.recent = TRUE /\ d.behind = b
  BY <1>1 DEF PeerFields, Chosen
<1>4. d.recent \in BOOLEAN /\ d.behind \in BOOLEAN
  BY <1>3, PeerRecord, Zenon
<1>5. QED
  BY <1>2, <1>4, PeerRecord

LEMMA CountsOK ==
    ASSUME NEW c \in Peer, NEW n \in Nat
    PROVE  /\ Counts(c, n) \in Peer /\ Counts(c, n).conns = n
           /\ Counts(c, n).current = c.current
           /\ Counts(c, n).effective = c.effective
<1> SUFFICES ASSUME NEW d, d = Counts(c, n)
             PROVE  /\ d \in Peer /\ d.conns = n
                    /\ d.current = c.current /\ d.effective = c.effective
  OBVIOUS
<1>1. c = PeerFields(c)
  BY PeerRecord
<1>2. /\ d = PeerFields(d) /\ d.conns = n /\ d.fails = c.fails
      /\ d.current = c.current /\ d.effective = c.effective
  BY <1>1 DEF PeerFields, Counts
<1>3. d.recent = c.recent /\ d.behind = c.behind
  BY <1>1 DEF PeerFields, Counts
<1>4. d.recent \in BOOLEAN /\ d.behind \in BOOLEAN
  BY <1>3, PeerRecord, Zenon
<1>5. QED
  BY <1>2, <1>4, PeerRecord

LEMMA FailsOK ==
    ASSUME NEW c \in Peer, NEW n \in Nat, NEW k \in Nat, NEW e \in Int
    PROVE  /\ Fails(c, n, k, e) \in Peer /\ Fails(c, n, k, e).conns = n
           /\ Fails(c, n, k, e).current = c.current
           /\ Fails(c, n, k, e).effective = e
<1> SUFFICES ASSUME NEW d, d = Fails(c, n, k, e)
             PROVE  /\ d \in Peer /\ d.conns = n
                    /\ d.current = c.current /\ d.effective = e
  OBVIOUS
<1>1. c = PeerFields(c)
  BY PeerRecord
<1>2. /\ d = PeerFields(d) /\ d.conns = n /\ d.fails = k
      /\ d.current = c.current /\ d.effective = e
  BY <1>1 DEF PeerFields, Fails
<1>3. d.recent = TRUE /\ d.behind = FALSE
  BY <1>1 DEF PeerFields, Fails
<1>4. d.recent \in BOOLEAN /\ d.behind \in BOOLEAN
  BY <1>3, PeerRecord, Zenon
<1>5. QED
  BY <1>2, <1>4, PeerRecord

LEMMA AnswersOK ==
    ASSUME NEW c \in Peer, NEW n \in Nat, NEW k \in Nat
    PROVE  /\ Answers(c, n, k) \in Peer /\ Answers(c, n, k).conns = n
           /\ Answers(c, n, k).current = c.current
           /\ Answers(c, n, k).effective = c.effective
<1> SUFFICES ASSUME NEW d, d = Answers(c, n, k)
             PROVE  /\ d \in Peer /\ d.conns = n
                    /\ d.current = c.current /\ d.effective = c.effective
  OBVIOUS
<1>1. c = PeerFields(c)
  BY PeerRecord
<1>2. /\ d = PeerFields(d) /\ d.conns = n /\ d.fails = k
      /\ d.current = c.current /\ d.effective = c.effective
  BY <1>1 DEF PeerFields, Answers
<1>3. d.recent = c.recent /\ d.behind = c.behind
  BY <1>1 DEF PeerFields, Answers
<1>4. d.recent \in BOOLEAN /\ d.behind \in BOOLEAN
  BY <1>3, PeerRecord, Zenon
<1>5. QED
  BY <1>2, <1>4, PeerRecord

LEMMA PassesOK ==
    ASSUME NEW c \in Peer
    PROVE  /\ Passes(c) \in Peer /\ Passes(c).conns = c.conns
           /\ Passes(c).current = c.current
           /\ Passes(c).effective = c.effective
<1> SUFFICES ASSUME NEW d, d = Passes(c)
             PROVE  /\ d \in Peer /\ d.conns = c.conns
                    /\ d.current = c.current /\ d.effective = c.effective
  OBVIOUS
<1>1. c = PeerFields(c)
  BY PeerRecord
<1>2. /\ d = PeerFields(d) /\ d.conns = c.conns /\ d.fails = c.fails
      /\ d.current = c.current /\ d.effective = c.effective
  BY <1>1 DEF PeerFields, Passes
<1>3. d.recent = FALSE /\ d.behind = c.behind
  BY <1>1 DEF PeerFields, Passes
<1>4. d.recent \in BOOLEAN /\ d.behind \in BOOLEAN
  BY <1>3, PeerRecord, Zenon
<1>5. QED
  BY <1>2, <1>4, PeerRecord

LEMMA ResetsOK ==
    ASSUME NEW c \in Peer
    PROVE  /\ Resets(c) \in Peer /\ Resets(c).conns = c.conns
           /\ Resets(c).current = c.current
           /\ Resets(c).effective = c.effective
<1> SUFFICES ASSUME NEW d, d = Resets(c)
             PROVE  /\ d \in Peer /\ d.conns = c.conns
                    /\ d.current = c.current /\ d.effective = c.effective
  OBVIOUS
<1>1. c = PeerFields(c)
  BY PeerRecord
<1>2. /\ d = PeerFields(d) /\ d.conns = c.conns /\ d.fails = c.fails
      /\ d.current = c.current /\ d.effective = c.effective
  BY <1>1 DEF PeerFields, Resets
<1>3. d.recent = FALSE /\ d.behind = FALSE
  BY <1>1 DEF PeerFields, Resets
<1>4. d.recent \in BOOLEAN /\ d.behind \in BOOLEAN
  BY <1>3, PeerRecord, Zenon
<1>5. QED
  BY <1>2, <1>4, PeerRecord

LEMMA TimedOK ==
    ASSUME NEW c \in Peer
    PROVE  /\ Timed(c) \in Peer /\ Timed(c).conns = c.conns
           /\ Timed(c).current = c.current /\ Timed(c).effective = c.effective
<1>1. Timed(c) = IF c.fails > 0 THEN c ELSE Resets(c)
  BY Zenon DEF Timed, Resets
<1>2. QED
  BY <1>1, ResetsOK

\* The servers of E after they gained their weights.
LEMMA RaisedOK ==
    ASSUME PeersOK, NEW E \in SUBSET Peers
    PROVE  /\ Raised(E) \in [Peers -> Peer]
           /\ \A p \in Peers :
                 /\ Raised(E)[p].effective \in 0..Weight[p]
                 /\ Raised(E)[p].conns = peer[p].conns
                 /\ Raised(E)[p].current =
                       peer[p].current + (IF p \in E THEN peer[p].effective ELSE 0)
           /\ Total(E) \in Int
<1>1. ASSUME NEW p \in Peers
      PROVE  /\ Raised(E)[p] \in Peer
             /\ Raised(E)[p].effective \in 0..Weight[p]
             /\ Raised(E)[p].conns = peer[p].conns
             /\ Raised(E)[p].current =
                   peer[p].current + (IF p \in E THEN peer[p].effective ELSE 0)
  <2>1. Weight[p] \in Nat /\ peer[p] \in Peer /\ peer[p].effective \in 0..Weight[p]
    BY UpstreamAssumption DEF PeersOK
  <2>2. Min({peer[p].effective + 1, Weight[p]}) \in 0..Weight[p]
    <3>1. peer[p].effective + 1 \in Int /\ Weight[p] \in Int
      BY <2>1
    <3>2. Min({peer[p].effective + 1, Weight[p]}) =
             IF peer[p].effective + 1 <= Weight[p] THEN peer[p].effective + 1 ELSE Weight[p]
      BY <3>1, MinMaxPair
    <3>3. QED
      BY <2>1, <3>2
  <2> DEFINE m == Min({peer[p].effective + 1, Weight[p]})
             d == [peer[p] EXCEPT !.current = @ + peer[p].effective, !.effective = m]
  <2>3. Raised(E)[p] = IF p \in E THEN d ELSE peer[p]
    BY DEF Raised
  <2>4. CASE p \in E
    <3>1. peer[p].current + peer[p].effective \in Int /\ m \in Int /\ m \in 0..Weight[p]
      BY <2>1, <2>2, PeerRecord
    <3>2. d \in Peer /\ d.conns = peer[p].conns /\ d.effective = m
          /\ d.current = peer[p].current + peer[p].effective
      <4>1. d = Gains(peer[p], peer[p].current + peer[p].effective, m)
        BY Zenon DEF Gains
      <4> HIDE DEF d, m
      <4>2. QED
        BY <2>1, <3>1, <4>1, GainsOK
    <3>3. QED
      <4> HIDE DEF d, m
      <4>1. QED
        BY <2>1, <2>3, <2>4, <3>1, <3>2
  <2>5. CASE p \notin E
    BY <2>1, <2>3, <2>5 DEF Peer
  <2>6. QED
    BY <2>4, <2>5
<1>2. Total(E) \in Int
  <2> DEFINE f == [p \in Peers |-> peer[p].effective]
  <2>1. \A p \in E : f[p] \in Int
    BY DEF PeersOK, Peer
  <2>2. IsFiniteSet(E)
    BY UpstreamAssumption, FS_Subset
  <2>3. SumFunctionOnSet(f, E) \in Int
    <3> HIDE DEF f
    <3>1. QED
      BY <2>1, <2>2, SumSplit
  <2>4. QED
    BY <2>3 DEF Total
<1>3. Raised(E) \in [Peers -> Peer]
  BY <1>1 DEF Raised
<1>4. QED
  BY <1>1, <1>2, <1>3

\* The best server is one of those that may be used.
LEMMA BestChosen ==
    ASSUME PeersOK, NEW l \in Seq(Peers), NEW E \in SUBSET ToSet(l), E # {}
    PROVE  Best(l, E) \in E
<1> DEFINE f == [p \in Peers |-> Raised(E)[p].current]
           F == {i \in DOMAIN l : l[i] \in E /\ \A p \in E : f[l[i]] >= f[p]}
<1>1. E \subseteq Peers /\ IsFiniteSet(E)
  <2>1. E \subseteq Peers
    BY ConcatParts
  <2>2. QED
    BY <2>1, UpstreamAssumption, FS_Subset
<1>2. \A p \in E : f[p] \in Int
  <2>1. Raised(E) \in [Peers -> Peer]
    BY <1>1, RaisedOK
  <2>2. QED
    BY <1>1, <2>1 DEF Peer
<1>3. PICK x \in E : \A p \in E : f[x] >= f[p]
  <2> HIDE DEF f
  <2>1. QED
    BY <1>1, <1>2, Greatest
<1>4. PICK i \in DOMAIN l : l[i] = x
  BY DEF ToSet
<1>5. F # {} /\ F \in SUBSET Nat
  <2>1. i \in F
    BY <1>3, <1>4
  <2>2. DOMAIN l \subseteq Nat
    OBVIOUS
  <2>3. QED
    BY <2>1, <2>2
<1>6. Min(F) \in F
  <2> HIDE DEF F
  <2>1. QED
    BY <1>5, MinOfNaturals
<1>7. Best(l, E) = l[Min(F)]
  <2>1. \A j \in DOMAIN l : l[j] \in Peers
    OBVIOUS
  <2>2. F = {j \in DOMAIN l : l[j] \in E /\ \A p \in E :
               Raised(E)[l[j]].current >= Raised(E)[p].current}
    BY <1>1, <2>1
  <2>3. QED
    BY <2>2 DEF Best
<1>8. QED
  BY <1>6, <1>7

\* What the choice of a server changes.
LEMMA PickedOK ==
    ASSUME PeersOK, NEW l \in Seq(Peers), NEW E \in SUBSET ToSet(l), E # {}
    PROVE  /\ Picked(l, E).best \in E
           /\ Picked(l, E).peers \in [Peers -> Peer]
           /\ \A p \in Peers :
                 /\ Picked(l, E).peers[p].conns = peer[p].conns
                 /\ Picked(l, E).peers[p].effective \in 0..Weight[p]
                 /\ Picked(l, E).peers[p].current =
                       peer[p].current + (IF p \in E THEN peer[p].effective ELSE 0)
                                       - (IF p = Picked(l, E).best THEN Total(E) ELSE 0)
<1> DEFINE best == Best(l, E)
           f == Raised(E)
           b == f[best].behind \/ ~peer[best].recent
           d == Timed(Chosen(f[best], f[best].current - Total(E), b))
           g == [f EXCEPT ![best] = d]
<1>1. E \subseteq Peers /\ best \in E
  BY BestChosen, ConcatParts
<1>2. /\ f \in [Peers -> Peer] /\ Total(E) \in Int
      /\ \A p \in Peers :
                 /\ f[p].effective \in 0..Weight[p]
                 /\ f[p].conns = peer[p].conns
                 /\ f[p].current =
                       peer[p].current + (IF p \in E THEN peer[p].effective ELSE 0)
  BY <1>1, RaisedOK
<1>3. Picked(l, E) = [best |-> best, peers |-> g]
  BY Zenon DEF Picked, Chosen
<1>4. b \in BOOLEAN
  BY Zenon
<1> HIDE DEF b
<1>5. /\ d \in Peer /\ d.conns = f[best].conns
      /\ d.current = f[best].current - Total(E) /\ d.effective = f[best].effective
  <2>1. f[best] \in Peer /\ f[best].current - Total(E) \in Int
    BY <1>1, <1>2, PeerRecord
  <2> DEFINE c == Chosen(f[best], f[best].current - Total(E), b)
  <2>2. /\ c \in Peer /\ c.conns = f[best].conns
        /\ c.current = f[best].current - Total(E) /\ c.effective = f[best].effective
    BY <2>1, <1>4, ChosenOK
  <2> HIDE DEF c
  <2>3. /\ Timed(c) \in Peer /\ Timed(c).conns = c.conns
        /\ Timed(c).current = c.current /\ Timed(c).effective = c.effective
    BY <2>2, TimedOK
  <2>4. QED
    BY <2>2, <2>3 DEF c
<1> HIDE DEF best, f, d
<1>6. Picked(l, E).best = best /\ Picked(l, E).peers = g
  BY <1>3
<1>7. g \in [Peers -> Peer] /\ \A p \in Peers : g[p] = IF p = best THEN d ELSE f[p]
  BY <1>1, <1>2, <1>5
<1>8. ASSUME NEW p \in Peers
      PROVE  /\ g[p].conns = peer[p].conns
             /\ g[p].effective \in 0..Weight[p]
             /\ g[p].current = peer[p].current + (IF p \in E THEN peer[p].effective ELSE 0)
                                               - (IF p = best THEN Total(E) ELSE 0)
  <2>1. peer[p].current \in Int /\ peer[p].effective \in Int
    BY PeerRecord DEF PeersOK
  <2> HIDE DEF g
  <2>2. CASE p = best
    BY <1>2, <1>5, <1>7, <2>1, <2>2
  <2>3. CASE p # best
    BY <1>2, <1>7, <2>1, <2>3
  <2>4. QED
    BY <2>2, <2>3
<1> HIDE DEF g
<1>9. QED
  BY <1>1, <1>6, <1>7, <1>8

\* What the end of a try changes: one connection less, and weights.
LEMMA FreedOK ==
    ASSUME PeersOK, NEW c, c.peer \in Peers \cup {None}, NEW failed,
           c.peer # None => peer[c.peer].conns >= 1
    PROVE  /\ Freed(c, failed) \in [Peers -> Peer]
           /\ \A p \in Peers :
                 /\ Freed(c, failed)[p].conns = peer[p].conns - (IF p = c.peer THEN 1 ELSE 0)
                 /\ Freed(c, failed)[p].effective \in 0..Weight[p]
                 /\ Freed(c, failed)[p].current = peer[p].current
<1>1. CASE c.peer = None
  <2>1. Freed(c, failed) = peer /\ c.peer \notin Peers
    BY <1>1, UpstreamAssumption DEF Freed
  <2>2. QED
    BY <2>1, PeerRecord DEF PeersOK
<1>2. CASE c.peer # None
  <2> DEFINE p == c.peer
             f == peer[p]
             n == f.conns - 1
             e == IF MaxFails[p] = 0 THEN f.effective
                  ELSE Max({0, f.effective - Weight[p] \div MaxFails[p]})
             k == Min({f.fails + 1, MaxFails[p]})
             j == IF f.behind THEN 0 ELSE f.fails
  <2>1. /\ p \in Peers /\ f \in Peer /\ f.effective \in 0..Weight[p]
        /\ Weight[p] \in Nat /\ MaxFails[p] \in Nat
        /\ f.fails \in Nat /\ f.conns \in Nat /\ f.effective \in Int
    BY <1>2, UpstreamAssumption, PeerRecord DEF PeersOK
  <2>2. n \in Nat /\ j \in Nat
    BY <1>2, <2>1
  <2>3. k \in Nat
    BY <2>1, MinMaxPair
  <2>4. e \in 0..Weight[p] /\ e \in Int
    <3>1. CASE MaxFails[p] = 0
      BY <2>1, <3>1
    <3>2. CASE MaxFails[p] # 0
      <4>1. Weight[p] \div MaxFails[p] \in Nat
        BY <2>1, <3>2
      <4>2. e = IF 0 >= f.effective - Weight[p] \div MaxFails[p] THEN 0
                ELSE f.effective - Weight[p] \div MaxFails[p]
        <5> DEFINE q == f.effective - Weight[p] \div MaxFails[p]
        <5>1. q \in Int /\ 0 \in Int
          BY <2>1, <4>1
        <5>2. e = Max({0, q})
          BY <3>2
        <5> HIDE DEF q
        <5>3. Max({0, q}) = IF 0 >= q THEN 0 ELSE q
          BY <5>1, MinMaxPair, Zenon
        <5>4. QED
          BY <5>2, <5>3 DEF q
      <4>3. QED
        BY <2>1, <4>1, <4>2
    <3>3. QED
      BY <3>1, <3>2
  <2> DEFINE d == IF Single THEN Counts(f, n)
                  ELSE IF failed THEN Timed(Fails(f, n, k, e)) ELSE Timed(Answers(f, n, j))
  <2>5. Freed(c, failed) = [peer EXCEPT ![p] = d]
    <3>1. CASE Single
      BY <1>2, <3>1 DEF Freed, Counts
    <3>2. CASE ~Single /\ failed
      BY <1>2, <3>2 DEF Freed, Fails
    <3>3. CASE ~Single /\ ~failed
      BY <1>2, <3>3 DEF Freed, Answers
    <3>4. QED
      BY <3>1, <3>2, <3>3
  <2>6. d \in Peer /\ d.conns = n /\ d.current = f.current /\ d.effective \in 0..Weight[p]
    <3> HIDE DEF n, k, e, j, f
    <3>1. CASE Single
      BY <2>1, <2>2, <3>1, CountsOK
    <3>2. CASE ~Single /\ failed
      <4>1. /\ Fails(f, n, k, e) \in Peer /\ Fails(f, n, k, e).conns = n
            /\ Fails(f, n, k, e).current = f.current /\ Fails(f, n, k, e).effective = e
        <5>1. f \in Peer /\ n \in Nat /\ k \in Nat /\ e \in Int
          BY <2>1, <2>2, <2>3, <2>4
        <5> HIDE DEF d, p
        <5>2. QED
          BY <5>1, FailsOK
      <4>2. d = Timed(Fails(f, n, k, e))
        BY <3>2
      <4> HIDE DEF d
      <4>3. QED
        BY <2>4, <4>1, <4>2, TimedOK
    <3>3. CASE ~Single /\ ~failed
      <4>1. /\ Answers(f, n, j) \in Peer /\ Answers(f, n, j).conns = n
            /\ Answers(f, n, j).current = f.current
            /\ Answers(f, n, j).effective = f.effective
        BY <2>1, <2>2, AnswersOK
      <4>2. d = Timed(Answers(f, n, j))
        BY <3>3
      <4> HIDE DEF d
      <4>3. QED
        BY <2>1, <4>1, <4>2, TimedOK
    <3>4. QED
      BY <3>1, <3>2, <3>3
  <2> HIDE DEF d
  <2>7. QED
    BY <2>1, <2>5, <2>6, PeerRecord DEF PeersOK
<1>3. QED
  BY <1>1, <1>2

-----------------------------------------------------------------------------
(* The request. *)

\* The fields of a request.
Fields(c) ==
    [pc |-> c.pc, worker |-> c.worker, kind |-> c.kind, cacheable |-> c.cacheable,
     gone |-> c.gone, tier |-> c.tier, tried |-> c.tried, tries |-> c.tries,
     peer |-> c.peer, cached |-> c.cached, wire |-> c.wire, sent |-> c.sent,
     bodysent |-> c.bodysent, keepalive |-> c.keepalive, hits |-> c.hits,
     failed |-> c.failed]

Typed(c) ==
    /\ c.pc \in Points /\ c.worker \in Workers \cup {None}
    /\ c.kind \in {"get", "post", "stream"} /\ c.tier \in {"primary", "backup"}
    /\ c.tried \in SUBSET Peers /\ c.tries \in Nat /\ c.peer \in Peers \cup {None}
    /\ c.wire \in Wire /\ c.hits \in 0..2 /\ c.failed \in Nat

Flags(c) ==
    /\ c.cacheable \in BOOLEAN /\ c.gone \in BOOLEAN /\ c.cached \in BOOLEAN
    /\ c.sent \in BOOLEAN /\ c.bodysent \in BOOLEAN /\ c.keepalive \in BOOLEAN

LEMMA ReqRecord ==
    /\ \A c \in Req : c = Fields(c) /\ Typed(c) /\ Flags(c)
    /\ \A c : c = Fields(c) /\ Typed(c) /\ Flags(c) => c \in Req
  BY DEF Req, Fields, Typed, Flags

\* A connection on which nothing is outstanding.
LEMMA SilentWire ==
    /\ Silent \in Wire
    /\ \A w \in Wire : ~w.answer /\ ~w.body => w = Silent
    /\ \A a \in BOOLEAN, b \in BOOLEAN :
          /\ [answer |-> a, body |-> b] \in Wire
          /\ [answer |-> a, body |-> b].answer = a /\ [answer |-> a, body |-> b].body = b
<1>1. Silent \in Wire
  BY DEF Silent, Wire
<1>2. ASSUME NEW w \in Wire, ~w.answer, ~w.body PROVE w = Silent
  <2>1. /\ w = [answer |-> w.answer, body |-> w.body]
        /\ w.answer \in BOOLEAN /\ w.body \in BOOLEAN
    BY DEF Wire
  <2>2. w.answer = FALSE /\ w.body = FALSE
    BY <1>2, <2>1
  <2>3. QED
    BY <2>1, <2>2 DEF Silent
<1>3. QED
  BY <1>1, <1>2 DEF Wire

\* An idle request is as it should be.
LEMMA IdleOK == ReqOK(Idle) /\ Idle.peer = None /\ Idle.worker = None
<1>1. Idle = Fields(Idle) /\ Typed(Idle)
  BY SilentWire DEF Idle, Fields, Typed, Points
<1>2. Flags(Idle)
  BY DEF Idle, Flags
<1>3. Idle \in Req
  BY <1>1, <1>2, ReqRecord
<1>4. QED
  BY <1>3 DEF Idle, ReqOK, Holds, WireOK, OnceOK, NoRepeat, RetryOK

\* A request whose try has failed, before it is known what happens next.
Failing(c) ==
    /\ c \in Req /\ c.worker \in Workers /\ c.peer \in Peers
    /\ c.keepalive => c.sent
    /\ NoRepeat(c) => c.hits <= IF c.sent THEN 1 ELSE 0
    /\ c.failed + c.tries <= Tries /\ c.tries >= 1

\* The request that goes on with another server.
Retry(c, t, n) ==
    [c EXCEPT !.pc = "connect", !.tries = t, !.peer = None, !.cached = FALSE,
              !.wire = Silent, !.failed = n]

LEMMA RetryIsOK ==
    ASSUME group \in Groups, NEW c, Failing(c), NEW ft, NEW t, NEW n,
           t = TriesLeft(c) + (IF Refund(c, ft) THEN 1 ELSE 0),
           n = IF c.cached /\ ft = "error" THEN c.failed ELSE c.failed + 1,
           MayGoOn(c, ft, t)
    PROVE  ReqOK(Retry(c, t, n)) /\ Retry(c, t, n).peer = None
<1> SUFFICES ASSUME NEW d, d = Retry(c, t, n)
             PROVE  ReqOK(d) /\ d.peer = None
  OBVIOUS
<1>1. c = Fields(c) /\ Typed(c) /\ Flags(c) /\ c.peer \in Peers /\ c.peer # None
  BY ReqRecord, UpstreamAssumption DEF Failing
<1>2. /\ d = Fields(d) /\ d.pc = "connect" /\ d.worker = c.worker /\ d.kind = c.kind
      /\ d.tier = c.tier /\ d.tried = c.tried /\ d.tries = t /\ d.peer = None
      /\ d.wire = Silent /\ d.hits = c.hits /\ d.failed = n
  BY <1>1 DEF Fields, Retry
<1>3. /\ d.cacheable = c.cacheable /\ d.gone = c.gone /\ d.cached = FALSE
      /\ d.sent = c.sent /\ d.bodysent = c.bodysent /\ d.keepalive = c.keepalive
  BY <1>1 DEF Fields, Retry
<1>4. TriesLeft(c) = IF Single THEN 0 ELSE c.tries - 1
  <2>1. c.tries \in Nat /\ c.tries >= 1
    BY <1>1 DEF Failing, Typed
  <2>2. Max({0, c.tries - 1}) = c.tries - 1
    <3> DEFINE q == c.tries - 1
    <3>1. q \in Int /\ 0 \in Int /\ q >= 0
      BY <2>1
    <3> HIDE DEF q
    <3>2. Max({0, q}) = IF 0 >= q THEN 0 ELSE q
      BY <3>1, MinMaxPair, Zenon
    <3>3. QED
      BY <3>1, <3>2 DEF q
  <2>3. QED
    BY <1>1, <2>2 DEF TriesLeft
<1>5. t \in Nat /\ t >= 1 /\ n \in Nat /\ n + t <= Tries /\ Tries \in Nat
  <2>1. /\ c.failed \in Nat /\ c.tries \in Nat /\ Tries \in Nat
        /\ c.failed + c.tries <= Tries /\ c.tries >= 1
    BY <1>1, TriesType DEF Failing, Typed
  <2>2. t > 0
    BY DEF MayGoOn
  <2>3. CASE c.cached /\ ft = "error"
    BY <1>4, <2>1, <2>2, <2>3 DEF Refund
  <2>4. CASE ~(c.cached /\ ft = "error")
    BY <1>4, <2>1, <2>2, <2>4 DEF Refund
  <2>5. QED
    BY <2>3, <2>4
<1>6. Typed(d)
  BY <1>1, <1>2, <1>5, SilentWire DEF Typed, Points, Transit
<1>7. Flags(d)
  BY <1>1, <1>3, Zenon DEF Flags
<1>8. d \in Req
  BY <1>2, <1>6, <1>7, ReqRecord
<1>9. Holds(d)
  BY <1>2 DEF Holds, Failing
<1>10. WireOK(d)
  BY <1>2, <1>3 DEF WireOK, Failing
<1>11. OnceOK(d)
  <2>1. NoRepeat(d) => NoRepeat(c) /\ ~c.sent
    BY <1>2 DEF NoRepeat, MayGoOn
  <2>2. NoRepeat(d) => d.hits <= 0 /\ ~d.sent
    BY <1>2, <1>3, <2>1 DEF Failing
  <2>3. QED
    BY <2>2 DEF OnceOK
<1>12. RetryOK(d)
  BY <1>2, <1>5 DEF RetryOK
<1>13. QED
  BY <1>2, <1>8, <1>9, <1>10, <1>11, <1>12 DEF ReqOK

-----------------------------------------------------------------------------
(* The updates of a request. *)

Begins(w, k, b) ==
    [Idle EXCEPT !.pc = "connect", !.worker = w, !.kind = k, !.cacheable = b, !.tries = Tries]
Asks(c, t, p, b, T) == [c EXCEPT !.tier = t, !.peer = p, !.cached = b, !.tried = T]
Gets(c, t, p, b, T) == [Asks(c, t, p, b, T) EXCEPT !.pc = "got"]
Reuses(c, t, p, b, T, k) ==
    [Asks(c, t, p, b, T) EXCEPT !.pc = "send", !.wire = Silent, !.sent = FALSE,
                                !.bodysent = FALSE, !.keepalive = k]
Connects(c, p, k) ==
    [c EXCEPT !.pc = p, !.keepalive = k, !.sent = FALSE, !.bodysent = FALSE]
Sends(c, h) == [c EXCEPT !.sent = TRUE, !.hits = h]
SendsAll(c, h) ==
    [Sends(c, h) EXCEPT !.pc = "waiting", !.bodysent = TRUE,
                        !.wire = [answer |-> TRUE, body |-> FALSE]]
SendsPart(c, h) ==
    [Sends(c, h) EXCEPT !.pc = "sending", !.wire = [answer |-> TRUE, body |-> TRUE]]
Answered(c, a, k) == [c EXCEPT !.wire.answer = a, !.keepalive = k]
Leaves(c) == [c EXCEPT !.gone = TRUE]

\* How often a request was sent, once more.
Hits(c) == IF c.sent \/ c.kind = "get" THEN c.hits ELSE Min({2, c.hits + 1})

\* A new request.
LEMMA BeginsOK ==
    ASSUME group \in Groups, NEW w \in Workers, NEW b \in BOOLEAN,
           NEW k \in {"get", "post", "stream"}
    PROVE  ReqOK(Begins(w, k, b)) /\ Begins(w, k, b).peer = None
<1> SUFFICES ASSUME NEW d, d = Begins(w, k, b)
             PROVE  ReqOK(d) /\ d.peer = None
  OBVIOUS
<1>1. /\ Idle = Fields(Idle) /\ Typed(Idle) /\ Flags(Idle) /\ Tries \in Nat
      /\ Idle.peer = None /\ Idle.wire = Silent /\ ~Idle.keepalive /\ ~Idle.sent
      /\ Idle.hits = 0 /\ Idle.failed = 0
  BY IdleOK, ReqRecord, TriesType DEF ReqOK, Idle
<1>2. /\ d = Fields(d) /\ d.pc = "connect" /\ d.worker = w /\ d.kind = k
      /\ d.tier = Idle.tier /\ d.tried = Idle.tried /\ d.tries = Tries
      /\ d.peer = Idle.peer /\ d.wire = Idle.wire /\ d.hits = Idle.hits
      /\ d.failed = Idle.failed
  BY <1>1 DEF Fields, Begins
<1>3. /\ d.cacheable = b /\ d.gone = Idle.gone /\ d.cached = Idle.cached
      /\ d.sent = Idle.sent /\ d.bodysent = Idle.bodysent
      /\ d.keepalive = Idle.keepalive
  BY <1>1 DEF Fields, Begins
<1>4. Typed(d)
  BY <1>1, <1>2 DEF Typed, Points, Transit
<1>5. Flags(d)
  BY <1>1, <1>3, Zenon DEF Flags
<1>6. d \in Req
  BY <1>2, <1>4, <1>5, ReqRecord
<1>7. Holds(d)
  BY <1>1, <1>2, UpstreamAssumption DEF Holds
<1>8. WireOK(d)
  BY <1>1, <1>2, <1>3 DEF WireOK
<1>9. OnceOK(d)
  BY <1>1, <1>2, <1>3 DEF OnceOK, NoRepeat
<1>10. RetryOK(d)
  BY <1>1, <1>2 DEF RetryOK
<1>11. QED
  BY <1>1, <1>2, <1>6, <1>7, <1>8, <1>9, <1>10 DEF ReqOK

\* A request that got a server.
LEMMA GetsOK ==
    ASSUME NEW c, ReqOK(c), c.pc = "connect", Tries >= 1, NEW t \in {"primary", "backup"},
           NEW p \in Peers, NEW b \in BOOLEAN, NEW T \in SUBSET Peers
    PROVE  /\ ReqOK(Gets(c, t, p, b, T))
           /\ Gets(c, t, p, b, T).peer = p /\ Gets(c, t, p, b, T).worker = c.worker
<1> SUFFICES ASSUME NEW d, d = Gets(c, t, p, b, T)
             PROVE  ReqOK(d) /\ d.peer = p /\ d.worker = c.worker
  OBVIOUS
<1>1. /\ c = Fields(c) /\ Typed(c) /\ Flags(c)
      /\ Holds(c) /\ WireOK(c) /\ OnceOK(c) /\ RetryOK(c)
      /\ c.pc = "connect"
  BY ReqRecord DEF ReqOK
<1>2. /\ d = Fields(d) /\ d.pc = "got" /\ d.worker = c.worker /\ d.kind = c.kind
      /\ d.tier = t /\ d.tried = T /\ d.tries = c.tries /\ d.peer = p
      /\ d.wire = c.wire /\ d.hits = c.hits /\ d.failed = c.failed
  BY <1>1 DEF Fields, Gets, Asks
<1>3. /\ d.cacheable = c.cacheable /\ d.gone = c.gone /\ d.cached = b
      /\ d.sent = c.sent /\ d.bodysent = c.bodysent /\ d.keepalive = c.keepalive
  BY <1>1 DEF Fields, Gets, Asks
<1>4. Typed(d)
  BY <1>1, <1>2 DEF Typed, Points, Transit
<1>5. Flags(d)
  BY <1>1, <1>3, Zenon DEF Flags
<1>6. d \in Req
  BY <1>2, <1>4, <1>5, ReqRecord
<1>7. Holds(d)
  BY <1>1, <1>2, UpstreamAssumption DEF Holds
<1>8. WireOK(d)
  BY <1>1, <1>2, <1>3 DEF WireOK
<1>9. OnceOK(d)
  BY <1>1, <1>2, <1>3 DEF OnceOK, NoRepeat
<1>10. RetryOK(d)
  BY <1>1, <1>2 DEF RetryOK
<1>11. QED
  BY <1>1, <1>2, <1>6, <1>7, <1>8, <1>9, <1>10 DEF ReqOK

\* A request that got a server and a kept connection to it.
LEMMA ReusesOK ==
    ASSUME NEW c, ReqOK(c), c.pc = "connect", Tries >= 1, NEW t \in {"primary", "backup"},
           NEW p \in Peers, NEW b \in BOOLEAN, NEW T \in SUBSET Peers,
           NEW k \in BOOLEAN, k => c.keepalive /\ ~c.sent
    PROVE  /\ ReqOK(Reuses(c, t, p, b, T, k))
           /\ Reuses(c, t, p, b, T, k).peer = p /\ Reuses(c, t, p, b, T, k).worker = c.worker
<1> SUFFICES ASSUME NEW d, d = Reuses(c, t, p, b, T, k)
             PROVE  ReqOK(d) /\ d.peer = p /\ d.worker = c.worker
  OBVIOUS
<1>1. /\ c = Fields(c) /\ Typed(c) /\ Flags(c)
      /\ Holds(c) /\ WireOK(c) /\ OnceOK(c) /\ RetryOK(c)
      /\ c.pc = "connect" /\ Silent \in Wire
  BY ReqRecord, SilentWire DEF ReqOK
<1>2. /\ d = Fields(d) /\ d.pc = "send" /\ d.worker = c.worker /\ d.kind = c.kind
      /\ d.tier = t /\ d.tried = T /\ d.tries = c.tries /\ d.peer = p
      /\ d.wire = Silent /\ d.hits = c.hits /\ d.failed = c.failed
  BY <1>1 DEF Fields, Reuses, Asks
<1>3. /\ d.cacheable = c.cacheable /\ d.gone = c.gone /\ d.cached = b /\ d.sent = FALSE
      /\ d.bodysent = FALSE /\ d.keepalive = k
  BY <1>1 DEF Fields, Reuses, Asks
<1>4. Typed(d)
  BY <1>1, <1>2 DEF Typed, Points, Transit
<1>5. Flags(d)
  BY <1>1, <1>3, Zenon DEF Flags
<1>6. d \in Req
  BY <1>2, <1>4, <1>5, ReqRecord
<1>7. Holds(d)
  BY <1>1, <1>2, UpstreamAssumption DEF Holds
<1>8. WireOK(d)
  BY <1>1, <1>2, <1>3 DEF WireOK
<1>9. OnceOK(d)
  BY <1>1, <1>2, <1>3 DEF OnceOK, NoRepeat
<1>10. RetryOK(d)
  BY <1>1, <1>2 DEF RetryOK
<1>11. QED
  BY <1>1, <1>2, <1>6, <1>7, <1>8, <1>9, <1>10 DEF ReqOK

\* A request whose connection is made.
LEMMA ConnectsOK ==
    ASSUME NEW c, ReqOK(c), c.pc = "got", NEW p \in {"connecting", "send"},
           NEW k \in BOOLEAN, k => c.keepalive /\ ~c.sent
    PROVE  ReqOK(Connects(c, p, k)) /\ Connects(c, p, k).peer = c.peer
<1> SUFFICES ASSUME NEW d, d = Connects(c, p, k)
             PROVE  ReqOK(d) /\ d.peer = c.peer
  OBVIOUS
<1>1. /\ c = Fields(c) /\ Typed(c) /\ Flags(c)
      /\ Holds(c) /\ WireOK(c) /\ OnceOK(c) /\ RetryOK(c)
      /\ c.pc = "got"
  BY ReqRecord DEF ReqOK
<1>2. /\ d = Fields(d) /\ d.pc = p /\ d.worker = c.worker /\ d.kind = c.kind
      /\ d.tier = c.tier /\ d.tried = c.tried /\ d.tries = c.tries /\ d.peer = c.peer
      /\ d.wire = c.wire /\ d.hits = c.hits /\ d.failed = c.failed
  BY <1>1 DEF Fields, Connects
<1>3. /\ d.cacheable = c.cacheable /\ d.gone = c.gone /\ d.cached = c.cached
      /\ d.sent = FALSE /\ d.bodysent = FALSE /\ d.keepalive = k
  BY <1>1 DEF Fields, Connects
<1>4. Typed(d)
  BY <1>1, <1>2 DEF Typed, Points, Transit
<1>5. Flags(d)
  BY <1>1, <1>3, Zenon DEF Flags
<1>6. d \in Req
  BY <1>2, <1>4, <1>5, ReqRecord
<1>7. Holds(d)
  BY <1>1, <1>2, UpstreamAssumption DEF Holds
<1>8. WireOK(d)
  BY <1>1, <1>2, <1>3 DEF WireOK
<1>9. OnceOK(d)
  BY <1>1, <1>2, <1>3 DEF OnceOK, NoRepeat
<1>10. RetryOK(d)
  BY <1>1, <1>2 DEF RetryOK
<1>11. QED
  BY <1>1, <1>2, <1>6, <1>7, <1>8, <1>9, <1>10 DEF ReqOK

\* A request is counted as sent once more only when it was not sent on this
\* connection.
LEMMA HitsOK ==
    ASSUME NEW c, ReqOK(c)
    PROVE  /\ Hits(c) \in 0..2
           /\ c.pc \in {"connecting", "send", "sending"} /\ NoRepeat(c) => Hits(c) <= 1
<1>1. c.hits \in 0..2 /\ c.hits + 1 \in Int /\ 2 \in Int
  BY ReqRecord DEF ReqOK, Typed
<1>2. Min({2, c.hits + 1}) = IF 2 <= c.hits + 1 THEN 2 ELSE c.hits + 1
  BY <1>1, MinMaxPair
<1>3. Hits(c) = IF c.sent \/ c.kind = "get" THEN c.hits
                ELSE IF 2 <= c.hits + 1 THEN 2 ELSE c.hits + 1
  BY <1>2 DEF Hits
<1>4. NoRepeat(c) => c.kind # "get" /\ c.hits <= IF c.sent THEN 1 ELSE 0
  BY DEF NoRepeat, ReqOK, OnceOK
<1>5. QED
  BY <1>1, <1>3, <1>4

\* A request that is sent.
LEMMA SendsAllOK ==
    ASSUME NEW c, ReqOK(c), c.pc \in {"connecting", "send", "sending"}, NEW h, h = Hits(c)
    PROVE  ReqOK(SendsAll(c, h)) /\ SendsAll(c, h).peer = c.peer
<1> SUFFICES ASSUME NEW d, d = SendsAll(c, h)
             PROVE  ReqOK(d) /\ d.peer = c.peer
  OBVIOUS
<1>1. /\ c = Fields(c) /\ Typed(c) /\ Flags(c)
      /\ Holds(c) /\ WireOK(c) /\ OnceOK(c) /\ RetryOK(c)
      /\ c.pc \in {"connecting", "send", "sending"}
      /\ [answer |-> TRUE, body |-> FALSE] \in Wire /\ h \in 0..2
      /\ NoRepeat(c) => h <= 1
  BY ReqRecord, SilentWire, HitsOK DEF ReqOK
<1>2. /\ d = Fields(d) /\ d.pc = "waiting" /\ d.worker = c.worker /\ d.kind = c.kind
      /\ d.tier = c.tier /\ d.tried = c.tried /\ d.tries = c.tries /\ d.peer = c.peer
      /\ d.wire = [answer |-> TRUE, body |-> FALSE] /\ d.hits = h
      /\ d.failed = c.failed
  BY <1>1 DEF Fields, SendsAll, Sends
<1>3. /\ d.cacheable = c.cacheable /\ d.gone = c.gone /\ d.cached = c.cached
      /\ d.sent = TRUE /\ d.bodysent = TRUE /\ d.keepalive = c.keepalive
  BY <1>1 DEF Fields, SendsAll, Sends
<1>4. Typed(d)
  BY <1>1, <1>2 DEF Typed, Points, Transit
<1>5. Flags(d)
  BY <1>1, <1>3, Zenon DEF Flags
<1>6. d \in Req
  BY <1>2, <1>4, <1>5, ReqRecord
<1>7. Holds(d)
  BY <1>1, <1>2, UpstreamAssumption DEF Holds
<1>8. WireOK(d)
  BY <1>1, <1>2, <1>3 DEF WireOK
<1>9. OnceOK(d)
  BY <1>1, <1>2, <1>3 DEF OnceOK, NoRepeat
<1>10. RetryOK(d)
  BY <1>1, <1>2 DEF RetryOK
<1>11. QED
  BY <1>1, <1>2, <1>6, <1>7, <1>8, <1>9, <1>10 DEF ReqOK

\* A request that is sent in part.
LEMMA SendsPartOK ==
    ASSUME NEW c, ReqOK(c), c.pc \in {"connecting", "send", "sending"},
           NEW h, h = Hits(c), c.pc # "sending"
    PROVE  ReqOK(SendsPart(c, h)) /\ SendsPart(c, h).peer = c.peer
<1> SUFFICES ASSUME NEW d, d = SendsPart(c, h)
             PROVE  ReqOK(d) /\ d.peer = c.peer
  OBVIOUS
<1>1. /\ c = Fields(c) /\ Typed(c) /\ Flags(c)
      /\ Holds(c) /\ WireOK(c) /\ OnceOK(c) /\ RetryOK(c)
      /\ c.pc \in {"connecting", "send", "sending"}
      /\ [answer |-> TRUE, body |-> TRUE] \in Wire /\ h \in 0..2
      /\ NoRepeat(c) => h <= 1
  BY ReqRecord, SilentWire, HitsOK DEF ReqOK
<1>2. /\ d = Fields(d) /\ d.pc = "sending" /\ d.worker = c.worker /\ d.kind = c.kind
      /\ d.tier = c.tier /\ d.tried = c.tried /\ d.tries = c.tries /\ d.peer = c.peer
      /\ d.wire = [answer |-> TRUE, body |-> TRUE] /\ d.hits = h /\ d.failed = c.failed
  BY <1>1 DEF Fields, SendsPart, Sends
<1>3. /\ d.cacheable = c.cacheable /\ d.gone = c.gone /\ d.cached = c.cached
      /\ d.sent = TRUE /\ d.bodysent = c.bodysent /\ d.keepalive = c.keepalive
  BY <1>1 DEF Fields, SendsPart, Sends
<1>4. Typed(d)
  BY <1>1, <1>2 DEF Typed, Points, Transit
<1>5. Flags(d)
  BY <1>1, <1>3, Zenon DEF Flags
<1>6. d \in Req
  BY <1>2, <1>4, <1>5, ReqRecord
<1>7. Holds(d)
  BY <1>1, <1>2, UpstreamAssumption DEF Holds
<1>8. WireOK(d)
  BY <1>1, <1>2, <1>3 DEF WireOK
<1>9. OnceOK(d)
  BY <1>1, <1>2, <1>3 DEF OnceOK, NoRepeat
<1>10. RetryOK(d)
  BY <1>1, <1>2 DEF RetryOK
<1>11. QED
  BY <1>1, <1>2, <1>6, <1>7, <1>8, <1>9, <1>10 DEF ReqOK

\* A request whose client is gone.
LEMMA LeavesOK ==
    ASSUME NEW c, ReqOK(c), c.pc \in {"connecting", "sending", "waiting"}
    PROVE  ReqOK(Leaves(c)) /\ Leaves(c).peer = c.peer
<1> SUFFICES ASSUME NEW d, d = Leaves(c)
             PROVE  ReqOK(d) /\ d.peer = c.peer
  OBVIOUS
<1>1. /\ c = Fields(c) /\ Typed(c) /\ Flags(c)
      /\ Holds(c) /\ WireOK(c) /\ OnceOK(c) /\ RetryOK(c)
      /\ c.pc \in {"connecting", "sending", "waiting"}
  BY ReqRecord DEF ReqOK
<1>2. /\ d = Fields(d) /\ d.pc = c.pc /\ d.worker = c.worker /\ d.kind = c.kind
      /\ d.tier = c.tier /\ d.tried = c.tried /\ d.tries = c.tries /\ d.peer = c.peer
      /\ d.wire = c.wire /\ d.hits = c.hits /\ d.failed = c.failed
  BY <1>1 DEF Fields, Leaves
<1>3. /\ d.cacheable = c.cacheable /\ d.gone = TRUE /\ d.cached = c.cached
      /\ d.sent = c.sent /\ d.bodysent = c.bodysent /\ d.keepalive = c.keepalive
  BY <1>1 DEF Fields, Leaves
<1>4. Typed(d)
  BY <1>1, <1>2 DEF Typed, Points, Transit
<1>5. Flags(d)
  BY <1>1, <1>3, Zenon DEF Flags
<1>6. d \in Req
  BY <1>2, <1>4, <1>5, ReqRecord
<1>7. Holds(d)
  BY <1>1, <1>2, UpstreamAssumption DEF Holds
<1>8. WireOK(d)
  BY <1>1, <1>2, <1>3 DEF WireOK
<1>9. OnceOK(d)
  BY <1>1, <1>2, <1>3 DEF OnceOK, NoRepeat
<1>10. RetryOK(d)
  BY <1>1, <1>2 DEF RetryOK
<1>11. QED
  BY <1>1, <1>2, <1>6, <1>7, <1>8, <1>9, <1>10 DEF ReqOK

\* A connection that may be kept is silent.
Clean(c) ==
    c.pc \notin {"connect", "got"} /\ c.keepalive /\ c.bodysent => c.wire = Silent

LEMMA CleanOK ==
    ASSUME NEW c, ReqOK(c)
    PROVE  Clean(c)
<1>1. c.wire \in Wire /\ c.pc \in Points
  BY ReqRecord DEF ReqOK, Typed
<1>2. ASSUME c.pc \notin {"connect", "got"}, c.keepalive, c.bodysent
      PROVE  c.wire = Silent
  <2>1. CASE c.pc = "idle"
    BY <2>1 DEF ReqOK, Holds, Idle
  <2>2. CASE c.pc = "relay"
    BY <1>1, <1>2, <2>2, SilentWire DEF ReqOK, WireOK
  <2>3. QED
    BY <1>1, <1>2, <2>1, <2>2 DEF ReqOK, WireOK, Points, Transit
<1>3. QED
  BY <1>2 DEF Clean

\* A request whose answer is sent to the client.
LEMMA RelayedOK ==
    ASSUME NEW c \in Req, c.worker \in Workers, c.peer \in Peers, Tries >= 1,
           c.bodysent => ~c.wire.body, c.keepalive => ~c.wire.answer
    PROVE  ReqOK(Relayed(c)) /\ Relayed(c).peer = c.peer
<1> SUFFICES ASSUME NEW d, d = Relayed(c)
             PROVE  ReqOK(d) /\ d.peer = c.peer
  OBVIOUS
<1>1. /\ Idle = Fields(Idle) /\ Typed(Idle) /\ Flags(Idle) /\ Typed(c) /\ Flags(c)
      /\ Idle.hits = 0 /\ Idle.failed = 0 /\ ~Idle.sent
  BY IdleOK, ReqRecord DEF ReqOK, Idle
<1>2. /\ d = Fields(d) /\ d.pc = "relay" /\ d.worker = c.worker /\ d.kind = Idle.kind
      /\ d.tier = Idle.tier /\ d.tried = Idle.tried /\ d.tries = Idle.tries
      /\ d.peer = c.peer /\ d.wire = c.wire /\ d.hits = Idle.hits
      /\ d.failed = Idle.failed
  BY <1>1 DEF Fields, Relayed
<1>3. /\ d.cacheable = Idle.cacheable /\ d.gone = Idle.gone /\ d.cached = Idle.cached
      /\ d.sent = Idle.sent /\ d.bodysent = c.bodysent /\ d.keepalive = c.keepalive
  BY <1>1 DEF Fields, Relayed
<1>4. Typed(d)
  BY <1>1, <1>2 DEF Typed, Points, Transit
<1>5. Flags(d)
  BY <1>1, <1>3, Zenon DEF Flags
<1>6. d \in Req
  BY <1>2, <1>4, <1>5, ReqRecord
<1>7. Holds(d)
  BY <1>1, <1>2, UpstreamAssumption DEF Holds
<1>8. WireOK(d)
  BY <1>1, <1>2, <1>3 DEF WireOK
<1>9. OnceOK(d)
  BY <1>1, <1>2, <1>3 DEF OnceOK, NoRepeat
<1>10. RetryOK(d)
  BY <1>1, <1>2 DEF RetryOK
<1>11. QED
  BY <1>1, <1>2, <1>6, <1>7, <1>8, <1>9, <1>10 DEF ReqOK

\* A request whose try has failed may ask for another server.
LEMMA FailingOK ==
    ASSUME group \in Groups, NEW c, ReqOK(c),
           c.pc \in {"got", "connecting", "send", "sending", "waiting"}
    PROVE  Failing(c)
<1>1. Typed(c) /\ c.worker \in Workers /\ c.peer \in Peers /\ Tries \in Nat
  BY ReqRecord, TriesType DEF ReqOK, Holds, Typed
<1>2. c.keepalive => c.sent
  BY DEF ReqOK, WireOK
<1>3. NoRepeat(c) => c.hits <= IF c.sent THEN 1 ELSE 0
  BY DEF ReqOK, OnceOK
<1>4. c.failed + c.tries <= Tries /\ c.tries >= 1
  <2>1. c.peer # None
    BY <1>1, UpstreamAssumption
  <2>2. QED
    BY <1>1, <2>1 DEF ReqOK, RetryOK
<1>5. QED
  BY <1>1, <1>2, <1>3, <1>4 DEF ReqOK, Failing

\* So may one that fails while it is sent ...
LEMMA SendFailing ==
    ASSUME group \in Groups, NEW c, ReqOK(c),
           c.pc \in {"connecting", "send", "sending"}, NEW h, h = Hits(c)
    PROVE  /\ Failing(Sends(c, h)) /\ Clean(Sends(c, h))
           /\ Sends(c, h).peer = c.peer /\ Sends(c, h).worker = c.worker
<1> SUFFICES ASSUME NEW d, d = Sends(c, h)
             PROVE  Failing(d) /\ Clean(d) /\ d.peer = c.peer /\ d.worker = c.worker
  OBVIOUS
<1>1. /\ c = Fields(c) /\ Typed(c) /\ Flags(c) /\ Failing(c)
      /\ h \in 0..2 /\ (NoRepeat(c) => h <= 1) /\ ~c.bodysent /\ ~c.keepalive
  BY ReqRecord, HitsOK, FailingOK DEF ReqOK, WireOK
<1>2. /\ d = Fields(d) /\ d.pc = c.pc /\ d.worker = c.worker /\ d.kind = c.kind
      /\ d.tier = c.tier /\ d.tried = c.tried /\ d.tries = c.tries /\ d.peer = c.peer
      /\ d.wire = c.wire /\ d.hits = h /\ d.failed = c.failed
  BY <1>1 DEF Fields, Sends
<1>3. /\ d.cacheable = c.cacheable /\ d.gone = c.gone /\ d.cached = c.cached
      /\ d.sent = TRUE /\ d.bodysent = c.bodysent /\ d.keepalive = c.keepalive
  BY <1>1 DEF Fields, Sends
<1>4. Typed(d)
  BY <1>1, <1>2 DEF Typed
<1>5. Flags(d)
  BY <1>1, <1>3, Zenon DEF Flags
<1>6. d \in Req
  BY <1>2, <1>4, <1>5, ReqRecord
<1>7. QED
  BY <1>1, <1>2, <1>3, <1>6 DEF Failing, NoRepeat, Clean

\* ... or whose answer is not wanted.
LEMMA AnsweredOK ==
    ASSUME group \in Groups, NEW c, ReqOK(c), c.pc \in {"sending", "waiting"},
           NEW a \in BOOLEAN, NEW k \in BOOLEAN, k => ~a
    PROVE  /\ Failing(Answered(c, a, k)) /\ Clean(Answered(c, a, k))
           /\ Answered(c, a, k).peer = c.peer /\ Answered(c, a, k).worker = c.worker
           /\ ReqOK(Relayed(Answered(c, a, k)))
           /\ Relayed(Answered(c, a, k)).peer = c.peer
<1> SUFFICES ASSUME NEW d, d = Answered(c, a, k)
             PROVE  /\ Failing(d) /\ Clean(d) /\ d.peer = c.peer /\ d.worker = c.worker
                    /\ ReqOK(Relayed(d)) /\ Relayed(d).peer = c.peer
  OBVIOUS
<1> DEFINE w == [c.wire EXCEPT !.answer = a]
<1>1. /\ c = Fields(c) /\ Typed(c) /\ Flags(c) /\ Failing(c) /\ c.sent
  BY ReqRecord, FailingOK DEF ReqOK, WireOK
<1>2. /\ d = Fields(d) /\ d.pc = c.pc /\ d.worker = c.worker /\ d.kind = c.kind
      /\ d.tier = c.tier /\ d.tried = c.tried /\ d.tries = c.tries /\ d.peer = c.peer
      /\ d.wire = w /\ d.hits = c.hits /\ d.failed = c.failed
  BY <1>1 DEF Fields, Answered
<1>3. /\ d.cacheable = c.cacheable /\ d.gone = c.gone /\ d.cached = c.cached
      /\ d.sent = c.sent /\ d.bodysent = c.bodysent /\ d.keepalive = k
  BY <1>1 DEF Fields, Answered
<1>4. w \in Wire /\ w.answer = a /\ w.body = c.wire.body
  <2>1. c.wire \in Wire
    BY <1>1 DEF Typed
  <2>2. QED
    BY <2>1 DEF Wire
<1> HIDE DEF w
<1>5. Typed(d)
  BY <1>1, <1>2, <1>4 DEF Typed
<1>6. Flags(d)
  BY <1>1, <1>3, Zenon DEF Flags
<1>7. d \in Req
  BY <1>2, <1>5, <1>6, ReqRecord
<1>8. Failing(d) /\ d.peer = c.peer /\ d.worker = c.worker
  BY <1>1, <1>2, <1>3, <1>7 DEF Failing, NoRepeat
<1>9. d.bodysent => ~d.wire.body
  BY <1>1, <1>2, <1>3, <1>4 DEF ReqOK, WireOK
<1>10. Clean(d)
  BY <1>2, <1>3, <1>4, <1>9, SilentWire DEF Clean
<1>11. ReqOK(Relayed(d)) /\ Relayed(d).peer = c.peer
  <2>1. d.keepalive => ~d.wire.answer
    BY <1>2, <1>3, <1>4
  <2>2. d.worker \in Workers /\ d.peer \in Peers /\ Tries >= 1
    BY <1>7, <1>8, TriesType, ReqRecord DEF Failing, Typed
  <2>3. QED
    BY <1>7, <1>8, <1>9, <2>1, <2>2, RelayedOK
<1>12. QED
  BY <1>8, <1>10, <1>11

\* The answer is read to its end, or not.
LEMMA DrainedOK ==
    ASSUME NEW c, ReqOK(c), c.pc = "relay", NEW k \in BOOLEAN
    PROVE  /\ Clean(Answered(c, FALSE, k))
           /\ Answered(c, FALSE, k).peer = c.peer /\ Answered(c, FALSE, k).worker = c.worker
<1> SUFFICES ASSUME NEW d, d = Answered(c, FALSE, k)
             PROVE  Clean(d) /\ d.peer = c.peer /\ d.worker = c.worker
  OBVIOUS
<1> DEFINE w == [c.wire EXCEPT !.answer = FALSE]
<1>1. /\ c = Fields(c) /\ Typed(c) /\ (c.bodysent => ~c.wire.body)
  BY ReqRecord DEF ReqOK, WireOK
<1>2. /\ d = Fields(d) /\ d.pc = c.pc /\ d.worker = c.worker /\ d.kind = c.kind
      /\ d.tier = c.tier /\ d.tried = c.tried /\ d.tries = c.tries /\ d.peer = c.peer
      /\ d.wire = w /\ d.hits = c.hits /\ d.failed = c.failed
  BY <1>1 DEF Fields, Answered
<1>3. /\ d.cacheable = c.cacheable /\ d.gone = c.gone /\ d.cached = c.cached
      /\ d.sent = c.sent /\ d.bodysent = c.bodysent /\ d.keepalive = k
  BY <1>1 DEF Fields, Answered
<1>4. w \in Wire /\ ~w.answer /\ w.body = c.wire.body
  <2>1. c.wire \in Wire
    BY <1>1 DEF Typed
  <2>2. QED
    BY <2>1 DEF Wire
<1> HIDE DEF w
<1>5. QED
  BY <1>1, <1>2, <1>3, <1>4, SilentWire DEF Clean

-----------------------------------------------------------------------------
(* Steps of one request. *)

\* What holds of a request does not depend on the step that is taken.
LEMMA SameGroup ==
    ASSUME group' = group, NEW s, NEW d, ReqOK(d), req'[s] = d
    PROVE  ReqOK(req[s])'
<1>1. Tries' = Tries
  BY DEF Tries
<1>2. /\ d \in Req /\ Holds(d) /\ WireOK(d) /\ OnceOK(d) /\ RetryOK(d)
  BY DEF ReqOK
<1>3. Holds(req[s])' /\ WireOK(req[s])' /\ OnceOK(req[s])'
  BY <1>2 DEF Holds, WireOK, OnceOK, NoRepeat
<1>4. RetryOK(req[s])'
  BY <1>1, <1>2 DEF RetryOK
<1>5. QED
  BY <1>2, <1>3, <1>4 DEF ReqOK

\* The uses of server p.
Users(p) == {s \in Reqs : req[s].peer = p}

\* A step of one request changes what it holds, and nothing of the others.
LEMMA OneRequest ==
    ASSUME UpstreamInv, NEW r \in Reqs, NEW d, ReqOK(d), Becomes(r, d), group' = group
    PROVE  /\ DOMAIN req' = Reqs /\ req' = [s \in Reqs |-> req'[s]]
           /\ \A s \in Reqs : ReqOK(req[s])'
           /\ \A p :
                 /\ Cardinality(Users(p)) \in Nat
                 /\ req[r].peer = p => Cardinality(Users(p)) >= 1
                 /\ Cardinality(Users(p)') = Cardinality(Users(p))
                       + (IF d.peer = p THEN 1 ELSE 0)
                       - (IF req[r].peer = p THEN 1 ELSE 0)
<1>1. \A s \in Reqs : req'[s] = IF s = r THEN d ELSE req[s]
  BY DEF Becomes, UpstreamInv
<1>2. DOMAIN req' = Reqs /\ req' = [s \in Reqs |-> req'[s]]
  BY DEF Becomes, UpstreamInv
<1>3. ASSUME NEW s \in Reqs PROVE ReqOK(req[s])'
  <2>1. ReqOK(req[s])
    BY DEF UpstreamInv
  <2>2. PICK x : x = req'[s]
    OBVIOUS
  <2>3. ReqOK(x)
    BY <1>1, <2>1, <2>2
  <2>4. QED
    BY <2>2, <2>3, SameGroup
<1>4. ASSUME NEW p
      PROVE  /\ Cardinality(Users(p)) \in Nat
             /\ req[r].peer = p => Cardinality(Users(p)) >= 1
             /\ Cardinality(Users(p)') = Cardinality(Users(p))
                   + (IF d.peer = p THEN 1 ELSE 0) - (IF req[r].peer = p THEN 1 ELSE 0)
  <2> DEFINE A == Users(p)'
             B == Users(p)
  <2>1. A \ {r} = B \ {r} /\ (r \in A <=> d.peer = p) /\ (r \in B <=> req[r].peer = p)
    BY <1>1 DEF Users
  <2>2. IsFiniteSet(B)
    <3>1. B \subseteq Reqs
      BY DEF Users
    <3>2. QED
      BY <3>1, UpstreamAssumption, FS_Subset
  <2> HIDE DEF A, B
  <2>3. /\ Cardinality(B) \in Nat
        /\ Cardinality(A) = Cardinality(B) + (IF r \in B THEN 0 ELSE 1)
                                           - (IF r \in A THEN 0 ELSE 1)
    BY <2>1, <2>2, CountMove
  <2>4. r \in B => Cardinality(B) >= 1
    BY <2>2, <2>3, FS_EmptySet
  <2>5. QED
    BY <2>1, <2>3, <2>4 DEF A, B
<1>5. QED
  BY <1>2, <1>3, <1>4

\* The parts of the invariant that the choice and the release of a server need.
LEMMA PeersFact ==
    ASSUME UpstreamInv
    PROVE  /\ PeersOK /\ group \in Groups
           /\ \A p \in Peers :
                 /\ peer[p].conns = Cardinality(Users(p)) + leaked[p]
                 /\ MaxConns[p] > 0 => peer[p].conns <= MaxConns[p]
                 /\ leaked[p] \in Nat /\ MaxConns[p] \in Nat
                 /\ peer[p].conns \in Nat
  BY UpstreamAssumption, PeerRecord
     DEF UpstreamInv, SharedOK, PeersOK, WeightsBalanced, ConnsExact, Users

\* The weights stay balanced when the servers keep their current weights.
LEMMA SameWeights ==
    ASSUME UpstreamInv, group' = group, peer' \in [Peers -> Peer],
           \A p \in Peers : /\ peer'[p].current = peer[p].current
                            /\ peer'[p].effective \in 0..Weight[p]
    PROVE  WeightsBalanced'
<1>1. [p \in Peers |-> peer'[p].current] = [p \in Peers |-> peer[p].current]
  OBVIOUS
<1>2. QED
  BY <1>1 DEF UpstreamInv, WeightsBalanced

\* A step that changes one request and keeps the servers.
LEMMA OwnStep ==
    ASSUME UpstreamInv, NEW r \in Reqs, NEW d, ReqOK(d), Becomes(r, d),
           d.peer = req[r].peer, UNCHANGED <<group, peer, cache, deaths, leaked>>,
           starts' \in Nat
    PROVE  UpstreamInv'
<1>1. /\ DOMAIN req' = Reqs /\ req' = [s \in Reqs |-> req'[s]]
      /\ \A s \in Reqs : ReqOK(req[s])'
      /\ \A p \in Peers : Cardinality(Users(p)') = Cardinality(Users(p))
  BY OneRequest
<1>2. SharedOK'
  BY <1>1 DEF UpstreamInv, SharedOK
<1>3. ConnsExact'
  BY <1>1 DEF UpstreamInv, ConnsExact, Users
<1>4. WeightsBalanced'
  BY DEF UpstreamInv, WeightsBalanced
<1>5. QED
  BY <1>1, <1>2, <1>3, <1>4 DEF UpstreamInv

\* Connections that are kept, and a list of them without one.
LEMMA SaveOK ==
    ASSUME UpstreamInv, NEW c, c.worker \in Workers, c.peer \in Peers, c.wire = Silent,
           Save(c)
    PROVE  cache' \in [Workers -> Seq(Kept)]
<1> DEFINE q == <<[peer |-> c.peer, wire |-> c.wire]>> \o cache[c.worker]
           m == Min({Len(q), MaxCached})
<1>1. cache \in [Workers -> Seq(Kept)] /\ cache[c.worker] \in Seq(Kept)
  BY DEF UpstreamInv, SharedOK
<1>2. q \in Seq(Kept)
  <2>1. <<[peer |-> c.peer, wire |-> c.wire]>> \in Seq(Kept)
    BY DEF Kept
  <2>2. QED
    BY <1>1, <2>1, ConcatProperties
<1>3. SubSeq(q, 1, m) \in Seq(Kept)
  <2> HIDE DEF q
  <2>1. Len(q) \in Nat /\ MaxCached \in Nat \ {0} /\ Len(q) \in Int /\ MaxCached \in Int
    BY <1>2, LenProperties, UpstreamAssumption
  <2>2. m \in 0..Len(q)
    BY <2>1, MinMaxPair
  <2> HIDE DEF m
  <2>3. \A i \in 1..m : i \in 1..Len(q)
    BY <2>1, <2>2
  <2>4. QED
    BY <1>2, <2>1, <2>2, <2>3, SubSeqProperties
<1>4. cache' = [cache EXCEPT ![c.worker] = SubSeq(q, 1, m)]
  BY DEF Save
<1> HIDE DEF q, m
<1>5. QED
  BY <1>1, <1>3, <1>4

LEMMA RemoveOK ==
    ASSUME NEW s \in Seq(Kept), NEW i \in DOMAIN s
    PROVE  RemoveAt(s, i) \in Seq(Kept)
<1>1. Len(s) \in Nat /\ i \in 1..Len(s)
  BY LenProperties
<1>2. SubSeq(s, 1, i - 1) \in Seq(Kept)
  BY <1>1, SubSeqProperties
<1>3. SubSeq(s, i + 1, Len(s)) \in Seq(Kept)
  BY <1>1, SubSeqProperties
<1>4. QED
  BY <1>2, <1>3, ConcatProperties DEF RemoveAt

\* The end of a try: the server is given back, the request has none.
LEMMA Ended ==
    ASSUME UpstreamInv, NEW r \in Reqs, req[r].worker \in Workers,
           NEW c, c.peer = req[r].peer, c.worker = req[r].worker, Clean(c), NEW failed,
           c.peer = None => c.pc \in {"connect", "got"},
           Release(c, failed), NEW d, Becomes(r, d), ReqOK(d), d.peer = None,
           UNCHANGED <<group, counts>>
    PROVE  UpstreamInv'
<1>1. /\ PeersOK
      /\ \A p \in Peers :
            /\ peer[p].conns = Cardinality(Users(p)) + leaked[p]
            /\ MaxConns[p] > 0 => peer[p].conns <= MaxConns[p]
            /\ leaked[p] \in Nat /\ MaxConns[p] \in Nat
            /\ peer[p].conns \in Nat
  BY PeersFact
<1>2. /\ DOMAIN req' = Reqs /\ req' = [s \in Reqs |-> req'[s]]
      /\ \A s \in Reqs : ReqOK(req[s])'
      /\ \A p :
            /\ Cardinality(Users(p)) \in Nat
            /\ req[r].peer = p => Cardinality(Users(p)) >= 1
            /\ Cardinality(Users(p)') = Cardinality(Users(p))
                  + (IF d.peer = p THEN 1 ELSE 0) - (IF req[r].peer = p THEN 1 ELSE 0)
  BY OneRequest
<1>3. c.peer \in Peers \cup {None}
  BY ReqRecord DEF UpstreamInv, ReqOK, Typed
<1>4. c.peer # None => peer[c.peer].conns >= 1
  <2> SUFFICES ASSUME NEW p \in Peers, p = c.peer PROVE peer[p].conns >= 1
    BY <1>3
  <2>1. Cardinality(Users(p)) \in Nat /\ Cardinality(Users(p)) >= 1
    BY <1>2
  <2>2. peer[p].conns = Cardinality(Users(p)) + leaked[p] /\ leaked[p] \in Nat
    BY <1>1
  <2>3. QED
    BY <2>1, <2>2
<1>5. /\ peer' \in [Peers -> Peer]
      /\ \A p \in Peers :
            /\ peer'[p].conns = peer[p].conns - (IF p = c.peer THEN 1 ELSE 0)
            /\ peer'[p].effective \in 0..Weight[p]
            /\ peer'[p].current = peer[p].current
  BY <1>1, <1>3, <1>4, FreedOK DEF Release
<1>6. cache' \in [Workers -> Seq(Kept)]
  <2>1. CASE UNCHANGED cache
    BY <2>1 DEF UpstreamInv, SharedOK
  <2>2. CASE MaySave(c, failed) /\ Save(c)
    BY <1>3, <2>2, SaveOK DEF MaySave, Clean
  <2>3. QED
    BY <2>1, <2>2 DEF Release
<1>7. SharedOK'
  BY <1>2, <1>5, <1>6 DEF UpstreamInv, SharedOK, counts
<1>8. ConnsExact'
  <2>1. ASSUME NEW p \in Peers
        PROVE  /\ peer'[p].conns = Cardinality(Users(p)') + leaked'[p]
               /\ MaxConns[p] > 0 => peer'[p].conns <= MaxConns[p]
    <3>1. leaked' = leaked /\ p # None
      BY UpstreamAssumption DEF counts
    <3>2. peer'[p].conns = peer[p].conns - (IF p = c.peer THEN 1 ELSE 0)
      BY <1>5
    <3>3. Cardinality(Users(p)') = Cardinality(Users(p)) - (IF p = c.peer THEN 1 ELSE 0)
      BY <1>2, <3>1
    <3>4. /\ Cardinality(Users(p)) \in Nat /\ leaked[p] \in Nat
          /\ peer[p].conns = Cardinality(Users(p)) + leaked[p]
      BY <1>1, <1>2
    <3>5. MaxConns[p] \in Nat /\ (MaxConns[p] > 0 => peer[p].conns <= MaxConns[p])
      BY <1>1
    <3>6. QED
      BY <3>1, <3>2, <3>3, <3>4, <3>5
  <2>2. QED
    BY <2>1 DEF ConnsExact, Users
<1>9. WeightsBalanced'
  BY <1>5, SameWeights
<1>10. QED
  BY <1>2, <1>7, <1>8, <1>9 DEF UpstreamInv

-----------------------------------------------------------------------------
(* The actions. *)

\* The request ends.
LEMMA FinalizeStep ==
    ASSUME UpstreamInv, NEW r \in Reqs, req[r].pc # "idle",
           NEW c, c.peer = req[r].peer, c.worker = req[r].worker, Clean(c),
           c.peer = None => c.pc \in {"connect", "got"}, Finalize(r, c)
    PROVE  UpstreamInv'
<1>1. req[r].worker \in Workers
  BY DEF UpstreamInv, ReqOK, Holds
<1>2. Release(c, FALSE) /\ Becomes(r, Idle) /\ UNCHANGED <<group, counts>>
  BY DEF Finalize
<1>3. ReqOK(Idle) /\ Idle.peer = None
  BY IdleOK
<1>4. QED
  BY <1>1, <1>2, <1>3, Ended

LEMMA FinalizeOwn ==
    ASSUME UpstreamInv, NEW r \in Reqs, req[r].pc # "idle", Finalize(r, req[r])
    PROVE  UpstreamInv'
<1>1. ReqOK(req[r])
  BY DEF UpstreamInv
<1>2. Clean(req[r])
  BY <1>1, CleanOK
<1>3. req[r].peer = None => req[r].pc \in {"connect", "got"}
  BY <1>1 DEF ReqOK, Holds
<1>4. QED
  BY <1>2, <1>3, FinalizeStep

\* The try fails: another server is asked, or the request ends.
LEMMA NextStep ==
    ASSUME UpstreamInv, NEW r \in Reqs, req[r].pc # "idle",
           NEW c, c.peer = req[r].peer, c.worker = req[r].worker, Clean(c), Failing(c),
           NEW ft, NextServer(r, c, ft)
    PROVE  UpstreamInv'
<1> DEFINE t == TriesLeft(c) + (IF Refund(c, ft) THEN 1 ELSE 0)
           n == IF c.cached /\ ft = "error" THEN c.failed ELSE c.failed + 1
<1>1. req[r].worker \in Workers /\ c.peer # None /\ group \in Groups
  BY UpstreamAssumption DEF UpstreamInv, SharedOK, ReqOK, Holds, Failing
<1>2. Release(c, ft # "http_404") /\ UNCHANGED <<group, counts>>
  BY DEF NextServer
<1>3. CASE Becomes(r, Idle)
  <2>1. ReqOK(Idle) /\ Idle.peer = None
    BY IdleOK
  <2>2. QED
    BY <1>1, <1>2, <1>3, <2>1, Ended
<1>4. CASE MayGoOn(c, ft, t) /\ Becomes(r, Retry(c, t, n))
  <2>1. ReqOK(Retry(c, t, n)) /\ Retry(c, t, n).peer = None
    <3>1. t = TriesLeft(c) + (IF Refund(c, ft) THEN 1 ELSE 0)
      OBVIOUS
    <3>2. n = IF c.cached /\ ft = "error" THEN c.failed ELSE c.failed + 1
      OBVIOUS
    <3> HIDE DEF t, n
    <3>3. QED
      BY <1>1, <1>4, <3>1, <3>2, RetryIsOK
  <2> HIDE DEF t, n
  <2>2. QED
    BY <1>1, <1>2, <1>4, <2>1, Ended
<1>5. \/ Becomes(r, Idle)
      \/ MayGoOn(c, ft, t) /\ Becomes(r, Retry(c, t, n))
  BY Zenon DEF NextServer, Retry
<1>6. QED
  BY <1>3, <1>4, <1>5

LEMMA NextOwn ==
    ASSUME UpstreamInv, NEW r \in Reqs, NEW ft, NextServer(r, req[r], ft),
           req[r].pc \in {"got", "connecting", "send", "sending", "waiting"}
    PROVE  UpstreamInv'
<1>1. ReqOK(req[r]) /\ group \in Groups
  BY DEF UpstreamInv, SharedOK
<1>2. Clean(req[r]) /\ Failing(req[r])
  BY <1>1, CleanOK, FailingOK
<1>3. QED
  BY <1>2, NextStep

LEMMA StartStep ==
    ASSUME UpstreamInv, NEW r \in Reqs, Start(r)
    PROVE  UpstreamInv'
<1>1. PICK w \in Workers, k \in Kinds : Becomes(r, Begins(w, k.kind, k.cacheable))
  BY Zenon DEF Start, Begins
<1>2. k.kind \in {"get", "post", "stream"} /\ k.cacheable \in BOOLEAN
  BY UpstreamAssumption
<1>3. group \in Groups /\ starts' \in Nat
      /\ UNCHANGED <<group, peer, cache, deaths, leaked>>
  BY DEF UpstreamInv, SharedOK, Start
<1>4. /\ ReqOK(Begins(w, k.kind, k.cacheable))
      /\ Begins(w, k.kind, k.cacheable).peer = None
  BY <1>2, <1>3, BeginsOK
<1>5. req[r].peer = None
  <2>1. req[r].pc = "idle" /\ ReqOK(req[r])
    BY DEF Start, UpstreamInv
  <2>2. QED
    BY <2>1 DEF ReqOK, Holds
<1>6. QED
  BY <1>1, <1>3, <1>4, <1>5, OwnStep

LEMMA ConnectStep ==
    ASSUME UpstreamInv, NEW r \in Reqs, Connect(r)
    PROVE  UpstreamInv'
<1> DEFINE k == req[r].keepalive /\ ~req[r].sent
<1>1. PICK p \in {"connecting", "send"} : Becomes(r, Connects(req[r], p, k))
  BY Zenon DEF Connect, Connects
<1>2. k \in BOOLEAN /\ (k => req[r].keepalive /\ ~req[r].sent)
  BY Zenon
<1>3. /\ ReqOK(req[r]) /\ req[r].pc = "got"
      /\ starts' \in Nat /\ UNCHANGED <<group, peer, cache, deaths, leaked>>
  BY DEF UpstreamInv, SharedOK, Connect, counts
<1> HIDE DEF k
<1>4. ReqOK(Connects(req[r], p, k)) /\ Connects(req[r], p, k).peer = req[r].peer
  BY <1>2, <1>3, ConnectsOK
<1>5. QED
  BY <1>1, <1>3, <1>4, OwnStep

LEMMA SendStep ==
    ASSUME UpstreamInv, NEW r \in Reqs, Send(r)
    PROVE  UpstreamInv'
<1> DEFINE h == Hits(req[r])
           c == Sends(req[r], h)
<1>1. /\ ReqOK(req[r]) /\ group \in Groups
      /\ req[r].pc \in {"connecting", "send", "sending"}
  BY DEF UpstreamInv, SharedOK, Send
<1>2. h = Hits(req[r])
  OBVIOUS
<1>3. \/ /\ Becomes(r, SendsAll(req[r], h))
         /\ UNCHANGED <<group, peer, cache, counts>>
      \/ /\ req[r].pc # "sending" /\ Becomes(r, SendsPart(req[r], h))
         /\ UNCHANGED <<group, peer, cache, counts>>
      \/ NextServer(r, c, "error")
  BY Zenon DEF Send, Sends, SendsAll, SendsPart, Hits
<1> HIDE DEF h
<1>4. CASE Becomes(r, SendsAll(req[r], h)) /\ UNCHANGED <<group, peer, cache, counts>>
  <2>1. ReqOK(SendsAll(req[r], h)) /\ SendsAll(req[r], h).peer = req[r].peer
    BY <1>1, <1>2, SendsAllOK
  <2>2. starts' \in Nat /\ UNCHANGED <<group, peer, cache, deaths, leaked>>
    BY <1>4 DEF UpstreamInv, SharedOK, counts
  <2>3. QED
    BY <1>4, <2>1, <2>2, OwnStep
<1>5. CASE /\ req[r].pc # "sending" /\ Becomes(r, SendsPart(req[r], h))
           /\ UNCHANGED <<group, peer, cache, counts>>
  <2>1. ReqOK(SendsPart(req[r], h)) /\ SendsPart(req[r], h).peer = req[r].peer
    BY <1>1, <1>2, <1>5, SendsPartOK
  <2>2. starts' \in Nat /\ UNCHANGED <<group, peer, cache, deaths, leaked>>
    BY <1>5 DEF UpstreamInv, SharedOK, counts
  <2>3. QED
    BY <1>5, <2>1, <2>2, OwnStep
<1>6. CASE NextServer(r, c, "error")
  <2>1. Failing(c) /\ Clean(c) /\ c.peer = req[r].peer /\ c.worker = req[r].worker
    BY <1>1, <1>2, SendFailing
  <2> HIDE DEF c
  <2>2. QED
    BY <1>1, <1>6, <2>1, NextStep
<1>7. QED
  BY <1>3, <1>4, <1>5, <1>6

LEMMA HeaderStep ==
    ASSUME UpstreamInv, NEW r \in Reqs, Header(r)
    PROVE  UpstreamInv'
<1>1. PICK body \in BOOLEAN, alive \in BOOLEAN :
         LET c == Answered(req[r], body, KeptAlive(body, alive))
         IN  \/ Becomes(r, Relayed(c)) /\ UNCHANGED <<group, peer, cache, counts>>
             \/ Finalize(r, c)
             \/ \E ft \in {"http_404", "http_500"} : NextServer(r, c, ft)
  BY Zenon DEF Header, Answered
<1> DEFINE k == KeptAlive(body, alive)
           c == Answered(req[r], body, k)
<1>2. /\ ReqOK(req[r]) /\ group \in Groups /\ req[r].pc \in {"sending", "waiting"}
  BY DEF UpstreamInv, SharedOK, Header
<1>3. k \in BOOLEAN /\ (k => ~body)
  BY Zenon DEF KeptAlive
<1> HIDE DEF k
<1>4. /\ Failing(c) /\ Clean(c) /\ c.peer = req[r].peer /\ c.worker = req[r].worker
      /\ ReqOK(Relayed(c)) /\ Relayed(c).peer = req[r].peer
  BY <1>2, <1>3, AnsweredOK
<1>5. \/ Becomes(r, Relayed(c)) /\ UNCHANGED <<group, peer, cache, counts>>
      \/ Finalize(r, c)
      \/ \E ft \in {"http_404", "http_500"} : NextServer(r, c, ft)
  BY <1>1, Zenon DEF k
<1> HIDE DEF c
<1>6. CASE Becomes(r, Relayed(c)) /\ UNCHANGED <<group, peer, cache, counts>>
  <2>1. starts' \in Nat /\ UNCHANGED <<group, peer, cache, deaths, leaked>>
    BY <1>6 DEF UpstreamInv, SharedOK, counts
  <2>2. QED
    BY <1>4, <1>6, <2>1, OwnStep
<1>7. CASE Finalize(r, c)
  <2>1. c.peer # None
    BY <1>4, UpstreamAssumption DEF Failing
  <2>2. QED
    BY <1>2, <1>4, <1>7, <2>1, FinalizeStep
<1>8. CASE \E ft \in {"http_404", "http_500"} : NextServer(r, c, ft)
  BY <1>2, <1>4, <1>8, NextStep
<1>9. QED
  BY <1>5, <1>6, <1>7, <1>8

LEMMA RelayStep ==
    ASSUME UpstreamInv, NEW r \in Reqs, Relay(r)
    PROVE  UpstreamInv'
<1>1. PICK alive \in BOOLEAN :
         \/ Finalize(r, Answered(req[r], FALSE, req[r].keepalive \/ alive))
         \/ Finalize(r, req[r])
  BY Zenon DEF Relay, Answered
<1> DEFINE k == req[r].keepalive \/ alive
           c == Answered(req[r], FALSE, k)
<1>2. ReqOK(req[r]) /\ req[r].pc = "relay" /\ req[r].peer # None
  BY DEF UpstreamInv, Relay, ReqOK, Holds
<1>3. k \in BOOLEAN
  BY Zenon
<1>4. CASE Finalize(r, c)
  <2> HIDE DEF k
  <2>1. Clean(c) /\ c.peer = req[r].peer /\ c.worker = req[r].worker
    BY <1>2, <1>3, DrainedOK
  <2> HIDE DEF c
  <2>2. QED
    BY <1>2, <1>4, <2>1, FinalizeStep
<1>5. CASE Finalize(r, req[r])
  BY <1>2, <1>5, FinalizeOwn
<1>6. QED
  BY <1>1, <1>4, <1>5

LEMMA ClientGoneStep ==
    ASSUME UpstreamInv, NEW r \in Reqs, ClientGone(r)
    PROVE  UpstreamInv'
<1>1. ReqOK(req[r]) /\ req[r].pc \in {"connecting", "sending", "waiting"}
  BY DEF UpstreamInv, ClientGone
<1>2. CASE Finalize(r, req[r])
  BY <1>1, <1>2, FinalizeOwn
<1>3. CASE Becomes(r, Leaves(req[r])) /\ UNCHANGED <<group, peer, cache, counts>>
  <2>1. ReqOK(Leaves(req[r])) /\ Leaves(req[r]).peer = req[r].peer
    BY <1>1, LeavesOK
  <2>2. starts' \in Nat /\ UNCHANGED <<group, peer, cache, deaths, leaked>>
    BY <1>3 DEF UpstreamInv, SharedOK, counts
  <2>3. QED
    BY <1>3, <2>1, <2>2, OwnStep
<1>4. \/ Finalize(r, req[r])
      \/ Becomes(r, Leaves(req[r])) /\ UNCHANGED <<group, peer, cache, counts>>
  BY Zenon DEF ClientGone, Leaves
<1>5. QED
  BY <1>2, <1>3, <1>4

\* The choice of a server leaves the weights of both lists balanced.
LEMMA PickBalanced ==
    ASSUME UpstreamInv, NEW l, NEW o, {l, o} = {group.primary, group.backup},
           ToSet(l) \cap ToSet(o) = {}, NEW E \in SUBSET ToSet(l), E # {}
    PROVE  LET g == [p \in Peers |-> Picked(l, E).peers[p].current]
           IN  SumFunctionOnSet(g, ToSet(l)) = 0 /\ SumFunctionOnSet(g, ToSet(o)) = 0
<1> DEFINE f == [p \in Peers |-> peer[p].current]
           e == [p \in Peers |-> peer[p].effective]
           m == [p \in Peers |-> f[p] + (IF p \in E THEN e[p] ELSE 0)]
           g == [p \in Peers |-> Picked(l, E).peers[p].current]
           best == Picked(l, E).best
           S == ToSet(l)
           O == ToSet(o)
<1>1. /\ PeersOK /\ l \in Seq(Peers) /\ S \subseteq Peers /\ O \subseteq Peers
      /\ SumFunctionOnSet(f, S) = 0 /\ SumFunctionOnSet(f, O) = 0
  <2>1. PeersOK /\ group \in Groups
    BY PeersFact
  <2>2. /\ group.primary \in Seq(Peers) /\ group.backup \in Seq(Peers)
        /\ ToSet(group.primary) \subseteq Peers /\ ToSet(group.backup) \subseteq Peers
    BY <2>1, GroupLists
  <2>3. /\ l \in {group.primary, group.backup} /\ o \in {group.primary, group.backup}
    OBVIOUS
  <2>4. \A x \in {group.primary, group.backup} : SumFunctionOnSet(f, ToSet(x)) = 0
    BY DEF UpstreamInv, WeightsBalanced
  <2> HIDE DEF f
  <2>5. QED
    BY <2>1, <2>2, <2>3, <2>4
<1>2. IsFiniteSet(S) /\ IsFiniteSet(O) /\ IsFiniteSet({}) /\ E \subseteq Peers
  BY <1>1, UpstreamAssumption, FS_Subset, FS_EmptySet
<1>3. \A p \in Peers : f[p] \in Int /\ e[p] \in Int /\ m[p] \in Int
  <2>1. ASSUME NEW p \in Peers PROVE f[p] \in Int /\ e[p] \in Int /\ m[p] \in Int
    <3>1. f[p] \in Int /\ e[p] \in Int
      BY <1>1, PeerRecord DEF PeersOK
    <3>2. m[p] = f[p] + (IF p \in E THEN e[p] ELSE 0)
      OBVIOUS
    <3> HIDE DEF f, e, m
    <3>3. QED
      BY <3>1, <3>2
  <2>2. QED
    BY <2>1
<1>4. /\ best \in E /\ Total(E) \in Int
      /\ \A p \in Peers : g[p] = m[p] - (IF p = best THEN Total(E) ELSE 0)
  <2>1. Total(E) \in Int
    BY <1>1, <1>2, RaisedOK
  <2>2. best \in E /\ \A p \in Peers : Picked(l, E).peers[p].current =
             peer[p].current + (IF p \in E THEN peer[p].effective ELSE 0)
                             - (IF p = best THEN Total(E) ELSE 0)
    BY <1>1, PickedOK
  <2>3. \A p \in Peers :
           /\ m[p] = peer[p].current + (IF p \in E THEN peer[p].effective ELSE 0)
           /\ g[p] = Picked(l, E).peers[p].current
    OBVIOUS
  <2> HIDE DEF m, g, best
  <2>4. ASSUME NEW p \in Peers
        PROVE  g[p] = m[p] - (IF p = best THEN Total(E) ELSE 0)
    <3>1. /\ g[p] = peer[p].current + (IF p \in E THEN peer[p].effective ELSE 0)
                                    - (IF p = best THEN Total(E) ELSE 0)
          /\ m[p] = peer[p].current + (IF p \in E THEN peer[p].effective ELSE 0)
      BY <2>2, <2>3, Zenon
    <3>2. peer[p].current \in Int /\ peer[p].effective \in Int
      BY <1>1, PeerRecord DEF PeersOK
    <3>3. QED
      BY <2>1, <3>1, <3>2
  <2>5. QED
    BY <2>1, <2>2, <2>4
<1>5. Total(E) = SumFunctionOnSet(e, E)
  BY DEF Total
<1>6. \A p \in Peers : m[p] = f[p] + (IF p \in E THEN e[p] ELSE 0)
  OBVIOUS
<1> HIDE DEF f, e, m, g, best, S, O
<1>7. SumFunctionOnSet(m, S) = Total(E)
  <2>1. /\ \A x \in S : f[x] \in Int /\ e[x] \in Int
        /\ \A x \in S : m[x] = f[x] + (IF x \in E THEN e[x] ELSE 0)
        /\ E \in SUBSET S
    BY <1>1, <1>3, <1>6 DEF S
  <2>2. SumFunctionOnSet(m, S) = SumFunctionOnSet(f, S) + SumFunctionOnSet(e, E)
    BY <1>2, <2>1, SumAdd
  <2>3. QED
    BY <1>1, <1>4, <1>5, <2>2
<1>8. SumFunctionOnSet(g, S) = 0
  <2>1. /\ best \in S /\ \A x \in S : m[x] \in Int /\ g[x] \in Int
        /\ \A x \in S \ {best} : g[x] = m[x]
        /\ g[best] - m[best] = 0 - Total(E)
    BY <1>1, <1>3, <1>4 DEF S
  <2>2. SumFunctionOnSet(g, S) = SumFunctionOnSet(m, S) + g[best] - m[best]
    BY <1>2, <2>1, SumChange
  <2>3. m[best] \in Int /\ g[best] \in Int
    BY <2>1
  <2>4. QED
    BY <1>4, <1>7, <2>1, <2>2, <2>3
<1>9. SumFunctionOnSet(g, O) = 0
  <2>1. /\ \A x \in O : f[x] \in Int /\ e[x] \in Int
        /\ \A x \in O : g[x] = f[x] + (IF x \in {} THEN e[x] ELSE 0)
        /\ {} \in SUBSET O
    <3>1. \A x \in O : x \in Peers /\ x \notin E
      BY <1>1 DEF O
    <3>2. QED
      BY <1>3, <1>4, <1>6, <3>1
  <2>2. SumFunctionOnSet(g, O) = SumFunctionOnSet(f, O) + SumFunctionOnSet(e, {})
    BY <1>2, <2>1, SumAdd
  <2>3. SumFunctionOnSet(e, {}) = 0
    BY <1>2, SumSplit
  <2>4. QED
    BY <1>1, <2>2, <2>3
<1>10. QED
  BY <1>8, <1>9 DEF g, S, O

\* The server that a request gets.
Choice(l, E) == IF Single THEN [best |-> group.primary[1], peers |-> peer] ELSE Picked(l, E)

\* It may be used, and only its weight and that of its rivals change.
LEMMA ChoiceOK ==
    ASSUME UpstreamInv, NEW tier \in {"primary", "backup"},
           NEW E \in SUBSET ToSet(group[tier]), E # {}
    PROVE  /\ Choice(group[tier], E).best \in E
           /\ Choice(group[tier], E).peers \in [Peers -> Peer]
           /\ \A p \in Peers :
                 /\ Choice(group[tier], E).peers[p].conns = peer[p].conns
                 /\ Choice(group[tier], E).peers[p].effective \in 0..Weight[p]
           /\ \A x \in {group.primary, group.backup} : SumFunctionOnSet(
                 [p \in Peers |-> Choice(group[tier], E).peers[p].current], ToSet(x)) = 0
<1> DEFINE l == group[tier]
           o == IF tier = "primary" THEN group.backup ELSE group.primary
<1>1. PeersOK /\ group \in Groups
  BY PeersFact
<1>2. /\ {l, o} = {group.primary, group.backup} /\ ToSet(l) \cap ToSet(o) = {}
      /\ l \in Seq(Peers) /\ group.primary \in Seq(Peers)
  <2>1. l = IF tier = "primary" THEN group.primary ELSE group.backup
    OBVIOUS
  <2> HIDE DEF l
  <2>2. QED
    BY <1>1, <2>1, GroupLists
<1>3. CASE Single
  <2>1. Choice(l, E) = [best |-> group.primary[1], peers |-> peer]
    BY <1>3 DEF Choice
  <2>2. tier = "primary" /\ l = group.primary
    <3>1. ToSet(<<>>) = {}
      BY DEF ToSet
    <3>2. group.backup = <<>>
      BY <1>3 DEF Single
    <3>3. QED
      BY <3>1, <3>2
  <2>3. ToSet(l) = {group.primary[1]}
    BY <1>2, <1>3, <2>2 DEF Single, ToSet
  <2>4. group.primary[1] \in E
    BY <2>3
  <2> HIDE DEF l
  <2>5. Choice(l, E).best = group.primary[1] /\ Choice(l, E).peers = peer
    BY <2>1
  <2>6. \A x \in {group.primary, group.backup} :
           SumFunctionOnSet([p \in Peers |-> peer[p].current], ToSet(x)) = 0
    BY DEF UpstreamInv, WeightsBalanced
  <2>7. QED
    BY <1>1, <2>4, <2>5, <2>6 DEF PeersOK, l
<1>4. CASE ~Single
  <2>1. Choice(l, E) = Picked(l, E)
    BY <1>4 DEF Choice
  <2>2. E \in SUBSET ToSet(l)
    OBVIOUS
  <2> HIDE DEF l, o
  <2>3. /\ Picked(l, E).best \in E
        /\ Picked(l, E).peers \in [Peers -> Peer]
        /\ \A p \in Peers :
              /\ Picked(l, E).peers[p].conns = peer[p].conns
              /\ Picked(l, E).peers[p].effective \in 0..Weight[p]
    BY <1>1, <1>2, <2>2, PickedOK
  <2> DEFINE g == [p \in Peers |-> Picked(l, E).peers[p].current]
  <2>4. SumFunctionOnSet(g, ToSet(l)) = 0 /\ SumFunctionOnSet(g, ToSet(o)) = 0
    BY <1>2, <2>2, PickBalanced
  <2> HIDE DEF g
  <2>5. \A x \in {group.primary, group.backup} : SumFunctionOnSet(g, ToSet(x)) = 0
    BY <1>2, <2>4
  <2>6. QED
    BY <2>1, <2>3, <2>5 DEF g, l
<1>5. QED
  BY <1>3, <1>4

\* A request gets a server, and the server a connection more.
LEMMA Taken ==
    ASSUME UpstreamInv, NEW r \in Reqs, req[r].peer = None, NEW d, ReqOK(d), Becomes(r, d),
           NEW best \in Peers, d.peer = best,
           MaxConns[best] = 0 \/ peer[best].conns < MaxConns[best],
           NEW f \in [Peers -> Peer],
           \A p \in Peers : f[p].conns = peer[p].conns /\ f[p].effective \in 0..Weight[p],
           \A x \in {group.primary, group.backup} :
              SumFunctionOnSet([p \in Peers |-> f[p].current], ToSet(x)) = 0,
           peer' = [f EXCEPT ![best].conns = @ + 1],
           cache' \in [Workers -> Seq(Kept)], UNCHANGED <<group, counts>>
    PROVE  UpstreamInv'
<1>1. \A p \in Peers :
         /\ peer[p].conns = Cardinality(Users(p)) + leaked[p]
         /\ MaxConns[p] > 0 => peer[p].conns <= MaxConns[p]
         /\ leaked[p] \in Nat /\ MaxConns[p] \in Nat
         /\ peer[p].conns \in Nat
  BY PeersFact
<1>2. /\ DOMAIN req' = Reqs /\ req' = [s \in Reqs |-> req'[s]]
      /\ \A s \in Reqs : ReqOK(req[s])'
      /\ \A p :
            /\ Cardinality(Users(p)) \in Nat
            /\ Cardinality(Users(p)') = Cardinality(Users(p))
                  + (IF d.peer = p THEN 1 ELSE 0) - (IF req[r].peer = p THEN 1 ELSE 0)
  BY OneRequest
<1> DEFINE b == Counts(f[best], f[best].conns + 1)
<1>3. /\ b \in Peer /\ b.conns = peer[best].conns + 1 /\ b.current = f[best].current
      /\ b.effective = f[best].effective
  <2>1. f[best] \in Peer /\ f[best].conns + 1 \in Nat /\ f[best].conns = peer[best].conns
    BY <1>1
  <2>2. QED
    BY <2>1, CountsOK
<1>4. peer' = [f EXCEPT ![best] = b]
  BY DEF Counts
<1> HIDE DEF b
<1>5. /\ peer' \in [Peers -> Peer]
      /\ \A p \in Peers :
            /\ peer'[p].conns = peer[p].conns + (IF p = best THEN 1 ELSE 0)
            /\ peer'[p].effective \in 0..Weight[p]
            /\ peer'[p].current = f[p].current
  <2>1. \A p \in Peers : peer'[p] = IF p = best THEN b ELSE f[p]
    BY <1>4
  <2>2. peer' \in [Peers -> Peer]
    BY <1>3, <1>4
  <2>3. QED
    BY <1>1, <1>3, <2>1, <2>2
<1>6. SharedOK'
  BY <1>2, <1>5 DEF UpstreamInv, SharedOK, counts
<1>7. ConnsExact'
  <2>1. ASSUME NEW p \in Peers
        PROVE  /\ peer'[p].conns = Cardinality(Users(p)') + leaked'[p]
               /\ MaxConns[p] > 0 => peer'[p].conns <= MaxConns[p]
    <3>1. leaked' = leaked /\ p # None
      BY UpstreamAssumption DEF counts
    <3>2. peer'[p].conns = peer[p].conns + (IF p = best THEN 1 ELSE 0)
      BY <1>5
    <3>3. Cardinality(Users(p)') = Cardinality(Users(p)) + (IF p = best THEN 1 ELSE 0)
      BY <1>2, <3>1
    <3>4. /\ Cardinality(Users(p)) \in Nat /\ leaked[p] \in Nat
          /\ peer[p].conns = Cardinality(Users(p)) + leaked[p]
      BY <1>1, <1>2
    <3>5. MaxConns[p] \in Nat /\ (MaxConns[p] > 0 => peer[p].conns <= MaxConns[p])
      BY <1>1
    <3>6. QED
      BY <3>1, <3>2, <3>3, <3>4, <3>5
  <2>2. QED
    BY <2>1 DEF ConnsExact, Users
<1>8. WeightsBalanced'
  <2>1. [p \in Peers |-> peer'[p].current] = [p \in Peers |-> f[p].current]
    BY <1>5
  <2>2. group' = group
    OBVIOUS
  <2>3. QED
    BY <1>5, <2>1, <2>2 DEF WeightsBalanced
<1>9. QED
  BY <1>2, <1>6, <1>7, <1>8 DEF UpstreamInv

LEMMA GetPeerStep ==
    ASSUME UpstreamInv, NEW r \in Reqs, GetPeer(r)
    PROVE  UpstreamInv'
<1> DEFINE c     == req[r]
           own   == Candidates(group[c.tier], c.tried)
           tier  == IF own = {} THEN "backup" ELSE c.tier
           tried == IF tier = c.tier THEN c.tried ELSE {}
           E     == Candidates(group[tier], tried)
           pick  == Choice(group[tier], E)
           best  == pick.best
           w     == c.worker
           kept  == {i \in DOMAIN cache[w] : cache[w][i].peer = best}
           b     == kept # {}
           T     == IF Single THEN {} ELSE tried \cup {best}
           k     == c.keepalive /\ ~c.sent
<1>1. /\ c.pc = "connect" /\ E # {}
      /\ peer' = [pick.peers EXCEPT ![best].conns = @ + 1]
      /\ UNCHANGED <<group, counts>>
      /\ kept = {} => Becomes(r, Gets(c, tier, best, b, T)) /\ UNCHANGED cache
  BY Zenon DEF GetPeer, Choice, Gets, Asks
<1>2. kept # {} =>
         /\ Becomes(r, [Asks(c, tier, best, b, T) EXCEPT
                           !.pc = "send", !.wire = cache[w][Min(kept)].wire,
                           !.sent = FALSE, !.bodysent = FALSE, !.keepalive = @ /\ ~c.sent])
         /\ cache' = [cache EXCEPT ![w] = RemoveAt(@, Min(kept))]
  BY Zenon DEF GetPeer, Choice, Asks
<1>3. /\ ReqOK(c) /\ c.worker \in Workers /\ c.peer = None /\ group \in Groups
      /\ cache \in [Workers -> Seq(Kept)]
  BY <1>1 DEF UpstreamInv, SharedOK, ReqOK, Holds
<1>4. tier \in {"primary", "backup"} /\ tried \in SUBSET Peers
  BY <1>3, ReqRecord DEF ReqOK, Typed
<1>5. /\ E \in SUBSET ToSet(group[tier])
      /\ \A p \in E : /\ p \notin Down
                      /\ MaxConns[p] = 0 \/ peer[p].conns < MaxConns[p]
  BY DEF Candidates
<1>6. b \in BOOLEAN /\ k \in BOOLEAN /\ (k => c.keepalive /\ ~c.sent)
  BY Zenon
<1> HIDE DEF E, tier, tried, own
<1>7. /\ best \in E /\ pick.peers \in [Peers -> Peer]
      /\ \A p \in Peers :
            /\ pick.peers[p].conns = peer[p].conns
            /\ pick.peers[p].effective \in 0..Weight[p]
      /\ \A x \in {group.primary, group.backup} :
            SumFunctionOnSet([p \in Peers |-> pick.peers[p].current], ToSet(x)) = 0
  BY <1>1, <1>4, <1>5, ChoiceOK
<1> HIDE DEF pick
<1>8. best \in Peers /\ Tries >= 1
  <2>1. best \in ToSet(group.primary) \cup ToSet(group.backup) /\ best \notin Down
    BY <1>4, <1>5, <1>7
  <2>2. QED
    BY <1>3, <2>1, GroupLists, TriesType
<1>9. T \in SUBSET Peers
  BY <1>4, <1>8
<1>10. MaxConns[best] = 0 \/ peer[best].conns < MaxConns[best]
  BY <1>5, <1>7
<1>11. CASE kept = {}
  <2> DEFINE d == Gets(c, tier, best, b, T)
  <2> HIDE DEF c, best, b, T
  <2>1. ReqOK(d) /\ d.peer = best
    BY <1>1, <1>3, <1>4, <1>6, <1>8, <1>9, GetsOK
  <2>2. Becomes(r, d) /\ cache' \in [Workers -> Seq(Kept)] /\ req[r].peer = None
    BY <1>1, <1>3, <1>11 DEF c
  <2> HIDE DEF d
  <2>3. QED
    BY <1>1, <1>7, <1>8, <1>10, <2>1, <2>2, Taken
<1>12. CASE kept # {}
  <2> DEFINE i == Min(kept)
             d == Reuses(c, tier, best, b, T, k)
  <2>1. i \in DOMAIN cache[w] /\ cache[w][i].wire = Silent
    <3>1. cache[w] \in Seq(Kept) /\ DOMAIN cache[w] \subseteq Nat
      BY <1>3
    <3>2. kept \in SUBSET Nat
      BY <3>1
    <3>3. i \in kept
      <4> HIDE DEF kept
      <4>1. QED
        BY <1>12, <3>2, MinOfNaturals
    <3> HIDE DEF i
    <3>4. i \in 1..Len(cache[w])
      BY <3>1, <3>3, LenProperties
    <3>5. cache[w][i] \in Kept
      BY <3>1, <3>4, ElementOfSeq
    <3>6. QED
      BY <3>3, <3>5 DEF Kept
  <2>2. Asks(c, tier, best, b, T).keepalive = c.keepalive
    <3>1. c = Fields(c)
      BY <1>3, ReqRecord DEF ReqOK
    <3> HIDE DEF c, best, b, T
    <3>2. QED
      BY <3>1 DEF Fields, Asks
  <2>3. Becomes(r, d)
    BY <1>2, <1>12, <2>1, <2>2 DEF Reuses
  <2>4. cache' \in [Workers -> Seq(Kept)]
    <3>1. cache[w] \in Seq(Kept)
      BY <1>3
    <3>2. RemoveAt(cache[w], i) \in Seq(Kept)
      BY <2>1, <3>1, RemoveOK
    <3>3. cache' = [cache EXCEPT ![w] = RemoveAt(cache[w], i)]
      BY <1>2, <1>12
    <3> HIDE DEF i
    <3>4. QED
      BY <1>3, <3>2, <3>3
  <2> HIDE DEF c, best, b, T, k
  <2>5. ReqOK(d) /\ d.peer = best
    BY <1>1, <1>3, <1>4, <1>6, <1>8, <1>9, ReusesOK
  <2>6. req[r].peer = None
    BY <1>3 DEF c
  <2> HIDE DEF d
  <2>7. QED
    BY <1>1, <1>7, <1>8, <1>10, <2>3, <2>4, <2>5, <2>6, Taken
<1>13. QED
  BY <1>11, <1>12

LEMMA PassStep ==
    ASSUME UpstreamInv, NEW q \in Peers, Pass(q)
    PROVE  UpstreamInv'
<1>1. PeersOK
  BY PeersFact
<1>2. peer' = [peer EXCEPT ![q] = Passes(peer[q])]
  BY DEF Pass, Passes
<1>3. peer[q] \in Peer /\ peer \in [Peers -> Peer]
  BY <1>1 DEF PeersOK
<1>4. /\ Passes(peer[q]) \in Peer /\ Passes(peer[q]).conns = peer[q].conns
      /\ Passes(peer[q]).current = peer[q].current
      /\ Passes(peer[q]).effective = peer[q].effective
  BY <1>3, PassesOK
<1>5. /\ peer' \in [Peers -> Peer]
      /\ \A p \in Peers :
            /\ peer'[p].conns = peer[p].conns
            /\ peer'[p].effective \in 0..Weight[p]
            /\ peer'[p].current = peer[p].current
  BY <1>1, <1>2, <1>3, <1>4 DEF PeersOK
<1>6. UNCHANGED <<group, cache, req, starts, deaths, leaked>>
  BY DEF Pass, counts
<1>7. SharedOK'
  BY <1>5, <1>6 DEF UpstreamInv, SharedOK
<1>8. ConnsExact'
  BY <1>5, <1>6 DEF UpstreamInv, ConnsExact
<1>9. WeightsBalanced'
  BY <1>5, <1>6, SameWeights
<1>10. \A s \in Reqs : ReqOK(req[s])'
  BY <1>6, SameGroup DEF UpstreamInv
<1>11. QED
  BY <1>6, <1>7, <1>8, <1>9, <1>10 DEF UpstreamInv

LEMMA CloseCachedStep ==
    ASSUME UpstreamInv, NEW w \in Workers, NEW i, CloseCached(w, i)
    PROVE  UpstreamInv'
<1>1. cache \in [Workers -> Seq(Kept)] /\ cache[w] \in Seq(Kept) /\ i \in DOMAIN cache[w]
  BY DEF UpstreamInv, SharedOK, CloseCached
<1>2. RemoveAt(cache[w], i) \in Seq(Kept)
  BY <1>1, RemoveOK
<1>3. cache' = [cache EXCEPT ![w] = RemoveAt(cache[w], i)]
  BY DEF CloseCached
<1>4. cache' \in [Workers -> Seq(Kept)]
  BY <1>1, <1>2, <1>3
<1>5. UNCHANGED <<group, peer, req, starts, deaths, leaked>>
  BY DEF CloseCached, counts
<1>6. SharedOK'
  BY <1>4, <1>5 DEF UpstreamInv, SharedOK
<1>7. ConnsExact' /\ WeightsBalanced'
  BY <1>5 DEF UpstreamInv, ConnsExact, WeightsBalanced
<1>8. \A s \in Reqs : ReqOK(req[s])'
  BY <1>5, SameGroup DEF UpstreamInv
<1>9. QED
  BY <1>5, <1>6, <1>7, <1>8 DEF UpstreamInv

\* A worker dies: its uses of the servers are not given back.
LEMMA KillStep ==
    ASSUME UpstreamInv, NEW w \in Workers, Kill(w)
    PROVE  UpstreamInv'
<1>1. /\ UNCHANGED <<group, peer, starts>> /\ deaths' = deaths + 1
      /\ leaked' = [p \in Peers |-> leaked[p] +
                      Cardinality({s \in Reqs : req[s].worker = w /\ req[s].peer = p})]
      /\ req' = [s \in Reqs |-> IF req[s].worker = w THEN Idle ELSE req[s]]
      /\ cache' = [cache EXCEPT ![w] = <<>>]
  BY DEF Kill
<1>2. ASSUME NEW p \in Peers
      PROVE  /\ leaked'[p] \in Nat
             /\ Cardinality(Users(p)') + leaked'[p] = Cardinality(Users(p)) + leaked[p]
  <2> DEFINE K == {s \in Reqs : req[s].worker = w /\ req[s].peer = p}
             U == Users(p)
  <2>1. Users(p)' = U \ K /\ U \cap K = K
    <3>1. Idle.peer # p
      BY IdleOK, UpstreamAssumption
    <3>2. \A s \in Reqs : req'[s] = IF req[s].worker = w THEN Idle ELSE req[s]
      BY <1>1
    <3>3. QED
      BY <3>1, <3>2 DEF Users
  <2>2. IsFiniteSet(U) /\ IsFiniteSet(K)
    <3>1. U \subseteq Reqs /\ K \subseteq Reqs
      BY DEF Users
    <3>2. QED
      BY <3>1, UpstreamAssumption, FS_Subset
  <2>3. leaked'[p] = leaked[p] + Cardinality(K) /\ leaked[p] \in Nat
    BY <1>1 DEF UpstreamInv, SharedOK
  <2> HIDE DEF K, U
  <2>4. /\ Cardinality(U \ K) = Cardinality(U) - Cardinality(U \cap K)
        /\ Cardinality(U) \in Nat /\ Cardinality(K) \in Nat
    BY <2>2, FS_Difference, FS_CardinalityType
  <2>5. Cardinality(Users(p)') = Cardinality(U) - Cardinality(K)
    BY <2>1, <2>4
  <2>6. QED
    BY <2>3, <2>4, <2>5 DEF U
<1>3. leaked' \in [Peers -> Nat]
  BY <1>1, <1>2
<1>4. cache' \in [Workers -> Seq(Kept)]
  BY <1>1 DEF UpstreamInv, SharedOK
<1>5. SharedOK'
  <2>1. DOMAIN req' = Reqs /\ UNCHANGED <<group, peer, starts>> /\ deaths' = deaths + 1
    BY <1>1
  <2>2. QED
    BY <1>3, <1>4, <2>1 DEF UpstreamInv, SharedOK
<1>6. ConnsExact'
  <2>1. \A p \in Peers :
           /\ peer[p].conns = Cardinality(Users(p)) + leaked[p]
           /\ MaxConns[p] > 0 => peer[p].conns <= MaxConns[p]
    BY PeersFact
  <2>2. QED
    BY <1>1, <1>2, <2>1 DEF ConnsExact, Users
<1>7. WeightsBalanced'
  BY <1>1 DEF UpstreamInv, WeightsBalanced
<1>8. ASSUME NEW s \in Reqs PROVE ReqOK(req[s])'
  <2>1. PICK x : x = req'[s]
    OBVIOUS
  <2>2. ReqOK(x)
    BY <1>1, <2>1, IdleOK DEF UpstreamInv
  <2>3. QED
    BY <1>1, <2>1, <2>2, SameGroup
<1>9. QED
  BY <1>1, <1>5, <1>6, <1>7, <1>8 DEF UpstreamInv

-----------------------------------------------------------------------------
(* The invariant and the theorems. *)

LEMMA UpstreamInit == Init => UpstreamInv
<1> SUFFICES ASSUME Init PROVE UpstreamInv
  OBVIOUS
<1> DEFINE new(p) == [conns |-> 0, fails |-> 0, current |-> 0, effective |-> Weight[p],
                      recent |-> FALSE, behind |-> FALSE]
<1>1. group \in Groups /\ IsFiniteSet(Reqs)
  BY UpstreamAssumption DEF Init
<1>2. \A p \in Peers : Weight[p] \in Nat
  BY UpstreamAssumption
<1>3. ASSUME NEW p \in Peers PROVE new(p) \in Peer
  <2>1. Weight[p] \in Int
    BY <1>2
  <2>2. QED
    BY <2>1 DEF Peer
<1>4. peer = [p \in Peers |-> new(p)]
  BY Zenon DEF Init
<1>5. peer \in [Peers -> Peer]
  BY <1>3, <1>4
<1>6. SharedOK
  <2>1. cache \in [Workers -> Seq(Kept)]
    BY DEF Init
  <2>2. QED
    BY <1>1, <1>5, <2>1 DEF Init, SharedOK
<1>7. req = [r \in Reqs |-> req[r]] /\ \A r \in Reqs : ReqOK(req[r]) /\ req[r].peer = None
  BY IdleOK DEF Init
<1>8. ConnsExact
  <2>1. \A p \in Peers : {r \in Reqs : req[r].peer = p} = {}
    BY <1>7, UpstreamAssumption
  <2>2. Cardinality({}) = 0
    BY FS_EmptySet
  <2>3. \A p \in Peers : peer[p].conns = 0 /\ leaked[p] = 0 /\ MaxConns[p] \in Nat
    BY <1>4, UpstreamAssumption DEF Init
  <2>4. \A p \in Peers : Cardinality({r \in Reqs : req[r].peer = p}) = 0
    BY <2>1, <2>2
  <2>5. QED
    BY <2>3, <2>4 DEF ConnsExact
<1>9. WeightsBalanced
  <2> DEFINE f == [p \in Peers |-> peer[p].current]
             e == [p \in Peers |-> peer[p].effective]
  <2>1. \A p \in Peers : f[p] = 0 /\ peer[p].effective = Weight[p]
    BY <1>4
  <2>2. ASSUME NEW S \in SUBSET Peers PROVE SumFunctionOnSet(f, S) = 0
    <3> DEFINE G == {T \in SUBSET S : SumFunctionOnSet(f, T) = 0}
    <3> HIDE DEF f
    <3>1. \A T \in SUBSET S : IsFiniteSet(T)
      BY UpstreamAssumption, FS_Subset
    <3>2. \A x \in S : f[x] \in Int /\ f[x] = 0
      BY <2>1
    <3>3. {} \in G
      <4>1. SumFunctionOnSet(f, {}) = 0
        BY <3>1, SumSplit
      <4>2. QED
        BY <4>1
    <3>4. ASSUME NEW T \in SUBSET S, T # {}, \A x \in T : T \ {x} \in G
          PROVE  T \in G
      <4>1. PICK x \in T : SumFunctionOnSet(f, T \ {x}) = 0
        BY <3>4
      <4>2. SumFunctionOnSet(f, T) = f[x] + SumFunctionOnSet(f, T \ {x})
        BY <3>1, <3>2, SumSplit
      <4>3. QED
        BY <3>2, <4>1, <4>2
    <3>5. S \in SUBSET S /\ IsFiniteSet(S)
      BY <3>1
    <3> HIDE DEF G
    <3>6. SUBSET S \subseteq G
      BY <3>3, <3>4, <3>5, SubsetInduction
    <3>7. QED
      BY <3>5, <3>6 DEF G
  <2>3. \A l \in {group.primary, group.backup} : SumFunctionOnSet(f, ToSet(l)) = 0
    <3> HIDE DEF f
    <3>1. QED
      BY <1>1, <2>2, GroupLists
  <2>4. \A p \in Peers : peer[p].effective \in 0..Weight[p]
    BY <1>2, <2>1
  <2>5. QED
    BY <2>3, <2>4 DEF WeightsBalanced
<1>10. QED
  BY <1>6, <1>7, <1>8, <1>9 DEF UpstreamInv

LEMMA UpstreamStep == UpstreamInv /\ [Next]_vars => UpstreamInv'
<1> SUFFICES ASSUME UpstreamInv, [Next]_vars PROVE UpstreamInv'
  OBVIOUS
<1>1. ASSUME NEW r \in Reqs, Handle(r) PROVE UpstreamInv'
  <2>1. CASE NoLive(r)
    BY <2>1, FinalizeOwn DEF NoLive
  <2>2. CASE GetPeer(r)
    BY <2>2, GetPeerStep
  <2>3. CASE NoSocket(r)
    BY <2>3, FinalizeOwn DEF NoSocket
  <2>4. CASE Refused(r)
    BY <2>4, NextOwn DEF Refused
  <2>5. CASE Connect(r)
    BY <2>5, ConnectStep
  <2>6. CASE ConnectFails(r)
    BY <2>6, NextOwn DEF ConnectFails
  <2>7. CASE Send(r)
    BY <2>7, SendStep
  <2>8. CASE Timeout(r)
    BY <2>8, NextOwn DEF Timeout
  <2>9. CASE BadHeader(r)
    BY <2>9, NextOwn DEF BadHeader
  <2>10. CASE Header(r)
    BY <2>10, HeaderStep
  <2>11. CASE Relay(r)
    BY <2>11, RelayStep
  <2>12. CASE Cleanup(r)
    BY <2>12, FinalizeOwn DEF Cleanup
  <2>13. QED
    BY <1>1, <2>1, <2>2, <2>3, <2>4, <2>5, <2>6, <2>7, <2>8, <2>9, <2>10, <2>11, <2>12
       DEF Handle
<1>2. ASSUME NEW r \in Reqs, Start(r) PROVE UpstreamInv'
  BY <1>2, StartStep
<1>3. ASSUME NEW r \in Reqs, ClientGone(r) PROVE UpstreamInv'
  BY <1>3, ClientGoneStep
<1>4. ASSUME NEW p \in Peers, Pass(p) PROVE UpstreamInv'
  BY <1>4, PassStep
<1>5. ASSUME NEW w \in Workers, Kill(w) PROVE UpstreamInv'
  BY <1>5, KillStep
<1>6. ASSUME NEW w \in Workers, NEW i \in 1..MaxCached, CloseCached(w, i) PROVE UpstreamInv'
  BY <1>6, CloseCachedStep
<1>7. CASE UNCHANGED vars
  <2>1. UNCHANGED <<group, peer, cache, req, starts, deaths, leaked>>
    BY <1>7 DEF vars
  <2>2. \A s \in Reqs : ReqOK(req[s])'
    BY <2>1, SameGroup DEF UpstreamInv
  <2>3. SharedOK' /\ ConnsExact' /\ WeightsBalanced'
    BY <2>1 DEF UpstreamInv, SharedOK, ConnsExact, WeightsBalanced
  <2>4. QED
    BY <2>1, <2>2, <2>3 DEF UpstreamInv
<1>8. QED
  BY <1>1, <1>2, <1>3, <1>4, <1>5, <1>6, <1>7 DEF Next

LEMMA UpstreamInvariant == Spec => []UpstreamInv
  BY UpstreamInit, UpstreamStep, PTL DEF Spec

\* Every variable has its type, in every behaviour of the upstream modules.
THEOREM UpstreamTypeCorrect == Spec => []TypeOK
<1>1. UpstreamInv => TypeOK
  <2> SUFFICES ASSUME UpstreamInv PROVE TypeOK
    OBVIOUS
  <2>1. SharedOK /\ \A r \in Reqs : req[r] \in Req
    BY DEF UpstreamInv, ReqOK
  <2>2. req \in [Reqs -> Req]
    BY <2>1 DEF UpstreamInv
  <2>3. ASSUME NEW w \in Workers, NEW i \in DOMAIN cache[w]
        PROVE  cache[w][i] \in [peer : Peers, wire : Wire]
    <3>1. cache[w] \in Seq(Kept)
      BY <2>1 DEF SharedOK
    <3>2. cache[w][i] \in Kept
      BY <3>1, ElementOfSeq, LenProperties
    <3>3. QED
      BY <3>2, SilentWire DEF Kept
  <2>4. QED
    BY <2>1, <2>2, <2>3 DEF SharedOK, TypeOK
<1>2. QED
  BY <1>1, UpstreamInvariant, PTL

\* The connection counts of the balancer are exact: each is the number of requests
\* that use the server and of the uses that died with a worker, through refusals,
\* retries, kept connections, the backup list and ends of every kind; max_conns is
\* never exceeded.
THEOREM ConnsExactHolds == Spec => []ConnsExact
<1>1. UpstreamInv => ConnsExact
  BY DEF UpstreamInv
<1>2. QED
  BY <1>1, UpstreamInvariant, PTL

\* A connection that the keepalive module keeps is silent, so the request that gets
\* it reads its own answer.
THEOREM CleanReuseHolds == Spec => []CleanReuse
<1>1. UpstreamInv => CleanReuse
  <2> SUFFICES ASSUME UpstreamInv PROVE CleanReuse
    OBVIOUS
  <2>1. ASSUME NEW w \in Workers, NEW i \in DOMAIN cache[w]
        PROVE  cache[w][i].wire = Silent
    <3>1. cache[w] \in Seq(Kept)
      BY DEF UpstreamInv, SharedOK
    <3>2. cache[w][i] \in Kept
      BY <3>1, ElementOfSeq, LenProperties
    <3>3. QED
      BY <3>2 DEF Kept
  <2>2. \A r \in Reqs : req[r].pc = "send" => req[r].wire = Silent
    BY DEF UpstreamInv, ReqOK, WireOK
  <2>3. QED
    BY <2>1, <2>2 DEF CleanReuse
<1>2. QED
  BY <1>1, UpstreamInvariant, PTL

\* A request that must not be repeated reaches at most one server.
THEOREM SentOnceHolds == Spec => []SentOnce
<1>1. UpstreamInv => SentOnce
  <2> SUFFICES ASSUME UpstreamInv PROVE SentOnce
    OBVIOUS
  <2>1. ASSUME NEW r \in Reqs, NoRepeat(req[r]) PROVE req[r].hits <= 1
    <3>1. req[r].hits \in 0..2 /\ req[r].hits <= IF req[r].sent THEN 1 ELSE 0
      BY <2>1, ReqRecord DEF UpstreamInv, ReqOK, OnceOK, Typed
    <3>2. QED
      BY <3>1
  <2>2. QED
    BY <2>1 DEF SentOnce, NoRepeat
<1>2. QED
  BY <1>1, UpstreamInvariant, PTL

\* A request fails fewer times than it has tries, whatever kept connections turn
\* out to be closed.
THEOREM RetryBoundHolds == Spec => []RetryBound
<1>1. UpstreamInv => RetryBound
  <2> SUFFICES ASSUME UpstreamInv, NEW r \in Reqs PROVE req[r].failed < Max({1, Tries})
    BY DEF RetryBound
  <2>1. Tries \in Nat /\ 1 \in Int /\ Tries \in Int
    BY TriesType DEF UpstreamInv, SharedOK
  <2>2. Max({1, Tries}) = IF 1 >= Tries THEN 1 ELSE Tries
    BY <2>1, MinMaxPair
  <2>3. /\ RetryOK(req[r]) /\ req[r].failed \in Nat /\ req[r].tries \in Nat
    BY ReqRecord DEF UpstreamInv, ReqOK, Typed
  <2>4. CASE req[r].pc \in {"idle", "relay"}
    BY <2>1, <2>2, <2>3, <2>4 DEF RetryOK
  <2>5. CASE req[r].pc \notin {"idle", "relay"}
    BY <2>1, <2>2, <2>3, <2>5 DEF RetryOK
  <2>6. QED
    BY <2>4, <2>5
<1>2. QED
  BY <1>1, UpstreamInvariant, PTL

\* The current weights of each list add up to zero after every choice, and the
\* effective weights stay between zero and the configured ones.
THEOREM WeightsBalancedHolds == Spec => []WeightsBalanced
<1>1. UpstreamInv => WeightsBalanced
  BY DEF UpstreamInv
<1>2. QED
  BY <1>1, UpstreamInvariant, PTL

=============================================================================
