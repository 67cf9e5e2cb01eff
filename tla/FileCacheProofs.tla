--------------------------- MODULE FileCacheProofs ---------------------------
(***************************************************************************)
(* The reference counts and the marks of the disk cache, for any keys,     *)
(* nodes and requests.  The invariant CacheInv adds to CountExact and      *)
(* UpdatingOwned what a request and a deleter have at each point between   *)
(* two sections under the mutex (ReqInv), and that the queue holds the     *)
(* allocated nodes, each once (NodeInv).  The lemmas say what each kind of *)
(* step does to it: a step that moves no reference, one by which a request *)
(* gets or gives back a node, the deletion of a node, and a death; every   *)
(* action is one of these.                                                 *)
(***************************************************************************)
EXTENDS FileCache, Counting, SequenceTheorems

\* A node and a request are records with the fields of Node and of Req.
NodeFields(f) ==
    [key |-> f.key, count |-> f.count, uses |-> f.uses, exists |-> f.exists,
     error |-> f.error, valid |-> f.valid, updating |-> f.updating, lock |-> f.lock,
     aged |-> f.aged, deleting |-> f.deleting, size |-> f.size]

ReqFields(c) ==
    [pc |-> c.pc, key |-> c.key, main |-> c.main, node |-> c.node, for |-> c.for,
     cacheable |-> c.cacheable, error |-> c.error, updating |-> c.updating,
     lock |-> c.lock, waited |-> c.waited, read |-> c.read, same |-> c.same,
     parent |-> c.parent]

\* What a request has, by where it is: no node when it has none to look at, a
\* key, and the mark only once it is past the lookup it made for the file.
ReqOK(c) ==
    /\ c = ReqFields(c)
    /\ c.node \in Nodes \cup {None}
    /\ c.pc \in {"idle", "forced", "alloc"} => c.node = None
    /\ c.pc \in {"open", "read", "check", "lock", "wait", "store", "renamed", "unrenamed"}
          => c.node # None
    /\ c.pc # "idle" => c.key # None
    /\ c.updating => \/ c.pc \in {"fetch", "store", "renamed", "unrenamed", "serve"}
                     \/ c.pc \in {"lookup", "forced", "alloc"} /\ c.for = "store"

\* Who deletes has a node, and a request deletes only while it makes room.
DelOK(d) ==
    /\ del[d] \in [pc : {"no", "unlink", "relock"}, node : Nodes \cup {None}]
    /\ del[d].pc = "no" <=> del[d].node = None
    /\ d \in Reqs /\ del[d].pc # "no" => req[d].pc = "forced"

ReqInv ==
    /\ req = [r \in Reqs |-> req[r]] /\ \A r \in Reqs : ReqOK(req[r])
    /\ del = [d \in Deleters |-> del[d]] /\ \A d \in Deleters : DelOK(d)

\* The queue q holds the nodes of S, each once.
QueueOf(q, S) == Once(q, Nodes, S)

Allocated == {n \in Nodes : node[n].key # None}

NodeInv ==
    /\ node = [n \in Nodes |-> node[n]]
    /\ \A n \in Nodes : node[n] = NodeFields(node[n]) /\ node[n].count \in Nat
    /\ dead \in [Nodes -> Nat]
    /\ QueueOf(queue, Allocated)

\* The inductive invariant.
CacheInv == ReqInv /\ NodeInv /\ CountExact /\ UpdatingOwned

-----------------------------------------------------------------------------
(* The queue. *)

\* ngx_queue_remove() takes the node, and no other one, out of the queue.
LEMMA WithoutOf ==
    ASSUME NEW q, NEW S, QueueOf(q, S), NEW n
    PROVE  QueueOf(Without(q, n), S \ {n})
  BY TakenOut DEF QueueOf, Without

\* A node that is put at the head.
LEMMA HeadOf ==
    ASSUME NEW q, NEW S, QueueOf(q, S), NEW n \in Nodes, n \notin S
    PROVE  QueueOf(<<n>> \o q, S \cup {n})
  BY PutAtHead DEF QueueOf

\* Using a node moves it to the head.
LEMMA TouchedOf ==
    ASSUME NEW S, QueueOf(queue, S), NEW n \in Nodes
    PROVE  QueueOf(Touched(n), S \cup {n})
<1>1. QueueOf(Without(queue, n), S \ {n})
  BY WithoutOf
<1>2. QueueOf(<<n>> \o Without(queue, n), (S \ {n}) \cup {n})
  BY <1>1, HeadOf
<1>3. (S \ {n}) \cup {n} = S \cup {n}
  OBVIOUS
<1>4. QED
  BY <1>2, <1>3, Zenon DEF Touched

\* The end of a sequence.
LEMMA EndOf ==
    ASSUME NEW S, NEW s \in Seq(S), NEW i \in 0..Len(s)
    PROVE  /\ SubSeq(s, i + 1, Len(s)) \in Seq(S)
           /\ Len(SubSeq(s, i + 1, Len(s))) = Len(s) - i
           /\ \A j \in 1..(Len(s) - i) : SubSeq(s, i + 1, Len(s))[j] = s[i + j]
<1>1. Len(s) \in Nat /\ \A j \in 1..Len(s) : s[j] \in S
  BY LenProperties, ElementOfSeq
<1>2. QED
  BY <1>1, SubSeqProperties

\* The forced expiry turns the queue round.
LEMMA TurnedOf ==
    ASSUME NEW q, NEW S, QueueOf(q, S), NEW i \in 0..Len(q)
    PROVE  QueueOf(SubSeq(q, i + 1, Len(q)) \o SubSeq(q, 1, i), S)
<1> DEFINE L == Len(q)
           a == SubSeq(q, i + 1, L)
           b == SubSeq(q, 1, i)
           w == a \o b
<1>1. /\ q \in Seq(Nodes) /\ L \in Nat /\ DOMAIN q = 1..L
      /\ \A j \in 1..L : q[j] \in Nodes
  BY LenProperties, ElementOfSeq DEF QueueOf, Once
<1>2. /\ b \in Seq(Nodes) /\ Len(b) = i
      /\ \A j \in 1..i : b[j] = q[j]
  BY <1>1, SubSeqProperties
<1>3. /\ a \in Seq(Nodes) /\ Len(a) = L - i
      /\ \A j \in 1..(L - i) : a[j] = q[i + j]
  BY <1>1, EndOf
<1> HIDE DEF a, b
<1>4. /\ w \in Seq(Nodes) /\ Len(w) = L
      /\ \A j \in 1..L : w[j] = IF j <= L - i THEN a[j] ELSE b[j - (L - i)]
  <2>1. /\ w \in Seq(Nodes) /\ Len(w) = Len(a) + Len(b)
        /\ \A j \in 1..(Len(a) + Len(b)) :
              w[j] = IF j <= Len(a) THEN a[j] ELSE b[j - Len(a)]
    BY <1>2, <1>3, ConcatProperties
  <2>2. Len(a) + Len(b) = L
    BY <1>1, <1>2, <1>3
  <2>3. QED
    BY <1>3, <2>1, <2>2
<1>5. DOMAIN w = 1..L
  BY <1>4, LenProperties
<1> HIDE DEF w
\* Where each position comes from, and goes to.
<1> DEFINE from(j) == IF j <= L - i THEN i + j ELSE j - (L - i)
<1>6. \A j \in 1..L : from(j) \in 1..L /\ w[j] = q[from(j)]
  <2>1. ASSUME NEW j \in 1..L, j <= L - i PROVE i + j \in 1..L /\ w[j] = q[i + j]
    <3>1. j \in 1..(L - i) /\ i + j \in 1..L
      BY <1>1, <2>1
    <3>2. QED
      BY <1>3, <1>4, <2>1, <3>1
  <2>2. ASSUME NEW j \in 1..L, ~(j <= L - i)
        PROVE  j - (L - i) \in 1..L /\ w[j] = q[j - (L - i)]
    <3>1. j - (L - i) \in 1..i /\ j - (L - i) \in 1..L
      BY <1>1, <2>2
    <3>2. w[j] = b[j - (L - i)]
      BY <1>4, <2>2
    <3>3. QED
      BY <1>2, <3>1, <3>2
  <2>3. QED
    BY <2>1, <2>2
<1>7. \A x \in 1..L : \E j \in 1..L : from(j) = x
  <2>1. ASSUME NEW x \in 1..L, x > i PROVE x - i \in 1..L /\ from(x - i) = x
    BY <1>1, <2>1
  <2>2. ASSUME NEW x \in 1..L, ~(x > i)
        PROVE  x + (L - i) \in 1..L /\ from(x + (L - i)) = x
    BY <1>1, <2>2
  <2>3. QED
    BY <2>1, <2>2
<1>8. IsInjective(w)
  <2>1. SUFFICES ASSUME NEW j \in 1..L, NEW k \in 1..L, w[j] = w[k] PROVE j = k
    BY <1>5 DEF IsInjective
  <2>2. from(j) = from(k)
    <3>1. from(j) \in 1..L /\ from(k) \in 1..L /\ q[from(j)] = q[from(k)]
      BY <1>6, <2>1
    <3> HIDE DEF from
    <3>2. QED
      BY <1>1, <3>1 DEF QueueOf, Once, IsInjective
  <2>3. QED
    BY <1>1, <2>2
<1>9. ToSet(w) = ToSet(q)
  <2>1. ToSet(w) = {w[j] : j \in 1..L} /\ ToSet(q) = {q[j] : j \in 1..L}
    BY <1>1, <1>5 DEF ToSet
  <2> HIDE DEF from
  <2>2. \A j \in 1..L : \E x \in 1..L : w[j] = q[x]
    BY <1>6
  <2>3. \A x \in 1..L : \E j \in 1..L : w[j] = q[x]
    BY <1>6, <1>7
  <2>4. QED
    BY <2>1, <2>2, <2>3
<1>10. QED
  BY <1>4, <1>8, <1>9 DEF QueueOf, Once, w, a, b

\* The queue of a zone that was loaded, and the empty one.
LEMMA QueueInit ==
    ASSUME NEW S \in SUBSET Nodes
    PROVE  QueueOf(SetToSeq(S), S) /\ QueueOf(<<>>, {})
<1>1. IsFiniteSet(S)
  BY CacheAssumption, FS_Subset
<1>2. Cardinality(S) \in Nat /\ \E f : f \in Bijection(1..Cardinality(S), S)
  <2>1. Cardinality(S) \in Nat /\ ExistsBijection(1..Cardinality(S), S)
    BY <1>1, FS_CardinalityType, FS_NatBijection
  <2>2. QED
    BY <2>1 DEF ExistsBijection
<1>3. PICK f : f \in Bijection(1..Cardinality(S), S)
  BY <1>2
<1>4. f \in [1..Cardinality(S) -> S] /\ IsInjective(f)
  BY <1>3 DEF Bijection, Injection
<1>5. SetToSeq(S) \in [1..Cardinality(S) -> S] /\ IsInjective(SetToSeq(S))
  BY <1>4 DEF SetToSeq
<1> DEFINE s == SetToSeq(S)
           D == 1..Cardinality(S)
<1> HIDE DEF s
<1>6. \A m \in S : \E i \in D : s[i] = m
  <2>1. s \in Injection(D, S)
    BY <1>5 DEF Injection, s
  <2>2. IsFiniteSet(D) /\ Cardinality(D) = Cardinality(S)
    BY <1>2, FS_Interval
  <2>3. s \in Surjection(D, S)
    BY <1>1, <2>1, <2>2, FS_SameCardinalityBij, FS_Injection DEF Bijection
  <2>4. QED
    BY <2>3 DEF Surjection
<1>7. s \in Seq(Nodes)
  BY <1>2, <1>5 DEF s
<1>8. ToSet(s) = S
  BY <1>5, <1>6 DEF ToSet, s
<1>9. QueueOf(s, S)
  BY <1>5, <1>7, <1>8 DEF QueueOf, Once, s
<1>10. QueueOf(<<>>, {})
  BY DEF QueueOf, Once, IsInjective, ToSet
<1>11. QED
  BY <1>9, <1>10 DEF s

-----------------------------------------------------------------------------
(* The updates of a request. *)

\* What the invariants say of a request, but where it is.
SameCore(d, c) ==
    /\ d.node = c.node /\ d.key = c.key /\ d.main = c.main /\ d.for = c.for
    /\ d.updating = c.updating /\ d.lock = c.lock

LEMMA TrimmedIs ==
    ASSUME NEW c, c = ReqFields(c)
    PROVE  /\ Trimmed(c) = ReqFields(Trimmed(c)) /\ Trimmed(c).pc = c.pc
           /\ SameCore(Trimmed(c), c)
<1>1. CASE c.pc \notin {"fetch", "store", "serve"}
  BY <1>1 DEF Trimmed, SameCore
<1>2. CASE c.pc \in {"fetch", "store", "serve"}
  <2>1. PICK d : d = Trimmed(c)
    OBVIOUS
  <2>2. PICK x, y, z, w :
           d = [c EXCEPT !.waited = x, !.read = y, !.same = z, !.cacheable = w]
    BY <1>2, <2>1, Zenon DEF Trimmed
  <2>3. d = ReqFields(d) /\ d.pc = c.pc /\ SameCore(d, c)
    BY <2>2 DEF ReqFields, SameCore
  <2>4. QED
    BY <2>1, <2>3, Zenon
<1>3. QED
  BY <1>1, <1>2

-----------------------------------------------------------------------------
(* References. *)

\* The requests and the deleters of a node, when one of them moves.
LEMMA UsersMove ==
    ASSUME NEW r \in Reqs, \A s \in Reqs \ {r} : req'[s].node = req[s].node, NEW n
    PROVE  /\ Cardinality(Users(n)) \in Nat
           /\ Cardinality(Users(n)') = Cardinality(Users(n))
                                         + (IF req'[r].node = n THEN 1 ELSE 0)
                                         - (IF req[r].node = n THEN 1 ELSE 0)
<1> DEFINE A == Users(n)'
           B == Users(n)
<1>1. IsFiniteSet(B) /\ A \ {r} = B \ {r}
  BY CacheAssumption, FS_Subset DEF Users
<1>2. (r \in A <=> req'[r].node = n) /\ (r \in B <=> req[r].node = n)
  BY DEF Users
<1> HIDE DEF A, B
<1>3. /\ Cardinality(B) \in Nat
      /\ Cardinality(A) = Cardinality(B) + (IF r \in B THEN 0 ELSE 1)
                                         - (IF r \in A THEN 0 ELSE 1)
  BY <1>1, CountMove
<1>4. QED
  BY <1>2, <1>3 DEF A, B

LEMMA DeletersMove ==
    ASSUME NEW e \in Deleters, \A d \in Deleters \ {e} : del'[d].node = del[d].node, NEW n
    PROVE  /\ Cardinality(DeletedBy(n)) \in Nat
           /\ Cardinality(DeletedBy(n)') = Cardinality(DeletedBy(n))
                                             + (IF del'[e].node = n THEN 1 ELSE 0)
                                             - (IF del[e].node = n THEN 1 ELSE 0)
<1> DEFINE A == DeletedBy(n)'
           B == DeletedBy(n)
<1>1. IsFiniteSet(B) /\ A \ {e} = B \ {e}
  <2>1. IsFiniteSet(Deleters)
    BY CacheAssumption, FS_AddElement DEF Deleters
  <2>2. QED
    BY <2>1, FS_Subset DEF DeletedBy
<1>2. (e \in A <=> del'[e].node = n) /\ (e \in B <=> del[e].node = n)
  BY DEF DeletedBy
<1> HIDE DEF A, B
<1>3. /\ Cardinality(B) \in Nat
      /\ Cardinality(A) = Cardinality(B) + (IF e \in B THEN 0 ELSE 1)
                                         - (IF e \in A THEN 0 ELSE 1)
  BY <1>1, CountMove
<1>4. QED
  BY <1>2, <1>3 DEF A, B

\* The references of a node are natural numbers, and who has a node keeps it
\* allocated.
LEMMA RefsAre ==
    ASSUME CacheInv, NEW n \in Nodes
    PROVE  /\ Cardinality(Users(n)) \in Nat /\ Cardinality(DeletedBy(n)) \in Nat
           /\ dead[n] \in Nat
           /\ Users(n) # {} => Cardinality(Users(n)) >= 1
           /\ DeletedBy(n) # {} => Cardinality(DeletedBy(n)) >= 1
           /\ Users(n) \cup DeletedBy(n) # {} => node[n].count >= 1 /\ node[n].key # None
<1>1. IsFiniteSet(Users(n)) /\ IsFiniteSet(DeletedBy(n))
  <2>1. IsFiniteSet(Deleters)
    BY CacheAssumption, FS_AddElement DEF Deleters
  <2>2. QED
    BY <2>1, CacheAssumption, FS_Subset DEF Users, DeletedBy
<1>2. /\ Cardinality(Users(n)) \in Nat /\ Cardinality(DeletedBy(n)) \in Nat
      /\ Users(n) # {} => Cardinality(Users(n)) >= 1
      /\ DeletedBy(n) # {} => Cardinality(DeletedBy(n)) >= 1
  BY <1>1, FS_CardinalityType, FS_EmptySet
<1>3. dead[n] \in Nat
  BY DEF CacheInv, NodeInv
<1>4. node[n].count = Cardinality(Users(n)) + Cardinality(DeletedBy(n)) + dead[n]
  BY DEF CacheInv, CountExact
<1>5. ASSUME Users(n) \cup DeletedBy(n) # {} PROVE node[n].count >= 1
  BY <1>2, <1>3, <1>4, <1>5
<1>6. ASSUME node[n].key = None PROVE node[n].count = 0
  BY <1>6 DEF CacheInv, CountExact, FreeNode
<1>7. QED
  BY <1>2, <1>3, <1>5, <1>6

\* The queue holds the allocated nodes: the last part of CountExact.
LEMMA Queued ==
    ASSUME NEW q, NEW S, QueueOf(q, S)
    PROVE  \A n : n \in S <=> Contains(q, n)
<1>1. DOMAIN q = 1..Len(q) /\ ToSet(q) = S
  BY LenProperties DEF QueueOf, Once
<1>2. QED
  BY <1>1 DEF ToSet, Contains

\* A step that moves no reference: what it may do to the nodes and the requests.
LEMMA QuietStep ==
    ASSUME CacheInv, ReqInv',
           \A s \in Reqs : req'[s].node = req[s].node,
           \A s \in Reqs : req[s].updating /\ req[s].node # None =>
                              req'[s].updating /\ req'[s].lock = req[s].lock,
           \A d \in Deleters : del'[d].node = del[d].node,
           dead' = dead,
           node' = [n \in Nodes |-> node'[n]],
           \A n \in Nodes :
              /\ node'[n] = NodeFields(node'[n]) /\ node'[n].count = node[n].count
              /\ node'[n].key = node[n].key /\ node'[n].deleting = node[n].deleting
              /\ node[n].key = None => node'[n] = node[n],
           \A n \in Nodes : node'[n].updating =>
              \/ node[n].updating /\ node'[n].lock = node[n].lock
              \/ \E s \in Reqs : req'[s].node = n /\ req'[s].updating
                                 /\ req'[s].lock = node'[n].lock,
           QueueOf(queue', Allocated)
    PROVE  CacheInv'
<1>1. \A n : Users(n)' = Users(n) /\ DeletedBy(n)' = DeletedBy(n)
  BY DEF Users, DeletedBy
<1>2. Allocated' = Allocated
  BY DEF Allocated
<1>3. NodeInv'
  BY <1>2 DEF CacheInv, NodeInv
<1>4. CountExact'
  <2>1. \A n \in Nodes : node'[n].key # None <=> Contains(queue', n)
    <3>1. \A n : n \in Allocated <=> Contains(queue', n)
      BY Queued
    <3>2. QED
      BY <1>2, <3>1 DEF Allocated
  <2>2. ASSUME NEW n \in Nodes
        PROVE  /\ node'[n].count =
                     Cardinality(Users(n)') + Cardinality(DeletedBy(n)') + dead'[n]
               /\ node'[n].deleting => DeletedBy(n)' # {} \/ dead'[n] > 0
               /\ node'[n].key = None => node'[n] = FreeNode
    BY <1>1 DEF CacheInv, CountExact
  <2>3. QED
    BY <2>1, <2>2 DEF CountExact
<1>5. UpdatingOwned'
  <2>1. SUFFICES ASSUME NEW n \in Nodes, node'[n].updating
                 PROVE  \/ \E s \in Users(n)' : req'[s].updating /\ req'[s].lock = node'[n].lock
                        \/ dead'[n] > 0
    BY DEF UpdatingOwned
  <2>2. CASE node[n].updating /\ node'[n].lock = node[n].lock
    <3>1. \/ \E s \in Users(n) : req[s].updating /\ req[s].lock = node[n].lock
          \/ dead[n] > 0
      BY <2>2 DEF CacheInv, UpdatingOwned
    <3>2. ASSUME NEW s \in Users(n), req[s].updating, req[s].lock = node[n].lock
          PROVE  s \in Users(n)' /\ req'[s].updating /\ req'[s].lock = node'[n].lock
      <4>1. s \in Reqs /\ req[s].node = n /\ n # None
        BY CacheAssumption DEF Users
      <4>2. QED
        BY <2>2, <3>2, <4>1, <1>1
    <3>3. QED
      BY <3>1, <3>2
  <2>3. CASE \E s \in Reqs : req'[s].node = n /\ req'[s].updating
                             /\ req'[s].lock = node'[n].lock
    BY <2>3 DEF Users
  <2>4. QED
    BY <2>1, <2>2, <2>3
<1>6. QED
  BY <1>3, <1>4, <1>5 DEF CacheInv

\* A request comes to node n, which it finds or allocates.
LEMMA GainStep ==
    ASSUME CacheInv, ReqInv', NEW r \in Reqs, NEW n \in Nodes,
           req[r].node = None, req'[r].node = n,
           \A s \in Reqs \ {r} : req'[s] = req[s],
           del' = del, dead' = dead,
           node' = [m \in Nodes |-> node'[m]],
           \A m \in Nodes \ {n} : node'[m] = node[m],
           node'[n] = NodeFields(node'[n]), node'[n].key # None,
           node'[n].count = node[n].count + 1,
           node'[n].deleting => node[n].deleting,
           node'[n].updating => node[n].updating /\ node'[n].lock = node[n].lock,
           queue' = Touched(n)
    PROVE  CacheInv'
<1>1. Allocated' = Allocated \cup {n}
  BY DEF Allocated
<1>2. QueueOf(queue', Allocated \cup {n})
  BY TouchedOf DEF CacheInv, NodeInv
<1>3. NodeInv'
  BY <1>1, <1>2 DEF CacheInv, NodeInv
<1>4. \A m : DeletedBy(m)' = DeletedBy(m)
  BY DEF DeletedBy
<1>5. \A m \in Nodes : Users(m)' = IF m = n THEN Users(m) \cup {r} ELSE Users(m)
  BY CacheAssumption DEF Users
<1>6. CountExact'
  <2>1. \A m \in Nodes : node'[m].key # None <=> Contains(queue', m)
    <3>1. \A m : m \in Allocated \cup {n} <=> Contains(queue', m)
      BY <1>2, Queued
    <3>2. QED
      BY <1>1, <3>1 DEF Allocated
  <2>2. ASSUME NEW m \in Nodes
        PROVE  node'[m].count =
                  Cardinality(Users(m)') + Cardinality(DeletedBy(m)') + dead'[m]
    <3>1. CASE m = n
      <4>1. Cardinality(Users(n)') = Cardinality(Users(n)) + 1
        <5>1. Cardinality(Users(n)') = Cardinality(Users(n))
                                         + (IF req'[r].node = n THEN 1 ELSE 0)
                                         - (IF req[r].node = n THEN 1 ELSE 0)
          BY UsersMove
        <5>2. n # None /\ Cardinality(Users(n)) \in Nat
          BY CacheAssumption, RefsAre
        <5>3. QED
          BY <5>1, <5>2
      <4>2. node[n].count = Cardinality(Users(n)) + Cardinality(DeletedBy(n)) + dead[n]
        BY DEF CacheInv, CountExact
      <4>3. QED
        BY <1>4, <3>1, <4>1, <4>2, RefsAre
    <3>2. CASE m # n
      BY <1>4, <1>5, <3>2 DEF CacheInv, CountExact
    <3>3. QED
      BY <3>1, <3>2
  <2>3. ASSUME NEW m \in Nodes
        PROVE  /\ node'[m].deleting => DeletedBy(m)' # {} \/ dead'[m] > 0
               /\ node'[m].key = None => node'[m] = FreeNode
    BY <1>4 DEF CacheInv, CountExact
  <2>4. QED
    BY <2>1, <2>2, <2>3 DEF CountExact
<1>7. UpdatingOwned'
  <2>1. SUFFICES ASSUME NEW m \in Nodes, node'[m].updating
                 PROVE  \/ \E s \in Users(m)' : req'[s].updating /\ req'[s].lock = node'[m].lock
                        \/ dead'[m] > 0
    BY DEF UpdatingOwned
  <2>2. node[m].updating /\ node'[m].lock = node[m].lock
    BY <2>1
  <2>3. \/ \E s \in Users(m) : req[s].updating /\ req[s].lock = node[m].lock
        \/ dead[m] > 0
    BY <2>2 DEF CacheInv, UpdatingOwned
  <2>4. ASSUME NEW s \in Users(m) PROVE s \in Users(m)' /\ req'[s] = req[s]
    BY <1>5, CacheAssumption DEF Users
  <2>5. QED
    BY <2>2, <2>3, <2>4
<1>8. QED
  BY <1>3, <1>6, <1>7 DEF CacheInv

\* A node that nobody has, or has had since the step before, is freed.
LEMMA DropStep ==
    ASSUME CacheInv, ReqInv', NEW n \in Nodes, Drop(n), dead' = dead,
           Cardinality(Users(n)') = 0, Cardinality(DeletedBy(n)') = 0, dead[n] = 0,
           \A m \in Nodes \ {n} : Users(m)' = Users(m) /\ DeletedBy(m)' = DeletedBy(m),
           \A m \in Nodes \ {n} : \A s \in Users(m) : req'[s] = req[s]
    PROVE  CacheInv'
<1>1. /\ node' = [m \in Nodes |-> IF m = n THEN FreeNode ELSE node[m]]
      /\ queue' = Without(queue, n)
  BY DEF Drop, Set, CacheInv, NodeInv
<1>2. /\ FreeNode.key = None /\ FreeNode.count = 0 /\ FreeNode = NodeFields(FreeNode)
      /\ ~FreeNode.deleting /\ ~FreeNode.updating
  BY DEF FreeNode, NodeFields
<1> HIDE DEF FreeNode
<1>3. Allocated' = Allocated \ {n}
  BY <1>1, <1>2 DEF Allocated
<1>4. QueueOf(queue', Allocated')
  BY <1>1, <1>3, WithoutOf DEF CacheInv, NodeInv
<1>5. NodeInv'
  BY <1>1, <1>2, <1>4 DEF CacheInv, NodeInv
<1>6. CountExact'
  <2>1. \A m \in Nodes : node'[m].key # None <=> Contains(queue', m)
    <3>1. \A m : m \in Allocated' <=> Contains(queue', m)
      BY <1>4, Queued
    <3>2. QED
      BY <3>1 DEF Allocated
  <2>2. ASSUME NEW m \in Nodes
        PROVE  /\ node'[m].count =
                     Cardinality(Users(m)') + Cardinality(DeletedBy(m)') + dead'[m]
               /\ node'[m].deleting => DeletedBy(m)' # {} \/ dead'[m] > 0
               /\ node'[m].key = None => node'[m] = FreeNode
    <3>1. CASE m = n
      BY <1>1, <1>2, <3>1
    <3>2. CASE m # n
      BY <1>1, <3>2 DEF CacheInv, CountExact
    <3>3. QED
      BY <3>1, <3>2
  <2>3. QED
    BY <2>1, <2>2 DEF CountExact
<1>7. UpdatingOwned'
  <2>1. SUFFICES ASSUME NEW m \in Nodes, node'[m].updating
                 PROVE  \/ \E s \in Users(m)' : req'[s].updating /\ req'[s].lock = node'[m].lock
                        \/ dead'[m] > 0
    BY DEF UpdatingOwned
  <2>2. m # n /\ node'[m] = node[m]
    BY <1>1, <1>2, <2>1
  <2>3. \/ \E s \in Users(m) : req[s].updating /\ req[s].lock = node[m].lock
        \/ dead[m] > 0
    BY <2>1, <2>2 DEF CacheInv, UpdatingOwned
  <2>4. QED
    BY <2>2, <2>3
<1>8. QED
  BY <1>5, <1>6, <1>7 DEF CacheInv

\* A request leaves node n, which stays or, when nobody has it, is freed.
LEMMA LoseStep ==
    ASSUME CacheInv, ReqInv', NEW r \in Reqs, NEW n \in Nodes,
           req[r].node = n, req'[r].node = None,
           \A s \in Reqs \ {r} : req'[s] = req[s],
           del' = del, dead' = dead,
           \/ /\ queue' = queue
              /\ node' = [m \in Nodes |-> node'[m]]
              /\ \A m \in Nodes \ {n} : node'[m] = node[m]
              /\ node'[n] = NodeFields(node'[n]) /\ node'[n].key = node[n].key
              /\ node'[n].count = node[n].count - 1
              /\ node'[n].deleting => node[n].deleting
              /\ node'[n].updating => /\ node[n].updating /\ node'[n].lock = node[n].lock
                                      /\ ~(req[r].updating /\ req[r].lock = node[n].lock)
           \/ Drop(n) /\ node[n].count = 1
    PROVE  CacheInv'
<1>1. /\ node[n].count >= 1 /\ node[n].key # None /\ n # None
      /\ Cardinality(Users(n)) \in Nat /\ Cardinality(DeletedBy(n)) \in Nat
      /\ dead[n] \in Nat /\ node[n].count \in Nat
      /\ node[n].count = Cardinality(Users(n)) + Cardinality(DeletedBy(n)) + dead[n]
  <2>1. r \in Users(n)
    BY DEF Users
  <2>2. QED
    BY <2>1, RefsAre, CacheAssumption DEF CacheInv, NodeInv, CountExact
<1>2. \A m : DeletedBy(m)' = DeletedBy(m)
  BY DEF DeletedBy
<1>3. \A m \in Nodes : Users(m)' = IF m = n THEN Users(m) \ {r} ELSE Users(m)
  BY CacheAssumption DEF Users
<1>4. Cardinality(Users(n)') = Cardinality(Users(n)) - 1
  <2>1. Cardinality(Users(n)') = Cardinality(Users(n))
                                   + (IF req'[r].node = n THEN 1 ELSE 0)
                                   - (IF req[r].node = n THEN 1 ELSE 0)
    BY UsersMove
  <2>2. QED
    BY <1>1, <2>1
<1>5. CASE /\ queue' = queue
           /\ node' = [m \in Nodes |-> node'[m]]
           /\ \A m \in Nodes \ {n} : node'[m] = node[m]
           /\ node'[n] = NodeFields(node'[n]) /\ node'[n].key = node[n].key
           /\ node'[n].count = node[n].count - 1
           /\ node'[n].deleting => node[n].deleting
           /\ node'[n].updating => /\ node[n].updating /\ node'[n].lock = node[n].lock
                                   /\ ~(req[r].updating /\ req[r].lock = node[n].lock)
  <2>1. Allocated' = Allocated
    BY <1>5 DEF Allocated
  <2>2. NodeInv'
    <3>1. \A m \in Nodes : node'[m] = NodeFields(node'[m]) /\ node'[m].count \in Nat
      BY <1>1, <1>5 DEF CacheInv, NodeInv
    <3>2. QED
      BY <1>5, <2>1, <3>1 DEF CacheInv, NodeInv
  <2>3. CountExact'
    <3>1. ASSUME NEW m \in Nodes
          PROVE  node'[m].count =
                    Cardinality(Users(m)') + Cardinality(DeletedBy(m)') + dead'[m]
      <4>1. CASE m = n
        BY <1>1, <1>2, <1>4, <1>5, <4>1
      <4>2. CASE m # n
        BY <1>2, <1>3, <1>5, <4>2 DEF CacheInv, CountExact
      <4>3. QED
        BY <4>1, <4>2
    <3>2. ASSUME NEW m \in Nodes
          PROVE  /\ node'[m].deleting => DeletedBy(m)' # {} \/ dead'[m] > 0
                 /\ node'[m].key = None => node'[m] = FreeNode
                 /\ node'[m].key # None <=> Contains(queue', m)
      BY <1>1, <1>2, <1>5 DEF CacheInv, CountExact
    <3>3. QED
      BY <3>1, <3>2 DEF CountExact
  <2>4. UpdatingOwned'
    <3>1. SUFFICES ASSUME NEW m \in Nodes, node'[m].updating
                   PROVE  \/ \E s \in Users(m)' : req'[s].updating
                                                  /\ req'[s].lock = node'[m].lock
                          \/ dead'[m] > 0
      BY DEF UpdatingOwned
    <3>2. node[m].updating /\ node'[m].lock = node[m].lock
      BY <1>5, <3>1
    <3>3. \/ \E s \in Users(m) : req[s].updating /\ req[s].lock = node[m].lock
          \/ dead[m] > 0
      BY <3>2 DEF CacheInv, UpdatingOwned
    <3>4. ASSUME NEW s \in Users(m), req[s].updating, req[s].lock = node[m].lock
          PROVE  s \in Users(m)' /\ req'[s] = req[s]
      <4>1. s # r
        BY <1>5, <3>1, <3>4 DEF Users
      <4>2. QED
        BY <1>3, <4>1 DEF Users
    <3>5. QED
      BY <3>2, <3>3, <3>4
  <2>5. QED
    BY <2>2, <2>3, <2>4 DEF CacheInv
<1>6. CASE Drop(n) /\ node[n].count = 1
  <2>1. /\ Cardinality(Users(n)) >= 1 /\ Cardinality(Users(n)) = 1
        /\ Cardinality(DeletedBy(n)) = 0 /\ dead[n] = 0
    <3>1. Cardinality(Users(n)) >= 1
      <4>1. r \in Users(n)
        BY DEF Users
      <4>2. QED
        BY <4>1, RefsAre
    <3>2. QED
      BY <1>1, <1>6, <3>1
  <2>2. Cardinality(Users(n)') = 0 /\ Cardinality(DeletedBy(n)') = 0
    BY <1>2, <1>4, <2>1
  <2>3. \A m \in Nodes \ {n} : Users(m)' = Users(m) /\ DeletedBy(m)' = DeletedBy(m)
    BY <1>2, <1>3
  <2>4. \A m \in Nodes \ {n} : \A s \in Users(m) : req'[s] = req[s]
    BY DEF Users
  <2>5. QED
    BY <1>6, <2>1, <2>2, <2>3, <2>4, DropStep
<1>7. QED
  BY <1>5, <1>6

\* A process begins to delete node n, which nobody has.
LEMMA DeleteStep ==
    ASSUME CacheInv, ReqInv', NEW e \in Deleters, NEW n \in Nodes, NEW q,
           QueueOf(q, Allocated), del[e].pc = "no", node[n].count = 0, node[n].key # None,
           Delete(e, n, q), dead' = dead,
           \A s \in Reqs : SameCore(req'[s], req[s])
    PROVE  CacheInv'
<1>1. /\ Cardinality(Users(n)) = 0 /\ Cardinality(DeletedBy(n)) = 0 /\ dead[n] = 0
      /\ n # None /\ del[e].node = None
  <2>1. node[n].count = Cardinality(Users(n)) + Cardinality(DeletedBy(n)) + dead[n]
    BY DEF CacheInv, CountExact
  <2>2. /\ Cardinality(Users(n)) \in Nat /\ Cardinality(DeletedBy(n)) \in Nat
        /\ dead[n] \in Nat
    BY RefsAre
  <2>3. del[e].node = None
    BY DEF CacheInv, ReqInv, DelOK
  <2>4. n # None
    BY CacheAssumption
  <2>5. QED
    BY <2>1, <2>2, <2>3, <2>4
<1>2. \A m : Users(m)' = Users(m)
  BY DEF Users, SameCore
<1>3. CASE node[n].exists
  <2>1. PICK f : f = [node[n] EXCEPT !.count = @ + 1, !.deleting = TRUE]
    OBVIOUS
  <2>2. /\ f = NodeFields(f) /\ f.key = node[n].key /\ f.count = 1
        /\ f.updating = node[n].updating /\ f.lock = node[n].lock
    <3>1. PICK g : g = node[n]
      OBVIOUS
    <3>2. g = NodeFields(g) /\ f = [g EXCEPT !.count = @ + 1, !.deleting = TRUE]
      BY <2>1, <3>1 DEF CacheInv, NodeInv
    <3>3. /\ f = NodeFields(f) /\ f.key = g.key /\ f.count = g.count + 1
          /\ f.updating = g.updating /\ f.lock = g.lock
      BY <3>2 DEF NodeFields
    <3>4. QED
      BY <3>1, <3>3
  <2>3. /\ node' = [m \in Nodes |-> IF m = n THEN f ELSE node[m]] /\ queue' = q
        /\ del' = [d \in Deleters |-> IF d = e THEN [pc |-> "unlink", node |-> n] ELSE del[d]]
    BY <1>3, <2>1 DEF Delete, Set, CacheInv, NodeInv, ReqInv
  <2>4. Allocated' = Allocated
    BY <2>2, <2>3 DEF Allocated
  <2>5. NodeInv'
    BY <2>2, <2>3, <2>4 DEF CacheInv, NodeInv
  <2>6. \A m \in Nodes : DeletedBy(m)' = IF m = n THEN DeletedBy(m) \cup {e} ELSE DeletedBy(m)
    <3>1. \A d \in Deleters : del'[d].node = IF d = e THEN n ELSE del[d].node
      BY <2>3
    <3>2. QED
      BY <1>1, <3>1, CacheAssumption DEF DeletedBy
  <2>7. Cardinality(DeletedBy(n)') = 1
    <3>1. del'[e].node = n /\ \A d \in Deleters \ {e} : del'[d].node = del[d].node
      BY <2>3
    <3>2. Cardinality(DeletedBy(n)') = Cardinality(DeletedBy(n))
                                         + (IF del'[e].node = n THEN 1 ELSE 0)
                                         - (IF del[e].node = n THEN 1 ELSE 0)
      BY <3>1, DeletersMove
    <3>3. QED
      BY <1>1, <3>1, <3>2
  <2>8. CountExact'
    <3>1. \A m \in Nodes : node'[m].key # None <=> Contains(queue', m)
      <4>1. \A m : m \in Allocated <=> Contains(q, m)
        BY Queued
      <4>2. QED
        BY <2>3, <2>4, <4>1 DEF Allocated
    <3>2. ASSUME NEW m \in Nodes
          PROVE  /\ node'[m].count =
                       Cardinality(Users(m)') + Cardinality(DeletedBy(m)') + dead'[m]
                 /\ node'[m].deleting => DeletedBy(m)' # {} \/ dead'[m] > 0
                 /\ node'[m].key = None => node'[m] = FreeNode
      <4>1. CASE m = n
        BY <1>1, <1>2, <2>2, <2>3, <2>6, <2>7, <4>1
      <4>2. CASE m # n
        BY <1>2, <2>3, <2>6, <4>2 DEF CacheInv, CountExact
      <4>3. QED
        BY <4>1, <4>2
    <3>3. QED
      BY <3>1, <3>2 DEF CountExact
  <2>9. UpdatingOwned'
    <3>1. SUFFICES ASSUME NEW m \in Nodes, node'[m].updating
                   PROVE  \/ \E s \in Users(m)' : req'[s].updating
                                                  /\ req'[s].lock = node'[m].lock
                          \/ dead'[m] > 0
      BY DEF UpdatingOwned
    <3>2. node[m].updating /\ node'[m].lock = node[m].lock
      BY <2>2, <2>3, <3>1
    <3>3. \/ \E s \in Users(m) : req[s].updating /\ req[s].lock = node[m].lock
          \/ dead[m] > 0
      BY <3>2 DEF CacheInv, UpdatingOwned
    <3>4. QED
      BY <1>2, <3>2, <3>3 DEF Users, SameCore
  <2>10. QED
    BY <2>5, <2>8, <2>9 DEF CacheInv
<1>4. CASE ~node[n].exists
  <2>1. /\ node' = [m \in Nodes |-> IF m = n THEN FreeNode ELSE node[m]]
        /\ queue' = Without(q, n) /\ del' = del
    BY <1>4 DEF Delete, Set, CacheInv, NodeInv
  <2>2. /\ FreeNode.key = None /\ FreeNode.count = 0 /\ FreeNode = NodeFields(FreeNode)
        /\ ~FreeNode.deleting /\ ~FreeNode.updating
    BY DEF FreeNode, NodeFields
  <2> HIDE DEF FreeNode
  <2>3. Allocated' = Allocated \ {n}
    BY <2>1, <2>2 DEF Allocated
  <2>4. QueueOf(queue', Allocated')
    BY <2>1, <2>3, WithoutOf
  <2>5. NodeInv'
    BY <2>1, <2>2, <2>4 DEF CacheInv, NodeInv
  <2>6. \A m : DeletedBy(m)' = DeletedBy(m)
    BY <2>1 DEF DeletedBy
  <2>7. CountExact'
    <3>1. \A m \in Nodes : node'[m].key # None <=> Contains(queue', m)
      <4>1. \A m : m \in Allocated' <=> Contains(queue', m)
        BY <2>4, Queued
      <4>2. QED
        BY <4>1 DEF Allocated
    <3>2. ASSUME NEW m \in Nodes
          PROVE  /\ node'[m].count =
                       Cardinality(Users(m)') + Cardinality(DeletedBy(m)') + dead'[m]
                 /\ node'[m].deleting => DeletedBy(m)' # {} \/ dead'[m] > 0
                 /\ node'[m].key = None => node'[m] = FreeNode
      <4>1. CASE m = n
        BY <1>1, <1>2, <2>1, <2>2, <2>6, <4>1
      <4>2. CASE m # n
        BY <1>2, <2>1, <2>6, <4>2 DEF CacheInv, CountExact
      <4>3. QED
        BY <4>1, <4>2
    <3>3. QED
      BY <3>1, <3>2 DEF CountExact
  <2>8. UpdatingOwned'
    <3>1. SUFFICES ASSUME NEW m \in Nodes, node'[m].updating
                   PROVE  \/ \E s \in Users(m)' : req'[s].updating
                                                  /\ req'[s].lock = node'[m].lock
                          \/ dead'[m] > 0
      BY DEF UpdatingOwned
    <3>2. m # n /\ node'[m] = node[m]
      BY <2>1, <2>2, <3>1
    <3>3. \/ \E s \in Users(m) : req[s].updating /\ req[s].lock = node[m].lock
          \/ dead[m] > 0
      BY <3>1, <3>2 DEF CacheInv, UpdatingOwned
    <3>4. QED
      BY <1>2, <3>2, <3>3 DEF Users, SameCore
  <2>9. QED
    BY <2>5, <2>7, <2>8 DEF CacheInv
<1>5. QED
  BY <1>3, <1>4

\* The process that deleted the file comes back to the node: it is freed, or left to
\* those who have it by now.
LEMMA RelockStep ==
    ASSUME CacheInv, ReqInv', NEW e \in Deleters, Relock(e)
    PROVE  CacheInv'
<1>1. PICK n \in Nodes :
      /\ n = del[e].node /\ n # None /\ del[e].pc = "relock" /\ e \in DeletedBy(n)
      /\ del' = [d \in Deleters |-> IF d = e THEN NoDelete ELSE del[d]]
      /\ e \in Reqs => req[e].node = None /\ req[e].pc = "forced"
  <2>1. del[e].pc = "relock"
    BY DEF Relock
  <2>2. /\ del[e] \in [pc : {"no", "unlink", "relock"}, node : Nodes \cup {None}]
        /\ del[e].node # None
        /\ e \in Reqs => req[e].pc = "forced"
    BY <2>1 DEF CacheInv, ReqInv, DelOK
  <2>3. e \in Reqs => req[e].node = None
    BY <2>2 DEF CacheInv, ReqInv, ReqOK
  <2>4. del' = [d \in Deleters |-> IF d = e THEN NoDelete ELSE del[d]]
    BY DEF Relock, Set, CacheInv, ReqInv
  <2>5. QED
    BY <2>1, <2>2, <2>3, <2>4 DEF DeletedBy
<1>2. /\ dead' = dead /\ \A s \in Reqs \ {e} : req'[s] = req[s]
      /\ \A s \in Reqs : req'[s].node = req[s].node
  <2>1. CASE e \in Reqs
    <3>1. PICK c : c = req[e]
      OBVIOUS
    <3>2. PICK d : d = [c EXCEPT !.pc = "alloc"]
      OBVIOUS
    <3>3. c = ReqFields(c)
      BY <2>1, <3>1 DEF CacheInv, ReqInv, ReqOK
    <3>4. d.node = c.node
      BY <3>2, <3>3 DEF ReqFields
    <3>5. req' = [s \in Reqs |-> IF s = e THEN d ELSE req[s]]
      BY <2>1, <3>1, <3>2 DEF Relock, Set, CacheInv, ReqInv
    <3>6. QED
      BY <2>1, <3>1, <3>4, <3>5 DEF Relock
  <2>2. CASE e \notin Reqs
    BY <2>2 DEF Relock
  <2>3. QED
    BY <2>1, <2>2
<1>3. /\ \A m : Users(m)' = Users(m)
      /\ \A m \in Nodes : \A s \in Users(m) : req'[s] = req[s]
  <2>1. \A m \in Nodes : \A s \in Users(m) : s # e
    BY <1>1, CacheAssumption DEF Users
  <2>2. QED
    BY <1>2, <2>1 DEF Users
<1>4. \A m \in Nodes \ {n} : DeletedBy(m)' = DeletedBy(m)
  <2>1. \A d \in Deleters : del'[d].node = IF d = e THEN None ELSE del[d].node
    BY <1>1 DEF NoDelete
  <2>2. QED
    BY <1>1, <2>1, CacheAssumption DEF DeletedBy
<1>5. /\ Cardinality(DeletedBy(n)) \in Nat /\ Cardinality(Users(n)) \in Nat /\ dead[n] \in Nat
      /\ Cardinality(DeletedBy(n)) >= 1 /\ node[n].count >= 1 /\ node[n].key # None
      /\ node[n].count \in Nat
      /\ node[n].count = Cardinality(Users(n)) + Cardinality(DeletedBy(n)) + dead[n]
  <2>1. DeletedBy(n) # {}
    BY <1>1
  <2>2. QED
    BY <1>1, <2>1, RefsAre DEF CacheInv, NodeInv, CountExact
<1>6. Cardinality(DeletedBy(n)') = Cardinality(DeletedBy(n)) - 1
  <2>1. del'[e].node = None /\ \A d \in Deleters \ {e} : del'[d].node = del[d].node
    BY <1>1 DEF NoDelete
  <2>2. Cardinality(DeletedBy(n)') = Cardinality(DeletedBy(n))
                                       + (IF del'[e].node = n THEN 1 ELSE 0)
                                       - (IF del[e].node = n THEN 1 ELSE 0)
    BY <2>1, DeletersMove
  <2>3. QED
    BY <1>1, <1>5, <2>1, <2>2
<1>7. PICK f : f = [node[n] EXCEPT !.count = @ - 1, !.deleting = FALSE]
  OBVIOUS
<1>8. /\ f = NodeFields(f) /\ f.key = node[n].key /\ f.count = node[n].count - 1
      /\ f.updating = node[n].updating /\ f.lock = node[n].lock /\ f.deleting = FALSE
  <2>1. PICK g : g = node[n]
    OBVIOUS
  <2>2. g = NodeFields(g) /\ f = [g EXCEPT !.count = @ - 1, !.deleting = FALSE]
    BY <1>1, <1>7, <2>1 DEF CacheInv, NodeInv
  <2>3. /\ f = NodeFields(f) /\ f.key = g.key /\ f.count = g.count - 1
        /\ f.updating = g.updating /\ f.lock = g.lock /\ f.deleting = FALSE
    BY <2>2 DEF NodeFields
  <2>4. QED
    BY <2>1, <2>3
<1>9. IF f.count = 0 THEN Drop(n) ELSE Keep(n, f)
  BY <1>1, <1>7 DEF Relock
<1>a. Cardinality(Users(n)') = Cardinality(Users(n))
  BY <1>3, Zenon
<1>10. CASE f.count = 0
  <2>1. Cardinality(Users(n)') = 0 /\ Cardinality(DeletedBy(n)') = 0 /\ dead[n] = 0
    <3>1. node[n].count = 1
      BY <1>5, <1>8, <1>10
    <3>2. Cardinality(Users(n)) = 0 /\ Cardinality(DeletedBy(n)) = 1 /\ dead[n] = 0
      BY <1>5, <3>1
    <3>3. QED
      BY <1>a, <1>6, <3>2
  <2>2. Drop(n)
    BY <1>9, <1>10
  <2>3. /\ \A m \in Nodes \ {n} : Users(m)' = Users(m) /\ DeletedBy(m)' = DeletedBy(m)
        /\ \A m \in Nodes \ {n} : \A s \in Users(m) : req'[s] = req[s]
    BY <1>3, <1>4
  <2>4. QED
    BY <1>1, <1>2, <2>1, <2>2, <2>3, DropStep
<1>11. CASE f.count # 0
  <2>1. node' = [m \in Nodes |-> IF m = n THEN f ELSE node[m]] /\ queue' = queue
    BY <1>9, <1>11 DEF Keep, Set, CacheInv, NodeInv
  <2>2. Allocated' = Allocated
    BY <1>8, <2>1 DEF Allocated
  <2>3. NodeInv'
    <3>1. \A m \in Nodes : node'[m] = NodeFields(node'[m]) /\ node'[m].count \in Nat
      BY <1>5, <1>8, <2>1 DEF CacheInv, NodeInv
    <3>2. QED
      BY <1>2, <2>1, <2>2, <3>1 DEF CacheInv, NodeInv
  <2>4. CountExact'
    <3>1. ASSUME NEW m \in Nodes
          PROVE  node'[m].count =
                    Cardinality(Users(m)') + Cardinality(DeletedBy(m)') + dead'[m]
      <4>1. CASE m = n
        BY <1>a, <1>2, <1>5, <1>6, <1>8, <2>1, <4>1
      <4>2. CASE m # n
        BY <1>2, <1>3, <1>4, <2>1, <4>2 DEF CacheInv, CountExact
      <4>3. QED
        BY <4>1, <4>2
    <3>2. ASSUME NEW m \in Nodes
          PROVE  /\ node'[m].deleting => DeletedBy(m)' # {} \/ dead'[m] > 0
                 /\ node'[m].key = None => node'[m] = FreeNode
                 /\ node'[m].key # None <=> Contains(queue', m)
      <4>1. CASE m = n
        BY <1>5, <1>8, <2>1, <4>1 DEF CacheInv, CountExact
      <4>2. CASE m # n
        BY <1>2, <1>4, <2>1, <4>2 DEF CacheInv, CountExact
      <4>3. QED
        BY <4>1, <4>2
    <3>3. QED
      BY <3>1, <3>2 DEF CountExact
  <2>5. UpdatingOwned'
    <3>1. SUFFICES ASSUME NEW m \in Nodes, node'[m].updating
                   PROVE  \/ \E s \in Users(m)' : req'[s].updating
                                                  /\ req'[s].lock = node'[m].lock
                          \/ dead'[m] > 0
      BY DEF UpdatingOwned
    <3>2. node[m].updating /\ node'[m].lock = node[m].lock
      BY <1>8, <2>1, <3>1
    <3>3. \/ \E s \in Users(m) : req[s].updating /\ req[s].lock = node[m].lock
          \/ dead[m] > 0
      BY <3>2 DEF CacheInv, UpdatingOwned
    <3>4. QED
      BY <1>2, <1>3, <3>2, <3>3
  <2>6. QED
    BY <2>3, <2>4, <2>5 DEF CacheInv
<1>12. QED
  BY <1>10, <1>11

\* A worker dies: what its requests had stays counted, as dead.
LEMMA KillStep ==
    ASSUME CacheInv, NEW r \in Reqs, Kill(r)
    PROVE  CacheInv'
<1> DEFINE gone == {s \in Reqs : s = r \/ req[s].parent = r \/ req[r].parent = s}
<1>1. PICK G : G = gone
  OBVIOUS
<1>2. /\ G \subseteq Reqs /\ req' = [s \in Reqs |-> IF s \in G THEN Idle ELSE req[s]]
      /\ dead' = [n \in Nodes |-> dead[n] + Cardinality({s \in G : req[s].node = n})
                                          + Cardinality({s \in G : del[s].node = n})]
      /\ del' = [d \in Deleters |-> IF d \in G THEN NoDelete ELSE del[d]]
      /\ node' = node /\ queue' = queue
  BY <1>1 DEF Kill
<1>3. Idle.node = None /\ NoDelete.node = None /\ NoDelete.pc = "no"
  BY DEF Idle, NoDelete
<1>4. ReqInv'
  <2>1. ReqOK(Idle)
    BY DEF ReqOK, ReqFields, Idle
  <2>2. \A s \in Reqs : ReqOK(req'[s])
    BY <1>2, <2>1 DEF CacheInv, ReqInv
  <2>3. ASSUME NEW d \in Deleters PROVE DelOK(d)'
    <3>1. CASE d \in G
      BY <1>2, <1>3, <3>1 DEF DelOK, NoDelete
    <3>2. CASE d \notin G
      BY <1>2, <3>2 DEF CacheInv, ReqInv, DelOK
    <3>3. QED
      BY <3>1, <3>2
  <2>4. QED
    BY <1>2, <2>2, <2>3 DEF ReqInv
<1> HIDE DEF gone
<1>5. ASSUME NEW n \in Nodes
      PROVE  /\ Users(n)' = Users(n) \ G /\ DeletedBy(n)' = DeletedBy(n) \ G
             /\ {s \in G : req[s].node = n} = Users(n) \cap G
             /\ {s \in G : del[s].node = n} = DeletedBy(n) \cap G
  BY <1>2, <1>3, CacheAssumption DEF Users, DeletedBy, Deleters
<1>6. ASSUME NEW n \in Nodes
      PROVE  /\ Cardinality(Users(n)') \in Nat /\ Cardinality(DeletedBy(n)') \in Nat
             /\ Cardinality(Users(n) \cap G) \in Nat /\ Cardinality(DeletedBy(n) \cap G) \in Nat
             /\ Cardinality(Users(n)') + Cardinality(Users(n) \cap G) = Cardinality(Users(n))
             /\ Cardinality(DeletedBy(n)') + Cardinality(DeletedBy(n) \cap G)
                   = Cardinality(DeletedBy(n))
             /\ Users(n) \cap G # {} => Cardinality(Users(n) \cap G) >= 1
             /\ DeletedBy(n) \cap G # {} => Cardinality(DeletedBy(n) \cap G) >= 1
  <2>1. IsFiniteSet(Users(n)) /\ IsFiniteSet(DeletedBy(n))
    <3>1. IsFiniteSet(Deleters)
      BY CacheAssumption, FS_AddElement DEF Deleters
    <3>2. QED
      BY <3>1, CacheAssumption, FS_Subset DEF Users, DeletedBy
  <2>2. /\ IsFiniteSet(Users(n) \cap G) /\ IsFiniteSet(DeletedBy(n) \cap G)
        /\ IsFiniteSet(Users(n) \ G) /\ IsFiniteSet(DeletedBy(n) \ G)
    BY <2>1, FS_Subset
  <2>3. /\ Cardinality(Users(n) \cap G) \in Nat /\ Cardinality(DeletedBy(n) \cap G) \in Nat
        /\ Cardinality(Users(n) \ G) \in Nat /\ Cardinality(DeletedBy(n) \ G) \in Nat
        /\ Cardinality(Users(n)) \in Nat /\ Cardinality(DeletedBy(n)) \in Nat
    BY <2>1, <2>2, FS_CardinalityType
  <2>4. /\ Cardinality(Users(n) \ G) = Cardinality(Users(n)) - Cardinality(Users(n) \cap G)
        /\ Cardinality(DeletedBy(n) \ G) =
              Cardinality(DeletedBy(n)) - Cardinality(DeletedBy(n) \cap G)
    BY <2>1, FS_Difference
  <2>5. /\ Users(n) \cap G # {} => Cardinality(Users(n) \cap G) # 0
        /\ DeletedBy(n) \cap G # {} => Cardinality(DeletedBy(n) \cap G) # 0
    BY <2>2, FS_EmptySet
  <2>6. /\ Cardinality(Users(n)') = Cardinality(Users(n) \ G)
        /\ Cardinality(DeletedBy(n)') = Cardinality(DeletedBy(n) \ G)
    BY <1>5, Zenon
  <2>7. QED
    BY <2>3, <2>4, <2>5, <2>6
<1>7. ASSUME NEW n \in Nodes
      PROVE  dead'[n] = dead[n] + Cardinality(Users(n) \cap G)
                                + Cardinality(DeletedBy(n) \cap G)
  BY <1>2, <1>5, Zenon
<1>8. ASSUME NEW n \in Nodes
      PROVE  /\ dead'[n] \in Nat /\ (dead[n] > 0 => dead'[n] > 0)
             /\ Users(n) \cap G # {} => dead'[n] > 0
             /\ DeletedBy(n) \cap G # {} => dead'[n] > 0
             /\ Cardinality(Users(n)) + Cardinality(DeletedBy(n)) + dead[n]
                   = Cardinality(Users(n)') + Cardinality(DeletedBy(n)') + dead'[n]
  <2>1. PICK u : u = Cardinality(Users(n))
    OBVIOUS
  <2>2. PICK v : v = Cardinality(DeletedBy(n))
    OBVIOUS
  <2>3. PICK u1 : u1 = Cardinality(Users(n)')
    OBVIOUS
  <2>4. PICK v1 : v1 = Cardinality(DeletedBy(n)')
    OBVIOUS
  <2>5. PICK g : g = Cardinality(Users(n) \cap G)
    OBVIOUS
  <2>6. PICK h : h = Cardinality(DeletedBy(n) \cap G)
    OBVIOUS
  <2>7. PICK a : a = dead[n]
    OBVIOUS
  <2>8. PICK b : b = dead'[n]
    OBVIOUS
  <2>9. a \in Nat
    BY <2>7 DEF CacheInv, NodeInv
  <2>10. /\ u1 \in Nat /\ v1 \in Nat /\ g \in Nat /\ h \in Nat
         /\ u1 + g = u /\ v1 + h = v
         /\ (Users(n) \cap G # {} => g >= 1) /\ (DeletedBy(n) \cap G # {} => h >= 1)
    BY <1>6, <2>1, <2>2, <2>3, <2>4, <2>5, <2>6, Zenon
  <2>11. b = a + g + h
    BY <1>7, <2>5, <2>6, <2>7, <2>8, Zenon
  <2>12. /\ b \in Nat /\ (a > 0 => b > 0) /\ (g >= 1 => b > 0) /\ (h >= 1 => b > 0)
         /\ u + v + a = u1 + v1 + b
    BY <2>9, <2>10, <2>11
  <2>13. QED
    BY <2>1, <2>2, <2>3, <2>4, <2>7, <2>8, <2>10, <2>12, Zenon
<1>9. NodeInv'
  <2>1. dead' \in [Nodes -> Nat]
    <3>1. \A n \in Nodes : dead'[n] \in Nat
      BY <1>8
    <3>2. dead' = [n \in Nodes |-> dead'[n]]
      BY <1>2
    <3>3. QED
      BY <3>1, <3>2, Zenon
  <2>2. Allocated' = Allocated
    BY <1>2 DEF Allocated
  <2>3. QED
    BY <1>2, <2>1, <2>2 DEF CacheInv, NodeInv
<1>10. CountExact'
  <2>1. ASSUME NEW n \in Nodes
        PROVE  /\ node'[n].count =
                     Cardinality(Users(n)') + Cardinality(DeletedBy(n)') + dead'[n]
               /\ node'[n].deleting => DeletedBy(n)' # {} \/ dead'[n] > 0
               /\ node'[n].key = None => node'[n] = FreeNode
               /\ node'[n].key # None <=> Contains(queue', n)
    <3>1. /\ node[n].count = Cardinality(Users(n)) + Cardinality(DeletedBy(n)) + dead[n]
          /\ node[n].deleting => DeletedBy(n) # {} \/ dead[n] > 0
          /\ node[n].key = None => node[n] = FreeNode
          /\ node[n].key # None <=> Contains(queue, n)
      BY DEF CacheInv, CountExact
    <3>2. node[n].count = Cardinality(Users(n)') + Cardinality(DeletedBy(n)') + dead'[n]
      BY <1>8, <3>1, Zenon
    <3>3. ASSUME DeletedBy(n) # {} PROVE DeletedBy(n)' # {} \/ dead'[n] > 0
      <4>1. CASE DeletedBy(n) \cap G # {}
        BY <1>8, <4>1, Zenon
      <4>2. CASE DeletedBy(n) \cap G = {}
        BY <1>5, <3>3, <4>2
      <4>3. QED
        BY <4>1, <4>2
    <3>4. ASSUME dead[n] > 0 PROVE dead'[n] > 0
      BY <1>8, <3>4, Zenon
    <3>5. QED
      BY <1>2, <3>1, <3>2, <3>3, <3>4
  <2>2. QED
    BY <2>1 DEF CountExact
<1>11. UpdatingOwned'
  <2>1. SUFFICES ASSUME NEW n \in Nodes, node'[n].updating
                 PROVE  \/ \E s \in Users(n)' : req'[s].updating /\ req'[s].lock = node'[n].lock
                        \/ dead'[n] > 0
    BY DEF UpdatingOwned
  <2>2. \/ \E s \in Users(n) : req[s].updating /\ req[s].lock = node[n].lock
        \/ dead[n] > 0
    BY <1>2, <2>1 DEF CacheInv, UpdatingOwned
  <2>3. ASSUME dead[n] > 0 PROVE dead'[n] > 0
    BY <1>8, <2>3, Zenon
  <2>4. ASSUME NEW s \in Users(n), s \in G PROVE dead'[n] > 0
    BY <1>8, <2>4, Zenon
  <2>5. ASSUME NEW s \in Users(n), s \notin G PROVE s \in Users(n)' /\ req'[s] = req[s]
    BY <1>2, <1>5, <2>5 DEF Users
  <2>6. QED
    BY <1>2, <2>2, <2>3, <2>4, <2>5
<1>12. QED
  BY <1>4, <1>9, <1>10, <1>11 DEF CacheInv

\* The same for the cache manager.
LEMMA KillManagerStep ==
    ASSUME CacheInv, KillManager
    PROVE  CacheInv'
<1>1. /\ Manager \in Deleters /\ Manager \notin Reqs /\ del[Manager].pc # "no"
      /\ UNCHANGED <<node, queue, req>>
      /\ del' = [d \in Deleters |-> IF d = Manager THEN NoDelete ELSE del[d]]
  BY CacheAssumption DEF KillManager, Deleters, Set, CacheInv, ReqInv
<1>2. PICK n \in Nodes : n = del[Manager].node
  <2>1. DelOK(Manager)
    BY <1>1 DEF CacheInv, ReqInv
  <2>2. QED
    BY <1>1, <2>1 DEF DelOK
<1>3. dead' = [m \in Nodes |-> IF m = n THEN dead[n] + 1 ELSE dead[m]]
  BY <1>2 DEF KillManager, CacheInv, NodeInv
<1>4. NoDelete.node = None /\ n # None
  BY CacheAssumption DEF NoDelete
<1>5. ReqInv'
  <2>1. \A d \in Deleters : DelOK(d)'
    BY <1>1 DEF CacheInv, ReqInv, DelOK, NoDelete
  <2>2. QED
    BY <1>1, <2>1 DEF CacheInv, ReqInv
<1>6. NodeInv'
  <2>1. dead' \in [Nodes -> Nat]
    BY <1>3 DEF CacheInv, NodeInv
  <2>2. QED
    BY <1>1, <2>1 DEF CacheInv, NodeInv, Allocated
<1>7. /\ \A m : Users(m)' = Users(m)
      /\ \A m \in Nodes \ {n} : DeletedBy(m)' = DeletedBy(m)
  <2>1. \A d \in Deleters : del'[d].node = IF d = Manager THEN None ELSE del[d].node
    BY <1>1, <1>4
  <2>2. QED
    BY <1>1, <1>2, <2>1, CacheAssumption DEF Users, DeletedBy
<1>8. Cardinality(DeletedBy(n)') = Cardinality(DeletedBy(n)) - 1
  <2>1. del'[Manager].node = None /\ \A d \in Deleters \ {Manager} : del'[d].node = del[d].node
    BY <1>1, <1>4
  <2>2. Cardinality(DeletedBy(n)') = Cardinality(DeletedBy(n))
                                       + (IF del'[Manager].node = n THEN 1 ELSE 0)
                                       - (IF del[Manager].node = n THEN 1 ELSE 0)
    BY <1>1, <2>1, DeletersMove
  <2>3. Cardinality(DeletedBy(n)) \in Nat
    BY RefsAre
  <2>4. QED
    BY <1>2, <1>4, <2>1, <2>2, <2>3
<1>9. CountExact'
  <2>1. ASSUME NEW m \in Nodes
        PROVE  node'[m].count =
                  Cardinality(Users(m)') + Cardinality(DeletedBy(m)') + dead'[m]
    <3>1. node[m].count = Cardinality(Users(m)) + Cardinality(DeletedBy(m)) + dead[m]
      BY DEF CacheInv, CountExact
    <3>2. Cardinality(Users(m)') = Cardinality(Users(m))
      BY <1>7, Zenon
    <3>3. CASE m = n
      <4>1. /\ Cardinality(Users(m)) \in Nat /\ Cardinality(DeletedBy(m)) \in Nat
            /\ dead[m] \in Nat /\ dead'[m] = dead[m] + 1
        BY <1>3, <3>3, RefsAre
      <4>2. QED
        BY <1>1, <1>8, <3>1, <3>2, <3>3, <4>1
    <3>4. CASE m # n
      BY <1>1, <1>3, <1>7, <3>1, <3>4
    <3>5. QED
      BY <3>3, <3>4
  <2>2. ASSUME NEW m \in Nodes
        PROVE  /\ node'[m].deleting => DeletedBy(m)' # {} \/ dead'[m] > 0
               /\ node'[m].key = None => node'[m] = FreeNode
               /\ node'[m].key # None <=> Contains(queue', m)
    <3>1. dead[n] \in Nat
      BY RefsAre
    <3>2. QED
      BY <1>1, <1>3, <1>7, <3>1 DEF CacheInv, CountExact
  <2>3. QED
    BY <2>1, <2>2 DEF CountExact
<1>10. UpdatingOwned'
  <2>1. dead[n] \in Nat
    BY RefsAre
  <2>2. QED
    BY <1>1, <1>3, <1>7, <2>1 DEF CacheInv, UpdatingOwned
<1>11. QED
  BY <1>5, <1>6, <1>9, <1>10 DEF CacheInv

-----------------------------------------------------------------------------
(* The steps of a request. *)

\* Request r goes on as c.
LEMMA RequestMoves ==
    ASSUME ReqInv, NEW r \in Reqs, NEW c, ReqOK(c), Becomes(r, c), del' = del,
           req[r].pc # "forced"
    PROVE  /\ ReqInv' /\ SameCore(req'[r], c) /\ req'[r].pc = c.pc
           /\ \A s \in Reqs \ {r} : req'[s] = req[s]
<1>1. PICK d : d = Trimmed(c)
  OBVIOUS
<1>2. req' = [s \in Reqs |-> IF s = r THEN d ELSE req[s]]
  BY <1>1 DEF Becomes, Set, ReqInv
<1>3. d = ReqFields(d) /\ d.pc = c.pc /\ SameCore(d, c)
  <2>1. c = ReqFields(c)
    BY DEF ReqOK
  <2>2. QED
    BY <1>1, <2>1, TrimmedIs, Zenon
<1>4. ReqOK(d)
  BY <1>3 DEF ReqOK, SameCore
<1>5. \A s \in Reqs : ReqOK(req'[s])
  BY <1>2, <1>4 DEF ReqInv
<1>6. \A e \in Deleters : DelOK(e)'
  BY <1>2 DEF ReqInv, DelOK
<1>7. ReqInv'
  BY <1>2, <1>5, <1>6 DEF ReqInv
<1>8. QED
  BY <1>2, <1>3, <1>7

\* A step that changes the request only.
LEMMA QuietMove ==
    ASSUME CacheInv, NEW r \in Reqs, NEW c, ReqOK(c), Becomes(r, c), req[r].pc # "forced",
           c.node = req[r].node,
           req[r].updating /\ req[r].node # None => c.updating /\ c.lock = req[r].lock,
           node' = node, queue' = queue, del' = del, dead' = dead
    PROVE  CacheInv'
<1>1. /\ ReqInv' /\ SameCore(req'[r], c)
      /\ \A s \in Reqs \ {r} : req'[s] = req[s]
  BY RequestMoves DEF CacheInv
<1>2. /\ \A s \in Reqs : req'[s].node = req[s].node
      /\ \A s \in Reqs : req[s].updating /\ req[s].node # None =>
                            req'[s].updating /\ req'[s].lock = req[s].lock
  BY <1>1 DEF SameCore
<1>3. /\ node' = [n \in Nodes |-> node'[n]] /\ QueueOf(queue', Allocated)
      /\ \A n \in Nodes : node'[n] = NodeFields(node'[n])
  BY DEF CacheInv, NodeInv
<1>4. QED
  BY <1>1, <1>2, <1>3, QuietStep

\* A step that changes the request and what its node says, the references not.
LEMMA KeepMove ==
    ASSUME CacheInv, NEW r \in Reqs, NEW c, ReqOK(c), Becomes(r, c), req[r].pc # "forced",
           c.node = req[r].node,
           req[r].updating => c.updating /\ c.lock = req[r].lock,
           NEW n \in Nodes, n = req[r].node, NEW f, f = NodeFields(f),
           f.key = node[n].key, f.count = node[n].count, f.deleting = node[n].deleting,
           f.updating => \/ node[n].updating /\ f.lock = node[n].lock
                         \/ c.updating /\ c.lock = f.lock,
           node' = Set(node, n, f), queue' = queue \/ queue' = Touched(n),
           del' = del, dead' = dead
    PROVE  CacheInv'
<1>1. /\ ReqInv' /\ SameCore(req'[r], c)
      /\ \A s \in Reqs \ {r} : req'[s] = req[s]
  BY RequestMoves DEF CacheInv
<1>2. /\ \A s \in Reqs : req'[s].node = req[s].node
      /\ \A s \in Reqs : req[s].updating /\ req[s].node # None =>
                            req'[s].updating /\ req'[s].lock = req[s].lock
      /\ req'[r].updating = c.updating /\ req'[r].lock = c.lock
  BY <1>1 DEF SameCore
<1>3. node' = [m \in Nodes |-> IF m = n THEN f ELSE node[m]]
  BY DEF Set, CacheInv, NodeInv
<1>4. node[n].key # None
  <2>1. r \in Users(n)
    BY DEF Users
  <2>2. QED
    BY <2>1, RefsAre
<1>5. QueueOf(queue', Allocated)
  <2>1. QueueOf(queue, Allocated)
    BY DEF CacheInv, NodeInv
  <2>2. QueueOf(Touched(n), Allocated \cup {n})
    BY <2>1, TouchedOf
  <2>3. Allocated \cup {n} = Allocated
    BY <1>4 DEF Allocated
  <2>4. QED
    BY <2>1, <2>2, <2>3, Zenon
<1>6. /\ node' = [m \in Nodes |-> node'[m]]
      /\ \A m \in Nodes :
            /\ node'[m] = NodeFields(node'[m]) /\ node'[m].count = node[m].count
            /\ node'[m].key = node[m].key /\ node'[m].deleting = node[m].deleting
            /\ node[m].key = None => node'[m] = node[m]
  BY <1>3, <1>4 DEF CacheInv, NodeInv
<1>7. \A m \in Nodes : node'[m].updating =>
         \/ node[m].updating /\ node'[m].lock = node[m].lock
         \/ \E s \in Reqs : req'[s].node = m /\ req'[s].updating
                            /\ req'[s].lock = node'[m].lock
  BY <1>2, <1>3
<1>8. QED
  BY <1>1, <1>2, <1>5, <1>6, <1>7, QuietStep

\* The steps that change the request only.
LEMMA FullStep ==
    ASSUME CacheInv, NEW r \in Reqs, Full(r)
    PROVE  CacheInv'
<1>1. PICK c : c = req[r]
  OBVIOUS
<1>2. ReqOK(c)
  BY <1>1 DEF CacheInv, ReqInv
<1>3. PICK d :
           d = [c EXCEPT !.pc = "forced"] /\ Becomes(r, d)
  BY <1>1, Zenon DEF Full
<1>4. d = ReqFields(d) /\ SameCore(d, c)
  BY <1>2, <1>3 DEF ReqFields, SameCore, ReqOK
<1>5. c.pc # "forced" /\ ReqOK(d)
  BY <1>1, <1>2, <1>3, <1>4 DEF Full, Missing, ReqOK, SameCore
<1>6. node' = node /\ queue' = queue /\ del' = del /\ dead' = dead
  BY DEF Full
<1>7. QED
  BY <1>1, <1>3, <1>4, <1>5, <1>6, QuietMove DEF SameCore

LEMMA DamagedStep ==
    ASSUME CacheInv, NEW r \in Reqs, Damaged(r)
    PROVE  CacheInv'
<1>1. PICK c : c = req[r]
  OBVIOUS
<1>2. ReqOK(c)
  BY <1>1 DEF CacheInv, ReqInv
<1>3. PICK d :
           d = [c EXCEPT !.pc = "fetch", !.read = "no", !.same = FALSE] /\ Becomes(r, d)
  BY <1>1, Zenon DEF Damaged
<1>4. d = ReqFields(d) /\ SameCore(d, c)
  BY <1>2, <1>3 DEF ReqFields, SameCore, ReqOK
<1>5. c.pc # "forced" /\ ReqOK(d)
  BY <1>1, <1>2, <1>3, <1>4 DEF Damaged, ReqOK, SameCore
<1>6. node' = node /\ queue' = queue /\ del' = del /\ dead' = dead
  BY DEF Damaged
<1>7. QED
  BY <1>1, <1>3, <1>4, <1>5, <1>6, QuietMove DEF SameCore

LEMMA UpdatingStep ==
    ASSUME CacheInv, NEW r \in Reqs, Updating(r)
    PROVE  CacheInv'
<1>1. PICK c : c = req[r]
  OBVIOUS
<1>2. ReqOK(c)
  BY <1>1 DEF CacheInv, ReqInv
<1>3. PICK p, d :
           p \in {"serve", "fetch"} /\ d = [c EXCEPT !.pc = p] /\ Becomes(r, d)
  BY <1>1, Zenon DEF Updating
<1>4. d = ReqFields(d) /\ SameCore(d, c)
  BY <1>2, <1>3 DEF ReqFields, SameCore, ReqOK
<1>5. c.pc # "forced" /\ ReqOK(d)
  BY <1>1, <1>2, <1>3, <1>4 DEF Updating, ReqOK, SameCore
<1>6. node' = node /\ queue' = queue /\ del' = del /\ dead' = dead
  BY DEF Updating
<1>7. QED
  BY <1>1, <1>3, <1>4, <1>5, <1>6, QuietMove DEF SameCore

LEMMA NoLockStep ==
    ASSUME CacheInv, NEW r \in Reqs, NoLock(r)
    PROVE  CacheInv'
<1>1. PICK c : c = req[r]
  OBVIOUS
<1>2. ReqOK(c)
  BY <1>1 DEF CacheInv, ReqInv
<1>3. PICK d :
           d = [c EXCEPT !.pc = "fetch"] /\ Becomes(r, d)
  BY <1>1, Zenon DEF NoLock, Fetch
<1>4. d = ReqFields(d) /\ SameCore(d, c)
  BY <1>2, <1>3 DEF ReqFields, SameCore, ReqOK
<1>5. c.pc # "forced" /\ ReqOK(d)
  BY <1>1, <1>2, <1>3, <1>4 DEF NoLock, ReqOK, SameCore
<1>6. node' = node /\ queue' = queue /\ del' = del /\ dead' = dead
  BY DEF NoLock
<1>7. QED
  BY <1>1, <1>3, <1>4, <1>5, <1>6, QuietMove DEF SameCore

LEMMA RevalidatedStep ==
    ASSUME CacheInv, NEW r \in Reqs, Revalidated(r)
    PROVE  CacheInv'
<1>1. PICK c : c = req[r]
  OBVIOUS
<1>2. ReqOK(c)
  BY <1>1 DEF CacheInv, ReqInv
<1>3. PICK d :
           d = [c EXCEPT !.pc = "serve"] /\ Becomes(r, d)
  BY <1>1, Zenon DEF Revalidated
<1>4. d = ReqFields(d) /\ SameCore(d, c)
  BY <1>2, <1>3 DEF ReqFields, SameCore, ReqOK
<1>5. c.pc # "forced" /\ ReqOK(d)
  BY <1>1, <1>2, <1>3, <1>4 DEF Revalidated, ReqOK, SameCore
<1>6. node' = node /\ queue' = queue /\ del' = del /\ dead' = dead
  BY DEF Revalidated
<1>7. QED
  BY <1>1, <1>3, <1>4, <1>5, <1>6, QuietMove DEF SameCore

LEMMA OpenStep ==
    ASSUME CacheInv, NEW r \in Reqs, Open(r)
    PROVE  CacheInv'
<1>1. PICK c : c = req[r]
  OBVIOUS
<1>2. ReqOK(c) /\ c.pc = "open"
  BY <1>1 DEF CacheInv, ReqInv, Open
<1>3. PICK d : /\ Becomes(r, d)
               /\ \/ \E p \in {"lock", "fetch"} : d = [c EXCEPT !.pc = p]
                  \/ \E age : d = [c EXCEPT !.pc = "read", !.cacheable = TRUE,
                                            !.read = age, !.same = TRUE]
  <2>1. CASE Becomes(r, [c EXCEPT !.pc = IF c.cacheable THEN "lock" ELSE "fetch"])
    BY <2>1, Zenon
  <2>2. CASE \E age : Becomes(r, [c EXCEPT !.pc = "read", !.cacheable = TRUE,
                                           !.read = age, !.same = TRUE])
    BY <2>2, Zenon
  <2>3. QED
    BY <1>1, <2>1, <2>2, Zenon DEF Open
<1>4. d = ReqFields(d) /\ SameCore(d, c) /\ d.pc \in {"lock", "fetch", "read"}
  BY <1>2, <1>3 DEF ReqFields, SameCore, ReqOK
<1>5. ReqOK(d)
  BY <1>2, <1>4 DEF ReqOK, SameCore
<1>6. node' = node /\ queue' = queue /\ del' = del /\ dead' = dead
  BY DEF Open
<1>7. QED
  BY <1>1, <1>2, <1>3, <1>4, <1>5, <1>6, QuietMove DEF SameCore

LEMMA BusyStep ==
    ASSUME CacheInv, NEW r \in Reqs, Busy(r)
    PROVE  CacheInv'
<1>1. PICK c : c = req[r]
  OBVIOUS
<1>2. ReqOK(c) /\ c.pc = "lock"
  BY <1>1 DEF CacheInv, ReqInv, Busy
<1>3. PICK d : /\ Becomes(r, d)
               /\ \/ d = [c EXCEPT !.pc = "wait"]
                  \/ d = [c EXCEPT !.pc = "fetch", !.cacheable = FALSE]
  BY <1>1, Zenon DEF Busy
<1>4. d = ReqFields(d) /\ SameCore(d, c) /\ d.pc \in {"wait", "fetch"}
  BY <1>2, <1>3 DEF ReqFields, SameCore, ReqOK
<1>5. ReqOK(d)
  BY <1>2, <1>4 DEF ReqOK, SameCore
<1>6. node' = node /\ queue' = queue /\ del' = del /\ dead' = dead
  BY DEF Busy
<1>7. QED
  BY <1>1, <1>2, <1>3, <1>4, <1>5, <1>6, QuietMove DEF SameCore

\* A bypassed request looks its key up: it has no mark yet, or that of a node
\* it has given back.
LEMMA StoreStep ==
    ASSUME CacheInv, NEW r \in Reqs, Store(r)
    PROVE  CacheInv'
<1>1. PICK c : c = req[r]
  OBVIOUS
<1>2. ReqOK(c) /\ c.pc = "fetch"
  BY <1>1 DEF CacheInv, ReqInv, Store
<1>3. PICK d : /\ Becomes(r, d)
               /\ \/ c.node = None /\ d = [c EXCEPT !.pc = "lookup", !.for = "store"]
                  \/ c.node # None /\ d = [c EXCEPT !.pc = "store"]
  BY <1>1, Zenon DEF Store
<1>4. /\ d = ReqFields(d) /\ d.node = c.node /\ d.key = c.key /\ d.updating = c.updating
      /\ d.lock = c.lock
      /\ \/ d.pc = "lookup" /\ d.for = "store" /\ c.node = None
         \/ d.pc = "store" /\ c.node # None
  BY <1>2, <1>3 DEF ReqFields, ReqOK
<1>5. ReqOK(d)
  BY <1>2, <1>4 DEF ReqOK
<1>6. node' = node /\ queue' = queue /\ del' = del /\ dead' = dead
  BY DEF Store
<1>7. QED
  BY <1>1, <1>2, <1>3, <1>4, <1>5, <1>6, QuietMove

LEMMA StartStep ==
    ASSUME CacheInv, NEW r \in Reqs, Start(r)
    PROVE  CacheInv'
<1>1. PICK k, p, d :
         /\ k \in Keys /\ p \in {"fetch", "lookup"}
         /\ d = [Idle EXCEPT !.key = k, !.pc = p] /\ Becomes(r, d)
  BY Zenon DEF Start
<1>2. ReqOK(d) /\ d.node = None
  BY <1>1, CacheAssumption DEF Idle, ReqFields, ReqOK
<1>3. req[r].pc = "idle" /\ ReqOK(req[r])
  BY DEF CacheInv, ReqInv, Start
<1>4. req[r].node = None
  BY <1>3 DEF ReqOK
<1>5. node' = node /\ queue' = queue /\ del' = del /\ dead' = dead
  BY DEF Start
<1>6. QED
  BY <1>1, <1>2, <1>3, <1>4, <1>5, QuietMove

\* The steps that change what the node says.
LEMMA ReadStep ==
    ASSUME CacheInv, NEW r \in Reqs, Read(r)
    PROVE  CacheInv'
<1>1. PICK c : c = req[r]
  OBVIOUS
<1>2. ReqOK(c) /\ c.pc = "read"
  BY <1>1 DEF CacheInv, ReqInv, Read
<1>3. PICK n \in Nodes : n = req[r].node
  BY <1>1, <1>2 DEF ReqOK
<1>4. PICK g : g = node[n]
  OBVIOUS
<1>5. PICK f : /\ node' = Set(node, n, f) /\ queue' = queue
               /\ f = g \/ f = [g EXCEPT !.uses = 1, !.exists = TRUE, !.size = 1]
  BY <1>3, <1>4, Zenon DEF Read, Keep
<1>6. g = NodeFields(g)
  BY <1>4 DEF CacheInv, NodeInv
<1>7. /\ f = NodeFields(f) /\ f.key = g.key /\ f.count = g.count
      /\ f.deleting = g.deleting /\ f.updating = g.updating /\ f.lock = g.lock
  BY <1>5, <1>6 DEF NodeFields
<1>8. PICK p, d :
         p \in {"serve", "check"} /\ d = [c EXCEPT !.pc = p] /\ Becomes(r, d)
  BY <1>1, Zenon DEF Read
<1>9. d = ReqFields(d) /\ SameCore(d, c) /\ d.pc = p
  BY <1>2, <1>8 DEF ReqFields, SameCore, ReqOK
<1>10. ReqOK(d)
  BY <1>2, <1>8, <1>9 DEF ReqOK, SameCore
<1>11. del' = del /\ dead' = dead
  BY DEF Read
<1>12. /\ req[r].pc # "forced" /\ d.node = req[r].node
       /\ req[r].updating => d.updating /\ d.lock = req[r].lock
       /\ f.key = node[n].key /\ f.count = node[n].count /\ f.deleting = node[n].deleting
       /\ f.updating => \/ node[n].updating /\ f.lock = node[n].lock
                        \/ d.updating /\ d.lock = f.lock
  BY <1>1, <1>2, <1>4, <1>7, <1>9 DEF SameCore
<1>13. QED
  BY <1>3, <1>5, <1>7, <1>8, <1>10, <1>11, <1>12, KeepMove

LEMMA LockStep ==
    ASSUME CacheInv, NEW r \in Reqs, Lock(r)
    PROVE  CacheInv'
<1>1. PICK c : c = req[r]
  OBVIOUS
<1>2. ReqOK(c) /\ c.pc = "lock"
  BY <1>1 DEF CacheInv, ReqInv, Lock
<1>3. PICK n \in Nodes : n = req[r].node
  BY <1>1, <1>2 DEF ReqOK
<1>4. PICK g : g = node[n]
  OBVIOUS
<1>5. PICK l, f, d :
         /\ node' = Set(node, n, f) /\ queue' = queue
         /\ f = [g EXCEPT !.updating = TRUE, !.lock = l, !.aged = FALSE]
         /\ d = [c EXCEPT !.pc = "fetch", !.updating = TRUE, !.lock = l] /\ Becomes(r, d)
  BY <1>1, <1>3, <1>4, Zenon DEF Lock, Keep
<1>6. g = NodeFields(g)
  BY <1>4 DEF CacheInv, NodeInv
<1>7. /\ f = NodeFields(f) /\ f.key = g.key /\ f.count = g.count
      /\ f.deleting = g.deleting /\ f.lock = l
  BY <1>5, <1>6 DEF NodeFields
<1>8. /\ d = ReqFields(d) /\ d.node = c.node /\ d.key = c.key /\ d.pc = "fetch"
      /\ d.updating = TRUE /\ d.lock = l
  BY <1>2, <1>5 DEF ReqFields, ReqOK
<1>9. ReqOK(d) /\ ~c.updating
  BY <1>2, <1>8 DEF ReqOK
<1>10. del' = del /\ dead' = dead
  BY DEF Lock
<1>11. /\ req[r].pc # "forced" /\ d.node = req[r].node
       /\ req[r].updating => d.updating /\ d.lock = req[r].lock
       /\ f.key = node[n].key /\ f.count = node[n].count /\ f.deleting = node[n].deleting
       /\ f.updating => \/ node[n].updating /\ f.lock = node[n].lock
                        \/ d.updating /\ d.lock = f.lock
  BY <1>1, <1>2, <1>4, <1>7, <1>8, <1>9
<1>12. node' = Set(node, n, f) /\ queue' = queue /\ Becomes(r, d)
  BY <1>5
<1>13. QED
  BY <1>3, <1>7, <1>9, <1>10, <1>11, <1>12, KeepMove

LEMMA WakeStep ==
    ASSUME CacheInv, NEW r \in Reqs, Wake(r)
    PROVE  CacheInv'
<1>1. PICK c : c = req[r]
  OBVIOUS
<1>2. ReqOK(c) /\ c.pc = "wait"
  BY <1>1 DEF CacheInv, ReqInv, Wake
<1>3. PICK n \in Nodes : n = req[r].node
  BY <1>1, <1>2 DEF ReqOK
<1>4. PICK g : g = node[n]
  OBVIOUS
<1>5. PICK w, d :
         /\ d = [c EXCEPT !.pc = "lookup", !.waited = w] /\ Becomes(r, d)
         /\ \/ node' = node
            \/ \E b, f : f = [g EXCEPT !.aged = b] /\ node' = Set(node, n, f)
  BY <1>1, <1>3, <1>4, Zenon DEF Wake
<1>6. g = NodeFields(g)
  BY <1>4 DEF CacheInv, NodeInv
<1>7. d = ReqFields(d) /\ SameCore(d, c) /\ d.pc = "lookup"
  BY <1>2, <1>5 DEF ReqFields, SameCore, ReqOK
<1>8. ReqOK(d)
  BY <1>2, <1>7 DEF ReqOK, SameCore
<1>9. queue' = queue /\ del' = del /\ dead' = dead
  BY DEF Wake
<1>10. CASE node' = node
  BY <1>1, <1>2, <1>5, <1>7, <1>8, <1>9, <1>10, QuietMove DEF SameCore
<1>11. CASE \E b, f : f = [g EXCEPT !.aged = b] /\ node' = Set(node, n, f)
  <2>1. PICK b, f : f = [g EXCEPT !.aged = b] /\ node' = Set(node, n, f)
    BY <1>11
  <2>2. /\ f = NodeFields(f) /\ f.key = g.key /\ f.count = g.count
        /\ f.deleting = g.deleting /\ f.updating = g.updating /\ f.lock = g.lock
    BY <1>6, <2>1 DEF NodeFields
  <2>3. /\ req[r].pc # "forced" /\ d.node = req[r].node
        /\ req[r].updating => d.updating /\ d.lock = req[r].lock
        /\ f.key = node[n].key /\ f.count = node[n].count /\ f.deleting = node[n].deleting
        /\ f.updating => \/ node[n].updating /\ f.lock = node[n].lock
                         \/ d.updating /\ d.lock = f.lock
    BY <1>1, <1>2, <1>4, <1>7, <2>2 DEF SameCore
  <2>4. node' = Set(node, n, f) /\ Becomes(r, d)
    BY <1>5, <2>1
  <2>5. QED
    BY <1>3, <1>8, <1>9, <2>2, <2>3, <2>4, KeepMove
<1>12. QED
  BY <1>5, <1>10, <1>11

\* What a request has once it has its node: still its mark, if any.
LEMMA AfterIs ==
    ASSUME CacheInv, NEW r \in Reqs, req[r].pc \in {"lookup", "alloc"},
           NEW n \in Nodes, NEW f, NEW rc
    PROVE  /\ ReqOK(After(r, n, f, rc)) /\ After(r, n, f, rc).node = n
           /\ After(r, n, f, rc).updating = req[r].updating
           /\ After(r, n, f, rc).lock = req[r].lock
<1>1. PICK a : a = req[r]
  OBVIOUS
<1>2. ReqOK(a) /\ n # None
  BY <1>1, CacheAssumption DEF CacheInv, ReqInv
<1>3. PICK e, c : c = [a EXCEPT !.node = n, !.error = e] /\ e = f.error
  OBVIOUS
<1>4. /\ c = ReqFields(c) /\ c.node = n /\ c.key = a.key /\ c.for = a.for
      /\ c.updating = a.updating /\ c.lock = a.lock
  BY <1>2, <1>3 DEF ReqOK, ReqFields
<1>5. PICK d : d = After(r, n, f, rc)
  OBVIOUS
<1>6. \/ d = [c EXCEPT !.pc = "store"]
      \/ /\ c.for # "store"
         /\ \/ d = [c EXCEPT !.pc = "fetch", !.cacheable = FALSE]
            \/ \E p \in {"serve", "open", "lock"} : d = [c EXCEPT !.pc = p]
            \/ \E b : \E p \in {"open", "lock", "fetch"} :
                  d = [c EXCEPT !.cacheable = b, !.pc = p]
  BY <1>1, <1>3, <1>5, Zenon DEF After
<1>7. /\ d = ReqFields(d) /\ SameCore(d, c)
      /\ d.pc \in {"store", "fetch", "serve", "open", "lock"}
      /\ d.pc = "store" \/ c.for # "store"
  BY <1>4, <1>6 DEF ReqFields, SameCore
<1>8. ReqOK(d)
  BY <1>1, <1>2, <1>4, <1>7 DEF ReqOK, SameCore
<1>9. QED
  BY <1>1, <1>4, <1>5, <1>7, <1>8 DEF SameCore

LEMMA FoundStep ==
    ASSUME CacheInv, NEW r \in Reqs, Found(r)
    PROVE  CacheInv'
<1>1. req[r].pc = "lookup" /\ ReqOK(req[r]) /\ del' = del /\ dead' = dead
  BY DEF CacheInv, ReqInv, Found
<1>2. PICK n, f, g, rc :
         /\ n \in Nodes
         /\ IF req[r].node = None THEN node[n].key = req[r].key ELSE n = req[r].node
         /\ IF req[r].node = None
            THEN f = [node[n] EXCEPT !.uses = Min({2, @ + 1}), !.count = @ + 1]
            ELSE f = node[n]
         /\ g = f \/ g = Renewed(f)
         /\ node' = Set(node, n, g) /\ queue' = Touched(n)
         /\ Becomes(r, After(r, n, g, rc))
  BY Zenon DEF Found
<1> n \in Nodes
  BY <1>2
<1>3. PICK a : a = node[n]
  OBVIOUS
<1>4. a = NodeFields(a)
  BY <1>3 DEF CacheInv, NodeInv
<1>5. /\ f = NodeFields(f) /\ f.key = a.key /\ f.deleting = a.deleting
      /\ f.updating = a.updating /\ f.lock = a.lock
      /\ f.count = IF req[r].node = None THEN a.count + 1 ELSE a.count
  <2>1. CASE req[r].node = None
    <3>1. PICK u, x : f = [a EXCEPT !.uses = u, !.count = x] /\ x = a.count + 1
      BY <1>2, <1>3, <2>1, Zenon
    <3>2. QED
      BY <1>4, <2>1, <3>1 DEF NodeFields
  <2>2. CASE req[r].node # None
    BY <1>2, <1>3, <1>4, <2>2
  <2>3. QED
    BY <2>1, <2>2
<1>6. /\ g = NodeFields(g) /\ g.key = a.key /\ g.deleting = a.deleting
      /\ g.updating = a.updating /\ g.lock = a.lock /\ g.count = f.count
  <2>1. CASE g = f
    BY <1>5, <2>1
  <2>2. CASE g = Renewed(f)
    BY <1>5, <2>2 DEF Renewed, NodeFields
  <2>3. QED
    BY <1>2, <2>1, <2>2
<1>7. PICK d : d = After(r, n, g, rc)
  OBVIOUS
<1>8. /\ ReqOK(d) /\ d.node = n /\ d.updating = req[r].updating /\ d.lock = req[r].lock
      /\ Becomes(r, d)
  BY <1>1, <1>2, <1>7, AfterIs
<1>9. node' = [m \in Nodes |-> IF m = n THEN g ELSE node[m]]
  BY <1>2 DEF Set, CacheInv, NodeInv
<1>10. CASE req[r].node = None
  <2>1. node[n].key # None
    BY <1>1, <1>2, <1>10 DEF ReqOK
  <2>2. ReqInv' /\ req'[r].node = n /\ \A s \in Reqs \ {r} : req'[s] = req[s]
    BY <1>1, <1>8, RequestMoves DEF SameCore, CacheInv
  <2>3. /\ node' = [m \in Nodes |-> node'[m]] /\ \A m \in Nodes \ {n} : node'[m] = node[m]
        /\ node'[n] = NodeFields(node'[n]) /\ node'[n].key # None
        /\ node'[n].deleting = node[n].deleting
        /\ node'[n].updating = node[n].updating /\ node'[n].lock = node[n].lock
        /\ node'[n].count = node[n].count + 1
    BY <1>3, <1>5, <1>6, <1>9, <1>10, <2>1
  <2>4. queue' = Touched(n)
    BY <1>2
  <2>5. QED
    BY <1>1, <1>10, <2>2, <2>3, <2>4, GainStep
<1>11. CASE req[r].node # None
  <2>1. n = req[r].node /\ g.count = node[n].count
    BY <1>2, <1>3, <1>5, <1>6, <1>11
  <2>2. node' = Set(node, n, g) /\ queue' = Touched(n)
    BY <1>2
  <2>3. /\ req[r].pc # "forced" /\ d.node = req[r].node
        /\ req[r].updating => d.updating /\ d.lock = req[r].lock
        /\ g.key = node[n].key /\ g.count = node[n].count /\ g.deleting = node[n].deleting
        /\ g.updating => node[n].updating /\ g.lock = node[n].lock
    BY <1>1, <1>3, <1>6, <1>8, <2>1
  <2>4. QED
    BY <1>1, <1>6, <1>8, <2>1, <2>2, <2>3, KeepMove
<1>12. QED
  BY <1>10, <1>11

\* A new node is the request's.
LEMMA InsertStep ==
    ASSUME CacheInv, NEW r \in Reqs, req[r].pc \in {"lookup", "alloc"}, req[r].node = None,
           NEW n \in Nodes, Insert(r, n), del' = del, dead' = dead
    PROVE  CacheInv'
<1>1. ReqOK(req[r]) /\ req[r].key # None
  BY DEF CacheInv, ReqInv, ReqOK
<1>2. PICK k : k = req[r].key
  OBVIOUS
<1>3. PICK f : f = [FreeNode EXCEPT !.key = k, !.uses = 1, !.count = 1]
  OBVIOUS
<1>4. /\ node[n].key = None /\ node' = Set(node, n, f) /\ queue' = Touched(n)
      /\ Becomes(r, After(r, n, f, "declined"))
  BY <1>2, <1>3, Zenon DEF Insert
<1>5. /\ f = NodeFields(f) /\ f.key = k /\ f.count = 1 /\ ~f.deleting /\ ~f.updating
  BY <1>3 DEF FreeNode, NodeFields
<1>6. node[n].count = 0
  BY <1>4 DEF CacheInv, CountExact, FreeNode
<1>7. PICK d : d = After(r, n, f, "declined")
  OBVIOUS
<1>8. ReqOK(d) /\ d.node = n /\ Becomes(r, d)
  BY <1>4, <1>7, AfterIs
<1>9. ReqInv' /\ req'[r].node = n /\ \A s \in Reqs \ {r} : req'[s] = req[s]
  BY <1>8, RequestMoves DEF SameCore, CacheInv
<1>10. node' = [m \in Nodes |-> IF m = n THEN f ELSE node[m]]
  BY <1>4 DEF Set, CacheInv, NodeInv
<1>11. /\ node' = [m \in Nodes |-> node'[m]] /\ \A m \in Nodes \ {n} : node'[m] = node[m]
       /\ node'[n] = NodeFields(node'[n]) /\ node'[n].key # None
       /\ ~node'[n].deleting /\ ~node'[n].updating
       /\ node'[n].count = node[n].count + 1
  BY <1>1, <1>2, <1>5, <1>6, <1>10
<1>12. queue' = Touched(n)
  BY <1>4
<1>13. QED
  BY <1>9, <1>11, <1>12, GainStep

LEMMA NotFoundStep ==
    ASSUME CacheInv, NEW r \in Reqs, NotFound(r)
    PROVE  CacheInv'
<1>1. PICK n \in Nodes : Insert(r, n)
  BY DEF NotFound
<1>2. req[r].pc = "lookup" /\ req[r].node = None /\ del' = del /\ dead' = dead
  BY DEF NotFound, Missing
<1>3. QED
  BY <1>1, <1>2, InsertStep

LEMMA RetryStep ==
    ASSUME CacheInv, NEW r \in Reqs, Retry(r)
    PROVE  CacheInv'
<1>1. req[r].pc = "alloc" /\ ReqOK(req[r]) /\ del' = del /\ dead' = dead
  BY DEF Retry, CacheInv, ReqInv
<1>2. req[r].node = None
  BY <1>1 DEF ReqOK
<1>3. CASE \E n \in Nodes : Insert(r, n)
  BY <1>1, <1>2, <1>3, InsertStep
<1>4. CASE Becomes(r, Idle) /\ UNCHANGED <<node, queue>>
  <2>1. PICK d : d = Idle
    OBVIOUS
  <2>2. ReqOK(d) /\ d.node = None /\ Becomes(r, d)
    BY <1>4, <2>1 DEF Idle, ReqFields, ReqOK
  <2>3. QED
    BY <1>1, <1>2, <1>4, <2>2, QuietMove
<1>5. QED
  BY <1>3, <1>4 DEF Retry

\* The loader finds a file nobody knows of yet.
LEMMA LoadNew ==
    ASSUME CacheInv, NEW n \in Nodes, node[n].key = None, NEW f, f = NodeFields(f),
           f.key # None, f.count = 0, ~f.deleting, ~f.updating,
           node' = Set(node, n, f), queue' = Touched(n), UNCHANGED <<req, del, dead>>
    PROVE  CacheInv'
<1>1. node' = [m \in Nodes |-> IF m = n THEN f ELSE node[m]]
  BY DEF Set, CacheInv, NodeInv
<1>2. \A m : Users(m)' = Users(m) /\ DeletedBy(m)' = DeletedBy(m)
  BY DEF Users, DeletedBy
<1>3. ReqInv'
  BY DEF CacheInv, ReqInv, DelOK
<1>4. QueueOf(queue', Allocated')
  <2>1. Allocated' = Allocated \cup {n}
    BY <1>1 DEF Allocated
  <2>2. QueueOf(Touched(n), Allocated \cup {n})
    BY TouchedOf DEF CacheInv, NodeInv
  <2>3. QED
    BY <2>1, <2>2, Zenon
<1>5. NodeInv'
  BY <1>1, <1>4 DEF CacheInv, NodeInv
<1>6. node[n].count = 0
  BY DEF CacheInv, CountExact, FreeNode
<1>7. CountExact'
  <2>1. \A m \in Nodes : node'[m].key # None <=> Contains(queue', m)
    <3>1. \A m : m \in Allocated' <=> Contains(queue', m)
      BY <1>4, Queued
    <3>2. QED
      BY <3>1 DEF Allocated
  <2>2. ASSUME NEW m \in Nodes
        PROVE  /\ node'[m].count =
                     Cardinality(Users(m)') + Cardinality(DeletedBy(m)') + dead'[m]
               /\ node'[m].deleting => DeletedBy(m)' # {} \/ dead'[m] > 0
               /\ node'[m].key = None => node'[m] = FreeNode
    BY <1>1, <1>2, <1>6 DEF CacheInv, CountExact
  <2>3. QED
    BY <2>1, <2>2 DEF CountExact
<1>8. UpdatingOwned'
  BY <1>1, <1>2 DEF CacheInv, UpdatingOwned
<1>9. QED
  BY <1>3, <1>5, <1>7, <1>8 DEF CacheInv

-----------------------------------------------------------------------------
(* The steps that change no node. *)

LEMMA CoreStep ==
    ASSUME CacheInv, ReqInv', \A s \in Reqs : SameCore(req'[s], req[s]),
           \A d \in Deleters : del'[d].node = del[d].node,
           node' = node, dead' = dead, QueueOf(queue', Allocated)
    PROVE  CacheInv'
<1>1. /\ \A s \in Reqs : req'[s].node = req[s].node
      /\ \A s \in Reqs : req[s].updating /\ req[s].node # None =>
                            req'[s].updating /\ req'[s].lock = req[s].lock
  BY DEF SameCore
<1>2. /\ node' = [n \in Nodes |-> node'[n]]
      /\ \A n \in Nodes : node'[n] = NodeFields(node'[n])
  BY DEF CacheInv, NodeInv
<1>3. QED
  BY <1>1, <1>2, QuietStep

\* The file of a key is another one: the requests that read it have the old one.
LEMMA ReplacedIs ==
    ASSUME ReqInv, NEW k, NEW s \in Reqs
    PROVE  /\ ReqOK(Replaced(k, req)[s]) /\ SameCore(Replaced(k, req)[s], req[s])
           /\ Replaced(k, req)[s].pc = req[s].pc
<1>1. PICK c : c = req[s]
  OBVIOUS
<1>2. ReqOK(c)
  BY <1>1 DEF ReqInv
<1>3. PICK d : d = Replaced(k, req)[s]
  OBVIOUS
<1>4. d = c \/ d = [c EXCEPT !.same = FALSE]
  BY <1>1, <1>3 DEF Replaced
<1>5. d = ReqFields(d) /\ SameCore(d, c) /\ d.pc = c.pc
  BY <1>2, <1>4 DEF ReqFields, SameCore, ReqOK
<1>6. ReqOK(d)
  BY <1>2, <1>5 DEF ReqOK, SameCore
<1>7. QED
  BY <1>1, <1>3, <1>5, <1>6

\* A file is deleted, and the request or the process that did may go on.
LEMMA UnlinkStep ==
    ASSUME CacheInv, NEW d \in Deleters, Unlink(d) \/ UnlinkFails(d)
    PROVE  CacheInv'
<1>1. /\ del[d].pc = "unlink" /\ node' = node /\ queue' = queue /\ dead' = dead
      /\ del' = [e \in Deleters |-> IF e = d THEN [del[d] EXCEPT !.pc = "relock"] ELSE del[e]]
      /\ req' = req \/ \E k : req' = Replaced(k, req)
  BY DEF Unlink, UnlinkFails, Set, CacheInv, ReqInv
<1>2. /\ req' = [s \in Reqs |-> req'[s]]
      /\ \A s \in Reqs : ReqOK(req'[s]) /\ SameCore(req'[s], req[s]) /\ req'[s].pc = req[s].pc
  <2>1. CASE req' = req
    BY <2>1 DEF CacheInv, ReqInv, SameCore
  <2>2. CASE \E k : req' = Replaced(k, req)
    <3>1. PICK k : req' = Replaced(k, req)
      BY <2>2
    <3>2. req' = [s \in Reqs |-> req'[s]]
      BY <3>1 DEF Replaced
    <3>3. QED
      BY <3>1, <3>2, ReplacedIs DEF CacheInv
  <2>3. QED
    BY <1>1, <2>1, <2>2
<1>3. ASSUME NEW e \in Deleters PROVE DelOK(e)' /\ del'[e].node = del[e].node
  <2>1. DelOK(e)
    BY DEF CacheInv, ReqInv
  <2>2. QED
    BY <1>1, <1>2, <2>1 DEF DelOK
<1>4. ReqInv'
  BY <1>1, <1>2, <1>3 DEF ReqInv
<1>5. QED
  BY <1>1, <1>2, <1>3, <1>4, CoreStep DEF CacheInv, NodeInv

LEMMA LoaderUnlinkStep ==
    ASSUME CacheInv, LoaderUnlink
    PROVE  CacheInv'
<1>1. UNCHANGED <<node, queue, del, dead>>
  BY DEF LoaderUnlink
<1>2. PICK k : req' = Replaced(k, req)
  BY DEF LoaderUnlink
<1>3. \A s \in Reqs : ReqOK(req'[s]) /\ SameCore(req'[s], req[s]) /\ req'[s].pc = req[s].pc
  BY <1>2, ReplacedIs DEF CacheInv
<1>4. req' = [s \in Reqs |-> req'[s]]
  BY <1>2 DEF Replaced
<1>5. ReqInv'
  BY <1>1, <1>3, <1>4 DEF CacheInv, ReqInv, DelOK
<1>6. QED
  BY <1>1, <1>3, <1>5, CoreStep DEF CacheInv, NodeInv

\* The response is in place, or is not.
LEMMA RenameStep ==
    ASSUME CacheInv, NEW r \in Reqs, Rename(r) \/ RenameFails(r)
    PROVE  CacheInv'
<1>1. req[r].pc = "store" /\ UNCHANGED <<node, queue, del, dead>>
  BY DEF Rename, RenameFails
<1>2. PICK c : c = req[r]
  OBVIOUS
<1>p. PICK p \in {"renamed", "unrenamed"} : \E q :
         /\ req' = Set(q, r, [c EXCEPT !.pc = p])
         /\ q = req \/ \E k : q = Replaced(k, req)
  BY <1>2, Zenon DEF Rename, RenameFails
<1>q. PICK q : /\ req' = Set(q, r, [c EXCEPT !.pc = p])
               /\ q = req \/ \E k : q = Replaced(k, req)
  BY <1>p, Zenon
<1>3. PICK d : /\ d = [c EXCEPT !.pc = p] /\ req' = Set(q, r, d)
               /\ q = req \/ \E k : q = Replaced(k, req)
  BY <1>q, Zenon
<1>4. /\ q = [s \in Reqs |-> q[s]]
      /\ \A s \in Reqs : ReqOK(q[s]) /\ SameCore(q[s], req[s]) /\ q[s].pc = req[s].pc
  <2>1. CASE q = req
    BY <2>1 DEF CacheInv, ReqInv, SameCore
  <2>2. CASE \E k : q = Replaced(k, req)
    <3>1. PICK k : q = Replaced(k, req)
      BY <2>2
    <3>2. q = [s \in Reqs |-> q[s]]
      BY <3>1 DEF Replaced
    <3>3. QED
      BY <3>1, <3>2, ReplacedIs DEF CacheInv
  <2>3. QED
    BY <1>3, <2>1, <2>2
<1>5. ReqOK(d) /\ SameCore(d, c)
  <2>1. ReqOK(c)
    BY <1>2 DEF CacheInv, ReqInv
  <2>2. d = ReqFields(d) /\ SameCore(d, c) /\ d.pc = p
    BY <1>3, <2>1 DEF ReqFields, SameCore, ReqOK
  <2>3. QED
    BY <1>1, <1>2, <1>3, <2>1, <2>2 DEF ReqOK, SameCore
<1>6. req' = [s \in Reqs |-> IF s = r THEN d ELSE q[s]]
  <2>1. req' = Set(q, r, d)
    BY <1>3
  <2>2. QED
    BY <1>4, <2>1 DEF Set
<1>7. \A s \in Reqs : ReqOK(req'[s]) /\ SameCore(req'[s], req[s])
  BY <1>2, <1>4, <1>5, <1>6
<1>8. ASSUME NEW e \in Deleters PROVE DelOK(e)'
  <2>1. DelOK(e)
    BY DEF CacheInv, ReqInv
  <2>2. e \in Reqs /\ del[e].pc # "no" => req'[e].pc = "forced"
    BY <1>1, <1>4, <1>6, <2>1 DEF DelOK
  <2>3. QED
    BY <1>1, <2>1, <2>2 DEF DelOK
<1>9. ReqInv'
  BY <1>1, <1>6, <1>7, <1>8 DEF CacheInv, ReqInv
<1>10. QED
  BY <1>1, <1>7, <1>9, CoreStep DEF CacheInv, NodeInv

LEMMA SameStep ==
    ASSUME CacheInv, UNCHANGED <<node, req, del, dead>>, QueueOf(queue', Allocated)
    PROVE  CacheInv'
<1>1. ReqInv'
  BY DEF CacheInv, ReqInv, DelOK
<1>2. \A s \in Reqs : SameCore(req'[s], req[s])
  BY DEF SameCore
<1>3. QED
  BY <1>1, <1>2, CoreStep

LEMMA LoadStep ==
    ASSUME CacheInv, NEW k \in Keys, Load(k)
    PROVE  CacheInv'
<1>1. UNCHANGED <<req, del, dead>> /\ k # None
  BY CacheAssumption DEF Load
<1>2. QueueOf(queue, Allocated)
  BY DEF CacheInv, NodeInv
<1>3. CASE UNCHANGED <<node, queue>>
  BY <1>1, <1>2, <1>3, SameStep
<1>4. CASE node' = node /\ \E n \in Nodes : node[n].key = k /\ queue' = Touched(n)
  <2>1. PICK n \in Nodes : node[n].key = k /\ queue' = Touched(n)
    BY <1>4
  <2>2. Allocated \cup {n} = Allocated
    BY <1>1, <2>1 DEF Allocated
  <2>3. QueueOf(Touched(n), Allocated \cup {n})
    BY <1>2, TouchedOf
  <2>4. QueueOf(queue', Allocated)
    BY <2>1, <2>2, <2>3, Zenon
  <2>5. QED
    BY <1>1, <1>4, <2>4, SameStep
<1>5. CASE \E n \in Nodes :
              /\ node[n].key = None
              /\ node' = Set(node, n, [FreeNode EXCEPT !.key = k, !.uses = 1,
                                         !.exists = TRUE, !.size = 1])
              /\ queue' = Touched(n)
  <2>1. PICK n, f :
           /\ n \in Nodes
           /\ node[n].key = None /\ node' = Set(node, n, f) /\ queue' = Touched(n)
           /\ f = [FreeNode EXCEPT !.key = k, !.uses = 1, !.exists = TRUE, !.size = 1]
    BY <1>5, Zenon
  <2>2. f = NodeFields(f) /\ f.key = k /\ f.count = 0 /\ ~f.deleting /\ ~f.updating
    BY <2>1 DEF FreeNode, NodeFields
  <2>3. /\ n \in Nodes /\ node[n].key = None
        /\ node' = Set(node, n, f) /\ queue' = Touched(n)
    BY <2>1
  <2>4. QED
    BY <1>1, <2>2, <2>3, LoadNew
<1>6. QED
  BY <1>3, <1>4, <1>5, Zenon DEF Load

\* The request marks the node, and may leave the update to another request.
LEMMA StaleStep ==
    ASSUME CacheInv, NEW r \in Reqs, Stale(r)
    PROVE  CacheInv'
<1>1. PICK a : a = req[r]
  OBVIOUS
<1>2. ReqOK(a) /\ a.pc = "check" /\ del' = del /\ dead' = dead
  BY <1>1 DEF CacheInv, ReqInv, Stale
<1>3. PICK n \in Nodes : n = req[r].node
  BY <1>1, <1>2 DEF ReqOK
<1>4. PICK g : g = node[n]
  OBVIOUS
<1>5. PICK f : f = [g EXCEPT !.updating = TRUE] /\ node' = Set(node, n, f) /\ queue' = queue
  BY <1>3, <1>4, Zenon DEF Stale, Keep
<1>6. g = NodeFields(g)
  BY <1>4 DEF CacheInv, NodeInv
<1>7. /\ f = NodeFields(f) /\ f.key = g.key /\ f.count = g.count
      /\ f.deleting = g.deleting /\ f.lock = g.lock
  BY <1>5, <1>6 DEF NodeFields
<1>8. PICK l, c : c = [a EXCEPT !.updating = TRUE, !.lock = l] /\ l = node[n].lock
  OBVIOUS
<1>9. /\ c = ReqFields(c) /\ c.node = a.node /\ c.key = a.key /\ c.pc = "check"
      /\ c.updating = TRUE /\ c.lock = g.lock
  BY <1>2, <1>4, <1>8 DEF ReqOK, ReqFields
<1>10. \/ Becomes(r, [c EXCEPT !.pc = "fetch"])
       \/ \E s \in Reqs : \E k \in {c.key, c.main} :
             /\ req[s].pc = "idle" /\ k # None
             /\ req' = [req EXCEPT ![r] = [c EXCEPT !.pc = "serve"],
                                   ![s] = [Idle EXCEPT !.pc = "lookup", !.key = k,
                                             !.parent = r]]
  <2>1. c.key # None
    BY <1>2, <1>9 DEF ReqOK
  <2>2. QED
    BY <1>1, <1>3, <1>8, <2>1, Zenon DEF Stale
<1>11. ~a.updating
  BY <1>2 DEF ReqOK
<1>12. CASE Becomes(r, [c EXCEPT !.pc = "fetch"])
  <2>1. PICK d : d = [c EXCEPT !.pc = "fetch"] /\ Becomes(r, d)
    BY <1>12, Zenon
  <2>2. /\ d = ReqFields(d) /\ d.node = a.node /\ d.key = a.key /\ d.pc = "fetch"
        /\ d.updating = TRUE /\ d.lock = g.lock
    BY <1>9, <2>1 DEF ReqFields
  <2>3. ReqOK(d)
    BY <1>2, <2>2 DEF ReqOK
  <2>4. /\ req[r].pc # "forced" /\ d.node = req[r].node
        /\ req[r].updating => d.updating /\ d.lock = req[r].lock
        /\ f.key = node[n].key /\ f.count = node[n].count /\ f.deleting = node[n].deleting
        /\ f.updating => d.updating /\ d.lock = f.lock
    BY <1>1, <1>2, <1>4, <1>7, <1>11, <2>2
  <2>5. node' = Set(node, n, f) /\ queue' = queue /\ Becomes(r, d)
    BY <1>5, <2>1
  <2>6. QED
    BY <1>2, <1>3, <1>7, <2>3, <2>4, <2>5, KeepMove
<1>13. CASE \E s \in Reqs : \E k \in {c.key, c.main} :
               /\ req[s].pc = "idle" /\ k # None
               /\ req' = [req EXCEPT ![r] = [c EXCEPT !.pc = "serve"],
                                     ![s] = [Idle EXCEPT !.pc = "lookup", !.key = k,
                                               !.parent = r]]
  <2>s. PICK s \in Reqs : \E k \in {c.key, c.main} :
           /\ req[s].pc = "idle" /\ k # None
           /\ req' = [req EXCEPT ![r] = [c EXCEPT !.pc = "serve"],
                                 ![s] = [Idle EXCEPT !.pc = "lookup", !.key = k,
                                           !.parent = r]]
    BY <1>13, Zenon
  <2>k. PICK k \in {c.key, c.main} :
           /\ req[s].pc = "idle" /\ k # None
           /\ req' = [req EXCEPT ![r] = [c EXCEPT !.pc = "serve"],
                                 ![s] = [Idle EXCEPT !.pc = "lookup", !.key = k,
                                           !.parent = r]]
    BY <2>s, Zenon
  <2>1. PICK d, e :
           /\ req[s].pc = "idle" /\ k # None
           /\ d = [c EXCEPT !.pc = "serve"]
           /\ e = [Idle EXCEPT !.pc = "lookup", !.key = k, !.parent = r]
           /\ req' = [req EXCEPT ![r] = d, ![s] = e]
    BY <2>k, Zenon
  <2>2. /\ d = ReqFields(d) /\ d.node = a.node /\ d.key = a.key /\ d.pc = "serve"
        /\ d.updating = TRUE /\ d.lock = g.lock
    BY <1>9, <2>1 DEF ReqFields
  <2>3. ReqOK(d)
    BY <1>2, <2>2 DEF ReqOK
  <2>4. ReqOK(e) /\ e.node = None /\ e.pc = "lookup"
    BY <2>1 DEF ReqOK, ReqFields, Idle
  <2>5. /\ s # r /\ req[s].pc = "idle"
        /\ req' = [x \in Reqs |-> IF x = s THEN e ELSE IF x = r THEN d ELSE req[x]]
    <3>1. req = [x \in Reqs |-> req[x]]
      BY DEF CacheInv, ReqInv
    <3>2. req[s].pc = "idle" /\ req' = [req EXCEPT ![r] = d, ![s] = e]
      BY <2>1
    <3>3. QED
      BY <1>1, <1>2, <3>1, <3>2
  <2>6. req[s].node = None
    BY <2>5 DEF CacheInv, ReqInv, ReqOK
  <2>7. ReqInv'
    <3>1. \A x \in Reqs : ReqOK(req'[x])
      BY <2>3, <2>4, <2>5 DEF CacheInv, ReqInv
    <3>2. \A x \in Deleters : DelOK(x)'
      BY <1>1, <1>2, <2>5 DEF CacheInv, ReqInv, DelOK
    <3>3. QED
      BY <1>2, <2>5, <3>1, <3>2 DEF CacheInv, ReqInv
  <2>8. /\ \A x \in Reqs : req'[x].node = req[x].node
        /\ \A x \in Reqs : req[x].updating /\ req[x].node # None =>
                              req'[x].updating /\ req'[x].lock = req[x].lock
    BY <1>1, <1>11, <2>2, <2>4, <2>5, <2>6
  <2>9. node' = [m \in Nodes |-> IF m = n THEN f ELSE node[m]] /\ queue' = queue
    BY <1>5 DEF Set, CacheInv, NodeInv
  <2>10. node[n].key # None
    <3>1. r \in Users(n)
      BY <1>3 DEF Users
    <3>2. QED
      BY <3>1, RefsAre
  <2>11. /\ node' = [m \in Nodes |-> node'[m]]
         /\ \A m \in Nodes :
               /\ node'[m] = NodeFields(node'[m]) /\ node'[m].count = node[m].count
               /\ node'[m].key = node[m].key /\ node'[m].deleting = node[m].deleting
               /\ node[m].key = None => node'[m] = node[m]
    BY <1>4, <1>7, <2>9, <2>10 DEF CacheInv, NodeInv
  <2>12. req'[r] = d /\ d.node = n
    BY <1>1, <1>3, <2>2, <2>5
  <2>13. \A m \in Nodes : node'[m].updating =>
            \/ node[m].updating /\ node'[m].lock = node[m].lock
            \/ \E x \in Reqs : req'[x].node = m /\ req'[x].updating
                               /\ req'[x].lock = node'[m].lock
    BY <1>4, <1>7, <2>2, <2>9, <2>12
  <2>14. QueueOf(queue', Allocated)
    BY <2>9 DEF CacheInv, NodeInv
  <2>15. QED
    BY <1>2, <2>7, <2>8, <2>11, <2>13, <2>14, QuietStep
<1>14. QED
  BY <1>10, <1>12, <1>13

-----------------------------------------------------------------------------
(* The steps that give a node back. *)

LEMMA LoseMove ==
    ASSUME CacheInv, NEW r \in Reqs, NEW c, ReqOK(c), Becomes(r, c), req[r].pc # "forced",
           c.node = None, NEW n \in Nodes, n = req[r].node, NEW f, f = NodeFields(f),
           f.key = node[n].key, f.count = node[n].count - 1, f.deleting = node[n].deleting,
           f.updating => /\ node[n].updating /\ f.lock = node[n].lock
                         /\ ~(req[r].updating /\ req[r].lock = node[n].lock),
           Keep(n, f) \/ (Drop(n) /\ f.count = 0),
           del' = del, dead' = dead
    PROVE  CacheInv'
<1>1. /\ ReqInv' /\ req'[r].node = None
      /\ \A s \in Reqs \ {r} : req'[s] = req[s]
  BY RequestMoves DEF CacheInv, SameCore
<1>2. CASE Keep(n, f)
  <2>1. node' = [m \in Nodes |-> IF m = n THEN f ELSE node[m]] /\ queue' = queue
    BY <1>2 DEF Keep, Set, CacheInv, NodeInv
  <2>2. /\ node' = [m \in Nodes |-> node'[m]] /\ \A m \in Nodes \ {n} : node'[m] = node[m]
        /\ node'[n] = f
    BY <2>1
  <2>3. QED
    BY <1>1, <2>1, <2>2, LoseStep
<1>3. CASE Drop(n) /\ f.count = 0
  <2>1. node[n].count = 1
    <3>1. node[n].count \in Nat
      BY DEF CacheInv, NodeInv
    <3>2. QED
      BY <1>3, <3>1
  <2>2. QED
    BY <1>1, <1>3, <2>1, LoseStep
<1>4. QED
  BY <1>2, <1>3

LEMMA ReopenStep ==
    ASSUME CacheInv, NEW r \in Reqs, Reopen(r)
    PROVE  CacheInv'
<1>1. PICK c : c = req[r]
  OBVIOUS
<1>2. ReqOK(c) /\ c.pc = "read" /\ del' = del /\ dead' = dead
  BY <1>1 DEF CacheInv, ReqInv, Reopen
<1>3. PICK n \in Nodes : n = req[r].node
  BY <1>1, <1>2 DEF ReqOK
<1>4. PICK g : g = node[n]
  OBVIOUS
<1>5. PICK x, f : f = [g EXCEPT !.count = x] /\ x = g.count - 1 /\ Keep(n, f)
  BY <1>3, <1>4, Zenon DEF Reopen
<1>6. g = NodeFields(g)
  BY <1>4 DEF CacheInv, NodeInv
<1>7. /\ f = NodeFields(f) /\ f.key = g.key /\ f.count = g.count - 1
      /\ f.deleting = g.deleting /\ f.updating = g.updating /\ f.lock = g.lock
  BY <1>5, <1>6 DEF NodeFields
<1>8. PICK v, k, d :
         /\ v \in Keys /\ Becomes(r, d)
         /\ d = [c EXCEPT !.pc = "lookup", !.key = v, !.main = k, !.node = None,
                          !.read = "no", !.same = FALSE]
  BY <1>1, Zenon DEF Reopen
<1>9. /\ d = ReqFields(d) /\ d.node = None /\ d.key = v /\ d.pc = "lookup"
      /\ d.updating = c.updating
  BY <1>2, <1>8 DEF ReqFields, ReqOK
<1>10. ReqOK(d) /\ ~c.updating
  BY <1>2, <1>8, <1>9, CacheAssumption DEF ReqOK
<1>11. /\ req[r].pc # "forced" /\ Keep(n, f) /\ Becomes(r, d)
       /\ f.key = node[n].key /\ f.count = node[n].count - 1
       /\ f.deleting = node[n].deleting
       /\ f.updating => node[n].updating /\ f.lock = node[n].lock
       /\ ~req[r].updating
  BY <1>1, <1>2, <1>4, <1>5, <1>7, <1>8, <1>10
<1>12. QED
  BY <1>2, <1>3, <1>7, <1>9, <1>10, <1>11, LoseMove

LEMMA ToMainStep ==
    ASSUME CacheInv, NEW r \in Reqs, ToMain(r)
    PROVE  CacheInv'
<1>1. PICK c : c = req[r]
  OBVIOUS
<1>2. /\ ReqOK(c) /\ c.pc = "fetch" /\ c.node # None /\ c.main # None
      /\ del' = del /\ dead' = dead
  BY <1>1 DEF CacheInv, ReqInv, ToMain
<1>3. PICK n \in Nodes : n = req[r].node
  BY <1>1, <1>2 DEF ReqOK
<1>4. PICK g : g = node[n]
  OBVIOUS
<1>5. PICK x, f : f = [g EXCEPT !.count = x, !.updating = FALSE] /\ x = g.count - 1
                  /\ Keep(n, f)
  BY <1>3, <1>4, Zenon DEF ToMain
<1>6. g = NodeFields(g)
  BY <1>4 DEF CacheInv, NodeInv
<1>7. /\ f = NodeFields(f) /\ f.key = g.key /\ f.count = g.count - 1
      /\ f.deleting = g.deleting /\ ~f.updating
  BY <1>5, <1>6 DEF NodeFields
<1>8. PICK k, d :
         d = [c EXCEPT !.pc = "lookup", !.for = "store", !.node = None,
                       !.key = k, !.same = FALSE] /\ Becomes(r, d) /\ k = c.main
  BY <1>1, Zenon DEF ToMain
<1>9. /\ d = ReqFields(d) /\ d.node = None /\ d.key = k /\ d.pc = "lookup"
      /\ d.for = "store"
  BY <1>2, <1>8 DEF ReqFields, ReqOK
<1>10. ReqOK(d)
  BY <1>2, <1>8, <1>9 DEF ReqOK
<1>11. /\ req[r].pc # "forced" /\ Keep(n, f) /\ Becomes(r, d)
       /\ f.key = node[n].key /\ f.count = node[n].count - 1
       /\ f.deleting = node[n].deleting
  BY <1>1, <1>2, <1>4, <1>5, <1>7, <1>8
<1>12. QED
  BY <1>2, <1>3, <1>7, <1>9, <1>10, <1>11, LoseMove

LEMMA UpdateStep ==
    ASSUME CacheInv, NEW r \in Reqs, Update(r)
    PROVE  CacheInv'
<1>1. PICK c : c = req[r]
  OBVIOUS
<1>2. ReqOK(c) /\ c.pc \in {"renamed", "unrenamed"} /\ del' = del /\ dead' = dead
  BY <1>1 DEF CacheInv, ReqInv, Update
<1>3. PICK n \in Nodes : n = req[r].node
  BY <1>1, <1>2 DEF ReqOK
<1>4. PICK g : g = node[n]
  OBVIOUS
<1>5. PICK x, y, z, f :
         /\ f = [g EXCEPT !.count = x, !.error = FALSE, !.size = y, !.exists = z,
                          !.updating = FALSE]
         /\ x = g.count - 1 /\ Keep(n, f)
  BY <1>3, <1>4, Zenon DEF Update
<1>6. g = NodeFields(g)
  BY <1>4 DEF CacheInv, NodeInv
<1>7. /\ f = NodeFields(f) /\ f.key = g.key /\ f.count = g.count - 1
      /\ f.deleting = g.deleting /\ ~f.updating
  BY <1>5, <1>6 DEF NodeFields
<1>8. PICK d : d = Idle /\ Becomes(r, d)
  BY DEF Update
<1>9. ReqOK(d) /\ d.node = None
  BY <1>8 DEF Idle, ReqFields, ReqOK
<1>10. /\ req[r].pc # "forced" /\ Keep(n, f)
       /\ f.key = node[n].key /\ f.count = node[n].count - 1
       /\ f.deleting = node[n].deleting
  BY <1>1, <1>2, <1>4, <1>5, <1>7
<1>11. QED
  BY <1>2, <1>3, <1>7, <1>8, <1>9, <1>10, LoseMove

\* ngx_http_file_cache_free(): who takes the mark away is who set it.
LEMMA FreeStep ==
    ASSUME CacheInv, NEW r \in Reqs, NEW fails, Free(r, fails), req[r].pc \in {"fetch", "store", "serve"}
    PROVE  CacheInv'
<1>1. PICK c : c = req[r]
  OBVIOUS
<1>2. ReqOK(c) /\ del' = del /\ dead' = dead
  BY <1>1 DEF CacheInv, ReqInv, Free
<1>3. PICK d : d = Idle /\ Becomes(r, d)
  BY DEF Free
<1>4. ReqOK(d) /\ d.node = None
  BY <1>3 DEF Idle, ReqFields, ReqOK
<1>5. CASE c.node = None
  <2>1. UNCHANGED <<node, queue>>
    BY <1>1, <1>5 DEF Free
  <2>2. QED
    BY <1>1, <1>2, <1>3, <1>4, <1>5, <2>1, QuietMove
<1>6. CASE c.node # None
  <2>1. PICK n \in Nodes : n = req[r].node
    BY <1>1, <1>2, <1>6 DEF ReqOK
  <2>2. PICK g : g = node[n]
    OBVIOUS
  <2>3. PICK x, y, f :
           /\ f = [g EXCEPT !.count = x, !.updating = y]
           /\ x = g.count - 1 /\ y = (g.updating /\ ~(c.updating /\ g.lock = c.lock))
           /\ \/ \E z : Keep(n, [f EXCEPT !.error = TRUE, !.valid = z])
              \/ f.count = 0 /\ Drop(n)
              \/ Keep(n, f)
    BY <1>1, <1>6, <2>1, <2>2, Zenon DEF Free
  <2>4. g = NodeFields(g)
    BY <2>2 DEF CacheInv, NodeInv
  <2>5. /\ f = NodeFields(f) /\ f.key = g.key /\ f.count = g.count - 1
        /\ f.deleting = g.deleting /\ f.updating = y /\ f.lock = g.lock
    BY <2>3, <2>4 DEF NodeFields
  <2>6. y => g.updating /\ ~(c.updating /\ c.lock = g.lock)
    BY <2>3, Zenon
  <2>7. PICK h : /\ Keep(n, h) \/ (Drop(n) /\ h.count = 0)
                 /\ h = f \/ \E z : h = [f EXCEPT !.error = TRUE, !.valid = z]
    BY <2>3, Zenon
  <2>8. /\ h = NodeFields(h) /\ h.key = g.key /\ h.count = g.count - 1
        /\ h.deleting = g.deleting /\ h.updating = y /\ h.lock = g.lock
    BY <2>5, <2>7 DEF NodeFields
  <2>9. /\ req[r].pc # "forced"
        /\ Keep(n, h) \/ (Drop(n) /\ h.count = 0)
        /\ h.key = node[n].key /\ h.count = node[n].count - 1
        /\ h.deleting = node[n].deleting
        /\ h.updating => /\ node[n].updating /\ h.lock = node[n].lock
                         /\ ~(req[r].updating /\ req[r].lock = node[n].lock)
    BY <1>1, <2>2, <2>6, <2>7, <2>8
  <2>10. QED
    BY <1>2, <1>3, <1>4, <2>1, <2>8, <2>9, LoseMove
<1>7. QED
  BY <1>5, <1>6

-----------------------------------------------------------------------------
(* The steps that make room. *)

\* A request has made room, or goes on to delete a file.
LEMMA AllocMoves ==
    ASSUME ReqInv, NEW r \in Reqs, req[r].pc = "forced",
           req' = Set(req, r, [req[r] EXCEPT !.pc = "alloc"])
    PROVE  /\ req' = [s \in Reqs |-> req'[s]]
           /\ \A s \in Reqs : ReqOK(req'[s]) /\ SameCore(req'[s], req[s])
           /\ \A s \in Reqs \ {r} : req'[s] = req[s]
<1>1. PICK c : c = req[r]
  OBVIOUS
<1>2. ReqOK(c) /\ c.pc = "forced"
  BY <1>1 DEF ReqInv
<1>3. PICK d : d = [c EXCEPT !.pc = "alloc"] /\ req' = Set(req, r, d)
  BY <1>1, Zenon
<1>4. d = ReqFields(d) /\ SameCore(d, c) /\ d.pc = "alloc"
  BY <1>2, <1>3 DEF ReqOK, ReqFields, SameCore
<1>5. ReqOK(d)
  BY <1>2, <1>4 DEF ReqOK, SameCore
<1>6. req' = [s \in Reqs |-> IF s = r THEN d ELSE req[s]]
  <2>1. req' = Set(req, r, d)
    BY <1>3
  <2>2. QED
    BY <2>1 DEF Set, ReqInv
<1>7. \A s : SameCore(req[s], req[s])
  BY DEF SameCore
<1>8. QED
  BY <1>1, <1>4, <1>5, <1>6, <1>7 DEF ReqInv

LEMMA RelockMoves ==
    ASSUME CacheInv, NEW e \in Deleters, Relock(e)
    PROVE  CacheInv'
<1>1. /\ del[e].pc = "relock" /\ NoDelete.pc = "no" /\ NoDelete.node = None
      /\ del' = [d \in Deleters |-> IF d = e THEN NoDelete ELSE del[d]]
      /\ req' = IF e \in Reqs THEN Set(req, e, [req[e] EXCEPT !.pc = "alloc"]) ELSE req
  BY DEF Relock, Set, CacheInv, ReqInv, NoDelete
<1>2. DelOK(e)
  BY DEF CacheInv, ReqInv
<1>3. /\ req' = [s \in Reqs |-> req'[s]] /\ \A s \in Reqs : ReqOK(req'[s])
      /\ \A s \in Reqs \ {e} : req'[s] = req[s]
  <2>1. CASE e \in Reqs
    <3>1. req[e].pc = "forced"
      BY <1>1, <1>2, <2>1 DEF DelOK
    <3>2. req' = Set(req, e, [req[e] EXCEPT !.pc = "alloc"])
      BY <1>1, <2>1
    <3>3. QED
      BY <2>1, <3>1, <3>2, AllocMoves DEF CacheInv
  <2>2. CASE e \notin Reqs
    BY <1>1, <2>2 DEF CacheInv, ReqInv
  <2>3. QED
    BY <2>1, <2>2
<1>4. ASSUME NEW d \in Deleters PROVE DelOK(d)'
  <2>1. CASE d = e
    BY <1>1, <2>1 DEF DelOK, NoDelete
  <2>2. CASE d # e
    <3>1. del'[d] = del[d] /\ (d \in Reqs => req'[d] = req[d]) /\ DelOK(d)
      BY <1>1, <1>3, <2>2 DEF CacheInv, ReqInv
    <3>2. QED
      BY <3>1 DEF DelOK
  <2>3. QED
    BY <2>1, <2>2
<1>5. ReqInv'
  BY <1>1, <1>3, <1>4 DEF ReqInv
<1>6. QED
  BY <1>5, RelockStep

\* What the deletion of a node does to the process that deletes it.
LEMMA DeleteMoves ==
    ASSUME CacheInv, NEW e \in Deleters, NEW n \in Nodes, NEW q, Delete(e, n, q),
           del[e].pc = "no",
           req' = [s \in Reqs |-> req'[s]],
           \A s \in Reqs : ReqOK(req'[s]) /\ (s # e => req'[s] = req[s]),
           e \in Reqs /\ del'[e].pc # "no" => req'[e].pc = "forced"
    PROVE  ReqInv'
<1>1. PICK x : x = [pc |-> "unlink", node |-> n]
  OBVIOUS
<1>2. del' = del \/ del' = [d \in Deleters |-> IF d = e THEN x ELSE del[d]]
  BY <1>1 DEF Delete, Set, CacheInv, ReqInv
<1>3. ASSUME NEW d \in Deleters PROVE DelOK(d)'
  <2>1. CASE d # e \/ del' = del
    <3>1. del'[d] = del[d] /\ DelOK(d)
      BY <1>2, <2>1 DEF CacheInv, ReqInv
    <3>2. QED
      BY <3>1 DEF DelOK
  <2>2. CASE d = e /\ del' # del
    <3>1. del'[e] = x /\ x.pc = "unlink" /\ x.node = n /\ n # None
      BY <1>1, <1>2, <2>2, CacheAssumption
    <3>2. QED
      BY <1>1, <2>2, <3>1 DEF DelOK
  <2>3. QED
    BY <2>1, <2>2
<1>4. del' = [d \in Deleters |-> del'[d]]
  BY <1>2 DEF CacheInv, ReqInv
<1>5. QED
  BY <1>3, <1>4 DEF ReqInv

\* The forced expiry: the queue turned round, and a node nobody has deleted.
LEMMA ForcedIs ==
    ASSUME CacheInv, NEW e \in Deleters, Forced(e)
    PROVE  /\ dead' = dead
           /\ \/ \E n \in Nodes : \E q : /\ QueueOf(q, Allocated) /\ Delete(e, n, q)
                                         /\ node[n].count = 0 /\ node[n].key # None
              \/ QueueOf(queue', Allocated) /\ UNCHANGED <<node, del>>
<1> DEFINE low == IF Len(queue) > 20 THEN Len(queue) - 20 ELSE 0
<1> DEFINE ends == {j \in low + 1..Len(queue) : ~Held(queue[j])}
<1>1. PICK i : i = IF ends = {} THEN low ELSE Max(ends)
  OBVIOUS
<1>2. PICK q : q = SubSeq(queue, i + 1, Len(queue)) \o SubSeq(queue, 1, i)
  OBVIOUS
<1>3. /\ dead' = dead
      /\ IF ends # {} /\ node[queue[i]].count = 0 THEN Delete(e, queue[i], q)
         ELSE queue' = q /\ UNCHANGED <<node, size, del>>
  BY <1>1, <1>2 DEF Forced
<1>4. queue \in Seq(Nodes) /\ Len(queue) \in Nat /\ QueueOf(queue, Allocated)
  BY LenProperties DEF CacheInv, NodeInv, QueueOf, Once
<1>0. low \in 0..Len(queue)
  BY <1>4
<1>5. ends # {} => Max(ends) \in 1..Len(queue)
  <2>1. PICK E : E = ends
    OBVIOUS
  <2>2. E \subseteq 1..Len(queue)
    BY <1>0, <1>4, <2>1
  <2>3. SUFFICES ASSUME E # {} PROVE Max(E) \in E
    BY <2>1, <2>2
  <2> HIDE DEF ends
  <2>4. IsFiniteSet(1..Len(queue))
    BY <1>4, FS_Interval
  <2>5. IsFiniteSet(E)
    BY <2>2, <2>4, FS_Subset
  <2>6. \E x \in E : \A y \in E : x >= y
    <3>1. PICK f : f = [x \in E |-> x]
      OBVIOUS
    <3>2. \A x \in E : f[x] \in Int /\ f[x] = x
      BY <1>4, <2>2, <3>1
    <3>3. \E x \in E : \A y \in E : f[x] >= f[y]
      BY <2>3, <2>5, <3>2, Greatest
    <3>4. QED
      BY <3>2, <3>3
  <2>7. QED
    BY <2>6 DEF Max
<1>6. i \in 0..Len(queue) /\ (ends # {} => i \in 1..Len(queue))
  BY <1>0, <1>1, <1>4, <1>5
<1>7. QueueOf(q, Allocated)
  BY <1>2, <1>4, <1>6, TurnedOf
<1> HIDE DEF ends
<1>8. CASE ends # {} /\ node[queue[i]].count = 0
  <2>1. i \in 1..Len(queue)
    BY <1>6, <1>8
  <2>2. queue[i] \in Allocated
    BY <1>4, <2>1 DEF QueueOf, Once, ToSet
  <2>3. QED
    BY <1>3, <1>7, <1>8, <2>2 DEF Allocated
<1>9. CASE ~(ends # {} /\ node[queue[i]].count = 0)
  BY <1>3, <1>7, <1>9
<1>10. QED
  BY <1>3, <1>8, <1>9

LEMMA ForcedByRequestStep ==
    ASSUME CacheInv, NEW r \in Reqs, ForcedByRequest(r)
    PROVE  CacheInv'
<1>1. /\ req[r].pc = "forced" /\ del[r].pc = "no" /\ Forced(r) /\ r \in Deleters
      /\ req' = IF del'[r].pc = "no" THEN Set(req, r, [req[r] EXCEPT !.pc = "alloc"]) ELSE req
  BY DEF ForcedByRequest, Deleters
<1>2. /\ req' = [s \in Reqs |-> req'[s]]
      /\ \A s \in Reqs : ReqOK(req'[s]) /\ SameCore(req'[s], req[s])
      /\ \A s \in Reqs \ {r} : req'[s] = req[s]
      /\ del'[r].pc # "no" => req'[r].pc = "forced"
  <2>1. CASE del'[r].pc = "no"
    <3>1. req' = Set(req, r, [req[r] EXCEPT !.pc = "alloc"])
      BY <1>1, <2>1
    <3>2. QED
      BY <1>1, <2>1, <3>1, AllocMoves DEF CacheInv
  <2>2. CASE del'[r].pc # "no"
    BY <1>1, <2>2 DEF CacheInv, ReqInv, SameCore
  <2>3. QED
    BY <2>1, <2>2
<1>3. CASE \E n \in Nodes : \E q : /\ QueueOf(q, Allocated) /\ Delete(r, n, q)
                                   /\ node[n].count = 0 /\ node[n].key # None
  <2>1. PICK n, q : /\ n \in Nodes
                    /\ QueueOf(q, Allocated) /\ Delete(r, n, q)
                    /\ node[n].count = 0 /\ node[n].key # None
    BY <1>3
  <2>2. ReqInv'
    BY <1>1, <1>2, <2>1, DeleteMoves
  <2>3. dead' = dead
    BY <1>1, ForcedIs
  <2>4. QED
    BY <1>1, <1>2, <2>1, <2>2, <2>3, DeleteStep
<1>4. CASE QueueOf(queue', Allocated) /\ UNCHANGED <<node, del>>
  <2>1. \A d \in Deleters : DelOK(d)'
    BY <1>1, <1>2, <1>4 DEF CacheInv, ReqInv, DelOK
  <2>2. ReqInv'
    BY <1>2, <1>4, <2>1 DEF CacheInv, ReqInv
  <2>3. dead' = dead
    BY <1>1, ForcedIs
  <2>4. QED
    BY <1>2, <1>4, <2>2, <2>3, CoreStep
<1>5. QED
  BY <1>1, <1>3, <1>4, ForcedIs

LEMMA ManagerStep ==
    ASSUME CacheInv, ForcedByManager \/ Expire
    PROVE  CacheInv'
<1>1. /\ Manager \in Deleters /\ Manager \notin Reqs /\ del[Manager].pc = "no" /\ req' = req
      /\ \A s \in Reqs : SameCore(req'[s], req[s])
  BY CacheAssumption DEF ForcedByManager, Expire, Deleters, SameCore
<1>2. /\ dead' = dead
      /\ \/ \E n \in Nodes : \E q : /\ QueueOf(q, Allocated) /\ Delete(Manager, n, q)
                                    /\ node[n].count = 0 /\ node[n].key # None
         \/ QueueOf(queue', Allocated) /\ UNCHANGED <<node, del>>
  <2>1. CASE ForcedByManager
    BY <1>1, <2>1, ForcedIs DEF ForcedByManager
  <2>2. CASE Expire
    <3>1. QueueOf(queue, Allocated)
      BY DEF CacheInv, NodeInv
    <3>2. queue \in Seq(Nodes) /\ queue # <<>> /\ Len(queue) \in Nat
      BY <2>2, <3>1, LenProperties DEF QueueOf, Once, Expire
    <3>3. PICK n : n = Last(queue)
      OBVIOUS
    <3>4. n \in Allocated /\ n \in Nodes
      <4>1. Len(queue) \in 1..Len(queue)
        BY <3>2, EmptySeq
      <4>2. n = queue[Len(queue)]
        BY <3>3 DEF Last
      <4>3. QED
        BY <3>1, <3>2, <4>1, <4>2 DEF QueueOf, Once, ToSet, Allocated
    <3>5. QueueOf(Touched(n), Allocated)
      <4>1. QueueOf(Touched(n), Allocated \cup {n})
        BY <3>1, <3>4, TouchedOf
      <4>2. Allocated \cup {n} = Allocated
        BY <3>4
      <4>3. QED
        BY <4>1, <4>2, Zenon
    <3>6. /\ dead' = dead
          /\ \/ node[n].count = 0 /\ Delete(Manager, n, queue)
             \/ queue' = Touched(n) /\ UNCHANGED <<node, del>>
      BY <2>2, <3>3 DEF Expire
    <3>7. QED
      BY <3>1, <3>4, <3>5, <3>6 DEF Allocated
  <2>3. QED
    BY <2>1, <2>2
<1>3. CASE \E n \in Nodes : \E q : /\ QueueOf(q, Allocated) /\ Delete(Manager, n, q)
                                   /\ node[n].count = 0 /\ node[n].key # None
  <2>1. PICK n, q : /\ n \in Nodes
                    /\ QueueOf(q, Allocated) /\ Delete(Manager, n, q)
                    /\ node[n].count = 0 /\ node[n].key # None
    BY <1>3
  <2>2. req' = [s \in Reqs |-> req'[s]] /\ \A s \in Reqs : ReqOK(req'[s])
    BY <1>1 DEF CacheInv, ReqInv
  <2>3. ReqInv'
    BY <1>1, <2>1, <2>2, DeleteMoves
  <2>4. QED
    BY <1>1, <1>2, <2>1, <2>3, DeleteStep
<1>4. CASE QueueOf(queue', Allocated) /\ UNCHANGED <<node, del>>
  BY <1>1, <1>2, <1>4, SameStep
<1>5. QED
  BY <1>2, <1>3, <1>4

-----------------------------------------------------------------------------
(* The theorems. *)

LEMMA CacheInit == Init => CacheInv
<1> SUFFICES ASSUME Init PROVE CacheInv
  OBVIOUS
<1>1. /\ req = [r \in Reqs |-> Idle] /\ del = [d \in Deleters |-> NoDelete]
      /\ dead = [n \in Nodes |-> 0]
  BY DEF Init
<1>2. ReqInv
  <2>1. ReqOK(Idle)
    BY DEF Idle, ReqOK, ReqFields
  <2>2. \A d \in Deleters : DelOK(d)
    BY <1>1 DEF DelOK, NoDelete
  <2>3. QED
    BY <1>1, <2>1, <2>2 DEF ReqInv
<1>3. PICK S, f :
         /\ S \in SUBSET Nodes
         /\ node = [n \in Nodes |-> IF n \in S THEN Known(f[n]) ELSE FreeNode]
         /\ \A n \in S : f[n] \in Keys
         /\ QueueOf(queue, S)
  <2>1. CASE node = [n \in Nodes |-> FreeNode] /\ queue = <<>>
    <3>1. QueueOf(queue, {})
      BY <2>1, QueueInit
    <3>2. QED
      BY <2>1, <3>1
  <2>2. CASE \E S \in SUBSET Nodes : \E f \in Injection(S, Keys) :
                /\ node = [n \in Nodes |-> IF n \in S THEN Known(f[n]) ELSE FreeNode]
                /\ queue = SetToSeq(S)
    <3>1. PICK S \in SUBSET Nodes : \E f \in Injection(S, Keys) :
             /\ node = [n \in Nodes |-> IF n \in S THEN Known(f[n]) ELSE FreeNode]
             /\ queue = SetToSeq(S)
      BY <2>2
    <3>2. PICK f \in Injection(S, Keys) :
             /\ node = [n \in Nodes |-> IF n \in S THEN Known(f[n]) ELSE FreeNode]
             /\ queue = SetToSeq(S)
      BY <3>1
    <3>3. f \in [S -> Keys]
      BY DEF Injection
    <3>4. QueueOf(queue, S)
      BY <3>2, QueueInit
    <3>5. QED
      BY <3>2, <3>3, <3>4
  <2>3. QED
    BY <2>1, <2>2 DEF Init
<1>4. ASSUME NEW n \in Nodes
      PROVE  /\ node[n] = NodeFields(node[n]) /\ node[n].count = 0
             /\ ~node[n].deleting /\ ~node[n].updating
             /\ IF n \in S THEN node[n].key # None
                           ELSE node[n].key = None /\ node[n] = FreeNode
  <2>1. PICK g : g = node[n]
    OBVIOUS
  <2>2. CASE n \in S
    <3>1. PICK k : k = f[n]
      OBVIOUS
    <3>2. k \in Keys /\ k # None /\ g = Known(k)
      BY <1>3, <2>1, <2>2, <3>1, CacheAssumption
    <3>3. QED
      BY <2>1, <2>2, <3>2 DEF Known, FreeNode, NodeFields
  <2>3. CASE n \notin S
    BY <1>3, <2>3 DEF FreeNode, NodeFields
  <2>4. QED
    BY <2>2, <2>3
<1>5. Allocated = S
  BY <1>3, <1>4 DEF Allocated
<1>6. NodeInv
  BY <1>1, <1>3, <1>4, <1>5 DEF NodeInv
<1>7. CountExact
  <2>1. ASSUME NEW n \in Nodes PROVE Users(n) = {} /\ DeletedBy(n) = {}
    BY <1>1, CacheAssumption DEF Users, DeletedBy, Idle, NoDelete
  <2>2. \A n \in Nodes : Cardinality(Users(n)) = 0 /\ Cardinality(DeletedBy(n)) = 0
    BY <2>1, FS_EmptySet, Zenon
  <2>3. \A n \in Nodes : node[n].key # None <=> Contains(queue, n)
    BY <1>3, <1>4, Queued
  <2>4. QED
    BY <1>1, <1>4, <2>2, <2>3 DEF CountExact
<1>8. UpdatingOwned
  BY <1>4 DEF UpdatingOwned
<1>9. QED
  BY <1>2, <1>6, <1>7, <1>8 DEF CacheInv

LEMMA RequestStepKeeps ==
    ASSUME CacheInv, NEW r \in Reqs, RequestStep(r)
    PROVE  CacheInv'
<1>1. CASE Start(r) \/ Found(r) \/ NotFound(r) \/ Full(r) \/ Retry(r) \/ ForcedByRequest(r)
  BY <1>1, StartStep, FoundStep, NotFoundStep, FullStep, RetryStep, ForcedByRequestStep
<1>2. CASE Open(r) \/ Damaged(r) \/ Reopen(r) \/ Read(r) \/ Updating(r) \/ Stale(r)
  BY <1>2, OpenStep, DamagedStep, ReopenStep, ReadStep, UpdatingStep, StaleStep
<1>3. CASE NoLock(r) \/ Lock(r) \/ Busy(r) \/ Wake(r)
  BY <1>3, NoLockStep, LockStep, BusyStep, WakeStep
<1>4. CASE NotCached(r) \/ Failed(r) \/ Incomplete(r) \/ Finish(r)
  BY <1>4, FreeStep DEF NotCached, Failed, Incomplete, Finish
<1>5. CASE Revalidated(r) \/ Store(r) \/ ToMain(r)
  BY <1>5, RevalidatedStep, StoreStep, ToMainStep
<1>6. CASE Rename(r) \/ RenameFails(r) \/ Update(r)
  BY <1>6, RenameStep, UpdateStep
<1>7. QED
  BY <1>1, <1>2, <1>3, <1>4, <1>5, <1>6 DEF RequestStep

LEMMA CacheStep == CacheInv /\ [Next]_vars => CacheInv'
<1> SUFFICES ASSUME CacheInv, [Next]_vars PROVE CacheInv'
  OBVIOUS
<1>1. ASSUME UNCHANGED <<node, queue, req, del, dead>> PROVE CacheInv'
  <2>1. QueueOf(queue', Allocated)
    BY <1>1 DEF CacheInv, NodeInv
  <2>2. QED
    BY <1>1, <2>1, SameStep
<1>2. CASE \E r \in Reqs : RequestStep(r) \/ Kill(r)
  BY <1>2, RequestStepKeeps, KillStep
<1>3. CASE \E d \in Deleters : Unlink(d) \/ UnlinkFails(d) \/ Relock(d)
  BY <1>3, UnlinkStep, RelockMoves
<1>4. CASE ForcedByManager \/ Expire \/ KillManager
  BY <1>4, ManagerStep, KillManagerStep
<1>5. CASE \E k \in Keys : Load(k)
  BY <1>5, LoadStep
<1>6. CASE LoaderUnlink
  BY <1>6, LoaderUnlinkStep
<1>7. CASE Loaded \/ UNCHANGED vars
  BY <1>1, <1>7 DEF Loaded, vars
<1>8. QED
  BY <1>2, <1>3, <1>4, <1>5, <1>6, <1>7 DEF Next

\* The count of every node is exact: whatever requests, deleters, the loader and
\* deaths do between two sections under the mutex, ngx_http_file_cache_free(),
\* ngx_http_file_cache_delete() and the expiry free no node somebody has, and the
\* queue holds the nodes of the tree, each once.
THEOREM CountExactHolds == Spec => []CountExact
<1>1. CacheInv => CountExact
  BY DEF CacheInv
<1>2. QED
  BY <1>1, CacheInit, CacheStep, PTL DEF Spec

\* No response stays UPDATING: the mark fcn->updating always has a request that
\* will take it away in ngx_http_file_cache_free() or ngx_http_file_cache_update(),
\* unless a worker died with the node.
THEOREM UpdatingOwnedHolds == Spec => []UpdatingOwned
<1>1. CacheInv => UpdatingOwned
  BY DEF CacheInv
<1>2. QED
  BY <1>1, CacheInit, CacheStep, PTL DEF Spec

=============================================================================
