-------------------------- MODULE ConnectionsProofs --------------------------
(***************************************************************************)
(* The lists, references and events of a worker's connections, for any     *)
(* slots, socket numbers and bounds.  All that refers to slots is in one   *)
(* record, so PoolOK is stated, and shown to be kept, for the functions of *)
(* ngx_connection.c on that record; the actions of the event cycle then    *)
(* follow one by one.                                                      *)
(*                                                                         *)
(* FreeExact and RefsCurrent need each other and three facts they do not   *)
(* state: a socket is in one slot, the listening slot stays in its first   *)
(* use until the shutdown, and nothing is posted between two cycles, when  *)
(* the shutdown frees that slot.  StaleFiltered needs that the instance is *)
(* the parity of the uses of a slot, in the slot and in every entry of     *)
(* event_list.                                                             *)
(***************************************************************************)
EXTENDS Connections, Counting

\* A pool is a record with the fields of Pool.
FieldsOf(p) ==
    [fd |-> p.fd, inst |-> p.inst, gen |-> p.gen, active |-> p.active,
     free |-> p.free, freeN |-> p.freeN, reusable |-> p.reusable,
     timers |-> p.timers, posted |-> p.posted, next |-> p.next, reg |-> p.reg]

\* The queue q holds an event of a slot at most once.
Distinct(q) ==
    /\ q \in Seq(Event)
    /\ \A i, j \in DOMAIN q : q[i].c = q[j].c /\ q[i].d = q[j].d => i = j

\* The instance is the lowest bit of the number of uses, turned over; a socket
\* is in one slot.
SlotsOK(p) ==
    /\ p.fd \in [Conns -> Fds \cup {NoFd}] /\ p.gen \in [Conns -> Nat]
    /\ p.inst = [c \in Conns |-> (p.gen[c] + 1) % 2]
    /\ p.active \in [Conns -> SUBSET Dirs]
    /\ \A c, d \in Conns : p.fd[c] = p.fd[d] /\ IsOpen(p, c) => c = d

FreeOK(p) ==
    /\ Once(p.free, Conns, {c \in Conns : ~IsOpen(p, c)})
    /\ p.freeN = Len(p.free)

\* Until the shutdown begins the listening slot is in its first use; it is not
\* reusable, its read event alone has a timer, and it is not posted for the
\* next cycle.
ListenOK(p) ==
    /\ IsOpen(p, Listener) /\ p.gen[Listener] = 1
    /\ Listener \notin ToSet(p.reusable)
    /\ \A e \in ToSet(p.next) : e.c # Listener
    /\ \A e \in p.timers : e.c = Listener => e.d = "read"

ReuseOK(p) ==
    /\ Once(p.reusable, Conns, ToSet(p.reusable))
    /\ \A c \in ToSet(p.reusable) : IsOpen(p, c)

Current(p, e) == IsOpen(p, e.c) /\ p.gen[e.c] = e.g

PostedOK(p) ==
    /\ Distinct(p.posted) /\ Distinct(p.next)
    /\ \A e \in ToSet(p.posted), f \in ToSet(p.next) : e.c # f.c \/ e.d # f.d
    /\ \A e \in ToSet(p.posted) \cup ToSet(p.next) : Current(p, e)

TimersOK(p, q) ==
    /\ p.timers \subseteq Event
    /\ \A e \in p.timers : \/ Current(p, e)
                           \/ q /\ e.c = Listener /\ e.d = "read" /\ e.g = 1

KernelOK(p) ==
    /\ p.reg \in [Fds -> [c : Conns, i : {0, 1}] \cup {NoReg}]
    /\ \A f \in Fds : p.reg[f] # NoReg =>
          p.fd[p.reg[f].c] = f /\ p.inst[p.reg[f].c] = p.reg[f].i
    /\ \A c \in Conns : p.active[c] # {} => IsOpen(p, c) /\ p.reg[p.fd[c]] # NoReg

\* What holds of the pool, before (~q) and after the shutdown began.
PoolOK(p, q) ==
    /\ p = FieldsOf(p)
    /\ SlotsOK(p) /\ FreeOK(p) /\ ReuseOK(p) /\ PostedOK(p) /\ TimersOK(p, q)
    /\ KernelOK(p) /\ (q \/ ListenOK(p))

\* An entry of event_list names a use of its slot, with the instance of that use.
EntryOK(p, e) == e \in Entry /\ e.g <= p.gen[e.c] /\ e.i = (e.g + 1) % 2

\* Where the worker is: nothing is posted between two cycles, a handler returns
\* into the cycle, the socket for which a slot is taken is in none, and the drain
\* called one connection last.
CycleOK ==
    /\ pc \in {"wait", "batch", "write", "timers", "posted", "handler", "drain", "idle"}
    /\ ret \in {"wait", "batch", "write", "timers", "posted", "idle"}
    /\ pc \in {"handler", "drain"} <=> ret # "wait"
    /\ pc = "write" \/ ret = "write" => entry # {}
    /\ pc = "wait" => pool.posted = <<>>
    /\ flag \in BOOLEAN /\ quit \in BOOLEAN
    /\ gets \in 0..MaxGets
    /\ call \in [s : Fds \cup {NoFd}, n : Nat, c : SUBSET Conns]
    /\ \A c, d \in call.c : c = d
    /\ pc = "drain" => call.s \in Fds \ UsedFds

BatchOK == \A e \in batch \cup entry : EntryOK(pool, e)

\* The inductive invariant.
ConnInv ==
    /\ PoolOK(pool, quit) /\ CycleOK /\ BatchOK
    /\ skew \in Nat /\ StaleFiltered

-----------------------------------------------------------------------------
(* Queues. *)

\* ngx_queue_remove() takes the slot, and no other one, out of the queue.
LEMMA UnqueuedIs ==
    ASSUME NEW s, NEW S, Once(s, Conns, S), NEW c
    PROVE  Once(Unqueued(s, c), Conns, S \ {c})
  BY TakenOut DEF Unqueued

\* A queue that holds its elements once is as long as they are many.
LEMMA OnceLength ==
    ASSUME NEW s, NEW E, NEW S, Once(s, E, S)
    PROVE  Len(s) = Cardinality(S)
<1>1. s \in Seq(E) /\ Len(s) \in Nat /\ DOMAIN s = 1..Len(s)
  BY LenProperties DEF Once
<1>2. \A i \in 1..Len(s) : s[i] \in S
  BY <1>1 DEF Once, ToSet
<1>3. \A x \in S : \E i \in 1..Len(s) : s[i] = x
  BY <1>1 DEF Once, ToSet
<1>4. \A i, j \in 1..Len(s) : s[i] = s[j] => i = j
  BY <1>1 DEF Once, IsInjective
<1>5. s \in [1..Len(s) -> S]
  BY <1>1, <1>2, SeqDef
<1>6. s \in Bijection(1..Len(s), S)
  BY <1>3, <1>4, <1>5 DEF Bijection, Injection, Surjection, IsInjective
<1>7. ExistsBijection(1..Len(s), S)
  BY <1>6 DEF ExistsBijection
<1>8. QED
  BY <1>1, <1>7, FS_CountingElements

\* The order SetToSeq chooses holds the elements of the set once.
LEMMA SetToSeqIs ==
    ASSUME NEW E, NEW S \in SUBSET E, IsFiniteSet(S)
    PROVE  Once(SetToSeq(S), E, S)
<1> DEFINE n == Cardinality(S)
<1>1. n \in Nat
  BY FS_CardinalityType
<1>2. \E f : f \in Bijection(1..n, S)
  BY FS_CardinalityType DEF ExistsBijection
<1>3. \E f \in [1..n -> S] : IsInjective(f)
  BY <1>2 DEF Bijection, Injection, IsInjective
<1>4. SetToSeq(S) \in [1..n -> S] /\ IsInjective(SetToSeq(S))
  BY <1>3 DEF SetToSeq
<1> DEFINE s == SetToSeq(S)
<1>5. s \in [1..n -> S] /\ IsInjective(s)
  BY <1>4
<1> HIDE DEF s
<1>6. s \in Injection(1..n, S)
  BY <1>5 DEF Injection
<1>7. IsFiniteSet(1..n) /\ Cardinality(1..n) = n
  BY <1>1, FS_Interval
<1>8. s \in Surjection(1..n, S)
  BY <1>6, <1>7, FS_Injection
<1>9. ToSet(s) = S
  BY <1>5, <1>8 DEF ToSet, Surjection
<1>10. s \in Seq(E)
  BY <1>1, <1>5
<1>11. QED
  BY <1>5, <1>9, <1>10 DEF Once, s

\* Deleting a posted event: the queue holds the other ones as before.
LEMMA DeletedIs ==
    ASSUME NEW s, Distinct(s), NEW c, NEW d
    PROVE  /\ Distinct(Deleted(s, c, d))
           /\ ToSet(Deleted(s, c, d)) = {e \in ToSet(s) : e.c # c \/ e.d # d}
<1> DEFINE L == Len(s)
           I == {i \in 1..L : s[i].c = c /\ s[i].d = d}
           i == CHOOSE x \in I : TRUE
           w == RemoveAt(s, i)
<1>1. s \in Seq(Event) /\ L \in Nat /\ DOMAIN s = 1..L
  BY LenProperties DEF Distinct
<1>2. \A x, y \in 1..L : s[x].c = s[y].c /\ s[x].d = s[y].d => x = y
  BY <1>1 DEF Distinct
<1>3. CASE I # {}
  <2>1. i \in 1..L /\ s[i].c = c /\ s[i].d = d
    BY <1>3
  <2>2. Deleted(s, c, d) = w
    BY <1>3 DEF Deleted
  <2> HIDE DEF i
  <2>3. /\ w \in Seq(Event) /\ DOMAIN w = 1..(L - 1)
        /\ \A j \in 1..(L - 1) : w[j] = IF j < i THEN s[j] ELSE s[j + 1]
    BY <1>1, <2>1, RemoveAtIs
  <2> HIDE DEF w, I
  <2>4. ASSUME NEW j \in 1..(L - 1)
        PROVE  \E x \in 1..L : w[j] = s[x] /\ x # i /\ x = IF j < i THEN j ELSE j + 1
    BY <1>1, <2>1, <2>3
  <2>5. Distinct(w)
    <3>1. SUFFICES ASSUME NEW j \in 1..(L - 1), NEW k \in 1..(L - 1),
                          w[j].c = w[k].c, w[j].d = w[k].d
                   PROVE  j = k
      BY <2>3 DEF Distinct
    <3>2. PICK x \in 1..L : w[j] = s[x] /\ x # i /\ x = IF j < i THEN j ELSE j + 1
      BY <2>4
    <3>3. PICK y \in 1..L : w[k] = s[y] /\ y # i /\ y = IF k < i THEN k ELSE k + 1
      BY <2>4
    <3>4. x = y
      BY <1>2, <3>1, <3>2, <3>3
    <3>5. QED
      BY <1>1, <2>1, <3>2, <3>3, <3>4
  <2>6. ASSUME NEW j \in 1..(L - 1)
        PROVE  w[j] \in ToSet(s) /\ (w[j].c # c \/ w[j].d # d)
    <3>1. PICK x \in 1..L : w[j] = s[x] /\ x # i
      BY <2>4
    <3>2. s[x] \in ToSet(s)
      BY <1>1 DEF ToSet
    <3>3. QED
      BY <1>2, <2>1, <3>1, <3>2
  <2>7. ASSUME NEW e \in ToSet(s), e.c # c \/ e.d # d
        PROVE  \E j \in 1..(L - 1) : w[j] = e
    <3>1. PICK x \in 1..L : s[x] = e
      BY <1>1 DEF ToSet
    <3>2. x # i
      BY <2>1, <2>7, <3>1
    <3>3. CASE x < i
      <4>1. x \in 1..(L - 1) /\ w[x] = s[x]
        BY <1>1, <2>1, <2>3, <3>3
      <4>2. QED
        BY <3>1, <4>1
    <3>4. CASE x > i
      <4>1. x - 1 \in 1..(L - 1) /\ ~(x - 1 < i) /\ (x - 1) + 1 = x
        BY <1>1, <2>1, <3>4
      <4>2. w[x - 1] = s[x]
        BY <2>3, <4>1
      <4>3. QED
        BY <3>1, <4>1, <4>2
    <3>5. QED
      BY <1>1, <2>1, <3>2, <3>3, <3>4
  <2>8. ToSet(w) = {w[j] : j \in 1..(L - 1)}
    BY <2>3 DEF ToSet
  <2>9. ToSet(w) = {e \in ToSet(s) : e.c # c \/ e.d # d}
    BY <2>6, <2>7, <2>8
  <2>10. QED
    BY <2>2, <2>5, <2>9
<1>4. CASE I = {}
  <2>1. Deleted(s, c, d) = s
    BY <1>4 DEF Deleted
  <2>2. \A e \in ToSet(s) : e.c # c \/ e.d # d
    BY <1>1, <1>4 DEF ToSet
  <2>3. QED
    BY <2>1, <2>2
<1>5. QED
  BY <1>3, <1>4

\* ngx_close_connection() leaves the posted events of the other slots.
LEMMA NotOfIs ==
    ASSUME NEW s, Distinct(s), NEW c
    PROVE  /\ Distinct(NotOf(c, s))
           /\ ToSet(NotOf(c, s)) = {e \in ToSet(s) : e.c # c}
<1> DEFINE a == Deleted(s, c, "read")
<1>1. Distinct(a) /\ ToSet(a) = {e \in ToSet(s) : e.c # c \/ e.d # "read"}
  BY DeletedIs
<1> HIDE DEF a
<1>2. /\ Distinct(Deleted(a, c, "write"))
      /\ ToSet(Deleted(a, c, "write")) = {e \in ToSet(a) : e.c # c \/ e.d # "write"}
  BY <1>1, DeletedIs
<1>3. \A e \in ToSet(s) : e.d \in {"read", "write"}
  <2>1. s \in Seq(Event) /\ ToSet(s) = {s[i] : i \in 1..Len(s)}
    BY LenProperties DEF Distinct, ToSet
  <2>2. \A i \in 1..Len(s) : s[i] \in Event
    BY <2>1, ElementOfSeq
  <2>3. QED
    BY <2>1, <2>2 DEF Event, Dirs
<1>4. NotOf(c, s) = Deleted(a, c, "write")
  BY DEF NotOf, a
<1>5. QED
  BY <1>1, <1>2, <1>3, <1>4

\* One queue after the other, when they share no event.
LEMMA JoinedIs ==
    ASSUME NEW s, Distinct(s), NEW t, Distinct(t),
           \A e \in ToSet(s), f \in ToSet(t) : e.c # f.c \/ e.d # f.d
    PROVE  Distinct(s \o t) /\ ToSet(s \o t) = ToSet(s) \cup ToSet(t)
<1> DEFINE M == Len(s)
           N == Len(t)
           w == s \o t
<1>1. /\ s \in Seq(Event) /\ M \in Nat /\ DOMAIN s = 1..M
      /\ t \in Seq(Event) /\ N \in Nat /\ DOMAIN t = 1..N
  BY LenProperties DEF Distinct
<1>2. /\ w \in Seq(Event) /\ Len(w) = M + N
      /\ \A i \in 1..(M + N) : w[i] = IF i <= M THEN s[i] ELSE t[i - M]
  BY <1>1, ConcatProperties
<1>3. DOMAIN w = 1..(M + N)
  BY <1>2, LenProperties
<1> HIDE DEF w, M, N
<1>4. \A i \in 1..(M + N) :
         \/ i \in 1..M /\ w[i] = s[i]
         \/ i - M \in 1..N /\ w[i] = t[i - M]
  BY <1>1, <1>2
<1>5. /\ \A i, j \in 1..M : s[i].c = s[j].c /\ s[i].d = s[j].d => i = j
      /\ \A i, j \in 1..N : t[i].c = t[j].c /\ t[i].d = t[j].d => i = j
  BY <1>1 DEF Distinct
<1>6. /\ ToSet(s) = {s[i] : i \in 1..M}
      /\ ToSet(t) = {t[i] : i \in 1..N}
      /\ ToSet(w) = {w[i] : i \in 1..(M + N)}
  BY <1>1, <1>3 DEF ToSet
<1>7. \A i \in 1..M, j \in 1..N : s[i].c # t[j].c \/ s[i].d # t[j].d
  BY <1>6
<1>8. Distinct(w)
  <2>1. SUFFICES ASSUME NEW i \in 1..(M + N), NEW j \in 1..(M + N),
                        w[i].c = w[j].c, w[i].d = w[j].d
                 PROVE  i = j
    BY <1>2, <1>3 DEF Distinct
  <2>2. CASE i \in 1..M /\ w[i] = s[i]
    <3>1. j \in 1..M /\ w[j] = s[j]
      BY <1>4, <1>7, <2>1, <2>2
    <3>2. QED
      BY <1>5, <2>1, <2>2, <3>1
  <2>3. CASE i - M \in 1..N /\ w[i] = t[i - M]
    <3>1. j - M \in 1..N /\ w[j] = t[j - M]
      BY <1>4, <1>7, <2>1, <2>3
    <3>2. i - M = j - M
      BY <1>5, <2>1, <2>3, <3>1
    <3>3. QED
      BY <1>1, <3>2
  <2>4. QED
    BY <1>4, <2>2, <2>3
<1>9. ToSet(w) = ToSet(s) \cup ToSet(t)
  <2>1. ToSet(w) \subseteq ToSet(s) \cup ToSet(t)
    BY <1>4, <1>6
  <2>2. \A i \in 1..M : i \in 1..(M + N) /\ w[i] = s[i]
    BY <1>1, <1>2
  <2>3. ASSUME NEW i \in 1..N PROVE M + i \in 1..(M + N) /\ w[M + i] = t[i]
    <3>1. M + i \in 1..(M + N) /\ ~(M + i <= M) /\ (M + i) - M = i
      BY <1>1
    <3>2. QED
      BY <1>2, <3>1
  <2>4. QED
    BY <1>6, <2>1, <2>2, <2>3
<1>10. QED
  BY <1>8, <1>9 DEF w

\* A queue of one event, and of none.
LEMMA OneEvent ==
    ASSUME NEW e \in Event
    PROVE  Distinct(<<e>>) /\ ToSet(<<e>>) = {e}
  BY DEF Distinct, ToSet

\* Nothing is posted.
LEMMA NoEvent == Distinct(<<>>) /\ ToSet(<<>>) = {}
  BY DEF Distinct, ToSet

\* The event at the head is run.
LEMMA TailIs ==
    ASSUME NEW s, Distinct(s), s # <<>>
    PROVE  Distinct(Tail(s)) /\ ToSet(Tail(s)) \subseteq ToSet(s)
<1> DEFINE L == Len(s)
           t == Tail(s)
<1>1. s \in Seq(Event) /\ L \in Nat /\ L # 0 /\ DOMAIN s = 1..L
  BY LenProperties, EmptySeq DEF Distinct
<1>2. t \in Seq(Event) /\ Len(t) = L - 1 /\ \A i \in 1..(L - 1) : t[i] = s[i + 1]
  BY <1>1, HeadTailProperties
<1>3. DOMAIN t = 1..(L - 1)
  BY <1>2, LenProperties
<1> HIDE DEF t
<1>4. /\ \A i \in 1..(L - 1) : i + 1 \in 1..L
      /\ \A i, j \in 1..L : s[i].c = s[j].c /\ s[i].d = s[j].d => i = j
  BY <1>1 DEF Distinct
<1>5. Distinct(t)
  <2>1. SUFFICES ASSUME NEW i \in 1..(L - 1), NEW j \in 1..(L - 1),
                        t[i].c = t[j].c, t[i].d = t[j].d
                 PROVE  i = j
    BY <1>2, <1>3 DEF Distinct
  <2>2. i + 1 = j + 1
    BY <1>2, <1>4, <2>1
  <2>3. QED
    BY <1>1, <2>2
<1>6. ToSet(t) \subseteq ToSet(s)
  BY <1>1, <1>2, <1>3, <1>4 DEF ToSet
<1>7. QED
  BY <1>5, <1>6 DEF t

\* The slot at the head of the free list is taken.
LEMMA HeadTaken ==
    ASSUME NEW s, NEW E, NEW S, Once(s, E, S), s # <<>>
    PROVE  /\ Head(s) \in S /\ Once(Tail(s), E, S \ {Head(s)})
           /\ Len(Tail(s)) = Len(s) - 1
<1> DEFINE L == Len(s)
           t == Tail(s)
           h == Head(s)
<1>1. s \in Seq(E) /\ L \in Nat /\ L # 0 /\ DOMAIN s = 1..L
  BY LenProperties, EmptySeq DEF Once
<1>2. t \in Seq(E) /\ Len(t) = L - 1 /\ \A i \in 1..(L - 1) : t[i] = s[i + 1]
  BY <1>1, HeadTailProperties
<1>3. DOMAIN t = 1..(L - 1)
  BY <1>2, LenProperties
<1>4. h = s[1]
  BY <1>1
<1> HIDE DEF t, h
<1>5. 1 \in 1..L /\ \A i \in 1..(L - 1) : i + 1 \in 1..L /\ i + 1 # 1
  BY <1>1
<1>6. /\ \A i, j \in 1..L : s[i] = s[j] => i = j
      /\ S = {s[i] : i \in 1..L}
  BY <1>1 DEF Once, IsInjective, ToSet
<1>7. IsInjective(t)
  <2>1. SUFFICES ASSUME NEW i \in 1..(L - 1), NEW j \in 1..(L - 1), t[i] = t[j]
                 PROVE  i = j
    BY <1>3 DEF IsInjective
  <2>2. i + 1 = j + 1
    BY <1>2, <1>5, <1>6, <2>1
  <2>3. QED
    BY <1>1, <2>2
<1>8. ToSet(t) = {t[i] : i \in 1..(L - 1)}
  BY <1>3 DEF ToSet
<1>9. ToSet(t) \subseteq S \ {h}
  BY <1>2, <1>4, <1>5, <1>6, <1>8
<1>10. ASSUME NEW x \in S, x # h PROVE x \in ToSet(t)
  <2>1. PICK i \in 1..L : s[i] = x
    BY <1>6
  <2>2. i - 1 \in 1..(L - 1) /\ (i - 1) + 1 = i
    BY <1>1, <1>4, <1>10, <2>1
  <2>3. t[i - 1] = x
    BY <1>2, <2>1, <2>2
  <2>4. QED
    BY <1>8, <2>2, <2>3
<1>11. QED
  BY <1>2, <1>4, <1>5, <1>6, <1>7, <1>9, <1>10 DEF Once, t, h

\* The oldest reusable connection is one of them.
LEMMA LastIs ==
    ASSUME NEW s, NEW S, s \in Seq(S), s # <<>>
    PROVE  Last(s) \in ToSet(s)
<1>1. Len(s) \in Nat \ {0} /\ DOMAIN s = 1..Len(s)
  BY LenProperties, EmptySeq
<1>2. QED
  BY <1>1 DEF Last, ToSet

\* What is posted are events.
LEMMA EventsOf ==
    ASSUME NEW s, Distinct(s)
    PROVE  \A e \in ToSet(s) : e \in Event
<1>1. s \in Seq(Event) /\ ToSet(s) = {s[i] : i \in 1..Len(s)}
  BY LenProperties DEF Distinct, ToSet
<1>2. QED
  BY <1>1, ElementOfSeq

-----------------------------------------------------------------------------
(* What the functions of ngx_connection.c make of a pool, field by field. *)

\* ngx_free_connection() touches the free list and its counter.
LEMMA FreedIs ==
    ASSUME NEW p, p = FieldsOf(p), NEW c, NEW r, r = Freed(p, c)
    PROVE  /\ r = FieldsOf(r)
           /\ r.free = <<c>> \o p.free /\ r.freeN = p.freeN + 1
           /\ r.fd = p.fd /\ r.inst = p.inst /\ r.gen = p.gen /\ r.active = p.active
           /\ r.reusable = p.reusable /\ r.timers = p.timers /\ r.posted = p.posted
           /\ r.next = p.next /\ r.reg = p.reg
  BY DEF Freed, FieldsOf

\* ngx_close_connection() touches all that can point to the slot.
LEMMA ClosedIs ==
    ASSUME NEW p, p = FieldsOf(p), NEW c, IsOpen(p, c), NEW r, r = Closed(p, c)
    PROVE  /\ r = FieldsOf(r)
           /\ r.free = <<c>> \o p.free /\ r.freeN = p.freeN + 1
           /\ r.fd = [p.fd EXCEPT ![c] = NoFd]
           /\ r.inst = p.inst /\ r.gen = p.gen
           /\ r.active = [p.active EXCEPT ![c] = {}]
           /\ r.reusable = Unqueued(p.reusable, c)
           /\ r.timers = {e \in p.timers : e.c # c \/ e.g # p.gen[c]}
           /\ r.posted = NotOf(c, p.posted) /\ r.next = NotOf(c, p.next)
           /\ r.reg = [p.reg EXCEPT ![p.fd[c]] = NoReg]
<1>1. PICK q : q = [p EXCEPT !.timers = {e \in @ : e.c # c \/ e.g # p.gen[c]},
                             !.active[c] = {},
                             !.posted = NotOf(c, @),
                             !.next = NotOf(c, @),
                             !.reusable = Unqueued(@, c),
                             !.fd[c] = NoFd,
                             !.reg[p.fd[c]] = NoReg]
  BY Zenon
<1>2. r = Freed(q, c)
  BY <1>1, Zenon DEF Closed
<1>3. /\ q = FieldsOf(q)
      /\ q.free = p.free /\ q.freeN = p.freeN
      /\ q.fd = [p.fd EXCEPT ![c] = NoFd]
      /\ q.inst = p.inst /\ q.gen = p.gen
      /\ q.active = [p.active EXCEPT ![c] = {}]
      /\ q.reusable = Unqueued(p.reusable, c)
      /\ q.timers = {e \in p.timers : e.c # c \/ e.g # p.gen[c]}
      /\ q.posted = NotOf(c, p.posted) /\ q.next = NotOf(c, p.next)
      /\ q.reg = [p.reg EXCEPT ![p.fd[c]] = NoReg]
  BY <1>1 DEF FieldsOf
<1>4. QED
  BY <1>2, <1>3, FreedIs

\* ngx_close_listening_sockets() leaves the queues and the timers as they are.
LEMMA ListenerClosedIs ==
    ASSUME NEW p, p = FieldsOf(p), NEW r, r = ListenerClosed(p)
    PROVE  /\ r = FieldsOf(r)
           /\ r.free = <<Listener>> \o p.free /\ r.freeN = p.freeN + 1
           /\ r.fd = [p.fd EXCEPT ![Listener] = NoFd]
           /\ r.inst = p.inst /\ r.gen = p.gen
           /\ r.active = [p.active EXCEPT ![Listener] = {}]
           /\ r.reusable = p.reusable /\ r.timers = p.timers
           /\ r.posted = p.posted /\ r.next = p.next
           /\ r.reg = [p.reg EXCEPT ![p.fd[Listener]] = NoReg]
<1>1. PICK q : q = [p EXCEPT !.active[Listener] = {}, !.fd[Listener] = NoFd,
                             !.reg[p.fd[Listener]] = NoReg]
  OBVIOUS
<1>2. r = Freed(q, Listener)
  BY <1>1, Zenon DEF ListenerClosed
<1>3. /\ q = FieldsOf(q)
      /\ q.free = p.free /\ q.freeN = p.freeN
      /\ q.fd = [p.fd EXCEPT ![Listener] = NoFd]
      /\ q.inst = p.inst /\ q.gen = p.gen
      /\ q.active = [p.active EXCEPT ![Listener] = {}]
      /\ q.reusable = p.reusable /\ q.timers = p.timers
      /\ q.posted = p.posted /\ q.next = p.next
      /\ q.reg = [p.reg EXCEPT ![p.fd[Listener]] = NoReg]
  BY <1>1 DEF FieldsOf
<1>4. QED
  BY <1>2, <1>3, FreedIs

\* ngx_reusable_connection() touches its queue.
LEMMA ReusableIs ==
    ASSUME NEW p, p = FieldsOf(p), NEW c, NEW r,
           r = Reusable(p, c) \/ r = NotReusable(p, c)
    PROVE  /\ r = FieldsOf(r)
           /\ r.reusable \in {<<c>> \o Unqueued(p.reusable, c), Unqueued(p.reusable, c)}
           /\ r.fd = p.fd /\ r.inst = p.inst /\ r.gen = p.gen /\ r.active = p.active
           /\ r.free = p.free /\ r.freeN = p.freeN /\ r.timers = p.timers
           /\ r.posted = p.posted /\ r.next = p.next /\ r.reg = p.reg
<1>1. CASE r = Reusable(p, c)
  BY <1>1 DEF Reusable, FieldsOf
<1>2. CASE r = NotReusable(p, c)
  BY <1>2 DEF NotReusable, FieldsOf
<1>3. QED
  BY <1>1, <1>2

\* ngx_get_connection() turns the instance over with the new use.
LEMMA OpenedIs ==
    ASSUME NEW p, p = FieldsOf(p), NEW s, NEW c, c = Head(p.free),
           NEW r, r = Opened(p, s)
    PROVE  /\ r = FieldsOf(r)
           /\ r.free = Tail(p.free) /\ r.freeN = p.freeN - 1
           /\ r.fd = [p.fd EXCEPT ![c] = s]
           /\ r.inst = [p.inst EXCEPT ![c] = 1 - p.inst[c]]
           /\ r.gen = [p.gen EXCEPT ![c] = p.gen[c] + 1]
           /\ r.active = [p.active EXCEPT ![c] = {}]
           /\ r.reusable = p.reusable /\ r.timers = p.timers
           /\ r.posted = p.posted /\ r.next = p.next /\ r.reg = p.reg
  BY DEF Opened, FieldsOf

\* ngx_epoll_add_event() and ngx_epoll_del_event() touch the kernel and the marks.
LEMMA RegisteredIs ==
    ASSUME NEW p, p = FieldsOf(p), NEW c, NEW ds, NEW r, r = Registered(p, c, ds)
    PROVE  /\ r = FieldsOf(r)
           /\ r.active = [p.active EXCEPT ![c] = ds]
           /\ r.reg = [p.reg EXCEPT ![p.fd[c]] = IF ds = {} THEN NoReg
                                                 ELSE [c |-> c, i |-> p.inst[c]]]
           /\ r.fd = p.fd /\ r.inst = p.inst /\ r.gen = p.gen
           /\ r.free = p.free /\ r.freeN = p.freeN /\ r.reusable = p.reusable
           /\ r.timers = p.timers /\ r.posted = p.posted /\ r.next = p.next
  BY DEF Registered, FieldsOf

\* A step that changes the queues of posted events or the timers only.
Aside(r, p) ==
    /\ r = FieldsOf(r)
    /\ r.fd = p.fd /\ r.inst = p.inst /\ r.gen = p.gen /\ r.active = p.active
    /\ r.free = p.free /\ r.freeN = p.freeN /\ r.reusable = p.reusable
    /\ r.reg = p.reg

\* A change of one of these fields leaves the others alone.
LEMMA AsideIs ==
    ASSUME NEW p, p = FieldsOf(p), NEW a, NEW r
    PROVE  /\ r = [p EXCEPT !.timers = a] =>
                 Aside(r, p) /\ r.timers = a /\ r.posted = p.posted /\ r.next = p.next
           /\ r = [p EXCEPT !.posted = a] =>
                 Aside(r, p) /\ r.timers = p.timers /\ r.posted = a /\ r.next = p.next
           /\ r = [p EXCEPT !.next = a] =>
                 Aside(r, p) /\ r.timers = p.timers /\ r.posted = p.posted /\ r.next = a
  BY DEF Aside, FieldsOf

-----------------------------------------------------------------------------
(* These functions keep PoolOK. *)

\* ngx_close_connection(), for a connection other than the listening one.
LEMMA CloseKeeps ==
    ASSUME NEW p, NEW q \in BOOLEAN, PoolOK(p, q),
           NEW c \in Conns, IsOpen(p, c), c # Listener \/ q,
           NEW r, r = Closed(p, c)
    PROVE  /\ PoolOK(r, q) /\ r.gen = p.gen
           /\ \A d \in Conns : r.fd[d] \in {p.fd[d], NoFd}
<1>1. /\ p = FieldsOf(p) /\ SlotsOK(p) /\ FreeOK(p) /\ ReuseOK(p) /\ PostedOK(p)
      /\ TimersOK(p, q) /\ KernelOK(p) /\ (q \/ ListenOK(p))
  BY DEF PoolOK
<1>2. /\ r = FieldsOf(r)
      /\ r.free = <<c>> \o p.free /\ r.freeN = p.freeN + 1
      /\ r.fd = [p.fd EXCEPT ![c] = NoFd]
      /\ r.inst = p.inst /\ r.gen = p.gen
      /\ r.active = [p.active EXCEPT ![c] = {}]
      /\ r.reusable = Unqueued(p.reusable, c)
      /\ r.timers = {e \in p.timers : e.c # c \/ e.g # p.gen[c]}
      /\ r.posted = NotOf(c, p.posted) /\ r.next = NotOf(c, p.next)
      /\ r.reg = [p.reg EXCEPT ![p.fd[c]] = NoReg]
  BY <1>1, ClosedIs
<1>3. /\ p.fd \in [Conns -> Fds \cup {NoFd}] /\ p.active \in [Conns -> SUBSET Dirs]
      /\ NoFd \notin Fds /\ p.fd[c] \in Fds
  BY <1>1, PoolAssumption DEF SlotsOK, IsOpen
<1>4. /\ r.fd[c] = NoFd /\ \A d \in Conns \ {c} : r.fd[d] = p.fd[d]
      /\ r.active[c] = {} /\ \A d \in Conns \ {c} : r.active[d] = p.active[d]
      /\ r.fd \in [Conns -> Fds \cup {NoFd}] /\ r.active \in [Conns -> SUBSET Dirs]
  BY <1>2, <1>3
<1>5. \A d \in Conns : IsOpen(r, d) <=> d # c /\ IsOpen(p, d)
  BY <1>4 DEF IsOpen
<1>6. SlotsOK(r)
  <2>1. \A d, e \in Conns : r.fd[d] = r.fd[e] /\ IsOpen(r, d) => d = e
    BY <1>1, <1>4, <1>5 DEF SlotsOK, IsOpen
  <2>2. p.gen \in [Conns -> Nat] /\ p.inst = [d \in Conns |-> (p.gen[d] + 1) % 2]
    BY <1>1 DEF SlotsOK
  <2>3. r.gen \in [Conns -> Nat] /\ r.inst = [d \in Conns |-> (r.gen[d] + 1) % 2]
    BY <1>2, <2>2, Zenon
  <2>4. QED
    BY <1>4, <2>1, <2>3 DEF SlotsOK
<1>7. FreeOK(r)
  <2>1. Once(p.free, Conns, {d \in Conns : ~IsOpen(p, d)})
    BY <1>1 DEF FreeOK
  <2>2. Once(r.free, Conns, {d \in Conns : ~IsOpen(p, d)} \cup {c})
    BY <1>2, <2>1, PutAtHead
  <2>3. {d \in Conns : ~IsOpen(p, d)} \cup {c} = {d \in Conns : ~IsOpen(r, d)}
    BY <1>5
  <2>4. Len(r.free) = Len(p.free) + 1
    <3>1. p.free \in Seq(Conns) /\ Len(p.free) \in Nat
      BY <2>1, LenProperties DEF Once
    <3>2. <<c>> \in Seq(Conns) /\ Len(<<c>>) = 1
      OBVIOUS
    <3>3. Len(<<c>> \o p.free) = 1 + Len(p.free)
      BY <3>1, <3>2, ConcatProperties
    <3>4. QED
      BY <1>2, <3>1, <3>3
  <2>5. QED
    BY <1>1, <1>2, <2>2, <2>3, <2>4 DEF FreeOK
<1>8. ReuseOK(r) /\ ToSet(r.reusable) = ToSet(p.reusable) \ {c}
  <2>1. Once(r.reusable, Conns, ToSet(p.reusable) \ {c})
    BY <1>1, <1>2, UnqueuedIs DEF ReuseOK
  <2>2. ToSet(r.reusable) = ToSet(p.reusable) \ {c}
    BY <2>1 DEF Once
  <2>3. \A d \in ToSet(r.reusable) : d \in Conns /\ IsOpen(p, d) /\ d # c
    <3>1. \A d \in ToSet(p.reusable) : d \in Conns
      BY <1>1, LenProperties, ElementOfSeq DEF ReuseOK, Once, ToSet
    <3>2. QED
      BY <1>1, <2>2, <3>1 DEF ReuseOK
  <2>4. QED
    BY <1>5, <2>1, <2>2, <2>3 DEF ReuseOK
<1>9. /\ Distinct(r.posted) /\ ToSet(r.posted) = {e \in ToSet(p.posted) : e.c # c}
      /\ Distinct(r.next) /\ ToSet(r.next) = {e \in ToSet(p.next) : e.c # c}
  BY <1>1, <1>2, NotOfIs DEF PostedOK
<1>10. \A e \in Event : e.c # c /\ Current(p, e) => Current(r, e)
  BY <1>2, <1>5 DEF Current, Event
<1>11. PostedOK(r)
  <2>1. \A e \in ToSet(p.posted) \cup ToSet(p.next) : e \in Event /\ Current(p, e)
    BY <1>1, EventsOf DEF PostedOK
  <2>2. QED
    BY <1>1, <1>9, <1>10, <2>1 DEF PostedOK
<1>12. TimersOK(r, q)
  <2>1. SUFFICES ASSUME NEW e \in r.timers
                 PROVE  \/ Current(r, e)
                        \/ q /\ e.c = Listener /\ e.d = "read" /\ e.g = 1
    BY <1>1, <1>2 DEF TimersOK
  <2>2. e \in p.timers /\ e \in Event /\ (e.c # c \/ e.g # p.gen[c])
    BY <1>1, <1>2 DEF TimersOK
  <2>3. Current(p, e) => e.c # c
    BY <2>2 DEF Current
  <2>4. QED
    BY <1>1, <1>10, <2>2, <2>3 DEF TimersOK
<1>13. KernelOK(r)
  <2>1. r.reg \in [Fds -> [c : Conns, i : {0, 1}] \cup {NoReg}]
    <3>1. PICK T : T = [c : Conns, i : {0, 1}] \cup {NoReg}
      OBVIOUS
    <3>2. p.reg \in [Fds -> T] /\ NoReg \in T
      BY <1>1, <3>1 DEF KernelOK
    <3>3. r.reg \in [Fds -> T]
      BY <1>2, <3>2
    <3>4. QED
      BY <3>1, <3>3
  <2>2. ASSUME NEW f \in Fds, r.reg[f] # NoReg
        PROVE  r.fd[r.reg[f].c] = f /\ r.inst[r.reg[f].c] = r.reg[f].i
    <3>1. f # p.fd[c] /\ r.reg[f] = p.reg[f]
      BY <1>1, <1>2, <2>2 DEF KernelOK
    <3>2. p.fd[p.reg[f].c] = f /\ p.inst[p.reg[f].c] = p.reg[f].i /\ p.reg[f].c \in Conns
      BY <1>1, <2>2, <3>1 DEF KernelOK
    <3>3. QED
      BY <1>2, <1>4, <3>1, <3>2
  <2>3. ASSUME NEW d \in Conns, r.active[d] # {}
        PROVE  IsOpen(r, d) /\ r.reg[r.fd[d]] # NoReg
    <3>1. d # c /\ p.active[d] # {} /\ r.fd[d] = p.fd[d]
      BY <1>4, <2>3
    <3>2. IsOpen(p, d) /\ p.reg[p.fd[d]] # NoReg /\ p.fd[d] \in Fds
      BY <1>1, <1>3, <3>1 DEF KernelOK, IsOpen
    <3>3. p.fd[d] # p.fd[c]
      BY <1>1, <3>1, <3>2 DEF SlotsOK
    <3>4. QED
      BY <1>1, <1>2, <1>5, <3>1, <3>2, <3>3 DEF KernelOK
  <2>4. QED
    BY <2>1, <2>2, <2>3 DEF KernelOK
<1>14. q \/ ListenOK(r)
  <2>1. SUFFICES ASSUME ~q PROVE ListenOK(r)
    OBVIOUS
  <2>2. c # Listener /\ ListenOK(p) /\ Listener \in Conns
    BY <1>1, <2>1, PoolAssumption
  <2>3. IsOpen(r, Listener)
    BY <1>5, <2>2 DEF ListenOK
  <2>4. QED
    BY <1>2, <1>8, <1>9, <2>2, <2>3 DEF ListenOK
<1>15. QED
  BY <1>2, <1>4, <1>6, <1>7, <1>8, <1>11, <1>12, <1>13, <1>14 DEF PoolOK

\* ngx_close_listening_sockets(), when nothing is posted: what is left of the
\* listening slot is its timer.
LEMMA ListenerCloseKeeps ==
    ASSUME NEW p, PoolOK(p, FALSE), ToSet(p.posted) = {}, NEW r, r = ListenerClosed(p)
    PROVE  PoolOK(r, TRUE) /\ r.gen = p.gen
<1>1. /\ p = FieldsOf(p) /\ SlotsOK(p) /\ FreeOK(p) /\ ReuseOK(p) /\ PostedOK(p)
      /\ TimersOK(p, FALSE) /\ KernelOK(p) /\ ListenOK(p)
  BY DEF PoolOK
<1>2. /\ r = FieldsOf(r)
      /\ r.free = <<Listener>> \o p.free /\ r.freeN = p.freeN + 1
      /\ r.fd = [p.fd EXCEPT ![Listener] = NoFd]
      /\ r.inst = p.inst /\ r.gen = p.gen
      /\ r.active = [p.active EXCEPT ![Listener] = {}]
      /\ r.reusable = p.reusable /\ r.timers = p.timers
      /\ r.posted = p.posted /\ r.next = p.next
      /\ r.reg = [p.reg EXCEPT ![p.fd[Listener]] = NoReg]
  <2>1. p = FieldsOf(p)
    BY <1>1
  <2>2. QED
    BY <2>1, ListenerClosedIs
<1>3. /\ Listener \in Conns /\ IsOpen(p, Listener) /\ p.gen[Listener] = 1
      /\ Listener \notin ToSet(p.reusable)
  BY <1>1, PoolAssumption DEF ListenOK
<1>4. /\ p.fd \in [Conns -> Fds \cup {NoFd}] /\ p.active \in [Conns -> SUBSET Dirs]
      /\ NoFd \notin Fds /\ p.fd[Listener] \in Fds
  <2>1. p.fd \in [Conns -> Fds \cup {NoFd}] /\ p.active \in [Conns -> SUBSET Dirs]
    BY <1>1 DEF SlotsOK
  <2>2. p.fd[Listener] # NoFd
    BY <1>3 DEF IsOpen
  <2>3. QED
    BY <1>3, <2>1, <2>2, PoolAssumption
<1>5. /\ r.fd[Listener] = NoFd /\ \A d \in Conns \ {Listener} : r.fd[d] = p.fd[d]
      /\ r.active[Listener] = {} /\ \A d \in Conns \ {Listener} : r.active[d] = p.active[d]
      /\ r.fd \in [Conns -> Fds \cup {NoFd}] /\ r.active \in [Conns -> SUBSET Dirs]
  BY <1>2, <1>3, <1>4
<1>6. \A d \in Conns : IsOpen(r, d) <=> d # Listener /\ IsOpen(p, d)
  BY <1>3, <1>5 DEF IsOpen
<1>7. SlotsOK(r)
  <2>1. \A d, e \in Conns : r.fd[d] = r.fd[e] /\ IsOpen(r, d) => d = e
    <3>1. \A d, e \in Conns : p.fd[d] = p.fd[e] /\ p.fd[d] # NoFd => d = e
      BY <1>1 DEF SlotsOK, IsOpen
    <3>2. QED
      BY <1>3, <1>5, <3>1 DEF IsOpen
  <2>2. p.gen \in [Conns -> Nat] /\ p.inst = [d \in Conns |-> (p.gen[d] + 1) % 2]
    BY <1>1 DEF SlotsOK
  <2>3. r.gen \in [Conns -> Nat] /\ r.inst = [d \in Conns |-> (r.gen[d] + 1) % 2]
    BY <1>2, <2>2, Zenon
  <2>4. QED
    BY <1>5, <2>1, <2>3 DEF SlotsOK
<1>8. FreeOK(r)
  <2>1. Once(p.free, Conns, {d \in Conns : ~IsOpen(p, d)})
    BY <1>1 DEF FreeOK
  <2>2. Once(r.free, Conns, {d \in Conns : ~IsOpen(p, d)} \cup {Listener})
    BY <1>2, <1>3, <2>1, PutAtHead
  <2>3. {d \in Conns : ~IsOpen(p, d)} \cup {Listener} = {d \in Conns : ~IsOpen(r, d)}
    BY <1>3, <1>6
  <2>4. Len(r.free) = Len(p.free) + 1
    <3>1. p.free \in Seq(Conns) /\ Len(p.free) \in Nat
      BY <2>1, LenProperties DEF Once
    <3>2. QED
      BY <1>2, <1>3, <3>1, ConcatProperties
  <2>5. QED
    BY <1>1, <1>2, <2>2, <2>3, <2>4 DEF FreeOK
<1>9. ReuseOK(r)
  <2>1. \A d \in ToSet(p.reusable) : d \in Conns /\ IsOpen(p, d)
    BY <1>1, LenProperties, ElementOfSeq DEF ReuseOK, Once, ToSet
  <2>2. QED
    BY <1>1, <1>2, <1>3, <1>6, <2>1 DEF ReuseOK
<1>10. \A e \in Event : e.c # Listener /\ Current(p, e) => Current(r, e)
  BY <1>2, <1>6 DEF Current, Event
<1>11. PostedOK(r)
  <2>1. \A e \in ToSet(p.next) : e \in Event /\ Current(p, e) /\ e.c # Listener
    BY <1>1, EventsOf DEF PostedOK, ListenOK
  <2>2. QED
    BY <1>1, <1>2, <1>10, <2>1 DEF PostedOK
<1>12. TimersOK(r, TRUE)
  <2>1. SUFFICES ASSUME NEW e \in r.timers
                 PROVE  \/ Current(r, e)
                        \/ e.c = Listener /\ e.d = "read" /\ e.g = 1
    BY <1>1, <1>2 DEF TimersOK
  <2>2. e \in Event /\ Current(p, e)
    BY <1>1, <1>2 DEF TimersOK
  <2>3. CASE e.c = Listener
    BY <1>1, <1>2, <1>3, <2>2, <2>3 DEF ListenOK, Current
  <2>4. CASE e.c # Listener
    BY <1>10, <2>2, <2>4
  <2>5. QED
    BY <2>3, <2>4
<1>13. KernelOK(r)
  <2>1. r.reg \in [Fds -> [c : Conns, i : {0, 1}] \cup {NoReg}]
    <3>1. PICK T : T = [c : Conns, i : {0, 1}] \cup {NoReg}
      OBVIOUS
    <3>2. p.reg \in [Fds -> T] /\ NoReg \in T
      BY <1>1, <3>1 DEF KernelOK
    <3>3. r.reg \in [Fds -> T]
      BY <1>2, <3>2
    <3>4. QED
      BY <3>1, <3>3
  <2>2. ASSUME NEW f \in Fds, r.reg[f] # NoReg
        PROVE  r.fd[r.reg[f].c] = f /\ r.inst[r.reg[f].c] = r.reg[f].i
    <3>1. f # p.fd[Listener] /\ r.reg[f] = p.reg[f]
      BY <1>1, <1>2, <2>2 DEF KernelOK
    <3>2. p.fd[p.reg[f].c] = f /\ p.inst[p.reg[f].c] = p.reg[f].i /\ p.reg[f].c \in Conns
      BY <1>1, <2>2, <3>1 DEF KernelOK
    <3>3. QED
      BY <1>2, <1>5, <3>1, <3>2
  <2>3. ASSUME NEW d \in Conns, r.active[d] # {}
        PROVE  IsOpen(r, d) /\ r.reg[r.fd[d]] # NoReg
    <3>1. d # Listener /\ p.active[d] # {} /\ r.fd[d] = p.fd[d]
      BY <1>5, <2>3
    <3>2. IsOpen(p, d) /\ p.reg[p.fd[d]] # NoReg /\ p.fd[d] \in Fds
      BY <1>1, <1>4, <3>1 DEF KernelOK, IsOpen
    <3>3. p.fd[d] # p.fd[Listener]
      BY <1>1, <1>3, <3>1, <3>2 DEF SlotsOK
    <3>4. QED
      BY <1>1, <1>2, <1>6, <3>1, <3>2, <3>3 DEF KernelOK
  <2>4. QED
    BY <2>1, <2>2, <2>3 DEF KernelOK
<1>14. QED
  BY <1>2, <1>7, <1>8, <1>9, <1>11, <1>12, <1>13 DEF PoolOK

\* ngx_reusable_connection().
LEMMA ReuseKeeps ==
    ASSUME NEW p, NEW q \in BOOLEAN, PoolOK(p, q),
           NEW c \in Conns, IsOpen(p, c), c # Listener \/ q,
           NEW r, r = Reusable(p, c) \/ r = NotReusable(p, c)
    PROVE  PoolOK(r, q) /\ r.gen = p.gen /\ r.fd = p.fd
<1>1. /\ p = FieldsOf(p) /\ SlotsOK(p) /\ FreeOK(p) /\ ReuseOK(p) /\ PostedOK(p)
      /\ TimersOK(p, q) /\ KernelOK(p) /\ (q \/ ListenOK(p))
  BY DEF PoolOK
<1>2. /\ r = FieldsOf(r)
      /\ r.reusable \in {<<c>> \o Unqueued(p.reusable, c), Unqueued(p.reusable, c)}
      /\ r.fd = p.fd /\ r.inst = p.inst /\ r.gen = p.gen /\ r.active = p.active
      /\ r.free = p.free /\ r.freeN = p.freeN /\ r.timers = p.timers
      /\ r.posted = p.posted /\ r.next = p.next /\ r.reg = p.reg
  BY <1>1, ReusableIs
<1>3. \A x : IsOpen(r, x) <=> IsOpen(p, x)
  BY <1>2 DEF IsOpen
<1>4. \A e : Current(r, e) <=> Current(p, e)
  BY <1>2, <1>3 DEF Current
<1>5. PICK S : S = ToSet(p.reusable)
  OBVIOUS
<1>6. Once(Unqueued(p.reusable, c), Conns, S \ {c})
  BY <1>1, <1>5, UnqueuedIs DEF ReuseOK
<1>7. Once(<<c>> \o Unqueued(p.reusable, c), Conns, (S \ {c}) \cup {c})
  BY <1>6, PutAtHead
<1>8. Once(r.reusable, Conns, ToSet(r.reusable)) /\ ToSet(r.reusable) \subseteq S \cup {c}
  BY <1>2, <1>6, <1>7 DEF Once
<1>9. ReuseOK(r)
  BY <1>1, <1>3, <1>5, <1>8 DEF ReuseOK
<1>10. SlotsOK(r) /\ FreeOK(r)
  <2>1. {d \in Conns : ~IsOpen(r, d)} = {d \in Conns : ~IsOpen(p, d)}
    BY <1>3
  <2>2. FreeOK(r)
    BY <1>1, <1>2, <2>1 DEF FreeOK
  <2>3. QED
    BY <1>1, <1>2, <1>3, <2>2 DEF SlotsOK
<1>11. PostedOK(r) /\ TimersOK(r, q)
  BY <1>1, <1>2, <1>4 DEF PostedOK, TimersOK
<1>12. KernelOK(r)
  BY <1>1, <1>2, <1>3 DEF KernelOK
<1>13. q \/ ListenOK(r)
  BY <1>1, <1>2, <1>3, <1>5, <1>8 DEF ListenOK
<1>14. QED
  BY <1>2, <1>9, <1>10, <1>11, <1>12, <1>13 DEF PoolOK

\* A free slot is taken for a socket that is in no slot.
LEMMA OpenKeeps ==
    ASSUME NEW p, NEW q \in BOOLEAN, PoolOK(p, q), p.free # <<>>,
           NEW s \in Fds, \A d \in Conns : p.fd[d] # s,
           NEW r, r = Opened(p, s)
    PROVE  PoolOK(r, q) /\ \A d \in Conns : r.gen[d] >= p.gen[d]
<1>1. /\ p = FieldsOf(p) /\ SlotsOK(p) /\ FreeOK(p) /\ ReuseOK(p) /\ PostedOK(p)
      /\ TimersOK(p, q) /\ KernelOK(p) /\ (q \/ ListenOK(p))
  BY DEF PoolOK
<1>2. PICK c : c = Head(p.free)
  OBVIOUS
<1>3. /\ r = FieldsOf(r)
      /\ r.free = Tail(p.free) /\ r.freeN = p.freeN - 1
      /\ r.fd = [p.fd EXCEPT ![c] = s]
      /\ r.inst = [p.inst EXCEPT ![c] = 1 - p.inst[c]]
      /\ r.gen = [p.gen EXCEPT ![c] = p.gen[c] + 1]
      /\ r.active = [p.active EXCEPT ![c] = {}]
      /\ r.reusable = p.reusable /\ r.timers = p.timers
      /\ r.posted = p.posted /\ r.next = p.next /\ r.reg = p.reg
  BY <1>1, <1>2, OpenedIs
<1>4. PICK S : S = {d \in Conns : ~IsOpen(p, d)}
  OBVIOUS
<1>5. /\ c \in S /\ Once(r.free, Conns, S \ {c})
      /\ Len(r.free) = Len(p.free) - 1
  <2>1. Once(p.free, Conns, S)
    BY <1>1, <1>4 DEF FreeOK
  <2>2. /\ Head(p.free) \in S /\ Once(Tail(p.free), Conns, S \ {Head(p.free)})
        /\ Len(Tail(p.free)) = Len(p.free) - 1
    BY <2>1, HeadTaken
  <2>3. QED
    BY <1>2, <1>3, <2>2
<1>6. c \in Conns /\ ~IsOpen(p, c)
  BY <1>4, <1>5
<1>7. /\ p.fd \in [Conns -> Fds \cup {NoFd}] /\ p.gen \in [Conns -> Nat]
      /\ p.active \in [Conns -> SUBSET Dirs]
      /\ \A d \in Conns : p.inst[d] = (p.gen[d] + 1) % 2
      /\ DOMAIN p.inst = Conns
      /\ \A d, e \in Conns : p.fd[d] = p.fd[e] /\ p.fd[d] # NoFd => d = e
      /\ s # NoFd
  BY <1>1, PoolAssumption DEF SlotsOK, IsOpen
<1>8. /\ r.fd[c] = s /\ \A d \in Conns \ {c} : r.fd[d] = p.fd[d]
      /\ r.gen[c] = p.gen[c] + 1 /\ \A d \in Conns \ {c} : r.gen[d] = p.gen[d]
      /\ r.active[c] = {} /\ \A d \in Conns \ {c} : r.active[d] = p.active[d]
      /\ r.inst[c] = 1 - p.inst[c] /\ \A d \in Conns \ {c} : r.inst[d] = p.inst[d]
      /\ r.fd \in [Conns -> Fds \cup {NoFd}] /\ r.gen \in [Conns -> Nat]
      /\ r.active \in [Conns -> SUBSET Dirs] /\ DOMAIN r.inst = Conns
  BY <1>3, <1>6, <1>7
<1>9. \A d \in Conns : IsOpen(r, d) <=> d = c \/ IsOpen(p, d)
  BY <1>6, <1>7, <1>8 DEF IsOpen
<1>10. SlotsOK(r)
  <2>1. \A d, e \in Conns : r.fd[d] = r.fd[e] /\ IsOpen(r, d) => d = e
    <3>1. \A d \in Conns : d # c => r.fd[d] = p.fd[d] /\ r.fd[d] # s
      BY <1>8
    <3>2. r.fd[c] = s
      BY <1>8
    <3>3. QED
      BY <1>7, <3>1, <3>2 DEF IsOpen
  <2>2. \A n \in Nat : ((n + 1) + 1) % 2 = 1 - ((n + 1) % 2)
    OBVIOUS
  <2>3. \A d \in Conns : r.inst[d] = (r.gen[d] + 1) % 2
    <3>1. PICK m : m = p.gen[c]
      OBVIOUS
    <3>2. m \in Nat /\ r.gen[c] = m + 1 /\ p.inst[c] = (m + 1) % 2
      BY <1>6, <1>7, <1>8, <3>1
    <3>3. PICK k : k = (m + 1) % 2
      OBVIOUS
    <3>4. r.inst[c] = 1 - k /\ 1 - k = ((m + 1) + 1) % 2
      BY <1>8, <2>2, <3>2, <3>3
    <3>5. \A d \in Conns : d # c => r.inst[d] = (r.gen[d] + 1) % 2
      <4>1. \A d \in Conns \ {c} : r.inst[d] = p.inst[d] /\ r.gen[d] = p.gen[d]
        BY <1>8
      <4>2. \A d \in Conns : p.inst[d] = (p.gen[d] + 1) % 2
        BY <1>7
      <4>3. QED
        BY <4>1, <4>2, Zenon
    <3>6. QED
      BY <3>2, <3>4, <3>5
  <2>4. r.inst = [d \in Conns |-> (r.gen[d] + 1) % 2]
    <3>1. r.inst = [d \in Conns |-> r.inst[d]]
      BY <1>1, <1>3, <1>8 DEF SlotsOK
    <3>2. QED
      BY <2>3, <3>1
  <2>5. QED
    BY <1>8, <2>1, <2>4 DEF SlotsOK
<1>11. FreeOK(r)
  <2>1. S \ {c} = {d \in Conns : ~IsOpen(r, d)}
    BY <1>4, <1>9
  <2>2. QED
    BY <1>1, <1>3, <1>5, <2>1 DEF FreeOK
<1>12. ReuseOK(r)
  <2>1. \A d \in ToSet(p.reusable) : d \in Conns /\ IsOpen(p, d)
    BY <1>1, LenProperties, ElementOfSeq DEF ReuseOK, Once, ToSet
  <2>2. QED
    BY <1>1, <1>3, <1>9, <2>1 DEF ReuseOK
<1>13. \A e \in Event : Current(p, e) => Current(r, e) /\ e.c # c
  BY <1>6, <1>8, <1>9 DEF Current, Event
<1>14. PostedOK(r)
  <2>1. \A e \in ToSet(p.posted) \cup ToSet(p.next) : e \in Event /\ Current(p, e)
    BY <1>1, EventsOf DEF PostedOK
  <2>2. QED
    BY <1>1, <1>3, <1>13, <2>1 DEF PostedOK
<1>15. TimersOK(r, q)
  BY <1>1, <1>3, <1>13 DEF TimersOK
<1>16. KernelOK(r)
  <2>1. p.reg \in [Fds -> [c : Conns, i : {0, 1}] \cup {NoReg}]
    BY <1>1 DEF KernelOK
  <2>2. ASSUME NEW f \in Fds, p.reg[f] # NoReg
        PROVE  r.fd[p.reg[f].c] = f /\ r.inst[p.reg[f].c] = p.reg[f].i
    <3>1. p.fd[p.reg[f].c] = f /\ p.inst[p.reg[f].c] = p.reg[f].i /\ p.reg[f].c \in Conns
      BY <1>1, <2>2 DEF KernelOK
    <3>2. p.reg[f].c # c
      BY <1>6, <3>1, PoolAssumption DEF IsOpen
    <3>3. QED
      BY <1>8, <3>1, <3>2
  <2>3. ASSUME NEW d \in Conns, r.active[d] # {}
        PROVE  IsOpen(r, d) /\ p.reg[r.fd[d]] # NoReg
    <3>1. d # c /\ p.active[d] # {} /\ r.fd[d] = p.fd[d]
      BY <1>8, <2>3
    <3>2. IsOpen(p, d) /\ p.reg[p.fd[d]] # NoReg
      BY <1>1, <3>1 DEF KernelOK
    <3>3. QED
      BY <1>9, <3>1, <3>2
  <2>4. QED
    BY <1>3, <2>1, <2>2, <2>3 DEF KernelOK
<1>17. q \/ ListenOK(r)
  <2>1. SUFFICES ASSUME ~q PROVE ListenOK(r)
    OBVIOUS
  <2>2. ListenOK(p) /\ Listener \in Conns
    BY <1>1, <2>1, PoolAssumption
  <2>3. Listener # c /\ IsOpen(r, Listener) /\ r.gen[Listener] = 1
    BY <1>6, <1>8, <1>9, <2>2 DEF ListenOK
  <2>4. QED
    BY <1>3, <2>2, <2>3 DEF ListenOK
<1>18. ASSUME NEW d \in Conns PROVE r.gen[d] >= p.gen[d]
  <2>1. p.gen[d] \in Nat /\ (r.gen[d] = p.gen[d] \/ r.gen[d] = p.gen[d] + 1)
    BY <1>7, <1>8
  <2>2. QED
    BY <2>1
<1>19. QED
  BY <1>3, <1>10, <1>11, <1>12, <1>14, <1>15, <1>16, <1>17, <1>18 DEF PoolOK

\* ngx_add_event() and ngx_del_event().
LEMMA RegisterKeeps ==
    ASSUME NEW p, NEW q \in BOOLEAN, PoolOK(p, q), NEW c \in Conns, IsOpen(p, c),
           NEW ds \in SUBSET Dirs, NEW r, r = Registered(p, c, ds)
    PROVE  PoolOK(r, q) /\ r.gen = p.gen /\ r.fd = p.fd
<1>1. /\ p = FieldsOf(p) /\ SlotsOK(p) /\ FreeOK(p) /\ ReuseOK(p) /\ PostedOK(p)
      /\ TimersOK(p, q) /\ KernelOK(p) /\ (q \/ ListenOK(p))
  BY DEF PoolOK
<1>2. PICK v : v = IF ds = {} THEN NoReg ELSE [c |-> c, i |-> p.inst[c]]
  OBVIOUS
<1>3. /\ r = FieldsOf(r)
      /\ r.active = [p.active EXCEPT ![c] = ds]
      /\ r.reg = [p.reg EXCEPT ![p.fd[c]] = v]
      /\ r.fd = p.fd /\ r.inst = p.inst /\ r.gen = p.gen
      /\ r.free = p.free /\ r.freeN = p.freeN /\ r.reusable = p.reusable
      /\ r.timers = p.timers /\ r.posted = p.posted /\ r.next = p.next
  BY <1>1, <1>2, RegisteredIs
<1>4. \A x : IsOpen(r, x) <=> IsOpen(p, x)
  BY <1>3 DEF IsOpen
<1>5. \A e : Current(r, e) <=> Current(p, e)
  BY <1>3, <1>4 DEF Current
<1>6. /\ p.fd \in [Conns -> Fds \cup {NoFd}] /\ p.active \in [Conns -> SUBSET Dirs]
      /\ NoFd \notin Fds /\ p.fd[c] \in Fds
      /\ \A d, e \in Conns : p.fd[d] = p.fd[e] /\ p.fd[d] # NoFd => d = e
  BY <1>1, PoolAssumption DEF SlotsOK, IsOpen
<1>7. p.inst[c] \in {0, 1}
  <2>1. p.inst[c] = (p.gen[c] + 1) % 2 /\ p.gen[c] \in Nat
    BY <1>1 DEF SlotsOK
  <2>2. QED
    BY <2>1
<1>8. SlotsOK(r) /\ FreeOK(r) /\ ReuseOK(r)
  <2>1. {d \in Conns : ~IsOpen(r, d)} = {d \in Conns : ~IsOpen(p, d)}
    BY <1>4
  <2>2. FreeOK(r) /\ ReuseOK(r)
    BY <1>1, <1>3, <1>4, <2>1 DEF FreeOK, ReuseOK
  <2>3. r.active \in [Conns -> SUBSET Dirs]
    BY <1>3, <1>6
  <2>4. QED
    BY <1>1, <1>3, <1>4, <2>2, <2>3 DEF SlotsOK
<1>9. PostedOK(r) /\ TimersOK(r, q)
  BY <1>1, <1>3, <1>5 DEF PostedOK, TimersOK
<1>10. KernelOK(r)
  <2>1. PICK T : T = [c : Conns, i : {0, 1}]
    OBVIOUS
  <2>2. p.reg \in [Fds -> T \cup {NoReg}] /\ NoReg \notin T
    BY <1>1, <2>1, PoolAssumption DEF KernelOK
  <2>3. ds # {} => v \in T /\ v.c = c /\ v.i = p.inst[c]
    BY <1>2, <1>7, <2>1
  <2>4. ds = {} => v = NoReg
    BY <1>2
  <2>5. /\ r.reg \in [Fds -> T \cup {NoReg}] /\ r.reg[p.fd[c]] = v
        /\ \A f \in Fds : f # p.fd[c] => r.reg[f] = p.reg[f]
    BY <1>3, <1>6, <2>2, <2>3, <2>4
  <2>6. ASSUME NEW f \in Fds, r.reg[f] # NoReg
        PROVE  p.fd[r.reg[f].c] = f /\ p.inst[r.reg[f].c] = r.reg[f].i
    <3>1. CASE f = p.fd[c]
      BY <2>3, <2>4, <2>5, <2>6, <3>1
    <3>2. CASE f # p.fd[c]
      <4>1. r.reg[f] = p.reg[f]
        BY <2>5, <3>2
      <4>2. QED
        BY <1>1, <2>6, <4>1 DEF KernelOK
    <3>3. QED
      BY <3>1, <3>2
  <2>7. ASSUME NEW d \in Conns, r.active[d] # {}
        PROVE  IsOpen(p, d) /\ r.reg[p.fd[d]] # NoReg
    <3>1. CASE d = c
      <4>1. r.active[c] = ds
        BY <1>3, <1>6
      <4>2. QED
        BY <2>2, <2>3, <2>5, <2>7, <3>1, <4>1
    <3>2. CASE d # c
      <4>1. r.active[d] = p.active[d]
        BY <1>3, <1>6, <3>2
      <4>2. IsOpen(p, d) /\ p.reg[p.fd[d]] # NoReg
        BY <1>1, <2>7, <4>1 DEF KernelOK
      <4>3. p.fd[d] \in Fds /\ p.fd[d] # p.fd[c]
        BY <1>6, <3>2, <4>2 DEF IsOpen
      <4>4. QED
        BY <2>5, <4>2, <4>3
    <3>3. QED
      BY <3>1, <3>2
  <2>8. QED
    BY <1>3, <1>4, <2>1, <2>5, <2>6, <2>7 DEF KernelOK
<1>11. q \/ ListenOK(r)
  BY <1>1, <1>3, <1>4 DEF ListenOK
<1>12. QED
  BY <1>3, <1>8, <1>9, <1>10, <1>11 DEF PoolOK

\* A step on the side of the posted events and the timers.
LEMMA AsideKeeps ==
    ASSUME NEW p, NEW q \in BOOLEAN, PoolOK(p, q), NEW r, Aside(r, p),
           PostedOK(r), TimersOK(r, q),
           ~q => /\ \A e \in ToSet(r.next) : e.c # Listener
                 /\ \A e \in r.timers : e.c = Listener => e.d = "read"
    PROVE  PoolOK(r, q)
<1>1. /\ SlotsOK(p) /\ FreeOK(p) /\ ReuseOK(p) /\ KernelOK(p) /\ (q \/ ListenOK(p))
  BY DEF PoolOK
<1>2. /\ r = FieldsOf(r)
      /\ r.fd = p.fd /\ r.inst = p.inst /\ r.gen = p.gen /\ r.active = p.active
      /\ r.free = p.free /\ r.freeN = p.freeN /\ r.reusable = p.reusable
      /\ r.reg = p.reg
  BY DEF Aside
<1>3. \A x : IsOpen(r, x) <=> IsOpen(p, x)
  BY <1>2 DEF IsOpen
<1>4. {d \in Conns : ~IsOpen(r, d)} = {d \in Conns : ~IsOpen(p, d)}
  BY <1>3
<1>5. FreeOK(r) /\ ReuseOK(r)
  BY <1>1, <1>2, <1>3, <1>4 DEF FreeOK, ReuseOK
<1>6. SlotsOK(r)
  BY <1>1, <1>2, <1>3 DEF SlotsOK
<1>7. KernelOK(r)
  BY <1>1, <1>2, <1>3 DEF KernelOK
<1>8. q \/ ListenOK(r)
  BY <1>1, <1>2, <1>3 DEF ListenOK
<1>9. QED
  BY <1>2, <1>5, <1>6, <1>7, <1>8 DEF PoolOK

\* What is current stays so when no slot is touched.
LEMMA AsideCurrent ==
    ASSUME NEW p, NEW r, Aside(r, p)
    PROVE  \A e : Current(r, e) <=> Current(p, e)
  BY DEF Aside, Current, IsOpen

\* One event is put behind a queue in which it is not.
LEMMA Behind ==
    ASSUME NEW s, Distinct(s), NEW e \in Event,
           \A f \in ToSet(s) : f.c # e.c \/ f.d # e.d
    PROVE  Distinct(s \o <<e>>) /\ ToSet(s \o <<e>>) = ToSet(s) \cup {e}
<1>1. PICK t : t = <<e>>
  OBVIOUS
<1>2. Distinct(t) /\ ToSet(t) = {e}
  BY <1>1, OneEvent
<1>3. Distinct(s \o t) /\ ToSet(s \o t) = ToSet(s) \cup ToSet(t)
  BY <1>2, JoinedIs
<1>4. QED
  BY <1>1, <1>2, <1>3

\* A queue of events, with what ngx_post_event() adds to it.
LEMMA MaybeBehind ==
    ASSUME NEW s, Distinct(s), NEW e \in Event, NEW b \in BOOLEAN,
           b => \A f \in ToSet(s) : f.c # e.c \/ f.d # e.d
    PROVE  /\ Distinct(s \o (IF b THEN <<e>> ELSE <<>>))
           /\ ToSet(s \o (IF b THEN <<e>> ELSE <<>>)) = ToSet(s) \cup (IF b THEN {e} ELSE {})
<1>1. CASE b
  BY <1>1, Behind
<1>2. CASE ~b
  <2>1. s \in Seq(Event)
    BY DEF Distinct
  <2>2. s \o <<>> = s
    BY <2>1, ConcatEmptySeq
  <2>3. QED
    BY <1>2, <2>2
<1>3. QED
  BY <1>1, <1>2

\* ngx_post_event() for events of an open connection.
LEMMA PostKeeps ==
    ASSUME NEW p, NEW q \in BOOLEAN, PoolOK(p, q), NEW c \in Conns, IsOpen(p, c),
           NEW ds \in SUBSET Dirs, NEW r, r = Posted(p, c, ds)
    PROVE  PoolOK(r, q) /\ r.gen = p.gen
<1>1. /\ p = FieldsOf(p) /\ SlotsOK(p) /\ PostedOK(p) /\ TimersOK(p, q)
      /\ (q \/ ListenOK(p))
  BY DEF PoolOK
<1> DEFINE E(d) == EventOf(p, c, d)
           B(d) == d \in ds /\ ~IsPosted(p, c, d)
<1>2. PICK x : x = p.posted \o (IF B("read") THEN <<E("read")>> ELSE <<>>)
  OBVIOUS
<1>3. PICK y : y = x \o (IF B("write") THEN <<E("write")>> ELSE <<>>)
  OBVIOUS
<1>4. r = [p EXCEPT !.posted = y]
  BY <1>2, <1>3 DEF Posted
<1>5. Aside(r, p) /\ r.timers = p.timers /\ r.posted = y /\ r.next = p.next
  BY <1>1, <1>4, AsideIs
<1>6. \A d \in Dirs : /\ E(d) \in Event /\ E(d).c = c /\ E(d).d = d /\ Current(p, E(d))
                      /\ B(d) \in BOOLEAN
                      /\ B(d) => \A f \in ToSet(p.posted) \cup ToSet(p.next) :
                                    f.c # c \/ f.d # d
  BY <1>1 DEF EventOf, Event, SlotsOK, Current, IsPosted
<1>7. "read" \in Dirs /\ "write" \in Dirs
  BY DEF Dirs
<1> HIDE DEF E, B
<1>8. Distinct(x) /\ ToSet(x) = ToSet(p.posted) \cup (IF B("read") THEN {E("read")} ELSE {})
  <2>1. Distinct(p.posted)
    BY <1>1 DEF PostedOK
  <2>2. QED
    BY <1>2, <1>6, <1>7, <2>1, MaybeBehind
<1>9. B("write") => \A f \in ToSet(x) : f.c # E("write").c \/ f.d # E("write").d
  BY <1>6, <1>7, <1>8
<1>10. Distinct(y) /\ ToSet(y) = ToSet(x) \cup (IF B("write") THEN {E("write")} ELSE {})
  BY <1>3, <1>6, <1>7, <1>8, <1>9, MaybeBehind
<1>11. \A e \in ToSet(y) : \/ e \in ToSet(p.posted)
                           \/ \E d \in Dirs : B(d) /\ e = E(d)
  BY <1>7, <1>8, <1>10
<1>12. PostedOK(r)
  <2>1. \A e \in ToSet(y), f \in ToSet(p.next) : e.c # f.c \/ e.d # f.d
    BY <1>1, <1>6, <1>11 DEF PostedOK
  <2>2. \A e \in ToSet(y) \cup ToSet(p.next) : Current(p, e)
    BY <1>1, <1>6, <1>11 DEF PostedOK
  <2>3. Distinct(p.next)
    BY <1>1 DEF PostedOK
  <2>4. QED
    BY <1>5, <1>10, <2>1, <2>2, <2>3, AsideCurrent DEF PostedOK
<1>13. TimersOK(r, q)
  BY <1>1, <1>5, AsideCurrent DEF TimersOK
<1>14. ~q => /\ \A e \in ToSet(r.next) : e.c # Listener
             /\ \A e \in r.timers : e.c = Listener => e.d = "read"
  BY <1>1, <1>5 DEF ListenOK
<1>15. PoolOK(r, q)
  BY <1>5, <1>12, <1>13, <1>14, AsideKeeps
<1>16. QED
  BY <1>5, <1>15 DEF Aside


\* Another set of timers, each of which is current or left by the shutdown.
LEMMA TimerKeeps ==
    ASSUME NEW p, NEW q \in BOOLEAN, PoolOK(p, q), NEW a, NEW r,
           r = [p EXCEPT !.timers = a],
           \A e \in a : \/ e \in p.timers
                        \/ /\ e \in Event /\ Current(p, e)
                           /\ e.c # Listener \/ q \/ e.d = "read"
    PROVE  PoolOK(r, q) /\ r.gen = p.gen
<1>1. p = FieldsOf(p) /\ PostedOK(p) /\ TimersOK(p, q) /\ (q \/ ListenOK(p))
  BY DEF PoolOK
<1>2. Aside(r, p) /\ r.timers = a /\ r.posted = p.posted /\ r.next = p.next
  BY <1>1 DEF Aside, FieldsOf
<1>3. PostedOK(r)
  BY <1>1, <1>2, AsideCurrent DEF PostedOK
<1>4. TimersOK(r, q)
  BY <1>1, <1>2, AsideCurrent DEF TimersOK
<1>5. ~q => /\ \A e \in ToSet(r.next) : e.c # Listener
            /\ \A e \in r.timers : e.c = Listener => e.d = "read"
  BY <1>1, <1>2 DEF ListenOK
<1>6. PoolOK(r, q)
  BY <1>2, <1>3, <1>4, <1>5, AsideKeeps
<1>7. QED
  BY <1>2, <1>6 DEF Aside

\* An event of an open connection is posted for the next cycle.
LEMMA PostNextKeeps ==
    ASSUME NEW p, NEW q \in BOOLEAN, PoolOK(p, q), NEW c \in Conns, IsOpen(p, c),
           c # Listener \/ q, NEW d \in Dirs, ~IsPosted(p, c, d),
           NEW y, y = Append(p.next, EventOf(p, c, d)), NEW r, r = [p EXCEPT !.next = y]
    PROVE  PoolOK(r, q) /\ r.gen = p.gen
<1>1. /\ p = FieldsOf(p) /\ SlotsOK(p) /\ PostedOK(p) /\ TimersOK(p, q)
      /\ (q \/ ListenOK(p))
  BY DEF PoolOK
<1>2. PICK e : e = EventOf(p, c, d)
  OBVIOUS
<1>3. e \in Event /\ e.c = c /\ e.d = d /\ Current(p, e)
  BY <1>1, <1>2 DEF EventOf, Event, SlotsOK, Current
<1>4. \A f \in ToSet(p.posted) \cup ToSet(p.next) : f.c # e.c \/ f.d # e.d
  BY <1>3 DEF IsPosted
<1>5. y = p.next \o <<e>>
  <2>1. p.next \in Seq(Event)
    BY <1>1 DEF PostedOK, Distinct
  <2>2. QED
    BY <1>2, <1>3, <2>1, AppendIsConcat
<1>6. Distinct(y) /\ ToSet(y) = ToSet(p.next) \cup {e}
  BY <1>1, <1>3, <1>4, <1>5, Behind DEF PostedOK
<1>7. Aside(r, p) /\ r.timers = p.timers /\ r.posted = p.posted /\ r.next = y
  BY <1>1 DEF Aside, FieldsOf
<1>8. PostedOK(r)
  <2>1. \A x \in ToSet(p.posted), f \in ToSet(y) : x.c # f.c \/ x.d # f.d
    BY <1>1, <1>4, <1>6 DEF PostedOK
  <2>2. \A x \in ToSet(p.posted) \cup ToSet(y) : Current(p, x)
    BY <1>1, <1>3, <1>6 DEF PostedOK
  <2>3. Distinct(p.posted)
    BY <1>1 DEF PostedOK
  <2>4. QED
    BY <1>6, <1>7, <2>1, <2>2, <2>3, AsideCurrent DEF PostedOK
<1>9. TimersOK(r, q)
  BY <1>1, <1>7, AsideCurrent DEF TimersOK
<1>10. ~q => /\ \A x \in ToSet(r.next) : x.c # Listener
             /\ \A x \in r.timers : x.c = Listener => x.d = "read"
  BY <1>1, <1>3, <1>6, <1>7 DEF ListenOK
<1>11. PoolOK(r, q)
  BY <1>7, <1>8, <1>9, <1>10, AsideKeeps
<1>12. QED
  BY <1>7, <1>11 DEF Aside

\* The event at the head of the posted events is taken out and run.
LEMMA RunKeeps ==
    ASSUME NEW p, NEW q \in BOOLEAN, PoolOK(p, q), p.posted # <<>>,
           NEW y, y = Tail(p.posted), NEW r, r = [p EXCEPT !.posted = y]
    PROVE  PoolOK(r, q) /\ r.gen = p.gen
<1>1. /\ p = FieldsOf(p) /\ PostedOK(p) /\ TimersOK(p, q) /\ (q \/ ListenOK(p))
  BY DEF PoolOK
<1>2. Distinct(Tail(p.posted)) /\ ToSet(Tail(p.posted)) \subseteq ToSet(p.posted)
  BY <1>1, TailIs DEF PostedOK
<1>3. Aside(r, p) /\ r.timers = p.timers /\ r.posted = y /\ r.next = p.next
  BY <1>1 DEF Aside, FieldsOf
<1>4. PostedOK(r)
  <2>1. Distinct(y) /\ ToSet(y) \subseteq ToSet(p.posted)
    BY <1>2
  <2>2. QED
    BY <1>1, <1>3, <2>1, AsideCurrent DEF PostedOK
<1>5. TimersOK(r, q)
  BY <1>1, <1>3, AsideCurrent DEF TimersOK
<1>6. ~q => /\ \A e \in ToSet(r.next) : e.c # Listener
            /\ \A e \in r.timers : e.c = Listener => e.d = "read"
  BY <1>1, <1>3 DEF ListenOK
<1>7. PoolOK(r, q)
  BY <1>3, <1>4, <1>5, <1>6, AsideKeeps
<1>8. QED
  BY <1>3, <1>7 DEF Aside

\* ngx_event_move_posted_next(): the events posted for this cycle follow.
LEMMA MoveKeeps ==
    ASSUME NEW p, NEW q \in BOOLEAN, PoolOK(p, q),
           NEW y, Distinct(y), ToSet(y) = ToSet(p.posted) \cup ToSet(p.next),
           NEW z, Distinct(z), ToSet(z) = {},
           NEW r, Aside(r, p), r.timers = p.timers, r.posted = y, r.next = z
    PROVE  PoolOK(r, q)
<1>1. /\ p = FieldsOf(p) /\ PostedOK(p) /\ TimersOK(p, q) /\ (q \/ ListenOK(p))
  BY DEF PoolOK
<1>2. PostedOK(r)
  <2>1. \A e \in ToSet(y) \cup ToSet(z) : Current(r, e)
    BY <1>1, AsideCurrent DEF PostedOK
  <2>2. QED
    BY <2>1 DEF PostedOK
<1>3. TimersOK(r, q)
  BY <1>1, AsideCurrent DEF TimersOK
<1>4. ~q => /\ \A e \in ToSet(r.next) : e.c # Listener
            /\ \A e \in r.timers : e.c = Listener => e.d = "read"
  BY <1>1 DEF ListenOK
<1>5. QED
  BY <1>2, <1>3, <1>4, AsideKeeps

-----------------------------------------------------------------------------
(* The initial state, and the steps of the event cycle. *)

\* After ngx_event_process_init(): the listening slot is the only open one.
LEMMA InitHolds == Init => ConnInv
<1> SUFFICES ASSUME Init PROVE ConnInv
  OBVIOUS
<1>1. PICK s \in Fds :
        /\ pool = [fd       |-> [c \in Conns |-> IF c = Listener THEN s ELSE NoFd],
                   inst     |-> [c \in Conns |-> IF c = Listener THEN 0 ELSE 1],
                   gen      |-> [c \in Conns |-> IF c = Listener THEN 1 ELSE 0],
                   active   |-> [c \in Conns |-> IF c = Listener THEN {"read"} ELSE {}],
                   free     |-> SetToSeq(Conns \ {Listener}),
                   freeN    |-> ConnN - 1,
                   reusable |-> <<>>,
                   timers   |-> {},
                   posted   |-> <<>>,
                   next     |-> <<>>,
                   reg      |-> [f \in Fds |-> IF f = s THEN [c |-> Listener, i |-> 0]
                                                        ELSE NoReg]]
        /\ pc = "wait" /\ ret = "wait" /\ flag = FALSE
        /\ batch = {} /\ entry = {}
        /\ call = NoCall /\ gets = 0 /\ quit = FALSE /\ skew = 0
  BY Zenon DEF Init
<1>2. /\ pool = FieldsOf(pool)
      /\ pool.fd = [c \in Conns |-> IF c = Listener THEN s ELSE NoFd]
      /\ pool.inst = [c \in Conns |-> IF c = Listener THEN 0 ELSE 1]
      /\ pool.gen = [c \in Conns |-> IF c = Listener THEN 1 ELSE 0]
      /\ pool.active = [c \in Conns |-> IF c = Listener THEN {"read"} ELSE {}]
      /\ pool.free = SetToSeq(Conns \ {Listener}) /\ pool.freeN = ConnN - 1
      /\ pool.reusable = <<>> /\ pool.timers = {}
      /\ pool.posted = <<>> /\ pool.next = <<>>
      /\ pool.reg = [f \in Fds |-> IF f = s THEN [c |-> Listener, i |-> 0] ELSE NoReg]
  BY <1>1 DEF FieldsOf
<1>3. /\ IsFiniteSet(Conns) /\ Listener \in Conns /\ NoFd \notin Fds
      /\ NoReg \notin [c : Conns, i : {0, 1}] /\ MaxGets \in Nat
  BY PoolAssumption
<1>4. \A c \in Conns : IsOpen(pool, c) <=> c = Listener
  BY <1>2, <1>3 DEF IsOpen
<1>5. PICK p : p = pool
  OBVIOUS
<1>6. SlotsOK(p)
  <2>1. \A c \in Conns : pool.inst[c] = (pool.gen[c] + 1) % 2
    BY <1>2
  <2>2. /\ p.fd \in [Conns -> Fds \cup {NoFd}] /\ p.gen \in [Conns -> Nat]
        /\ p.active \in [Conns -> SUBSET Dirs]
    BY <1>2, <1>5 DEF Dirs
  <2>3. p.inst = [c \in Conns |-> (p.gen[c] + 1) % 2]
    BY <1>2, <1>5, <2>1
  <2>4. \A c, d \in Conns : p.fd[c] = p.fd[d] /\ IsOpen(p, c) => c = d
    BY <1>4, <1>5 DEF IsOpen
  <2>5. QED
    BY <2>2, <2>3, <2>4 DEF SlotsOK
<1>7. FreeOK(p)
  <2>1. Conns \ {Listener} = {c \in Conns : ~IsOpen(pool, c)}
    BY <1>3, <1>4
  <2>2. /\ IsFiniteSet(Conns \ {Listener})
        /\ Cardinality(Conns \ {Listener}) = Cardinality(Conns) - 1
    BY <1>3, FS_RemoveElement
  <2>3. Once(pool.free, Conns, Conns \ {Listener})
    BY <1>2, <2>2, SetToSeqIs
  <2>4. Len(pool.free) = ConnN - 1
    BY <2>2, <2>3, OnceLength DEF ConnN
  <2>5. QED
    BY <1>2, <1>5, <2>1, <2>3, <2>4 DEF FreeOK
<1>8. ToSet(p.reusable) = {} /\ ToSet(p.posted) = {} /\ ToSet(p.next) = {} /\ p.timers = {}
  BY <1>2, <1>5, NoEvent
<1>9. ReuseOK(p)
  <2>1. Once(<<>>, Conns, {})
    <3>1. <<>> \in Seq(Conns) /\ DOMAIN <<>> = {}
      OBVIOUS
    <3>2. ToSet(<<>>) = {}
      BY NoEvent
    <3>3. QED
      BY <3>1, <3>2 DEF Once, IsInjective
  <2>2. QED
    BY <1>2, <1>5, <1>8, <2>1 DEF ReuseOK
<1>10. PostedOK(p)
  <2>1. Distinct(p.posted) /\ Distinct(p.next)
    BY <1>2, <1>5, NoEvent
  <2>2. QED
    BY <1>8, <2>1 DEF PostedOK
<1>11. TimersOK(p, FALSE)
  BY <1>8 DEF TimersOK
<1>12. KernelOK(p)
  <2>1. p.reg \in [Fds -> [c : Conns, i : {0, 1}] \cup {NoReg}]
    BY <1>2, <1>3, <1>5
  <2>2. ASSUME NEW f \in Fds, p.reg[f] # NoReg
        PROVE  p.fd[p.reg[f].c] = f /\ p.inst[p.reg[f].c] = p.reg[f].i
    <3>1. f = s /\ p.reg[f] = [c |-> Listener, i |-> 0]
      BY <1>2, <1>5, <2>2
    <3>2. p.reg[f].c = Listener /\ p.reg[f].i = 0
      BY <3>1
    <3>3. p.fd[Listener] = s /\ p.inst[Listener] = 0
      BY <1>2, <1>3, <1>5
    <3>4. QED
      BY <3>1, <3>2, <3>3
  <2>3. [c |-> Listener, i |-> 0] # NoReg
    BY <1>3
  <2>4. ASSUME NEW c \in Conns, p.active[c] # {}
        PROVE  IsOpen(p, c) /\ p.reg[p.fd[c]] # NoReg
    <3>1. c = Listener
      BY <1>2, <1>5, <2>4
    <3>2. p.fd[c] = s
      BY <1>2, <1>5, <3>1
    <3>3. QED
      BY <1>2, <1>4, <1>5, <2>3, <3>1, <3>2
  <2>5. QED
    BY <2>1, <2>2, <2>4 DEF KernelOK
<1>13. ListenOK(p)
  <2>1. p.gen[Listener] = 1
    BY <1>2, <1>3, <1>5
  <2>2. QED
    BY <1>3, <1>4, <1>5, <1>8, <2>1 DEF ListenOK
<1>14. PoolOK(pool, quit)
  <2>1. quit = FALSE /\ pool = FieldsOf(pool)
    BY <1>1, <1>2
  <2>2. QED
    BY <1>5, <1>6, <1>7, <1>9, <1>10, <1>11, <1>12, <1>13, <2>1 DEF PoolOK
<1>15. CycleOK
  <2>1. /\ pc = "wait" /\ ret = "wait" /\ flag = FALSE
        /\ call = NoCall /\ gets = 0 /\ quit = FALSE
    BY <1>1
  <2>2. NoCall \in [s : Fds \cup {NoFd}, n : Nat, c : SUBSET Conns] /\ NoCall.c = {}
    BY DEF NoCall
  <2>3. pool.posted = <<>>
    BY <1>2
  <2>4. gets \in 0..MaxGets
    BY <1>3, <2>1
  <2>5. QED
    BY <2>1, <2>2, <2>3, <2>4 DEF CycleOK
<1>16. BatchOK /\ skew \in Nat /\ StaleFiltered
  <2>1. batch = {} /\ entry = {} /\ skew = 0
    BY <1>1
  <2>2. QED
    BY <2>1 DEF BatchOK, StaleFiltered
<1>17. QED
  BY <1>14, <1>15, <1>16 DEF ConnInv

\* The uses of a slot only grow, so the entries of event_list stay what they are.
LEMMA BatchKeeps ==
    ASSUME BatchOK, SlotsOK(pool), NEW p, SlotsOK(p),
           \A c \in Conns : p.gen[c] >= pool.gen[c], NEW B \in SUBSET (batch \cup entry)
    PROVE  \A e \in B : EntryOK(p, e)
<1> SUFFICES ASSUME NEW e \in B PROVE EntryOK(p, e)
  OBVIOUS
<1>1. e \in Entry /\ e.g <= pool.gen[e.c] /\ e.i = (e.g + 1) % 2
  BY DEF BatchOK, EntryOK
<1>2. e.c \in Conns /\ e.g \in Nat
  BY <1>1 DEF Entry
<1>3. p.gen[e.c] \in Nat /\ pool.gen[e.c] \in Nat
  BY <1>2 DEF SlotsOK
<1>4. p.gen[e.c] >= pool.gen[e.c]
  BY <1>2
<1>5. e.g <= p.gen[e.c]
  BY <1>1, <1>2, <1>3, <1>4
<1>6. QED
  BY <1>1, <1>5 DEF EntryOK

\* An entry with the instance of its slot was reported for this use of it, or
\* for one at least two uses ago.
LEMMA SkewIs ==
    ASSUME NEW p, SlotsOK(p), NEW e, EntryOK(p, e), p.inst[e.c] = e.i
    PROVE  /\ p.gen[e.c] - e.g \in Nat
           /\ p.gen[e.c] - e.g = 0 \/ p.gen[e.c] - e.g >= 2
<1>1. e \in Entry /\ e.g <= p.gen[e.c] /\ e.i = (e.g + 1) % 2
  BY DEF EntryOK
<1>2. e.c \in Conns /\ e.g \in Nat
  BY <1>1 DEF Entry
<1>3. p.gen[e.c] \in Nat /\ p.inst[e.c] = (p.gen[e.c] + 1) % 2
  BY <1>2 DEF SlotsOK
<1>4. PICK g \in Nat : g = p.gen[e.c]
  BY <1>3
<1>5. PICK h \in Nat : h = e.g
  BY <1>2
<1>6. h <= g /\ (g + 1) % 2 = (h + 1) % 2
  BY <1>1, <1>3, <1>4, <1>5
<1>7. g - h \in Nat /\ g # h + 1
  BY <1>6
<1>8. QED
  BY <1>4, <1>5, <1>7

\* A step that takes no entries from the kernel.
LEMMA Steps ==
    ASSUME ConnInv, PoolOK(pool', quit'), \A c \in Conns : pool'.gen[c] >= pool.gen[c],
           CycleOK', batch' \cup entry' \subseteq batch \cup entry,
           skew' \in Nat, skew' = 0 \/ skew' >= 2
    PROVE  ConnInv'
<1>1. PoolOK(pool, quit) /\ BatchOK
  BY DEF ConnInv
<1>2. PICK p : p = pool'
  OBVIOUS
<1>3. SlotsOK(pool) /\ SlotsOK(p)
  BY <1>1, <1>2 DEF PoolOK
<1>4. PICK B \in SUBSET (batch \cup entry) : B = (batch \cup entry)'
  OBVIOUS
<1>5. \A e \in B : EntryOK(p, e)
  BY <1>1, <1>2, <1>3, BatchKeeps
<1>6. BatchOK'
  BY <1>2, <1>4, <1>5 DEF BatchOK
<1>7. PoolOK(pool, quit)' /\ StaleFiltered'
  BY DEF StaleFiltered
<1>8. QED
  BY <1>6, <1>7 DEF ConnInv

\* A step that changes the pool, and not where the worker is.
LEMMA Stays ==
    ASSUME ConnInv, PoolOK(pool', quit),
           \A c \in Conns : pool'.gen[c] >= pool.gen[c],
           pc' \in {"handler", "wait", "batch", "timers", "posted", "idle"},
           pc' \in {"handler", "drain"} <=> ret' # "wait",
           ret' \in {"wait", "batch", "write", "timers", "posted", "idle"},
           ret' = "write" => entry # {},
           pc' = "wait" => pool'.posted = <<>>,
           UNCHANGED <<flag, batch, entry, gets, quit, skew>>, call' \in {call, NoCall}
    PROVE  ConnInv'
<1>1. /\ PoolOK(pool, quit) /\ CycleOK /\ BatchOK /\ skew \in Nat /\ StaleFiltered
  BY DEF ConnInv
<1>2. CycleOK'
  <2>1. NoCall \in [s : Fds \cup {NoFd}, n : Nat, c : SUBSET Conns] /\ NoCall.c = {}
    BY DEF NoCall
  <2>2. /\ flag \in BOOLEAN /\ quit \in BOOLEAN /\ gets \in 0..MaxGets
        /\ call \in [s : Fds \cup {NoFd}, n : Nat, c : SUBSET Conns]
        /\ \A c, d \in call.c : c = d
    BY <1>1 DEF CycleOK
  <2>3. /\ flag' \in BOOLEAN /\ quit' \in BOOLEAN /\ gets' \in 0..MaxGets
        /\ call' \in [s : Fds \cup {NoFd}, n : Nat, c : SUBSET Conns]
        /\ \A c, d \in call'.c : c = d
        /\ entry' = entry
    BY <2>1, <2>2
  <2>4. QED
    BY <2>3 DEF CycleOK
<1>3. skew' \in Nat /\ (skew' = 0 \/ skew' >= 2)
  BY <1>1 DEF StaleFiltered
<1>4. PoolOK(pool', quit') /\ batch' \cup entry' \subseteq batch \cup entry
  OBVIOUS
<1>5. QED
  BY <1>2, <1>3, <1>4, Steps

\* What a handler does to the pool.
LEMMA HandlerStep ==
    ASSUME ConnInv, NEW p, Handler(p), PoolOK(p, quit), p.gen = pool.gen
    PROVE  ConnInv'
<1>1. /\ pc = "handler" /\ pool' = p
      /\ UNCHANGED <<pc, ret, flag, batch, entry, call, gets, quit, skew>>
  BY DEF Handler
<1>2. CycleOK /\ SlotsOK(pool)
  BY DEF ConnInv, PoolOK
<1>3. \A c \in Conns : pool'.gen[c] >= pool.gen[c]
  BY <1>1, <1>2 DEF SlotsOK
<1>4. PoolOK(pool', quit)
  BY <1>1
<1>5. /\ pc' \in {"handler", "wait", "batch", "timers", "posted", "idle"}
      /\ pc' \in {"handler", "drain"} <=> ret' # "wait"
      /\ ret' \in {"wait", "batch", "write", "timers", "posted", "idle"}
      /\ ret' = "write" => entry # {}
      /\ pc' = "wait" => pool'.posted = <<>>
  BY <1>1, <1>2 DEF CycleOK
<1>6. QED
  BY <1>1, <1>3, <1>4, <1>5, Stays

-----------------------------------------------------------------------------
(* What handlers do. *)

\* The part of the invariant the functions of ngx_connection.c need and keep.
LEMMA InPool ==
    ASSUME ConnInv
    PROVE  PoolOK(pool, quit) /\ quit \in BOOLEAN
  BY DEF ConnInv, CycleOK

\* A handler closes a connection.
LEMMA CloseHolds == ConnInv /\ Close => ConnInv'
<1> SUFFICES ASSUME ConnInv, Close PROVE ConnInv'
  OBVIOUS
<1>1. PICK c \in Others : Handler(Closed(pool, c))
  BY DEF Close
<1>2. c \in Conns /\ IsOpen(pool, c) /\ (c # Listener \/ quit)
  BY DEF Others
<1>3. PICK r : r = Closed(pool, c)
  OBVIOUS
<1>4. PoolOK(r, quit) /\ r.gen = pool.gen
  BY <1>2, <1>3, InPool, CloseKeeps
<1>5. QED
  BY <1>1, <1>3, <1>4, HandlerStep

\* A handler changes what the kernel watches.
LEMMA ControlHolds == ConnInv /\ Control => ConnInv'
<1> SUFFICES ASSUME ConnInv, Control PROVE ConnInv'
  OBVIOUS
<1>1. \E c \in Conns, ds \in SUBSET Dirs :
         IsOpen(pool, c) /\ Handler(Registered(pool, c, ds))
  <2>1. Listener \in Conns /\ {"read"} \in SUBSET Dirs
    BY PoolAssumption DEF Dirs
  <2>2. QED
    BY <2>1 DEF Control, Others
<1>2. PICK c \in Conns, ds \in SUBSET Dirs :
         IsOpen(pool, c) /\ Handler(Registered(pool, c, ds))
  BY <1>1
<1>3. PICK r : r = Registered(pool, c, ds)
  OBVIOUS
<1>4. PoolOK(r, quit) /\ r.gen = pool.gen
  BY <1>2, <1>3, InPool, RegisterKeeps
<1>5. QED
  BY <1>2, <1>3, <1>4, HandlerStep

\* The event of an open connection, for a timer.
LEMMA NewTimer ==
    ASSUME NEW p, NEW q, PoolOK(p, q), NEW c \in Conns, IsOpen(p, c), NEW d \in Dirs,
           NEW e, e = EventOf(p, c, d)
    PROVE  e \in Event /\ Current(p, e) /\ e.c = c /\ e.d = d
<1>1. SlotsOK(p)
  BY DEF PoolOK
<1>2. QED
  BY <1>1 DEF EventOf, Event, SlotsOK, Current

\* The accept handler puts the listening socket aside and sets its timer.
LEMMA EmfileHolds == ConnInv /\ Emfile => ConnInv'
<1> SUFFICES ASSUME ConnInv, Emfile PROVE ConnInv'
  OBVIOUS
<1>1. /\ IsOpen(pool, Listener)
      /\ Handler([Registered(pool, Listener, {}) EXCEPT
                    !.timers = @ \cup {EventOf(pool, Listener, "read")}])
  BY DEF Emfile
<1>2. PICK p : p = Registered(pool, Listener, {})
  OBVIOUS
<1>3. Listener \in Conns /\ {} \in SUBSET Dirs /\ "read" \in Dirs
  BY PoolAssumption DEF Dirs
<1>4. PoolOK(p, quit) /\ p.gen = pool.gen
  BY <1>1, <1>2, <1>3, InPool, RegisterKeeps
<1>5. p.fd = pool.fd
  BY <1>1, <1>2, <1>3, InPool, RegisterKeeps
<1>6. PICK e : e = EventOf(pool, Listener, "read")
  OBVIOUS
<1>7. e = EventOf(p, Listener, "read") /\ IsOpen(p, Listener)
  BY <1>1, <1>4, <1>5, <1>6 DEF EventOf, IsOpen
<1>8. e \in Event /\ Current(p, e) /\ e.d = "read"
  BY <1>3, <1>4, <1>7, NewTimer
<1>9. PICK a : a = p.timers \cup {e}
  OBVIOUS
<1>10. PICK r : r = [p EXCEPT !.timers = a]
  OBVIOUS
<1>11. Handler(r)
  BY <1>1, <1>2, <1>6, <1>9, <1>10, Zenon
<1>12. PoolOK(r, quit) /\ r.gen = p.gen
  <2>1. \A x \in a : \/ x \in p.timers
                     \/ /\ x \in Event /\ Current(p, x)
                        /\ x.c # Listener \/ quit \/ x.d = "read"
    BY <1>8, <1>9
  <2>2. QED
    BY <1>4, <1>10, <2>1, InPool, TimerKeeps
<1>13. QED
  BY <1>4, <1>11, <1>12, HandlerStep

\* A handler sets a timer of its own connection.
LEMMA SetTimerHolds == ConnInv /\ SetTimer => ConnInv'
<1> SUFFICES ASSUME ConnInv, SetTimer PROVE ConnInv'
  OBVIOUS
<1>1. PICK c \in Others, d \in Dirs :
         Handler([pool EXCEPT !.timers = @ \cup {EventOf(pool, c, d)}])
  BY DEF SetTimer
<1>2. c \in Conns /\ IsOpen(pool, c) /\ (c # Listener \/ quit)
  BY DEF Others
<1>3. PICK e : e = EventOf(pool, c, d)
  OBVIOUS
<1>4. e \in Event /\ Current(pool, e) /\ e.c = c
  BY <1>2, <1>3, InPool, NewTimer
<1>5. PICK a : a = pool.timers \cup {e}
  OBVIOUS
<1>6. PICK r : r = [pool EXCEPT !.timers = a]
  OBVIOUS
<1>7. Handler(r)
  BY <1>1, <1>3, <1>5, <1>6, Zenon
<1>8. PoolOK(r, quit) /\ r.gen = pool.gen
  <2>1. \A x \in a : \/ x \in pool.timers
                     \/ /\ x \in Event /\ Current(pool, x)
                        /\ x.c # Listener \/ quit \/ x.d = "read"
    BY <1>2, <1>4, <1>5
  <2>2. QED
    BY <1>6, <2>1, InPool, TimerKeeps
<1>9. QED
  BY <1>7, <1>8, HandlerStep

\* A timer is deleted, or expires.
LEMMA TimerGone ==
    ASSUME ConnInv, NEW e, NEW r, r = [pool EXCEPT !.timers = @ \ {e}]
    PROVE  PoolOK(r, quit) /\ r.gen = pool.gen
<1>1. PICK a : a = pool.timers \ {e}
  OBVIOUS
<1>2. r = [pool EXCEPT !.timers = a]
  BY <1>1, Zenon
<1>3. \A x \in a : x \in pool.timers
  BY <1>1
<1>4. QED
  BY <1>2, <1>3, InPool, TimerKeeps

\* A handler deletes a timer.
LEMMA DelTimerHolds == ConnInv /\ DelTimer => ConnInv'
<1> SUFFICES ASSUME ConnInv, DelTimer PROVE ConnInv'
  OBVIOUS
<1>1. PICK e \in pool.timers : Handler([pool EXCEPT !.timers = @ \ {e}])
  BY DEF DelTimer
<1>2. PICK r : r = [pool EXCEPT !.timers = @ \ {e}]
  OBVIOUS
<1>3. PoolOK(r, quit) /\ r.gen = pool.gen
  BY <1>2, TimerGone
<1>4. QED
  BY <1>1, <1>2, <1>3, HandlerStep

\* A handler posts an event.
LEMMA PostHolds == ConnInv /\ Post => ConnInv'
<1> SUFFICES ASSUME ConnInv, Post PROVE ConnInv'
  OBVIOUS
<1>1. PICK c \in Others, d \in Dirs : Handler(Posted(pool, c, {d}))
  BY DEF Post
<1>2. c \in Conns /\ IsOpen(pool, c) /\ {d} \in SUBSET Dirs
  BY DEF Others
<1>3. PICK r : r = Posted(pool, c, {d})
  OBVIOUS
<1>4. PoolOK(r, quit) /\ r.gen = pool.gen
  BY <1>2, <1>3, InPool, PostKeeps
<1>5. QED
  BY <1>1, <1>3, <1>4, HandlerStep

\* A handler posts an event for the next cycle; it is in neither queue.
LEMMA PostNextHolds == ConnInv /\ PostNext => ConnInv'
<1> SUFFICES ASSUME ConnInv, PostNext PROVE ConnInv'
  OBVIOUS
<1>1. PICK c \in Others, d \in Dirs :
         /\ ~IsPosted(pool, c, d)
         /\ Handler([pool EXCEPT !.next = Append(@, EventOf(pool, c, d))])
  BY DEF PostNext
<1>2. c \in Conns /\ IsOpen(pool, c) /\ (c # Listener \/ quit)
  BY DEF Others
<1>3. PICK y : y = Append(pool.next, EventOf(pool, c, d))
  OBVIOUS
<1>4. PICK r : r = [pool EXCEPT !.next = y]
  OBVIOUS
<1>5. Handler(r)
  BY <1>1, <1>3, <1>4, Zenon
<1>6. PoolOK(r, quit) /\ r.gen = pool.gen
  BY <1>1, <1>2, <1>3, <1>4, InPool, PostNextKeeps
<1>7. QED
  BY <1>5, <1>6, HandlerStep

\* A handler makes a connection reusable, or not.
LEMMA ReuseHolds == ConnInv /\ Reuse => ConnInv'
<1> SUFFICES ASSUME ConnInv, Reuse PROVE ConnInv'
  OBVIOUS
<1>1. PICK c \in Others : Handler(Reusable(pool, c)) \/ Handler(NotReusable(pool, c))
  BY DEF Reuse
<1>2. c \in Conns /\ IsOpen(pool, c) /\ (c # Listener \/ quit)
  BY DEF Others
<1>3. PICK r : (r = Reusable(pool, c) \/ r = NotReusable(pool, c)) /\ Handler(r)
  BY <1>1
<1>4. PoolOK(r, quit) /\ r.gen = pool.gen
  BY <1>2, <1>3, InPool, ReuseKeeps
<1>5. QED
  BY <1>3, <1>4, HandlerStep

-----------------------------------------------------------------------------
(* ngx_get_connection() and the shutdown. *)

\* The socket for which a slot is sought is in no slot.
LEMMA GetHolds == ConnInv /\ Get => ConnInv'
<1> SUFFICES ASSUME ConnInv, Get PROVE ConnInv'
  OBVIOUS
<1>1. PICK s \in Fds \ UsedFds : call' = [s |-> s, n |-> ToDrain(pool), c |-> {}]
  BY DEF Get
<1>2. /\ pc = "handler" /\ gets < MaxGets /\ gets' = gets + 1 /\ pc' = "drain"
      /\ UNCHANGED <<pool, ret, flag, batch, entry, quit, skew>>
  BY DEF Get
<1>3. PoolOK(pool, quit) /\ CycleOK /\ skew \in Nat /\ StaleFiltered
  BY DEF ConnInv
<1>4. ToDrain(pool) \in Nat
  <2>1. pool.reusable \in Seq(Conns)
    BY <1>3 DEF PoolOK, ReuseOK, Once
  <2>2. PICK n \in Nat : n = Len(pool.reusable)
    BY <2>1, LenProperties
  <2>3. PICK l \in Int : l = n \div 8
    OBVIOUS
  <2>4. PICK m \in Int : m = Min({32, l})
    <3>1. Min({32, l}) = IF 32 <= l THEN 32 ELSE l
      BY MinMaxPair
    <3>2. QED
      BY <3>1
  <2>5. Max({m, 1}) \in Nat
    <3>1. Max({m, 1}) = IF m >= 1 THEN m ELSE 1
      BY MinMaxPair
    <3>2. QED
      BY <3>1
  <2>6. QED
    BY <2>2, <2>3, <2>4, <2>5 DEF ToDrain
<1>5. CycleOK'
  <2>1. /\ ret \in {"wait", "batch", "write", "timers", "posted", "idle"} /\ ret # "wait"
        /\ ret = "write" => entry # {}
        /\ flag \in BOOLEAN /\ quit \in BOOLEAN
    BY <1>2, <1>3 DEF CycleOK
  <2>2. gets' \in 0..MaxGets
    BY <1>2, <1>3, PoolAssumption DEF CycleOK
  <2>3. /\ call' \in [s : Fds \cup {NoFd}, n : Nat, c : SUBSET Conns]
        /\ call'.c = {} /\ call'.s = s
    BY <1>1, <1>4
  <2>4. UsedFds' = UsedFds
    BY <1>2 DEF UsedFds
  <2>5. call'.s \in Fds \ UsedFds'
    BY <1>1, <2>3, <2>4
  <2>6. QED
    BY <1>2, <2>1, <2>2, <2>3, <2>5 DEF CycleOK
<1>6. \A c \in Conns : pool'.gen[c] >= pool.gen[c]
  BY <1>2, <1>3 DEF PoolOK, SlotsOK
<1>7. /\ PoolOK(pool', quit') /\ batch' \cup entry' \subseteq batch \cup entry
      /\ skew' \in Nat /\ (skew' = 0 \/ skew' >= 2)
  BY <1>2, <1>3 DEF StaleFiltered
<1>8. QED
  BY <1>5, <1>6, <1>7, Steps

\* A handler called by the drain: the queue holds open connections, and the
\* listening one only after the shutdown began.
LEMMA DrainedKeeps ==
    ASSUME NEW p, NEW q \in BOOLEAN, PoolOK(p, q), NEW c \in ToSet(p.reusable),
           NEW r \in Drained(p, c)
    PROVE  /\ PoolOK(r, q) /\ r.gen = p.gen /\ c \in Conns
           /\ \A d \in Conns : r.fd[d] \in {p.fd[d], NoFd}
<1>1. ReuseOK(p) /\ (q \/ ListenOK(p))
  BY DEF PoolOK
<1>2. c \in Conns
  <2>1. p.reusable \in Seq(Conns)
    BY <1>1 DEF ReuseOK, Once
  <2>2. \A i \in DOMAIN p.reusable : p.reusable[i] \in Conns
    BY <2>1
  <2>3. QED
    BY <2>2 DEF ToSet
<1>3. IsOpen(p, c) /\ (c # Listener \/ q)
  BY <1>1 DEF ReuseOK, ListenOK
<1>4. CASE r = Closed(p, c)
  BY <1>2, <1>3, <1>4, CloseKeeps
<1>5. CASE r = Reusable(p, c)
  <2>1. PoolOK(r, q) /\ r.gen = p.gen /\ r.fd = p.fd
    BY <1>2, <1>3, <1>5, ReuseKeeps
  <2>2. QED
    BY <1>2, <2>1
<1>6. QED
  BY <1>4, <1>5 DEF Drained

\* It stays in none while the drain closes connections.
LEMMA DrainHolds == ConnInv /\ Drain => ConnInv'
<1> SUFFICES ASSUME ConnInv, Drain PROVE ConnInv'
  OBVIOUS
<1>1. PICK c : c = Last(pool.reusable)
  OBVIOUS
<1>2. /\ pc = "drain" /\ call.n > 0 /\ pool.reusable # <<>>
      /\ pool' \in Drained(pool, c)
      /\ call' = [call EXCEPT !.n = @ - 1, !.c = {c}]
      /\ UNCHANGED <<pc, ret, flag, batch, entry, gets, quit, skew>>
  BY <1>1 DEF Drain
<1>3. PoolOK(pool, quit) /\ CycleOK /\ skew \in Nat /\ StaleFiltered
  BY DEF ConnInv
<1>4. c \in ToSet(pool.reusable)
  <2>1. pool.reusable \in Seq(Conns)
    BY <1>3 DEF PoolOK, ReuseOK, Once
  <2>2. QED
    BY <1>1, <1>2, <2>1, LastIs
<1>5. PICK r : r = pool'
  OBVIOUS
<1>6. /\ PoolOK(r, quit) /\ r.gen = pool.gen /\ c \in Conns
      /\ \A d \in Conns : r.fd[d] \in {pool.fd[d], NoFd}
  BY <1>2, <1>4, <1>5, InPool, DrainedKeeps
<1>7. CycleOK'
  <2>1. /\ ret \in {"wait", "batch", "write", "timers", "posted", "idle"} /\ ret # "wait"
        /\ ret = "write" => entry # {}
        /\ flag \in BOOLEAN /\ quit \in BOOLEAN /\ gets \in 0..MaxGets
        /\ call.s \in Fds \ UsedFds
    BY <1>2, <1>3 DEF CycleOK
  <2>2. call \in [s : Fds \cup {NoFd}, n : Nat, c : SUBSET Conns]
    BY <1>3 DEF CycleOK
  <2>3. /\ call' \in [s : Fds \cup {NoFd}, n : Nat, c : SUBSET Conns]
        /\ call'.c = {c} /\ call'.s = call.s
    <3>1. call' = [call EXCEPT !.n = @ - 1, !.c = {c}]
      BY <1>2
    <3>2. call.n \in Nat /\ call.n > 0 /\ c \in Conns
      BY <1>2, <1>6, <2>2
    <3>3. call.n - 1 \in Nat
      BY <3>2
    <3>4. QED
      BY <2>2, <3>1, <3>2, <3>3
  <2>4. call'.s \in Fds \ UsedFds'
    <3>1. call.s \in Fds /\ \A d \in Conns : r.fd[d] # call.s
      BY <1>6, <2>1, PoolAssumption DEF UsedFds
    <3>2. QED
      BY <1>5, <2>3, <3>1 DEF UsedFds
  <2>5. QED
    BY <1>2, <2>1, <2>3, <2>4 DEF CycleOK
<1>8. \A d \in Conns : pool'.gen[d] >= pool.gen[d]
  BY <1>3, <1>5, <1>6 DEF PoolOK, SlotsOK
<1>9. /\ PoolOK(pool', quit') /\ batch' \cup entry' \subseteq batch \cup entry
      /\ skew' \in Nat /\ (skew' = 0 \/ skew' >= 2)
  BY <1>2, <1>3, <1>5, <1>6 DEF StaleFiltered
<1>10. QED
  BY <1>7, <1>8, <1>9, Steps

\* The head of the free list is opened, after the last try of the drain.
LEMMA TakeHolds == ConnInv /\ Take => ConnInv'
<1> SUFFICES ASSUME ConnInv, Take PROVE ConnInv'
  OBVIOUS
<1>1. /\ pc = "drain" /\ pc' = "handler" /\ call' = NoCall
      /\ UNCHANGED <<ret, flag, batch, entry, gets, quit, skew>>
  BY DEF Take
<1>2. PICK p \in Again(pool) : pool' = IF p.free = <<>> THEN p ELSE Opened(p, call.s)
  BY DEF Take
<1>3. PoolOK(pool, quit) /\ CycleOK /\ SlotsOK(pool)
  BY DEF ConnInv, PoolOK
<1>4. /\ PoolOK(p, quit) /\ p.gen = pool.gen
      /\ \A d \in Conns : p.fd[d] \in {pool.fd[d], NoFd}
  <2>1. CASE p = pool
    BY <1>3, <2>1
  <2>2. CASE p # pool
    <3>1. /\ \E c \in call.c : Contains(pool.reusable, c)
          /\ \E c \in call.c : p \in Drained(pool, c)
      BY <2>2 DEF Again
    <3>2. PICK c \in call.c : Contains(pool.reusable, c) /\ p \in Drained(pool, c)
      BY <1>3, <3>1 DEF CycleOK
    <3>3. c \in ToSet(pool.reusable)
      <4>1. pool.reusable \in Seq(Conns)
        BY <1>3 DEF PoolOK, ReuseOK, Once
      <4>2. QED
        BY <3>2, <4>1 DEF Contains, ToSet
    <3>4. QED
      BY <3>2, <3>3, InPool, DrainedKeeps
  <2>3. QED
    BY <2>1, <2>2
<1>5. call.s \in Fds /\ \A d \in Conns : p.fd[d] # call.s
  <2>1. call.s \in Fds \ UsedFds
    BY <1>1, <1>3 DEF CycleOK
  <2>2. QED
    BY <1>4, <2>1, PoolAssumption DEF UsedFds
<1>6. PICK r : r = pool'
  OBVIOUS
<1>7. PoolOK(r, quit) /\ \A d \in Conns : r.gen[d] >= pool.gen[d]
  <2>1. CASE p.free = <<>>
    BY <1>2, <1>3, <1>4, <1>6, <2>1 DEF SlotsOK
  <2>2. CASE p.free # <<>>
    <3>1. r = Opened(p, call.s)
      BY <1>2, <1>6, <2>2
    <3>2. QED
      BY <1>4, <1>5, <2>2, <3>1, InPool, OpenKeeps
  <2>3. QED
    BY <2>1, <2>2
<1>8. /\ ret' # "wait" /\ ret' \in {"wait", "batch", "write", "timers", "posted", "idle"}
      /\ ret' = "write" => entry # {}
  BY <1>1, <1>3 DEF CycleOK
<1>9. QED
  BY <1>1, <1>6, <1>7, <1>8, Stays

\* Nothing is posted when the listening slot is freed; its timer stays behind.
LEMMA QuitHolds == ConnInv /\ Quit => ConnInv'
<1> SUFFICES ASSUME ConnInv, Quit PROVE ConnInv'
  OBVIOUS
<1>1. /\ pc = "wait" /\ quit = FALSE /\ quit' = TRUE
      /\ pool' = ListenerClosed(pool) /\ pc' = "idle"
      /\ UNCHANGED <<ret, flag, batch, entry, call, gets, skew>>
  BY InPool DEF Quit
<1>2. PoolOK(pool, FALSE) /\ CycleOK /\ skew \in Nat /\ StaleFiltered
  BY <1>1 DEF ConnInv
<1>3. PICK r : r = pool'
  OBVIOUS
<1>4. pool.posted = <<>>
  BY <1>1, <1>2 DEF CycleOK
<1>5. ToSet(pool.posted) = {}
  BY <1>4, NoEvent
<1>6. PoolOK(r, TRUE) /\ r.gen = pool.gen
  BY <1>1, <1>2, <1>3, <1>5, ListenerCloseKeeps
<1>7. CycleOK'
  <2>1. /\ ret = "wait" /\ flag \in BOOLEAN /\ gets \in 0..MaxGets
        /\ call \in [s : Fds \cup {NoFd}, n : Nat, c : SUBSET Conns]
        /\ \A c, d \in call.c : c = d
    BY <1>1, <1>2 DEF CycleOK
  <2>2. QED
    BY <1>1, <2>1 DEF CycleOK
<1>8. \A d \in Conns : pool'.gen[d] >= pool.gen[d]
  BY <1>2, <1>3, <1>6 DEF PoolOK, SlotsOK
<1>9. /\ PoolOK(pool', quit') /\ batch' \cup entry' \subseteq batch \cup entry
      /\ skew' \in Nat /\ (skew' = 0 \/ skew' >= 2)
  BY <1>1, <1>2, <1>3, <1>6 DEF StaleFiltered
<1>10. QED
  BY <1>7, <1>8, <1>9, Steps

\* The handlers of idle connections, one after the other.
LEMMA CloseIdleHolds == ConnInv /\ CloseIdle => ConnInv'
<1> SUFFICES ASSUME ConnInv, CloseIdle PROVE ConnInv'
  OBVIOUS
<1>1. /\ pc = "idle" /\ UNCHANGED <<pool, flag, batch, entry, call, gets, quit, skew>>
      /\ \/ pc' = "handler" /\ ret' = "idle"
         \/ pc' = "posted" /\ ret' = ret
  BY DEF CloseIdle, Call
<1>2. PoolOK(pool, quit) /\ CycleOK /\ SlotsOK(pool)
  BY DEF ConnInv, PoolOK
<1>3. ret = "wait"
  BY <1>1, <1>2 DEF CycleOK
<1>4. PoolOK(pool', quit) /\ \A d \in Conns : pool'.gen[d] >= pool.gen[d]
  BY <1>1, <1>2 DEF SlotsOK
<1>5. QED
  BY <1>1, <1>3, <1>4, Stays

-----------------------------------------------------------------------------
(* The event cycle. *)

\* An entry is made from what the kernel has, so it names the present use.
LEMMA WaitHolds == ConnInv /\ Wait => ConnInv'
<1> SUFFICES ASSUME ConnInv, Wait PROVE ConnInv'
  OBVIOUS
<1>1. /\ pc = "wait" /\ flag' \in BOOLEAN /\ pc' = "batch"
      /\ UNCHANGED <<ret, entry, call, gets, quit, skew>>
  BY DEF Wait
<1>2. pool' = [pool EXCEPT !.posted = @ \o pool.next, !.next = <<>>]
  BY DEF Wait, Moved
<1>3. PICK F \in SUBSET {f \in Fds : pool.reg[f] # NoReg} :
      \E evs \in [F -> SUBSET Dirs \ {{}}] :
         batch' = {[c |-> pool.reg[f].c, i |-> pool.reg[f].i, ev |-> evs[f],
                    g |-> pool.gen[pool.reg[f].c]] : f \in F}
  BY DEF Wait
<1>4. PICK evs \in [F -> SUBSET Dirs \ {{}}] :
         batch' = {[c |-> pool.reg[f].c, i |-> pool.reg[f].i, ev |-> evs[f],
                    g |-> pool.gen[pool.reg[f].c]] : f \in F}
  BY <1>3
<1>5. /\ PoolOK(pool, quit) /\ SlotsOK(pool) /\ KernelOK(pool) /\ CycleOK
      /\ BatchOK /\ skew \in Nat /\ StaleFiltered
  BY DEF ConnInv, PoolOK
<1>6. PICK r : r = pool'
  OBVIOUS
<1>7. PoolOK(r, quit) /\ r.gen = pool.gen
  <2>1. PICK y : /\ y = pool.posted \o pool.next
                 /\ Distinct(y) /\ ToSet(y) = ToSet(pool.posted) \cup ToSet(pool.next)
    <3>1. PostedOK(pool)
      BY <1>5 DEF PoolOK
    <3>2. QED
      BY <3>1, JoinedIs DEF PostedOK
  <2>2. PICK z : z = <<>> /\ Distinct(z) /\ ToSet(z) = {}
    BY NoEvent
  <2>3. r = [pool EXCEPT !.posted = y, !.next = z]
    BY <1>2, <1>6, <2>1, <2>2, Zenon
  <2>4. Aside(r, pool) /\ r.timers = pool.timers /\ r.posted = y /\ r.next = z
    <3>1. pool = FieldsOf(pool)
      BY <1>5 DEF PoolOK
    <3>2. QED
      BY <2>3, <3>1 DEF Aside, FieldsOf
  <2>5. PoolOK(r, quit)
    BY <2>1, <2>2, <2>4, InPool, MoveKeeps
  <2>6. QED
    BY <2>4, <2>5 DEF Aside
<1>8. ASSUME NEW f \in F
      PROVE  EntryOK(r, [c |-> pool.reg[f].c, i |-> pool.reg[f].i, ev |-> evs[f],
                         g |-> pool.gen[pool.reg[f].c]])
  <2>1. PICK c, i : c = pool.reg[f].c /\ i = pool.reg[f].i
    OBVIOUS
  <2>2. c \in Conns /\ i \in {0, 1} /\ pool.inst[c] = i
    <3>1. f \in Fds /\ pool.reg[f] # NoReg
      OBVIOUS
    <3>2. PICK T : T = [c : Conns, i : {0, 1}] \cup {NoReg}
      OBVIOUS
    <3>3. pool.reg \in [Fds -> T]
      BY <1>5, <3>2 DEF KernelOK
    <3>4. pool.reg[f] \in [c : Conns, i : {0, 1}]
      BY <3>1, <3>2, <3>3
    <3>5. QED
      BY <1>5, <2>1, <3>1, <3>4 DEF KernelOK
  <2>3. pool.gen[c] \in Nat /\ pool.inst[c] = (pool.gen[c] + 1) % 2
    BY <1>5, <2>2 DEF SlotsOK
  <2>4. PICK e : e = [c |-> c, i |-> i, ev |-> evs[f], g |-> pool.gen[c]]
    OBVIOUS
  <2>5. evs[f] \in SUBSET Dirs
    OBVIOUS
  <2>6. e \in Entry /\ e.c = c /\ e.i = i /\ e.g = pool.gen[c]
    BY <2>2, <2>3, <2>4, <2>5 DEF Entry
  <2>7. EntryOK(r, e)
    <3>1. e.g <= r.gen[e.c]
      BY <1>7, <2>3, <2>6
    <3>2. e.i = (e.g + 1) % 2
      BY <2>2, <2>3, <2>6
    <3>3. QED
      BY <2>6, <3>1, <3>2 DEF EntryOK
  <2>8. QED
    BY <2>1, <2>4, <2>7
<1>9. BatchOK'
  <2>1. \A e \in batch' : EntryOK(r, e)
    BY <1>4, <1>8
  <2>2. \A e \in entry : EntryOK(r, e)
    BY <1>5, <1>7 DEF BatchOK, EntryOK
  <2>3. QED
    BY <1>1, <1>6, <2>1, <2>2 DEF BatchOK
<1>10. CycleOK'
  <2>1. /\ ret = "wait" /\ quit \in BOOLEAN /\ gets \in 0..MaxGets
        /\ call \in [s : Fds \cup {NoFd}, n : Nat, c : SUBSET Conns]
        /\ \A c, d \in call.c : c = d
    BY <1>1, <1>5 DEF CycleOK
  <2>2. QED
    BY <1>1, <2>1 DEF CycleOK
<1>11. PoolOK(pool, quit)' /\ (skew \in Nat /\ StaleFiltered)'
  BY <1>1, <1>5, <1>6, <1>7 DEF StaleFiltered
<1>12. QED
  BY <1>9, <1>10, <1>11 DEF ConnInv

\* An entry that passes the test is of this use, or two or more behind it.
LEMMA DispatchHolds == ConnInv /\ Dispatch => ConnInv'
<1> SUFFICES ASSUME ConnInv, Dispatch PROVE ConnInv'
  OBVIOUS
<1>1. PICK e \in batch :
        /\ batch' = batch \ {e}
        /\ \/ /\ Stale(e)
              /\ UNCHANGED <<pool, pc, ret, entry, skew>>
           \/ /\ ~Stale(e) /\ flag
              /\ pool' = Posted(pool, e.c, e.ev \cap pool.active[e.c])
              /\ skew' \in {skew, pool.gen[e.c] - e.g}
              /\ UNCHANGED <<pc, ret, entry>>
           \/ /\ ~Stale(e)
              /\ entry' = {e}
              /\ Call("write")
              /\ skew' = pool.gen[e.c] - e.g
              /\ UNCHANGED pool
           \/ /\ ~Stale(e)
              /\ entry' = {e}
              /\ pc' = "write"
              /\ UNCHANGED <<pool, ret, skew>>
  BY DEF Dispatch
<1>2. pc = "batch" /\ UNCHANGED <<flag, call, gets, quit>>
  BY DEF Dispatch
<1>3. /\ PoolOK(pool, quit) /\ SlotsOK(pool) /\ CycleOK /\ BatchOK
      /\ skew \in Nat /\ (skew = 0 \/ skew >= 2)
  BY DEF ConnInv, PoolOK, StaleFiltered
<1>4. EntryOK(pool, e)
  BY <1>3 DEF BatchOK
<1>5. ~Stale(e) => /\ IsOpen(pool, e.c) /\ pool.gen[e.c] - e.g \in Nat
                   /\ pool.gen[e.c] - e.g = 0 \/ pool.gen[e.c] - e.g >= 2
  BY <1>3, <1>4, SkewIs DEF Stale
<1>6. skew' \in Nat /\ (skew' = 0 \/ skew' >= 2)
  BY <1>1, <1>3, <1>5
<1>7. PICK r : r = pool'
  OBVIOUS
<1>8. PoolOK(r, quit) /\ r.gen = pool.gen
  <2>1. CASE pool' = pool
    BY <1>3, <1>7, <2>1
  <2>2. CASE pool' # pool
    <3>1. IsOpen(pool, e.c) /\ r = Posted(pool, e.c, e.ev \cap pool.active[e.c])
      BY <1>1, <1>5, <1>7, <2>2
    <3>2. e.c \in Conns /\ e.ev \cap pool.active[e.c] \in SUBSET Dirs
      BY <1>4 DEF EntryOK, Entry
    <3>3. QED
      BY <3>1, <3>2, InPool, PostKeeps
  <2>3. QED
    BY <2>1, <2>2
<1>9. /\ pc' \in {"batch", "handler", "write"} /\ ret' \in {"wait", "write"}
      /\ entry' \in {entry, {e}}
      /\ pc' = "handler" <=> ret' = "write"
      /\ pc' = "write" \/ ret' = "write" => entry' = {e}
  <2>1. ret = "wait"
    BY <1>2, <1>3 DEF CycleOK
  <2>2. QED
    BY <1>1, <1>2, <2>1 DEF Call
<1>10. CycleOK'
  <2>1. /\ flag \in BOOLEAN /\ quit \in BOOLEAN /\ gets \in 0..MaxGets
        /\ call \in [s : Fds \cup {NoFd}, n : Nat, c : SUBSET Conns]
        /\ \A c, d \in call.c : c = d
    BY <1>3 DEF CycleOK
  <2>2. pc' = "write" \/ ret' = "write" => entry' # {}
    BY <1>9
  <2>3. QED
    BY <1>2, <1>9, <2>1, <2>2 DEF CycleOK
<1>11. \A d \in Conns : pool'.gen[d] >= pool.gen[d]
  BY <1>3, <1>7, <1>8 DEF SlotsOK
<1>12. PoolOK(pool', quit') /\ batch' \cup entry' \subseteq batch \cup entry
  BY <1>1, <1>2, <1>7, <1>8, <1>9
<1>13. QED
  BY <1>6, <1>10, <1>11, <1>12, Steps

\* The same for the test after the read handler.
LEMMA WriteHolds == ConnInv /\ Write => ConnInv'
<1> SUFFICES ASSUME ConnInv, Write PROVE ConnInv'
  OBVIOUS
<1>1. PICK e \in entry :
         \/ ~Stale(e) /\ Call("batch") /\ skew' = pool.gen[e.c] - e.g
         \/ pc' = "batch" /\ UNCHANGED <<ret, skew>>
  BY DEF Write
<1>2. /\ pc = "write" /\ entry' = {}
      /\ UNCHANGED <<pool, flag, batch, call, gets, quit>>
  BY DEF Write
<1>3. /\ PoolOK(pool, quit) /\ SlotsOK(pool) /\ CycleOK /\ BatchOK
      /\ skew \in Nat /\ (skew = 0 \/ skew >= 2)
  BY DEF ConnInv, PoolOK, StaleFiltered
<1>4. EntryOK(pool, e)
  BY <1>3 DEF BatchOK
<1>5. skew' \in Nat /\ (skew' = 0 \/ skew' >= 2)
  BY <1>1, <1>3, <1>4, SkewIs DEF Stale
<1>6. CycleOK'
  <2>1. /\ ret = "wait" /\ flag \in BOOLEAN /\ quit \in BOOLEAN /\ gets \in 0..MaxGets
        /\ call \in [s : Fds \cup {NoFd}, n : Nat, c : SUBSET Conns]
        /\ \A c, d \in call.c : c = d
    BY <1>2, <1>3 DEF CycleOK
  <2>2. /\ pc' \in {"batch", "handler"} /\ ret' \in {"wait", "batch"}
        /\ pc' = "handler" <=> ret' = "batch"
    BY <1>1, <2>1 DEF Call
  <2>3. QED
    BY <1>2, <2>1, <2>2 DEF CycleOK
<1>7. \A d \in Conns : pool'.gen[d] >= pool.gen[d]
  BY <1>2, <1>3 DEF SlotsOK
<1>8. PoolOK(pool', quit') /\ batch' \cup entry' \subseteq batch \cup entry
  BY <1>2, <1>3
<1>9. QED
  BY <1>5, <1>6, <1>7, <1>8, Steps

\* The batch is done.
LEMMA BatchEndsHolds == ConnInv /\ BatchEnds => ConnInv'
<1> SUFFICES ASSUME ConnInv, BatchEnds PROVE ConnInv'
  OBVIOUS
<1>1. /\ pc = "batch" /\ pc' = "timers" /\ flag' = FALSE /\ skew' = 0
      /\ UNCHANGED <<pool, ret, batch, entry, call, gets, quit>>
  BY DEF BatchEnds
<1>2. PoolOK(pool, quit) /\ SlotsOK(pool) /\ CycleOK
  BY DEF ConnInv, PoolOK
<1>3. CycleOK'
  <2>1. /\ ret = "wait" /\ quit \in BOOLEAN /\ gets \in 0..MaxGets
        /\ call \in [s : Fds \cup {NoFd}, n : Nat, c : SUBSET Conns]
        /\ \A c, d \in call.c : c = d
    BY <1>1, <1>2 DEF CycleOK
  <2>2. QED
    BY <1>1, <2>1 DEF CycleOK
<1>4. \A d \in Conns : pool'.gen[d] >= pool.gen[d]
  BY <1>1, <1>2 DEF SlotsOK
<1>5. PoolOK(pool', quit') /\ batch' \cup entry' \subseteq batch \cup entry
  BY <1>1, <1>2
<1>6. skew' \in Nat /\ (skew' = 0 \/ skew' >= 2)
  BY <1>1
<1>7. QED
  BY <1>3, <1>4, <1>5, <1>6, Steps

\* A timer expires.
LEMMA ExpireHolds == ConnInv /\ Expire => ConnInv'
<1> SUFFICES ASSUME ConnInv, Expire PROVE ConnInv'
  OBVIOUS
<1>1. pc = "timers" /\ UNCHANGED <<flag, batch, entry, call, gets, quit, skew>>
  BY DEF Expire
<1>2. PoolOK(pool, quit) /\ SlotsOK(pool) /\ CycleOK
  BY DEF ConnInv, PoolOK
<1>3. ret = "wait"
  BY <1>1, <1>2 DEF CycleOK
<1>4. \/ /\ \E e \in pool.timers : pool' = [pool EXCEPT !.timers = @ \ {e}]
         /\ pc' = "handler" /\ ret' = "timers"
      \/ pool' = pool /\ pc' = "posted" /\ ret' = "wait"
  BY <1>3 DEF Expire, Call
<1>5. PICK r : r = pool'
  OBVIOUS
<1>6. PoolOK(r, quit) /\ r.gen = pool.gen
  <2>1. CASE pool' = pool
    BY <1>2, <1>5, <2>1
  <2>2. CASE pool' # pool
    <3>1. PICK e : r = [pool EXCEPT !.timers = @ \ {e}]
      BY <1>4, <1>5, <2>2
    <3>2. QED
      BY <3>1, TimerGone
  <2>3. QED
    BY <2>1, <2>2
<1>7. PoolOK(pool', quit) /\ \A d \in Conns : pool'.gen[d] >= pool.gen[d]
  BY <1>2, <1>5, <1>6 DEF SlotsOK
<1>8. /\ pc' \in {"handler", "posted"} /\ ret' \in {"wait", "timers"}
      /\ pc' = "handler" <=> ret' = "timers"
  BY <1>4
<1>9. QED
  BY <1>1, <1>7, <1>8, Stays

\* The queue is run until nothing is posted.
LEMMA RunPostedHolds == ConnInv /\ RunPosted => ConnInv'
<1> SUFFICES ASSUME ConnInv, RunPosted PROVE ConnInv'
  OBVIOUS
<1>1. pc = "posted" /\ UNCHANGED <<flag, batch, entry, call, gets, quit, skew>>
  BY DEF RunPosted
<1>2. PoolOK(pool, quit) /\ SlotsOK(pool) /\ CycleOK
  BY DEF ConnInv, PoolOK
<1>3. ret = "wait"
  BY <1>1, <1>2 DEF CycleOK
<1>4. PICK r : r = pool'
  OBVIOUS
<1>5. CASE pool.posted = <<>>
  <2>1. pool' = pool /\ pc' = "wait" /\ ret' = "wait"
    BY <1>3, <1>5 DEF RunPosted
  <2>2. PoolOK(pool', quit) /\ \A d \in Conns : pool'.gen[d] >= pool.gen[d]
    BY <1>2, <2>1 DEF SlotsOK
  <2>3. pool'.posted = <<>>
    BY <1>5, <2>1
  <2>4. QED
    BY <1>1, <2>1, <2>2, <2>3, Stays
<1>6. CASE pool.posted # <<>>
  <2>1. /\ pool' = [pool EXCEPT !.posted = Tail(@)]
        /\ pc' = "handler" /\ ret' = "posted"
    BY <1>6 DEF RunPosted, Call
  <2>2. PICK y : y = Tail(pool.posted)
    OBVIOUS
  <2>3. r = [pool EXCEPT !.posted = y]
    BY <1>4, <2>1, <2>2, Zenon
  <2>4. PoolOK(r, quit) /\ r.gen = pool.gen
    BY <1>6, <2>2, <2>3, InPool, RunKeeps
  <2>5. PoolOK(pool', quit) /\ \A d \in Conns : pool'.gen[d] >= pool.gen[d]
    BY <1>2, <1>4, <2>4 DEF SlotsOK
  <2>6. pc' = "handler" /\ ret' = "posted"
    BY <2>1
  <2>7. QED
    BY <1>1, <2>5, <2>6, Stays
<1>7. QED
  BY <1>5, <1>6

\* A handler returns into the loop that called it.
LEMMA ReturnHolds == ConnInv /\ Return => ConnInv'
<1> SUFFICES ASSUME ConnInv, Return PROVE ConnInv'
  OBVIOUS
<1>1. /\ pc = "handler" /\ pc' = ret /\ ret' = "wait"
      /\ UNCHANGED <<pool, flag, batch, entry, call, gets, quit, skew>>
  BY DEF Return
<1>2. /\ PoolOK(pool, quit) /\ SlotsOK(pool) /\ CycleOK /\ skew \in Nat /\ StaleFiltered
  BY DEF ConnInv, PoolOK
<1>3. CycleOK'
  <2>1. /\ ret \in {"batch", "write", "timers", "posted", "idle"}
        /\ ret = "write" => entry # {}
        /\ flag \in BOOLEAN /\ quit \in BOOLEAN /\ gets \in 0..MaxGets
        /\ call \in [s : Fds \cup {NoFd}, n : Nat, c : SUBSET Conns]
        /\ \A c, d \in call.c : c = d
    BY <1>1, <1>2 DEF CycleOK
  <2>2. QED
    BY <1>1, <2>1 DEF CycleOK
<1>4. \A d \in Conns : pool'.gen[d] >= pool.gen[d]
  BY <1>1, <1>2 DEF SlotsOK
<1>5. /\ PoolOK(pool', quit') /\ batch' \cup entry' \subseteq batch \cup entry
      /\ skew' \in Nat /\ (skew' = 0 \/ skew' >= 2)
  BY <1>1, <1>2 DEF StaleFiltered
<1>6. QED
  BY <1>3, <1>4, <1>5, Steps

\* Nothing happens.
LEMMA StutterHolds == ConnInv /\ UNCHANGED vars => ConnInv'
<1> SUFFICES ASSUME ConnInv, UNCHANGED vars PROVE ConnInv'
  OBVIOUS
<1>1. UNCHANGED <<pool, pc, ret, flag, batch, entry, call, gets, quit, skew>>
  BY DEF vars
<1>2. CycleOK'
  <2>1. CycleOK
    BY DEF ConnInv
  <2>2. UsedFds' = UsedFds
    BY <1>1 DEF UsedFds
  <2>3. QED
    BY <1>1, <2>1, <2>2 DEF CycleOK
<1>3. QED
  BY <1>1, <1>2 DEF ConnInv, BatchOK, StaleFiltered

\* The invariant is inductive.
LEMMA InvHolds == Spec => []ConnInv
<1>1. ConnInv /\ [Next]_vars => ConnInv'
  BY WaitHolds, DispatchHolds, WriteHolds, BatchEndsHolds, ExpireHolds,
     RunPostedHolds, ReturnHolds, GetHolds, DrainHolds, TakeHolds, CloseHolds,
     ControlHolds, EmfileHolds, SetTimerHolds, DelTimerHolds, PostHolds,
     PostNextHolds, ReuseHolds, QuitHolds, CloseIdleHolds, StutterHolds DEF Next
<1>2. QED
  BY <1>1, InitHolds, PTL DEF Spec

-----------------------------------------------------------------------------
(* The theorems. *)

\* Every variable has its type, whatever handlers do with the connections, their
\* timers and their posted events.
THEOREM ConnTypeCorrect == Spec => []TypeOK
<1>1. ConnInv => TypeOK
  <2> SUFFICES ASSUME ConnInv PROVE TypeOK
    OBVIOUS
  <2>1. PICK p : p = pool
    OBVIOUS
  <2>2. /\ p = FieldsOf(p) /\ SlotsOK(p) /\ FreeOK(p) /\ ReuseOK(p) /\ PostedOK(p)
        /\ TimersOK(p, quit) /\ KernelOK(p)
    BY <2>1 DEF ConnInv, PoolOK
  <2>3. p \in Pool
    <3>1. /\ p.fd \in [Conns -> Fds \cup {NoFd}] /\ p.gen \in [Conns -> Nat]
          /\ p.active \in [Conns -> SUBSET Dirs]
      BY <2>2 DEF SlotsOK
    <3>2. p.inst \in [Conns -> {0, 1}]
      <4>1. \A c \in Conns : (p.gen[c] + 1) % 2 \in {0, 1}
        BY <3>1
      <4>2. QED
        BY <2>2, <4>1 DEF SlotsOK
    <3>3. p.free \in Seq(Conns) /\ p.reusable \in Seq(Conns)
      BY <2>2 DEF FreeOK, ReuseOK, Once
    <3>4. p.freeN \in Nat
      BY <2>2, <3>3, LenProperties DEF FreeOK
    <3>5. p.timers \in SUBSET Event
      BY <2>2 DEF TimersOK
    <3>6. p.posted \in Seq(Event) /\ p.next \in Seq(Event)
      BY <2>2 DEF PostedOK, Distinct
    <3>7. p.reg \in [Fds -> [c : Conns, i : {0, 1}] \cup {NoReg}]
      BY <2>2 DEF KernelOK
    <3>8. FieldsOf(p) \in Pool
      BY <3>1, <3>2, <3>3, <3>4, <3>5, <3>6, <3>7, Zenon DEF FieldsOf, Pool
    <3>9. QED
      BY <2>2, <3>8
  <2>4. CycleOK /\ skew \in Nat
    BY DEF ConnInv
  <2>5. batch \subseteq Entry /\ entry \subseteq Entry
    BY DEF ConnInv, BatchOK, EntryOK
  <2>6. pool \in Pool
    BY <2>1, <2>3
  <2>7. QED
    BY <2>4, <2>5, <2>6 DEF TypeOK, CycleOK
<1>2. QED
  BY <1>1, InvHolds, PTL

\* The free list is exactly the closed slots, each once, and free_connection_n
\* counts it, for any number of slots: ngx_free_connection() is reached once for
\* a use of a slot, from a handler, from the drain inside ngx_get_connection()
\* or from the shutdown.
THEOREM FreeListExact == Spec => []FreeExact
<1>1. ConnInv => FreeExact
  <2> SUFFICES ASSUME ConnInv PROVE FreeExact
    OBVIOUS
  <2>1. FreeOK(pool)
    BY DEF ConnInv, PoolOK
  <2>2. /\ Once(pool.free, Conns, {c \in Conns : ~IsOpen(pool, c)})
        /\ pool.freeN = Len(pool.free)
    BY <2>1 DEF FreeOK
  <2>3. ToSet(pool.free) = {c \in Conns : ~IsOpen(pool, c)}
    BY <2>2 DEF Once
  <2>4. Len(pool.free) = Cardinality({c \in Conns : ~IsOpen(pool, c)})
    BY <2>2, OnceLength
  <2>5. QED
    BY <2>2, <2>3, <2>4 DEF FreeExact
<1>2. QED
  BY <1>1, InvHolds, PTL

\* Posted events, timers, the queue of reusable connections and what the kernel
\* was given mean the connection that has the slot now: ngx_close_connection()
\* leaves nothing that points to the slot it frees.
THEOREM ReferencesCurrent == Spec => []RefsCurrent
<1>1. ConnInv => QueuesCurrent
  <2> SUFFICES ASSUME ConnInv PROVE QueuesCurrent
    OBVIOUS
  <2>1. PostedOK(pool) /\ TimersOK(pool, quit) /\ ReuseOK(pool)
    BY DEF ConnInv, PoolOK
  <2>2. \A e \in ToSet(pool.posted) \cup ToSet(pool.next) \cup pool.timers :
           (IsOpen(pool, e.c) /\ pool.gen[e.c] = e.g) \/ LeftBehind(e)
    BY <2>1 DEF PostedOK, TimersOK, Current, LeftBehind
  <2>3. Distinct(pool.posted \o pool.next)
    BY <2>1, JoinedIs DEF PostedOK
  <2>4. (LET q == pool.posted \o pool.next
         IN \A i, j \in DOMAIN q : q[i].c = q[j].c /\ q[i].d = q[j].d => i = j)
    BY <2>3, Zenon DEF Distinct
  <2>5. \A c \in ToSet(pool.reusable) : IsOpen(pool, c)
    BY <2>1 DEF ReuseOK
  <2>6. Len(pool.reusable) = Cardinality(ToSet(pool.reusable))
    BY <2>1, OnceLength DEF ReuseOK
  <2>7. QED
    BY <2>2, <2>4, <2>5, <2>6, Zenon DEF QueuesCurrent
<1>2. ConnInv => KernelCurrent
  <2> SUFFICES ASSUME ConnInv PROVE KernelCurrent
    OBVIOUS
  <2>1. KernelOK(pool)
    BY DEF ConnInv, PoolOK
  <2>2. QED
    BY <2>1 DEF KernelOK, KernelCurrent
<1>3. ConnInv => RefsCurrent
  BY <1>1, <1>2 DEF RefsCurrent
<1>4. QED
  BY <1>3, InvHolds, PTL

\* One bit of instance, tested before each handler, is enough against a slot that
\* was closed and used once within a batch: an event that passes the test in
\* ngx_epoll_process_events() belongs to the connection, or the slot was used at
\* least twice since the kernel reported it.
THEOREM StaleEventsFiltered == Spec => []StaleFiltered
<1>1. ConnInv => StaleFiltered
  BY DEF ConnInv
<1>2. QED
  BY <1>1, InvHolds, PTL
=============================================================================
