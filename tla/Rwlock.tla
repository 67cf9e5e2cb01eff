------------------------------- MODULE Rwlock -------------------------------
(***************************************************************************)
(* The read-write spin lock of nginx, src/core/ngx_rwlock.c: one word in   *)
(* shared memory, 0 when free, the number of readers, or all ones while    *)
(* written.  One step is one access to the word; the combined test         *)
(* "*lock == 0 && cmp_set(lock, 0, WLOCK)" takes effect in one step, while *)
(* rlock() reads the word and compares later, and unlock() and downgrade() *)
(* read it, choose a branch and then change it.                            *)
(*                                                                         *)
(* Nothing releases the lock of a process that dies: ngx_unlock_mutexes()  *)
(* knows only the ngx_shmtx_t locks.                                       *)
(***************************************************************************)
EXTENDS Integers, FiniteSets

CONSTANTS
    Procs,     \* the processes that share the word
    Width,     \* bits of ngx_atomic_uint_t
    MaxOps,    \* bound: locks one process takes
    MaxKills   \* bound: processes that die

Modulus == 2^Width

WLOCK == Modulus - 1   \* NGX_RWLOCK_WLOCK

\* The readers never fill the word: there are fewer processes than values.
ASSUME RwProcsAssumption ==
    /\ IsFiniteSet(Procs)
    /\ Width \in Nat
    /\ Modulus \in Nat
    /\ Cardinality(Procs) < WLOCK

ASSUME RwBoundsAssumption == MaxOps \in Nat /\ MaxKills \in Nat

VARIABLES
    lock,      \* *lock
    pc,        \* the next statement of each process
    readers,   \* the local "readers" of ngx_rwlock_rlock()
    hold,      \* history: what each process was granted and has not given back
    ops,       \* locks taken by each process
    kills      \* processes killed so far

vars == <<lock, pc, readers, hold, ops, kills>>

(***************************************************************************)
(* The program points.                                                     *)
(*   idle    no lock             unwrite  unlock(): cmp_set(WLOCK, 0)      *)
(*   wlock   attempts to write   unread   unlock(): fetch_add(-1)          *)
(*   rlock   reads the word      down     downgrade(): the store of 1      *)
(*   rcas    cmp_set(readers, readers + 1)                                 *)
(*   held    the lock call returned                                        *)
(***************************************************************************)
RwPoints == {"idle", "wlock", "rlock", "rcas", "held", "unwrite", "unread",
             "down", "dead"}

Goto(p, point) == pc' = [pc EXCEPT ![p] = point]
Grant(p, mode) == hold' = [hold EXCEPT ![p] = mode]

Readers == {p \in Procs : hold[p] = "read"}
Writers == {p \in Procs : hold[p] = "write"}

Init ==
    /\ lock = 0
    /\ pc = [p \in Procs |-> "idle"]
    /\ readers = [p \in Procs |-> 0]
    /\ hold = [p \in Procs |-> "none"]
    /\ ops = [p \in Procs |-> 0]
    /\ kills = 0

\* ngx_rwlock_wlock() or ngx_rwlock_rlock() is called.
Call(p) ==
    /\ pc[p] = "idle"
    /\ ops[p] < MaxOps
    /\ ops' = [ops EXCEPT ![p] = @ + 1]
    /\ \E point \in {"wlock", "rlock"} : Goto(p, point)
    /\ UNCHANGED <<lock, readers, hold, kills>>

\* Mutant: a writer enters when no writer is inside.
WriteAttemptIgnoresReaders(p) ==
    /\ pc[p] = "wlock"
    /\ lock # WLOCK
    /\ lock' = WLOCK
    /\ Goto(p, "held")
    /\ Grant(p, "write")
    /\ UNCHANGED <<readers, ops, kills>>

\* An attempt of wlock() that succeeds.  One that fails changes nothing and is
\* repeated, after pauses and a yield.
WriteAttempt(p) ==
    /\ pc[p] = "wlock"
    /\ lock = 0
    /\ lock' = WLOCK
    /\ Goto(p, "held")
    /\ Grant(p, "write")
    /\ UNCHANGED <<readers, ops, kills>>

\* rlock() copies the word, and goes on to cmp_set() unless it is written.
ReadLook(p) ==
    /\ pc[p] = "rlock"
    /\ readers' = [readers EXCEPT ![p] = lock]
    /\ Goto(p, IF lock # WLOCK THEN "rcas" ELSE "rlock")
    /\ UNCHANGED <<lock, hold, ops, kills>>

\* Mutant: the copy is incremented and stored without comparing.
ReadAttemptStores(p) ==
    /\ pc[p] = "rcas"
    /\ lock' = (readers[p] + 1) % Modulus
    /\ Goto(p, "held")
    /\ Grant(p, "read")
    /\ UNCHANGED <<readers, ops, kills>>

ReadAttempt(p) ==
    /\ pc[p] = "rcas"
    /\ lock' = IF lock = readers[p] THEN (readers[p] + 1) % Modulus ELSE lock
    /\ Goto(p, IF lock = readers[p] THEN "held" ELSE "rlock")
    /\ Grant(p, IF lock = readers[p] THEN "read" ELSE "none")
    /\ UNCHANGED <<readers, ops, kills>>

\* ngx_rwlock_unlock() does not know what it unlocks: it looks at the word.
Unlock(p) ==
    /\ pc[p] = "held"
    /\ Goto(p, IF lock = WLOCK THEN "unwrite" ELSE "unread")
    /\ UNCHANGED <<lock, readers, hold, ops, kills>>

UnlockWrite(p) ==
    /\ pc[p] = "unwrite"
    /\ lock' = IF lock = WLOCK THEN 0 ELSE lock
    /\ Goto(p, "idle")
    /\ Grant(p, "none")
    /\ UNCHANGED <<readers, ops, kills>>

\* Mutant: a reader's unlock leaves the word alone.
UnlockReadForgets(p) ==
    /\ pc[p] = "unread"
    /\ Goto(p, "idle")
    /\ Grant(p, "none")
    /\ UNCHANGED <<lock, readers, ops, kills>>

UnlockRead(p) ==
    /\ pc[p] = "unread"
    /\ lock' = (lock - 1) % Modulus
    /\ Goto(p, "idle")
    /\ Grant(p, "none")
    /\ UNCHANGED <<readers, ops, kills>>

\* ngx_rwlock_downgrade(): the test, and the plain store that follows it.  On a
\* lock held for reading it does nothing.
Downgrade(p) ==
    /\ pc[p] = "held"
    /\ lock = WLOCK
    /\ Goto(p, "down")
    /\ UNCHANGED <<lock, readers, hold, ops, kills>>

DowngradeStore(p) ==
    /\ pc[p] = "down"
    /\ lock' = 1
    /\ Goto(p, "held")
    /\ Grant(p, "read")
    /\ UNCHANGED <<readers, ops, kills>>

\* A process dies wherever it is; the word keeps what it was granted.
Kill(p) ==
    /\ pc[p] # "dead"
    /\ kills < MaxKills
    /\ kills' = kills + 1
    /\ Goto(p, "dead")
    /\ UNCHANGED <<lock, readers, hold, ops>>

Inside(p) ==
    \/ WriteAttempt(p) \/ ReadLook(p) \/ ReadAttempt(p) \/ Unlock(p)
    \/ UnlockWrite(p) \/ UnlockRead(p) \/ DowngradeStore(p)

Next == \E p \in Procs : Call(p) \/ Inside(p) \/ Downgrade(p) \/ Kill(p)

Spec == Init /\ [][Next]_vars

\* A live process inside a lock call or holding the lock is scheduled again.
FairSpec == Spec /\ \A p \in Procs : WF_vars(Inside(p))

-----------------------------------------------------------------------------
\* Type invariant.
TypeOK ==
    /\ lock \in 0..WLOCK
    /\ pc \in [Procs -> RwPoints]
    /\ readers \in [Procs -> 0..WLOCK]
    /\ hold \in [Procs -> {"none", "read", "write"}]
    /\ ops \in [Procs -> 0..MaxOps]
    /\ kills \in 0..MaxKills

\* A writer excludes readers and other writers, also a writer or reader that
\* died inside (wlock, rlock, unlock, downgrade).
Exclusion ==
    \A p, q \in Procs : hold[p] = "write" /\ hold[q] # "none" => p = q

\* The word always says who is inside: all ones exactly while one process
\* writes, and otherwise the number of readers, although unlock() guesses
\* from the word what it releases and downgrade() stores over it.
WordCounts ==
    lock = IF Writers # {} THEN WLOCK ELSE Cardinality(Readers)

\* A lock that its holder died with blocks writers for ever: the word never
\* becomes 0 again.
OrphanBlocks ==
    [][\A p \in Procs : pc[p] = "dead" /\ hold[p] # "none" => lock' # 0]_vars

\* With finitely many calls everybody gets the lock and gives it back, unless
\* somebody died holding it.
EveryoneServed ==
    <>[]((\E p \in Procs : pc[p] = "dead" /\ hold[p] # "none")
         \/ \A p \in Procs : pc[p] \in {"idle", "dead"})

=============================================================================
