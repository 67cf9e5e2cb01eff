---------------------------- MODULE RwlockProofs ----------------------------
(***************************************************************************)
(* Proofs about the read-write lock for any number of processes smaller    *)
(* than the largest value of the word.  The invariant is inductive         *)
(* together with PointInv, which says what a process holds at each point   *)
(* of the code: unlock() looks at the word in one step and acts on it in   *)
(* another, and what it saw must still be what it holds.                   *)
(***************************************************************************)
EXTENDS Rwlock, FiniteSetTheorems, TLAPS

PointInv ==
    \A p \in Procs :
        /\ pc[p] \in {"idle", "wlock", "rlock", "rcas"} => hold[p] = "none"
        /\ pc[p] = "held" => hold[p] # "none"
        /\ pc[p] \in {"unwrite", "down"} => hold[p] = "write"
        /\ pc[p] = "unread" => hold[p] = "read"
        /\ pc[p] = "rcas" => readers[p] # WLOCK

RwInv == TypeOK /\ PointInv /\ Exclusion /\ WordCounts

\* The word can hold every count of readers, and WLOCK is none of them.
LEMMA WordFacts ==
    /\ WLOCK \in Nat /\ WLOCK > 0 /\ Modulus = WLOCK + 1
    /\ Cardinality(Procs) \in Nat /\ Cardinality(Procs) < WLOCK
<1>1. Cardinality(Procs) \in Nat
  BY RwProcsAssumption, FS_CardinalityType
<1>2. QED
  BY <1>1, RwProcsAssumption DEF WLOCK

\* A value of the word is its own remainder.
LEMMA SmallMod == ASSUME NEW n \in 0..WLOCK PROVE n % Modulus = n
<1>1. Modulus \in Nat /\ n < Modulus /\ n >= 0
  BY WordFacts
<1> HIDE DEF Modulus, WLOCK
<1>2. QED
  BY <1>1

\* The readers are finitely many, and at most the processes.
LEMMA ReadersFacts ==
    /\ IsFiniteSet(Readers)
    /\ Cardinality(Readers) \in 0..(WLOCK - 1)
    /\ Cardinality(Readers) = 0 <=> Readers = {}
<1>1. Readers \in SUBSET Procs
  BY DEF Readers
<1>2. IsFiniteSet(Readers) /\ Cardinality(Readers) <= Cardinality(Procs)
  BY <1>1, RwProcsAssumption, FS_Subset
<1>3. Cardinality(Readers) \in Nat /\ (Cardinality(Readers) = 0 <=> Readers = {})
  BY <1>2, FS_CardinalityType, FS_EmptySet
<1> HIDE DEF WLOCK, Readers
<1>4. QED
  BY <1>2, <1>3, WordFacts

\* A process that is granted, or gives back, a reader's place.
LEMMA ReadersGrow ==
    ASSUME NEW p \in Procs, hold \in [Procs -> {"none", "read", "write"}],
           hold[p] # "read", Grant(p, "read")
    PROVE  Cardinality(Readers') = Cardinality(Readers) + 1
<1>1. Readers' = Readers \cup {p} /\ p \notin Readers
  BY DEF Grant, Readers
<1>2. QED
  BY <1>1, ReadersFacts, FS_AddElement

LEMMA ReadersShrink ==
    ASSUME NEW p \in Procs, hold \in [Procs -> {"none", "read", "write"}],
           hold[p] = "read", Grant(p, "none")
    PROVE  Cardinality(Readers') = Cardinality(Readers) - 1
<1>1. Readers' = Readers \ {p} /\ p \in Readers
  BY DEF Grant, Readers
<1>2. QED
  BY <1>1, ReadersFacts, FS_RemoveElement

-----------------------------------------------------------------------------
LEMMA RwInit == Init => RwInv
<1> SUFFICES ASSUME Init PROVE RwInv
  OBVIOUS
<1>1. Readers = {} /\ Writers = {}
  BY DEF Init, Readers, Writers
<1>2. WordCounts
  BY <1>1, FS_EmptySet DEF Init, WordCounts
<1> HIDE DEF WLOCK
<1>3. QED
  BY <1>2, WordFacts, RwBoundsAssumption
     DEF Init, RwInv, TypeOK, PointInv, Exclusion, RwPoints

LEMMA RwStep == RwInv /\ [Next]_vars => RwInv'
<1> SUFFICES ASSUME RwInv, [Next]_vars PROVE RwInv'
  OBVIOUS
<1> USE WordFacts, RwBoundsAssumption
    DEF RwInv, TypeOK, PointInv, Exclusion, RwPoints, Goto, Grant
<1> HIDE DEF WLOCK, Modulus
<1>1. ASSUME NEW p \in Procs, Call(p) PROVE RwInv'
  BY <1>1 DEF Call, WordCounts, Readers, Writers
<1>2. ASSUME NEW p \in Procs, WriteAttempt(p) PROVE RwInv'
  <2>1. Readers = {} /\ Writers = {}
    BY <1>2, ReadersFacts DEF WriteAttempt, WordCounts
  <2>2. WordCounts'
    BY <1>2 DEF WriteAttempt, WordCounts, Writers
  <2>3. QED
    BY <1>2, <2>1, <2>2 DEF WriteAttempt, Readers, Writers
<1>3. ASSUME NEW p \in Procs, ReadLook(p) PROVE RwInv'
  BY <1>3 DEF ReadLook, WordCounts, Readers, Writers
<1>4. ASSUME NEW p \in Procs, ReadAttempt(p) PROVE RwInv'
  <2>1. CASE lock # readers[p]
    BY <1>4, <2>1 DEF ReadAttempt, WordCounts, Readers, Writers
  <2>2. CASE lock = readers[p]
    <3>1. Writers = {} /\ lock = Cardinality(Readers)
      BY <1>4, <2>2 DEF ReadAttempt, WordCounts
    <3>2. lock' = lock + 1 /\ lock' \in 0..WLOCK
      BY <1>4, <2>2, <3>1, ReadersFacts, SmallMod DEF ReadAttempt
    <3>3. Writers' = {}
      BY <1>4, <2>2, <3>1 DEF ReadAttempt, Writers
    <3>4. Cardinality(Readers') = Cardinality(Readers) + 1
      BY <1>4, <2>2, ReadersGrow DEF ReadAttempt
    <3>5. WordCounts'
      BY <3>1, <3>2, <3>3, <3>4 DEF WordCounts
    <3>6. QED
      BY <1>4, <2>2, <3>1, <3>2, <3>5 DEF ReadAttempt, Writers
  <2>3. QED
    BY <2>1, <2>2
<1>5. ASSUME NEW p \in Procs, Unlock(p) PROVE RwInv'
  <2>1. hold[p] = "write" <=> lock = WLOCK
    BY <1>5, ReadersFacts DEF Unlock, WordCounts, Writers
  <2>2. QED
    BY <1>5, <2>1 DEF Unlock, WordCounts, Readers, Writers
<1>6. ASSUME NEW p \in Procs, UnlockWrite(p) PROVE RwInv'
  <2>1. lock = WLOCK
    BY <1>6 DEF UnlockWrite, WordCounts, Writers
  <2>2. Writers' = {} /\ Readers' = {}
    BY <1>6 DEF UnlockWrite, Writers, Readers
  <2>3. WordCounts'
    BY <1>6, <2>1, <2>2, FS_EmptySet DEF UnlockWrite, WordCounts
  <2>4. QED
    BY <1>6, <2>1, <2>3 DEF UnlockWrite
<1>7. ASSUME NEW p \in Procs, UnlockRead(p) PROVE RwInv'
  <2>1. Writers = {} /\ lock = Cardinality(Readers) /\ p \in Readers
    BY <1>7 DEF UnlockRead, WordCounts, Writers, Readers
  <2>2. lock' = lock - 1 /\ lock' \in 0..WLOCK
    BY <1>7, <2>1, ReadersFacts, SmallMod DEF UnlockRead
  <2>3. Writers' = {}
    BY <1>7, <2>1 DEF UnlockRead, Writers
  <2>4. Cardinality(Readers') = Cardinality(Readers) - 1
    BY <1>7, ReadersShrink DEF UnlockRead
  <2>5. WordCounts'
    BY <2>1, <2>2, <2>3, <2>4 DEF WordCounts
  <2>6. QED
    BY <1>7, <2>2, <2>5 DEF UnlockRead
<1>8. ASSUME NEW p \in Procs, Downgrade(p) PROVE RwInv'
  <2>1. hold[p] = "write"
    BY <1>8, ReadersFacts DEF Downgrade, WordCounts, Writers
  <2>2. QED
    BY <1>8, <2>1 DEF Downgrade, WordCounts, Readers, Writers
<1>9. ASSUME NEW p \in Procs, DowngradeStore(p) PROVE RwInv'
  <2>1. Readers = {} /\ Writers' = {}
    BY <1>9 DEF DowngradeStore, Readers, Writers
  <2>2. Cardinality(Readers') = 1
    <3>1. Cardinality(Readers') = Cardinality(Readers) + 1
      BY <1>9, ReadersGrow DEF DowngradeStore
    <3>2. QED
      BY <2>1, <3>1, ReadersFacts
  <2>3. WordCounts'
    BY <1>9, <2>1, <2>2 DEF DowngradeStore, WordCounts
  <2>4. QED
    BY <1>9, <2>3 DEF DowngradeStore
<1>10. ASSUME NEW p \in Procs, Kill(p) PROVE RwInv'
  BY <1>10 DEF Kill, WordCounts, Readers, Writers
<1>11. CASE UNCHANGED vars
  BY <1>11 DEF vars, WordCounts, Readers, Writers
<1>12. QED
  BY <1>1, <1>2, <1>3, <1>4, <1>5, <1>6, <1>7, <1>8, <1>9, <1>10, <1>11
     DEF Next, Inside

\* Every variable keeps its type: the word stays within its width.
THEOREM RwTypeCorrect == Spec => []TypeOK
<1>1. RwInv => TypeOK
  BY DEF RwInv
<1>2. QED
  BY <1>1, RwInit, RwStep, PTL DEF Spec

\* A lock whose holder died is never free again.
THEOREM RwOrphanBlocks == Spec => OrphanBlocks
<1>1. RwInv /\ RwInv' /\ [Next]_vars
        => [\A p \in Procs : pc[p] = "dead" /\ hold[p] # "none" => lock' # 0]_vars
  <2> SUFFICES ASSUME RwInv, RwInv', [Next]_vars,
                      NEW p \in Procs, pc[p] = "dead", hold[p] # "none"
               PROVE  lock' # 0
    OBVIOUS
  <2>1. hold'[p] = hold[p] /\ hold' \in [Procs -> {"none", "read", "write"}]
    BY DEF RwInv, TypeOK, Next, Inside, Call, WriteAttempt, ReadLook,
           ReadAttempt, Unlock, UnlockWrite, UnlockRead, Downgrade,
           DowngradeStore, Kill, Grant, vars
  <2>2. Writers' # {} \/ Readers' # {}
    BY <2>1 DEF Writers, Readers
  <2>3. lock' = IF Writers' # {} THEN WLOCK ELSE Cardinality(Readers')
    BY DEF RwInv, WordCounts
  <2>4. Cardinality(Readers') = 0 <=> Readers' = {}
    <3>1. Readers' \in SUBSET Procs
      BY DEF Readers
    <3>2. IsFiniteSet(Readers')
      BY <3>1, RwProcsAssumption, FS_Subset
    <3>3. QED
      BY <3>2, FS_EmptySet
  <2> HIDE DEF WLOCK
  <2>5. QED
    BY <2>2, <2>3, <2>4, WordFacts
<1>2. QED
  BY <1>1, RwInit, RwStep, PTL DEF Spec, OrphanBlocks

\* A writer is alone, and the word says who is inside, for any number of
\* processes that fits the word (ngx_rwlock_wlock, _rlock, _unlock,
\* _downgrade).
THEOREM RwExclusion == Spec => []Exclusion
<1>1. RwInv => Exclusion
  BY DEF RwInv
<1>2. QED
  BY <1>1, RwInit, RwStep, PTL DEF Spec

\* The word is all ones exactly while a process writes and otherwise counts
\* the readers; it never wraps, although unlock() decrements what it finds.
THEOREM RwWordCounts == Spec => []WordCounts
<1>1. RwInv => WordCounts
  BY DEF RwInv
<1>2. QED
  BY <1>1, RwInit, RwStep, PTL DEF Spec

=============================================================================
