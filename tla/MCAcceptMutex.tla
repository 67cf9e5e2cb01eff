--------------------------- MODULE MCAcceptMutex ---------------------------
\* Small instances of AcceptMutex for TLC.
EXTENDS AcceptMutex

\* The reuseport sockets belong to one worker each.
CONSTANTS w1, w2, r1
OneReuse == {r1}
OneOwner == [l \in {r1} |-> w1]

\* Accepting all that waits under the mutex, one at a time without it.
MutexOrPlain == {[mutex |-> TRUE, multi |-> TRUE], [mutex |-> FALSE, multi |-> FALSE]}

=============================================================================
