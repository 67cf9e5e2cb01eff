------------------------------ MODULE MCRwlock ------------------------------
\* Small instances of Rwlock for TLC.  The runs check liveness, so no symmetry
\* of the processes is declared.
EXTENDS Rwlock

=============================================================================
