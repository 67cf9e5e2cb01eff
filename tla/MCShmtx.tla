------------------------------ MODULE MCShmtx ------------------------------
\* Small instances of Shmtx for TLC.  The run checks liveness, so no symmetry of the
\* workers is declared.
EXTENDS Shmtx

=============================================================================
