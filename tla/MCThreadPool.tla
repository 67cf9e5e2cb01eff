---------------------------- MODULE MCThreadPool ----------------------------
\* Small instances of ThreadPool for TLC.  The runs check liveness, so no symmetry
\* of the threads and tasks is declared.
EXTENDS ThreadPool

=============================================================================
