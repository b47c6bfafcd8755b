--------------------------- MODULE MCReadWriteLock ---------------------------
(* ReadWriteLock with four request threads.                                *)
EXTENDS ReadWriteLock

CONSTANTS t1, t2, t3, t4

MCThreads == {t1, t2, t3, t4}
=============================================================================
