--------------------------- MODULE MCDistributedLock ---------------------------
(* Two JVMs: t1 and t2 share one map, t3 is alone in the other. *)
EXTENDS DistributedLock

CONSTANTS t1, t2, t3, j1, j2

MCThreads == {t1, t2, t3}
MCJvms == {j1, j2}
MCJvmOf == [t \in MCThreads |-> IF t = t3 THEN j2 ELSE j1]
MCChecked == {t2, t3}

\* Two threads of one JVM, both checked.
MCPair == {t1, t2}
MCPairJvmOf == [t \in MCPair |-> j1]
================================================================================
