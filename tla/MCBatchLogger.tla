---------------------------- MODULE MCBatchLogger ----------------------------
\* Model checking of BatchLogger.  In the first configuration a producer flushes
\* at the second entry; in the other the buffer is smaller than the threshold, so
\* that only the ticker, Flush and Close empty it and entries are refused.
EXTENDS BatchLogger

MCConfigs == {[flush |-> 2, buffer |-> 3], [flush |-> 4, buffer |-> 2]}
==============================================================================
