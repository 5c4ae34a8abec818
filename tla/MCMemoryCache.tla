---------------------------- MODULE MCMemoryCache ----------------------------
\* Model checking of MemoryCache.  The limit is 130 bytes: it holds two simple
\* values of 64 and not three; a value of 131 is beyond it.
EXTENDS MemoryCache
===============================================================================
