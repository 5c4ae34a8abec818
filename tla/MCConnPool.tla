------------------------------ MODULE MCConnPool ------------------------------
\* Model checking of ConnPool.  The configured MinSize is larger than MaxSize, and
\* there are more holders than connections.
EXTENDS ConnPool
===============================================================================
