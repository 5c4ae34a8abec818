-------------------------- MODULE MCServerLifecycle --------------------------
\* Model checking of ServerLifecycle: one service beside the health service, a
\* stream or a call, an HTTP request.  Two calls of Close at once without a
\* discovery, of which one has a context that ends, and one with it, with a context
\* that does not.
EXTENDS ServerLifecycle

CONSTANTS graceful, stop

MCCloser == {graceful, stop}

MCSetups == {[discover |-> FALSE, closers |-> MCCloser, limited |-> {graceful}],
             [discover |-> TRUE, closers |-> {graceful}, limited |-> {}]}
===============================================================================
