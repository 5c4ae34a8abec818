----------------------------- MODULE MCHttpClient -----------------------------
\* Model checking of HttpClient.  A second has 15 units and a duration 12 bits:
\* as in Go, with 10^9 units and 64 bits, nine seconds times time.Second is still
\* a positive duration and ten seconds times time.Second is not.
EXTENDS HttpClient

MCShort == {1 * Second, 9 * Second}
MCDefaultTimeout == {10 * Second}
===============================================================================
