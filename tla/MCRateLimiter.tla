---------------------------- MODULE MCRateLimiter ----------------------------
\* Model checking of RateLimiter: one header key, two users and two routes; user
\* blocked is on the blacklist, and the default limits nothing.
EXTENDS RateLimiter

CONSTANTS users, api, admin, alice, blocked

Rule(paths, quota, duration) ==
  [paths |-> paths, headers |-> <<users>>, quota |-> quota, duration |-> duration]

MCBlacklist == {[key |-> users, value |-> blocked]}
MCDefault == [headers |-> <<>>, quota |-> 5, duration |-> 1]

\* The second rule is never reached: the first one has the shorter prefix.
MCLimits == <<Rule({api}, 2, 2), Rule({api}, 1, 1)>>
===============================================================================
