------------------------------- MODULE ConnPool -------------------------------
(***************************************************************************)
(* The gRPC client connection pool, client/pool.go.                        *)
(*                                                                         *)
(* Every method of ConnPool runs under p.mu from its first line to its     *)
(* last, so each is one action.  isHealthy is read under p.mu but the      *)
(* connectivity state belongs to gRPC, which changes it at any time: that  *)
(* is ConnUp and ConnDown.  A method reads the state of each connection    *)
(* once and the states of two connections change independently, so one     *)
(* atomic reading of all of them covers every interleaved reading.         *)
(*                                                                         *)
(* The slice p.conns is a set of connections numbered in the order they    *)
(* were dialled: NewConnPool, Get and the checker append, the checker      *)
(* filters and keeps the order, so the slice is always sorted by number    *)
(* and its first match is the smallest one.                                *)
(*                                                                         *)
(* Left out: TotalRequests, TotalErrors, useCount, created and lastUsed,   *)
(* which the pool writes and never reads.  A Get that returns an error and *)
(* a Put that finds nothing change nothing else: they are stuttering steps.*)
(***************************************************************************)
EXTENDS Integers, FiniteSets

CONSTANTS Holder,      \* callers of GetPooled, each with one wrapper at a time
          CfgMaxSize,  \* ConnPoolConfig.MaxSize
          CfgMinSize,  \* ConnPoolConfig.MinSize
          MaxDials     \* bound: connections dialled in one behaviour

\* NewConnPool replaces a MaxSize that is not positive, then a negative
\* MinSize, then cuts MinSize down to MaxSize.
MaxSize == IF CfgMaxSize <= 0 THEN 10 ELSE CfgMaxSize
MinSizeUncut == IF CfgMinSize < 0 THEN 1 ELSE CfgMinSize

\* Mutant of MinSize: the cut to MaxSize is forgotten.
MinSizeNotCut == MinSizeUncut

MinSize == IF MinSizeUncut > MaxSize THEN MaxSize ELSE MinSizeUncut

ASSUME SizesAssumption == /\ CfgMaxSize \in Int
                          /\ CfgMinSize \in Int
                          /\ MaxDials \in Nat
                          /\ MinSize <= MaxDials

Conn == 1 .. MaxDials
NoConn == 0

\* Ready and Idle are "healthy"; Connecting and TransientFailure are
\* "unhealthy"; a closed ClientConn is in Shutdown.
Live == {"healthy", "unhealthy"}

VARIABLES
  phase,      \* "new" before NewConnPool, "up" or "failed" after it
  dials,      \* connections dialled so far
  conns,      \* p.conns
  inUse,      \* the poolConns whose inUse flag is set, in p.conns or not
  cstate,     \* connectivity state of every ClientConn
  current,    \* p.current
  closed,     \* p.closed
  active,     \* p.stats.ActiveConns
  idle,       \* p.stats.IdleConns
  checker,    \* the healthChecker goroutine: "off", "running" or "exited"
  wrapper,    \* wrapper[h]: "none", "open", or "closing" while Close holds its mu
  lease       \* lease[h]: the ClientConn inside h's wrapper

stats == <<active, idle>>
client == <<wrapper, lease>>
vars == <<phase, dials, conns, inUse, cstate, current, closed, stats, checker, client>>

Healthy(c) == cstate[c] = "healthy"
Available == {c \in conns \ inUse : Healthy(c)}
UpAndOpen == phase = "up" /\ ~closed

-------------------------------------------------------------------------------
Init == /\ phase = "new"
        /\ dials = 0
        /\ conns = {}
        /\ inUse = {}
        /\ cstate = [c \in Conn |-> "none"]
        /\ current = 0
        /\ closed = FALSE
        /\ active = 0
        /\ idle = 0
        /\ checker = "off"
        /\ wrapper = [h \in Holder |-> "none"]
        /\ lease = [h \in Holder |-> NoConn]

\* createConn, n times: DialContext does not wait for the connection unless the
\* caller's options say so, hence a new connection is in either live state.
DialInto(n, f) == /\ dials + n <= MaxDials
                  /\ dials' = dials + n
                  /\ f \in [dials + 1 .. dials + n -> Live]

\* MinSize dials succeed and the checker is started.
NewConnPool ==
  /\ phase = "new"
  /\ \E f \in [1 .. MinSize -> Live] :
       /\ DialInto(MinSize, f)
       /\ cstate' = [c \in Conn |-> IF c \in 1 .. MinSize THEN f[c] ELSE "none"]
  /\ phase' = "up"
  /\ conns' = 1 .. MinSize
  /\ current' = MinSize
  /\ checker' = "running"
  /\ UNCHANGED <<inUse, closed, stats, client>>

\* A dial fails after n others: the new pool is closed and not returned.
NewConnPoolFails ==
  /\ phase = "new"
  /\ \E n \in 0 .. MinSize - 1 :
       /\ dials' = n
       /\ cstate' = [c \in Conn |-> IF c \in 1 .. n THEN "shutdown" ELSE "none"]
  /\ phase' = "failed"
  /\ closed' = TRUE
  /\ UNCHANGED <<conns, inUse, current, stats, checker, client>>

\* Mutant of HandOut: GetPooled wraps what Get returned without looking at the error.
HandOutNil(h, c) == /\ wrapper' = [wrapper EXCEPT ![h] = "open"]
                    /\ lease' = [lease EXCEPT ![h] = NoConn]
                    /\ inUse' = inUse \cup {c}
                    /\ active' = active + 1

HandOut(h, c) == /\ wrapper' = [wrapper EXCEPT ![h] = "open"]
                 /\ lease' = [lease EXCEPT ![h] = c]
                 /\ inUse' = inUse \cup {c}
                 /\ active' = active + 1

\* Mutant of GetIdle: the connection handed out is not marked as in use.
GetIdleUnmarked(h) ==
  /\ UpAndOpen
  /\ wrapper[h] = "none"
  /\ \E c \in Available : /\ \A d \in Available : c <= d
                          /\ wrapper' = [wrapper EXCEPT ![h] = "open"]
                          /\ lease' = [lease EXCEPT ![h] = c]
  /\ active' = active + 1
  /\ idle' = idle - 1
  /\ UNCHANGED <<phase, dials, conns, inUse, cstate, current, closed, checker>>

\* Get and GetPooled: the first connection that is healthy and not in use.
GetIdle(h) ==
  /\ UpAndOpen
  /\ wrapper[h] = "none"
  /\ \E c \in Available : /\ \A d \in Available : c <= d
                          /\ HandOut(h, c)
  /\ idle' = idle - 1
  /\ UNCHANGED <<phase, dials, conns, cstate, current, closed, checker>>

BelowMax == current < MaxSize

\* Get and GetPooled: none is available and the limit allows one more.
GetDialled(h) ==
  /\ UpAndOpen
  /\ wrapper[h] = "none"
  /\ Available = {}
  /\ BelowMax
  /\ \E f \in [dials + 1 .. dials + 1 -> Live] :
       /\ DialInto(1, f)
       /\ cstate' = [cstate EXCEPT ![dials + 1] = f[dials + 1]]
  /\ HandOut(h, dials + 1)
  /\ conns' = conns \cup {dials + 1}
  /\ current' = current + 1
  /\ UNCHANGED <<phase, closed, idle, checker>>

-------------------------------------------------------------------------------
\* Put: nothing happens on a closed pool, to a connection that is no longer
\* in p.conns, and to one that is not marked as in use.
Put(c) ==
  IF ~closed /\ c \in conns \cap inUse
    THEN /\ inUse' = inUse \ {c}
         /\ active' = active - 1
         /\ idle' = idle + 1
    ELSE UNCHANGED <<inUse, stats>>

\* Mutant of MayClose: Close does not hold the wrapper's mu, so a second call
\* passes the closed test before the first has set it.
MayCloseUnlocked(h) == wrapper[h] \in {"open", "closing"}

\* PooledClientConn.Close enters with the wrapper's mu free and closed unset.
\* Any other call on the same wrapper waits for mu, then finds closed set.
MayClose(h) == wrapper[h] = "open"

PooledClosePut(h) ==
  /\ MayClose(h)
  /\ Put(lease[h])
  /\ wrapper' = [wrapper EXCEPT ![h] = "closing"]
  /\ UNCHANGED <<phase, dials, conns, cstate, current, closed, checker, lease>>

\* PooledClientConn.Close sets closed and unlocks; h may ask for another one.
PooledCloseDone(h) ==
  /\ wrapper[h] = "closing"
  /\ wrapper' = [wrapper EXCEPT ![h] = "none"]
  /\ lease' = [lease EXCEPT ![h] = NoConn]
  /\ UNCHANGED <<phase, dials, conns, inUse, cstate, current, closed, stats, checker>>

ShutDown(S) == [c \in Conn |-> IF c \in S THEN "shutdown" ELSE cstate[c]]

\* Close: the connections in p.conns only, and the statistics stay as they are.
Close ==
  /\ UpAndOpen
  /\ closed' = TRUE
  /\ cstate' = ShutDown(conns)
  /\ conns' = {}
  /\ current' = 0
  /\ UNCHANGED <<phase, dials, inUse, stats, checker, client>>

-------------------------------------------------------------------------------
\* Mutant of Unfit: only connections in use are looked at.
UnfitInUse == {c \in conns \cap inUse : ~Healthy(c)}

\* One tick of healthChecker.  An unhealthy connection leaves p.conns; it is
\* closed, and counted out, only when it is not in use.
Unfit == {c \in conns : ~Healthy(c)}

\* Mutant of Reaped: the inUse test is dropped.
ReapedAll == Unfit

Reaped == Unfit \ inUse

CurrentAfterReap == current - Cardinality(Reaped)
Shortfall == IF CurrentAfterReap < MinSize THEN MinSize - CurrentAfterReap ELSE 0

\* Mutant of IdleAfterReap: closing idle connections is not counted.
IdleAfterReapUncounted == idle

IdleAfterReap == idle - Cardinality(Reaped)

\* The refill stops at MinSize or at the first dial that fails.
HealthCheck ==
  /\ checker = "running"
  /\ ~closed
  /\ \E n \in 0 .. Shortfall : \E f \in [dials + 1 .. dials + n -> Live] :
       /\ DialInto(n, f)
       /\ cstate' = [c \in Conn |-> IF c \in Reaped THEN "shutdown"
                                    ELSE IF c \in DOMAIN f THEN f[c]
                                    ELSE cstate[c]]
       /\ conns' = (conns \ Unfit) \cup DOMAIN f
       /\ current' = CurrentAfterReap + n
       /\ idle' = IdleAfterReap + n
  /\ UNCHANGED <<phase, inUse, closed, active, checker, client>>

\* The first tick after Close ends the goroutine.
CheckerExit ==
  /\ checker = "running"
  /\ closed
  /\ checker' = "exited"
  /\ UNCHANGED <<phase, dials, conns, inUse, cstate, current, closed, stats, client>>

\* gRPC: a connection is established or goes idle, or is lost.
ConnUp(c) == /\ cstate[c] = "unhealthy"
             /\ cstate' = [cstate EXCEPT ![c] = "healthy"]
             /\ UNCHANGED <<phase, dials, conns, inUse, current, closed, stats, checker, client>>

ConnDown(c) == /\ cstate[c] = "healthy"
               /\ cstate' = [cstate EXCEPT ![c] = "unhealthy"]
               /\ UNCHANGED <<phase, dials, conns, inUse, current, closed, stats, checker, client>>

Next == \/ NewConnPool
        \/ NewConnPoolFails
        \/ \E h \in Holder : \/ GetIdle(h)
                             \/ GetDialled(h)
                             \/ PooledClosePut(h)
                             \/ PooledCloseDone(h)
        \/ Close
        \/ HealthCheck
        \/ CheckerExit
        \/ \E c \in Conn : ConnUp(c) \/ ConnDown(c)

Spec == Init /\ [][Next]_vars

\* The ticker keeps firing and p.mu is released by every method, so the
\* checker's next tick always comes.  Nothing makes a client close its wrapper.
FairSpec == /\ Spec
            /\ WF_vars(HealthCheck)
            /\ WF_vars(CheckerExit)

-------------------------------------------------------------------------------
\* Every variable holds a value of its Go type, and a wrapper is never around a
\* nil connection (pool.go:19-50, 273-303).
TypeOK == /\ phase \in {"new", "up", "failed"}
          /\ dials \in 0 .. MaxDials
          /\ conns \subseteq Conn
          /\ inUse \subseteq Conn
          /\ cstate \in [Conn -> Live \cup {"none", "shutdown"}]
          /\ current \in Int
          /\ closed \in BOOLEAN
          /\ active \in Int
          /\ idle \in Int
          /\ checker \in {"off", "running", "exited"}
          /\ wrapper \in [Holder -> {"none", "open", "closing"}]
          /\ lease \in [Holder -> Conn \cup {NoConn}]
          /\ \A h \in Holder : wrapper[h] # "none" => lease[h] # NoConn

Holds(h, c) == wrapper[h] = "open" /\ lease[h] = c

\* No two wrappers that are still open share a connection, whatever mix of
\* Get, concurrent Close of a wrapper, health check and Close of the pool
\* came before (pool.go:114-121 with 157-168 and 282-291).
ExclusiveLease ==
  \A h1, h2 \in Holder, c \in Conn : Holds(h1, c) /\ Holds(h2, c) => h1 = h2

\* Connections dropped from p.conns by the checker while they were in use:
\* they stay in p.current for ever.
Orphans == inUse \ conns
OpenConns == {c \in Conn : cstate[c] \in Live}

\* While the pool is open, p.current is the number of ClientConns that are
\* really open, including those the checker dropped; so the limit tested by
\* Get bounds the open connections of the process (pool.go:126, 138, 247).
CurrentAccounting ==
  UpAndOpen => /\ current = Cardinality(OpenConns)
               /\ current <= MaxSize
               /\ OpenConns = conns \cup Orphans

\* The statistics are the real counts up to one constant: the MinSize
\* connections of NewConnPool are never added to IdleConns, so IdleConns is
\* MinSize below the truth (negative at the first Get) in every state; ActiveConns keeps
\* counting a connection dropped while in use after it was put back
\* (pool.go:85-94, 119-120, 163-164, 247-252, 266).
StatsBalance ==
  UpAndOpen => /\ idle = Cardinality(conns \ inUse) - MinSize
               /\ active = Cardinality(inUse)

\* Only Close of the pool closes a connection that a wrapper still holds: the
\* health check never does, however long the connection has been unhealthy.
LeasedNotClosed ==
  [][\A h \in Holder, c \in Conn :
        Holds(h, c) /\ cstate[c] \in Live /\ cstate'[c] = "shutdown" => closed']_vars

\* A connection that is unhealthy and not in use is closed, recovers, is handed
\* out or the pool is closed: it does not stay in p.conns (pool.go:238-256).
UnhealthyIdleReaped ==
  \A c \in Conn : (c \in conns \ inUse /\ ~Healthy(c)) ~>
                    (closed \/ c \notin conns \/ c \in inUse \/ Healthy(c))

-------------------------------------------------------------------------------
\* What the pool promises: module LeasePool, with a wrapper's Put as the moment
\* its connection is returned.
LP == INSTANCE LeasePool WITH
        Client <- Holder, Resource <- Conn, Nothing <- NoConn, Capacity <- MaxSize,
        status <- IF phase = "new" THEN "new" ELSE IF UpAndOpen THEN "open" ELSE "closed",
        lent <- [h \in Holder |-> IF wrapper[h] = "open" THEN lease[h] ELSE NoConn],
        retired <- {c \in Conn : cstate[c] = "shutdown"}

\* The pool implements what it promises (the whole of pool.go).
ImplementsLeasePool == LP!Spec

-------------------------------------------------------------------------------
\* A claim of a comment that the code does not keep.

\* pool.go:125 says that a connection is created when none is available and
\* the limit is not reached.  Once everything has been put back, a Get must
\* therefore be able to succeed; p.current says the limit is reached although
\* p.conns is empty.
NeverStarved ==
  (UpAndOpen /\ \A h \in Holder : wrapper[h] = "none")
    => (conns # {} \/ current < MaxSize)
===============================================================================
