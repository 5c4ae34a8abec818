---------------------------- MODULE ConnPoolProofs ----------------------------
(***************************************************************************)
(* Proofs about ConnPool, for every set of holders, every configuration    *)
(* and every bound on the number of connections dialled.                   *)
(***************************************************************************)
EXTENDS ConnPool, FiniteSetTheorems, TLAPS

\* Before NewConnPool there is nothing.
Unopened == phase = "new" => /\ dials = 0
                             /\ conns = {}
                             /\ inUse = {}
                             /\ current = 0
                             /\ ~closed
                             /\ checker = "off"
                             /\ active = 0
                             /\ idle = 0

\* Every numbered connection was dialled, so the next dial yields a new one.
Numbered == /\ conns \subseteq 1 .. dials
            /\ inUse \subseteq 1 .. dials

\* The connection in an open wrapper still has its inUse flag set.
LeasedInUse == \A h \in Holder : wrapper[h] = "open" => lease[h] \in inUse

\* The inductive invariant behind ExclusiveLease and LeasedNotClosed: Get picks
\* a connection that is not in use, so nobody holds it; Put clears the flag of a
\* connection only together with the wrapper that held it.
IInv == TypeOK /\ Unopened /\ Numbered /\ LeasedInUse /\ ExclusiveLease

\* NewConnPool makes MaxSize positive (pool.go:63-65).
LEMMA MaxSizeType == MaxSize \in Nat \ {0}
  BY SizesAssumption DEF SizesAssumption, MaxSize

\* NewConnPool makes MinSize a number from 0 to MaxSize (pool.go:66-71).
LEMMA MinSizeType == MinSize \in Nat /\ MinSize <= MaxSize
  BY SizesAssumption, MaxSizeType DEF SizesAssumption, MinSize, MinSizeUncut

\* The numbers of connections: any set of them is finite.
LEMMA ConnFinite ==
  ASSUME NEW S, S \subseteq Conn
  PROVE  IsFiniteSet(S) /\ Cardinality(S) \in Nat
  <1>1. IsFiniteSet(Conn)
    BY FS_Interval, SizesAssumption DEF SizesAssumption, Conn
  <1>2. QED
    BY <1>1, FS_Subset, FS_CardinalityType

\* Before NewConnPool the invariant holds.
LEMMA InitIInv == Init => IInv
  <1> SUFFICES ASSUME Init PROVE IInv
    OBVIOUS
  <1> USE DEF Init
  <1>1. TypeOK
    <2>1. dials \in 0 .. MaxDials
      BY SizesAssumption DEF SizesAssumption
    <2>2. /\ cstate \in [Conn -> Live \cup {"none", "shutdown"}]
          /\ wrapper \in [Holder -> {"none", "open", "closing"}]
          /\ lease \in [Holder -> Conn \cup {NoConn}]
          /\ \A h \in Holder : wrapper[h] = "none"
      OBVIOUS
    <2>3. /\ phase \in {"new", "up", "failed"} /\ checker \in {"off", "running", "exited"}
          /\ conns \subseteq Conn /\ inUse \subseteq Conn
          /\ current \in Int /\ active \in Int /\ idle \in Int
      OBVIOUS
    <2>4. closed \in BOOLEAN
      BY Zenon
    <2>5. QED
      BY <2>1, <2>2, <2>3, <2>4, Zenon DEF TypeOK
  <1>2. Unopened /\ Numbered /\ LeasedInUse /\ ExclusiveLease
    BY DEF Unopened, Numbered, LeasedInUse, ExclusiveLease, Holds
  <1>3. QED
    BY <1>1, <1>2 DEF IInv

-------------------------------------------------------------------------------
\* What the pieces of the actions yield, so that the steps below need no
\* definition of theirs.

\* Dialling n connections, in the state of a typed pool.
LEMMA DialIntoEffect ==
  ASSUME TypeOK, NEW n \in Nat, NEW f, DialInto(n, f)
  PROVE  /\ dials' = dials + n
         /\ dials' \in 0 .. MaxDials
         /\ DOMAIN f = dials + 1 .. dials + n
         /\ DOMAIN f \subseteq 1 .. dials'
         /\ DOMAIN f \subseteq Conn
         /\ \A c \in DOMAIN f : f[c] \in Live
  BY SizesAssumption DEF TypeOK, DialInto, SizesAssumption, Conn

\* Handing a connection out keeps the wrappers well typed.
LEMMA HandOutEffect ==
  ASSUME TypeOK, NEW h \in Holder, NEW c \in Conn, HandOut(h, c)
  PROVE  /\ wrapper' \in [Holder -> {"none", "open", "closing"}]
         /\ lease' \in [Holder -> Conn \cup {NoConn}]
         /\ \A g \in Holder : wrapper'[g] # "none" => lease'[g] # NoConn
         /\ inUse' \subseteq Conn
         /\ active' \in Int
  <1>1. c # NoConn
    BY DEF Conn, NoConn
  <1>2. QED
    BY <1>1 DEF TypeOK, HandOut

\* The arithmetic of a health check.
LEMMA CheckArithmetic ==
  ASSUME TypeOK
  PROVE  /\ Reaped \subseteq conns \ inUse
         /\ Cardinality(Reaped) \in Nat
         /\ CurrentAfterReap = current - Cardinality(Reaped)
         /\ CurrentAfterReap \in Int
         /\ IdleAfterReap \in Int
         /\ Shortfall \in Nat
         /\ Shortfall > 0 => CurrentAfterReap + Shortfall = MinSize
  <1>1. Reaped \subseteq conns \ inUse /\ Reaped \subseteq Conn
    BY DEF Reaped, Unfit, TypeOK
  <1>2. Cardinality(Reaped) \in Nat
    BY <1>1, ConnFinite
  <1>3. QED
    BY <1>1, <1>2, MinSizeType
    DEF CurrentAfterReap, IdleAfterReap, Shortfall, TypeOK

\* A health check closes Reaped, adds n new connections, and leaves the other
\* connections as they are.
LEMMA HealthCheckEffect ==
  ASSUME TypeOK, HealthCheck
  PROVE  /\ cstate' \in [Conn -> Live \cup {"none", "shutdown"}]
         /\ dials' \in dials .. MaxDials
         /\ dials + 1 .. dials' \subseteq Conn
         /\ conns' = (conns \ Unfit) \cup (dials + 1 .. dials')
         /\ dials' - dials <= Shortfall
         /\ current' = CurrentAfterReap + (dials' - dials)
         /\ idle' = IdleAfterReap + (dials' - dials)
         /\ current' \in Int /\ idle' \in Int
         /\ \A c \in Conn : IF c \in Reaped THEN cstate'[c] = "shutdown"
                            ELSE IF c \in dials + 1 .. dials' THEN cstate'[c] \in Live
                            ELSE cstate'[c] = cstate[c]
  <1>1. PICK n \in 0 .. Shortfall : \E f \in [dials + 1 .. dials + n -> Live] :
          /\ DialInto(n, f)
          /\ cstate' = [c \in Conn |-> IF c \in Reaped THEN "shutdown"
                                       ELSE IF c \in DOMAIN f THEN f[c]
                                       ELSE cstate[c]]
          /\ conns' = (conns \ Unfit) \cup DOMAIN f
          /\ current' = CurrentAfterReap + n
          /\ idle' = IdleAfterReap + n
    BY DEF HealthCheck
  <1>2. PICK f \in [dials + 1 .. dials + n -> Live] :
          /\ DialInto(n, f)
          /\ cstate' = [c \in Conn |-> IF c \in Reaped THEN "shutdown"
                                       ELSE IF c \in DOMAIN f THEN f[c]
                                       ELSE cstate[c]]
          /\ conns' = (conns \ Unfit) \cup DOMAIN f
          /\ current' = CurrentAfterReap + n
          /\ idle' = IdleAfterReap + n
    BY <1>1
  <1>3. n \in Nat /\ n <= Shortfall
    BY CheckArithmetic
  <1>4. /\ dials' = dials + n
        /\ dials' \in 0 .. MaxDials
        /\ DOMAIN f = dials + 1 .. dials + n
        /\ DOMAIN f \subseteq Conn
        /\ \A c \in DOMAIN f : f[c] \in Live
    BY <1>2, <1>3, DialIntoEffect
  <1>5. dials \in Nat /\ dials' - dials = n
    BY <1>3, <1>4 DEF TypeOK
  <1>6. cstate' \in [Conn -> Live \cup {"none", "shutdown"}]
    BY <1>2, <1>4 DEF TypeOK
  <1>7. current' \in Int /\ idle' \in Int
    BY <1>2, <1>3, CheckArithmetic
  <1>8. QED
    BY <1>2, <1>3, <1>4, <1>5, <1>6, <1>7

\* Every method keeps every field within its type.
LEMMA NextTypeOK == TypeOK /\ [Next]_vars => TypeOK'
  <1> SUFFICES ASSUME TypeOK, [Next]_vars
               PROVE  TypeOK'
    OBVIOUS
  <1> USE DEF TypeOK, stats, client
  <1>1. CASE NewConnPool
    <2>1. PICK f \in [1 .. MinSize -> Live] :
            /\ DialInto(MinSize, f)
            /\ cstate' = [c \in Conn |-> IF c \in 1 .. MinSize THEN f[c] ELSE "none"]
      BY <1>1 DEF NewConnPool
    <2>2. dials' \in 0 .. MaxDials
      BY <2>1, DialIntoEffect, MinSizeType
    <2>3. cstate' \in [Conn -> Live \cup {"none", "shutdown"}]
      BY <2>1
    <2>4. conns' \subseteq Conn /\ current' \in Int
      BY <1>1, MinSizeType, SizesAssumption DEF NewConnPool, Conn, SizesAssumption
    <2>5. QED
      BY <1>1, <2>2, <2>3, <2>4 DEF NewConnPool
  <1>2. CASE NewConnPoolFails
    <2>1. PICK n \in 0 .. MinSize - 1 :
            /\ dials' = n
            /\ cstate' = [c \in Conn |-> IF c \in 1 .. n THEN "shutdown" ELSE "none"]
      BY <1>2 DEF NewConnPoolFails
    <2>2. dials' \in 0 .. MaxDials
      BY <2>1, MinSizeType, SizesAssumption DEF SizesAssumption
    <2>3. cstate' \in [Conn -> Live \cup {"none", "shutdown"}]
      BY <2>1
    <2>4. QED
      BY <1>2, <2>2, <2>3 DEF NewConnPoolFails
  <1>3. ASSUME NEW h \in Holder, GetIdle(h)
        PROVE  TypeOK'
    <2>1. PICK c \in Available : HandOut(h, c)
      BY <1>3 DEF GetIdle
    <2>2. c \in Conn
      BY DEF Available
    <2>3. QED
      BY <1>3, <2>1, <2>2, HandOutEffect DEF GetIdle
  <1>4. ASSUME NEW h \in Holder, GetDialled(h)
        PROVE  TypeOK'
    <2>1. PICK f \in [dials + 1 .. dials + 1 -> Live] :
            /\ DialInto(1, f)
            /\ cstate' = [cstate EXCEPT ![dials + 1] = f[dials + 1]]
      BY <1>4 DEF GetDialled
    <2>2. dials' \in 0 .. MaxDials /\ dials + 1 \in Conn /\ f[dials + 1] \in Live
      BY <2>1, SizesAssumption DEF DialInto, Conn, SizesAssumption
    <2>3. cstate' \in [Conn -> Live \cup {"none", "shutdown"}]
      BY <2>1, <2>2
    <2>4. HandOut(h, dials + 1) /\ conns' \subseteq Conn
      BY <1>4, <2>2 DEF GetDialled
    <2>5. QED
      BY <1>4, <2>2, <2>3, <2>4, HandOutEffect DEF GetDialled
  <1>5. ASSUME NEW h \in Holder, PooledClosePut(h)
        PROVE  TypeOK'
    <2>1. inUse' \subseteq Conn /\ active' \in Int /\ idle' \in Int
      BY <1>5 DEF PooledClosePut, Put
    <2>2. /\ wrapper' \in [Holder -> {"none", "open", "closing"}]
          /\ \A g \in Holder : wrapper'[g] # "none" => lease'[g] # NoConn
      BY <1>5 DEF PooledClosePut, MayClose
    <2>3. QED
      BY <1>5, <2>1, <2>2 DEF PooledClosePut
  <1>6. ASSUME NEW h \in Holder, PooledCloseDone(h)
        PROVE  TypeOK'
    BY <1>6 DEF PooledCloseDone
  <1>7. CASE Close
    BY <1>7 DEF Close, ShutDown
  <1>8. CASE HealthCheck
    BY <1>8, HealthCheckEffect DEF HealthCheck
  <1>9. CASE CheckerExit
    BY <1>9 DEF CheckerExit
  <1>10. ASSUME NEW c \in Conn, ConnUp(c) \/ ConnDown(c)
         PROVE  TypeOK'
    BY <1>10 DEF ConnUp, ConnDown, Live
  <1>11. CASE UNCHANGED vars
    BY <1>11 DEF vars
  <1>12. QED
    BY <1>1, <1>2, <1>3, <1>4, <1>5, <1>6, <1>7, <1>8, <1>9, <1>10, <1>11 DEF Next

\* Nothing but NewConnPool touches a pool that has not been made.
LEMMA NextUnopened == TypeOK /\ Unopened /\ [Next]_vars => Unopened'
  <1> SUFFICES ASSUME TypeOK, Unopened, [Next]_vars, phase' = "new"
               PROVE  UNCHANGED <<dials, conns, inUse, current, closed, checker, stats, phase>>
    BY DEF Unopened, stats
  <1> USE DEF stats, client
  <1>1. ~NewConnPool /\ ~NewConnPoolFails
    BY DEF NewConnPool, NewConnPoolFails
  <1>2. ASSUME NEW h \in Holder
        PROVE  ~GetIdle(h) /\ ~GetDialled(h)
    BY DEF GetIdle, GetDialled, UpAndOpen
  <1>3. ASSUME NEW h \in Holder, PooledClosePut(h) \/ PooledCloseDone(h)
        PROVE  UNCHANGED <<dials, conns, inUse, current, closed, checker, stats, phase>>
    BY <1>3 DEF PooledClosePut, PooledCloseDone, Put, Unopened
  <1>4. ~Close /\ ~HealthCheck /\ ~CheckerExit
    BY DEF Close, UpAndOpen, HealthCheck, CheckerExit, Unopened
  <1>5. ASSUME NEW c \in Conn, ConnUp(c) \/ ConnDown(c)
        PROVE  UNCHANGED <<dials, conns, inUse, current, closed, checker, stats, phase>>
    BY <1>5 DEF ConnUp, ConnDown
  <1>6. CASE UNCHANGED vars
    BY <1>6 DEF vars
  <1>7. QED
    BY <1>1, <1>2, <1>3, <1>4, <1>5, <1>6 DEF Next

\* Every method preserves the invariant.
LEMMA NextIInv == IInv /\ [Next]_vars => IInv'
  <1> SUFFICES ASSUME IInv, [Next]_vars
               PROVE  Numbered' /\ LeasedInUse' /\ ExclusiveLease'
    BY NextTypeOK, NextUnopened DEF IInv
  <1>0. TypeOK /\ TypeOK' /\ Unopened /\ Numbered /\ LeasedInUse /\ ExclusiveLease
    BY NextTypeOK DEF IInv
  <1> USE DEF stats, client
  <1>1. CASE NewConnPool
    <2>1. /\ dials' = dials + MinSize
          /\ dials = 0
          /\ conns' = 1 .. MinSize
          /\ UNCHANGED <<inUse, wrapper, lease>>
      BY <1>1, <1>0, MinSizeType DEF NewConnPool, DialInto, Unopened
    <2>2. QED
      BY <2>1, <1>0, MinSizeType DEF Numbered, LeasedInUse, ExclusiveLease, Holds
  <1>2. CASE NewConnPoolFails
    <2>1. dials = 0 /\ dials' \in Nat /\ UNCHANGED <<conns, inUse, wrapper, lease>>
      BY <1>2, <1>0, MinSizeType DEF NewConnPoolFails, Unopened
    <2>2. QED
      BY <2>1, <1>0 DEF Numbered, LeasedInUse, ExclusiveLease, Holds
  <1>3. ASSUME NEW h \in Holder, GetIdle(h)
        PROVE  Numbered' /\ LeasedInUse' /\ ExclusiveLease'
    <2>1. PICK c \in Available : HandOut(h, c)
      BY <1>3 DEF GetIdle
    <2>2. c \in conns /\ c \notin inUse /\ c \in Conn
      BY <2>1, <1>0 DEF Available, TypeOK
    <2>3. UNCHANGED <<dials, conns>>
      BY <1>3 DEF GetIdle
    <2>4. QED
      BY <1>0, <2>1, <2>2, <2>3
      DEF HandOut, TypeOK, Numbered, LeasedInUse, ExclusiveLease, Holds
  <1>4. ASSUME NEW h \in Holder, GetDialled(h)
        PROVE  Numbered' /\ LeasedInUse' /\ ExclusiveLease'
    <2>1. HandOut(h, dials + 1) /\ conns' = conns \cup {dials + 1} /\ dials' = dials + 1
      BY <1>4 DEF GetDialled, DialInto
    <2>2. dials + 1 \notin inUse /\ dials + 1 \in 1 .. dials'
      BY <1>0, <2>1 DEF Numbered, TypeOK
    <2>3. QED
      BY <1>0, <2>1, <2>2
      DEF HandOut, TypeOK, Numbered, LeasedInUse, ExclusiveLease, Holds
  <1>5. ASSUME NEW h \in Holder, PooledClosePut(h)
        PROVE  Numbered' /\ LeasedInUse' /\ ExclusiveLease'
    <2>1. /\ wrapper[h] = "open"
          /\ wrapper' = [wrapper EXCEPT ![h] = "closing"]
          /\ inUse' \in {inUse, inUse \ {lease[h]}}
          /\ UNCHANGED <<dials, conns, lease>>
      BY <1>5 DEF PooledClosePut, MayClose, Put
    <2>2. Numbered'
      BY <1>0, <2>1 DEF Numbered
    <2>3. ASSUME NEW g \in Holder, wrapper'[g] = "open"
          PROVE  g # h /\ wrapper[g] = "open" /\ lease[g] # lease[h]
      BY <1>0, <2>1, <2>3 DEF TypeOK, ExclusiveLease, Holds, LeasedInUse
    <2>4. LeasedInUse'
      BY <1>0, <2>1, <2>3 DEF LeasedInUse
    <2>5. ExclusiveLease'
      BY <1>0, <2>1, <2>3 DEF ExclusiveLease, Holds
    <2>6. QED
      BY <2>2, <2>4, <2>5
  <1>6. ASSUME NEW h \in Holder, PooledCloseDone(h)
        PROVE  Numbered' /\ LeasedInUse' /\ ExclusiveLease'
    BY <1>6, <1>0
    DEF PooledCloseDone, TypeOK, Numbered, LeasedInUse, ExclusiveLease, Holds
  <1>7. CASE Close
    BY <1>7, <1>0 DEF Close, Numbered, LeasedInUse, ExclusiveLease, Holds
  <1>8. CASE HealthCheck
    <2>1. /\ dials' \in dials .. MaxDials
          /\ conns' = (conns \ Unfit) \cup (dials + 1 .. dials')
      BY <1>8, <1>0, HealthCheckEffect
    <2>2. UNCHANGED <<inUse, wrapper, lease>>
      BY <1>8 DEF HealthCheck
    <2>3. dials \in Nat /\ dials' \in Nat /\ dials <= dials'
      BY <1>0, <2>1 DEF TypeOK
    <2>4. 1 .. dials \subseteq 1 .. dials' /\ dials + 1 .. dials' \subseteq 1 .. dials'
      BY <2>3
    <2>5. Numbered'
      BY <1>0, <2>1, <2>2, <2>4 DEF Numbered
    <2>6. QED
      BY <1>0, <2>2, <2>5 DEF LeasedInUse, ExclusiveLease, Holds
  <1>9. CASE CheckerExit
    BY <1>9, <1>0 DEF CheckerExit, Numbered, LeasedInUse, ExclusiveLease, Holds
  <1>10. ASSUME NEW c \in Conn, ConnUp(c) \/ ConnDown(c)
         PROVE  Numbered' /\ LeasedInUse' /\ ExclusiveLease'
    BY <1>10, <1>0 DEF ConnUp, ConnDown, Numbered, LeasedInUse, ExclusiveLease, Holds
  <1>11. CASE UNCHANGED vars
    BY <1>11, <1>0 DEF vars, Numbered, LeasedInUse, ExclusiveLease, Holds
  <1>12. QED
    BY <1>1, <1>2, <1>3, <1>4, <1>5, <1>6, <1>7, <1>8, <1>9, <1>10, <1>11 DEF Next

\* pool.go keeps every field within its type.
THEOREM TypeCorrect == Spec => []TypeOK
  <1>1. Init => TypeOK
    BY InitIInv DEF IInv
  <1>2. QED
    BY <1>1, NextTypeOK, PTL DEF Spec

\* No two open wrappers share a connection.
THEOREM LeasesAreExclusive == Spec => []ExclusiveLease
  <1>1. IInv => ExclusiveLease
    BY DEF IInv
  <1>2. QED
    BY <1>1, InitIInv, NextIInv, PTL DEF Spec

\* The health check never closes a connection a wrapper holds.
THEOREM LeasesStayOpen == Spec => LeasedNotClosed
  <1>1. IInv /\ [Next]_vars =>
          [\A h \in Holder, c \in Conn :
             Holds(h, c) /\ cstate[c] \in Live /\ cstate'[c] = "shutdown" => closed']_vars
    <2> SUFFICES ASSUME IInv, [Next]_vars,
                        NEW h \in Holder, NEW c \in Conn,
                        Holds(h, c), cstate[c] \in Live, cstate'[c] = "shutdown"
                 PROVE  closed'
      OBVIOUS
    <2>0. TypeOK /\ Unopened /\ c \in inUse
      BY DEF IInv, LeasedInUse, Holds
    <2>1. cstate' # cstate
      BY DEF Live
    <2>2. ~NewConnPool
      BY <2>0 DEF NewConnPool, Unopened
    <2>3. CASE NewConnPoolFails
      BY <2>3 DEF NewConnPoolFails
    <2>4. ASSUME NEW g \in Holder
          PROVE  ~GetIdle(g) /\ ~PooledClosePut(g) /\ ~PooledCloseDone(g)
      BY <2>1 DEF GetIdle, PooledClosePut, PooledCloseDone
    <2>5. ASSUME NEW g \in Holder
          PROVE  ~GetDialled(g)
      <3>1. SUFFICES ASSUME GetDialled(g) PROVE FALSE
        OBVIOUS
      <3>2. PICK f \in [dials + 1 .. dials + 1 -> Live] :
              cstate' = [cstate EXCEPT ![dials + 1] = f[dials + 1]]
        BY <3>1 DEF GetDialled
      <3>3. f[dials + 1] \in Live
        BY <2>0 DEF TypeOK
      <3>4. QED
        BY <2>0, <3>2, <3>3 DEF TypeOK, Live
    <2>6. CASE Close
      BY <2>6 DEF Close
    <2>7. ~HealthCheck
      <3>1. HealthCheck => (cstate'[c] = "shutdown" => c \in Reaped \/ cstate'[c] = cstate[c])
        BY <2>0, HealthCheckEffect DEF Live
      <3>2. c \notin Reaped
        BY <2>0 DEF Reaped
      <3>3. QED
        BY <3>1, <3>2 DEF Live
    <2>8. ~CheckerExit
      BY <2>1 DEF CheckerExit
    <2>9. ASSUME NEW d \in Conn
          PROVE  ~ConnUp(d) /\ ~ConnDown(d)
      BY <2>0 DEF ConnUp, ConnDown, TypeOK, Live
    <2>10. ~UNCHANGED vars
      BY <2>1 DEF vars
    <2>11. QED
      BY <2>2, <2>3, <2>4, <2>5, <2>6, <2>7, <2>8, <2>9, <2>10 DEF Next
  <1>2. QED
    BY <1>1, InitIInv, NextIInv, PTL DEF Spec, LeasedNotClosed
-------------------------------------------------------------------------------
\* The connections that p.current counts.
PoolConns == conns \cup inUse

\* The accounting invariant, as the limit and the count of the pool's connections.
LEMMA AccountingInWords ==
  CurrentAccounting <=> (UpAndOpen => /\ OpenConns = PoolConns
                                      /\ current = Cardinality(PoolConns)
                                      /\ current <= MaxSize)
  BY DEF CurrentAccounting, PoolConns, Orphans

\* Replacing Reaped by m new connections in a set of connections that contains it.
LEMMA ReapAndRefill ==
  ASSUME NEW lo \in Nat, NEW hi \in Nat, lo <= hi,
         NEW S, S \subseteq 1 .. lo, NEW R, R \subseteq S
  PROVE  /\ Cardinality((S \ R) \cup (lo + 1 .. hi))
               = Cardinality(S) - Cardinality(R) + (hi - lo)
         /\ Cardinality(S) \in Nat /\ Cardinality(R) \in Nat
  <1>1. IsFiniteSet(S) /\ IsFiniteSet(R) /\ IsFiniteSet(S \ R)
    <2>1. IsFiniteSet(1 .. lo)
      BY FS_Interval
    <2>2. IsFiniteSet(S)
      BY <2>1, FS_Subset
    <2>3. QED
      BY <2>2, FS_Subset
  <1>2. Cardinality(S) \in Nat /\ Cardinality(R) \in Nat /\ Cardinality(S \ R) \in Nat
    BY <1>1, FS_CardinalityType
  <1>3. Cardinality(S \ R) = Cardinality(S) - Cardinality(R)
    <2>1. S \cap R = R
      OBVIOUS
    <2>2. QED
      BY <1>1, <2>1, FS_Difference
  <1>4. IsFiniteSet(lo + 1 .. hi) /\ Cardinality(lo + 1 .. hi) = hi - lo
    <2>1. \A i, j \in Int : /\ IsFiniteSet(i .. j)
                             /\ Cardinality(i .. j) = IF i > j THEN 0 ELSE j - i + 1
      BY FS_Interval
    <2>2. lo + 1 \in Int /\ hi \in Int
      OBVIOUS
    <2>3. /\ IsFiniteSet(lo + 1 .. hi)
          /\ Cardinality(lo + 1 .. hi) = IF lo + 1 > hi THEN 0 ELSE hi - (lo + 1) + 1
      BY <2>1, <2>2
    <2>4. (IF lo + 1 > hi THEN 0 ELSE hi - (lo + 1) + 1) = hi - lo
      OBVIOUS
    <2>5. QED
      BY <2>3, <2>4
  <1>5. Cardinality((S \ R) \cap (lo + 1 .. hi)) = 0
    <2>1. (S \ R) \cap (lo + 1 .. hi) = {}
      OBVIOUS
    <2>2. QED
      BY <2>1, FS_EmptySet
  <1>6. Cardinality((S \ R) \cup (lo + 1 .. hi))
          = Cardinality(S \ R) + Cardinality(lo + 1 .. hi)
              - Cardinality((S \ R) \cap (lo + 1 .. hi))
    BY <1>1, <1>4, FS_Union
  <1>7. QED
    BY <1>2, <1>3, <1>4, <1>5, <1>6

\* Every method preserves the accounting of p.current.
LEMMA NextAccounting ==
  IInv /\ CurrentAccounting /\ [Next]_vars => CurrentAccounting'
  <1> SUFFICES ASSUME IInv, CurrentAccounting, [Next]_vars, UpAndOpen'
               PROVE  /\ OpenConns' = PoolConns'
                      /\ current' = Cardinality(PoolConns')
                      /\ current' <= MaxSize
    BY DEF CurrentAccounting, PoolConns, Orphans, UpAndOpen, OpenConns
  <1> DEFINE Goal == /\ OpenConns' = PoolConns'
                     /\ current' = Cardinality(PoolConns')
                     /\ current' <= MaxSize
             Kept == UpAndOpen /\ PoolConns' = PoolConns /\ OpenConns' = OpenConns
                       /\ current' = current
  <1>0. TypeOK /\ TypeOK' /\ Unopened /\ Numbered /\ LeasedInUse
    BY NextTypeOK DEF IInv
  <1>k. Kept => Goal
    BY AccountingInWords
  <1> USE DEF stats, client
  <1>1. CASE NewConnPool
    <2>1. PICK f \in [1 .. MinSize -> Live] :
            cstate' = [c \in Conn |-> IF c \in 1 .. MinSize THEN f[c] ELSE "none"]
      BY <1>1 DEF NewConnPool
    <2>2. conns' = 1 .. MinSize /\ inUse' = {} /\ current' = MinSize
      BY <1>1, <1>0 DEF NewConnPool, Unopened
    <2>3. 1 .. MinSize \subseteq Conn
      BY MinSizeType, SizesAssumption DEF Conn, SizesAssumption
    <2>4. OpenConns' = 1 .. MinSize
      BY <2>1, <2>3 DEF OpenConns, Live
    <2>5. PoolConns' = 1 .. MinSize
      BY <2>2 DEF PoolConns
    <2>6. Cardinality(1 .. MinSize) = MinSize
      <3>1. CASE MinSize = 0
        BY <3>1, FS_Interval
      <3>2. CASE MinSize > 0
        BY <3>2, FS_Interval, MinSizeType
      <3>3. QED
        BY <3>1, <3>2, MinSizeType
    <2>7. QED
      BY <2>2, <2>4, <2>5, <2>6, MinSizeType
  <1>2. ~NewConnPoolFails
    BY DEF NewConnPoolFails, UpAndOpen
  <1>3. ASSUME NEW h \in Holder, GetIdle(h)
        PROVE  Goal
    <2>1. PICK c \in Available : inUse' = inUse \cup {c}
      BY <1>3 DEF GetIdle, HandOut
    <2>2. Kept
      BY <1>3, <2>1 DEF GetIdle, Available, PoolConns, OpenConns
    <2>3. QED
      BY <2>2, <1>k
  <1>4. ASSUME NEW h \in Holder, GetDialled(h)
        PROVE  Goal
    <2>1. PICK f \in [dials + 1 .. dials + 1 -> Live] :
            /\ DialInto(1, f)
            /\ cstate' = [cstate EXCEPT ![dials + 1] = f[dials + 1]]
      BY <1>4 DEF GetDialled
    <2>2. f[dials + 1] \in Live /\ dials + 1 \in Conn
      BY <1>0, <2>1, SizesAssumption DEF DialInto, TypeOK, Conn, SizesAssumption
    <2>3. OpenConns' = OpenConns \cup {dials + 1}
      BY <1>0, <2>1, <2>2 DEF OpenConns, TypeOK
    <2>4. PoolConns' = PoolConns \cup {dials + 1} /\ current' = current + 1
      BY <1>4 DEF GetDialled, HandOut, PoolConns
    <2>5. /\ UpAndOpen
          /\ current + 1 <= MaxSize
      BY <1>4, <1>0, MaxSizeType DEF GetDialled, BelowMax, TypeOK
    <2>6. dials + 1 \notin PoolConns
      BY <1>0 DEF Numbered, PoolConns, TypeOK
    <2>7. Cardinality(PoolConns \cup {dials + 1}) = Cardinality(PoolConns) + 1
      <3>1. IsFiniteSet(PoolConns)
        BY <1>0, ConnFinite DEF PoolConns, TypeOK
      <3>2. QED
        BY <3>1, <2>6, FS_AddElement
    <2>8. QED
      BY <2>3, <2>4, <2>5, <2>7, AccountingInWords
  <1>5. ASSUME NEW h \in Holder, PooledClosePut(h)
        PROVE  Goal
    <2>1. conns' \cup inUse' = conns \cup inUse
      BY <1>5 DEF PooledClosePut, Put
    <2>2. Kept
      BY <1>5, <2>1 DEF PooledClosePut, PoolConns, OpenConns, UpAndOpen
    <2>3. QED
      BY <2>2, <1>k
  <1>6. ASSUME NEW h \in Holder, PooledCloseDone(h)
        PROVE  Goal
    <2>1. Kept
      BY <1>6 DEF PooledCloseDone, PoolConns, OpenConns, UpAndOpen
    <2>2. QED
      BY <2>1, <1>k
  <1>7. ~Close
    BY DEF Close, UpAndOpen
  <1>8. CASE HealthCheck
    <2>1. /\ dials' \in dials .. MaxDials
          /\ dials + 1 .. dials' \subseteq Conn
          /\ conns' = (conns \ Unfit) \cup (dials + 1 .. dials')
          /\ dials' - dials <= Shortfall
          /\ current' = CurrentAfterReap + (dials' - dials)
          /\ \A c \in Conn : IF c \in Reaped THEN cstate'[c] = "shutdown"
                             ELSE IF c \in dials + 1 .. dials' THEN cstate'[c] \in Live
                             ELSE cstate'[c] = cstate[c]
      BY <1>8, <1>0, HealthCheckEffect
    <2>2. UpAndOpen /\ inUse' = inUse
      BY <1>8 DEF HealthCheck, UpAndOpen
    <2>3. /\ Reaped \subseteq PoolConns
          /\ PoolConns \subseteq Conn
          /\ PoolConns \subseteq 1 .. dials
      BY <1>0, CheckArithmetic DEF PoolConns, TypeOK, Numbered
    <2>4. dials \in Nat /\ dials' \in Nat /\ dials <= dials'
      BY <1>0, <2>1 DEF TypeOK
    <2>5. PoolConns' = (PoolConns \ Reaped) \cup (dials + 1 .. dials')
      BY <2>1, <2>2 DEF PoolConns, Reaped, Unfit
    <2>6. Reaped \cap (dials + 1 .. dials') = {}
      BY <2>3, <2>4
    <2>7. OpenConns' = (OpenConns \ Reaped) \cup (dials + 1 .. dials')
      BY <2>1, <2>6 DEF OpenConns, Live
    <2>8. /\ Cardinality(PoolConns')
               = Cardinality(PoolConns) - Cardinality(Reaped) + (dials' - dials)
          /\ Cardinality(PoolConns) \in Nat /\ Cardinality(Reaped) \in Nat
      BY <2>3, <2>4, <2>5, ReapAndRefill
    <2>9. current' <= MaxSize
      BY <1>0, <2>1, <2>2, <2>4, <2>8, AccountingInWords, CheckArithmetic, MinSizeType, MaxSizeType
    <2>10. QED
      BY <1>0, <2>1, <2>2, <2>4, <2>5, <2>7, <2>8, <2>9, AccountingInWords, CheckArithmetic
  <1>9. CASE CheckerExit
    BY <1>9 DEF CheckerExit, UpAndOpen
  <1>10. ASSUME NEW c \in Conn, ConnUp(c) \/ ConnDown(c)
         PROVE  Goal
    <2>1. OpenConns' = OpenConns
      BY <1>10, <1>0 DEF ConnUp, ConnDown, OpenConns, TypeOK, Live
    <2>2. Kept
      BY <1>10, <2>1 DEF ConnUp, ConnDown, PoolConns, UpAndOpen
    <2>3. QED
      BY <2>2, <1>k
  <1>11. CASE UNCHANGED vars
    <2>1. Kept
      BY <1>11 DEF vars, PoolConns, OpenConns, UpAndOpen
    <2>2. QED
      BY <2>1, <1>k
  <1>12. QED
    BY <1>1, <1>2, <1>3, <1>4, <1>5, <1>6, <1>7, <1>8, <1>9, <1>10, <1>11 DEF Next

\* p.current counts the open connections of the process, and they are at most
\* MaxSize as long as the pool is open.
THEOREM OpenConnsBounded == Spec => []CurrentAccounting
  <1>1. Init => CurrentAccounting
    BY DEF Init, CurrentAccounting, UpAndOpen
  <1>2. QED
    BY <1>1, InitIInv, NextIInv, NextAccounting, PTL DEF Spec

-------------------------------------------------------------------------------
\* Adding an element to a set of connections, and removing one.
LEMMA CountOneMore ==
  ASSUME NEW S, S \subseteq Conn, NEW c
  PROVE  /\ c \notin S => Cardinality(S \cup {c}) = Cardinality(S) + 1
         /\ c \in S => Cardinality(S \ {c}) = Cardinality(S) - 1
         /\ Cardinality(S) \in Nat
  BY ConnFinite, FS_AddElement, FS_RemoveElement

\* Every method keeps IdleConns and ActiveConns in step with what they count.
LEMMA NextStatsBalance == IInv /\ StatsBalance /\ [Next]_vars => StatsBalance'
  <1> DEFINE Free == conns \ inUse
             Goal == /\ idle' = Cardinality(Free') - MinSize
                     /\ active' = Cardinality(inUse')
  <1> SUFFICES ASSUME IInv, StatsBalance, [Next]_vars, UpAndOpen'
               PROVE  Goal
    BY DEF StatsBalance, UpAndOpen
  <1>0. /\ TypeOK /\ Unopened /\ Numbered
        /\ Free \subseteq Conn /\ inUse \subseteq Conn
    BY DEF IInv, TypeOK
  <1>1. UpAndOpen => /\ idle = Cardinality(Free) - MinSize
                     /\ active = Cardinality(inUse)
    BY DEF StatsBalance
  <1>2. /\ Cardinality(Free) \in Nat /\ Cardinality(inUse) \in Nat
        /\ idle \in Int /\ active \in Int /\ MinSize \in Nat
    BY <1>0, ConnFinite, MinSizeType DEF TypeOK
  <1>3. UpAndOpen /\ UNCHANGED <<conns, inUse, idle, active>> => Goal
    BY <1>1
  <1> USE DEF stats, client
  <1>4. CASE NewConnPool
    <2>1. conns' = 1 .. MinSize /\ inUse' = {} /\ idle' = 0 /\ active' = 0
      BY <1>0, <1>4 DEF NewConnPool, Unopened
    <2>2. Cardinality(1 .. MinSize) = MinSize
      BY <1>2, FS_Interval
    <2>3. Free' = 1 .. MinSize /\ Cardinality({}) = 0
      BY <2>1, FS_EmptySet
    <2>4. QED
      BY <1>2, <2>1, <2>2, <2>3
  <1>5. ~NewConnPoolFails
    BY DEF NewConnPoolFails, UpAndOpen
  <1>6. ASSUME NEW h \in Holder, GetIdle(h)
        PROVE  Goal
    <2>1. PICK c \in Available : HandOut(h, c)
      BY <1>6 DEF GetIdle
    <2>2. c \in Free /\ c \notin inUse
      BY DEF Available
    <2>3. /\ UpAndOpen
          /\ conns' = conns
          /\ inUse' = inUse \cup {c}
          /\ idle' = idle - 1
          /\ active' = active + 1
      BY <1>6, <2>1 DEF GetIdle, HandOut
    <2>4. Free' = Free \ {c}
      BY <2>3
    <2> HIDE DEF Free
    <2>5. /\ Cardinality(Free') = Cardinality(Free) - 1
          /\ Cardinality(inUse') = Cardinality(inUse) + 1
      BY <1>0, <2>2, <2>3, <2>4, CountOneMore
    <2>6. QED
      BY <1>1, <1>2, <2>3, <2>5
  <1>7. ASSUME NEW h \in Holder, GetDialled(h)
        PROVE  Goal
    <2>1. /\ UpAndOpen
          /\ conns' = conns \cup {dials + 1}
          /\ inUse' = inUse \cup {dials + 1}
          /\ idle' = idle
          /\ active' = active + 1
      BY <1>7 DEF GetDialled, HandOut
    <2>2. dials + 1 \notin conns /\ dials + 1 \notin inUse
      BY <1>0 DEF Numbered, TypeOK
    <2>3. Free' = Free
      BY <2>1, <2>2
    <2> HIDE DEF Free
    <2>4. Cardinality(inUse') = Cardinality(inUse) + 1
      BY <1>0, <2>1, <2>2, CountOneMore
    <2>5. QED
      BY <1>1, <1>2, <2>1, <2>3, <2>4
  <1>8. ASSUME NEW h \in Holder, PooledClosePut(h)
        PROVE  Goal
    <2>1. UpAndOpen /\ conns' = conns /\ Put(lease[h])
      BY <1>8 DEF PooledClosePut, UpAndOpen
    <2>2. CASE lease[h] \in conns \cap inUse
      <3> DEFINE c == lease[h]
      <3>1. /\ inUse' = inUse \ {c}
            /\ active' = active - 1
            /\ idle' = idle + 1
        BY <2>1, <2>2 DEF Put, UpAndOpen
      <3>2. Free' = Free \cup {c} /\ c \notin Free /\ c \in inUse
        BY <2>1, <2>2, <3>1
      <3> HIDE DEF c, Free
      <3>3. /\ Cardinality(Free') = Cardinality(Free) + 1
            /\ Cardinality(inUse') = Cardinality(inUse) - 1
        BY <1>0, <3>1, <3>2, CountOneMore
      <3>4. QED
        BY <1>1, <1>2, <2>1, <3>1, <3>3
    <2>3. CASE lease[h] \notin conns \cap inUse
      BY <1>3, <2>1, <2>3 DEF Put
    <2>4. QED
      BY <2>2, <2>3
  <1>9. ASSUME NEW h \in Holder, PooledCloseDone(h)
        PROVE  Goal
    BY <1>3, <1>9 DEF PooledCloseDone, UpAndOpen
  <1>10. ~Close
    BY DEF Close, UpAndOpen
  <1>11. CASE HealthCheck
    <2>1. /\ dials' \in dials .. MaxDials
          /\ conns' = (conns \ Unfit) \cup (dials + 1 .. dials')
          /\ idle' = IdleAfterReap + (dials' - dials)
      BY <1>0, <1>11, HealthCheckEffect
    <2>2. UpAndOpen /\ inUse' = inUse /\ active' = active
      BY <1>11 DEF HealthCheck, UpAndOpen
    <2>3. dials \in Nat /\ dials' \in Nat /\ dials <= dials'
      BY <1>0, <2>1 DEF TypeOK
    <2>4. Free \subseteq 1 .. dials /\ inUse \subseteq 1 .. dials
      BY <1>0 DEF Numbered
    <2>5. inUse \cap (dials + 1 .. dials') = {}
      BY <2>3, <2>4
    <2>6. Reaped \subseteq Free /\ Free' = (Free \ Reaped) \cup (dials + 1 .. dials')
      BY <2>1, <2>2, <2>5 DEF Reaped, Unfit
    <2> HIDE DEF Free
    <2>7. /\ Cardinality(Free') = Cardinality(Free) - Cardinality(Reaped) + (dials' - dials)
          /\ Cardinality(Reaped) \in Nat
      BY <2>3, <2>4, <2>6, ReapAndRefill
    <2>8. QED
      BY <1>1, <1>2, <2>1, <2>2, <2>3, <2>7 DEF IdleAfterReap
  <1>12. CASE CheckerExit
    BY <1>3, <1>12 DEF CheckerExit, UpAndOpen
  <1>13. ASSUME NEW c \in Conn, ConnUp(c) \/ ConnDown(c)
         PROVE  Goal
    BY <1>3, <1>13 DEF ConnUp, ConnDown, UpAndOpen
  <1>14. CASE UNCHANGED vars
    BY <1>3, <1>14 DEF vars, UpAndOpen
  <1>15. QED
    BY <1>4, <1>5, <1>6, <1>7, <1>8, <1>9, <1>10, <1>11, <1>12, <1>13, <1>14 DEF Next

\* While the pool is open IdleConns is the number of free connections less
\* MinSize, and ActiveConns the number of connections with their flag set.
THEOREM StatsKept == Spec => []StatsBalance
  <1>1. Init => StatsBalance
    BY DEF Init, StatsBalance, UpAndOpen
  <1>2. QED
    BY <1>1, InitIInv, NextIInv, NextStatsBalance, PTL DEF Spec

-------------------------------------------------------------------------------
\* A connection that has not been dialled has no state.
Undialled == \A c \in Conn : c > dials => cstate[c] = "none"

\* Only dialling gives a connection a state.
LEMMA NextUndialled == IInv /\ Undialled /\ [Next]_vars => Undialled'
  <1> SUFFICES ASSUME IInv, Undialled, [Next]_vars, NEW c \in Conn, c > dials'
               PROVE  cstate'[c] = "none"
    BY DEF Undialled
  <1>0. /\ TypeOK /\ Unopened /\ Numbered
        /\ c \in Nat /\ dials \in Nat
        /\ c > dials => cstate[c] = "none"
    BY DEF IInv, Undialled, TypeOK, Conn
  <1>1. CASE NewConnPool
    <2>1. PICK f \in [1 .. MinSize -> Live] :
            /\ DialInto(MinSize, f)
            /\ cstate' = [b \in Conn |-> IF b \in 1 .. MinSize THEN f[b] ELSE "none"]
      BY <1>1 DEF NewConnPool
    <2>2. dials = 0 /\ dials' = MinSize
      BY <1>0, <1>1, <2>1, MinSizeType DEF DialInto, Unopened, NewConnPool
    <2>3. QED
      BY <2>1, <2>2, MinSizeType
  <1>2. CASE NewConnPoolFails
    <2>1. PICK n \in 0 .. MinSize - 1 :
            /\ dials' = n
            /\ cstate' = [b \in Conn |-> IF b \in 1 .. n THEN "shutdown" ELSE "none"]
      BY <1>2 DEF NewConnPoolFails
    <2>2. QED
      BY <2>1, MinSizeType
  <1>3. ASSUME NEW h \in Holder, GetDialled(h)
        PROVE  cstate'[c] = "none"
    <2>1. PICK f \in [dials + 1 .. dials + 1 -> Live] :
            /\ DialInto(1, f)
            /\ cstate' = [cstate EXCEPT ![dials + 1] = f[dials + 1]]
      BY <1>3 DEF GetDialled
    <2>2. dials' = dials + 1
      BY <2>1 DEF DialInto
    <2>3. QED
      BY <1>0, <2>1, <2>2 DEF TypeOK
  <1>4. CASE Close
    <2>1. dials' = dials /\ cstate' = ShutDown(conns)
      BY <1>4 DEF Close
    <2>2. c \notin conns
      BY <1>0, <2>1 DEF Numbered
    <2>3. QED
      BY <1>0, <2>1, <2>2 DEF ShutDown
  <1>5. CASE HealthCheck
    <2>1. /\ dials' \in dials .. MaxDials
          /\ IF c \in Reaped THEN cstate'[c] = "shutdown"
             ELSE IF c \in dials + 1 .. dials' THEN cstate'[c] \in Live
             ELSE cstate'[c] = cstate[c]
      BY <1>0, <1>5, HealthCheckEffect
    <2>2. Reaped \subseteq 1 .. dials
      BY <1>0, CheckArithmetic DEF Numbered
    <2>3. QED
      BY <1>0, <2>1, <2>2
  <1>6. ASSUME NEW d \in Conn, ConnUp(d) \/ ConnDown(d)
        PROVE  cstate'[c] = "none"
    <2>1. dials' = dials /\ cstate[c] = "none"
      BY <1>0, <1>6 DEF ConnUp, ConnDown
    <2>2. d # c
      BY <1>6, <2>1 DEF ConnUp, ConnDown
    <2>3. QED
      BY <1>0, <1>6, <2>1, <2>2 DEF ConnUp, ConnDown, TypeOK
  <1>7. CASE \/ \E h \in Holder : GetIdle(h) \/ PooledClosePut(h) \/ PooledCloseDone(h)
             \/ CheckerExit
             \/ UNCHANGED vars
    BY <1>0, <1>7 DEF GetIdle, PooledClosePut, PooledCloseDone, CheckerExit, vars
  <1>8. QED
    BY <1>1, <1>2, <1>3, <1>4, <1>5, <1>6, <1>7 DEF Next

-------------------------------------------------------------------------------
\* LeasePool's variables, read off the pool.
PoolStatus == IF phase = "new" THEN "new" ELSE IF UpAndOpen THEN "open" ELSE "closed"
PoolLent == [h \in Holder |-> IF wrapper[h] = "open" THEN lease[h] ELSE NoConn]
PoolRetired == {c \in Conn : cstate[c] = "shutdown"}

\* What the steps below need of a state.
RefInv == IInv /\ CurrentAccounting /\ Undialled

\* LeasePool counts as the pool does.
LEMMA SameCardinality == \A S : LP!Cardinality(S) = Cardinality(S)
  BY DEF LP!Cardinality, Cardinality, IsFiniteSet, LP!IsFiniteSet

\* The connections lent are among those in use; while the pool is open they are
\* at most MaxSize, and fewer when one more may be had.
LEMMA LentInUse ==
  ASSUME RefInv
  PROVE  /\ LP!Lent \subseteq inUse
         /\ \A c \in conns \ inUse : UpAndOpen => LP!Cardinality(LP!Lent) < MaxSize
         /\ UpAndOpen /\ BelowMax => LP!Cardinality(LP!Lent) < MaxSize
  <1>1. LP!Lent \subseteq inUse
    BY DEF RefInv, IInv, LeasedInUse, LP!Lent, Conn, NoConn
  <1>2. /\ PoolConns \subseteq Conn /\ IsFiniteSet(PoolConns)
        /\ LP!Lent \subseteq PoolConns
        /\ Cardinality(PoolConns) \in Nat
    BY <1>1, ConnFinite DEF RefInv, IInv, TypeOK, PoolConns
  <1>3. Cardinality(LP!Lent) \in Nat /\ Cardinality(LP!Lent) <= Cardinality(PoolConns)
    BY <1>2, FS_Subset, FS_CardinalityType
  <1>4. UpAndOpen => current = Cardinality(PoolConns) /\ current <= MaxSize
    BY AccountingInWords DEF RefInv
  <1>5. ASSUME NEW c \in conns \ inUse
        PROVE  Cardinality(LP!Lent) < Cardinality(PoolConns)
    <2>1. LP!Lent \subseteq PoolConns \ {c} /\ c \in PoolConns
      BY <1>1, <1>2 DEF PoolConns
    <2>2. /\ IsFiniteSet(PoolConns \ {c})
          /\ Cardinality(PoolConns \ {c}) = Cardinality(PoolConns) - 1
      BY <1>2, <2>1, FS_RemoveElement
    <2>3. Cardinality(LP!Lent) <= Cardinality(PoolConns \ {c})
      BY <2>1, <2>2, FS_Subset
    <2>4. QED
      BY <1>2, <1>3, <2>2, <2>3
  <1>6. UpAndOpen /\ BelowMax => Cardinality(LP!Lent) < MaxSize
    BY <1>2, <1>3, <1>4, MaxSizeType DEF BelowMax
  <1>7. ASSUME NEW c \in conns \ inUse, UpAndOpen
        PROVE  Cardinality(LP!Lent) < MaxSize
    BY <1>2, <1>3, <1>4, <1>5, <1>7, MaxSizeType
  <1>8. QED
    BY <1>1, <1>6, <1>7, SameCardinality

\* Handing c out to h lends it.
LEMMA HandOutLends ==
  ASSUME TypeOK, NEW h \in Holder, NEW c \in Conn, wrapper[h] = "none", HandOut(h, c)
  PROVE  /\ PoolLent[h] = NoConn
         /\ PoolLent' = [PoolLent EXCEPT ![h] = c]
  BY DEF TypeOK, HandOut, PoolLent

\* Every step of the pool is one of LeasePool's, or none.
LEMMA StepImplements == RefInv /\ [Next]_vars => [LP!Next]_(LP!vars)
  <1> DEFINE Stutter == /\ PoolStatus' = PoolStatus
                        /\ PoolLent' = PoolLent
                        /\ PoolRetired' = PoolRetired
  <1> SUFFICES ASSUME RefInv, [Next]_vars
               PROVE  LP!Next \/ Stutter
    BY DEF LP!vars, PoolStatus, PoolLent, PoolRetired
  <1>0. TypeOK /\ Unopened /\ Numbered /\ LeasedInUse /\ Undialled
    BY DEF RefInv, IInv
  <1> USE DEF stats, client
  <1>1. CASE NewConnPool
    <2>1. PICK f \in [1 .. MinSize -> Live] :
            cstate' = [c \in Conn |-> IF c \in 1 .. MinSize THEN f[c] ELSE "none"]
      BY <1>1 DEF NewConnPool
    <2>2. dials = 0 /\ ~closed /\ phase = "new" /\ phase' = "up" /\ UNCHANGED <<closed, wrapper, lease>>
      BY <1>0, <1>1 DEF NewConnPool, Unopened
    <2>3. PoolRetired = {} /\ PoolRetired' = {}
      BY <1>0, <2>1, <2>2 DEF PoolRetired, Undialled, Conn, Live
    <2>4. PoolStatus = "new" /\ PoolStatus' = "open"
      BY <2>2 DEF PoolStatus, UpAndOpen
    <2>5. PoolLent' = PoolLent
      BY <2>2 DEF PoolLent
    <2>6. LP!Open
      BY <2>3, <2>4, <2>5 DEF LP!Open, PoolStatus, PoolLent, PoolRetired
    <2>7. QED
      BY <2>6 DEF LP!Next
  <1>2. CASE NewConnPoolFails
    <2>1. PICK n \in 0 .. MinSize - 1 :
            cstate' = [c \in Conn |-> IF c \in 1 .. n THEN "shutdown" ELSE "none"]
      BY <1>2 DEF NewConnPoolFails
    <2> DEFINE R == {c \in Conn : c \in 1 .. n}
    <2>2. dials = 0 /\ phase' = "failed" /\ UNCHANGED <<wrapper, lease>>
      BY <1>0, <1>2 DEF NewConnPoolFails, Unopened
    <2>3. PoolRetired = {} /\ PoolRetired' = R
      BY <1>0, <2>1, <2>2 DEF PoolRetired, Undialled, Conn
    <2>4. PoolStatus' = "closed" /\ PoolLent' = PoolLent
      BY <2>2 DEF PoolStatus, UpAndOpen, PoolLent
    <2>5. R \in SUBSET Conn
      OBVIOUS
    <2> HIDE DEF R
    <2>6. LP!Shutdown(R)
      BY <2>3, <2>4 DEF LP!Shutdown, PoolStatus, PoolLent, PoolRetired
    <2>7. QED
      BY <2>5, <2>6 DEF LP!Next
  <1>3. ASSUME NEW h \in Holder, GetIdle(h)
        PROVE  LP!Next
    <2>1. PICK c \in Available : HandOut(h, c)
      BY <1>3 DEF GetIdle
    <2>2. c \in Conn /\ c \in conns \ inUse /\ cstate[c] = "healthy"
      BY <1>0 DEF Available, Healthy, TypeOK
    <2>3. UpAndOpen /\ wrapper[h] = "none" /\ UNCHANGED <<phase, closed, cstate>>
      BY <1>3 DEF GetIdle
    <2>4. c \notin LP!Lent /\ LP!Cardinality(LP!Lent) < MaxSize
      BY <2>2, <2>3, LentInUse
    <2>5. PoolLent[h] = NoConn /\ PoolLent' = [PoolLent EXCEPT ![h] = c]
      BY <1>0, <2>1, <2>2, <2>3, HandOutLends
    <2>6. PoolStatus = "open" /\ PoolStatus' = PoolStatus
      BY <2>3 DEF PoolStatus, UpAndOpen
    <2>7. c \notin PoolRetired /\ PoolRetired' = PoolRetired
      BY <2>2, <2>3 DEF PoolRetired
    <2>8. LP!Grant(h, c)
      BY <2>4, <2>5, <2>6, <2>7 DEF LP!Grant, PoolStatus, PoolLent, PoolRetired
    <2>9. QED
      BY <2>2, <2>8 DEF LP!Next
  <1>4. ASSUME NEW h \in Holder, GetDialled(h)
        PROVE  LP!Next
    <2>1. PICK f \in [dials + 1 .. dials + 1 -> Live] :
            /\ DialInto(1, f)
            /\ cstate' = [cstate EXCEPT ![dials + 1] = f[dials + 1]]
      BY <1>4 DEF GetDialled
    <2>2. dials + 1 \in Conn
      BY <1>0, <2>1, SizesAssumption DEF DialInto, TypeOK, Conn, SizesAssumption
    <2>3. PICK c \in Conn : c = dials + 1
      BY <2>2
    <2>4. /\ c > dials /\ dials \in Nat
          /\ f[c] \in Live
          /\ cstate' = [cstate EXCEPT ![c] = f[c]]
      BY <1>0, <2>1, <2>3 DEF TypeOK
    <2>5. /\ UpAndOpen /\ BelowMax
          /\ wrapper[h] = "none"
          /\ HandOut(h, c)
          /\ UNCHANGED <<phase, closed>>
      BY <1>4, <2>3 DEF GetDialled, HandOut
    <2>6. c \notin inUse /\ cstate[c] = "none"
      BY <1>0, <2>4 DEF Numbered, Undialled, Conn
    <2>7. c \notin LP!Lent /\ LP!Cardinality(LP!Lent) < MaxSize
      BY <2>5, <2>6, LentInUse
    <2>8. PoolLent[h] = NoConn /\ PoolLent' = [PoolLent EXCEPT ![h] = c]
      BY <1>0, <2>4, <2>5, HandOutLends
    <2>9. PoolStatus = "open" /\ PoolStatus' = PoolStatus
      BY <2>5 DEF PoolStatus, UpAndOpen
    <2>10. c \notin PoolRetired /\ PoolRetired' = PoolRetired
      BY <1>0, <2>4, <2>6 DEF PoolRetired, TypeOK, Live
    <2>11. LP!Grant(h, c)
      BY <2>7, <2>8, <2>9, <2>10 DEF LP!Grant, PoolStatus, PoolLent, PoolRetired
    <2>12. QED
      BY <2>11 DEF LP!Next
  <1>5. ASSUME NEW h \in Holder, PooledClosePut(h)
        PROVE  LP!Next
    <2>1. /\ wrapper[h] = "open"
          /\ wrapper' = [wrapper EXCEPT ![h] = "closing"]
          /\ UNCHANGED <<phase, closed, cstate, lease>>
      BY <1>5 DEF PooledClosePut, MayClose
    <2>2. PoolLent[h] # NoConn /\ PoolLent' = [PoolLent EXCEPT ![h] = NoConn]
      BY <1>0, <2>1 DEF PoolLent, TypeOK
    <2>3. PoolStatus' = PoolStatus /\ PoolRetired' = PoolRetired
      BY <2>1 DEF PoolStatus, UpAndOpen, PoolRetired
    <2>4. LP!Return(h)
      BY <2>2, <2>3 DEF LP!Return, PoolStatus, PoolLent, PoolRetired
    <2>5. QED
      BY <2>4 DEF LP!Next
  <1>6. ASSUME NEW h \in Holder, PooledCloseDone(h)
        PROVE  Stutter
    <2>1. /\ wrapper[h] = "closing"
          /\ wrapper' = [wrapper EXCEPT ![h] = "none"]
          /\ lease' = [lease EXCEPT ![h] = NoConn]
          /\ UNCHANGED <<phase, closed, cstate>>
      BY <1>6 DEF PooledCloseDone
    <2>2. PoolLent' = PoolLent
      BY <1>0, <2>1 DEF PoolLent, TypeOK
    <2>3. QED
      BY <2>1, <2>2 DEF PoolStatus, UpAndOpen, PoolRetired
  <1>7. CASE Close
    <2>1. /\ phase = "up" /\ closed' = TRUE
          /\ cstate' = ShutDown(conns)
          /\ UNCHANGED <<phase, wrapper, lease>>
      BY <1>7 DEF Close, UpAndOpen
    <2>2. PoolStatus' = "closed" /\ PoolLent' = PoolLent
      BY <2>1 DEF PoolStatus, UpAndOpen, PoolLent
    <2>3. conns \in SUBSET Conn
      BY <1>0 DEF TypeOK
    <2>4. PoolRetired' = PoolRetired \cup conns
      BY <2>1, <2>3 DEF PoolRetired, ShutDown
    <2>5. PICK R \in SUBSET Conn : R = conns
      BY <2>3
    <2>6. LP!Shutdown(R)
      BY <2>2, <2>4, <2>5 DEF LP!Shutdown, PoolStatus, PoolLent, PoolRetired
    <2>7. QED
      BY <2>6 DEF LP!Next
  <1>8. CASE HealthCheck
    <2>1. /\ dials' \in dials .. MaxDials
          /\ \A c \in Conn : IF c \in Reaped THEN cstate'[c] = "shutdown"
                             ELSE IF c \in dials + 1 .. dials' THEN cstate'[c] \in Live
                             ELSE cstate'[c] = cstate[c]
      BY <1>0, <1>8, HealthCheckEffect
    <2>2. UNCHANGED <<phase, closed, wrapper, lease>>
      BY <1>8 DEF HealthCheck
    <2>3. Reaped \in SUBSET Conn /\ Reaped \cap LP!Lent = {}
      BY <1>0, LentInUse, CheckArithmetic DEF TypeOK
    <2>4. \A c \in Conn : c \in dials + 1 .. dials' => cstate[c] = "none"
      BY <1>0, <2>1 DEF Undialled, TypeOK
    <2>5. PoolRetired' = PoolRetired \cup Reaped
      BY <2>1, <2>3, <2>4 DEF PoolRetired, Live
    <2>6. PoolStatus' = PoolStatus /\ PoolLent' = PoolLent
      BY <2>2 DEF PoolStatus, UpAndOpen, PoolLent
    <2>7. PICK R \in SUBSET Conn : R = Reaped
      BY <2>3
    <2>8. LP!Retire(R)
      BY <2>3, <2>5, <2>6, <2>7 DEF LP!Retire, PoolStatus, PoolLent, PoolRetired
    <2>9. QED
      BY <2>8 DEF LP!Next
  <1>9. ASSUME NEW c \in Conn, ConnUp(c) \/ ConnDown(c)
        PROVE  Stutter
    <2>1. UNCHANGED <<phase, closed, wrapper, lease>>
      BY <1>9 DEF ConnUp, ConnDown
    <2>2. PoolRetired' = PoolRetired
      BY <1>0, <1>9 DEF ConnUp, ConnDown, PoolRetired, TypeOK
    <2>3. QED
      BY <2>1, <2>2 DEF PoolStatus, UpAndOpen, PoolLent
  <1>10. CASE CheckerExit \/ UNCHANGED vars
    <2>1. UNCHANGED <<phase, closed, wrapper, lease, cstate>>
      BY <1>10 DEF CheckerExit, vars
    <2>2. QED
      BY <2>1 DEF PoolStatus, UpAndOpen, PoolLent, PoolRetired
  <1>11. QED
    BY <1>1, <1>2, <1>3, <1>4, <1>5, <1>6, <1>7, <1>8, <1>9, <1>10 DEF Next

\* pool.go implements what a connection pool promises: nobody is lent a connection
\* that another holds or that is closed, nor more than MaxSize at a time; none is
\* closed under its holder but by Close, after which none is lent.
THEOREM Refinement == Spec => ImplementsLeasePool
  <1>1. Init => LP!Init
    <2> SUFFICES ASSUME Init PROVE LP!Init
      OBVIOUS
    <2>1. PoolStatus = "new" /\ PoolRetired = {}
      BY DEF Init, PoolStatus, PoolRetired
    <2>2. PoolLent = [h \in Holder |-> NoConn]
      BY DEF Init, PoolLent
    <2>3. QED
      BY <2>1, <2>2 DEF LP!Init, PoolStatus, PoolLent, PoolRetired
  <1>2. Init => RefInv
    BY InitIInv DEF RefInv, Init, CurrentAccounting, UpAndOpen, Undialled
  <1>3. RefInv /\ [Next]_vars => RefInv'
    BY NextIInv, NextAccounting, NextUndialled DEF RefInv
  <1>4. QED
    BY <1>1, <1>2, <1>3, StepImplements, PTL DEF Spec, ImplementsLeasePool, LP!Spec
===============================================================================
