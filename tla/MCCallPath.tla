------------------------------ MODULE MCCallPath ------------------------------
(* Instances of CallPath for TLC. *)
EXTENDS CallPath

MCGiven(withTimeout, timeout, retry, logger, pool) ==
  [withTimeout |-> withTimeout, timeout |-> timeout, retry |-> retry, secure |-> TRUE,
   metrics |-> FALSE, logger |-> logger, creds |-> FALSE, user |-> FALSE, pool |-> pool]

\* All that matters to a call; WithTimeout alone; a connection of the pool; a negative
\* timeout and retries that are no number; no credentials.
MCGivens ==
  {[MCGiven(0, {2}, {2}, TRUE, FALSE) EXCEPT !.user = TRUE, !.metrics = TRUE],
   MCGiven(1, {}, {2}, TRUE, FALSE),
   MCGiven(0, {2}, {2}, TRUE, TRUE),
   MCGiven(1, {-1}, {}, FALSE, FALSE),
   [MCGiven(0, {}, {}, FALSE, FALSE) EXCEPT !.secure = FALSE]}

MCExecutions == Caller \X (1 .. 2)

MCDeciders ==
  {DefaultDecider,
   [DefaultDecider EXCEPT !.events = "StartCall", !.onError = "StartCall"],
   [DefaultDecider EXCEPT !.onError = "StartCall", !.request = TRUE, !.response = TRUE]}

MCOutcomes == {OK, EOF, RawDeadline, Unavailable, Aborted}

\* The leading digit, by its definition.
MCLeading(code, d) == \E k \in 0 .. 4 : d * 10 ^ k <= code /\ code < (d + 1) * 10 ^ k

\* CodeToStatus and DefaultCodeToLevel against what RegisterErrorCodes documents:
\* 2*** is 200, 4*** is 400, the others are 500; codes that are HTTP statuses are
\* their own status, all but 599.
ASSUME MCStatusOfCodes ==
  \A code \in 600 .. 6999 :
    CodeToStatus(code) = IF MCLeading(code, 2) THEN 200
                         ELSE IF MCLeading(code, 4) THEN 400 ELSE 500
ASSUME MCStatusIsItself ==
  /\ \A code \in 200 .. 598 : CodeToStatus(code) = code
  /\ CodeToStatus(599) = 500
ASSUME MCLevelsAgree ==
  /\ \A code \in 600 .. 6999 :
       (CodeToStatus(code) = 200) = (DefaultCodeToLevel(code) = "info")
  /\ \A code \in GrpcCode : DefaultCodeToLevel(code) = "error" => CodeToStatus(code) = 500
===============================================================================
