------------------------------ MODULE ErrorCodes ------------------------------
(***************************************************************************)
(* Status codes and what is derived from them: the HTTP status of          *)
(* errs/codes.go and the log level of interceptor/logging/options.go.      *)
(* Services may use codes of their own beside those of gRPC, from 100 on:  *)
(* only their leading digit counts, which both functions find by dividing. *)
(***************************************************************************)
EXTENDS Integers

\* Codes of gRPC that the models need.
OK == 0
Canceled == 1
Unknown == 2
DeadlineExceeded == 4
NotFound == 5
ResourceExhausted == 8
Aborted == 10
Unimplemented == 12
Internal == 13
Unavailable == 14
DataLoss == 15
GrpcCode == 0 .. 16

\* for code >= 10 { code /= 10 }
LeadingDigit[code \in Nat] == IF code < 10 THEN code ELSE LeadingDigit[code \div 10]

httpStatusCode(code) ==
  CASE code \in 200 .. 598     -> code
    [] LeadingDigit[code] = 2  -> 200
    [] LeadingDigit[code] = 4  -> 400
    [] OTHER                   -> 500

\* runtime.HTTPStatusFromCode of the gateway.
HTTPStatusFromCode(code) ==
  CASE code = OK                   -> 200
    [] code = Canceled             -> 499
    [] code \in {3, 9, 11}         -> 400
    [] code = DeadlineExceeded     -> 504
    [] code = NotFound             -> 404
    [] code \in {6, Aborted}       -> 409
    [] code = 7                    -> 403
    [] code = 16                   -> 401
    [] code = ResourceExhausted    -> 429
    [] code = Unimplemented        -> 501
    [] code = Unavailable          -> 503
    [] OTHER                       -> 500

CodeToStatus(code) == IF code > 100 THEN httpStatusCode(code) ELSE HTTPStatusFromCode(code)

Level == {"info", "warn", "error"}

DefaultCodeToLevel(code) ==
  IF code < 100
  THEN CASE code \in {Unknown, Internal}                                          -> "error"
         [] code \in GrpcCode \ {DeadlineExceeded, Unavailable, DataLoss, Unimplemented,
                                 Unknown, Internal}                               -> "info"
         [] OTHER                                                                 -> "warn"
  ELSE CASE LeadingDigit[code] = 2 -> "info"
         [] LeadingDigit[code] = 4 -> "warn"
         [] OTHER                  -> "error"
===============================================================================
