------------------------------- MODULE LogSink -------------------------------
(***************************************************************************)
(* What a logger promises, whatever it does between a call and the sink:   *)
(* an entry is written at most once, only after it was logged, and an      *)
(* entry that was accepted is either still pending or written as long as   *)
(* the process lives.  An entry may be refused, and the process may die    *)
(* with entries pending.                                                   *)
(*                                                                         *)
(* logger/batch.go is shown to implement this by module BatchLogger.       *)
(***************************************************************************)
EXTENDS Naturals, Sequences

CONSTANT Entry

VARIABLES pending,     \* accepted, not yet written
          written,     \* what the sink received, in its order
          alive        \* the process runs

vars == <<pending, written, alive>>

Emitted == {written[i] : i \in 1 .. Len(written)}

Init == /\ pending = {}
        /\ written = <<>>
        /\ alive = TRUE

Accept(e) == /\ alive
             /\ e \notin pending \cup Emitted
             /\ pending' = pending \cup {e}
             /\ UNCHANGED <<written, alive>>

Emit(e) == /\ alive
           /\ e \in pending
           /\ pending' = pending \ {e}
           /\ written' = Append(written, e)
           /\ UNCHANGED alive

\* An entry that never waits: written at once, the process perhaps ending with it.
EmitDirect(e) == /\ alive
                 /\ e \notin pending \cup Emitted
                 /\ written' = Append(written, e)
                 /\ alive' \in BOOLEAN
                 /\ UNCHANGED pending

Die == /\ alive
       /\ alive' = FALSE
       /\ UNCHANGED <<pending, written>>

Next == \/ \E e \in Entry : Accept(e) \/ Emit(e) \/ EmitDirect(e)
        \/ Die

Spec == Init /\ [][Next]_vars
==============================================================================
