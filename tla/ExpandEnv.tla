------------------------------- MODULE ExpandEnv -------------------------------
(***************************************************************************)
(* expandEnv of config/config.go: the ${name} of a text are replaced by    *)
(* the environment's values.  A text is a sequence of characters, of which *)
(* only "$", braces and the three that end a name unmatched are told apart *)
(* from letters.                                                           *)
(***************************************************************************)
EXTENDS Integers, Sequences

CONSTANTS Char,  \* the characters of a text
          Env    \* the environment: a function from names to texts

\* ' ', '\n' and '"'
Stop == {" ", "newline", "quote"}

\* A variable of the environment has a name.
ASSUME EnvAssumption == /\ {"$", "{", "}"} \cup Stop \subseteq Char
                        /\ <<>> \notin DOMAIN Env
                        /\ \A name \in DOMAIN Env : Env[name] \in Seq(Char)

\* os.Getenv
Getenv(name) == IF name \in DOMAIN Env THEN Env[name] ELSE <<>>

\* getShellName(s[j+1:]): the scan of "{name}" from the character after the brace
\* on.  It yields the name and the width of what it stands in, nothing when a
\* stopping character or the end comes first.
Scan(s, j) ==
  LET At[i \in Nat] ==
        IF i > Len(s) \/ s[i] \in Stop THEN [name |-> <<>>, width |-> 0]
        ELSE IF s[i] = "}" THEN [name |-> SubSeq(s, j + 2, i - 1), width |-> i - j]
        ELSE At[i + 1]
  IN  At

getShellName(s, j) == Scan(s, j)[j + 2]

\* Where the loop goes on after "$" at j: behind the placeholder, or behind "$".
Resume(j, width) == j + width + 1

IsPlaceholder(s, j) == s[j] = "$" /\ j + 2 <= Len(s) /\ s[j + 1] = "{"

\* What a placeholder becomes: ${} goes away; a "$" whose name does not end stays.
Replacement(found) == IF found.name # <<>> THEN Getenv(found.name)
                      ELSE IF found.width > 0 THEN <<>>
                      ELSE <<"$">>

\* The loop, from each place on: what stands before a placeholder is copied.
Expanded(s) ==
  LET From[j \in Nat] ==
        IF j > Len(s) THEN <<>>
        ELSE IF ~IsPlaceholder(s, j) THEN <<s[j]>> \o From[j + 1]
        ELSE Replacement(getShellName(s, j)) \o From[Resume(j, getShellName(s, j).width)]
  IN  From

expandEnv(s) == Expanded(s)[1]

-------------------------------------------------------------------------------
\* What it is meant to compute, read once from left to right: done is what is
\* written for good, open is what may yet become a placeholder.
GoesOn(open, char) == \/ Len(open) = 0 /\ char = "$"
                      \/ Len(open) = 1 /\ char = "{"
                      \/ Len(open) > 1 /\ char \notin Stop /\ char # "}"

Reading(state, char) ==
  LET open == Append(state.open, char)
  IN  IF GoesOn(state.open, char) THEN [state EXCEPT !.open = open]
      ELSE IF Len(state.open) = 1 /\ char = "$" THEN [state EXCEPT !.done = Append(@, "$")]
      ELSE IF Len(state.open) > 1 /\ char = "}"
        THEN [done |-> state.done \o Getenv(SubSeq(state.open, 3, Len(state.open))),
              open |-> <<>>]
      ELSE [done |-> state.done \o open, open |-> <<>>]

Readings(s) ==
  LET After[n \in 0 .. Len(s)] == IF n = 0 THEN [done |-> <<>>, open |-> <<>>]
                          ELSE Reading(After[n - 1], s[n])
  IN  After

Expansion(s) == LET end == Readings(s)[Len(s)] IN end.done \o end.open
===============================================================================
