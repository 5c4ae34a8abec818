----------------------------- MODULE RouterLimit -----------------------------
(***************************************************************************)
(* Which limit a request falls under: RouterLimit.Match and getQuota,      *)
(* interceptor/limit/routerlimit.go.  A path prefix is the set of paths    *)
(* that start with it, and a bucket's key is the sequence of header values *)
(* that the code joins with dots.                                          *)
(***************************************************************************)
EXTENDS Integers, Sequences, SequencesExt

CONSTANTS Path, HeaderKey, HeaderValue,
          Absent,       \* what Get returns for a header that is missing: ""
          Limits,       \* RouterLimit.Limit: sequence of [paths, headers, quota, duration]
          Blacklist,    \* RouterLimit.Block: set of [key, value]
          Default,      \* RouterLimit.Default: [headers, quota, duration]
          Disabled      \* RouterLimit.Disabled

\* A duration that is not positive means no limit, and is 0.
ASSUME RulesAssumption ==
  /\ Limits \in Seq(Range(Limits))
  /\ \A rule \in Range(Limits) \cup {Default} : rule.quota \in Int /\ rule.duration \in Nat

Header == [HeaderKey -> HeaderValue \cup {Absent}]

NoLimit == -1
Block == 0
Unlimited == [quota |-> NoLimit, duration |-> 0, key |-> <<>>]

\* getQuota: a rule with a negative quota, or none of whose headers is there,
\* limits nothing.
getQuota(rule, header) ==
  LET key == SelectSeq([i \in 1 .. Len(rule.headers) |-> header[rule.headers[i]]],
                       LAMBDA v : v # Absent)
  IN  IF rule.quota < 0 \/ key = <<>>
        THEN Unlimited
        ELSE [quota |-> rule.quota, duration |-> rule.duration, key |-> key]

Blacklisted(header) == \E kv \in Blacklist : header[kv.key] = kv.value

\* The rules whose prefix the path has; the first one counts.
Applicable(path) == {i \in 1 .. Len(Limits) : path \in Limits[i].paths}
RuleFor(path) ==
  IF Applicable(path) = {} THEN Default
  ELSE Limits[CHOOSE i \in Applicable(path) : \A j \in Applicable(path) : i <= j]

Match(path, header) ==
  IF Disabled THEN Unlimited
  ELSE IF Blacklisted(header) THEN [quota |-> Block, duration |-> 0, key |-> <<>>]
  ELSE getQuota(RuleFor(path), header)
==============================================================================
