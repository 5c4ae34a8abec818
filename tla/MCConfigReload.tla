--------------------------- MODULE MCConfigReload ---------------------------
(* Instances of ConfigReload for TLC. *)
EXTENDS ConfigReload, TLC

\* One value has a brace in it, so that a text may parse before its expansion and
\* not after it, and the other way round; one has a "$".
MCEnv == (<<"v">> :> <<"x", "$">>) @@ (<<"w">> :> <<"}">>)

MCChar == {"$", "{", "}", " ", "newline", "quote", "a", "b", "r", "v", "w", "x"}

MCTexts == {<<"a", "$", "{", "v", "}", "b">>,
            <<"$", "{", "w", "}">>,
            <<"{", "$", "{", "w", "}">>,
            <<"b">>}

MCRemoteTexts == {<<"r">>}

\* expandEnv against its meaning, for every text of up to six characters.
MCShortTexts == UNION {[1 .. n -> {"$", "{", "}", " ", "v", "w"}] : n \in 0 .. 6}
ASSUME MCExpandsAsMeant == \A s \in MCShortTexts : expandEnv(s) = Expansion(s)
=============================================================================
