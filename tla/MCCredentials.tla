---------------------------- MODULE MCCredentials ----------------------------
(* The instance TLC checks Credentials on: ways to set up one secret, and     *)
(* combinations of them over the three.                                       *)
EXTENDS Credentials

One(o, f, v) == [options |-> o, file |-> f, vars |-> v]

Unset == One({}, "missing", {})
Given == {One({}, "missing", {"default"}), One({"value"}, "missing", {"default"}),
          One({"file"}, "first", {}), One({"env"}, "missing", {"own"})}
\* A file that is missing, with and without the variable to fall back on, or
\* blank; a variable that is not set.
Odd == {One({"file"}, "missing", {"default"}), One({"file"}, "missing", {}),
        One({"file"}, "blank", {}), One({"env"}, "missing", {})}

Combination(id, secret, key) ==
    LET w == [k \in Secrets |-> CASE k = "id" -> id [] k = "secret" -> secret [] OTHER -> key]
    IN  [options |-> [k \in Secrets |-> w[k].options],
         files |-> [k \in Secrets |-> w[k].file],
         env |-> UNION {{<<k, v>> : v \in w[k].vars} : k \in Secrets} \cup {TS_AUTH_KEY}]

\* An auth key in every way, an OAuth client in several, some with a half in an
\* odd way, and mixtures of all three.
AllSetups ==
    LET some == One({}, "missing", {"default"})
        file == One({"file"}, "first", {})
    IN  {Combination(Unset, Unset, w) : w \in Given \cup Odd \cup {Unset}}
        \cup {Combination(w, some, Unset) : w \in Given \cup Odd \cup {Unset}}
        \cup {Combination(file, w, Unset) : w \in {file, Unset} \cup Odd}
        \cup {Combination(v, w, some) : v, w \in {Unset, some, file}}
=============================================================================
