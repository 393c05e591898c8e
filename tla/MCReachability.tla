--------------------------- MODULE MCReachability ----------------------------
(* Reachability on every control-flow graph of a small shape. *)
EXTENDS Reachability

(* One function of four blocks, the last without a branch. *)
One == {"a", "b", "c", "d"}
OneFunction ==
  {[func |-> [b \in One |-> "main"], succ |-> s, calls |-> [b \in One |-> << >>],
    entry |-> [f \in {"main"} |-> "a"]]
     : s \in {t \in [One -> {<< >>} \cup {<<b>> : b \in One}
                             \cup {<<"b", c>> : c \in One \ {"b"}}] : Len(t["d"]) < 2}}

(* main with blocks a, b and f with blocks p, q, all but q may call f.  A block *)
(* may have the same successor twice, as a switch does.                      *)
Main == {"a", "b"}
Callee == {"p", "q"}
Pairs(b, c) == {<< >>, <<c>>, <<b, c>>, <<c, c>>}
TwoFunctions ==
  {[func |-> [b \in Main \cup Callee |-> IF b \in Main THEN "main" ELSE "f"],
    succ |-> [b \in Main \cup Callee |-> CASE b = "a" -> s[1] [] b = "b" -> s[2]
                                           [] b = "p" -> s[3] [] b = "q" -> s[4]],
    calls |-> [b \in Main \cup Callee |-> IF b \in called THEN <<"f">> ELSE << >>],
    entry |-> [f \in {"main", "f"} |-> IF f = "main" THEN "a" ELSE "p"]]
     : s \in Pairs("a", "b") \X {<< >>, <<"a">>} \X Pairs("p", "q") \X {<< >>, <<"p">>},
       called \in SUBSET {"a", "b", "p"}}

SmallPrograms == OneFunction \cup TwoFunctions

(* Without recursion: f is called from main alone, and all of f is executed. *)
CalledFromMain ==
  {g \in TwoFunctions : g.calls["p"] = << >> /\ "q" \in Range(g.succ["p"])}
=============================================================================
