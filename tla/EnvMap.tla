------------------------------- MODULE EnvMap -------------------------------
(***************************************************************************)
(* What a program expects of its environment: a map from names to values.  *)
(* setenv and unsetenv change one name; when there is no room, setenv may  *)
(* fail, and then it changes nothing.                                      *)
(***************************************************************************)
EXTENDS Functions

CONSTANTS Names, Values, Default

VARIABLE environ

Init == environ = Default

Set(name, value, overwrite) ==
  /\ overwrite \/ name \notin DOMAIN environ
  /\ environ' = [n \in DOMAIN environ \cup {name} |-> IF n = name THEN value ELSE environ[n]]

Unset(name) == environ' = Restrict(environ, DOMAIN environ \ {name})

Next == \E name \in Names :
          \/ \E value \in Values, overwrite \in BOOLEAN : Set(name, value, overwrite)
          \/ Unset(name)

Spec == Init /\ [][Next]_environ
=============================================================================
