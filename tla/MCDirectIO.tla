----------------------------- MODULE MCDirectIO ------------------------------
EXTENDS DirectIO

(* How the threads of a run share the file: all of them append, or one     *)
(* writes up to and past the end while the others write inside of it.      *)
(* Which one grows the file does not matter.                               *)
Grower == CHOOSE u \in Users : TRUE
Disciplined ==
    {[u \in Users |-> "append"],
     [u \in Users |-> IF u = Grower THEN "grow" ELSE "overwrite"]}
=============================================================================
