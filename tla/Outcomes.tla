------------------------------ MODULE Outcomes ------------------------------
(***************************************************************************)
(* What an application that runs statements through database/sql may rely  *)
(* on, whatever happens to connections: a statement is applied at most     *)
(* once, the answer it gets is final, and the answers "ok" and             *)
(* "rolledBack" are true from then on.  "failed" promises nothing: the     *)
(* statement may have been applied, and may still be.                      *)
(***************************************************************************)
EXTENDS Integers

CONSTANT Work

VARIABLES applied, status

vars == <<applied, status>>

Final == {"ok", "failed", "rolledBack"}

Init ==
    /\ applied = [w \in Work |-> 0]
    /\ status = [w \in Work |-> "submitted"]

\* Some statements are applied and some are answered, in one step.
Next ==
    /\ \E now \in SUBSET {w \in Work : applied[w] = 0 /\ status[w] \notin {"ok", "rolledBack"}} :
          applied' = [w \in Work |-> IF w \in now THEN 1 ELSE applied[w]]
    /\ status' \in [Work -> Final \union {"submitted", "inTx"}]
    /\ \A w \in Work :
          /\ status[w] \in Final => status'[w] = status[w]
          /\ status[w] = "inTx" => status'[w] # "submitted"
          /\ status'[w] = "ok" => applied'[w] = 1
          /\ status'[w] = "rolledBack" => applied'[w] = 0

Spec == Init /\ [][Next]_vars
=============================================================================
