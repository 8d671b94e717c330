----------------------------- MODULE OneTimeKeys -----------------------------
(* What LoginKey promises (djangoapp/models/login_key.py): a key opens at     *)
(* most one session, ever; a spent or withdrawn key never opens again.        *)
EXTENDS Integers

CONSTANT Keys

VARIABLES
  status,  \* of each key: "new", "open", "spent" or "gone"
  owed,    \* spent keys whose session is not open yet
  logins   \* how many sessions each key has opened

keyVars == <<status, owed, logins>>

Init ==
  /\ status = [k \in Keys |-> "new"]
  /\ owed = {}
  /\ logins = [k \in Keys |-> 0]

Issue(k) ==
  /\ status[k] = "new"
  /\ status' = [status EXCEPT ![k] = "open"]
  /\ UNCHANGED <<owed, logins>>

Spend(k) ==
  /\ status[k] = "open"
  /\ status' = [status EXCEPT ![k] = "spent"]
  /\ owed' = owed \cup {k}
  /\ UNCHANGED logins

\* The session opens, or its request dies first.
Settle(k) ==
  /\ k \in owed
  /\ owed' = owed \ {k}
  /\ logins' \in {logins, [logins EXCEPT ![k] = @ + 1]}
  /\ UNCHANGED status

\* A sweep withdraws any number of keys at once.
Withdraw ==
  /\ \E swept \in SUBSET {k \in Keys : status[k] \in {"open", "spent"}} :
       status' = [k \in Keys |-> IF k \in swept THEN "gone" ELSE status[k]]
  /\ UNCHANGED <<owed, logins>>

Next == Withdraw \/ \E k \in Keys : Issue(k) \/ Spend(k) \/ Settle(k)

Spec == Init /\ [][Next]_keyVars

=============================================================================
