---------------------------- MODULE LoginPromise ----------------------------
(***************************************************************************)
(* What a password login promises its user, without any of the goroutines  *)
(* that bring it about: a login is open until it is decided; linking an    *)
(* account is irrevocable from the moment the commit is claimed, so a      *)
(* claimed login cannot be given up; an account is stored exactly when the *)
(* verdict is "linked"; a login that is gone stays gone.                   *)
(***************************************************************************)
CONSTANT Flows

VARIABLES entry,    \* what a look at the login shows
          stored    \* is its account in the store?

Init == /\ entry = [f \in Flows |-> "absent"]
        /\ stored = [f \in Flows |-> FALSE]

Open(f) == /\ entry[f] = "absent"
           /\ entry' = [entry EXCEPT ![f] = "open"]
           /\ UNCHANGED stored

\* refused, failed or handed on to the second factor: nothing is stored
Reject(f) == /\ entry[f] \in {"open", "committing"}
             /\ \E verdict \in {"failed", "mfa"} :
                   /\ entry[f] = "committing" => verdict = "failed"
                   /\ entry' = [entry EXCEPT ![f] = verdict]
             /\ UNCHANGED stored

ClaimCommit(f) == /\ entry[f] = "open"
                  /\ entry' = [entry EXCEPT ![f] = "committing"]
                  /\ UNCHANGED stored

Store(f) == /\ entry[f] = "committing"
            /\ entry' = [entry EXCEPT ![f] = "kept"]
            /\ stored' = [stored EXCEPT ![f] = TRUE]

Link(f) == /\ entry[f] = "kept"
           /\ entry' = [entry EXCEPT ![f] = "linked"]
           /\ UNCHANGED stored

\* any number of logins are given up or collected at once (shutdown does), none of
\* them while its commit is under way
Retire(retired) ==
    /\ \A f \in retired : entry[f] \in {"open", "linked", "mfa", "failed"}
    /\ entry' = [f \in Flows |-> IF f \in retired THEN "gone" ELSE entry[f]]
    /\ UNCHANGED stored

Next == \/ \E f \in Flows : \/ Open(f) \/ Reject(f) \/ ClaimCommit(f) \/ Store(f) \/ Link(f)
        \/ \E retired \in SUBSET Flows : Retire(retired)

Spec == Init /\ [][Next]_<<entry, stored>>
=============================================================================
