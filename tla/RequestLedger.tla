---------------------------- MODULE RequestLedger ----------------------------
(***************************************************************************)
(* What the event pipeline promises about server requests, whatever queues *)
(* and tasks it is made of: a request is issued once, settled at most      *)
(* once, never changes after that, and is settled with "accept" only if    *)
(* the user accepted that very request.                                    *)
(***************************************************************************)
EXTENDS Naturals

CONSTANT MaxRequests

VARIABLES outcome,  \* per request: "unsent", "pending" or its settlement
          accepted  \* requests the user accepted

Requests == 1..MaxRequests
Final == {"accept", "decline", "error", "cancelled"}

Init == /\ outcome = [r \in Requests |-> "unsent"]
        /\ accepted = {}

Issue(r) == /\ outcome[r] = "unsent"
            /\ outcome' = [outcome EXCEPT ![r] = "pending"]
            /\ UNCHANGED accepted

UserAccepts(r) == /\ accepted' = accepted \cup {r}
                  /\ UNCHANGED outcome

\* Several requests may be settled together: a turn that ends takes all its
\* pending requests with it.
Settle(S, final) ==
  /\ \A r \in S : outcome[r] = "pending"
  /\ final = "accept" => S \subseteq accepted
  /\ outcome' = [r \in Requests |-> IF r \in S THEN final ELSE outcome[r]]
  /\ UNCHANGED accepted

Next == \/ \E r \in Requests : Issue(r) \/ UserAccepts(r)
        \/ \E S \in SUBSET Requests, final \in Final : Settle(S, final)

Spec == Init /\ [][Next]_<<outcome, accepted>>
=============================================================================
