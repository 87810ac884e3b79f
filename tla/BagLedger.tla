----------------------------- MODULE BagLedger ------------------------------
(***************************************************************************)
(* What the proxy promises about the books of one tenant, without caches,  *)
(* goroutines or faults: each request gets one outcome for good, the       *)
(* client may be told that outcome and nothing else, and a request with an *)
(* outcome worth recording is booked at most once, in the column of its    *)
(* own outcome.  A request may be forgotten at any moment: nothing here    *)
(* promises that an outcome is told or booked.                             *)
(***************************************************************************)
EXTENDS Integers

CONSTANTS Requests, OpeningBalance

VARIABLES outcome,  \* the outcome of each request, "none" before there is one
          told,     \* what its client was told
          booked,   \* the requests in the books
          ledger    \* requests booked, in total and by outcome

ledgerVars == <<outcome, told, booked, ledger>>

Bookable == {"success", "error", "rejected"}
Entries  == Bookable \cup {"total"}

\* A refused client learns it at once; the others may wait.
Wording(o) == CASE o = "success" -> {"stamp"}
                [] o = "error" -> {"unavailable"}
                [] o = "rejected" -> {"quota_exceeded"}
                [] OTHER -> {"unavailable", "internal"}

Init == /\ outcome = [r \in Requests |-> "none"]
        /\ told = [r \in Requests |-> "none"]
        /\ booked = {}
        /\ ledger = [e \in Entries |->
                       IF e \in {"total", "success"} THEN OpeningBalance ELSE 0]

Tell(r, o) == told' \in {[told EXCEPT ![r] = w] : w \in Wording(o)}

Conclude(r, o) ==
  /\ outcome[r] = "none"
  /\ outcome' = [outcome EXCEPT ![r] = o]
  /\ \/ Tell(r, o)
     \/ o \in {"success", "error"} /\ UNCHANGED told
  /\ UNCHANGED <<booked, ledger>>

Inform(r) ==
  /\ outcome[r] \in {"success", "error"}
  /\ told[r] = "none"
  /\ Tell(r, outcome[r])
  /\ UNCHANGED <<outcome, booked, ledger>>

Book(r) ==
  /\ outcome[r] \in Bookable
  /\ r \notin booked
  /\ booked' = booked \cup {r}
  /\ ledger' = [e \in Entries |->
                  IF e \in {"total", outcome[r]} THEN ledger[e] + 1 ELSE ledger[e]]
  /\ UNCHANGED <<outcome, told>>

Next == \E r \in Requests : \/ \E o \in Bookable \cup {"unserved"} : Conclude(r, o)
                            \/ Inform(r)
                            \/ Book(r)

Spec == Init /\ [][Next]_ledgerVars
=============================================================================
