------------------------------- MODULE MCPanel -------------------------------
(***************************************************************************)
(* Small instances, for TLC and in one run, of what is behind the admin    *)
(* panel: AdminSessions, AdminUsers and Retention.  They share no state:   *)
(* part says which of them a behaviour is of, and the others stay where    *)
(* they are.                                                               *)
(***************************************************************************)
EXTENDS AdminUsers, AdminSessions, Retention, TLC

CONSTANTS r1, v1

VARIABLE part

\* A token of the first stage ends with the tick that follows it, one for the
\* enrolment lives through one more.
Lifetimes == [k \in Kinds |-> IF k = "mfa" THEN 0 ELSE 1]

\* Months of two and three days, in years of two, the second one a leap year.
Calendar == <<3, 2, 3, 3, 2, 3, 2>>

\* With r2 for r1, or another superadmin for v1, it would be the same.  A part that
\* stays where it is has one beginning.
Init ==
  /\ part \in {"sessions", "users", "retention"}
  /\ SessionsInit
  /\ \A u \in People : person[u].role = r1
  /\ UsersInit
  /\ roles[v1] = {"superadmin"}
  /\ part # "users" => \A u \in Accounts : roles[u] = {"superadmin"}
  /\ RetentionInit

Next ==
  /\ UNCHANGED part
  /\ \/ /\ part = "sessions" /\ SessionsNext
        /\ UNCHANGED <<usersVars, retentionVars>>
     \/ /\ part = "users" /\ UsersNext
        /\ UNCHANGED <<sessionsVars, retentionVars>>
     \/ /\ part = "retention" /\ RetentionNext
        /\ UNCHANGED <<sessionsVars, usersVars>>

Spec == Init /\ [][Next]_<<part, sessionsVars, usersVars, retentionVars>>

\* Sound for safety: the properties tell none of these, Handlers, Clients and
\* Accounts too, from another.
Symmetric == Permutations(Conns) \cup Permutations(Secrets) \cup Permutations(Tickets)
=============================================================================
