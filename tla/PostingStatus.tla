----------------------------- MODULE PostingStatus -----------------------------
(***************************************************************************)
(* What the application tells about posting restrictions: the status of a   *)
(* restriction, in code and in SQL, and the status page of the user.        *)
(***************************************************************************)
EXTENDS PostSystem

RestrictionStatus == {"SCHEDULED", "ACTIVE", "EXPIRED", "LIFTED"}

\* A stored row; a row keeps its window when it is lifted.
RestrictionRow == [from : Nat, until : Nat \cup {Forever}, lifted : BOOLEAN]

\* The status of a row at one instant, as the code derives it.
StatusAt(row, now) ==
  IF row.lifted THEN "LIFTED"
  ELSE IF InForce(row, now) THEN "ACTIVE"
  ELSE IF row.from > now THEN "SCHEDULED"
  ELSE "EXPIRED"

\* The rows an administrator finds by asking for a status.
StatusSql(row, status, now) ==
  CASE status = "LIFTED"    -> row.lifted
    [] status = "SCHEDULED" -> ~row.lifted /\ row.from > now
    [] status = "ACTIVE"    -> ~row.lifted /\ row.from <= now /\ EndsAfter(row, now)
    [] status = "EXPIRED"   -> ~row.lifted /\ ~EndsAfter(row, now)

-----------------------------------------------------------------------------
(* The status page of a user *)

\* A restriction in force or to come, and whom it was issued against.
Issued == UNION {{[owner |-> s, window |-> r] : r \in restrictions[s]} : s \in Sellers}

\* The WHERE clause of getMyPostingRestrictionStatus for a row that has not
\* been lifted.  The last condition is a string with OR in it, which the query
\* builder joins to the others without parentheses; AND binds closer.
StatusQuery(s, row) ==
  \/ row.owner = s /\ row.window.from > clock
  \/ row.window.until = Forever
  \/ EndsAfter(row.window, clock)

\* What the page shows as active and as scheduled.
ActiveShown(s) ==
  {row \in Issued : StatusQuery(s, row) /\ InForce(row.window, clock)}

ScheduledShown(s) ==
  {row \in Issued : StatusQuery(s, row) /\ row.window.from > clock}

\* Documented: the status page exposes the authenticated user's restrictions
\* only; isRestricted and canCreatePost are derived from them.
StatusIsOwn ==
  \A s \in Sellers :
    \A row \in ActiveShown(s) \cup ScheduledShown(s) : row.owner = s

=============================================================================
