--------------------------------- MODULE Desk ---------------------------------
(***************************************************************************)
(* The administrators' desk: ReportsService decides reports, and            *)
(* ModerationService warns and restricts the users they concern.            *)
(*                                                                         *)
(* Deciding is one transaction: it waits for the other decisions about the  *)
(* same target, locks the report and looks at it again, locks the post or   *)
(* the user it acts on, and writes the administrator's id, whose foreign    *)
(* key takes a share of the administrator's own row.  A warning and a       *)
(* restriction hold the row of their user, and their foreign keys share the *)
(* administrator's row and that of a report they cite.  That is why         *)
(* administrators can wait for each other in a circle; the database then    *)
(* ends one of them.                                                        *)
(***************************************************************************)
EXTENDS Reviews

CONSTANTS
  Reports,  \* identifiers of reports
  Target    \* the post or the user each report is about

ASSUME DeskAssumption ==
  /\ Target \in [Reports -> Posts \cup Users]
  /\ Staff \cap Clients = {} /\ None \notin Clients \cup Reports
  /\ Reports \cap (Posts \cup Users) = {}
  /\ IsFiniteSet(Staff)

VARIABLES
  reports,  \* the reports table
  desk      \* what each administrator's request is doing

deskVars == <<reports, desk>>

Decided == {"dismissed", "resolved"}

Report == [status : {"none", "pending"} \cup Decided, by : Staff \cup {None}]

DeskKinds == {"dismiss", "hide", "ban", "warn", "restrict", "lock", "unlock"}

\* at counts the statements: the header of the report is read, its target is
\* reserved and its row locked, the row acted on is locked, and the own one
\* shared.  report is the one decided, cites the one a warning or a restriction
\* is issued for (sourceReportId).
Duty == [kind : DeskKinds \cup {"none"}, at : {"begun", "entered", "acting", "signed"},
         report : Reports \cup {None}, target : Posts \cup Users \cup {None},
         cites : Reports \cup {None}]

AtEase == [kind |-> "none", at |-> "begun", report |-> None, target |-> None,
           cites |-> None]

DeskTypeOK ==
  /\ reports \in [Reports -> Report]
  /\ desk \in [Staff -> Duty]

DeskInit ==
  /\ reports = [r \in Reports |-> [status |-> "none", by |-> None]]
  /\ desk = [a \in Staff |-> AtEase]

-----------------------------------------------------------------------------
(* Requests *)

\* createReport: a user reports a post, or another user.
CreateReport(r) ==
  /\ reports[r].status = "none"
  /\ Target[r] \in Posts => ~posts[Target[r]].deleted
  /\ reports' = [reports EXCEPT ![r].status = "pending"]
  /\ UNCHANGED <<reviewVars, desk>>

\* The guards let an administrator in who may log in and acts on somebody else;
\* a report about oneself can be dismissed.
Begin(a, duty) ==
  /\ desk[a] = AtEase /\ a \notin locked
  /\ duty.kind # "dismiss" => duty.target # a
  /\ desk' = [desk EXCEPT ![a] = duty]

\* Commit or roll back.
Leave(a) ==
  /\ desk' = [desk EXCEPT ![a] = AtEase]
  /\ locks' = {l \in locks : l.by # a}

Granted(a, row, mode) ==
  /\ Grantable(a, row, mode)
  /\ locks' = locks \cup {[by |-> a, row |-> row, mode |-> mode]}

Go(a, where) == desk' = [desk EXCEPT ![a].at = where]

-----------------------------------------------------------------------------
(* Deciding a report *)

HandleAction(a, r, kind) ==
  /\ reports[r].status # "none"
  /\ kind \in CASE Target[r] \in Posts -> {"dismiss", "hide"}
                [] OTHER -> {"dismiss", "ban"}
  /\ Begin(a, [AtEase EXCEPT !.kind = kind, !.report = r, !.target = Target[r]])
  /\ UNCHANGED <<reviewVars, reports>>

Deciding(a) == desk[a].report # None

\* Nobody else decides a report about the same target: pg_advisory_xact_lock.
Turn(a) ==
  \A b \in Staff : ~(Deciding(b) /\ desk[b].at # "begun" /\ desk[b].target = desk[a].target)

\* Mutant: the report is not looked at again.
EnterReportUnread(a) ==
  /\ Deciding(a) /\ desk[a].at = "begun"
  /\ Turn(a)
  /\ Granted(a, desk[a].report, "update") /\ Go(a, "entered")
  /\ UNCHANGED <<locked, posts, reviews, call, reports>>

\* The advisory lock of the target, then the row of the report FOR UPDATE; one
\* that is decided meanwhile is refused.
EnterReport(a) ==
  LET r == desk[a].report IN
  /\ Deciding(a) /\ desk[a].at = "begun"
  /\ Turn(a)
  /\ IF reports[r].status = "pending"
     THEN Granted(a, r, "update") /\ Go(a, "entered")
     ELSE Grantable(a, r, "update") /\ Leave(a)
  /\ UNCHANGED <<locked, posts, reviews, call, reports>>

\* The user to be banned, or the post to be hidden, FOR UPDATE.
LockSubject(a) ==
  LET t == desk[a].target IN
  /\ desk[a].at = "entered" /\ desk[a].kind \in {"ban", "hide"}
  /\ IF t \in Posts /\ posts[t].deleted
     THEN Grantable(a, t, "update") /\ Leave(a)
     ELSE Granted(a, t, "update") /\ Go(a, "acting")
  /\ UNCHANGED <<locked, posts, reviews, call, reports>>

\* The row of the administrator can be shared.
MaySign(a) == Grantable(a, a, "share")

\* This report alone is dismissed.
Dismiss(a) ==
  /\ desk[a].kind = "dismiss" /\ desk[a].at = "entered"
  /\ MaySign(a)
  /\ reports' = [reports EXCEPT ![desk[a].report] = [status |-> "dismissed", by |-> a]]
  /\ Leave(a)
  /\ UNCHANGED <<locked, posts, reviews, call>>

\* Every pending report about the target is resolved.
Resolved(a) ==
  [r \in Reports |-> IF Target[r] = desk[a].target /\ reports[r].status = "pending"
                     THEN [status |-> "resolved", by |-> a] ELSE reports[r]]

Resolve(a) ==
  LET t == desk[a].target IN
  /\ desk[a].kind \in {"ban", "hide"} /\ desk[a].at = "acting"
  /\ MaySign(a)
  /\ locked' = IF desk[a].kind = "ban" THEN locked \cup {t} ELSE locked
  /\ posts' = IF desk[a].kind = "hide" THEN [posts EXCEPT ![t].status = "hidden"] ELSE posts
  /\ reports' = Resolved(a)
  /\ Leave(a)
  /\ UNCHANGED <<reviews, call>>

-----------------------------------------------------------------------------
(* Acting on a user without deciding a report *)

\* ensureReportConcernsUser: a report about the user, or about a post of theirs.
Concerns(r, u) == Target[r] = u \/ (Target[r] \in Posts /\ SellerOf[Target[r]] = u)

\* A warning or a restriction may cite a report, in any state, or none.
Moderate(a, u, kind, cited) ==
  /\ kind \in {"warn", "restrict", "lock", "unlock"}
  /\ cited # None => /\ kind \in {"warn", "restrict"}
                     /\ reports[cited].status # "none" /\ Concerns(cited, u)
  /\ Begin(a, [AtEase EXCEPT !.kind = kind, !.target = u, !.cites = cited])
  /\ UNCHANGED <<reviewVars, reports>>

\* Mutant: the user is locked FOR UPDATE.
LockPostingUserForUpdate(a) ==
  /\ desk[a].kind = "restrict" /\ desk[a].at = "begun"
  /\ Granted(a, desk[a].target, "update")
  /\ Go(a, "acting")
  /\ UNCHANGED <<locked, posts, reviews, call, reports>>

\* lockPostingUser: FOR NO KEY UPDATE, beside the shares of foreign keys.
LockPostingUser(a) ==
  /\ desk[a].kind = "restrict" /\ desk[a].at = "begun"
  /\ Granted(a, desk[a].target, "nokey")
  /\ Go(a, "acting")
  /\ UNCHANGED <<locked, posts, reviews, call, reports>>

\* The row of a warning has three foreign keys, which are checked one after the
\* other in the order of their creation: the user, the issuer, the report.
ShareTarget(a) ==
  /\ desk[a].kind = "warn" /\ desk[a].at = "begun"
  /\ Granted(a, desk[a].target, "share")
  /\ Go(a, "acting")
  /\ UNCHANGED <<locked, posts, reviews, call, reports>>

\* The foreign key of the issuer, after which one that cites no report is
\* complete; PostLifecycle says what a restriction does.
Sign(a) ==
  /\ desk[a].kind \in {"warn", "restrict"} /\ desk[a].at = "acting"
  /\ IF desk[a].cites = None THEN MaySign(a) /\ Leave(a)
     ELSE Granted(a, a, "share") /\ Go(a, "signed")
  /\ UNCHANGED <<locked, posts, reviews, call, reports>>

\* The foreign key of the report is the last: nothing that could wait follows.
Cite(a) ==
  /\ desk[a].at = "signed"
  /\ Grantable(a, desk[a].cites, "share")
  /\ Leave(a)
  /\ UNCHANGED <<locked, posts, reviews, call, reports>>

\* lockAccount and unlockAccount sign nothing.
SwitchLock(a) ==
  LET u == desk[a].target IN
  /\ desk[a].kind \in {"lock", "unlock"}
  /\ Grantable(a, u, "update")
  /\ locked' = IF desk[a].kind = "lock" THEN locked \cup {u} ELSE locked \ {u}
  /\ Leave(a)
  /\ UNCHANGED <<posts, reviews, call, reports>>

\* The request fails, or the database ends it to break a circle.
AbortDuty(a) ==
  /\ desk[a] # AtEase
  /\ Leave(a)
  /\ UNCHANGED <<locked, posts, reviews, call, reports>>

DutyStep(a) ==
  \/ EnterReport(a) \/ LockSubject(a) \/ Dismiss(a) \/ Resolve(a)
  \/ LockPostingUser(a) \/ ShareTarget(a) \/ Sign(a) \/ Cite(a) \/ SwitchLock(a)
  \/ AbortDuty(a)

-----------------------------------------------------------------------------
(* Waiting *)

\* The lock the next statement of a asks for, if it asks for one.
Wanted(a) ==
  LET d == desk[a] IN
  CASE d.at = "signed" -> {[row |-> d.cites, mode |-> "share"]}
    [] d.at = "acting" -> {[row |-> a, mode |-> "share"]}
    [] d.at = "entered" /\ d.kind = "dismiss" -> {[row |-> a, mode |-> "share"]}
    [] d.at = "entered" /\ d.kind # "dismiss" -> {[row |-> d.target, mode |-> "update"]}
    [] d.at = "begun" /\ Deciding(a) -> {[row |-> d.report, mode |-> "update"]}
    [] d.at = "begun" /\ d.kind = "restrict" -> {[row |-> d.target, mode |-> "nokey"]}
    [] d.at = "begun" /\ d.kind = "warn" -> {[row |-> d.target, mode |-> "share"]}
    [] d.at = "begun" /\ d.kind \in {"lock", "unlock"} -> {[row |-> d.target, mode |-> "update"]}
    [] OTHER -> {}

\* a waits for b: for a lock of b, or for its turn at the target.
Waits(a, b) ==
  /\ a # b
  /\ \/ \E w \in Wanted(a), l \in locks :
          l.by = b /\ l.row = w.row /\ Conflict(l.mode, w.mode)
     \/ /\ Deciding(a) /\ desk[a].at = "begun"
        /\ Deciding(b) /\ desk[b].at # "begun" /\ desk[b].target = desk[a].target
=============================================================================
