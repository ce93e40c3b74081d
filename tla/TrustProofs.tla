------------------------------ MODULE TrustProofs ------------------------------
(***************************************************************************)
(* Proofs about reviews, the administrators' desk and the pages, for any     *)
(* numbers of posts, requests, administrators and instances.                *)
(***************************************************************************)
EXTENDS TrustSystem, TLAPS, FiniteSetTheorems, WellFoundedInduction

-----------------------------------------------------------------------------
(* The requests at the desk *)

\* Request a begins duty d.
Begins(a, d) ==
  /\ desk[a] = AtEase /\ desk' = [desk EXCEPT ![a] = d] /\ UNCHANGED <<locks, reports>>
  /\ d \in Duty /\ d.at = "begun" /\ (d.kind # "dismiss" => d.target # a)
  /\ \/ /\ d.report = None /\ d.target \in Users
        /\ d.kind \in {"warn", "restrict", "lock", "unlock"}
        /\ d.cites # None => Concerns(d.cites, d.target)
     \/ /\ d.report \in Reports /\ d.target = Target[d.report] /\ d.cites = None
        /\ d.kind \in {"dismiss", IF d.target \in Posts THEN "hide" ELSE "ban"}

\* Request a goes on with its duty, which is d now.
GoesOn(a, d) ==
  /\ desk[a] # AtEase /\ desk' = [desk EXCEPT ![a] = d] /\ UNCHANGED reports
  /\ d \in Duty /\ d # AtEase
  /\ d.kind = desk[a].kind /\ d.report = desk[a].report /\ d.target = desk[a].target
  /\ d.cites = desk[a].cites

\* It locks one more row.
Adds(a, row, mode) == locks' = locks \cup {[by |-> a, row |-> row, mode |-> mode]}

\* It gets its turn at the target of its report, and the report.
Enters(a, d) ==
  /\ GoesOn(a, d) /\ desk[a].at = "begun" /\ d.at = "entered"
  /\ Adds(a, desk[a].report, "update")
  /\ Deciding(a) /\ reports[desk[a].report].status = "pending" /\ Turn(a)

\* It gets the lock on the row it acts on.
Takes(a, d) ==
  /\ GoesOn(a, d) /\ d.at = "acting"
  /\ Adds(a, desk[a].target, ModeOf(desk[a].kind))
  /\ \/ desk[a].at = "entered" /\ d.kind \in {"ban", "hide"}
     \/ desk[a].at = "begun" /\ d.kind \in {"warn", "restrict"}

\* It gets the share of its own row, and has the report it cites left.
Signs(a, d) ==
  /\ GoesOn(a, d) /\ desk[a].at = "acting" /\ d.at = "signed"
  /\ d.kind \in {"warn", "restrict"} /\ d.cites # None
  /\ Adds(a, a, "share")

\* It ends.
Ends(a) ==
  /\ Leave(a)
  /\ \/ UNCHANGED reports
     \/ Dismiss(a)
     \/ Resolve(a)

\* A duty under way is fit, typed and not blank.
LEMMA DutyIs ==
  ASSUME TypeOK, DutiesFit, NEW a \in Staff
  PROVE  /\ desk[a] \in Duty
         /\ desk[a] # AtEase =>
              /\ desk[a].kind \in DeskKinds
              /\ desk[a].report = None => desk[a].target \in Users
              /\ desk[a].report # None =>
                   desk[a].report \in Reports /\ desk[a].target = Target[desk[a].report]
         /\ Deciding(a) => desk[a] # AtEase
BY DEF TypeOK, DeskTypeOK, DutiesFit, Duty, DeskKinds, Deciding, AtEase

\* A duty that goes on keeps its type.
LEMMA DutyGoes ==
  ASSUME NEW d \in Duty, NEW at \in {"begun", "entered", "acting", "signed"}
  PROVE  /\ [d EXCEPT !.at = at] \in Duty
         /\ [d EXCEPT !.at = at].at = at
         /\ [d EXCEPT !.at = at].kind = d.kind
         /\ [d EXCEPT !.at = at].report = d.report
         /\ [d EXCEPT !.at = at].target = d.target
         /\ [d EXCEPT !.at = at].cites = d.cites
BY DEF Duty

\* Going to a statement keeps the rest of the duty.
LEMMA GoGoesOn ==
  ASSUME TypeOK, DutiesFit, NEW a \in Staff, NEW at \in {"entered", "acting", "signed"}, Go(a, at),
         desk[a].kind \in DeskKinds, UNCHANGED reports
  PROVE  \E d \in Duty : GoesOn(a, d) /\ d.at = at
<1> DEFINE d == [desk[a] EXCEPT !.at = at]
<1>1. /\ d \in Duty /\ d.at = at /\ d.kind = desk[a].kind
      /\ d.report = desk[a].report /\ d.target = desk[a].target /\ d.cites = desk[a].cites
  <2>1. desk[a] \in Duty /\ at \in {"begun", "entered", "acting", "signed"}
    BY DutyIs
  <2> QED BY <2>1, DutyGoes, Zenon
<1>2. desk' = [desk EXCEPT ![a] = d]
  BY DEF Go
<1>3. AtEase.kind = "none" /\ AtEase.at = "begun" /\ "none" \notin DeskKinds
  BY DEF AtEase, DeskKinds
<1>4. desk[a] # AtEase /\ d # AtEase
  BY <1>1, <1>3
<1> HIDE DEF d
<1> QED BY <1>1, <1>2, <1>4 DEF GoesOn

\* Every step at the desk is one of these.
LEMMA DutyStepIs ==
  ASSUME TypeOK, DutiesFit, NEW a \in Staff, DutyStep(a)
  PROVE  \/ \E d \in Duty : Enters(a, d) \/ Takes(a, d) \/ Signs(a, d)
         \/ Ends(a)
<1>1. CASE EnterReport(a)
  <2>1. CASE /\ reports[desk[a].report].status = "pending" /\ Go(a, "entered")
             /\ Granted(a, desk[a].report, "update")
    <3>1. desk[a].kind \in DeskKinds
      BY <1>1, DutyIs DEF EnterReport
    <3>2. PICK d \in Duty : GoesOn(a, d) /\ d.at = "entered"
      BY <1>1, <2>1, <3>1, GoGoesOn DEF EnterReport
    <3>3. Adds(a, desk[a].report, "update")
      BY <2>1 DEF Granted, Adds
    <3> QED BY <1>1, <2>1, <3>2, <3>3 DEF EnterReport, Enters
  <2>2. CASE Leave(a)
    BY <1>1, <2>2 DEF EnterReport, Ends
  <2> QED BY <1>1, <2>1, <2>2 DEF EnterReport
<1>2. CASE LockSubject(a)
  <2>1. CASE Leave(a)
    BY <1>2, <2>1 DEF LockSubject, Ends
  <2>2. CASE Granted(a, desk[a].target, "update") /\ Go(a, "acting")
    <3>1. desk[a].kind \in {"ban", "hide"} /\ desk[a].at = "entered" /\ UNCHANGED reports
      BY <1>2 DEF LockSubject
    <3>2. PICK d \in Duty : GoesOn(a, d) /\ d.at = "acting"
      BY <2>2, <3>1, GoGoesOn DEF DeskKinds
    <3>3. Adds(a, desk[a].target, ModeOf(desk[a].kind))
      BY <2>2, <3>1 DEF Granted, Adds, ModeOf
    <3> QED BY <3>1, <3>2, <3>3 DEF Takes, GoesOn
  <2> QED BY <1>2, <2>1, <2>2 DEF LockSubject
<1>3. CASE LockPostingUser(a) \/ ShareTarget(a)
  <2>1. /\ desk[a].kind \in {"warn", "restrict"} /\ desk[a].at = "begun"
        /\ Go(a, "acting") /\ UNCHANGED reports
        /\ Granted(a, desk[a].target, IF desk[a].kind = "restrict" THEN "nokey" ELSE "share")
    BY <1>3 DEF LockPostingUser, ShareTarget
  <2>2. PICK d \in Duty : GoesOn(a, d) /\ d.at = "acting"
    BY <2>1, GoGoesOn DEF DeskKinds
  <2>3. Adds(a, desk[a].target, ModeOf(desk[a].kind))
    BY <2>1 DEF Granted, Adds, ModeOf
  <2> QED BY <2>1, <2>2, <2>3 DEF Takes, GoesOn
<1>4. CASE Sign(a)
  <2>1. CASE Leave(a)
    BY <1>4, <2>1 DEF Sign, Ends
  <2>2. CASE desk[a].cites # None /\ Granted(a, a, "share") /\ Go(a, "signed")
    <3>1. desk[a].kind \in {"warn", "restrict"} /\ desk[a].at = "acting" /\ UNCHANGED reports
      BY <1>4 DEF Sign
    <3>2. PICK d \in Duty : GoesOn(a, d) /\ d.at = "signed"
      BY <2>2, <3>1, GoGoesOn DEF DeskKinds
    <3>3. Adds(a, a, "share")
      BY <2>2 DEF Granted, Adds
    <3> QED BY <2>2, <3>1, <3>2, <3>3 DEF Signs, GoesOn
  <2> QED BY <1>4, <2>1, <2>2 DEF Sign
<1>5. CASE Dismiss(a) \/ Resolve(a) \/ Cite(a) \/ SwitchLock(a) \/ AbortDuty(a)
  BY <1>5 DEF Dismiss, Resolve, Cite, SwitchLock, AbortDuty, Ends
<1> QED BY <1>1, <1>2, <1>3, <1>4, <1>5 DEF DutyStep

\* Taking up a report, or a user, begins a duty.
LEMMA BeginIs ==
  ASSUME TypeOK, NEW a \in Staff, NEW kind \in DeskKinds,
         \/ \E r \in Reports : HandleAction(a, r, kind)
         \/ \E u \in Users, cited \in Reports \cup {None} : Moderate(a, u, kind, cited)
  PROVE  \E d \in Duty : Begins(a, d)
<1>1. ASSUME NEW r \in Reports, HandleAction(a, r, kind) PROVE \E d \in Duty : Begins(a, d)
  <2> DEFINE d == [AtEase EXCEPT !.kind = kind, !.report = r, !.target = Target[r]]
  <2>1. Target[r] \in Posts \cup Users /\ r # None
    BY DeskAssumption
  <2>2. /\ d \in Duty /\ d.kind = kind /\ d.at = "begun" /\ d.report = r
        /\ d.target = Target[r] /\ d.cites = None
    BY <2>1 DEF Duty, AtEase
  <2>3. Begin(a, d) /\ UNCHANGED <<locks, reports>>
    BY <1>1 DEF HandleAction, reviewVars
  <2>4. kind \in {"dismiss", IF Target[r] \in Posts THEN "hide" ELSE "ban"}
    BY <1>1 DEF HandleAction
  <2> HIDE DEF d
  <2> QED BY <2>2, <2>3, <2>4 DEF Begin, Begins
<1>2. ASSUME NEW u \in Users, NEW cited \in Reports \cup {None}, Moderate(a, u, kind, cited)
      PROVE  \E d \in Duty : Begins(a, d)
  <2> DEFINE d == [AtEase EXCEPT !.kind = kind, !.target = u, !.cites = cited]
  <2>1. /\ d \in Duty /\ d.kind = kind /\ d.at = "begun" /\ d.report = None
        /\ d.target = u /\ d.cites = cited
    BY DEF Duty, AtEase
  <2>2. Begin(a, d) /\ UNCHANGED <<locks, reports>>
    BY <1>2 DEF Moderate, reviewVars
  <2>3. /\ kind \in {"warn", "restrict", "lock", "unlock"}
        /\ cited # None => Concerns(cited, u)
    BY <1>2 DEF Moderate
  <2> HIDE DEF d
  <2> QED BY <2>1, <2>2, <2>3 DEF Begin, Begins
<1> QED BY <1>1, <1>2

\* What a step does to the desk, the reports and the locks of administrators.
LEMMA DeskStepIs ==
  ASSUME TypeOK, DutiesFit, DeskNext
  PROVE  \/ \E r \in Reports : CreateReport(r)
         \/ \E a \in Staff, d \in Duty :
              Begins(a, d) \/ Enters(a, d) \/ Takes(a, d) \/ Signs(a, d)
         \/ \E a \in Staff : Ends(a)
<1>1. plan.reports \subseteq Reports /\ plan.staff \subseteq Staff
      /\ plan.kinds \subseteq DeskKinds /\ plan.users \subseteq Users
  BY PlanAssumption DEF TypeOK
<1>2. CASE \E r \in plan.reports : CreateReport(r)
  BY <1>1, <1>2
<1>3. ASSUME NEW a \in plan.staff, NEW kind \in plan.kinds,
             \/ \E r \in plan.reports : HandleAction(a, r, kind)
             \/ \E u \in plan.users, cited \in plan.reports \cup {None} :
                  Moderate(a, u, kind, cited)
      PROVE  \E d \in Duty : Begins(a, d)
  BY <1>1, <1>3, BeginIs
<1>4. ASSUME NEW a \in plan.staff, DutyStep(a)
      PROVE  \/ \E d \in Duty : Enters(a, d) \/ Takes(a, d) \/ Signs(a, d)
             \/ Ends(a)
  BY <1>1, <1>4, DutyStepIs
<1> QED BY <1>1, <1>2, <1>3, <1>4 DEF DeskNext

\* The duties stay fit.
LEMMA DutiesKept ==
  ASSUME TypeOK, DutiesFit, DeskNext
  PROVE  DutiesFit' /\ desk' \in [Staff -> Duty]
<1>1. desk \in [Staff -> Duty] /\ AtEase \in Duty
  BY DEF TypeOK, DeskTypeOK, AtEase, Duty
<1>2. ASSUME NEW r \in Reports, CreateReport(r) PROVE DutiesFit' /\ desk' \in [Staff -> Duty]
  BY <1>1, <1>2 DEF CreateReport, DutiesFit
<1>3. ASSUME NEW a \in Staff, NEW d \in Duty, Begins(a, d)
      PROVE  DutiesFit' /\ desk' \in [Staff -> Duty]
  <2>1. desk' \in [Staff -> Duty] /\ desk'[a] = d /\ \A b \in Staff : b # a => desk'[b] = desk[b]
    BY <1>1, <1>3 DEF Begins
  <2>2. d.report \in Reports => d.report # None
    BY DeskAssumption
  <2>3. d.target # a \/ d.kind = "dismiss"
    BY <1>3 DEF Begins
  <2> QED BY <1>3, <2>1, <2>2, <2>3 DEF Begins, DutiesFit, Concerns
<1>4. ASSUME NEW a \in Staff, NEW d \in Duty, Enters(a, d) \/ Takes(a, d) \/ Signs(a, d)
      PROVE  DutiesFit' /\ desk' \in [Staff -> Duty]
  <2>1. desk' \in [Staff -> Duty] /\ desk'[a] = d /\ \A b \in Staff : b # a => desk'[b] = desk[b]
    BY <1>1, <1>4 DEF Enters, Takes, Signs, GoesOn
  <2>2. /\ desk[a] # AtEase /\ d.kind = desk[a].kind /\ d.report = desk[a].report
        /\ d.target = desk[a].target /\ d.cites = desk[a].cites
        /\ \/ d.at = "entered" /\ d.report # None
           \/ d.at = "acting" /\ d.kind # "dismiss"
                /\ (d.report = None => d.kind \in {"warn", "restrict"})
           \/ d.at = "signed" /\ d.kind \in {"warn", "restrict"} /\ d.cites # None
    BY <1>4 DEF Enters, Takes, Signs, GoesOn, Deciding, DutiesFit
  <2> QED BY <2>1, <2>2 DEF DutiesFit, Concerns
<1>5. ASSUME NEW a \in Staff, Ends(a) PROVE DutiesFit' /\ desk' \in [Staff -> Duty]
  <2>1. desk' = [desk EXCEPT ![a] = AtEase]
    BY <1>5 DEF Ends, Leave
  <2> QED BY <1>1, <2>1 DEF DutiesFit
<1> QED BY <1>2, <1>3, <1>4, <1>5, DeskStepIs

\* What the end of a request does to the reports: those it decides were pending,
\* and none of them is another entered request's.
LEMMA EndDecides ==
  ASSUME TypeOK, DutiesFit, TurnsTaken, NEW a \in Staff, Ends(a)
  PROVE  /\ reports' \in [Reports -> Report]
         /\ \A r \in Reports : reports'[r] # reports[r] => reports[r].status = "pending"
         /\ \A b \in Staff : b # a /\ Deciding(b) /\ desk[b].at # "begun" =>
              reports'[desk[b].report] = reports[desk[b].report]
<1>1. reports \in [Reports -> Report]
  BY DEF TypeOK, DeskTypeOK
<1>2. CASE UNCHANGED reports
  BY <1>1, <1>2
<1>3. CASE Dismiss(a)
  <2> DEFINE row == [status |-> "dismissed", by |-> a]
  <2>1. Deciding(a) /\ desk[a].at # "begun"
    BY <1>3, DeskAssumption DEF Dismiss, Deciding, DutiesFit, AtEase
  <2>2. /\ desk[a].report \in Reports /\ reports[desk[a].report].status = "pending"
        /\ row \in Report
    BY <2>1, DutyIs DEF TurnsTaken, Report, Decided, Deciding
  <2>3. reports' = [reports EXCEPT ![desk[a].report] = row]
    BY <1>3 DEF Dismiss
  <2> HIDE DEF row
  <2>4. \A b \in Staff : b # a /\ Deciding(b) /\ desk[b].at # "begun" =>
          desk[b].report # desk[a].report
    BY <2>1, DutyIs DEF TurnsTaken, Deciding
  <2> QED BY <1>1, <2>2, <2>3, <2>4, DutyIs DEF Deciding
<1>4. CASE Resolve(a)
  <2> DEFINE row == [status |-> "resolved", by |-> a]
  <2>1. row \in Report
    BY DEF Report, Decided
  <2>2. Deciding(a) /\ desk[a].at # "begun"
    BY <1>4, DeskAssumption DEF Resolve, Deciding, DutiesFit, AtEase
  <2>3. reports' = [r \in Reports |->
          IF Target[r] = desk[a].target /\ reports[r].status = "pending"
          THEN row ELSE reports[r]]
    BY <1>4 DEF Resolve, Resolved
  <2> HIDE DEF row
  <2>4. \A b \in Staff : b # a /\ Deciding(b) /\ desk[b].at # "begun" =>
          desk[b].report \in Reports /\ Target[desk[b].report] # desk[a].target
    BY <2>2, DutyIs DEF TurnsTaken, Deciding
  <2> QED BY <1>1, <2>1, <2>3, <2>4
<1> QED BY <1>2, <1>3, <1>4 DEF Ends

\* A decision is never changed by another one.
LEMMA TurnsKept ==
  ASSUME TypeOK, DutiesFit, TurnsTaken, DeskNext
  PROVE  /\ TurnsTaken' /\ reports' \in [Reports -> Report]
         /\ \A r \in Reports : reports'[r] # reports[r] => reports[r].status \notin Decided
<1>1. desk \in [Staff -> Duty] /\ reports \in [Reports -> Report]
  BY DEF TypeOK, DeskTypeOK
<1> DEFINE Goal == /\ TurnsTaken' /\ reports' \in [Reports -> Report]
                   /\ \A r \in Reports : reports'[r] # reports[r] =>
                        reports[r].status \notin Decided
<1>2. ASSUME NEW r \in Reports, CreateReport(r) PROVE Goal
  <2> DEFINE row == [reports[r] EXCEPT !.status = "pending"]
  <2>1. row \in Report /\ row.status = "pending"
    BY <1>1 DEF Report
  <2>2. /\ reports' = [reports EXCEPT ![r] = row] /\ reports[r].status = "none"
        /\ UNCHANGED desk
    BY <1>2 DEF CreateReport
  <2> HIDE DEF row
  <2>3. /\ reports' \in [Reports -> Report] /\ reports'[r] = row
        /\ \A q \in Reports : q # r => reports'[q] = reports[q]
    BY <1>1, <2>1, <2>2
  <2>4. TurnsTaken'
    <3>1. \A q \in Reports : reports[q].status = "pending" => reports'[q].status = "pending"
      BY <2>1, <2>3
    <3>2. \A b \in Staff : Deciding(b) => desk[b].report \in Reports
      BY DutyIs DEF Deciding
    <3> QED BY <2>2, <3>1, <3>2 DEF TurnsTaken, Deciding
  <2> QED BY <2>2, <2>3, <2>4 DEF Decided
<1>3. ASSUME NEW a \in Staff, NEW d \in Duty, Begins(a, d) \/ Takes(a, d) \/ Signs(a, d)
      PROVE  Goal
  <2>1. /\ desk'[a] = d /\ \A b \in Staff : b # a => desk'[b] = desk[b]
        /\ UNCHANGED reports
    BY <1>1, <1>3 DEF Begins, Takes, Signs, GoesOn
  <2>2. \/ d.at = "begun"
        \/ d.report = desk[a].report /\ d.target = desk[a].target
             /\ (d.report # None => desk[a].at # "begun")
    BY <1>3, DutyIs DEF Begins, Takes, Signs, GoesOn, DutiesFit
  <2>3. TurnsTaken'
    BY <2>1, <2>2 DEF TurnsTaken, Deciding
  <2> QED BY <1>1, <2>1, <2>3
<1>4. ASSUME NEW a \in Staff, NEW d \in Duty, Enters(a, d) PROVE Goal
  <2>1. /\ desk'[a] = d /\ \A b \in Staff : b # a => desk'[b] = desk[b]
        /\ UNCHANGED reports /\ d.report = desk[a].report /\ d.target = desk[a].target
    BY <1>1, <1>4 DEF Enters, GoesOn
  <2>2. TurnsTaken'
    BY <1>4, <2>1 DEF TurnsTaken, Deciding, Enters, Turn
  <2> QED BY <1>1, <2>1, <2>2
<1>5. ASSUME NEW a \in Staff, Ends(a) PROVE Goal
  <2>1. desk' = [desk EXCEPT ![a] = AtEase] /\ AtEase.report = None
    BY <1>5 DEF Ends, Leave, AtEase
  <2>2. /\ reports' \in [Reports -> Report]
        /\ \A r \in Reports : reports'[r] # reports[r] => reports[r].status = "pending"
        /\ \A b \in Staff : b # a /\ Deciding(b) /\ desk[b].at # "begun" =>
             reports'[desk[b].report] = reports[desk[b].report]
    BY <1>5, EndDecides
  <2>3. TurnsTaken'
    BY <1>1, <2>1, <2>2 DEF TurnsTaken, Deciding
  <2> QED BY <2>2, <2>3 DEF Decided
<1> QED BY <1>2, <1>3, <1>4, <1>5, DeskStepIs

\* The locks of administrators stay with the requests that hold them.
LEMMA DeskLocksKept ==
  ASSUME TypeOK, DutiesFit, LocksOwned, DeskNext, UNCHANGED job
  PROVE  /\ LocksOwned'
         /\ locks' \in SUBSET Lock
<1> DEFINE Goal == LocksOwned' /\ locks' \in SUBSET Lock
<1>1. desk \in [Staff -> Duty] /\ locks \in SUBSET Lock
  BY DEF TypeOK, DeskTypeOK
<1>2. ASSUME NEW r \in Reports, CreateReport(r) PROVE Goal
  BY <1>1, <1>2 DEF CreateReport, reviewVars, LocksOwned, Holds, Deciding
<1>3. ASSUME NEW a \in Staff, NEW d \in Duty, Begins(a, d) PROVE Goal
  <2>1. /\ desk[a].at = "begun" /\ UNCHANGED locks
        /\ \A b \in Staff : b # a => desk'[b] = desk[b]
    BY <1>1, <1>3 DEF Begins, AtEase
  <2> QED BY <1>1, <2>1 DEF LocksOwned, Holds, Deciding
\* Request a goes on and locks one more row.
<1>4. ASSUME NEW a \in Staff, NEW d \in Duty, GoesOn(a, d),
             NEW row, NEW mode \in Modes, Adds(a, row, mode),
             row \in Posts \cup Users \cup Reports,
             \A l : Holds(a, l) => Holds(a, l)',
             \A l : l.by = a /\ l.row = row /\ l.mode = mode => Holds(a, l)'
      PROVE  Goal
  <2> DEFINE l0 == [by |-> a, row |-> row, mode |-> mode]
  <2>1. l0 \in Lock /\ l0.by = a /\ l0.row = row /\ l0.mode = mode
    BY <1>4 DEF Lock
  <2>2. locks' = locks \cup {l0}
    BY <1>4 DEF Adds
  <2> HIDE DEF l0
  <2>3. \A b \in Staff : b # a => desk'[b] = desk[b]
    BY <1>1, <1>4 DEF GoesOn
  <2>4. ASSUME NEW b \in Staff, b # a, NEW l, Holds(b, l) PROVE Holds(b, l)'
    BY <2>3, <2>4 DEF Holds, Deciding
  <2>5. Holds(a, l0)'
    BY <1>4, <2>1
  <2>6. LocksOwned'
    <3> SUFFICES ASSUME NEW l \in locks'
                 PROVE  \/ \E b \in Staff : Holds(b, l)'
                        \/ \E i \in Instances :
                             /\ job[i].pc = "insert"
                             /\ l = [by |-> i, row |-> job[i].seller, mode |-> "nokey"]
      BY DEF LocksOwned
    <3>1. CASE l = l0
      BY <2>5, <3>1
    <3>2. CASE l \in locks
      BY <1>4, <2>4, <3>2 DEF LocksOwned
    <3> QED BY <2>2, <3>1, <3>2
  <2> QED BY <1>1, <2>1, <2>2, <2>6
<1>5. ASSUME NEW a \in Staff, NEW d \in Duty, Enters(a, d) \/ Takes(a, d) \/ Signs(a, d)
      PROVE  Goal
  <2>1. /\ GoesOn(a, d) /\ desk'[a] = d
        /\ d.kind = desk[a].kind /\ d.report = desk[a].report /\ d.target = desk[a].target
    BY <1>1, <1>5 DEF Enters, Takes, Signs, GoesOn
  <2>2. /\ desk[a].target \in Posts \cup Users
        /\ Deciding(a) => desk[a].report \in Reports
    BY <2>1, DutyIs, DeskAssumption DEF GoesOn, Deciding
  <2>3. CASE Enters(a, d)
    <3>1. \A l : Holds(a, l) => Holds(a, l)'
      BY <2>1, <2>3 DEF Enters, Holds
    <3>2. \A l : l.by = a /\ l.row = desk[a].report /\ l.mode = "update" => Holds(a, l)'
      BY <2>1, <2>3 DEF Enters, Holds, Deciding
    <3>3. Adds(a, desk[a].report, "update") /\ Deciding(a) /\ "update" \in Modes
      BY <2>3 DEF Enters, Modes
    <3> QED BY <1>4, <2>1, <2>2, <3>1, <3>2, <3>3
  <2>4. CASE Takes(a, d)
    <3>1. \A l : Holds(a, l) => Holds(a, l)'
      BY <2>1, <2>4 DEF Takes, Holds, Deciding
    <3>2. \A l : l.by = a /\ l.row = desk[a].target /\ l.mode = ModeOf(desk[a].kind)
                   => Holds(a, l)'
      BY <2>1, <2>4 DEF Takes, Holds
    <3>3. Adds(a, desk[a].target, ModeOf(desk[a].kind)) /\ ModeOf(desk[a].kind) \in Modes
      BY <2>4 DEF Takes, Modes, ModeOf
    <3> QED BY <1>4, <2>1, <2>2, <3>1, <3>2, <3>3
  <2>5. CASE Signs(a, d)
    <3>1. \A l : Holds(a, l) => Holds(a, l)'
      BY <2>1, <2>5 DEF Signs, Holds, Deciding
    <3>2. \A l : l.by = a /\ l.row = a /\ l.mode = "share" => Holds(a, l)'
      BY <2>1, <2>5 DEF Signs, Holds
    <3>3. Adds(a, a, "share") /\ "share" \in Modes /\ a \in Users
      BY <2>5 DEF Signs, Modes, Users
    <3> QED BY <1>4, <2>1, <3>1, <3>2, <3>3
  <2> QED BY <1>5, <2>3, <2>4, <2>5
<1>6. ASSUME NEW a \in Staff, Ends(a) PROVE Goal
  <2>1. /\ \A b \in Staff : b # a => desk'[b] = desk[b]
        /\ locks' = {l \in locks : l.by # a}
    BY <1>1, <1>6 DEF Ends, Leave
  <2>2. LocksOwned'
    BY <2>1 DEF LocksOwned, Holds, Deciding
  <2> QED BY <1>1, <2>1, <2>2
<1> QED BY <1>2, <1>3, <1>5, <1>6, DeskStepIs

-----------------------------------------------------------------------------
(* Reviews *)

\* The reviews and the requests about them are well typed, edits are alone, and
\* histories are chains.
ReviewsRight ==
  /\ reviews \in [Posts -> Review] /\ call \in [Clients -> Call]
  /\ EditsAlone /\ HistoryChains

\* A chain that is prolonged by an edit of the current rating is a chain.
LEMMA ChainGrows ==
  ASSUME NEW h \in Seq(Edit), NEW old \in Ratings, NEW new \in Ratings,
         \A n \in 1 .. Len(h) - 1 : h[n].new = h[n + 1].old,
         Len(h) > 0 => h[Len(h)].new = old
  PROVE  LET g == Append(h, [old |-> old, new |-> new]) IN
         /\ g \in Seq(Edit) /\ g # <<>> /\ g[Len(g)].new = new
         /\ \A n \in 1 .. Len(g) - 1 : g[n].new = g[n + 1].old
<1> DEFINE e == [old |-> old, new |-> new]
           g == Append(h, e)
<1>1. e \in Edit /\ e.old = old /\ e.new = new
  BY DEF Edit
<1> HIDE DEF e
<1>2. /\ g \in Seq(Edit) /\ Len(g) = Len(h) + 1 /\ g[Len(h) + 1] = e
      /\ \A n \in 1 .. Len(h) : g[n] = h[n]
  BY <1>1
<1>3. Len(h) \in Nat
  OBVIOUS
<1> HIDE DEF g
<1>4. g # <<>>
  BY <1>2, <1>3
<1>5. \A n \in 1 .. Len(g) - 1 : g[n].new = g[n + 1].old
  <2> TAKE n \in 1 .. Len(g) - 1
  <2>1. CASE n = Len(h)
    BY <1>1, <1>2, <1>3, <2>1
  <2>2. CASE n # Len(h)
    BY <1>2, <1>3, <2>2
  <2> QED BY <2>1, <2>2
<1> QED BY <1>1, <1>2, <1>3, <1>4, <1>5 DEF g, e

\* A request about a review that ends, or begins.
LEMMA CallMay ==
  /\ Idle \in Call /\ Idle.pc = "idle" /\ AnyRating \in Ratings
  /\ \A p \in Posts, r \in Ratings :
       /\ [Idle EXCEPT !.pc = "insert", !.post = p, !.new = r] \in Call
       /\ [Idle EXCEPT !.pc = "insert", !.post = p, !.new = r].pc = "insert"
       /\ [Idle EXCEPT !.pc = "insert", !.post = p, !.new = r].post = p
<1>1. AnyRating \in Ratings
  BY ReviewAssumption DEF AnyRating
<1>2. Idle \in Call /\ Idle.pc = "idle"
  BY <1>1 DEF Idle, Call
<1>3. \A p \in Posts, r \in Ratings :
        /\ [Idle EXCEPT !.pc = "insert", !.post = p, !.new = r] \in Call
        /\ [Idle EXCEPT !.pc = "insert", !.post = p, !.new = r].pc = "insert"
        /\ [Idle EXCEPT !.pc = "insert", !.post = p, !.new = r].post = p
  BY <1>2 DEF Call
<1> QED BY <1>1, <1>2, <1>3

\* Requests about reviews keep them right.
LEMMA ReviewsKept ==
  ASSUME TypeOK, EditsAlone, HistoryChains, ReviewNext
  PROVE  ReviewsRight'
<1>1. reviews \in [Posts -> Review] /\ call \in [Clients -> Call]
  BY DEF TypeOK, ReviewTypeOK
<1>2. /\ plan.posts \subseteq Posts /\ plan.clients \subseteq Clients
  BY PlanAssumption DEF TypeOK
<1>3. CASE UNCHANGED <<reviews, call>>
  BY <1>1, <1>3 DEF ReviewsRight, EditsAlone, HistoryChains
<1>4. CASE \E p \in plan.posts : MarkSold(p) \/ Remove(p) \/ Restore(p) \/ Lapse(p)
  BY <1>3, <1>4 DEF MarkSold, Remove, Restore, Lapse
<1>5. ASSUME NEW c \in plan.clients, NEW p \in plan.posts, NEW r \in Ratings,
             BeginReview(c, p, r)
      PROVE  ReviewsRight'
  <2> DEFINE x == [Idle EXCEPT !.pc = "insert", !.post = p, !.new = r]
  <2>1. x \in Call /\ x.pc = "insert" /\ x.post = p /\ p \in Posts /\ c \in Clients
    BY <1>2, CallMay
  <2>2. call' = [call EXCEPT ![c] = x] /\ UNCHANGED reviews /\ call[c].pc = "idle"
    BY <1>5 DEF BeginReview
  <2> HIDE DEF x
  <2>3. call' \in [Clients -> Call] /\ call'[c] = x /\ \A d \in Clients : d # c => call'[d] = call[d]
    BY <1>1, <2>1, <2>2
  <2>4. EditsAlone'
    BY <2>1, <2>2, <2>3 DEF EditsAlone
  <2> QED BY <1>1, <2>2, <2>3, <2>4 DEF ReviewsRight, HistoryChains
<1>6. ASSUME NEW c \in plan.clients, NEW p \in plan.posts, NEW r \in Ratings,
             LockReview(c, p, r)
      PROVE  ReviewsRight'
  <2> DEFINE x == [pc |-> "edit", post |-> p, old |-> reviews[p].rating, new |-> r]
  <2>1. p \in Posts /\ c \in Clients /\ reviews[p].rating \in Ratings
    BY <1>1, <1>2 DEF Review
  <2>2. x \in Call /\ x.pc = "edit" /\ x.post = p /\ x.old = reviews[p].rating
    BY <2>1 DEF Call
  <2>3. /\ call' = [call EXCEPT ![c] = x] /\ UNCHANGED reviews
        /\ reviews[p].state = "kept" /\ ReviewFree(p)
    BY <1>6 DEF LockReview
  <2> HIDE DEF x
  <2>4. call' \in [Clients -> Call] /\ call'[c] = x /\ \A d \in Clients : d # c => call'[d] = call[d]
    BY <1>1, <2>1, <2>2, <2>3
  <2>5. EditsAlone'
    BY <2>1, <2>2, <2>3, <2>4 DEF EditsAlone, ReviewFree
  <2> QED BY <1>1, <2>3, <2>4, <2>5 DEF ReviewsRight, HistoryChains
\* A request that ends, and leaves the reviews as they are.
<1>7. ASSUME NEW c \in plan.clients, call' = [call EXCEPT ![c] = Idle]
      PROVE  /\ call' \in [Clients -> Call] /\ c \in Clients /\ call'[c].pc = "idle"
             /\ \A d \in Clients : d # c => call'[d] = call[d]
  BY <1>1, <1>2, <1>7, CallMay
<1>8. ASSUME NEW c \in plan.clients, InsertReview(c) PROVE ReviewsRight'
  <2> DEFINE p == call[c].post
             x == [reviews[p] EXCEPT !.state = "kept", !.rating = call[c].new]
  <2>1. /\ call' \in [Clients -> Call] /\ c \in Clients /\ call'[c].pc = "idle"
        /\ \A d \in Clients : d # c => call'[d] = call[d]
    BY <1>7, <1>8 DEF InsertReview
  <2>2. p \in Posts /\ call[c].new \in Ratings
    BY <1>1, <1>8, <2>1 DEF InsertReview, EditsAlone, Call
  <2>3. CASE UNCHANGED reviews
    <3>1. EditsAlone'
      BY <2>1, <2>3 DEF EditsAlone
    <3> QED BY <1>1, <2>1, <2>3, <3>1 DEF ReviewsRight, HistoryChains
  <2>4. CASE reviews[p].state = "none" /\ reviews' = [reviews EXCEPT ![p] = x]
    <3>1. x \in Review /\ x.rating = call[c].new /\ x.history = reviews[p].history
          /\ x.state = "kept"
      BY <1>1, <2>2 DEF Review
    <3>2. reviews[p].history = <<>>
      BY <2>2, <2>4 DEF HistoryChains
    <3> HIDE DEF x
    <3>3. /\ reviews' \in [Posts -> Review] /\ reviews'[p] = x
          /\ \A q \in Posts : q # p => reviews'[q] = reviews[q]
      BY <1>1, <2>2, <2>4, <3>1
    <3>4. \A d \in Clients : call[d].pc = "edit" => call[d].post # p
      BY <2>4 DEF EditsAlone
    <3> HIDE DEF p
    <3>5. EditsAlone'
      BY <2>1, <3>3, <3>4 DEF EditsAlone
    <3>6. HistoryChains'
      <4> SUFFICES ASSUME NEW q \in Posts
                   PROVE  LET h == reviews'[q].history IN
                          /\ reviews'[q].state = "none" => h = <<>>
                          /\ \A n \in 1 .. Len(h) - 1 : h[n].new = h[n + 1].old
                          /\ Len(h) > 0 => h[Len(h)].new = reviews'[q].rating
        BY DEF HistoryChains
      <4>1. CASE q = p
        <5>1. reviews'[q].history = <<>> /\ Len(<<>>) = 0
          BY <3>1, <3>2, <3>3, <4>1
        <5> QED BY <5>1
      <4>2. CASE q # p
        BY <3>3, <4>2 DEF HistoryChains
      <4> QED BY <4>1, <4>2
    <3> QED BY <2>1, <3>3, <3>5, <3>6 DEF ReviewsRight
  <2> QED BY <1>8, <2>3, <2>4 DEF InsertReview
<1>9. ASSUME NEW c \in plan.clients, CommitEdit(c) PROVE ReviewsRight'
  <2> DEFINE p == call[c].post
             h == reviews[p].history
             g == Append(h, [old |-> call[c].old, new |-> call[c].new])
             x == [reviews[p] EXCEPT !.rating = call[c].new, !.history = g]
  <2>1. /\ call' \in [Clients -> Call] /\ c \in Clients /\ call'[c].pc = "idle"
        /\ \A d \in Clients : d # c => call'[d] = call[d]
    BY <1>7, <1>9 DEF CommitEdit
  <2>2. /\ p \in Posts /\ call[c].new \in Ratings /\ call[c].old \in Ratings
        /\ reviews[p].rating = call[c].old /\ reviews[p].state = "kept"
        /\ \A d \in Clients : d # c => ~(call[d].pc = "edit" /\ call[d].post = p)
    BY <1>1, <1>9, <2>1 DEF CommitEdit, EditsAlone, Call
  <2>3. /\ h \in Seq(Edit) /\ \A n \in 1 .. Len(h) - 1 : h[n].new = h[n + 1].old
        /\ Len(h) > 0 => h[Len(h)].new = call[c].old
    BY <1>1, <2>2 DEF Review, HistoryChains
  <2>4. /\ g \in Seq(Edit) /\ g # <<>> /\ g[Len(g)].new = call[c].new
        /\ \A n \in 1 .. Len(g) - 1 : g[n].new = g[n + 1].old
    BY <2>2, <2>3, ChainGrows
  <2>5. reviews' = [reviews EXCEPT ![p] = x]
    BY <1>9 DEF CommitEdit
  <2> HIDE DEF g
  <2>6. x \in Review /\ x.rating = call[c].new /\ x.history = g /\ x.state = "kept"
    <3>1. reviews[p] \in Review
      BY <1>1, <2>2
    <3> DEFINE row == reviews[p]
               r == call[c].new
    <3>2. row \in Review /\ r \in Ratings /\ g \in Seq(Edit) /\ row.state = "kept"
      BY <2>2, <2>4, <3>1
    <3>3. x = [row EXCEPT !.rating = r, !.history = g]
      OBVIOUS
    <3> HIDE DEF row, r, x
    <3>4. x \in Review /\ x.rating = r /\ x.history = g /\ x.state = row.state
      BY <3>2, <3>3 DEF Review
    <3> QED BY <3>2, <3>4 DEF r
  <2> HIDE DEF x
  <2>7. /\ reviews' \in [Posts -> Review] /\ reviews'[p] = x
        /\ \A q \in Posts : q # p => reviews'[q] = reviews[q]
    BY <1>1, <2>2, <2>5, <2>6
  <2> HIDE DEF p
  <2>8. EditsAlone'
    BY <2>1, <2>2, <2>7 DEF EditsAlone
  <2>9. HistoryChains'
    BY <2>4, <2>6, <2>7 DEF HistoryChains
  <2> QED BY <2>1, <2>7, <2>8, <2>9 DEF ReviewsRight
<1>10. ASSUME NEW c \in plan.clients, Abort(c) PROVE ReviewsRight'
  <2>1. /\ call' \in [Clients -> Call] /\ c \in Clients /\ call'[c].pc = "idle"
        /\ \A d \in Clients : d # c => call'[d] = call[d]
        /\ UNCHANGED reviews
    BY <1>7, <1>10 DEF Abort
  <2>2. EditsAlone'
    BY <2>1 DEF EditsAlone
  <2> QED BY <1>1, <2>1, <2>2 DEF ReviewsRight, HistoryChains
<1>11. ASSUME NEW p \in plan.posts, RemoveReview(p) PROVE ReviewsRight'
  <2> DEFINE x == [reviews[p] EXCEPT !.state = "removed"]
  <2>1. p \in Posts /\ reviews' = [reviews EXCEPT ![p] = x] /\ UNCHANGED call /\ ReviewFree(p)
    BY <1>2, <1>11 DEF RemoveReview
  <2>2. /\ x \in Review /\ x.rating = reviews[p].rating /\ x.history = reviews[p].history
        /\ x.state = "removed"
    BY <1>1, <2>1 DEF Review
  <2> HIDE DEF x
  <2>3. /\ reviews' \in [Posts -> Review] /\ reviews'[p] = x
        /\ \A q \in Posts : q # p => reviews'[q] = reviews[q]
    BY <1>1, <2>1, <2>2
  <2>4. EditsAlone'
    BY <2>1, <2>3 DEF EditsAlone, ReviewFree
  <2>5. \A q \in Posts : /\ reviews'[q].history = reviews[q].history
                         /\ reviews'[q].rating = reviews[q].rating
                         /\ reviews'[q].state = "none" => reviews[q].state = "none"
    BY <2>2, <2>3
  <2>6. HistoryChains'
    BY <2>5 DEF HistoryChains
  <2> QED BY <1>1, <2>1, <2>3, <2>4, <2>6 DEF ReviewsRight
<1> QED BY <1>4, <1>5, <1>6, <1>8, <1>9, <1>10, <1>11 DEF ReviewNext

-----------------------------------------------------------------------------
(* The job *)

Less == {pair \in Nat \X Nat : pair[1] < pair[2]}

\* A set of natural numbers that is not empty has a least element.
LEMMA LeastNatural ==
  ASSUME NEW S \in SUBSET Nat, S # {}
  PROVE  \E s \in S : \A t \in S : s <= t
<1>1. IsWellFoundedOn(Less, Nat)
  BY NatLessThanWellFounded DEF OpToRel, Less
<1>2. PICK s \in S : \A t \in S : ~(<<t, s>> \in Less)
  BY <1>1, WFMin, Zenon
<1>3. \A t \in S : ~(t < s)
  BY <1>2 DEF Less
<1> QED BY <1>3

\* A set of sellers that is not empty has a least one.
LEMMA LeastIs ==
  ASSUME NEW S \in SUBSET Sellers, S # {}
  PROVE  Least(S) \in S
<1>1. S \in SUBSET Nat
  BY ReviewAssumption
<1>2. \E s \in S : \A t \in S : s <= t
  BY <1>1, LeastNatural
<1> QED BY <1>2 DEF Least

\* A run that goes on.
LEMMA RunMay ==
  /\ AtRest \in Run /\ AtRest.pc = "idle"
  /\ [AtRest EXCEPT !.pc = "page"] \in Run /\ [AtRest EXCEPT !.pc = "page"].pc = "page"
BY DEF AtRest, Run

\* The run after a seller of its page was seen to.
LEMMA AfterIs ==
  ASSUME TypeOK, NEW i \in Instances, NEW s \in job[i].todo
  PROVE  /\ After(i, s) \in Run /\ After(i, s).pc \in {"page", "next"}
         /\ After(i, s).pc = "next" => After(i, s).todo # {}
<1> DEFINE rest == job[i].todo \ {s}
           pc == IF rest = {} THEN "page" ELSE "next"
           r == [AtRest EXCEPT !.pc = pc, !.todo = rest, !.cursor = s]
<1>1. job[i].todo \in SUBSET Sellers /\ s \in Nat
  BY ReviewAssumption DEF TypeOK, JobTypeOK, Run
<1>2. rest \in SUBSET Sellers /\ pc \in {"page", "next"} /\ (pc = "next" => rest # {})
  BY <1>1
<1>3. After(i, s) = r
  BY DEF After
<1> HIDE DEF rest, pc
<1>4. r \in Run /\ r.pc = pc /\ r.todo = rest
  BY <1>1, <1>2, RunMay DEF Run, AtRest
<1> QED BY <1>2, <1>3, <1>4

\* Steps of the job keep its type, and its locks with the runs that insert.
LEMMA JobKept ==
  ASSUME TypeOK, RunsFit, LocksOwned, NEW i \in Instances, JobStep(i) \/ RunFails(i),
         UNCHANGED desk
  PROVE  /\ JobTypeOK' /\ RunsFit' /\ LocksOwned'
         /\ locks' \in SUBSET Lock
<1> DEFINE Goal == JobTypeOK' /\ RunsFit' /\ LocksOwned' /\ locks' \in SUBSET Lock
           MyLock == [by |-> i, row |-> job[i].seller, mode |-> "nokey"]
<1>1. /\ job \in [Instances -> Run] /\ notices \in SUBSET Sellers
      /\ pushed \in [Sellers -> Nat] /\ failures \in 0 .. MaxFailures /\ locks \in SUBSET Lock
      /\ job[i].todo \in SUBSET Sellers
  BY DEF TypeOK, JobTypeOK, Run
\* The run becomes r, the locks and the notices follow.
<1>2. ASSUME NEW r \in Run, job' = [job EXCEPT ![i] = r],
             r.pc = "next" => r.todo # {},
             r.pc \in {"insert", "push"} => r.seller \in r.todo,
             notices' \in SUBSET Sellers, pushed' \in [Sellers -> Nat],
             failures' \in 0 .. MaxFailures,
             \/ job[i].pc # "insert" /\ UNCHANGED locks
             \/ locks' = Unlocked(i)
             \/ /\ r.pc = "insert"
                /\ locks' = locks \cup {[by |-> i, row |-> r.seller, mode |-> "nokey"]}
                /\ job[i].pc # "insert" /\ r.seller \in Sellers
      PROVE  Goal
  <2>1. /\ job' \in [Instances -> Run] /\ job'[i] = r
        /\ \A j \in Instances : j # i => job'[j] = job[j]
    BY <1>1, <1>2
  <2>2. JobTypeOK' /\ RunsFit'
    BY <1>1, <1>2, <2>1 DEF JobTypeOK, RunsFit
  <2>3. \A a \in Staff : \A l : Holds(a, l)' <=> Holds(a, l)
    BY DEF Holds, Deciding
  <2>4. LocksOwned'
    BY <1>2, <2>1, <2>3 DEF LocksOwned, Unlocked
  <2>5. r.seller \in Sellers =>
          [by |-> i, row |-> r.seller, mode |-> "nokey"] \in Lock
    BY DEF Lock, Modes, Users
  <2>6. locks' \in SUBSET Lock
    BY <1>1, <1>2, <2>5 DEF Unlocked
  <2> QED BY <2>2, <2>4, <2>6
<1> HIDE DEF Goal
<1>3. ASSUME StartRun(i) PROVE Goal
  <2> DEFINE r == [AtRest EXCEPT !.pc = "page"]
  <2>1. /\ job' = [job EXCEPT ![i] = r] /\ job[i].pc # "insert"
        /\ UNCHANGED <<locks, notices, pushed, failures>>
    BY <1>3 DEF StartRun, reviewVars
  <2>2. r \in Run /\ r.pc = "page"
    BY RunMay
  <2> HIDE DEF r
  <2> QED BY <1>1, <1>2, <2>1, <2>2
<1>4. ASSUME SelectPage(i) PROVE Goal
  <2> DEFINE page == Lowest({s \in Sellers \ locked : Warned(s) /\ s > job[i].cursor}, PageLimit)
             row == job[i]
             r == IF page = {} THEN AtRest ELSE [row EXCEPT !.pc = "next", !.todo = page]
  <2>1. /\ job' = [job EXCEPT ![i] = r] /\ job[i].pc # "insert"
        /\ UNCHANGED <<locks, notices, pushed, failures>>
    BY <1>4 DEF SelectPage, reviewVars
  <2>2. page \in SUBSET Sellers
    BY DEF Lowest
  <2>3. row \in Run
    BY <1>1
  <2> HIDE DEF page, row
  <2>4. r \in Run /\ (r.pc = "idle" \/ (r.pc = "next" /\ r.todo # {}))
    BY <2>2, <2>3, RunMay DEF Run
  <2> HIDE DEF r
  <2> QED BY <1>1, <1>2, <2>1, <2>4
<1>5. ASSUME LockCandidate(i) PROVE Goal
  <2> DEFINE s == Least(job[i].todo)
             row == job[i]
             r == [row EXCEPT !.pc = "insert", !.seller = s]
  <2>1. s \in job[i].todo /\ s \in Sellers /\ job[i].pc = "next"
    BY <1>1, <1>5, LeastIs DEF LockCandidate, RunsFit
  <2>2. UNCHANGED <<notices, pushed, failures>>
    BY <1>5 DEF LockCandidate
  <2>3. CASE job' = [job EXCEPT ![i] = After(i, s)] /\ UNCHANGED locks
    BY <1>1, <1>2, <2>1, <2>2, <2>3, AfterIs
  <2>4. CASE /\ job' = [job EXCEPT ![i] = r]
             /\ locks' = locks \cup {[by |-> i, row |-> s, mode |-> "nokey"]}
    <3> HIDE DEF s
    <3>1. row \in Run /\ row.todo = job[i].todo
      BY <1>1
    <3> HIDE DEF row
    <3>2. r \in Run /\ r.pc = "insert" /\ r.seller = s /\ r.todo = row.todo
      BY <2>1, <3>1 DEF Run
    <3> HIDE DEF r
    <3> QED BY <1>1, <1>2, <2>1, <2>2, <2>4, <3>1, <3>2
  <2> QED BY <1>5, <2>3, <2>4 DEF LockCandidate
<1>6. ASSUME CommitNotice(i) PROVE Goal
  <2> DEFINE s == job[i].seller
             row == job[i]
             r == [row EXCEPT !.pc = "push"]
  <2>1. s \in job[i].todo /\ s \in Sellers
    BY <1>1, <1>6 DEF CommitNotice, RunsFit
  <2>2. /\ notices' = notices \cup {s} /\ locks' = Unlocked(i)
        /\ UNCHANGED <<pushed, failures>>
    BY <1>6 DEF CommitNotice
  <2>3. CASE job' = [job EXCEPT ![i] = After(i, s)]
    BY <1>1, <1>2, <2>1, <2>2, <2>3, AfterIs
  <2>4. CASE job' = [job EXCEPT ![i] = r]
    <3>1. row \in Run /\ row.todo = job[i].todo /\ row.seller = s
      BY <1>1
    <3> HIDE DEF row, s
    <3>2. r \in Run /\ r.pc = "push" /\ r.seller = row.seller /\ r.todo = row.todo
      BY <3>1 DEF Run
    <3> HIDE DEF r
    <3> QED BY <1>1, <1>2, <2>1, <2>2, <2>4, <3>1, <3>2
  <2> QED BY <1>6, <2>3, <2>4 DEF CommitNotice
<1>7. ASSUME Push(i) PROVE Goal
  <2> DEFINE s == job[i].seller
  <2>1. s \in job[i].todo /\ s \in Sellers /\ job[i].pc # "insert"
    BY <1>1, <1>7 DEF Push, RunsFit
  <2>2. /\ job' = [job EXCEPT ![i] = After(i, s)]
        /\ pushed' = [pushed EXCEPT ![s] = @ + 1] /\ UNCHANGED <<locks, notices, failures>>
    BY <1>7 DEF Push, reviewVars
  <2> HIDE DEF s
  <2>3. pushed' \in [Sellers -> Nat]
    BY <1>1, <2>1, <2>2
  <2> QED BY <1>1, <1>2, <2>1, <2>2, <2>3, AfterIs
<1>8. ASSUME RunFails(i) PROVE Goal
  <2>1. /\ job' = [job EXCEPT ![i] = AtRest] /\ locks' = Unlocked(i)
        /\ UNCHANGED <<notices, pushed>> /\ failures' = failures + 1 /\ failures < MaxFailures
    BY <1>8 DEF RunFails
  <2>2. failures' \in 0 .. MaxFailures
    BY <1>1, <2>1, JobAssumption
  <2> QED BY <1>1, <1>2, <2>1, <2>2, RunMay
<1> QED BY <1>3, <1>4, <1>5, <1>6, <1>7, <1>8 DEF JobStep, Goal

-----------------------------------------------------------------------------
(* The invariant *)

\* Users who are locked, and posts, keep their types.
LEMMA RowsTyped ==
  ASSUME TypeOK, DutiesFit, ReviewNext \/ DeskNext
  PROVE  locked' \in SUBSET Users /\ posts' \in [Posts -> Post]
<1> DEFINE Goal == locked' \in SUBSET Users /\ posts' \in [Posts -> Post]
<1>1. locked \in SUBSET Users /\ posts \in [Posts -> Post]
  BY DEF TypeOK, ReviewTypeOK
<1>2. /\ plan.posts \subseteq Posts /\ plan.staff \subseteq Staff
  BY PlanAssumption DEF TypeOK
\* One post becomes x.
<1>3. ASSUME NEW p \in Posts, NEW x \in Post, posts' = [posts EXCEPT ![p] = x], UNCHANGED locked
      PROVE  Goal
  BY <1>1, <1>3
<1>4. ASSUME UNCHANGED <<locked, posts>> PROVE Goal
  BY <1>1, <1>4
<1> HIDE DEF Goal
<1>5. ASSUME NEW p \in plan.posts, MarkSold(p) \/ Remove(p) \/ Restore(p) \/ Lapse(p) PROVE Goal
  <2> DEFINE row == posts[p]
  <2>1. row \in Post /\ p \in Posts
    BY <1>1, <1>2
  <2>2. \/ posts' = [posts EXCEPT ![p] = [row EXCEPT !.status = "sold", !.lapsed = FALSE]]
        \/ posts' = [posts EXCEPT ![p] = [row EXCEPT !.deleted = TRUE]]
        \/ posts' = [posts EXCEPT ![p] = [row EXCEPT !.deleted = FALSE]]
        \/ posts' = [posts EXCEPT ![p] = [row EXCEPT !.lapsed = TRUE]]
    BY <1>5 DEF MarkSold, Remove, Restore, Lapse
  <2>3. UNCHANGED locked
    BY <1>5 DEF MarkSold, Remove, Restore, Lapse
  <2> HIDE DEF row
  <2>4. /\ [row EXCEPT !.status = "sold", !.lapsed = FALSE] \in Post
        /\ [row EXCEPT !.deleted = TRUE] \in Post
        /\ [row EXCEPT !.deleted = FALSE] \in Post
        /\ [row EXCEPT !.lapsed = TRUE] \in Post
    BY <2>1 DEF Post
  <2> QED BY <1>3, <2>1, <2>2, <2>3, <2>4
<1>6. ASSUME NEW c, NEW p, NEW r,
             \/ BeginReview(c, p, r) \/ LockReview(c, p, r) \/ InsertReview(c)
             \/ CommitEdit(c) \/ Abort(c) \/ RemoveReview(p)
      PROVE  Goal
  BY <1>4, <1>6 DEF BeginReview, LockReview, InsertReview, CommitEdit, Abort, RemoveReview
<1>7. ASSUME NEW a \in Staff, Resolve(a) PROVE Goal
  <2> DEFINE t == desk[a].target
             row == posts[t]
             x == [row EXCEPT !.status = "hidden"]
  <2>1. desk[a].kind = "ban" => t \in Users
    BY DeskAssumption, ReviewAssumption DEF DutiesFit, AtEase, TypeOK, DeskTypeOK, Duty
  <2>2. desk[a].kind = "hide" => t \in Posts
    BY DEF DutiesFit, AtEase
  <2>3. CASE desk[a].kind = "ban"
    BY <1>1, <1>7, <2>1, <2>3 DEF Resolve, Goal
  <2>4. CASE desk[a].kind = "hide"
    <3>1. posts' = [posts EXCEPT ![t] = x] /\ UNCHANGED locked /\ t \in Posts
      BY <1>7, <2>2, <2>4 DEF Resolve
    <3>2. row \in Post
      BY <1>1, <3>1
    <3> HIDE DEF row, t
    <3>3. x \in Post
      BY <3>2 DEF Post
    <3> HIDE DEF x
    <3> QED BY <1>3, <3>1, <3>3
  <2> QED BY <1>7, <2>3, <2>4 DEF Resolve
<1>8. ASSUME NEW a \in Staff, SwitchLock(a) PROVE Goal
  <2>1. desk[a].target \in Users
    BY <1>8 DEF SwitchLock, DutiesFit, AtEase
  <2> QED BY <1>1, <1>8, <2>1 DEF SwitchLock, Goal
<1>9. ASSUME NEW a, EnterReport(a) \/ LockSubject(a) \/ Dismiss(a) \/ LockPostingUser(a)
                    \/ ShareTarget(a) \/ Sign(a) \/ Cite(a) \/ AbortDuty(a)
      PROVE  Goal
  BY <1>4, <1>9 DEF EnterReport, LockSubject, Dismiss, LockPostingUser, ShareTarget, Sign,
                    Cite, AbortDuty
<1>10. ASSUME NEW a, NEW r, NEW u, NEW kind, NEW cited,
              CreateReport(r) \/ HandleAction(a, r, kind) \/ Moderate(a, u, kind, cited)
       PROVE  Goal
  BY <1>4, <1>10 DEF CreateReport, HandleAction, Moderate, reviewVars
<1>11. ASSUME ReviewNext PROVE Goal
  BY <1>5, <1>6, <1>11 DEF ReviewNext
<1>12. ASSUME DeskNext PROVE Goal
  BY <1>2, <1>7, <1>8, <1>9, <1>10, <1>12 DEF DeskNext, DutyStep
<1> QED BY <1>11, <1>12 DEF Goal

\* Every behaviour begins with it.
LEMMA TrustBegins ==
  ASSUME Init
  PROVE  TrustInv
<1> USE DEF Init, ReviewInit, DeskInit, JobInit
<1>1. TypeOK
  <2>1. ReviewTypeOK
    <3>1. AnyRating \in Ratings /\ Idle \in Call
      BY CallMay, Zenon
    <3>2. <<>> \in Seq(Edit)
      OBVIOUS
    <3>3. [status |-> "active", deleted |-> FALSE, lapsed |-> FALSE] \in Post
      BY DEF Post
    <3>4. [state |-> "none", rating |-> AnyRating, history |-> <<>>] \in Review
      BY <3>1, <3>2 DEF Review
    <3> QED BY <3>1, <3>3, <3>4 DEF ReviewTypeOK
  <2>2. DeskTypeOK
    BY DEF DeskTypeOK, Report, Duty, AtEase
  <2>3. JobTypeOK
    BY RunMay, JobAssumption DEF JobTypeOK
  <2> QED BY <2>1, <2>2, <2>3 DEF TypeOK
<1>2. EditsAlone
  BY CallMay DEF EditsAlone
<1>3. HistoryChains
  <2> SUFFICES ASSUME NEW p \in Posts
               PROVE  LET h == reviews[p].history IN
                      /\ reviews[p].state = "none" => h = <<>>
                      /\ \A n \in 1 .. Len(h) - 1 : h[n].new = h[n + 1].old
                      /\ Len(h) > 0 => h[Len(h)].new = reviews[p].rating
    BY DEF HistoryChains
  <2>1. reviews[p].history = <<>> /\ Len(<<>>) = 0
    OBVIOUS
  <2> QED BY <2>1
<1>4. DutiesFit /\ LocksOwned /\ RunsFit
  BY RunMay DEF DutiesFit, LocksOwned, RunsFit
<1>5. TurnsTaken
  BY DEF TurnsTaken, AtEase
<1> QED BY <1>1, <1>2, <1>3, <1>4, <1>5 DEF TrustInv

\* Every step keeps it.
LEMMA TrustGoesOn ==
  ASSUME TrustInv, [Next]_vars
  PROVE  TrustInv'
<1> USE DEF TrustInv
<1>1. CASE ReviewNext /\ UNCHANGED <<plan, deskVars, jobVars>>
  <2>1. ReviewsRight' /\ locked' \in SUBSET Users /\ posts' \in [Posts -> Post]
    BY <1>1, ReviewsKept, RowsTyped
  <2>2. UNCHANGED locks
    BY <1>1 DEF ReviewNext, MarkSold, Remove, Restore, Lapse, BeginReview, LockReview,
                InsertReview, CommitEdit, Abort, RemoveReview
  <2>3. UNCHANGED <<plan, reports, desk, job, notices, pushed, failures>>
    BY <1>1 DEF deskVars, jobVars
  <2>4. TypeOK'
    BY <2>1, <2>2, <2>3 DEF TypeOK, ReviewTypeOK, DeskTypeOK, JobTypeOK, ReviewsRight
  <2>5. DutiesFit' /\ TurnsTaken' /\ LocksOwned' /\ RunsFit'
    BY <2>2, <2>3 DEF DutiesFit, TurnsTaken, Deciding, Concerns, LocksOwned, Holds, RunsFit
  <2> QED BY <2>1, <2>4, <2>5 DEF ReviewsRight
<1>2. CASE DeskNext /\ UNCHANGED <<plan, jobVars>>
  <2>1. UNCHANGED <<plan, job, notices, pushed, failures>>
    BY <1>2 DEF jobVars
  <2>2. UNCHANGED <<reviews, call>>
    BY <1>2 DEF DeskNext, CreateReport, HandleAction, Moderate, DutyStep, EnterReport,
                LockSubject, Dismiss, Resolve, LockPostingUser, ShareTarget, Sign,
                Cite, SwitchLock, AbortDuty, reviewVars
  <2>3. locked' \in SUBSET Users /\ posts' \in [Posts -> Post]
    BY <1>2, RowsTyped
  <2>4. DutiesFit' /\ desk' \in [Staff -> Duty]
    BY <1>2, DutiesKept
  <2>5. TurnsTaken' /\ reports' \in [Reports -> Report]
    BY <1>2, TurnsKept
  <2>6. LocksOwned' /\ locks' \in SUBSET Lock
    BY <1>2, <2>1, DeskLocksKept
  <2>7. TypeOK'
    BY <2>1, <2>2, <2>3, <2>4, <2>5, <2>6 DEF TypeOK, ReviewTypeOK, DeskTypeOK, JobTypeOK
  <2>8. EditsAlone' /\ HistoryChains' /\ RunsFit'
    BY <2>1, <2>2 DEF EditsAlone, HistoryChains, RunsFit
  <2> QED BY <2>4, <2>5, <2>6, <2>7, <2>8
<1>3. ASSUME NEW i \in plan.instances, JobStep(i) \/ RunFails(i), UNCHANGED <<plan, deskVars>>
      PROVE  TrustInv'
  <2>1. i \in Instances /\ UNCHANGED <<plan, reports, desk>>
    BY <1>3, PlanAssumption DEF TypeOK, deskVars
  <2>2. UNCHANGED <<locked, posts, reviews, call>>
    BY <1>3 DEF JobStep, StartRun, SelectPage, LockCandidate, CommitNotice, Push, RunFails,
                reviewVars
  <2>3. JobTypeOK' /\ RunsFit' /\ LocksOwned' /\ locks' \in SUBSET Lock
    BY <1>3, <2>1, JobKept
  <2>4. TypeOK'
    BY <2>1, <2>2, <2>3 DEF TypeOK, ReviewTypeOK, DeskTypeOK
  <2>5. EditsAlone' /\ HistoryChains' /\ DutiesFit' /\ TurnsTaken'
    BY <2>1, <2>2 DEF EditsAlone, HistoryChains, DutiesFit, TurnsTaken, Deciding, Concerns
  <2> QED BY <2>3, <2>4, <2>5
<1>4. CASE UNCHANGED vars
  BY <1>4 DEF vars, reviewVars, deskVars, jobVars, TypeOK, ReviewTypeOK, DeskTypeOK,
              JobTypeOK, EditsAlone, HistoryChains, DutiesFit, TurnsTaken, Deciding,
              LocksOwned, Holds, RunsFit
<1> QED BY <1>1, <1>2, <1>3, <1>4 DEF Next

\* The invariant of reviews, desk and job holds in every reachable state.
THEOREM TrustInvariant == Spec => []TrustInv
<1>1. Init => TrustInv
  BY TrustBegins
<1>2. TrustInv /\ [Next]_vars => TrustInv'
  BY TrustGoesOn
<1> QED BY <1>1, <1>2, PTL DEF Spec

\* A report that was decided is never decided again.
THEOREM DecisionsStand == Spec => DecisionStands
<1> DEFINE Stands == \A r \in Reports : reports[r].status \in Decided => reports'[r] = reports[r]
<1>1. ASSUME TrustInv, Next PROVE Stands
  <2>1. CASE DeskNext
    BY <1>1, <2>1, TurnsKept DEF TrustInv
  <2>2. CASE UNCHANGED deskVars
    BY <2>2 DEF deskVars
  <2> QED BY <1>1, <2>1, <2>2 DEF Next
<1>2. TrustInv /\ [Next]_vars => [Stands]_vars
  BY <1>1
<1> QED BY <1>2, TrustInvariant, PTL DEF Spec, DecisionStands

-----------------------------------------------------------------------------
(* Waiting in a circle *)

\* b bans c and waits for the share of its own row only.
Bans(b, c) == desk[b].at = "acting" /\ desk[b].kind = "ban" /\ desk[b].target = c

\* Nobody waits for a request that has not entered.  Whoever wants the share of
\* its own row waits for a ban of itself; who has entered and wants its target
\* bans a user somebody else acts on; who wants the report it cites waits for
\* the one who decides this report.
LEMMA WaitsFor ==
  ASSUME TypeOK, DutiesFit, TurnsTaken, LocksOwned, NEW a \in Staff, NEW b \in Staff, Waits(a, b)
  PROVE  /\ desk[b].at # "begun"
         /\ desk[a].at = "acting" \/ (desk[a].at = "entered" /\ desk[a].kind = "dismiss")
              => Bans(b, a)
         /\ desk[a].at = "entered" /\ desk[a].kind # "dismiss"
              => desk[a].kind = "ban" /\ desk[b].at \in {"acting", "signed"}
         /\ desk[a].at = "signed"
              => Deciding(b) /\ desk[b].report = desk[a].cites /\ desk[b].at # "signed"
<1>1. CASE Deciding(a) /\ desk[a].at = "begun" /\ desk[b].at # "begun"
  BY <1>1
<1>2. ASSUME NEW w \in Wanted(a), NEW l \in locks,
             l.by = b, l.row = w.row, Conflict(l.mode, w.mode)
      PROVE  /\ desk[b].at # "begun"
             /\ desk[a].at = "acting" \/ (desk[a].at = "entered" /\ desk[a].kind = "dismiss")
                  => Bans(b, a)
             /\ desk[a].at = "entered" /\ desk[a].kind # "dismiss"
                  => desk[a].kind = "ban" /\ desk[b].at \in {"acting", "signed"}
             /\ desk[a].at = "signed"
                  => Deciding(b) /\ desk[b].report = desk[a].cites /\ desk[b].at # "signed"
  <2>1. Holds(b, l)
    <3>1. b \notin Instances
      BY JobAssumption
    <3> QED BY <1>2, <3>1 DEF LocksOwned, Holds
  <2>2. desk[b].at # "begun" /\ desk[b] # AtEase
    BY <2>1 DEF Holds, AtEase
  <2>3. /\ Deciding(b) => desk[b].report \in Reports /\ desk[b].at # "signed"
        /\ ~Deciding(b) => desk[b].target \in Users /\ desk[b].kind \in {"warn", "restrict"}
        /\ desk[b].target \in Posts \cup Users
        /\ desk[b].target \notin Posts => desk[b].kind # "hide"
    BY <2>2, DutyIs, DeskAssumption, ReviewAssumption DEF DutiesFit, Deciding, Users
  <2>4. /\ Reports \cap (Posts \cup Users) = {} /\ Posts \cap Users = {}
        /\ a \in Users /\ b \in Users /\ a # b
    BY DeskAssumption, ReviewAssumption DEF Users, Waits
  <2>5. ASSUME desk[a].at = "acting" \/ (desk[a].at = "entered" /\ desk[a].kind = "dismiss")
        PROVE  Bans(b, a)
    <3>1. w = [row |-> a, mode |-> "share"]
      BY <1>2, <2>5 DEF Wanted
    <3>2. l.row = a /\ l.mode = "update"
      BY <1>2, <3>1 DEF Conflict
    <3>3. /\ desk[b].at \in {"acting", "signed"} /\ desk[b].target = a
          /\ ModeOf(desk[b].kind) = "update"
      BY <2>1, <2>3, <2>4, <3>2 DEF Holds
    <3>4. desk[b].kind \in {"ban", "hide"}
      BY <3>3 DEF ModeOf
    <3> QED BY <2>3, <2>4, <3>3, <3>4 DEF Bans
  <2>6. ASSUME desk[a].at = "entered", desk[a].kind # "dismiss"
        PROVE  desk[a].kind = "ban" /\ desk[b].at \in {"acting", "signed"}
    <3>1. w = [row |-> desk[a].target, mode |-> "update"]
      BY <1>2, <2>6 DEF Wanted
    <3>2. /\ Deciding(a) /\ desk[a].target \in Posts \cup Users
          /\ desk[a].target \notin Posts => desk[a].kind = "ban"
      <4>1. desk[a] # AtEase
        BY <2>6 DEF AtEase
      <4> QED BY <2>6, <4>1, DutyIs, DeskAssumption DEF DutiesFit, Deciding
    <3>3. ~(Deciding(b) /\ desk[b].target = desk[a].target)
      BY <2>2, <2>4, <2>6, <3>2 DEF TurnsTaken
    <3>4. \/ desk[b].at \in {"acting", "signed"} /\ desk[b].target = desk[a].target
          \/ desk[b].at = "signed" /\ b = desk[a].target
      BY <1>2, <2>1, <2>3, <2>4, <3>1, <3>2 DEF Holds
    <3> QED BY <2>3, <2>4, <3>2, <3>3, <3>4
  <2>7. ASSUME desk[a].at = "signed"
        PROVE  Deciding(b) /\ desk[b].report = desk[a].cites /\ desk[b].at # "signed"
    <3>1. w = [row |-> desk[a].cites, mode |-> "share"]
      BY <1>2, <2>7 DEF Wanted
    <3>2. desk[a].cites \in Reports
      <4>1. desk[a] # AtEase /\ desk[a] \in Duty
        BY <2>7, DutyIs DEF AtEase
      <4> QED BY <2>7, <4>1 DEF DutiesFit, Duty
    <3> QED BY <1>2, <2>1, <2>3, <2>4, <3>1, <3>2 DEF Holds
  <2> QED BY <2>2, <2>5, <2>6, <2>7
<1> QED BY <1>1, <1>2 DEF Waits

\* Requests that ban one another in turn, each of them waiting for its own row.
LEMMA BansClose ==
  ASSUME NEW circle \in SUBSET Staff, NEW first \in circle, NEW second \in circle,
         Bans(second, first),
         \A a \in circle : desk[a].at = "acting" => \E b \in circle : Bans(b, a)
  PROVE  \E bans \in SUBSET circle :
           /\ bans # {}
           /\ \A a \in bans : desk[a].kind = "ban" /\ desk[a].target \in bans
<1> DEFINE bans == {a \in circle : desk[a].at = "acting" /\ desk[a].kind = "ban"}
<1>1. second \in bans /\ \A a \in bans : \E b \in bans : desk[b].target = a
  BY DEF Bans
<1> DEFINE f == [a \in bans |-> CHOOSE b \in bans : desk[b].target = a]
<1>2. \A a \in bans : f[a] \in bans /\ desk[f[a]].target = a
  BY <1>1
<1>3. IsFiniteSet(bans)
  BY DeskAssumption, FS_Subset
<1>4. f \in [bans -> bans]
  BY <1>2
<1> HIDE DEF f
<1>5. f \in Injection(bans, bans)
  BY <1>2, <1>4 DEF Injection, IsInjective
<1>6. f \in Surjection(bans, bans)
  BY <1>3, <1>5, FS_Injection
<1>7. \A b \in bans : desk[b].kind = "ban" /\ desk[b].target \in bans
  <2>1. \A b \in bans : \E a \in bans : f[a] = b
    BY <1>6 DEF Surjection
  <2> QED BY <1>2, <2>1
<1> QED BY <1>1, <1>7

\* Every circle of requests that wait for each other contains bans of its own
\* members, or a ban through the report another member cites against its target.
THEOREM CirclesAreBans == Spec => []CirclesNeedBans
<1>1. ASSUME TrustInv, NEW circle \in SUBSET Staff, circle # {},
             \A a \in circle : \E b \in circle : Waits(a, b)
      PROVE  \/ \E bans \in SUBSET circle :
                  /\ bans # {}
                  /\ \A a \in bans : desk[a].kind = "ban" /\ desk[a].target \in bans
             \/ \E a, b \in circle :
                  /\ desk[b].kind = "ban" /\ desk[b].at = "entered"
                  /\ desk[a].at = "signed" /\ desk[a].cites = desk[b].report
                  /\ desk[a].target = desk[b].target
  <2> DEFINE core == {b \in circle : desk[b].at # "begun"}
  <2>1. \A a, b \in circle : Waits(a, b) =>
          /\ desk[b].at # "begun"
          /\ desk[a].at = "acting" \/ (desk[a].at = "entered" /\ desk[a].kind = "dismiss")
               => Bans(b, a)
          /\ desk[a].at = "entered" /\ desk[a].kind # "dismiss"
               => desk[a].kind = "ban" /\ desk[b].at \in {"acting", "signed"}
          /\ desk[a].at = "signed"
               => Deciding(b) /\ desk[b].report = desk[a].cites /\ desk[b].at # "signed"
    BY <1>1, WaitsFor DEF TrustInv
  <2>2. PICK x \in core : TRUE
    BY <1>1, <2>1
  <2>3. \A a \in Staff : desk[a].at \in {"begun", "entered", "acting", "signed"}
    BY <1>1 DEF TrustInv, TypeOK, DeskTypeOK, Duty
  <2>4. CASE \E a \in core :
               desk[a].at = "acting" \/ (desk[a].at = "entered" /\ desk[a].kind = "dismiss")
    <3>1. \E a \in circle, b \in circle : Bans(b, a)
      BY <1>1, <2>1, <2>4
    <3>2. \A a \in circle : desk[a].at = "acting" => \E b \in circle : Bans(b, a)
      BY <1>1, <2>1
    <3> QED BY <1>1, <3>1, <3>2, BansClose
  <2>5. CASE \A a \in core :
               desk[a].at # "acting" /\ ~(desk[a].at = "entered" /\ desk[a].kind = "dismiss")
    <3>1. PICK y \in core : desk[y].at = "signed"
      BY <1>1, <2>1, <2>2, <2>3, <2>5
    <3>2. PICK z \in circle : Waits(y, z)
      BY <1>1, <3>1
    <3>3. /\ z \in core /\ Deciding(z) /\ desk[z].report = desk[y].cites
          /\ desk[z].at = "entered" /\ desk[z].kind # "dismiss"
      BY <1>1, <2>1, <2>3, <2>5, <3>1, <3>2
    <3>4. desk[z].kind = "ban"
      BY <1>1, <2>1, <3>3
    <3>5. desk[y].target = desk[z].target
      <4>1. y \in Staff /\ z \in Staff /\ desk[y] # AtEase /\ desk[z] # AtEase
        BY <1>1, <3>1, <3>3 DEF AtEase
      <4>2. /\ desk[y].cites # None /\ Concerns(desk[y].cites, desk[y].target)
            /\ desk[z].target = Target[desk[z].report] /\ desk[z].target \notin Posts
        BY <1>1, <3>1, <3>3, <3>4, <4>1 DEF TrustInv, DutiesFit, Deciding
      <4> QED BY <3>3, <4>2 DEF Concerns
    <3> QED BY <3>1, <3>3, <3>4, <3>5
  <2> QED BY <2>4, <2>5
<1>2. TrustInv => CirclesNeedBans
  BY <1>1 DEF CirclesNeedBans
<1> QED BY <1>2, TrustInvariant, PTL

-----------------------------------------------------------------------------
(* The pages *)

\* A review that counts has one star at least, so there are as many stars as
\* reviews.
LEMMA StarsEnough ==
  ASSUME NEW S \in SUBSET Posts, reviews \in [Posts -> Review]
  PROVE  /\ Cardinality(S) \in Nat /\ Stars(S) \in Nat
         /\ Cardinality(S) <= Stars(S)
<1> DEFINE stars == {star \in S \X (1 .. 5) : star[2] <= reviews[star[1]].rating}
           f == [p \in S |-> <<p, 1>>]
<1>1. IsFiniteSet(S) /\ IsFiniteSet(stars)
  <2>1. IsFiniteSet(S)
    BY ReviewAssumption, FS_Subset
  <2>2. IsFiniteSet(1 .. 5)
    <3>1. 1 \in Int /\ 5 \in Int
      OBVIOUS
    <3> QED BY <3>1, FS_Interval, Zenon
  <2>3. IsFiniteSet(S \X (1 .. 5))
    BY <2>1, <2>2, FS_Product
  <2> QED BY <2>1, <2>3, FS_Subset
<1>2. f \in [S -> stars]
  <2>1. \A p \in S : reviews[p].rating \in 1 .. 5
    BY ReviewAssumption DEF Review
  <2>2. \A p \in S : 1 <= reviews[p].rating
    BY <2>1
  <2> QED BY <2>2
<1>3. f \in Injection(S, stars)
  BY <1>2 DEF Injection, IsInjective
<1>4. Stars(S) = Cardinality(stars)
  BY DEF Stars
<1> HIDE DEF f, stars
<1> QED BY <1>1, <1>3, <1>4, FS_Injection, FS_CardinalityType

\* An average of one star or more is not zero tenths.
LEMMA SomeTenths ==
  ASSUME NEW count \in Nat, NEW total \in Nat, count <= total
  PROVE  /\ AverageTenths(count, total) \in Nat
         /\ count > 0 => AverageTenths(count, total) > 0
<1>1. CASE count = 0
  BY <1>1 DEF AverageTenths
<1>2. CASE count > 0
  <2> DEFINE n == 20 * total + count
             d == 2 * count
  <2>1. n \in Nat /\ d \in Nat /\ d > 0 /\ n >= d
    BY <1>2
  <2>2. AverageTenths(count, total) = n \div d
    BY <1>2 DEF AverageTenths
  <2> HIDE DEF n, d
  <2>3. n \div d \in Nat /\ n \div d > 0
    BY <2>1
  <2> QED BY <2>2, <2>3
<1> QED BY <1>1, <1>2

\* The SQL of the feed and the function of the page of a post name one level.
LEMMA LevelsMatch ==
  ASSUME NEW count \in Nat, NEW tenths \in Nat, count > 0 => tenths > 0
  PROVE  FeedLevel(count, tenths) = Level(count, tenths) /\ Level(count, tenths) \in Levels
<1>1. /\ MinimumReviewCount \in Nat \ {0}
      /\ LowTenths \in Nat /\ GoodTenths \in Nat /\ ExcellentTenths \in Nat
      /\ LowTenths <= GoodTenths /\ GoodTenths <= ExcellentTenths
  BY LevelAssumption
<1>2. CASE count = 0
  BY <1>1, <1>2 DEF FeedLevel, Level, Levels
<1>3. CASE count > 0 /\ count < MinimumReviewCount
  BY <1>1, <1>3 DEF FeedLevel, Level, Levels
<1>4. CASE count >= MinimumReviewCount /\ tenths < LowTenths
  BY <1>1, <1>4 DEF FeedLevel, Level, Levels
<1>5. CASE count >= MinimumReviewCount /\ LowTenths <= tenths /\ tenths < GoodTenths
  BY <1>1, <1>5 DEF FeedLevel, Level, Levels
<1>6. CASE count >= MinimumReviewCount /\ GoodTenths <= tenths /\ tenths < ExcellentTenths
  BY <1>1, <1>6 DEF FeedLevel, Level, Levels
<1>7. CASE count >= MinimumReviewCount /\ ExcellentTenths <= tenths
  BY <1>1, <1>7 DEF FeedLevel, Level, Levels
<1> QED BY <1>1, <1>2, <1>3, <1>4, <1>5, <1>6, <1>7

\* Two keys of one length that end differently are ordered one way.
LEMMA KeysOrdered ==
  ASSUME NEW n \in Nat \ {0}, NEW k \in [1 .. n -> Int], NEW l \in [1 .. n -> Int],
         k[n] # l[n]
  PROVE  Before(k, l) <=> ~Before(l, k)
<1> DEFINE differ == {i \in 1 .. n : k[i] # l[i]}
<1>1. PICK i \in differ : \A j \in differ : i <= j
  <2>1. differ \in SUBSET Nat /\ differ # {}
    OBVIOUS
  <2> QED BY <2>1, LeastNatural
<1>2. i \in 1 .. n /\ k[i] # l[i] /\ \A j \in 1 .. i - 1 : k[j] = l[j]
  BY <1>1
<1>3. DOMAIN k = 1 .. n /\ DOMAIN l = 1 .. n /\ k[i] \in Int /\ l[i] \in Int
  BY <1>2
<1>4. \A m \in 1 .. n : k[m] # l[m] /\ (\A j \in 1 .. m - 1 : k[j] = l[j]) => m = i
  <2>1. \A m \in 1 .. n : k[m] # l[m] => i <= m
    BY <1>1
  <2>2. \A m \in 1 .. n : i < m => i \in 1 .. m - 1
    BY <1>2
  <2> QED BY <1>2, <2>1, <2>2
<1>5. \A m \in 1 .. n : (k[m] > l[m] => k[m] # l[m]) /\ (l[m] > k[m] => k[m] # l[m])
  OBVIOUS
<1>6. Before(k, l) <=> k[i] > l[i]
  <2>1. ASSUME NEW m \in 1 .. n, k[m] > l[m], \A j \in 1 .. m - 1 : k[j] = l[j]
        PROVE  k[i] > l[i]
    <3>1. k[m] # l[m]
      BY <1>5, <2>1
    <3>2. m = i
      BY <1>4, <2>1, <3>1
    <3> QED BY <2>1, <3>2
  <2> QED BY <1>2, <1>3, <2>1 DEF Before
<1>7. Before(l, k) <=> l[i] > k[i]
  <2>1. ASSUME NEW m \in 1 .. n, l[m] > k[m], \A j \in 1 .. m - 1 : l[j] = k[j]
        PROVE  l[i] > k[i]
    <3>1. k[m] # l[m] /\ \A j \in 1 .. m - 1 : k[j] = l[j]
      BY <1>5, <2>1
    <3>2. m = i
      BY <1>4, <3>1
    <3> QED BY <2>1, <3>2
  <2>2. \A j \in 1 .. i - 1 : l[j] = k[j]
    BY <1>2
  <2> QED BY <1>2, <1>3, <2>1, <2>2 DEF Before
<1> QED BY <1>2, <1>3, <1>6, <1>7

\* What the feed computes of a seller.
LEMMA FeedIs ==
  ASSUME reviews \in [Posts -> Review], NEW s \in Sellers
  PROVE  /\ FeedCount(s) \in Nat /\ FeedTenths(s) \in Nat
         /\ FeedCount(s) > 0 => FeedTenths(s) > 0
         /\ Priority[FeedLevel(FeedCount(s), FeedTenths(s))] \in Int
<1>1. FeedCounted(s) \in SUBSET Posts
  BY DEF FeedCounted
<1>2. /\ FeedCount(s) \in Nat /\ FeedTenths(s) \in Nat
      /\ FeedCount(s) > 0 => FeedTenths(s) > 0
  BY <1>1, StarsEnough, SomeTenths DEF FeedCount, FeedTenths
<1>3. FeedLevel(FeedCount(s), FeedTenths(s)) \in Levels
  BY <1>2, LevelsMatch
<1>4. \A level \in Levels : Priority[level] \in Int
  BY DEF Priority
<1> QED BY <1>2, <1>3, <1>4

\* Every key of a sort ends in the identifier of its post.
LEMMA KeysEnd ==
  ASSUME reviews \in [Posts -> Review], NEW sort \in Sorts, NEW boosted
  PROVE  \E n \in Nat \ {0} : \A p \in Posts :
           SortKey(sort, boosted, p) \in [1 .. n -> Int] /\ SortKey(sort, boosted, p)[n] = p
<1>1. \A p \in Posts : p \in Int /\ CreatedAt[p] \in Int /\ Price[p] \in Int /\ -Price[p] \in Int
  BY ReviewAssumption, PostColumns
<1> DEFINE key(p) == SortKey(sort, boosted, p)
           Keyed(n) == \A p \in Posts : key(p) \in [1 .. n -> Int] /\ key(p)[n] = p
           columns(p) ==
             <<IF sort = "RECOMMENDED" /\ p \in boosted THEN 1 ELSE 0,
               Priority[FeedLevel(FeedCount(SellerOf[p]), FeedTenths(SellerOf[p]))],
               FeedTenths(SellerOf[p]), FeedCount(SellerOf[p]), CreatedAt[p], p>>
<1>2. \A p \in Posts : columns(p) \in Seq(Int) /\ Len(columns(p)) = 6 /\ columns(p)[6] = p
  <2>1. \A p \in Posts : SellerOf[p] \in Sellers
    BY ReviewAssumption
  <2> QED BY <1>1, <2>1, FeedIs
<1>3. \A e \in Int : \A p \in Posts : <<e, p>> \in [1 .. 2 -> Int] /\ <<e, p>>[2] = p
  BY <1>1
<1>4. ASSUME sort = "PRICE_ASC" PROVE Keyed(2)
  <2>1. \A p \in Posts : key(p) = <<-Price[p], p>>
    BY <1>4 DEF SortKey
  <2> QED BY <1>1, <1>3, <2>1
<1>5. ASSUME sort = "PRICE_DESC" PROVE Keyed(2)
  <2>1. \A p \in Posts : key(p) = <<Price[p], p>>
    BY <1>5 DEF SortKey
  <2> QED BY <1>1, <1>3, <2>1
<1>6. ASSUME sort = "NEWEST" PROVE Keyed(2)
  <2>1. \A p \in Posts : key(p) = <<CreatedAt[p], p>>
    BY <1>6 DEF SortKey
  <2> QED BY <1>1, <1>3, <2>1
<1>7. ASSUME sort \in {"RECOMMENDED", "REPUTATION_HIGH_TO_LOW"} PROVE Keyed(6)
  <2>1. \A p \in Posts : key(p) = columns(p)
    BY <1>7 DEF SortKey
  <2> HIDE DEF columns, key
  <2> QED BY <1>2, <2>1
<1>8. 2 \in Nat \ {0} /\ 6 \in Nat \ {0}
  OBVIOUS
<1> HIDE DEF Keyed
<1>9. \E n \in Nat \ {0} : Keyed(n)
  BY <1>4, <1>5, <1>6, <1>7, <1>8 DEF Sorts
<1> QED BY <1>9, Zenon DEF Keyed

\* The pages agree in every reachable state.
THEOREM PagesAgree == Spec => []ViewsAgree
<1>1. ASSUME TrustInv, NEW s \in Sellers
      PROVE  FeedLevel(FeedCount(s), FeedTenths(s)) = SellerLevel(s)
  <2>1. reviews \in [Posts -> Review] /\ posts \in [Posts -> Post]
    BY <1>1 DEF TrustInv, TypeOK, ReviewTypeOK
  <2>2. FeedCounted(s) = Counted(s)
    BY <2>1 DEF FeedCounted, Counted, Post
  <2>3. FeedCount(s) = ReviewCount(s)
        /\ FeedTenths(s) = AverageTenths(ReviewCount(s), RatingTotal(s))
    BY <2>2 DEF FeedCount, ReviewCount, FeedTenths, RatingTotal
  <2> QED BY <2>1, <2>3, FeedIs, LevelsMatch DEF SellerLevel
<1>2. ASSUME NEW p \in Posts
      PROVE  /\ Listed(p) => Readable(p)
             /\ CanReview(p) <=> Reviewable(p) /\ reviews[p].state = "none"
  BY DEF Listed, Readable, CanReview, Reviewable
<1>3. ASSUME TrustInv, NEW sort \in Sorts, NEW boosted
      PROVE  LET key == [p \in Posts |-> SortKey(sort, boosted, p)] IN
             \A p, q \in Posts : p < q => (Before(key[p], key[q]) <=> ~Before(key[q], key[p]))
  <2>1. PICK n \in Nat \ {0} : \A p \in Posts :
           SortKey(sort, boosted, p) \in [1 .. n -> Int] /\ SortKey(sort, boosted, p)[n] = p
    BY <1>3, KeysEnd DEF TrustInv, TypeOK, ReviewTypeOK
  <2>2. ASSUME NEW p \in Posts, NEW q \in Posts, p < q
        PROVE  Before(SortKey(sort, boosted, p), SortKey(sort, boosted, q))
                 <=> ~Before(SortKey(sort, boosted, q), SortKey(sort, boosted, p))
    <3>1. p # q
      BY <2>2, ReviewAssumption
    <3> QED BY <2>1, <3>1, KeysOrdered
  <2> QED BY <2>2
<1>4. TrustInv => ViewsAgree
  BY <1>1, <1>2, <1>3 DEF ViewsAgree
<1> QED BY <1>4, TrustInvariant, PTL
=============================================================================
