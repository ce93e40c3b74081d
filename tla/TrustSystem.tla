----------------------------- MODULE TrustSystem -----------------------------
(***************************************************************************)
(* What makes a seller trusted, together: buyers review and edit, sellers    *)
(* sell and delete, administrators hide posts and ban users, and the job     *)
(* warns the sellers whose reputation has become bad.                        *)
(***************************************************************************)
EXTENDS Desk, Listing, ReputationJob

CONSTANT Plans  \* what a behaviour is about: who takes part in it, and in what

Moves == {"withdraw", "lapse", "edit"}

ASSUME PlanAssumption ==
  Plans \subseteq [clients : SUBSET Clients, posts : SUBSET Posts, moves : SUBSET Moves,
                   reports : SUBSET Reports, staff : SUBSET Staff, users : SUBSET Users,
                   kinds : SUBSET DeskKinds, instances : SUBSET Instances]

VARIABLE plan  \* chosen once

vars == <<plan, reviewVars, deskVars, jobVars>>

Init == plan \in Plans /\ ReviewInit /\ DeskInit /\ JobInit

ReviewNext ==
  \/ \E p \in plan.posts :
       \/ MarkSold(p)
       \/ "withdraw" \in plan.moves /\ (Remove(p) \/ Restore(p))
       \/ "lapse" \in plan.moves /\ Lapse(p)
  \/ \E c \in plan.clients, p \in plan.posts, r \in Ratings :
       \/ BeginReview(c, p, r)
       \/ "edit" \in plan.moves /\ LockReview(c, p, r)
  \/ \E c \in plan.clients : InsertReview(c) \/ CommitEdit(c) \/ Abort(c)
  \/ \E p \in plan.posts : RemoveReview(p)

DeskNext ==
  \/ \E r \in plan.reports : CreateReport(r)
  \/ \E a \in plan.staff, kind \in plan.kinds :
       \/ \E r \in plan.reports : HandleAction(a, r, kind)
       \/ \E u \in plan.users, cited \in plan.reports \cup {None} : Moderate(a, u, kind, cited)
  \/ \E a \in plan.staff : DutyStep(a)

Next ==
  /\ UNCHANGED plan
  /\ \/ ReviewNext /\ UNCHANGED <<deskVars, jobVars>>
     \/ DeskNext /\ UNCHANGED jobVars
     \/ (\E i \in plan.instances : JobStep(i) \/ RunFails(i)) /\ UNCHANGED deskVars

Spec == Init /\ [][Next]_vars

\* The instances run the job again and again, and a transaction that can commit
\* over and over does so at last.  A request at the desk ends, as it does not
\* hold its rows for ever: statements time out, and the database breaks circles.
RunOf(i) == i \in plan.instances /\ JobStep(i) /\ UNCHANGED <<plan, deskVars>>

DutyOf(a) == a \in plan.staff /\ DutyStep(a) /\ UNCHANGED <<plan, jobVars>>

Fairness ==
  /\ \A i \in Instances : SF_vars(RunOf(i))
  /\ \A a \in Staff : WF_vars(DutyOf(a))

FairSpec == Spec /\ Fairness

-----------------------------------------------------------------------------
(* Safety *)

\* Who holds which row in which mode.
Lock == [by : Staff \cup Instances, row : Posts \cup Users \cup Reports, mode : Modes]

\* Every variable keeps its type.
TypeOK ==
  /\ plan \in Plans
  /\ ReviewTypeOK /\ DeskTypeOK /\ JobTypeOK
  /\ locks \in SUBSET Lock

\* However many edits of a review race, its history is a chain that ends at the
\* rating the review has: no edit works on a rating another one has replaced.
HistoryChains ==
  \A p \in Posts :
    LET h == reviews[p].history IN
    /\ reviews[p].state = "none" => h = <<>>
    /\ \A n \in 1 .. Len(h) - 1 : h[n].new = h[n + 1].old
    /\ Len(h) > 0 => h[Len(h)].new = reviews[p].rating

\* A request under way has a post, and an edit has its review to itself, as it was
\* when the edit read it.
EditsAlone ==
  \A c \in Clients :
    LET p == call[c].post IN
    /\ call[c].pc # "idle" => p \in Posts
    /\ call[c].pc = "edit" =>
         /\ reviews[p].state = "kept" /\ reviews[p].rating = call[c].old
         /\ \A d \in Clients : call[d].pc = "edit" /\ call[d].post = p => d = c

\* The requests at the desk act on the right kind of target, and not on the
\* administrators themselves; a warning or a restriction cites a report that
\* concerns its user.
DutiesFit ==
  \A a \in Staff : desk[a] # AtEase =>
    LET d == desk[a] IN
    /\ d.kind # "dismiss" => d.target # a
    /\ IF d.report = None
       THEN /\ d.target \in Users /\ d.at # "entered"
            /\ d.kind \in {"warn", "restrict", "lock", "unlock"}
            /\ d.at # "begun" => d.kind \in {"warn", "restrict"}
            /\ d.cites # None => Concerns(d.cites, d.target)
            /\ d.at = "signed" => d.cites # None
       ELSE /\ d.target = Target[d.report] /\ d.at # "signed" /\ d.cites = None
            /\ d.kind \in {"dismiss", IF d.target \in Posts THEN "hide" ELSE "ban"}
            /\ d.at = "acting" => d.kind # "dismiss"

\* Whoever has entered decides a report that is pending, and nobody else has
\* entered about the same target.
TurnsTaken ==
  \A a \in Staff : Deciding(a) /\ desk[a].at # "begun" =>
    /\ reports[desk[a].report].status = "pending"
    /\ \A b \in Staff : Deciding(b) /\ desk[b].at # "begun"
                        /\ desk[b].target = desk[a].target => b = a

\* The mode in which a request of this kind locks the row it acts on.
ModeOf(kind) ==
  IF kind \in {"ban", "hide"} THEN "update" ELSE IF kind = "restrict" THEN "nokey" ELSE "share"

\* A request holds the report it decides, the row it acts on, and its own row.
Holds(a, l) ==
  LET d == desk[a] IN
  /\ l.by = a
  /\ \/ Deciding(a) /\ d.at # "begun" /\ l.row = d.report /\ l.mode = "update"
     \/ d.at \in {"acting", "signed"} /\ l.row = d.target /\ l.mode = ModeOf(d.kind)
     \/ d.at = "signed" /\ l.row = a /\ l.mode = "share"

\* No lock outlives the transaction that took it.
LocksOwned ==
  \A l \in locks :
    \/ \E a \in Staff : Holds(a, l)
    \/ \E i \in Instances : /\ job[i].pc = "insert"
                             /\ l = [by |-> i, row |-> job[i].seller, mode |-> "nokey"]

\* A run of the job has a page before it, and sees to a seller of this page.
RunsFit ==
  \A i \in Instances :
    /\ job[i].pc = "next" => job[i].todo # {}
    /\ job[i].pc \in {"insert", "push"} => job[i].seller \in job[i].todo

\* The inductive invariant.
TrustInv ==
  /\ TypeOK /\ EditsAlone /\ HistoryChains
  /\ DutiesFit /\ TurnsTaken /\ LocksOwned /\ RunsFit

\* The pages agree in every state: a seller has one level in the feed and on the
\* page of a post, also after deleting reviewed posts; what the feed lists can be
\* opened; who is told that a purchase can be reviewed is not refused; and every
\* sort puts any two posts in one order, so that pages neither skip nor repeat.
ViewsAgree ==
  /\ \A s \in Sellers : FeedLevel(FeedCount(s), FeedTenths(s)) = SellerLevel(s)
  /\ \A p \in Posts :
       /\ Listed(p) => Readable(p)
       /\ CanReview(p) <=> Reviewable(p) /\ reviews[p].state = "none"
  /\ \A sort \in Sorts, boosted \in {{}, plan.posts} :
       LET key == [p \in Posts |-> SortKey(sort, boosted, p)] IN
       \A p, q \in Posts : p < q => (Before(key[p], key[q]) <=> ~Before(key[q], key[p]))

\* Administrators wait for each other in a circle for two reasons only: some of
\* them ban each other, or one bans a user through the very report that
\* another's warning or restriction of this user cites.  So a ban is part of
\* every circle; without one nothing at the desk ever has to be undone.
CirclesNeedBans ==
  \A circle \in SUBSET Staff :
    (circle # {} /\ \A a \in circle : \E b \in circle : Waits(a, b))
    => \/ \E bans \in SUBSET circle :
            /\ bans # {}
            /\ \A a \in bans : desk[a].kind = "ban" /\ desk[a].target \in bans
       \/ \E a, b \in circle :
            /\ desk[b].kind = "ban" /\ desk[b].at = "entered"
            /\ desk[a].at = "signed" /\ desk[a].cites = desk[b].report
            /\ desk[a].target = desk[b].target

\* A report that was decided is never decided again, whatever requests about it
\* or about its target were under way.
DecisionStands ==
  [][\A r \in Reports : reports[r].status \in Decided => reports'[r] = reports[r]]_vars

(* Liveness *)

\* A seller whose bad reputation lasts is warned at last, although runs fail and
\* candidates fill more than a page, and is sent the warning once at most,
\* however many instances run the job.
WarnedOnce ==
  \A s \in Sellers :
    <>[](s \notin locked /\ Warned(s) /\ plan.instances # {})
      => <>[](s \in notices /\ pushed[s] <= 1)
=============================================================================
