------------------------------- MODULE MCTrust -------------------------------
(* Small instances of TrustSystem for TLC. *)
EXTENDS TrustSystem, TLC

CONSTANTS a1, a2, c1, c2, i1, i2, ra, rb, rs, rp, rq

MCSellers == {1, 2}
MCPosts == {11, 12, 13}
MCSellerOf == 11 :> 1 @@ 12 :> 2 @@ 13 :> 1
MCTarget == ra :> a1 @@ rb :> a2 @@ rs :> 1 @@ rp :> 11 @@ rq :> 11
MCCreatedAt == 11 :> 5 @@ 12 :> 5 @@ 13 :> 5
MCPrice == 11 :> 7 @@ 12 :> 7 @@ 13 :> 7

Nobody == [clients |-> {}, posts |-> {}, moves |-> {}, reports |-> {}, staff |-> {},
           users |-> {}, kinds |-> {}, instances |-> {}]

\* Two requests about the reviews of a seller's two posts, sold, deleted and
\* restored meanwhile; the job of two instances while reviews make and unmake a
\* bad reputation; the job while an administrator holds the row of the
\* candidate, or locks and unlocks the account; two administrators deciding two
\* reports about a post that is deleted; two administrators who act on each
\* other; and two who act on a user, one perhaps citing the report of the other.
ReviewPlan == [Nobody EXCEPT !.clients = {c1, c2}, !.posts = {11, 13}, !.moves = Moves]
JobPlan == [Nobody EXCEPT !.clients = {c1}, !.posts = {11, 12}, !.instances = {i1, i2}]
CandidatePlan == [JobPlan EXCEPT !.posts = {11}, !.staff = {a1}, !.users = {1},
                                 !.kinds = {"lock", "unlock", "restrict"}]
HidePlan == [Nobody EXCEPT !.posts = {11}, !.moves = {"withdraw"}, !.reports = {rp, rq},
                           !.staff = {a1, a2}, !.kinds = {"dismiss", "hide"}]
DeskPlan == [Nobody EXCEPT !.reports = {ra, rb}, !.staff = {a1, a2}, !.users = {a1, a2, 1},
                           !.kinds = DeskKinds]

CitePlan == [Nobody EXCEPT !.reports = {rs}, !.staff = {a1, a2}, !.users = {1},
                           !.kinds = {"dismiss", "ban", "warn", "restrict"}]

MCPlans == {ReviewPlan, JobPlan, CandidatePlan, HidePlan, DeskPlan, CitePlan}
=============================================================================
