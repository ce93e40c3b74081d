------------------------------- MODULE Reviews -------------------------------
(***************************************************************************)
(* ReviewsService and the reputation that is computed from the reviews.     *)
(* The buyer of a sold post may review it once, within a period; the        *)
(* reviewer edits and removes the review under its row lock, and every edit *)
(* leaves a revision in the history.  Comments are left out: changing one   *)
(* is an edit like changing the rating.  Renewing a post is PostLifecycle's. *)
(***************************************************************************)
EXTENDS Integers, FiniteSets, Sequences

CONSTANTS
  Sellers,     \* identifiers of the users who sell, by which pages are ordered
  Staff,       \* the administrators
  Posts,       \* identifiers of their posts, by which ties are broken
  SellerOf,    \* the seller of each post, who never changes
  Clients,     \* concurrent requests about reviews
  Ratings,     \* the stars a review may give
  None,
  MinReviews,  \* reviews below which a reputation counts for nothing
  MaxEdits     \* bound: revisions of a review

ASSUME ReviewAssumption ==
  /\ IsFiniteSet(Posts) /\ Posts \subseteq Nat /\ Sellers \subseteq Nat \ {0}
  /\ SellerOf \in [Posts -> Sellers]
  /\ Ratings \subseteq 1 .. 5 /\ Ratings # {}
  /\ None \notin Posts \cup Sellers \cup Staff
  /\ Sellers \cap Staff = {} /\ Posts \cap (Sellers \cup Staff) = {}
  /\ MinReviews \in Nat \ {0} /\ MaxEdits \in Nat

VARIABLES
  locked,   \* users whose account is locked
  posts,    \* the posts table
  locks,    \* row locks on users and posts: who holds which row in which mode
  reviews,  \* the review of each post, with its edit history
  call      \* what each request about a review is doing

reviewVars == <<locked, posts, locks, reviews, call>>

Users == Sellers \cup Staff

\* lapsed: the time its status gives a post is over: that on display of an
\* active one, the thirty days for a review of one that was sold.
Post == [status : {"active", "sold", "hidden"}, deleted : BOOLEAN, lapsed : BOOLEAN]

Edit == [old : Ratings, new : Ratings]

\* Rows are never deleted: a review that was removed keeps its place.
Review == [state : {"none", "kept", "removed"}, rating : Ratings,
           history : Seq(Edit)]

Call == [pc : {"idle", "insert", "edit"}, post : Posts \cup {None},
         old : Ratings, new : Ratings]

AnyRating == CHOOSE r \in Ratings : TRUE

Idle == [pc |-> "idle", post |-> None, old |-> AnyRating, new |-> AnyRating]

ReviewTypeOK ==
  /\ locked \in SUBSET Users
  /\ posts \in [Posts -> Post]
  /\ reviews \in [Posts -> Review]
  /\ call \in [Clients -> Call]

ReviewInit ==
  /\ locked = {}
  /\ posts = [p \in Posts |-> [status |-> "active", deleted |-> FALSE, lapsed |-> FALSE]]
  /\ locks = {}
  /\ reviews = [p \in Posts |-> [state |-> "none", rating |-> AnyRating,
                                 history |-> <<>>]]
  /\ call = [c \in Clients |-> Idle]

-----------------------------------------------------------------------------
(* Row locks of PostgreSQL *)

\* FOR UPDATE, FOR NO KEY UPDATE and the FOR KEY SHARE of a foreign key.
Modes == {"update", "nokey", "share"}

Conflict(m, n) == "update" \in {m, n} \/ (m = "nokey" /\ n = "nokey")

\* Transaction t gets the row in this mode without waiting.
Grantable(t, row, mode) ==
  \A l \in locks : l.row = row /\ Conflict(l.mode, mode) => l.by = t

-----------------------------------------------------------------------------
(* The posts that are reviewed *)

MarkSold(p) ==
  /\ Grantable(None, p, "update") /\ ~posts[p].deleted /\ posts[p].status = "active"
  /\ posts' = [posts EXCEPT ![p].status = "sold", ![p].lapsed = FALSE]
  /\ UNCHANGED <<locked, locks, reviews, call>>

Remove(p) ==
  /\ Grantable(None, p, "update") /\ ~posts[p].deleted
  /\ posts' = [posts EXCEPT ![p].deleted = TRUE]
  /\ UNCHANGED <<locked, locks, reviews, call>>

\* A post that would be on display again also has to pass the posting checks.
Restore(p) ==
  /\ Grantable(None, p, "update") /\ posts[p].deleted
  /\ posts' = [posts EXCEPT ![p].deleted = FALSE]
  /\ UNCHANGED <<locked, locks, reviews, call>>

Lapse(p) ==
  /\ ~posts[p].lapsed
  /\ posts' = [posts EXCEPT ![p].lapsed = TRUE]
  /\ UNCHANGED <<locked, locks, reviews, call>>

-----------------------------------------------------------------------------
(* Reviewing *)

\* What create asks of the post, read without a lock.
Reviewable(p) == posts[p].status = "sold" /\ ~posts[p].deleted /\ ~posts[p].lapsed

BeginReview(c, p, r) ==
  /\ call[c].pc = "idle"
  /\ Reviewable(p)
  /\ call' = [call EXCEPT ![c] = [Idle EXCEPT !.pc = "insert", !.post = p, !.new = r]]
  /\ UNCHANGED <<locked, posts, locks, reviews>>

\* The unique index on post_id refuses a second review, even of a removed one.
InsertReview(c) ==
  LET p == call[c].post IN
  /\ call[c].pc = "insert"
  /\ reviews' = IF reviews[p].state # "none" THEN reviews
                ELSE [reviews EXCEPT ![p] = [@ EXCEPT !.state = "kept",
                                                      !.rating = call[c].new]]
  /\ call' = [call EXCEPT ![c] = Idle]
  /\ UNCHANGED <<locked, posts, locks>>

ReviewFree(p) == \A d \in Clients : ~(call[d].pc = "edit" /\ call[d].post = p)

\* Mutant: the review is read without its row lock.
LockReviewUnlocked(c, p, r) ==
  /\ call[c].pc = "idle"
  /\ reviews[p].state = "kept" /\ reviews[p].rating # r
  /\ Len(reviews[p].history) < MaxEdits
  /\ call' = [call EXCEPT ![c] = [pc |-> "edit", post |-> p,
                                  old |-> reviews[p].rating, new |-> r]]
  /\ UNCHANGED <<locked, posts, locks, reviews>>

\* SELECT ... FOR UPDATE; an edit that changes nothing ends here.
LockReview(c, p, r) ==
  /\ call[c].pc = "idle"
  /\ ReviewFree(p)
  /\ reviews[p].state = "kept" /\ reviews[p].rating # r
  /\ Len(reviews[p].history) < MaxEdits
  /\ call' = [call EXCEPT ![c] = [pc |-> "edit", post |-> p,
                                  old |-> reviews[p].rating, new |-> r]]
  /\ UNCHANGED <<locked, posts, locks, reviews>>

\* The rating, then the next revision of the history, commit together.
CommitEdit(c) ==
  LET p == call[c].post IN
  /\ call[c].pc = "edit"
  /\ reviews' = [reviews EXCEPT ![p].rating = call[c].new,
       ![p].history = Append(@, [old |-> call[c].old, new |-> call[c].new])]
  /\ call' = [call EXCEPT ![c] = Idle]
  /\ UNCHANGED <<locked, posts, locks>>

\* An error or a lost connection: the transaction rolls back.
Abort(c) ==
  /\ call[c].pc # "idle"
  /\ call' = [call EXCEPT ![c] = Idle]
  /\ UNCHANGED <<locked, posts, locks, reviews>>

RemoveReview(p) ==
  /\ ReviewFree(p) /\ reviews[p].state = "kept"
  /\ reviews' = [reviews EXCEPT ![p].state = "removed"]
  /\ UNCHANGED <<locked, posts, locks, call>>

-----------------------------------------------------------------------------
(* Reputation *)

\* Mutant: the reviews of deleted posts are left out, as a join does by itself.
CountedUndeleted(s) ==
  {p \in Posts : /\ SellerOf[p] = s /\ ~posts[p].deleted
                 /\ reviews[p].state = "kept"
                 /\ posts[p].status \in {"active", "sold"}}

\* The reviews that count: kept, of posts on display or sold.  withDeleted():
\* a seller who deletes a listing does not erase its review.
Counted(s) ==
  {p \in Posts : /\ SellerOf[p] = s
                 /\ reviews[p].state = "kept"
                 /\ posts[p].status \in {"active", "sold"}}

ReviewCount(s) == Cardinality(Counted(s))

\* The sum of the ratings of a set of reviews: the number of their stars.
Stars(set) == Cardinality({star \in set \X (1 .. 5) : star[2] <= reviews[star[1]].rating})

RatingTotal(s) == Stars(Counted(s))

\* reputationPostingDecision, on the exact total.
IsWarned(count, total) == count >= MinReviews /\ total < 2 * count

Warned(s) == IsWarned(ReviewCount(s), RatingTotal(s))

=============================================================================
