------------------------------- MODULE Listing -------------------------------
(***************************************************************************)
(* What the pages of the shop show of posts, sellers and reviews: the feed   *)
(* and its order (PostsService, listing-ranking), the page of one post       *)
(* (findOne, seller-statistics) and the purchases of a buyer.                *)
(*                                                                         *)
(* The feed computes reputations in SQL, the other pages in TypeScript, and  *)
(* the moderation of sellers by a third formula.  Averages are in tenths of  *)
(* a star here, as ROUND(AVG(rating), 1) gives them.                         *)
(***************************************************************************)
EXTENDS Reviews

CONSTANTS
  MinimumReviewCount,  \* REPUTATION_MIN_REVIEW_COUNT
  LowTenths, GoodTenths, ExcellentTenths,  \* the thresholds of the levels
  CreatedAt, Price     \* columns of the posts

ASSUME LevelAssumption ==
  /\ MinimumReviewCount \in Nat \ {0}
  /\ {LowTenths, GoodTenths, ExcellentTenths} \subseteq Nat
  /\ LowTenths <= GoodTenths /\ GoodTenths <= ExcellentTenths

ASSUME PostColumns == CreatedAt \in [Posts -> Nat] /\ Price \in [Posts -> Nat]

Levels == {"UNRATED", "INSUFFICIENT_DATA", "LOW", "MEDIUM", "GOOD", "EXCELLENT"}

-----------------------------------------------------------------------------
(* Reputation levels *)

\* ROUND(AVG(rating), 1), half away from zero; 0 stands for the NULL of no rows.
AverageTenths(count, total) ==
  IF count = 0 THEN 0 ELSE (20 * total + count) \div (2 * count)

\* calculateReputationLevel, for the page of a post.
Level(count, tenths) ==
  CASE count = 0 -> "UNRATED"
    [] count > 0 /\ count < MinimumReviewCount -> "INSUFFICIENT_DATA"
    [] count >= MinimumReviewCount /\ tenths < LowTenths -> "LOW"
    [] count >= MinimumReviewCount /\ LowTenths <= tenths /\ tenths < GoodTenths -> "MEDIUM"
    [] count >= MinimumReviewCount /\ GoodTenths <= tenths /\ tenths < ExcellentTenths -> "GOOD"
    [] OTHER -> "EXCELLENT"

\* The CASE of reputationCaseExpression, whose branches are tried in order.
FeedLevel(count, tenths) ==
  IF count = 0 THEN "UNRATED"
  ELSE IF count < MinimumReviewCount THEN "INSUFFICIENT_DATA"
  ELSE IF tenths = 0 THEN "UNRATED"
  ELSE IF tenths < LowTenths THEN "LOW"
  ELSE IF tenths < GoodTenths THEN "MEDIUM"
  ELSE IF tenths < ExcellentTenths THEN "GOOD"
  ELSE "EXCELLENT"

Priority ==
  [level \in Levels |->
     CASE level = "EXCELLENT" -> 6 [] level = "GOOD" -> 5 [] level = "MEDIUM" -> 4
       [] level = "INSUFFICIENT_DATA" -> 3 [] level = "UNRATED" -> 2 [] OTHER -> 1]

\* reputationSubquery joins the tables without a look at deleted_at of a post.
FeedCounted(s) ==
  {p \in Posts : /\ reviews[p].state = "kept"
                 /\ posts[p].status \in {"active", "sold"} /\ SellerOf[p] = s}

FeedCount(s) == Cardinality(FeedCounted(s))

FeedTenths(s) == AverageTenths(FeedCount(s), Stars(FeedCounted(s)))

SellerLevel(s) == Level(ReviewCount(s), AverageTenths(ReviewCount(s), RatingTotal(s)))

-----------------------------------------------------------------------------
(* The feed *)

Listed(p) ==
  /\ posts[p].status = "active" /\ ~posts[p].deleted /\ ~posts[p].lapsed
  /\ SellerOf[p] \notin locked

Sorts == {"RECOMMENDED", "REPUTATION_HIGH_TO_LOW", "NEWEST", "PRICE_ASC", "PRICE_DESC"}

\* The columns a sort orders by, the greater value first; boosts count in one
\* sort.  NULLS LAST needs no column: no average is below ten.
SortKey(sort, boosted, p) ==
  LET s == SellerOf[p]
      boost == IF sort = "RECOMMENDED" /\ p \in boosted THEN 1 ELSE 0 IN
  CASE sort = "PRICE_ASC" -> <<-Price[p], p>>
    [] sort = "PRICE_DESC" -> <<Price[p], p>>
    [] sort = "NEWEST" -> <<CreatedAt[p], p>>
    [] OTHER -> <<boost, Priority[FeedLevel(FeedCount(s), FeedTenths(s))],
                  FeedTenths(s), FeedCount(s), CreatedAt[p], p>>

\* Key k is shown before key l.
Before(k, l) ==
  \E i \in DOMAIN k : /\ k[i] > l[i]
                      /\ \A j \in 1 .. i - 1 : k[j] = l[j]

-----------------------------------------------------------------------------
(* The page of a post, and the purchases of its buyer *)

\* findOne
Readable(p) ==
  /\ ~posts[p].deleted /\ SellerOf[p] \notin locked
  /\ \/ posts[p].status = "sold"
     \/ posts[p].status = "active" /\ ~posts[p].lapsed

\* canReview of findPurchased: a removed review still counts as one.
CanReview(p) ==
  /\ posts[p].status = "sold" /\ ~posts[p].deleted
  /\ reviews[p].state = "none" /\ ~posts[p].lapsed
=============================================================================
