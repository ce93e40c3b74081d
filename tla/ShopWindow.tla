------------------------------ MODULE ShopWindow ------------------------------
(***************************************************************************)
(* What the listing lifecycle promises, seen from outside: each seller in   *)
(* good standing has a shop window with room for Quota listings.  Listings  *)
(* are put in one at a time while there is room; any number may leave at    *)
(* any moment (sale, removal, moderation, the deadline).  A listing that is *)
(* closed never comes back, and a listing never changes hands.              *)
(***************************************************************************)
EXTENDS Integers, FiniteSets

CONSTANTS Sellers, Posts, Quota

VARIABLES
  window,   \* listings each seller shows
  closed,   \* listings that are gone for good
  standing  \* sellers whose account is open

shopVars == <<window, closed, standing>>

ShopInit ==
  /\ window = [s \in Sellers |-> {}]
  /\ closed = {}
  /\ standing = Sellers

Show(s, p) ==
  /\ s \in standing
  /\ p \notin closed
  /\ \A other \in Sellers : p \notin window[other]
  /\ Cardinality(window[s]) < Quota
  /\ window' = [window EXCEPT ![s] = @ \cup {p}]
  /\ UNCHANGED <<closed, standing>>

\* Listings leave, possibly for good.
Leave ==
  /\ window' \in [Sellers -> SUBSET Posts]
  /\ \A s \in Sellers : window'[s] \subseteq window[s]
  /\ closed' \in SUBSET Posts
  /\ closed \subseteq closed'
  /\ \A s \in Sellers : window'[s] \cap closed' = {}
  /\ UNCHANGED standing

Standing ==
  /\ standing' \in SUBSET Sellers
  /\ UNCHANGED <<window, closed>>

ShopNext == (\E s \in Sellers, p \in Posts : Show(s, p)) \/ Leave \/ Standing

ShopSpec == ShopInit /\ [][ShopNext]_shopVars

=============================================================================
