-------------------------- MODULE MCPaymentSystem --------------------------
(* Small instances of PaymentSystem for TLC, in three stories, each of which
   is explored to its end. *)
EXTENDS PaymentSystem, TLC

CONSTANTS p1, p2, t1, c1, c2, w1, w2, o1, o2, k1, k2, s1, s2

NoWindows == {}

NoBoosts == {}

\* A boost scheduled for later, or asked for when it should have begun.
MCBoosts == {[from |-> 1, until |-> 3]}

\* Requests, orders and keys are interchangeable; no property orders them.
Symmetry == Permutations(Orders) \cup Permutations(Callers)
            \cup Permutations(Keys)

-----------------------------------------------------------------------------
(* Stories *)

\* What the instance of a behaviour is about, chosen once: rival checkouts
\* beside boosts and account locks; one order whose outcome arrives in every
\* way the gateway has, beside the reconciliation job; or, for liveness, a
\* backlog of orders whose posts may be sold meanwhile.
VARIABLE story

Stories == {"checkouts", "reconciliation"}  \* those of safety

Opened == {o \in Orders : orders[o].status # "none"}

Busy == {c \in Callers : call[c].pc # "idle"}

\* A post leaves the display in one way at most.
LeavesOnce(p) ==
  Cardinality({x \in {"hidden", "sold", "deleted"} :
                 \/ posts[p].status = x
                 \/ x = "sold" /\ posts[p].sold
                 \/ x = "deleted" /\ posts[p].deleted}) <= 1

\* How far each story goes.
Within ==
  /\ \A p \in Posts : LeavesOnce(p)
  /\ CASE story = "checkouts" ->
            /\ \A w \in Servers : todo[w] = <<>> /\ call[w].pc = "idle"
            /\ \A o \in Orders : gateway[o] \subseteq {"success"}
       [] story = "reconciliation" ->
            /\ clock <= 1
            /\ Cardinality(Opened) <= 1
            /\ Cardinality(Busy) <= 1
            /\ Cardinality(({r.key : r \in requests} \cup {call[c].key : c \in Busy})
                           \ {None}) <= 1
            /\ \A pr \in promotions : pr.order # None
            /\ \A s \in Sellers : account[s] = "open"
       [] story = "settlement" ->
            \A p \in Posts : ~posts[p].deleted /\ posts[p].status # "hidden"

StoryInit == Init /\ story \in Stories

StoryNext == Next /\ UNCHANGED story /\ Within'

StorySpec == StoryInit /\ [][StoryNext]_<<vars, story>>

SettlementInit == Init /\ story = "settlement"

\* No fair step touches a post, so the story keeps none from being taken.
SettlementSpec == SettlementInit /\ [][StoryNext]_<<vars, story>> /\ Fairness

=============================================================================
