------------------------------ MODULE MessageLog ------------------------------
(***************************************************************************)
(* What a conversation promises its two parties: an append-only log, in     *)
(* which a client id stands for one message of its sender, for each party   *)
(* a mark up to which it has read that only advances, and a party who put   *)
(* the conversation away until something is written in it.                  *)
(***************************************************************************)
EXTENDS Naturals, Sequences

CONSTANTS
  Conversations, Users, Keys, NoKey,
  Buyer, Seller   \* the parties of each conversation

VARIABLES
  log,     \* the messages of each conversation, oldest first
  seen,    \* how far each party has read each conversation
  hidden   \* who has put each conversation away

vars == <<log, seen, hidden>>

Parties(c) == {Buyer[c], Seller[c]}

Used(u, k) ==
  \E c \in Conversations : \E i \in DOMAIN log[c] :
    log[c][i] = [sender |-> u, key |-> k]

Init ==
  /\ log = [c \in Conversations |-> <<>>]
  /\ seen = [c \in Conversations |-> [u \in Users |-> 0]]
  /\ hidden = [c \in Conversations |-> {}]

Write(c, u, k) ==
  /\ k # NoKey => ~Used(u, k)
  /\ log' = [log EXCEPT ![c] = Append(@, [sender |-> u, key |-> k])]
  /\ hidden' = [hidden EXCEPT ![c] = {}]
  /\ UNCHANGED seen

Read(c, u) ==
  /\ \E n \in seen[c][u] + 1 .. Len(log[c]) : seen' = [seen EXCEPT ![c][u] = n]
  /\ UNCHANGED <<log, hidden>>

PutAway(c, u) ==
  /\ hidden' = [hidden EXCEPT ![c] = @ \cup {u}]
  /\ UNCHANGED <<log, seen>>

Reopen(c) ==
  /\ hidden' = [hidden EXCEPT ![c] = @ \ {Buyer[c]}]
  /\ UNCHANGED <<log, seen>>

Next ==
  \E c \in Conversations :
    \/ Reopen(c)
    \/ \E u \in Parties(c) :
         \/ Read(c, u)
         \/ PutAway(c, u)
         \/ \E k \in Keys \cup {NoKey} : Write(c, u, k)

Spec == Init /\ [][Next]_vars

===============================================================================
