----------------------------- MODULE PooledSession -----------------------------
(***************************************************************************)
(* What the multiplexer promises the desktop, without saying how: behind   *)
(* one connection there is a pool of subscriptions; a request is answered  *)
(* once, by the subscription it was routed to or by the multiplexer; a     *)
(* chat is assigned to a subscription that holds it and stays with it      *)
(* until that subscription is removed, or moves to another one that holds  *)
(* the chat as well.                                                       *)
(***************************************************************************)
EXTENDS Sequences

CONSTANTS Accounts, Requests, Threads, Homes, Mux, NoAccount

VARIABLES
  asked,    \* requests the desktop has sent
  routed,   \* the subscription a request was routed to
  answered, \* the answers to each request
  held,     \* chats in the home of each subscription
  assigned  \* the subscription each chat belongs to

sessionVars == <<asked, routed, answered, held, assigned>>

Init ==
  /\ asked = {}
  /\ routed = [r \in Requests |-> NoAccount]
  /\ answered = [r \in Requests |-> <<>>]
  /\ held = Homes
  /\ assigned \in [Threads -> Accounts \union {NoAccount}]
  /\ \A t \in Threads : assigned[t] # NoAccount => t \in held[assigned[t]]

Ask(r) ==
  /\ r \notin asked
  /\ asked' = asked \union {r}
  /\ UNCHANGED <<routed, answered, held, assigned>>

Route(r, a) ==
  /\ r \in asked /\ routed[r] = NoAccount /\ answered[r] = <<>>
  /\ routed' = [routed EXCEPT ![r] = a]
  /\ UNCHANGED <<asked, answered, held, assigned>>

Answer(r, author) ==
  /\ r \in asked /\ answered[r] = <<>> /\ author \in {Mux, routed[r]}
  /\ answered' = [answered EXCEPT ![r] = <<author>>]
  /\ UNCHANGED <<asked, routed, held, assigned>>

Create(t, a) ==
  /\ \A b \in Accounts : t \notin held[b]
  /\ held' = [held EXCEPT ![a] = @ \union {t}]
  /\ UNCHANGED <<asked, routed, answered, assigned>>

\* A chat that only one subscription holds is assigned once.
Assign(t, a) ==
  /\ t \in held[a]
  /\ assigned[t] = NoAccount \/ t \in held[assigned[t]]
  /\ assigned' = [assigned EXCEPT ![t] = a]
  /\ UNCHANGED <<asked, routed, answered, held>>

Remove(a) ==
  /\ assigned' = [t \in Threads |-> IF assigned[t] = a THEN NoAccount ELSE assigned[t]]
  /\ UNCHANGED <<asked, routed, answered, held>>

Next ==
  \/ \E r \in Requests : Ask(r)
  \/ \E r \in Requests, a \in Accounts : Route(r, a)
  \/ \E r \in Requests, author \in Accounts \union {Mux} : Answer(r, author)
  \/ \E t \in Threads, a \in Accounts : Create(t, a) \/ Assign(t, a)
  \/ \E a \in Accounts : Remove(a)

Spec == Init /\ [][Next]_sessionVars
================================================================================
