------------------------------ MODULE DurableStore -----------------------------
(***************************************************************************)
(* What the Store promises its callers, without saying how: a table of     *)
(* subscriptions and of the subscription each chat belongs to, changed by  *)
(* one operation at a time, and a saved copy of it, which is only ever the *)
(* table as it was at some moment since the last save.  A restart goes     *)
(* back to the copy, and a removal that was acknowledged is past that.     *)
(***************************************************************************)

CONSTANTS Accounts, Primary, Threads, NoAccount

VARIABLES
  table,  \* the subscriptions, and the owner of each chat
  saved,  \* the copy that survives a restart
  gone    \* the subscriptions whose removal was acknowledged

storeVars == <<table, saved, gone>>

Init ==
  /\ table = [accounts |-> {Primary}, owners |-> [t \in Threads |-> NoAccount]]
  /\ saved = table
  /\ gone = {}

Add(a) ==
  /\ a \notin table.accounts \union gone
  /\ table' = [table EXCEPT !.accounts = @ \union {a}]
  /\ UNCHANGED <<saved, gone>>

Remove(a) ==
  /\ a \in table.accounts \ {Primary}
  /\ table' = [accounts |-> table.accounts \ {a},
               owners |-> [t \in Threads |->
                             IF table.owners[t] = a THEN NoAccount ELSE table.owners[t]]]
  /\ UNCHANGED <<saved, gone>>

Assign(t, a) ==
  /\ table' = [table EXCEPT !.owners[t] = a]
  /\ UNCHANGED <<saved, gone>>

\* Once the copy is without them, subscriptions may be called removed.
Save ==
  /\ saved' = table
  /\ \E removed \in SUBSET (Accounts \ table.accounts) : gone' = gone \union removed
  /\ UNCHANGED table

Restart ==
  /\ table' = saved
  /\ UNCHANGED <<saved, gone>>

Next ==
  \/ \E a \in Accounts : Add(a) \/ Remove(a)
  \/ \E t \in Threads, a \in Accounts : Assign(t, a)
  \/ Save \/ Restart

Spec == Init /\ [][Next]_storeVars
================================================================================
