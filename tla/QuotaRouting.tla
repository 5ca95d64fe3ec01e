------------------------------ MODULE QuotaRouting -----------------------------
(***************************************************************************)
(* How a subscription is chosen for a new chat (routeNewThread in mux.go,  *)
(* chooseAccount and routeUrgencyScore in accounts.go), and what the       *)
(* desktop is told when there is none (allSubscriptionsDepleted).          *)
(*                                                                         *)
(* The choice asks every subscription at once, first for its status, then  *)
(* for its banked resets; answers come in any order, may fail or come      *)
(* without the limits, and may be cut off by the deadline of the request,  *)
(* while the control server removes subscriptions and sets the preview of  *)
(* used-up limits.  If nobody has capacity, all are asked again, and their *)
(* quotas may be others by then.  Scores are integers: thousandths of a    *)
(* percent per hour.  Times are minutes from now on.                       *)
(***************************************************************************)
EXTENDS Integers, FiniteSets, Sequences, SequencesExt

CONSTANTS
  Accounts,    \* subscriptions in the pool when the choice begins
  Primary,     \* the controller account
  CreatedAt,   \* when each subscription was added
  Profiles,    \* what the status of a subscription may be
  Counts,      \* how many banked resets it may have
  PreviewResets, \* the reset that the preview of used-up limits may name
  Tolerance,   \* scores no further apart than this count as close
  ShareTolerance, \* and so do shares of a window
  NoWindow, NoTime, NoCount, NoAccount

\* routingFallbackWindow and routingMinimumWindow, in minutes; the bonus of a
\* banked reset in percent, and how many of them count.
FallbackWindow == 7 * 24 * 60
MinimumWindow == 1
BonusPerCredit == 15
BonusCreditCap == 3

\* The windows that a preview shows, in minutes.
PreviewShort == 300
PreviewWeekly == 10080

\* The longest list for which sort.SliceStable is an insertion sort.
SortBlock == 20

\* The urgency of a subscription whose limits are not known.
UnknownUrgency == -1000

VARIABLES
  status,     \* what every subscription answered last
  pool,       \* the accounts of the Store
  phase,      \* how far the choice has come
  waiting,    \* subscriptions that have still to answer
  snapshots,  \* the statuses that have arrived, in their order
  candidates, \* the subscriptions that may take the chat
  banked,     \* the banked resets that have arrived
  choice,     \* the subscription chosen
  alert,      \* what the desktop is told when there is none
  departed    \* history: who had left the pool when the candidates were taken up

vars == <<status, pool, phase, waiting, snapshots, candidates, banked, choice, alert, departed>>

Window == [used : Int, mins : Nat \union {NoTime}, reset : Int \union {NoTime}]
Profile == [enabled : BOOLEAN, chatgpt : BOOLEAN, threads : Nat,
            primary : Window \union {NoWindow}, secondary : Window \union {NoWindow}]

ASSUME RoutingAssumption ==
  /\ Primary \in Accounts /\ NoAccount \notin Accounts
  /\ IsFiniteSet(Accounts) /\ Cardinality(Accounts) <= SortBlock
  /\ CreatedAt \in [Accounts -> Nat]
  /\ Profiles \subseteq Profile /\ NoWindow \notin Window
  /\ Counts \subseteq Nat /\ PreviewResets \subseteq Int \union {NoTime}
  /\ Tolerance \in Nat /\ Tolerance < -UnknownUrgency /\ ShareTolerance \in Nat

NoAlert == [answered |-> {}, reset |-> NoTime, preview |-> FALSE]

\* Before the first answer.
NoStatus == [enabled |-> FALSE, chatgpt |-> FALSE, threads |-> 0,
             primary |-> NoWindow, secondary |-> NoWindow]

Init ==
  /\ status = [a \in Accounts |-> NoStatus]
  /\ pool = Accounts
  /\ phase = "asking"
  /\ waiting = Accounts
  /\ snapshots = <<>>
  /\ candidates = <<>>
  /\ banked = [a \in Accounts |-> NoCount]
  /\ choice = NoAccount
  /\ alert = NoAlert
  /\ departed = {}

--------------------------------------------------------------------------------
(* Windows and scores. *)

Duration(w) == IF w.mins = NoTime THEN 0 ELSE w.mins

\* longestAndShortestWindow: a stable sort of the windows there are.
Longest(p, s) ==
  IF s # NoWindow /\ (p = NoWindow \/ Duration(s) >= Duration(p)) THEN s ELSE p
Shortest(p, s) ==
  IF p # NoWindow /\ (s = NoWindow \/ Duration(p) <= Duration(s)) THEN p ELSE s

Weekly(a) == Longest(status[a].primary, status[a].secondary)
Short(a) == Shortest(status[a].primary, status[a].secondary)

Used(w) == IF w = NoWindow THEN 1000 ELSE w.used

\* Until the reset if it is known and ahead, else the length of the window.
Horizon(w) ==
  IF w.reset # NoTime /\ w.reset > 0 THEN Max({MinimumWindow, w.reset})
  ELSE IF w.mins # NoTime /\ w.mins > 0 THEN Max({MinimumWindow, w.mins})
  ELSE FallbackWindow

Remaining(w) == Max({0, Min({100, 100 - w.used})})

\* Slip: a subscription whose limits are not known counts as unused.
Urgency_Slip(w, credits) ==
  LET known == IF w = NoWindow THEN [used |-> 0, mins |-> NoTime, reset |-> NoTime] ELSE w
  IN (Remaining(known) * 60000) \div Horizon(known)

\* routeUrgencyScore.
Urgency(w, credits) ==
  IF w = NoWindow THEN UnknownUrgency
  ELSE LET score == (Remaining(w) * 60000) \div Horizon(w)
           counted == IF credits = NoCount THEN 0 ELSE Min({credits, BonusCreditCap})
       IN (score * (100 + counted * BonusPerCredit)) \div 100

Score(a) == Urgency(Weekly(a), banked[a])

--------------------------------------------------------------------------------
(* Orders. *)

\* Slip: the status answers are taken in the order they came.
ListedBefore_Slip(a, b) == FALSE

\* accountSnapshots: the controller first, then by age.
ListedBefore(a, b) ==
  \/ a = Primary /\ b # Primary
  \/ (a = Primary <=> b = Primary) /\ CreatedAt[a] < CreatedAt[b]

\* Clearly less, and neither clearly less than the other.
Less(x, y) == x + ShareTolerance < y
Close(x, y) == ~Less(x, y) /\ ~Less(y, x)

\* Ties in the urgency: the clearly smaller share of the short window, then of the
\* weekly one, the fewer chats, the older subscription.
TieBreak(a, b) ==
  \/ Less(Used(Short(a)), Used(Short(b)))
  \/ /\ Close(Used(Short(a)), Used(Short(b)))
     /\ \/ Less(Used(Weekly(a)), Used(Weekly(b)))
        \/ /\ Close(Used(Weekly(a)), Used(Weekly(b)))
           /\ \/ status[a].threads < status[b].threads
              \/ status[a].threads = status[b].threads /\ CreatedAt[a] < CreatedAt[b]

\* Slip: the pressure on the short window decides before the urgency does.
Preferred_Slip(a, b) == TieBreak(a, b)

\* The comparison of chooseAccount: a clearly higher urgency, else the ties. As
\* closeness is not transitive, neither is this.
Preferred(a, b) ==
  \/ Score(a) > Score(b) + Tolerance
  \/ Score(b) <= Score(a) + Tolerance /\ TieBreak(a, b)

ListingOrder == {x \in Accounts \X Accounts : ListedBefore(x[1], x[2])}
PreferenceOrder == {x \in Accounts \X Accounts : Preferred(x[1], x[2])}

\* sort.SliceStable on a slice of at most SortBlock: each element in turn moves left
\* for as long as it goes before its neighbour.
Inserted(sorted, x, before) ==
  LET places == {k \in 1..(Len(sorted) + 1) : \A j \in k..Len(sorted) : <<x, sorted[j]>> \in before}
  IN InsertAt(sorted, Min(places), x)

Sorted(s, before) ==
  LET upTo[n \in 0..Len(s)] == IF n = 0 THEN <<>> ELSE Inserted(upTo[n - 1], s[n], before)
  IN upTo[Len(s)]

--------------------------------------------------------------------------------
(* chooseAccount. *)

Without(a) == waiting \ {a}

\* account/read has answered and account/rateLimits/read has not.
Unread(s) == [s EXCEPT !.primary = NoWindow, !.secondary = NoWindow]

\* applyRateLimitPreview: all limits are used up until the reset of the preview.
Previewed(s, reset) ==
  [s EXCEPT !.primary = [used |-> 100, mins |-> PreviewShort, reset |-> reset],
            !.secondary = [used |-> 100, mins |-> PreviewWeekly, reset |-> reset]]

\* What a subscription that can be asked may be found to be.
Answers ==
  Profiles \union {Unread(s) : s \in Profiles}
    \union {Previewed(s, reset) : s \in {x \in Profiles : x.chatgpt}, reset \in PreviewResets}

\* accountSnapshots: the status of a subscription arrives, or an error.
StatusArrives(a) ==
  /\ phase \in {"asking", "asking again"} /\ a \in waiting
  /\ waiting' = Without(a)
  /\ \E ok \in BOOLEAN :
       /\ snapshots' = Append(snapshots, [account |-> a, ok |-> ok])
       /\ IF ok THEN \E s \in Answers : status' = [status EXCEPT ![a] = s]
          ELSE status' = status
  /\ UNCHANGED <<pool, phase, candidates, banked, choice, alert, departed>>

Depleted(a) == Weekly(a) # NoWindow /\ Used(Weekly(a)) >= 100

Subscribed(a) == status[a].enabled /\ status[a].chatgpt

\* A snapshot whose account may take the chat.
Eligible(x) == x.ok /\ Subscribed(x.account) /\ x.account \in pool /\ ~Depleted(x.account)

\* accountSnapshots: by age if all have answered; at the deadline, as they came.
Listed(s) ==
  LET accounts == [i \in DOMAIN s |-> s[i].account]
  IN IF waiting = {} THEN Sorted(accounts, ListingOrder) ELSE accounts

\* The loop over the snapshots, which takes up those that may take the chat.
Taken(s, eligible) ==
  LET upTo[n \in 0..Len(s)] ==
        IF n = 0 THEN <<>>
        ELSE IF s[n] \in eligible THEN Append(upTo[n - 1], s[n]) ELSE upTo[n - 1]
  IN upTo[Len(s)]

\* All have answered, or the deadline has passed: those that are left may take
\* the chat, and are asked for their banked resets.
SelectCandidates ==
  /\ phase = "asking"
  /\ LET eligible == {x.account : x \in {y \in Range(snapshots) : Eligible(y)}}
     IN /\ candidates' = Taken(Listed(snapshots), eligible)
        /\ waiting' = eligible
        /\ phase' = IF eligible = {} THEN "depleted" ELSE "crediting"
  /\ departed' = Accounts \ pool
  /\ UNCHANGED <<status, pool, snapshots, banked, choice, alert>>

\* routingResetCredits: the count, or nothing if it cannot be had.
CreditsArrive(a) ==
  /\ phase = "crediting" /\ a \in waiting
  /\ waiting' = Without(a)
  /\ \E count \in Counts \union {NoCount} : banked' = [banked EXCEPT ![a] = count]
  /\ UNCHANGED <<status, pool, phase, snapshots, candidates, choice, alert, departed>>

\* All counts are in, or the deadline has passed: the first of the sorted list.
Choose ==
  /\ phase = "crediting"
  /\ choice' = Head(Sorted(candidates, PreferenceOrder))
  /\ phase' = "chosen"
  /\ UNCHANGED <<status, pool, waiting, snapshots, candidates, banked, alert, departed>>

--------------------------------------------------------------------------------
(* allSubscriptionsDepleted. *)

\* averageRateLimitWindow; the share used plays no part in the alert.
Average(windows) ==
  LET given == windows \ {NoWindow}
      mins == {w.mins : w \in given} \ {NoTime}
      resets == {w.reset : w \in given} \ {NoTime}
  IN IF given = {} THEN NoWindow
     ELSE [used  |-> 0,
           mins  |-> IF mins = {} THEN NoTime ELSE Max(mins),
           reset |-> IF resets = {} THEN NoTime ELSE Min(resets)]

\* Slip: the reset of the shortest of the two windows is taken.
PooledReset_Slip(answered) ==
  LET subscribed == {a \in answered : Subscribed(a)}
      shortest == Shortest(Average({status[a].primary : a \in subscribed}),
                           Average({status[a].secondary : a \in subscribed}))
  IN IF shortest = NoWindow THEN NoTime ELSE shortest.reset

\* aggregateRateLimits over the subscriptions that answer this time, and the
\* reset of the longest of the two windows.
PooledReset(answered) ==
  LET subscribed == {a \in answered : Subscribed(a)}
      longest == Longest(Average({status[a].primary : a \in subscribed}),
                         Average({status[a].secondary : a \in subscribed}))
  IN IF longest = NoWindow THEN NoTime ELSE longest.reset

\* There is no preview of limits that are all used up: the subscriptions are asked
\* again, for the alert.
AskAgain ==
  /\ phase = "depleted"
  /\ phase' = "asking again"
  /\ waiting' = pool
  /\ snapshots' = <<>>
  /\ status' = [a \in Accounts |-> NoStatus]
  /\ UNCHANGED <<pool, candidates, banked, choice, alert, departed>>

\* There is such a preview, and the alert is its own.
ReportPreview ==
  /\ phase = "depleted"
  /\ phase' = "reported"
  /\ \E reset \in PreviewResets :
       alert' = [answered |-> {}, reset |-> reset, preview |-> TRUE]
  /\ UNCHANGED <<status, pool, waiting, snapshots, candidates, banked, choice, departed>>

\* The subscriptions whose status has arrived without an error.
Readable == {x.account : x \in {y \in Range(snapshots) : y.ok}}

\* All have answered again, or the deadline has passed.
ReportDepleted ==
  /\ phase = "asking again"
  /\ phase' = "reported"
  /\ alert' = [answered |-> Readable, reset |-> PooledReset(Readable), preview |-> FALSE]
  /\ UNCHANGED <<status, pool, waiting, snapshots, candidates, banked, choice, departed>>

\* The control server removes a subscription meanwhile.
Leave(a) ==
  /\ a \in pool \ {Primary}
  /\ pool' = pool \ {a}
  /\ UNCHANGED <<status, phase, waiting, snapshots, candidates, banked, choice, alert, departed>>

Next ==
  \/ \E a \in Accounts : StatusArrives(a) \/ CreditsArrive(a) \/ Leave(a)
  \/ SelectCandidates \/ Choose \/ AskAgain \/ ReportPreview \/ ReportDepleted

Spec == Init /\ [][Next]_vars

--------------------------------------------------------------------------------
\* Every variable keeps its shape, and no subscription answers twice.
TypeOK ==
  /\ status \in [Accounts -> Profile]
  /\ pool \subseteq Accounts /\ waiting \subseteq Accounts /\ departed \subseteq Accounts
  /\ phase \in {"asking", "crediting", "chosen", "depleted", "asking again", "reported"}
  /\ snapshots \in Seq([account : Accounts, ok : BOOLEAN])
  /\ candidates \in Seq(Accounts) /\ IsInjective(candidates)
  /\ banked \in [Accounts -> Counts \union {NoCount}]
  /\ choice \in Accounts \union {NoAccount}
  /\ alert.answered \subseteq Accounts

HasAllowance(a) == Weekly(a) # NoWindow /\ Remaining(Weekly(a)) > 0

\* The subscriptions that a choice may be expected to consider.
Usable == {a \in Readable \ departed : Subscribed(a)}

\* A new chat goes to an enabled ChatGPT subscription that answered and had not been
\* removed when the candidates were taken up; and it goes to one whose weekly
\* allowance is not known only if none that could have been taken is known to have
\* allowance left, however the tolerances and the banked resets order the candidates.
\* The user is told that all are depleted only if each of them is known to be.
KnownCapacityFirst ==
  /\ phase = "chosen" =>
       /\ choice \in Usable
       /\ \/ HasAllowance(choice)
          \/ Weekly(choice) = NoWindow /\ \A a \in Usable : ~HasAllowance(a)
  /\ phase = "depleted" =>
       \A a \in Usable : Weekly(a) # NoWindow /\ ~HasAllowance(a)

\* ARCHITECTURE.md: new threads are assigned by quota urgency, and the ties only
\* break close results.  Closeness is not transitive, so the chosen subscription
\* may itself be beaten; but a chain of close results never costs more than one
\* tolerance per link.
CloseTiesCostLittle ==
  phase = "chosen" =>
    \A a \in Range(candidates) :
      Score(a) <= Score(choice) + (Len(candidates) - 1) * Tolerance

OlderFirst(a, b) ==
  a # b /\ (a = Primary \/ (b # Primary /\ CreatedAt[a] < CreatedAt[b]))

\* The choice depends on the subscriptions, not on how fast they answer: once all
\* have answered it is, for the same counts, the one that results when the
\* candidates come in order of age.  (Two that were added in the same second have
\* no such order, and at the deadline ties go to those that answered first.)
ArrivalOrderIsIrrelevant ==
  phase = "chosen" /\ {x.account : x \in Range(snapshots)} = Accounts =>
    \A byAge \in [DOMAIN candidates -> Range(candidates)] :
      (\A i, j \in DOMAIN byAge : i < j => OlderFirst(byAge[i], byAge[j]))
        => choice = Head(Sorted(byAge, PreferenceOrder))

\* The combined alert does not call the user back before the first of the
\* subscriptions that answered begins a new week.  (It may call later than that.)
\* The windows are averaged by slot: this needs a second window to be no shorter than
\* any first one, as the service has them.
AlertIsNeverEarly ==
  phase = "reported" /\ ~alert.preview /\ alert.reset # NoTime =>
    LET asked == {a \in alert.answered : Subscribed(a)}
        Two(a) == status[a].primary # NoWindow /\ status[a].secondary # NoWindow
        secondIsLonger == \A a, b \in asked : Two(a) /\ status[b].primary # NoWindow
                            => Duration(status[b].primary) <= Duration(status[a].secondary)
    IN secondIsLonger =>
         \E w \in {Weekly(a) : a \in asked} \ {NoWindow} :
           w.reset # NoTime /\ w.reset <= alert.reset

\* What holds between any two steps of the choice: the types, and an alert that is
\* not early (AlertIsNeverEarly).
Inv == TypeOK /\ AlertIsNeverEarly

================================================================================
