-------------------------- MODULE ControlPlane_proofs --------------------------
(***************************************************************************)
(* Proofs about the banked resets behind the control server, for every set *)
(* of accounts, fetches and redemptions, the types of the account menu for *)
(* every capacity of its channel, and, in the second half, the page of the *)
(* pool for every set of subscriptions and of profiles.                    *)
(*                                                                         *)
(* The argument.  A count is stored after it was fetched, so that the      *)
(* claim about the cache is inductive only together with the same claim    *)
(* about the answers still to be stored: CountsAreAccounted.  A preview    *)
(* counts down because, unless two of them raced, the one redemption       *)
(* between its locks still has the number that the preview has:            *)
(* PreviewsAreExact.                                                       *)
(*                                                                         *)
(* The page adds up because every account that is listed is waited for,    *)
(* has answered or has failed, and because a sum over accounts of sums     *)
(* over days is one over days of sums over accounts.  A sum is a fold, so  *)
(* what it does with one element more is shown by induction on the subsets *)
(* of a finite set.  The longest run is followed over the sorted days.     *)
(***************************************************************************)
EXTENDS ControlPlane, CombinedProfile, FiniteSetTheorems, WellFoundedInduction, TLAPS

\* What ResetCredits does by itself or together with the menu.
ResetsNext ==
  \/ \E f \in Fetches : FetchEnds(f) \/ StoreFetch(f)
  \/ \E f \in Fetches, a \in Accounts, routing \in BOOLEAN : BeginFetch(f, a, routing)
  \/ \E a \in Accounts : Expire(a)
  \/ \E r \in Redemptions, a \in Accounts : SendRedemption(r, a) \/ BeginPreviewRedemption(r, a)
  \/ \E r \in Redemptions : RedemptionFails(r) \/ ServiceRedeems(r)
  \/ \E r \in Redemptions : AcknowledgeRedemption(r) \/ FinishPreviewRedemption(r)
  \/ \E a \in Accounts, n \in PreviewCounts : SetResetCreditsPreview(a, n)

\* The steps of the composition, seen from the banked resets.
LEMMA ResetsStep == [Next]_vars => ResetsNext \/ UNCHANGED resetVars
BY DEF Next, ResetsAlone, Redeems, Acknowledges, PreviewChanges, ResetsNext, resetVars, vars

\* A redemption of a preview has a credit to take, in an account of the pool.
PreviewingHasCredit ==
  \A r \in Redemptions :
    redeeming[r].stage = "previewing" => redeeming[r].left > 0 /\ redeeming[r].account \in Accounts
                                         /\ previews[redeeming[r].account] # NoEntry

\* A redemption that was sent has an account.
SentHasAccount ==
  \A r \in Redemptions :
    redeeming[r].stage \in {"sent", "answered", "failed"} => redeeming[r].account \in Accounts

\* So has a fetch.
FetchHasAccount ==
  \A f \in Fetches : fetches[f].stage # "idle" => fetches[f].account \in Accounts

Typed == ResetsTypeOK /\ PreviewingHasCredit /\ SentHasAccount /\ FetchHasAccount

\* What is in the cache, or about to be stored in it, accounts for every
\* acknowledged redemption, unless an invalidation has overtaken it.
CountsAreAccounted ==
  /\ StaleOnlyFromOverlap
  /\ \A f \in Fetches :
       fetches[f].stage = "answered" /\ ~fetches[f].overlapped
         => Accounted(fetches[f].count, fetches[f].account)

--------------------------------------------------------------------------------
(* Typing. *)

\* How many redemptions are at a stage is a number.
LEMMA RedeemersCount ==
  ASSUME NEW a, NEW stage
  PROVE  /\ IsFiniteSet(Redeemers(a, stage)) /\ Cardinality(Redeemers(a, stage)) \in Nat
BY ResetsAssumption, FS_Subset, FS_CardinalityType DEF Redeemers

LEMMA InitTyped == Init => Typed
BY ResetsAssumption, NoEntryAssumption
   DEF Init, ResetsInit, Typed, ResetsTypeOK, PreviewingHasCredit, SentHasAccount, FetchHasAccount,
       Fetch, Count, Idle, Redemption

\* An invalidation changes no more of a fetch than its history.
LEMMA OvertakenKeeps ==
  ASSUME ResetsTypeOK, NEW a, NEW f \in Fetches
  PROVE  /\ Overtaken(a)[f] \in Fetch
         /\ Overtaken(a)[f].stage = fetches[f].stage
         /\ Overtaken(a)[f].account = fetches[f].account
         /\ Overtaken(a)[f].count = fetches[f].count
         /\ ~Overtaken(a)[f].overlapped
              => ~fetches[f].overlapped /\ ~(fetches[f].stage # "idle" /\ fetches[f].account = a)
<1>1. fetches[f] \in Fetch
  BY DEF ResetsTypeOK
<1>2. CASE fetches[f].stage # "idle" /\ fetches[f].account = a
  <2>. Overtaken(a)[f] = [fetches[f] EXCEPT !.overlapped = TRUE]
    BY <1>2 DEF Overtaken
  <2>. QED
    BY <1>1, <1>2 DEF Fetch
<1>3. CASE ~(fetches[f].stage # "idle" /\ fetches[f].account = a)
  <2>1. Overtaken(a)[f] = fetches[f]
    BY <1>3 DEF Overtaken
  <2>. QED
    BY <1>1, <1>3, <2>1
<1>. QED
  BY <1>2, <1>3

LEMMA OvertakenTyped ==
  ASSUME ResetsTypeOK, FetchHasAccount, NEW a, fetches' = Overtaken(a)
  PROVE  fetches' \in [Fetches -> Fetch] /\ FetchHasAccount'
<1>1. fetches' = [f \in Fetches |-> Overtaken(a)[f]]
  BY DEF Overtaken
<1>. QED
  BY <1>1, OvertakenKeeps DEF FetchHasAccount

LEMMA StepTyped == Typed /\ (ResetsNext \/ UNCHANGED resetVars) => Typed'
<1>. SUFFICES ASSUME Typed, ResetsNext \/ UNCHANGED resetVars PROVE Typed'
  OBVIOUS
<1>. USE ResetsAssumption, NoEntryAssumption
     DEF Typed, ResetsTypeOK, PreviewingHasCredit, SentHasAccount, FetchHasAccount
<1>1. ASSUME NEW f \in Fetches, FetchEnds(f) PROVE Typed'
  <2>. PICK count \in {spent, NoCount} :
            fetches' = [fetches EXCEPT ![f].stage = "answered", ![f].count = count]
    BY <1>1 DEF FetchEnds
  <2>. fetches[f] \in Fetch /\ fetches[f].account \in Accounts
    BY <1>1 DEF FetchEnds
  <2>. count \in Count
    BY DEF Count
  <2>1. fetches' = [fetches EXCEPT ![f] = [@ EXCEPT !.stage = "answered", !.count = count]]
    OBVIOUS
  <2>2. [fetches[f] EXCEPT !.stage = "answered", !.count = count] \in Fetch
    BY DEF Fetch
  <2>3. [fetches[f] EXCEPT !.stage = "answered", !.count = count].account = fetches[f].account
    BY DEF Fetch
  <2>4. fetches' \in [Fetches -> Fetch] /\ FetchHasAccount'
    BY <2>1, <2>2, <2>3
  <2>. QED
    BY <1>1, <2>4 DEF FetchEnds
<1>2. ASSUME NEW f \in Fetches, StoreFetch(f) PROVE Typed'
  <2>. fetches[f] \in Fetch /\ fetches[f].account \in Accounts
    BY <1>2 DEF StoreFetch
  <2>. [count |-> fetches[f].count, overlapped |-> fetches[f].overlapped] \in Entry
    BY DEF Fetch, Entry
  <2>. Idle \in Fetch
    BY DEF Idle, Fetch, Count
  <2>1. cache' \in [Accounts -> Entry \union {NoEntry}]
    BY <1>2 DEF StoreFetch
  <2>2. fetches' \in [Fetches -> Fetch] /\ FetchHasAccount'
    BY <1>2 DEF StoreFetch, Idle
  <2>. QED
    BY <1>2, <2>1, <2>2 DEF StoreFetch
<1>3. ASSUME NEW f \in Fetches, NEW a \in Accounts, NEW routing \in BOOLEAN,
             BeginFetch(f, a, routing)
      PROVE  Typed'
  BY <1>3 DEF BeginFetch, Fetch, Count, Idle
<1>4. ASSUME NEW a \in Accounts, Expire(a) PROVE Typed'
  BY <1>4 DEF Expire
<1>5. ASSUME NEW r \in Redemptions, NEW a \in Accounts, SendRedemption(r, a) PROVE Typed'
  <2>. DEFINE x == [redeeming[r] EXCEPT !.stage = "sent", !.account = a]
  <2>. redeeming[r] \in Redemption
    OBVIOUS
  <2>1. x \in Redemption /\ x.stage = "sent" /\ x.account = a
    BY DEF Redemption
  <2>2. redeeming' = [redeeming EXCEPT ![r] = x]
    BY <1>5 DEF SendRedemption
  <2>. HIDE DEF x
  <2>3. redeeming' \in [Redemptions -> Redemption]
    BY <2>1, <2>2
  <2>4. SentHasAccount' /\ UNCHANGED <<spent, cache, fetches, previews>>
    BY <1>5, <2>1, <2>2 DEF SendRedemption
  <2>5. PreviewingHasCredit'
    BY <2>1, <2>2, <2>4
  <2>. QED
    BY <2>3, <2>4, <2>5
<1>6. ASSUME NEW r \in Redemptions, NEW a \in Accounts, BeginPreviewRedemption(r, a)
      PROVE  Typed'
  <2>. previews[a] \in Preview
    BY <1>6 DEF BeginPreviewRedemption
  <2>1. previews' \in [Accounts -> Preview \union {NoEntry}]
    BY <1>6 DEF BeginPreviewRedemption, Preview
  <2>2. redeeming' \in [Redemptions -> Redemption]
    BY <1>6 DEF BeginPreviewRedemption, Preview, Redemption
  <2>3. SentHasAccount'
    BY <1>6 DEF BeginPreviewRedemption
  <2>4. \A b \in Accounts : previews[b] # NoEntry => previews'[b] # NoEntry
    <3>. DEFINE y == [previews[a] EXCEPT !.raced = @ \/ Redeemers(a, "previewing") # {}]
    <3>1. y \in Preview
      BY DEF Preview
    <3>2. previews' = [previews EXCEPT ![a] = y]
      BY <1>6 DEF BeginPreviewRedemption
    <3>. HIDE DEF y
    <3>3. y # NoEntry
      BY <3>1
    <3>. QED
      BY <3>2, <3>3
  <2>5. PreviewingHasCredit'
    <3>. SUFFICES ASSUME NEW q \in Redemptions, redeeming'[q].stage = "previewing"
         PROVE  /\ redeeming'[q].left > 0 /\ redeeming'[q].account \in Accounts
                /\ previews'[redeeming'[q].account] # NoEntry
      OBVIOUS
    <3>1. CASE q = r
      BY <1>6, <2>4, <3>1 DEF BeginPreviewRedemption
    <3>2. CASE q # r
      <4>. redeeming'[q] = redeeming[q]
        BY <1>6, <3>2 DEF BeginPreviewRedemption
      <4>. QED
        BY <2>4
    <3>. QED
      BY <3>1, <3>2
  <2>. QED
    BY <1>6, <2>1, <2>2, <2>3, <2>5 DEF BeginPreviewRedemption
<1>7. ASSUME NEW r \in Redemptions, RedemptionFails(r) PROVE Typed'
  BY <1>7 DEF RedemptionFails, Redemption
<1>8. ASSUME NEW r \in Redemptions, ServiceRedeems(r) PROVE Typed'
  BY <1>8 DEF ServiceRedeems, Redemption
<1>9. ASSUME NEW r \in Redemptions, AcknowledgeRedemption(r) PROVE Typed'
  <2>1. fetches' \in [Fetches -> Fetch] /\ FetchHasAccount'
    BY <1>9, OvertakenTyped DEF AcknowledgeRedemption, Invalidate
  <2>. QED
    BY <1>9, <2>1 DEF AcknowledgeRedemption, Invalidate, Redemption
<1>10. ASSUME NEW r \in Redemptions, FinishPreviewRedemption(r) PROVE Typed'
  <2>. DEFINE a == redeeming[r].account
  <2>. a \in Accounts /\ previews[a] \in Preview /\ redeeming[r].left - 1 \in Nat
    BY <1>10 DEF FinishPreviewRedemption, Redemption
  <2>1. previews' \in [Accounts -> Preview \union {NoEntry}]
    BY <1>10 DEF FinishPreviewRedemption, Preview
  <2>2. redeeming' \in [Redemptions -> Redemption]
    BY <1>10 DEF FinishPreviewRedemption, Redemption
  <2>3. PreviewingHasCredit' /\ SentHasAccount'
    BY <1>10 DEF FinishPreviewRedemption, Preview
  <2>. QED
    BY <1>10, <2>1, <2>2, <2>3 DEF FinishPreviewRedemption
<1>11. ASSUME NEW a \in Accounts, NEW n \in PreviewCounts, SetResetCreditsPreview(a, n)
       PROVE  Typed'
  <2>. n \in Nat /\ n + Cardinality(Redeemers(a, "previewed")) \in Nat
    BY RedeemersCount
  <2>1. previews' \in [Accounts -> Preview \union {NoEntry}]
    BY <1>11 DEF SetResetCreditsPreview, Preview
  <2>2. fetches' \in [Fetches -> Fetch] /\ FetchHasAccount'
    BY <1>11, OvertakenTyped DEF SetResetCreditsPreview, Invalidate
  <2>. DEFINE p == [left |-> n, total |-> n + Cardinality(Redeemers(a, "previewed")),
                    raced |-> Redeemers(a, "previewing") # {}]
  <2>3. previews'[a] = p /\ p \in Preview
    BY <1>11 DEF SetResetCreditsPreview, Preview
  <2>4. PreviewingHasCredit'
    BY <1>11, <2>3 DEF SetResetCreditsPreview
  <2>. QED
    BY <1>11, <2>1, <2>2, <2>4 DEF SetResetCreditsPreview, Invalidate
<1>12. CASE UNCHANGED resetVars
  BY <1>12 DEF resetVars
<1>. QED
  BY <1>1, <1>2, <1>3, <1>4, <1>5, <1>6, <1>7, <1>8, <1>9, <1>10, <1>11, <1>12 DEF ResetsNext

--------------------------------------------------------------------------------
(* The cache. *)

LEMMA InitAccounted == Init => CountsAreAccounted
BY DEF Init, ResetsInit, CountsAreAccounted, StaleOnlyFromOverlap, Idle

\* The claim about one count survives a step that makes no redemption of the
\* account acknowledged and spends only redemptions not yet acknowledged.
LEMMA AccountedStays ==
  ASSUME NEW count, NEW a, Accounted(count, a),
         \A r \in Redemptions : redeeming'[r].stage = "done" /\ redeeming'[r].account = a
                                => redeeming[r].stage = "done" /\ redeeming[r].account = a,
         \A r \in spent' \ spent : redeeming'[r].stage # "done",
         spent' \subseteq Redemptions
  PROVE  Accounted(count, a)'
BY DEF Accounted

\* No step but AcknowledgeRedemption makes a redemption acknowledged.
LEMMA StepAccounted ==
  Typed /\ CountsAreAccounted /\ (ResetsNext \/ UNCHANGED resetVars) => CountsAreAccounted'
<1>. SUFFICES ASSUME Typed, CountsAreAccounted, ResetsNext \/ UNCHANGED resetVars
     PROVE  CountsAreAccounted'
  OBVIOUS
<1>. USE ResetsAssumption, NoEntryAssumption
     DEF Typed, ResetsTypeOK, SentHasAccount, FetchHasAccount
<1>1. ASSUME UNCHANGED <<spent, redeeming>>, NEW count, NEW a
      PROVE  Accounted(count, a)' = Accounted(count, a)
  BY <1>1 DEF Accounted
<1>2. ASSUME NEW f \in Fetches, FetchEnds(f) PROVE CountsAreAccounted'
  <2>. PICK count \in {spent, NoCount} :
            fetches' = [fetches EXCEPT ![f] = [@ EXCEPT !.stage = "answered", !.count = count]]
    BY <1>2 DEF FetchEnds
  <2>1. fetches'[f].count = count
    BY DEF Fetch
  <2>2. Accounted(count, fetches'[f].account)
    BY DEF Accounted
  <2>3. \A g \in Fetches \ {f} : fetches'[g] = fetches[g]
    OBVIOUS
  <2>4. \A g \in Fetches : fetches'[g].stage = "answered" /\ ~fetches'[g].overlapped
                           => Accounted(fetches'[g].count, fetches'[g].account)
    BY <2>1, <2>2, <2>3 DEF CountsAreAccounted
  <2>5. UNCHANGED <<spent, redeeming, cache>>
    BY <1>2 DEF FetchEnds
  <2>. QED
    BY <1>1, <2>4, <2>5 DEF CountsAreAccounted, StaleOnlyFromOverlap
<1>3. ASSUME NEW f \in Fetches, StoreFetch(f) PROVE CountsAreAccounted'
  <2>. DEFINE x == fetches[f]
              e == [count |-> x.count, overlapped |-> x.overlapped]
  <2>1. UNCHANGED <<spent, redeeming>> /\ x.account \in Accounts /\ x.stage = "answered"
    BY <1>3 DEF StoreFetch
  <2>2. cache' = cache \/ cache' = [cache EXCEPT ![x.account] = e]
    BY <1>3 DEF StoreFetch
  <2>3. ~e.overlapped => Accounted(e.count, x.account)
    BY <2>1 DEF CountsAreAccounted
  <2>4. \A a \in Accounts : cache'[a] # NoEntry /\ ~cache'[a].overlapped
                            => Accounted(cache'[a].count, a)
    BY <2>2, <2>3, <2>1 DEF CountsAreAccounted, StaleOnlyFromOverlap
  <2>5. \A g \in Fetches : fetches'[g].stage = "answered" => fetches'[g] = fetches[g]
    BY <1>3 DEF StoreFetch, Idle
  <2>. QED
    BY <1>1, <2>1, <2>4, <2>5 DEF CountsAreAccounted, StaleOnlyFromOverlap
<1>4. ASSUME NEW f \in Fetches, NEW a \in Accounts, NEW routing \in BOOLEAN,
             BeginFetch(f, a, routing)
      PROVE  CountsAreAccounted'
  <2>1. UNCHANGED <<spent, redeeming, cache>>
    BY <1>4 DEF BeginFetch
  <2>2. \A g \in Fetches : fetches'[g].stage = "answered" => fetches'[g] = fetches[g]
    BY <1>4 DEF BeginFetch, Idle
  <2>. QED
    BY <1>1, <2>1, <2>2 DEF CountsAreAccounted, StaleOnlyFromOverlap
<1>5. ASSUME NEW a \in Accounts, Expire(a) PROVE CountsAreAccounted'
  <2>1. UNCHANGED <<spent, redeeming, fetches>>
    BY <1>5 DEF Expire
  <2>2. \A b \in Accounts : cache'[b] # NoEntry => cache'[b] = cache[b]
    BY <1>5 DEF Expire
  <2>. QED
    BY <1>1, <2>1, <2>2 DEF CountsAreAccounted, StaleOnlyFromOverlap
<1>6. ASSUME UNCHANGED <<cache, fetches>>, spent' \subseteq Redemptions,
             \A r \in Redemptions : redeeming'[r].stage = "done" => redeeming'[r] = redeeming[r],
             \A r \in spent' \ spent : redeeming'[r].stage # "done"
      PROVE  CountsAreAccounted'
  <2>1. ASSUME NEW count, NEW a, Accounted(count, a) PROVE Accounted(count, a)'
    BY <1>6, <2>1, AccountedStays
  <2>. QED
    BY <1>6, <2>1 DEF CountsAreAccounted, StaleOnlyFromOverlap
<1>7. ASSUME NEW r \in Redemptions, NEW a \in Accounts,
             SendRedemption(r, a) \/ BeginPreviewRedemption(r, a)
      PROVE  CountsAreAccounted'
  BY <1>6, <1>7 DEF SendRedemption, BeginPreviewRedemption, Redemption
<1>8. ASSUME NEW r \in Redemptions, RedemptionFails(r) \/ FinishPreviewRedemption(r)
      PROVE  CountsAreAccounted'
  BY <1>6, <1>8 DEF RedemptionFails, FinishPreviewRedemption, Redemption
<1>9. ASSUME NEW r \in Redemptions, ServiceRedeems(r) PROVE CountsAreAccounted'
  BY <1>6, <1>9 DEF ServiceRedeems, Redemption
<1>10. ASSUME NEW r \in Redemptions, AcknowledgeRedemption(r) PROVE CountsAreAccounted'
  <2>. DEFINE a == redeeming[r].account
  <2>1. /\ UNCHANGED spent /\ a \in Accounts
        /\ cache' = [cache EXCEPT ![a] = NoEntry] /\ fetches' = Overtaken(a)
    BY <1>10 DEF AcknowledgeRedemption, Invalidate
  <2>2. \A s \in Redemptions : s # r => redeeming'[s] = redeeming[s]
    BY <1>10 DEF AcknowledgeRedemption
  <2>3. redeeming'[r].account = a
    BY <1>10 DEF AcknowledgeRedemption, Redemption
  <2>4. ASSUME NEW count, NEW b, b # a, Accounted(count, b) PROVE Accounted(count, b)'
    BY <2>1, <2>2, <2>3, <2>4 DEF Accounted
  <2>5. StaleOnlyFromOverlap'
    BY <2>1, <2>4 DEF CountsAreAccounted, StaleOnlyFromOverlap
  <2>6. ASSUME NEW f \in Fetches, fetches'[f].stage = "answered", ~fetches'[f].overlapped
        PROVE  Accounted(fetches[f].count, fetches[f].account)'
    BY <2>1, <2>4, <2>6, OvertakenKeeps DEF CountsAreAccounted
  <2>7. \A f \in Fetches : fetches'[f].count = fetches[f].count
                           /\ fetches'[f].account = fetches[f].account
    BY <2>1, OvertakenKeeps
  <2>. QED
    BY <2>5, <2>6, <2>7 DEF CountsAreAccounted, Accounted
<1>11. ASSUME NEW a \in Accounts, NEW n \in PreviewCounts, SetResetCreditsPreview(a, n)
       PROVE  CountsAreAccounted'
  <2>1. /\ UNCHANGED <<spent, redeeming>>
        /\ cache' = [cache EXCEPT ![a] = NoEntry] /\ fetches' = Overtaken(a)
    BY <1>11 DEF SetResetCreditsPreview, Invalidate
  <2>2. StaleOnlyFromOverlap'
    BY <1>1, <2>1 DEF CountsAreAccounted, StaleOnlyFromOverlap
  <2>3. ASSUME NEW f \in Fetches, fetches'[f].stage = "answered", ~fetches'[f].overlapped
        PROVE  Accounted(fetches'[f].count, fetches'[f].account)
    BY <2>1, <2>3, OvertakenKeeps DEF CountsAreAccounted
  <2>. QED
    BY <2>1, <2>2, <2>3 DEF CountsAreAccounted, Accounted
<1>12. CASE UNCHANGED resetVars
  BY <1>1, <1>12 DEF resetVars, CountsAreAccounted, StaleOnlyFromOverlap
<1>. QED
  BY <1>2, <1>3, <1>4, <1>5, <1>7, <1>8, <1>9, <1>10, <1>11, <1>12 DEF ResetsNext

\* The counts of the cache account for every acknowledged redemption, unless the
\* fetch that brought them was under way when the cache was invalidated.
THEOREM OnlyOverlapLeavesStaleCounts == Spec => []StaleOnlyFromOverlap
<1>. DEFINE IInv == Typed /\ CountsAreAccounted
<1>1. Init => IInv
  BY InitTyped, InitAccounted
<1>2. IInv /\ [Next]_vars => IInv'
  BY ResetsStep, StepTyped, StepAccounted
<1>3. IInv => StaleOnlyFromOverlap
  BY DEF CountsAreAccounted
<1>. QED
  BY <1>1, <1>2, <1>3, PTL DEF Spec

--------------------------------------------------------------------------------
(* The preview. *)

\* A preview that no overlap has disturbed counts what is redeemed, and the one
\* redemption between the two locks has read what it still holds.
PreviewsAreExact ==
  \A a \in Accounts : previews[a] # NoEntry /\ ~previews[a].raced =>
    /\ previews[a].left + Cardinality(Redeemers(a, "previewed")) = previews[a].total
    /\ \A r, s \in Redeemers(a, "previewing") : r = s /\ redeeming[r].left = previews[a].left

LEMMA InitExact == Init => PreviewsAreExact
BY DEF Init, ResetsInit, PreviewsAreExact

\* What leaves the preview, and the redemptions that have to do with it, alone.
LEMMA ExactStays ==
  ASSUME PreviewsAreExact, NEW a \in Accounts, previews'[a] = previews[a],
         \A r \in Redemptions :
           redeeming'[r] = redeeming[r]
           \/ /\ redeeming[r].stage \in {"previewing", "previewed"} => redeeming[r].account # a
              /\ redeeming'[r].stage \in {"previewing", "previewed"} => redeeming'[r].account # a
  PROVE  previews'[a] # NoEntry /\ ~previews'[a].raced =>
           /\ previews'[a].left + Cardinality(Redeemers(a, "previewed")') = previews'[a].total
           /\ \A r, s \in Redeemers(a, "previewing")' :
                r = s /\ redeeming'[r].left = previews'[a].left
<1>1. Redeemers(a, "previewed")' = Redeemers(a, "previewed")
  BY DEF Redeemers
<1>2. Redeemers(a, "previewing")' = Redeemers(a, "previewing")
  BY DEF Redeemers
<1>3. \A r \in Redeemers(a, "previewing") : redeeming'[r] = redeeming[r]
  BY DEF Redeemers
<1>. QED
  BY <1>1, <1>2, <1>3 DEF PreviewsAreExact

LEMMA StepExact ==
  Typed /\ PreviewsAreExact /\ (ResetsNext \/ UNCHANGED resetVars) => PreviewsAreExact'
<1>. SUFFICES ASSUME Typed, PreviewsAreExact, ResetsNext \/ UNCHANGED resetVars
     PROVE  PreviewsAreExact'
  OBVIOUS
<1>. USE ResetsAssumption, NoEntryAssumption DEF Typed, ResetsTypeOK
<1>1. ASSUME UNCHANGED previews,
             \A r \in Redemptions :
               redeeming'[r] = redeeming[r]
               \/ /\ redeeming[r].stage \notin {"previewing", "previewed"}
                  /\ redeeming'[r].stage \notin {"previewing", "previewed"}
      PROVE  PreviewsAreExact'
  BY <1>1, ExactStays DEF PreviewsAreExact
<1>2. ASSUME UNCHANGED <<previews, redeeming>> PROVE PreviewsAreExact'
  BY <1>1, <1>2
<1>3. ASSUME NEW f \in Fetches, FetchEnds(f) \/ StoreFetch(f) PROVE PreviewsAreExact'
  BY <1>2, <1>3 DEF FetchEnds, StoreFetch
<1>4. ASSUME NEW f \in Fetches, NEW a \in Accounts, NEW routing \in BOOLEAN,
             BeginFetch(f, a, routing)
      PROVE  PreviewsAreExact'
  BY <1>2, <1>4 DEF BeginFetch
<1>5. ASSUME NEW a \in Accounts, Expire(a) PROVE PreviewsAreExact'
  BY <1>2, <1>5 DEF Expire
<1>6. ASSUME NEW r \in Redemptions, NEW a \in Accounts, SendRedemption(r, a)
      PROVE  PreviewsAreExact'
  BY <1>1, <1>6 DEF SendRedemption, Redemption
<1>7. ASSUME NEW r \in Redemptions,
             RedemptionFails(r) \/ ServiceRedeems(r) \/ AcknowledgeRedemption(r)
      PROVE  PreviewsAreExact'
  BY <1>1, <1>7 DEF RedemptionFails, ServiceRedeems, AcknowledgeRedemption, Redemption
<1>8. ASSUME NEW r \in Redemptions, NEW a \in Accounts, BeginPreviewRedemption(r, a)
      PROVE  PreviewsAreExact'
  <2>. DEFINE x == [stage |-> "previewing", account |-> a, left |-> previews[a].left]
  <2>1. redeeming[r].stage = "no" /\ redeeming' = [redeeming EXCEPT ![r] = x]
    BY <1>8 DEF BeginPreviewRedemption
  <2>2. previews[a] \in Preview
    BY <1>8 DEF BeginPreviewRedemption
  <2>3. /\ previews'[a].left = previews[a].left /\ previews'[a].total = previews[a].total
        /\ ~previews'[a].raced => ~previews[a].raced /\ Redeemers(a, "previewing") = {}
        /\ \A b \in Accounts \ {a} : previews'[b] = previews[b]
    BY <1>8, <2>2 DEF BeginPreviewRedemption, Preview
  <2>4. Redeemers(a, "previewed")' = Redeemers(a, "previewed")
    BY <2>1 DEF Redeemers
  <2>5. Redeemers(a, "previewing") = {} => Redeemers(a, "previewing")' = {r}
    BY <2>1 DEF Redeemers
  <2>6. redeeming'[r].left = previews'[a].left
    BY <2>1, <2>3
  <2>7. previews'[a] # NoEntry /\ ~previews'[a].raced =>
          /\ previews'[a].left + Cardinality(Redeemers(a, "previewed")') = previews'[a].total
          /\ \A s, t \in Redeemers(a, "previewing")' :
               s = t /\ redeeming'[s].left = previews'[a].left
    BY <2>2, <2>3, <2>4, <2>5, <2>6 DEF PreviewsAreExact
  <2>8. \A b \in Accounts \ {a} : previews'[b] # NoEntry /\ ~previews'[b].raced =>
          /\ previews'[b].left + Cardinality(Redeemers(b, "previewed")') = previews'[b].total
          /\ \A s, t \in Redeemers(b, "previewing")' :
               s = t /\ redeeming'[s].left = previews'[b].left
    BY <2>1, <2>3, ExactStays
  <2>. QED
    BY <2>7, <2>8 DEF PreviewsAreExact
<1>9. ASSUME NEW r \in Redemptions, FinishPreviewRedemption(r) PROVE PreviewsAreExact'
  <2>. PICK a \in Accounts : a = redeeming[r].account
    BY <1>9 DEF FinishPreviewRedemption, PreviewingHasCredit
  <2>1. /\ redeeming[r].stage = "previewing" /\ a \in Accounts /\ previews[a] \in Preview
        /\ redeeming[r].left \in Nat
    BY <1>9 DEF FinishPreviewRedemption, PreviewingHasCredit, Redemption
  <2>2. redeeming' = [redeeming EXCEPT ![r] = [@ EXCEPT !.stage = "previewed"]]
    BY <1>9 DEF FinishPreviewRedemption
  <2>3. previews' = [previews EXCEPT ![a] = [@ EXCEPT !.left = redeeming[r].left - 1]]
    BY <1>9 DEF FinishPreviewRedemption
  <2>4. redeeming'[r].stage = "previewed" /\ redeeming'[r].account = a
    BY <2>2 DEF Redemption
  <2>5. /\ previews'[a].left = redeeming[r].left - 1
        /\ previews'[a].total = previews[a].total /\ previews'[a].raced = previews[a].raced
    BY <2>1, <2>3 DEF Preview
  <2>6. ASSUME ~previews[a].raced
        PROVE  /\ previews'[a].left + Cardinality(Redeemers(a, "previewed")') = previews'[a].total
               /\ Redeemers(a, "previewing")' = {}
    <3>1. r \in Redeemers(a, "previewing") /\ r \notin Redeemers(a, "previewed")
      BY <2>1 DEF Redeemers
    <3>2. \A s \in Redeemers(a, "previewing") : s = r
      BY <2>1, <2>6, <3>1 DEF PreviewsAreExact
    <3>3. /\ redeeming[r].left = previews[a].left
          /\ previews[a].left + Cardinality(Redeemers(a, "previewed")) = previews[a].total
      BY <2>1, <2>6, <3>1 DEF PreviewsAreExact
    <3>4. Redeemers(a, "previewed")' = Redeemers(a, "previewed") \union {r}
      BY <2>2, <2>4 DEF Redeemers
    <3>5. Redeemers(a, "previewing")' = {}
      BY <2>2, <2>4, <3>2 DEF Redeemers
    <3>6. Cardinality(Redeemers(a, "previewed")') = Cardinality(Redeemers(a, "previewed")) + 1
      BY <3>1, <3>4, RedeemersCount, FS_AddElement
    <3>7. previews[a].left \in Nat /\ Cardinality(Redeemers(a, "previewed")) \in Nat
      BY <2>1, RedeemersCount DEF Preview
    <3>. QED
      BY <2>5, <3>3, <3>5, <3>6, <3>7
  <2>7. \A b \in Accounts \ {a} : previews'[b] # NoEntry /\ ~previews'[b].raced =>
          /\ previews'[b].left + Cardinality(Redeemers(b, "previewed")') = previews'[b].total
          /\ \A s, t \in Redeemers(b, "previewing")' :
               s = t /\ redeeming'[s].left = previews'[b].left
    BY <2>2, <2>3, <2>4, ExactStays
  <2>8. previews'[a] # NoEntry /\ ~previews'[a].raced =>
          /\ previews'[a].left + Cardinality(Redeemers(a, "previewed")') = previews'[a].total
          /\ \A s, t \in Redeemers(a, "previewing")' :
               s = t /\ redeeming'[s].left = previews'[a].left
    BY <2>5, <2>6
  <2>. QED
    BY <2>7, <2>8 DEF PreviewsAreExact
<1>10. ASSUME NEW a \in Accounts, NEW n \in PreviewCounts, SetResetCreditsPreview(a, n)
       PROVE  PreviewsAreExact'
  <2>1. previews'[a] = [left |-> n, total |-> n + Cardinality(Redeemers(a, "previewed")),
                        raced |-> Redeemers(a, "previewing") # {}]
        /\ \A b \in Accounts \ {a} : previews'[b] = previews[b]
    BY <1>10 DEF SetResetCreditsPreview
  <2>2. UNCHANGED redeeming
    BY <1>10 DEF SetResetCreditsPreview
  <2>3. /\ Redeemers(a, "previewed")' = Redeemers(a, "previewed")
        /\ Redeemers(a, "previewing")' = Redeemers(a, "previewing")
    BY <2>2 DEF Redeemers
  <2>. /\ Cardinality(Redeemers(a, "previewed")) \in Nat /\ n \in Nat
       /\ Redeemers(a, "previewing") = {} \/ Redeemers(a, "previewing") # {}
    BY RedeemersCount
  <2>4. /\ previews'[a].left = n
        /\ previews'[a].total = n + Cardinality(Redeemers(a, "previewed"))
    BY <2>1
  <2>5. ~previews'[a].raced => Redeemers(a, "previewing") = {}
    <3>. DEFINE p(b) == [left |-> n, total |-> n + Cardinality(Redeemers(a, "previewed")), raced |-> b]
    <3>1. \A b \in BOOLEAN : p(b).raced = b
      OBVIOUS
    <3>2. CASE Redeemers(a, "previewing") # {}
      <4>1. previews'[a] = p(TRUE)
        BY <2>1, <3>2
      <4>. QED
        BY <3>1, <4>1
    <3>. QED
      BY <3>2
  <2>6. previews'[a] # NoEntry /\ ~previews'[a].raced =>
          /\ previews'[a].left + Cardinality(Redeemers(a, "previewed")') = previews'[a].total
          /\ Redeemers(a, "previewing")' = {}
    BY <2>3, <2>4, <2>5
  <2>7. \A b \in Accounts \ {a} : previews'[b] # NoEntry /\ ~previews'[b].raced =>
          /\ previews'[b].left + Cardinality(Redeemers(b, "previewed")') = previews'[b].total
          /\ \A s, t \in Redeemers(b, "previewing")' :
               s = t /\ redeeming'[s].left = previews'[b].left
    BY <2>1, <2>2, ExactStays
  <2>. QED
    BY <2>6, <2>7 DEF PreviewsAreExact
<1>11. CASE UNCHANGED resetVars
  BY <1>2, <1>11 DEF resetVars
<1>. QED
  BY <1>3, <1>4, <1>5, <1>6, <1>7, <1>8, <1>9, <1>10, <1>11 DEF ResetsNext

\* A preview loses no redemption but to an overlap of two of its critical sections.
THEOREM OnlyRacesLosePreviewRedemptions == Spec => []PreviewLostOnlyInRace
<1>. DEFINE IInv == Typed /\ PreviewsAreExact
<1>1. Init => IInv
  BY InitTyped, InitExact
<1>2. IInv /\ [Next]_vars => IInv'
  BY ResetsStep, StepTyped, StepExact
<1>3. IInv => PreviewLostOnlyInRace
  BY DEF PreviewsAreExact, PreviewLostOnlyInRace
<1>. QED
  BY <1>1, <1>2, <1>3, PTL DEF Spec

--------------------------------------------------------------------------------
(* The menu. *)

\* What happens to the events: they are announced, published or lost, and the
\* channel of the stream never has more than its capacity.
LEMMA LoseTyped ==
  ASSUME NEW events, MenuTypeOK, Lose(events) PROVE missed' \in BOOLEAN
BY Zenon DEF Lose, MenuTypeOK

LEMMA AnnounceTyped ==
  ASSUME NEW kind \in Kinds, MenuTypeOK, Announce(kind) PROVE notices' \in [Kinds -> Nat]
BY DEF Announce, MenuTypeOK

LEMMA RetractTyped ==
  ASSUME NEW kind \in Kinds, MenuTypeOK, notices[kind] > 0, Retract(kind)
  PROVE  notices' \in [Kinds -> Nat]
BY DEF Retract, MenuTypeOK

LEMMA ChangeTyped == MenuTypeOK /\ AccountsChange => version' \in 0..MaxVersion
BY MenuAssumption DEF MenuTypeOK, AccountsChange

LEMMA RefreshTyped == MenuTypeOK /\ Refresh => requests' \subseteq 0..MaxVersion
BY DEF MenuTypeOK, Refresh

LEMMA FaultTyped == MenuTypeOK /\ Fault => faults' \in 0..MaxFaults
BY MenuAssumption DEF MenuTypeOK, Fault

\* The part of the type invariant that is about the stream.
StreamTyped ==
  /\ stream \in [open : BOOLEAN, events : Seq(Kinds)]
  /\ Len(stream.events) <= StreamCap /\ (stream.events # <<>> => stream.open)

LEMMA ClosedTyped == ASSUME stream' = Closed PROVE StreamTyped'
BY MenuAssumption DEF StreamTyped, Closed

LEMMA PublishTyped ==
  ASSUME NEW kind \in Kinds, MenuTypeOK, Publish(kind) PROVE StreamTyped'
<1>1. CASE stream.open /\ Len(stream.events) < StreamCap
  <2>1. stream' = [stream EXCEPT !.events = Append(@, kind)]
    BY <1>1 DEF Publish
  <2>2. /\ Append(stream.events, kind) \in Seq(Kinds)
        /\ Len(Append(stream.events, kind)) = Len(stream.events) + 1
        /\ Len(stream.events) \in Nat
    BY DEF MenuTypeOK
  <2>3. /\ stream' \in [open : BOOLEAN, events : Seq(Kinds)]
        /\ stream'.open = stream.open /\ stream'.events = Append(stream.events, kind)
    BY <2>1, <2>2 DEF MenuTypeOK
  <2>4. Len(stream'.events) <= StreamCap
    BY <1>1, <2>2, <2>3, MenuAssumption
  <2>. QED
    BY <1>1, <2>3, <2>4 DEF StreamTyped
<1>2. CASE ~(stream.open /\ Len(stream.events) < StreamCap)
  BY <1>2 DEF Publish, MenuTypeOK, StreamTyped
<1>. QED
  BY <1>1, <1>2

LEMMA DeliverTyped ==
  ASSUME MenuTypeOK, Deliver
  PROVE  /\ StreamTyped' /\ requests' \subseteq 0..MaxVersion
         /\ missed' \in BOOLEAN /\ login' \in {"closed", "adding", "open"}
<1>. DEFINE kind == Head(stream.events)
<1>1. stream.events # <<>> /\ stream.open /\ HandleEvent(kind)
  BY DEF Deliver
<1>2. requests' \subseteq 0..MaxVersion
  BY <1>1, RefreshTyped DEF HandleEvent
<1>3. missed' \in BOOLEAN /\ login' \in {"closed", "adding", "open"}
  <2>1. CASE kind = "login" /\ watching
    BY <1>1, <2>1 DEF HandleEvent, MenuTypeOK
  <2>2. CASE ~(kind = "login" /\ watching)
    <3>1. Lose(<<kind>>) /\ login' = login
      BY <1>1, <2>2 DEF HandleEvent
    <3>. QED
      BY <3>1, LoseTyped DEF MenuTypeOK
  <2>. QED
    BY <2>1, <2>2
<1>4. StreamTyped'
  <2>1. stream' = [stream EXCEPT !.events = Tail(@)]
    BY DEF Deliver
  <2>2. /\ Tail(stream.events) \in Seq(Kinds)
        /\ Len(Tail(stream.events)) = Len(stream.events) - 1
        /\ Len(stream.events) \in Nat
    BY <1>1 DEF MenuTypeOK
  <2>3. /\ stream' \in [open : BOOLEAN, events : Seq(Kinds)]
        /\ stream'.open = stream.open /\ stream'.events = Tail(stream.events)
    BY <2>1, <2>2 DEF MenuTypeOK
  <2>4. Len(stream.events) <= StreamCap
    BY DEF MenuTypeOK
  <2>5. Len(stream'.events) <= StreamCap
    BY <2>2, <2>3, <2>4, MenuAssumption
  <2>. QED
    BY <1>1, <2>3, <2>5 DEF StreamTyped
<1>. QED
  BY <1>2, <1>3, <1>4

LEMMA MenuStepTyped == MenuTypeOK /\ MenuStep => MenuTypeOK'
<1>. SUFFICES ASSUME MenuTypeOK, MenuStep PROVE MenuTypeOK'
  OBVIOUS
<1>. USE DEF MenuTypeOK
<1>1. CASE AccountChanges
  BY <1>1, ChangeTyped, AnnounceTyped DEF AccountChanges
<1>2. CASE CompleteSignIn
  BY <1>2, ChangeTyped, AnnounceTyped DEF CompleteSignIn, Kinds
<1>3. ASSUME NEW kind \in Kinds, Publish(kind) PROVE MenuTypeOK'
  <2>1. StreamTyped' /\ notices' \in [Kinds -> Nat]
    BY <1>3, PublishTyped, RetractTyped DEF Publish
  <2>2. missed' \in BOOLEAN
    <3>1. (\E events : Lose(events)) \/ UNCHANGED missed
      BY <1>3 DEF Publish
    <3>. QED
      BY <3>1, LoseTyped
  <2>. QED
    BY <1>3, <2>1, <2>2 DEF Publish, StreamTyped
<1>4. ASSUME NEW kind \in Kinds, AnnouncementFails(kind) PROVE MenuTypeOK'
  BY <1>4, RetractTyped, LoseTyped, FaultTyped DEF AnnouncementFails
<1>5. CASE Connect
  BY <1>5 DEF Connect
<1>6. CASE Disconnect
  BY <1>6, ClosedTyped, LoseTyped, FaultTyped DEF Disconnect, StreamTyped
<1>7. CASE Deliver
  BY <1>7, DeliverTyped DEF Deliver, StreamTyped
<1>8. CASE RefreshOnTimer
  BY <1>8, RefreshTyped DEF RefreshOnTimer
<1>9. ASSUME NEW v \in requests, ShowAccounts(v) PROVE MenuTypeOK'
  BY <1>9 DEF ShowAccounts
<1>10. ASSUME NEW v \in requests, RefreshFails(v) PROVE MenuTypeOK'
  BY <1>10, FaultTyped DEF RefreshFails
<1>11. CASE AddSubscription
  BY <1>11, ChangeTyped DEF AddSubscription
<1>12. CASE LoginStarts
  BY <1>12, RefreshTyped DEF LoginStarts
<1>13. CASE LoginFails
  BY <1>13, FaultTyped DEF LoginFails
<1>14. CASE Escape
  BY <1>14 DEF Escape
<1>15. CASE Resubscribe
  BY <1>15, ClosedTyped, LoseTyped, RefreshTyped DEF Resubscribe, StreamTyped
<1>. QED
  BY <1>1, <1>2, <1>3, <1>4, <1>5, <1>6, <1>7, <1>8, <1>9, <1>10, <1>11, <1>12, <1>13, <1>14, <1>15
     DEF MenuStep

\* A step of the banked resets announces itself, or changes the accounts.
LEMMA StepMenuTyped == MenuTypeOK /\ [Next]_vars => MenuTypeOK'
<1>. SUFFICES ASSUME MenuTypeOK, [Next]_vars PROVE MenuTypeOK'
  OBVIOUS
<1>1. CASE UNCHANGED menuVars
  BY <1>1 DEF menuVars, MenuTypeOK
<1>2. CASE MenuStep
  BY <1>2, MenuStepTyped
<1>3. ASSUME NEW r \in Redemptions, Redeems(r) PROVE MenuTypeOK'
  BY <1>3, ChangeTyped DEF Redeems, MenuTypeOK
<1>4. ASSUME NEW r \in Redemptions, Acknowledges(r) PROVE MenuTypeOK'
  BY <1>4, AnnounceTyped DEF Acknowledges, MenuTypeOK, Kinds
<1>5. CASE PreviewChanges
  BY <1>5, AnnounceTyped DEF PreviewChanges, MenuTypeOK, Kinds
<1>6. CASE UNCHANGED vars
  BY <1>1, <1>6 DEF vars, menuVars
<1>. QED
  BY <1>1, <1>2, <1>3, <1>4, <1>5, <1>6 DEF Next

\* Whatever the control server and the menu do, their variables keep their shape,
\* and no subscriber's channel holds more than its capacity.
THEOREM ControlPlaneKeepsItsShape == Spec => []TypeOK
<1>. DEFINE IInv == Typed /\ MenuTypeOK
<1>1. Init => MenuTypeOK
  <2>. SUFFICES ASSUME MenuInit PROVE MenuTypeOK
    BY DEF Init
  <2>1. stream \in [open : BOOLEAN, events : Seq(Kinds)] /\ stream.events = <<>>
    BY DEF MenuInit, Closed
  <2>2. Len(stream.events) = 0
    BY <2>1
  <2>3. notices \in [Kinds -> Nat]
    BY DEF MenuInit
  <2>4. {version, shown} \subseteq 0..MaxVersion /\ faults \in 0..MaxFaults
    BY MenuAssumption DEF MenuInit
  <2>5. Len(stream.events) <= StreamCap
    BY <2>2, MenuAssumption
  <2>6. requests \subseteq 0..MaxVersion
    BY DEF MenuInit
  <2>7. /\ login \in {"closed", "adding", "open"} /\ signIn \in {"no", "pending", "done"}
        /\ watching \in BOOLEAN /\ missed \in BOOLEAN
    BY DEF MenuInit
  <2>. QED
    BY <2>1, <2>3, <2>4, <2>5, <2>6, <2>7 DEF MenuTypeOK
<1>2. IInv /\ [Next]_vars => IInv'
  BY ResetsStep, StepTyped, StepMenuTyped
<1>3. IInv => TypeOK
  BY DEF Typed, TypeOK
<1>. QED
  BY InitTyped, <1>1, <1>2, <1>3, PTL DEF Spec

--------------------------------------------------------------------------------
(* The page of the pool.  First induction: over sets of numbers, and over the  *)
(* subsets of a finite set.                                                    *)

LEMMA LeastNumber ==
  ASSUME NEW T \in SUBSET Nat, T # {} PROVE \E m \in T : \A x \in T : m <= x
<1>1. PICK m \in T : \A x \in T : ~ (<<x, m>> \in OpToRel(<, Nat))
  BY NatLessThanWellFounded, WFMin
<1>2. \A x \in T : <<x, m>> \in OpToRel(<, Nat) <=> x < m
  BY DEF OpToRel
<1>3. ASSUME NEW x \in T PROVE m <= x
  <2>. m \in Nat /\ x \in Nat
    OBVIOUS
  <2>. ~(x < m)
    BY <1>1, <1>2
  <2>. QED
    OBVIOUS
<1>. QED
  BY <1>3

LEMMA Induction ==
  ASSUME NEW T \in SUBSET Nat, 0 \in T, \A n \in T : n + 1 \in T PROVE T = Nat
<1>. SUFFICES ASSUME Nat \ T # {} PROVE FALSE
  OBVIOUS
<1>1. PICK m \in Nat \ T : \A x \in Nat \ T : m <= x
  BY LeastNumber
<1>2. m - 1 \in Nat /\ m - 1 \in T
  BY <1>1
<1>. QED
  BY <1>2

\* A set of subsets that a set enters as soon as it has all those with one element less.
LEMMA SubsetInduction ==
  ASSUME NEW S, IsFiniteSet(S), NEW F,
         \A T \in SUBSET S : (\A c \in T : T \ {c} \in F) => T \in F
  PROVE  \A T \in SUBSET S : T \in F
<1>. DEFINE N == {n \in Nat : \A T \in SUBSET S : Cardinality(T) = n => T \in F}
<1>1. \A T \in SUBSET S : IsFiniteSet(T) /\ Cardinality(T) \in Nat
  BY FS_Subset, FS_CardinalityType
<1>2. 0 \in N
  <2>. SUFFICES ASSUME NEW T \in SUBSET S, Cardinality(T) = 0 PROVE T \in F
    OBVIOUS
  <2>. T = {}
    BY <1>1, FS_EmptySet
  <2>. QED
    OBVIOUS
<1>3. ASSUME NEW n \in N PROVE n + 1 \in N
  <2>. SUFFICES ASSUME NEW T \in SUBSET S, Cardinality(T) = n + 1 PROVE T \in F
    OBVIOUS
  <2>1. ASSUME NEW c \in T PROVE T \ {c} \in F
    <3>1. T \ {c} \in SUBSET S /\ Cardinality(T \ {c}) = Cardinality(T) - 1
      BY <1>1, FS_RemoveElement
    <3>. QED
      BY <3>1
  <2>. QED
    BY <2>1
<1>4. N \in SUBSET Nat
  OBVIOUS
<1>. HIDE DEF N
<1>5. N = Nat
  BY <1>2, <1>3, <1>4, Induction
<1>. QED
  BY <1>1, <1>5 DEF N

\* A recursion that takes one element out of its argument has a result.
Reduces(f, S, base, Ch, G) ==
  \A s \in SUBSET S : f[s] = IF s = {} THEN base ELSE G[s][f[s \ {Ch[s]}]]

LEMMA SetRecursion ==
  ASSUME NEW S, IsFiniteSet(S), NEW V, NEW base \in V, NEW Ch, NEW G,
         \A s \in SUBSET S : s # {} => Ch[s] \in s,
         \A s \in SUBSET S, x \in V : s # {} => G[s][x] \in V
  PROVE  \E f \in [SUBSET S -> V] : Reduces(f, S, base, Ch, G)
<1>. DEFINE Lower(n) == {s \in SUBSET S : Cardinality(s) <= n}
            Good(f, n) == \A s \in Lower(n) : f[s] = IF s = {} THEN base ELSE G[s][f[s \ {Ch[s]}]]
            N == {n \in Nat : \E f \in [Lower(n) -> V] : Good(f, n)}
<1>1. \A s \in SUBSET S : IsFiniteSet(s) /\ Cardinality(s) \in Nat
  BY FS_Subset, FS_CardinalityType
<1>2. \A s \in SUBSET S : s # {} =>
        s \ {Ch[s]} \in SUBSET S /\ Cardinality(s \ {Ch[s]}) = Cardinality(s) - 1
  BY <1>1, FS_RemoveElement
<1>3. 0 \in N
  <2>. DEFINE f == [s \in Lower(0) |-> base]
  <2>1. \A s \in Lower(0) : s = {}
    BY <1>1, FS_EmptySet
  <2>2. f \in [Lower(0) -> V]
    OBVIOUS
  <2>3. \A s \in Lower(0) : f[s] = base
    OBVIOUS
  <2>. HIDE DEF f
  <2>4. Good(f, 0)
    BY <2>1, <2>3
  <2>. QED
    BY <2>2, <2>4
<1>4. ASSUME NEW n \in N PROVE n + 1 \in N
  <2>. n \in Nat
    OBVIOUS
  <2>1. PICK f \in [Lower(n) -> V] : Good(f, n)
    OBVIOUS
  <2>. DEFINE g == [s \in Lower(n + 1) |-> IF s = {} THEN base ELSE G[s][f[s \ {Ch[s]}]]]
  <2>2. ASSUME NEW s \in Lower(n + 1), s # {} PROVE s \ {Ch[s]} \in Lower(n)
    <3>. s \in SUBSET S /\ Cardinality(s) <= n + 1 /\ Cardinality(s) \in Nat
      BY <1>1
    <3>. QED
      BY <1>2, <2>2
  <2>3. \A s \in Lower(n) : s \in Lower(n + 1)
    BY <1>1
  <2>4. g \in [Lower(n + 1) -> V]
    <3>. SUFFICES ASSUME NEW s \in Lower(n + 1), s # {} PROVE G[s][f[s \ {Ch[s]}]] \in V
      OBVIOUS
    <3>. f[s \ {Ch[s]}] \in V
      BY <2>2
    <3>. QED
      OBVIOUS
  <2>5. \A s \in Lower(n + 1) : g[s] = IF s = {} THEN base ELSE G[s][f[s \ {Ch[s]}]]
    OBVIOUS
  <2>. HIDE DEF g
  <2>6. \A s \in Lower(n) : g[s] = f[s]
    BY <2>1, <2>3, <2>5
  <2>7. Good(g, n + 1)
    <3>. HIDE DEF Lower
    <3>. QED
      BY <2>2, <2>5, <2>6
  <2>8. \E h \in [Lower(n + 1) -> V] : Good(h, n + 1)
    <3>. HIDE DEF Lower, Good
    <3>. QED
      BY <2>4, <2>7
  <2>. HIDE DEF Lower, Good
  <2>. QED
    BY <2>8
<1>5. N \in SUBSET Nat
  OBVIOUS
<1>. HIDE DEF N
<1>6. N = Nat
  BY <1>3, <1>4, <1>5, Induction
<1>7. PICK f \in [Lower(Cardinality(S)) -> V] : Good(f, Cardinality(S))
  BY <1>1, <1>6 DEF N
<1>8. Lower(Cardinality(S)) = SUBSET S
  BY FS_Subset
<1>. HIDE DEF Lower
<1>. QED
  BY <1>7, <1>8 DEF Reduces

--------------------------------------------------------------------------------
(* Sums over finite sets. *)

Pick(s) == CHOOSE x \in s : TRUE
SumStep(v, f, s) == IF s = {} THEN 0 ELSE v[Pick(s)] + f[s \ {Pick(s)}]
IsSum(v, S, f) == f = [s \in SUBSET S |-> SumStep(v, f, s)]

LEMMA TotalUnfolds ==
  ASSUME NEW v, NEW S
  PROVE  Total(v, S) = (CHOOSE f : IsSum(v, S, f))[S]
BY DEF Total, MapThenSumSet, MapThenFoldSet, Pick, SumStep, IsSum

LEMMA PickIsElement == ASSUME NEW s, s # {} PROVE Pick(s) \in s
BY DEF Pick

LEMMA SumExists ==
  ASSUME NEW v, NEW S, IsFiniteSet(S), \A x \in S : v[x] \in Int
  PROVE  \E f : IsSum(v, S, f)
<1>. DEFINE Ch == [s \in SUBSET S |-> Pick(s)]
            G == [s \in SUBSET S |-> [x \in Int |-> v[Pick(s)] + x]]
<1>1. \A s \in SUBSET S : s # {} => Ch[s] \in s
  BY PickIsElement
<1>2. \A s \in SUBSET S, x \in Int : s # {} => G[s][x] \in Int
  BY PickIsElement
<1>3. \A s \in SUBSET S, x \in Int : Ch[s] = Pick(s) /\ G[s][x] = v[Pick(s)] + x
  OBVIOUS
<1>. HIDE DEF Ch, G
<1>4. PICK f \in [SUBSET S -> Int] : Reduces(f, S, 0, Ch, G)
  <2>. 0 \in Int
    OBVIOUS
  <2>. QED
    BY <1>1, <1>2, SetRecursion
<1>5. ASSUME NEW s \in SUBSET S PROVE f[s] = SumStep(v, f, s)
  <2>. f[s \ {Ch[s]}] \in Int
    OBVIOUS
  <2>. QED
    BY <1>3, <1>4 DEF Reduces, SumStep
<1>. QED
  BY <1>5 DEF IsSum

LEMMA SumsAgree ==
  ASSUME NEW v, NEW S, NEW T, NEW f, NEW g, NEW R \in SUBSET S, R \in SUBSET T, IsFiniteSet(R),
         IsSum(v, S, f), IsSum(v, T, g)
  PROVE  f[R] = g[R]
<1>. DEFINE F == {s \in SUBSET R : f[s] = g[s]}
<1>1. ASSUME NEW s \in SUBSET R, \A c \in s : s \ {c} \in F PROVE s \in F
  <2>1. f[s] = SumStep(v, f, s) /\ g[s] = SumStep(v, g, s)
    BY DEF IsSum
  <2>2. CASE s = {}
    BY <2>1, <2>2 DEF SumStep
  <2>3. CASE s # {}
    <3>. f[s \ {Pick(s)}] = g[s \ {Pick(s)}]
      BY <1>1, <2>3, PickIsElement
    <3>. QED
      BY <2>1, <2>3 DEF SumStep
  <2>. QED
    BY <2>2, <2>3
<1>. HIDE DEF F
<1>2. R \in F
  BY <1>1, SubsetInduction
<1>. QED
  BY <1>2 DEF F

LEMMA SumEmpty == ASSUME NEW v PROVE Total(v, {}) = 0
<1>. IsFiniteSet({})
  BY FS_EmptySet
<1>1. IsSum(v, {}, CHOOSE f : IsSum(v, {}, f))
  BY SumExists
<1>. QED
  BY <1>1, TotalUnfolds DEF IsSum, SumStep

LEMMA SumPick ==
  ASSUME NEW v, NEW S, IsFiniteSet(S), S # {}, \A x \in S : v[x] \in Int
  PROVE  Total(v, S) = v[Pick(S)] + Total(v, S \ {Pick(S)})
<1>. DEFINE T == S \ {Pick(S)}
            f == CHOOSE h : IsSum(v, S, h)
            g == CHOOSE h : IsSum(v, T, h)
<1>1. IsFiniteSet(T)
  BY FS_RemoveElement
<1>2. IsSum(v, S, f) /\ IsSum(v, T, g)
  BY <1>1, SumExists
<1>3. Total(v, S) = f[S] /\ Total(v, T) = g[T]
  BY TotalUnfolds
<1>. HIDE DEF f, g
<1>4. f[T] = g[T]
  BY <1>1, <1>2, SumsAgree
<1>5. f[S] = v[Pick(S)] + f[T]
  BY <1>2 DEF IsSum, SumStep
<1>. QED
  BY <1>3, <1>4, <1>5

LEMMA SumInt ==
  ASSUME NEW v, NEW S, IsFiniteSet(S), \A x \in S : v[x] \in Int
  PROVE  Total(v, S) \in Int
<1>. DEFINE F == {T \in SUBSET S : Total(v, T) \in Int}
<1>1. ASSUME NEW T \in SUBSET S, \A c \in T : T \ {c} \in F PROVE T \in F
  <2>1. CASE T = {}
    BY <2>1, SumEmpty
  <2>2. CASE T # {}
    <3>1. Pick(T) \in T /\ IsFiniteSet(T)
      BY <2>2, PickIsElement, FS_Subset
    <3>2. Total(v, T) = v[Pick(T)] + Total(v, T \ {Pick(T)})
      BY <2>2, <3>1, SumPick
    <3>3. Total(v, T \ {Pick(T)}) \in Int
      BY <1>1, <3>1
    <3>. QED
      BY <3>1, <3>2, <3>3
  <2>. QED
    BY <2>1, <2>2
<1>. HIDE DEF F
<1>2. \A T \in SUBSET S : T \in F
  BY <1>1, SubsetInduction
<1>. QED
  BY <1>2 DEF F

\* Any element may be taken out of a sum.
LEMMA SumRemove ==
  ASSUME NEW v, NEW S, IsFiniteSet(S), NEW x \in S, \A y \in S : v[y] \in Int
  PROVE  Total(v, S) = v[x] + Total(v, S \ {x})
<1>. DEFINE F == {T \in SUBSET S : \A y \in T : Total(v, T) = v[y] + Total(v, T \ {y})}
<1>1. ASSUME NEW T \in SUBSET S, \A c \in T : T \ {c} \in F PROVE T \in F
  <2>. SUFFICES ASSUME NEW y \in T PROVE Total(v, T) = v[y] + Total(v, T \ {y})
    OBVIOUS
  <2>. DEFINE c == Pick(T)
  <2>1. c \in T /\ IsFiniteSet(T)
    BY PickIsElement, FS_Subset
  <2>2. Total(v, T) = v[c] + Total(v, T \ {c})
    BY <2>1, SumPick
  <2>. HIDE DEF c
  <2>3. CASE y = c
    BY <2>2, <2>3
  <2>4. CASE y # c
    <3>1. Total(v, T \ {c}) = v[y] + Total(v, (T \ {c}) \ {y})
      BY <1>1, <2>1, <2>4
    <3>2. Total(v, T \ {y}) = v[c] + Total(v, (T \ {y}) \ {c})
      BY <1>1, <2>1, <2>4
    <3>3. (T \ {y}) \ {c} = (T \ {c}) \ {y}
      OBVIOUS
    <3>4. Total(v, T \ {y}) = v[c] + Total(v, (T \ {c}) \ {y})
      BY <3>2, <3>3
    <3>. IsFiniteSet((T \ {c}) \ {y})
      BY <2>1, FS_RemoveElement
    <3>5. Total(v, (T \ {c}) \ {y}) \in Int
      BY SumInt
    <3>6. v[c] \in Int /\ v[y] \in Int
      BY <2>1
    <3>. QED
      BY <2>2, <3>1, <3>4, <3>5, <3>6
  <2>. QED
    BY <2>3, <2>4
<1>. HIDE DEF F
<1>2. \A T \in SUBSET S : T \in F
  BY <1>1, SubsetInduction
<1>. QED
  BY <1>2 DEF F

\* Sums of values that are equal, that add up, and of which some are zero.
LEMMA SumEqual ==
  ASSUME NEW v, NEW w, NEW S, IsFiniteSet(S), \A x \in S : v[x] \in Int /\ v[x] = w[x]
  PROVE  Total(v, S) = Total(w, S)
<1>. DEFINE F == {T \in SUBSET S : Total(v, T) = Total(w, T)}
<1>1. ASSUME NEW T \in SUBSET S, \A c \in T : T \ {c} \in F PROVE T \in F
  <2>1. CASE T = {}
    BY <2>1, SumEmpty
  <2>2. ASSUME NEW c \in T PROVE Total(v, T) = Total(w, T)
    <3>. IsFiniteSet(T)
      BY FS_Subset
    <3>1. Total(v, T) = v[c] + Total(v, T \ {c}) /\ Total(w, T) = w[c] + Total(w, T \ {c})
      BY SumRemove
    <3>2. Total(v, T \ {c}) = Total(w, T \ {c})
      BY <1>1
    <3>. QED
      BY <3>1, <3>2
  <2>. QED
    BY <2>1, <2>2
<1>. HIDE DEF F
<1>2. \A T \in SUBSET S : T \in F
  BY <1>1, SubsetInduction
<1>. QED
  BY <1>2 DEF F

LEMMA SumAdd ==
  ASSUME NEW u, NEW v, NEW w, NEW S, IsFiniteSet(S),
         \A x \in S : v[x] \in Int /\ w[x] \in Int /\ u[x] = v[x] + w[x]
  PROVE  Total(u, S) = Total(v, S) + Total(w, S)
<1>. DEFINE F == {T \in SUBSET S : Total(u, T) = Total(v, T) + Total(w, T)}
<1>1. ASSUME NEW T \in SUBSET S, \A c \in T : T \ {c} \in F PROVE T \in F
  <2>1. CASE T = {}
    BY <2>1, SumEmpty
  <2>2. ASSUME NEW c \in T PROVE Total(u, T) = Total(v, T) + Total(w, T)
    <3>. IsFiniteSet(T) /\ IsFiniteSet(T \ {c}) /\ \A x \in T : u[x] \in Int
      BY FS_Subset, FS_RemoveElement
    <3>1. /\ Total(u, T) = u[c] + Total(u, T \ {c})
          /\ Total(v, T) = v[c] + Total(v, T \ {c})
          /\ Total(w, T) = w[c] + Total(w, T \ {c})
      BY SumRemove
    <3>2. Total(u, T \ {c}) = Total(v, T \ {c}) + Total(w, T \ {c})
      BY <1>1
    <3>3. Total(v, T \ {c}) \in Int /\ Total(w, T \ {c}) \in Int
      BY SumInt
    <3>4. v[c] \in Int /\ w[c] \in Int /\ u[c] = v[c] + w[c]
      OBVIOUS
    <3>. QED
      BY <3>1, <3>2, <3>3, <3>4
  <2>. QED
    BY <2>1, <2>2
<1>. HIDE DEF F
<1>2. \A T \in SUBSET S : T \in F
  BY <1>1, SubsetInduction
<1>. QED
  BY <1>2 DEF F

LEMMA SumZeros ==
  ASSUME NEW v, NEW S, IsFiniteSet(S), NEW R \in SUBSET S,
         \A x \in S : v[x] \in Int /\ (x \notin R => v[x] = 0)
  PROVE  Total(v, S) = Total(v, R)
<1>. DEFINE F == {T \in SUBSET S : Total(v, T) = Total(v, T \intersect R)}
<1>1. ASSUME NEW T \in SUBSET S, \A c \in T : T \ {c} \in F PROVE T \in F
  <2>. IsFiniteSet(T) /\ IsFiniteSet(T \intersect R)
    BY FS_Subset
  <2>1. CASE T \subseteq R
    <3>. T \intersect R = T
      BY <2>1
    <3>. QED
      OBVIOUS
  <2>2. ASSUME NEW c \in T, c \notin R PROVE Total(v, T) = Total(v, T \intersect R)
    <3>1. Total(v, T) = v[c] + Total(v, T \ {c})
      BY SumRemove
    <3>2. (T \ {c}) \intersect R = T \intersect R
      BY <2>2
    <3>3. Total(v, T \ {c}) = Total(v, T \intersect R)
      BY <1>1, <3>2
    <3>4. Total(v, T \intersect R) \in Int
      BY SumInt
    <3>5. v[c] = 0
      BY <2>2
    <3>. QED
      BY <3>1, <3>3, <3>4, <3>5
  <2>. QED
    BY <2>1, <2>2
<1>. HIDE DEF F
<1>2. \A T \in SUBSET S : T \in F
  BY <1>1, SubsetInduction
<1>3. S \intersect R = R
  OBVIOUS
<1>. QED
  BY <1>2, <1>3 DEF F

LEMMA SumOne == ASSUME NEW v, NEW x, v[x] \in Int PROVE Total(v, {x}) = v[x]
<1>1. Total(v, {x}) = v[x] + Total(v, {x} \ {x})
  BY SumRemove, FS_Singleton
<1>2. {x} \ {x} = {}
  OBVIOUS
<1>. QED
  BY <1>1, <1>2, SumEmpty

\* A table has one sum, by rows and by columns.
RowSum(M, S, D) == Total([a \in S |-> Total(M[a], D)], S)
ColumnSum(M, S, D) == Total([d \in D |-> Total([a \in S |-> M[a][d]], S)], D)

LEMMA RowsAndColumns ==
  ASSUME NEW M, NEW S, NEW D, IsFiniteSet(S), IsFiniteSet(D),
         \A a \in S, d \in D : M[a][d] \in Int
  PROVE  RowSum(M, S, D) = ColumnSum(M, S, D)
<1>. DEFINE rows == [a \in S |-> Total(M[a], D)]
            column(d) == [a \in S |-> M[a][d]]
            columns(T) == [d \in D |-> Total(column(d), T)]
            F == {T \in SUBSET S : Total(rows, T) = Total(columns(T), D)}
<1>1. \A a \in S : rows[a] = Total(M[a], D) /\ Total(M[a], D) \in Int
  BY SumInt
<1>2. \A d \in D, a \in S : column(d)[a] = M[a][d] /\ column(d)[a] \in Int
  OBVIOUS
<1>3. \A T \in SUBSET S, d \in D : columns(T)[d] = Total(column(d), T)
  OBVIOUS
<1>. HIDE DEF rows, column
<1>4. \A T \in SUBSET S, d \in D : Total(column(d), T) \in Int
  <2>. SUFFICES ASSUME NEW T \in SUBSET S, NEW d \in D PROVE Total(column(d), T) \in Int
    OBVIOUS
  <2>. IsFiniteSet(T) /\ \A a \in T : column(d)[a] \in Int
    BY <1>2, FS_Subset
  <2>. QED
    BY SumInt
<1>. HIDE DEF columns
<1>5. ASSUME NEW T \in SUBSET S, \A c \in T : T \ {c} \in F PROVE T \in F
  <2>. IsFiniteSet(T)
    BY FS_Subset
  <2>1. CASE T = {}
    <3>1. \A d \in D : columns({})[d] = 0
      BY <1>3, SumEmpty
    <3>2. Total(columns({}), D) = Total(columns({}), {})
      BY <3>1, SumZeros
    <3>. QED
      BY <2>1, <3>2, SumEmpty
  <2>2. ASSUME NEW c \in T PROVE Total(rows, T) = Total(columns(T), D)
    <3>1. Total(rows, T) = rows[c] + Total(rows, T \ {c})
      BY <1>1, SumRemove
    <3>2. Total(rows, T \ {c}) = Total(columns(T \ {c}), D)
      BY <1>5
    <3>3. ASSUME NEW d \in D
          PROVE  /\ M[c][d] \in Int /\ columns(T \ {c})[d] \in Int
                 /\ columns(T)[d] = M[c][d] + columns(T \ {c})[d]
      <4>1. Total(column(d), T) = column(d)[c] + Total(column(d), T \ {c})
        BY <1>2, SumRemove
      <4>2. T \in SUBSET S /\ T \ {c} \in SUBSET S
        OBVIOUS
      <4>. QED
        BY <1>2, <1>3, <1>4, <4>1, <4>2
    <3>4. Total(columns(T), D) = Total(M[c], D) + Total(columns(T \ {c}), D)
      <4>. DEFINE u == columns(T)
                  v == M[c]
                  w == columns(T \ {c})
      <4>1. \A d \in D : v[d] \in Int /\ w[d] \in Int /\ u[d] = v[d] + w[d]
        BY <3>3
      <4>. HIDE DEF u, v, w
      <4>2. Total(u, D) = Total(v, D) + Total(w, D)
        BY <4>1, SumAdd
      <4>. QED
        BY <4>2 DEF u, v, w
    <3>. QED
      BY <1>1, <3>1, <3>2, <3>4
  <2>. QED
    BY <2>1, <2>2
<1>. HIDE DEF F
<1>6. \A T \in SUBSET S : T \in F
  BY <1>5, SubsetInduction
<1>7. Total(rows, S) = Total(columns(S), D)
  BY <1>6 DEF F
<1>. QED
  BY <1>7 DEF rows, columns, column, RowSum, ColumnSum

\* What is counted by days and, day for day, over those who were active, is the same as
\* what is counted over all and, for each, over the days they were active.
Users(f, S, d) == {a \in S : d \in DOMAIN f[a]}
OnDay(f, S, d) == Total([a \in Users(f, S, d) |-> f[a][d]], Users(f, S, d))
SumByDay(f, S, D) == Total([d \in D |-> OnDay(f, S, d)], D)
SumByUser(f, S) == Total([a \in S |-> Total(f[a], DOMAIN f[a])], S)

LEMMA DoubleCount ==
  ASSUME NEW f, NEW S, IsFiniteSet(S), NEW D, D = UNION {DOMAIN f[a] : a \in S},
         \A a \in S : IsFiniteSet(DOMAIN f[a]) /\ \A d \in DOMAIN f[a] : f[a][d] \in Int
  PROVE  /\ IsFiniteSet(D)
         /\ SumByDay(f, S, D) = SumByUser(f, S)
         /\ \A d \in D : OnDay(f, S, d) \in Int
<1>. DEFINE users(d) == Users(f, S, d)
            part(d) == [a \in users(d) |-> f[a][d]]
            M == [a \in S |-> [d \in D |-> IF d \in DOMAIN f[a] THEN f[a][d] ELSE 0]]
            column(d) == [a \in S |-> M[a][d]]
            byDay == [d \in D |-> Total(part(d), users(d))]
            byUser == [a \in S |-> Total(f[a], DOMAIN f[a])]
            days == {DOMAIN f[a] : a \in S}
<1>1. IsFiniteSet(D)
  <2>. DEFINE g == [a \in S |-> DOMAIN f[a]]
  <2>1. g \in Surjection(S, days)
    BY DEF Surjection
  <2>. HIDE DEF g
  <2>2. IsFiniteSet(days)
    BY <2>1, FS_Surjection
  <2>3. \A T \in days : IsFiniteSet(T)
    OBVIOUS
  <2>. HIDE DEF days
  <2>4. IsFiniteSet(UNION days)
    BY <2>2, <2>3, FS_UNION
  <2>. QED
    BY <2>4 DEF days
<1>2. \A a \in S : DOMAIN f[a] \in SUBSET D
  OBVIOUS
<1>3. \A a \in S, d \in D : /\ M[a][d] = IF d \in DOMAIN f[a] THEN f[a][d] ELSE 0
                            /\ M[a][d] \in Int /\ column(d)[a] = M[a][d]
  OBVIOUS
<1>4. \A d \in D : /\ users(d) \in SUBSET S /\ IsFiniteSet(users(d))
                   /\ \A a \in users(d) : part(d)[a] = f[a][d] /\ f[a][d] \in Int
                   /\ \A a \in S : a \notin users(d) => d \notin DOMAIN f[a]
                   /\ \A a \in users(d) : d \in DOMAIN f[a]
  BY FS_Subset DEF Users
<1>. HIDE DEF M, column, part, users
<1>5. \A d \in D : Total(column(d), S) = Total(part(d), users(d)) /\ Total(part(d), users(d)) \in Int
  <2>. SUFFICES ASSUME NEW d \in D
                PROVE  /\ Total(column(d), S) = Total(part(d), users(d))
                       /\ Total(part(d), users(d)) \in Int
    OBVIOUS
  <2>1. \A a \in S : column(d)[a] \in Int /\ (a \notin users(d) => column(d)[a] = 0)
    BY <1>3, <1>4
  <2>2. users(d) \in SUBSET S /\ IsFiniteSet(users(d))
    BY <1>4
  <2>3. Total(column(d), S) = Total(column(d), users(d))
    BY <2>1, <2>2, SumZeros
  <2>4. \A a \in users(d) : part(d)[a] \in Int /\ part(d)[a] = column(d)[a]
    BY <1>3, <1>4
  <2>5. Total(part(d), users(d)) = Total(column(d), users(d))
    BY <2>2, <2>4, SumEqual
  <2>6. Total(part(d), users(d)) \in Int
    BY <2>2, <2>4, SumInt
  <2>. QED
    BY <2>3, <2>5, <2>6
<1>6. \A a \in S : Total(M[a], D) = Total(f[a], DOMAIN f[a]) /\ Total(f[a], DOMAIN f[a]) \in Int
  <2>. SUFFICES ASSUME NEW a \in S
                PROVE  /\ Total(M[a], D) = Total(f[a], DOMAIN f[a])
                       /\ Total(f[a], DOMAIN f[a]) \in Int
    OBVIOUS
  <2>1. \A d \in D : M[a][d] \in Int /\ (d \notin DOMAIN f[a] => M[a][d] = 0)
    BY <1>3
  <2>2. Total(M[a], D) = Total(M[a], DOMAIN f[a])
    BY <1>1, <1>2, <2>1, SumZeros
  <2>3. \A d \in DOMAIN f[a] : f[a][d] \in Int /\ f[a][d] = M[a][d]
    BY <1>2, <1>3
  <2>4. Total(f[a], DOMAIN f[a]) = Total(M[a], DOMAIN f[a])
    BY <2>3, SumEqual
  <2>5. Total(f[a], DOMAIN f[a]) \in Int
    BY <2>3, SumInt
  <2>. QED
    BY <2>2, <2>4, <2>5
<1>7. Total([a \in S |-> Total(M[a], D)], S) = Total([d \in D |-> Total(column(d), S)], D)
  <2>1. \A a \in S, d \in D : M[a][d] \in Int
    BY <1>3
  <2>2. RowSum(M, S, D) = ColumnSum(M, S, D)
    BY <1>1, <2>1, RowsAndColumns
  <2>. QED
    BY <2>2 DEF column, RowSum, ColumnSum
<1>8. [a \in S |-> Total(M[a], D)] = byUser /\ [d \in D |-> Total(column(d), S)] = byDay
  BY <1>5, <1>6
<1>9. Total(byDay, D) = Total(byUser, S)
  BY <1>7, <1>8
<1>. QED
  BY <1>1, <1>5, <1>9 DEF part, users, SumByDay, SumByUser, OnDay

--------------------------------------------------------------------------------
(* The page. *)

LEMMA MaxOfFinite ==
  ASSUME NEW S \in SUBSET Int, IsFiniteSet(S), S # {}
  PROVE  Max(S) \in S /\ \A y \in S : y <= Max(S)
<1>. DEFINE Highest(T) == \E m \in T : \A y \in T : y <= m
            F == {T \in SUBSET S : T = {} \/ Highest(T)}
<1>1. ASSUME NEW T \in SUBSET S, \A c \in T : T \ {c} \in F PROVE T \in F
  <2>. SUFFICES ASSUME NEW c \in T PROVE Highest(T)
    OBVIOUS
  <2>1. CASE T \ {c} = {}
    <3>. \A y \in T : y = c
      BY <2>1
    <3>. QED
      OBVIOUS
  <2>2. CASE T \ {c} # {}
    <3>1. PICK m \in T \ {c} : \A y \in T \ {c} : y <= m
      BY <1>1, <2>2
    <3>2. CASE c <= m
      BY <3>1, <3>2
    <3>3. CASE ~(c <= m)
      <4>. \A y \in T : y <= c
        BY <3>1, <3>3
      <4>. QED
        OBVIOUS
    <3>. QED
      BY <3>2, <3>3
  <2>. QED
    BY <2>1, <2>2
<1>. HIDE DEF F
<1>2. \A T \in SUBSET S : T \in F
  BY <1>1, SubsetInduction
<1>3. Highest(S)
  BY <1>2 DEF F
<1>. QED
  BY <1>3 DEF Max

\* What a page says of the activity, of any accounts with profiles.
LEMMA PageParts ==
  ASSUME NEW S, NEW identity
  PROVE  /\ Page(S, identity).identity = identity
         /\ Page(S, identity).lifetime = Total([a \in S |-> profiles[a].lifetime], S)
         /\ Page(S, identity).daily = Daily(S)
         /\ Page(S, identity).cumulative = Cumulative(Daily(S))
         /\ Page(S, identity).weekly = Weekly(Daily(S))
         /\ Page(S, identity).current = CurrentStreak(DOMAIN Daily(S))
         /\ Page(S, identity).longest = Runs(Sorted(DOMAIN Daily(S))).longest
BY DEF Page

DailySum(S) == Total([a \in S |-> Total(profiles[a].days, DOMAIN profiles[a].days)], S)

LEMMA DailyAddsUp ==
  ASSUME profiles \in [Subscriptions -> Profiles], NEW S \in SUBSET Subscriptions, IsFiniteSet(S)
  PROVE  /\ IsFiniteSet(Dates(S)) /\ Dates(S) \in SUBSET Int
         /\ DOMAIN Daily(S) = Dates(S) /\ \A d \in Dates(S) : Daily(S)[d] \in Int
         /\ Total(Daily(S), Dates(S)) = DailySum(S)
<1>. DEFINE f == [a \in S |-> profiles[a].days]
            D == UNION {DOMAIN f[a] : a \in S}
<1>1. \A a \in S : f[a] = profiles[a].days /\ profiles[a] \in Profiles
  OBVIOUS
<1>2. \A a \in S : /\ IsFiniteSet(DOMAIN f[a]) /\ DOMAIN f[a] \subseteq Int
                   /\ \A d \in DOMAIN f[a] : f[a][d] \in Int
  BY <1>1, BucketsAssumption
<1>3. D = Dates(S)
  BY <1>1 DEF Dates
<1>. HIDE DEF f
<1>4. D \in SUBSET Int
  BY <1>2
<1>5. Daily(S) = [d \in Dates(S) |-> OnDay(f, S, d)]
  <2>. \A d : {a \in S : d \in DOMAIN profiles[a].days} = Users(f, S, d)
    BY <1>1 DEF Users
  <2>. \A d : [a \in Users(f, S, d) |-> f[a][d]] = [a \in Users(f, S, d) |-> profiles[a].days[d]]
    BY <1>1 DEF Users
  <2>. QED
    BY DEF Daily, OnDay
<1>6. DailySum(S) = SumByUser(f, S)
  BY <1>1 DEF DailySum, SumByUser
<1>. HIDE DEF D
<1>7. /\ IsFiniteSet(D) /\ SumByDay(f, S, D) = SumByUser(f, S)
      /\ \A d \in D : OnDay(f, S, d) \in Int
  BY <1>2, DoubleCount DEF D
<1>. QED
  BY <1>3, <1>4, <1>5, <1>6, <1>7 DEF SumByDay

\* The weeks of a calendar have the activity of its days.
LEMMA WeeksAddUp ==
  ASSUME NEW daily, NEW D \in SUBSET Int, IsFiniteSet(D), DOMAIN daily = D,
         \A d \in D : daily[d] \in Int
  PROVE  Total(Weekly(daily), DOMAIN Weekly(daily)) = Total(daily, D)
<1>. DEFINE Monday(d) == d - (d % 7)
            W == {Monday(d) : d \in D}
            week(w) == {d \in D : Monday(d) = w}
            f == [w \in W |-> [d \in week(w) |-> daily[d]]]
<1>. HIDE DEF Monday
<1>1. IsFiniteSet(W)
  <2>. DEFINE g == [d \in D |-> Monday(d)]
  <2>1. g \in Surjection(D, W)
    BY DEF Surjection
  <2>. HIDE DEF g
  <2>. QED
    BY <2>1, FS_Surjection
<1>2. \A w \in W : IsFiniteSet(week(w)) /\ DOMAIN f[w] = week(w)
                   /\ \A d \in week(w) : f[w][d] = daily[d] /\ f[w][d] \in Int
  BY FS_Subset
<1>3. D = UNION {DOMAIN f[w] : w \in W}
  <2>1. \A d \in D : Monday(d) \in W /\ d \in week(Monday(d))
    OBVIOUS
  <2>2. \A w \in W : \A d \in week(w) : d \in D
    OBVIOUS
  <2>. HIDE DEF W, week, f
  <2>. QED
    BY <1>2, <2>1, <2>2
<1>4. Weekly(daily) = [w \in W |-> Total(daily, week(w))]
  BY DEF Weekly, Monday
<1>. HIDE DEF f
<1>5. \A d \in D : Users(f, W, d) = {Monday(d)}
  <2>. SUFFICES ASSUME NEW d \in D PROVE Users(f, W, d) = {Monday(d)}
    OBVIOUS
  <2>1. Monday(d) \in W
    OBVIOUS
  <2>2. \A w \in W : d \in week(w) <=> w = Monday(d)
    OBVIOUS
  <2>3. \A w \in W : DOMAIN f[w] = week(w)
    BY <1>2
  <2>. HIDE DEF W, week
  <2>. QED
    BY <2>1, <2>2, <2>3 DEF Users
<1>6. SumByDay(f, W, D) = SumByUser(f, W)
  <2>1. \A w \in W : IsFiniteSet(DOMAIN f[w]) /\ \A d \in DOMAIN f[w] : f[w][d] \in Int
    BY <1>2
  <2>. HIDE DEF W
  <2>. QED
    BY <1>1, <1>3, <2>1, DoubleCount
<1>7. \A w \in W : Total(f[w], DOMAIN f[w]) = Total(daily, week(w))
  <2>. SUFFICES ASSUME NEW w \in W PROVE Total(f[w], DOMAIN f[w]) = Total(daily, week(w))
    OBVIOUS
  <2>1. IsFiniteSet(week(w)) /\ DOMAIN f[w] = week(w)
        /\ \A d \in week(w) : f[w][d] \in Int /\ f[w][d] = daily[d]
    BY <1>2
  <2>. HIDE DEF week
  <2>. QED
    BY <2>1, SumEqual
<1>8. ASSUME NEW d \in D PROVE OnDay(f, W, d) = daily[d]
  <2>. DEFINE v == [w \in {Monday(d)} |-> f[w][d]]
  <2>1. v[Monday(d)] = daily[d]
    BY <1>2
  <2>. HIDE DEF v
  <2>2. Total(v, {Monday(d)}) = daily[d]
    BY <2>1, SumOne
  <2>. QED
    BY <1>5, <2>2 DEF v, OnDay
<1>9. SumByUser(f, W) = Total(Weekly(daily), W)
  <2>. [w \in W |-> Total(f[w], DOMAIN f[w])] = Weekly(daily)
    BY <1>4, <1>7
  <2>. QED
    BY DEF SumByUser
<1>10. SumByDay(f, W, D) = Total(daily, D)
  <2>. DEFINE v == [d \in D |-> OnDay(f, W, d)]
  <2>1. \A d \in D : v[d] \in Int /\ v[d] = daily[d]
    BY <1>8
  <2>. HIDE DEF v
  <2>2. Total(v, D) = Total(daily, D)
    BY <2>1, SumEqual
  <2>. QED
    BY <2>2 DEF v, SumByDay
<1>11. DOMAIN Weekly(daily) = W
  BY <1>4
<1>. HIDE DEF W
<1>. QED
  BY <1>6, <1>9, <1>10, <1>11

\* The last cumulative bucket is the whole.
LEMMA LastIsWhole ==
  ASSUME NEW daily, NEW D \in SUBSET Int, IsFiniteSet(D), DOMAIN daily = D, D # {}
  PROVE  Cumulative(daily)[Max(D)] = Total(daily, D)
<1>1. Max(D) \in D /\ {e \in D : e <= Max(D)} = D
  BY MaxOfFinite
<1>. QED
  BY <1>1 DEF Cumulative


--------------------------------------------------------------------------------
(* Streaks. *)

Increasing(dates) == \A i, j \in DOMAIN dates : i < j => dates[i] < dates[j]

\* Every finite calendar can be sorted, and the result has all its days.
LEMMA SortedIsSorted ==
  ASSUME NEW D \in SUBSET Int, IsFiniteSet(D)
  PROVE  /\ Sorted(D) \in [1..Cardinality(D) -> D] /\ Increasing(Sorted(D))
         /\ \A d \in D : \E i \in 1..Cardinality(D) : Sorted(D)[i] = d
<1>. DEFINE Sortable(T) == \E dates \in [1..Cardinality(T) -> T] : Increasing(dates)
            F == {T \in SUBSET D : Sortable(T)}
<1>1. ASSUME NEW T \in SUBSET D, \A c \in T : T \ {c} \in F PROVE T \in F
  <2>0. IsFiniteSet(T) /\ Cardinality(T) \in Nat
    BY FS_Subset, FS_CardinalityType
  <2>1. CASE T = {}
    <3>1. Cardinality(T) = 0
      BY <2>1, FS_EmptySet
    <3>. DEFINE none == [i \in 1..0 |-> i]
    <3>2. none \in [1..0 -> T] /\ Increasing(none)
      BY <2>1 DEF Increasing
    <3>. QED
      BY <3>1, <3>2
  <2>2. CASE T # {}
    <3>. DEFINE m == Max(T)
                n == Cardinality(T)
    <3>1. m \in T /\ m \in Int /\ \A y \in T : y \in Int /\ y <= m
      BY <2>0, <2>2, MaxOfFinite
    <3>2. n \in Nat \ {0} /\ Cardinality(T \ {m}) = n - 1
      BY <2>0, <3>1, FS_RemoveElement, FS_EmptySet
    <3>. HIDE DEF m, n
    <3>3. PICK dates \in [1..(n - 1) -> T \ {m}] : Increasing(dates)
      <4>. Sortable(T \ {m})
        BY <1>1, <3>1
      <4>. QED
        BY <3>2
    <3>. DEFINE g == [i \in 1..n |-> IF i = n THEN m ELSE dates[i]]
    <3>4. g \in [1..n -> T]
      BY <3>1, <3>2, <3>3
    <3>5. Increasing(g)
      <4>. SUFFICES ASSUME NEW i \in 1..n, NEW j \in 1..n, i < j PROVE g[i] < g[j]
        BY DEF Increasing
      <4>1. i \in 1..(n - 1) /\ g[i] = dates[i] /\ dates[i] \in T \ {m}
        BY <3>2, <3>3
      <4>2. CASE j = n
        <5>1. g[j] = m
          BY <4>2
        <5>2. dates[i] \in Int /\ dates[i] <= m /\ dates[i] # m
          BY <3>1, <4>1
        <5>. HIDE DEF g
        <5>. QED
          BY <3>1, <4>1, <5>1, <5>2
      <4>3. CASE j # n
        <5>. j \in 1..(n - 1) /\ g[j] = dates[j]
          BY <3>2, <4>3
        <5>. QED
          BY <3>3, <4>1 DEF Increasing
      <4>. QED
        BY <4>2, <4>3
    <3>. HIDE DEF g
    <3>6. Sortable(T)
      BY <3>4, <3>5 DEF n
    <3>. QED
      BY <3>6
  <2>. QED
    BY <2>1, <2>2
<1>. HIDE DEF F
<1>2. \A T \in SUBSET D : T \in F
  BY <1>1, SubsetInduction
<1>3. Sortable(D)
  BY <1>2 DEF F
<1>4. Sorted(D) \in [1..Cardinality(D) -> D] /\ Increasing(Sorted(D))
  BY <1>3 DEF Sorted, Increasing
<1>5. Cardinality(D) \in Nat
  BY FS_CardinalityType
<1>6. Sorted(D) \in Injection(1..Cardinality(D), D)
  <2>. DEFINE s == Sorted(D)
              n == Cardinality(D)
  <2>1. s \in [1..n -> D] /\ Increasing(s) /\ n \in Nat
    BY <1>4, <1>5
  <2>. HIDE DEF s, n
  <2>2. ASSUME NEW i \in 1..n, NEW j \in 1..n, s[i] = s[j] PROVE i = j
    <3>. s[i] \in Int /\ s[j] \in Int
      BY <2>1
    <3>. QED
      BY <2>1, <2>2 DEF Increasing
  <2>. s \in Injection(1..n, D)
    BY <2>1, <2>2 DEF Injection, IsInjective
  <2>. QED
    BY DEF s, n
<1>7. Cardinality(1..Cardinality(D)) = Cardinality(D)
  BY <1>5, FS_Interval
<1>8. Sorted(D) \in Surjection(1..Cardinality(D), D)
  BY <1>6, <1>7, FS_Injection
<1>. QED
  BY <1>4, <1>8 DEF Surjection

RunStates == [previous : Int, run : Nat, longest : Nat]

LEMMA MaxOfTwo ==
  ASSUME NEW x \in Nat, NEW y \in Nat
  PROVE  Max({x, y}) = IF x >= y THEN x ELSE y
<1>. DEFINE m == IF x >= y THEN x ELSE y
<1>1. m \in {x, y} /\ \A z \in {x, y} : m >= z
  OBVIOUS
<1>2. ASSUME NEW z \in {x, y}, \A w \in {x, y} : z >= w PROVE z = m
  BY <1>2
<1>. HIDE DEF m
<1>3. Max({x, y}) = m
  BY <1>1, <1>2 DEF Max
<1>. QED
  BY <1>3 DEF m

LEMMA DayParts ==
  ASSUME NEW r \in RunStates, NEW d \in Int
  PROVE  /\ Day(r, d) \in RunStates
         /\ Day(r, d).previous = d
         /\ Day(r, d).run = IF r.run > 0 /\ d - r.previous = 1 THEN r.run + 1 ELSE 1
         /\ Day(r, d).longest = IF r.longest >= Day(r, d).run THEN r.longest ELSE Day(r, d).run
<1>. DEFINE run == IF r.run > 0 /\ d - r.previous = 1 THEN r.run + 1 ELSE 1
<1>1. run \in Nat /\ r.longest \in Nat
  BY DEF RunStates
<1>2. Max({r.longest, run}) = IF r.longest >= run THEN r.longest ELSE run
  BY <1>1, MaxOfTwo
<1>3. Day(r, d) = [previous |-> d, run |-> run, longest |-> Max({r.longest, run})]
  BY DEF Day
<1>. HIDE DEF run
<1>4. Day(r, d).run = run
  BY <1>3
<1>5. Day(r, d) \in RunStates
  BY <1>1, <1>2, <1>3 DEF RunStates
<1>. QED
  BY <1>2, <1>3, <1>4, <1>5 DEF run

IsRun(dates, f) ==
  f = [s \in SUBSET DOMAIN dates |->
         IF s = {} THEN NoDay ELSE Day(f[s \ {Max(s)}], dates[Max(s)])]

LEMMA RunsUnfolds ==
  ASSUME NEW dates
  PROVE  Runs(dates) = (CHOOSE f : IsRun(dates, f))[DOMAIN dates]
BY DEF Runs, FoldLeft, MapThenFoldSet, IsRun

\* The loop of mergedStreaks, day by day.
Walks(h, n, dates) == h[0] = NoDay /\ \A k \in 1..n : h[k] = Day(h[k - 1], dates[k])

LEMMA RunsByDay ==
  ASSUME NEW n \in Nat, NEW dates \in [1..n -> Int]
  PROVE  \E h \in [0..n -> RunStates] : Walks(h, n, dates) /\ Runs(dates) = h[n]
<1>. DEFINE S == 1..n
            Ch == [s \in SUBSET S |-> Max(s)]
            G == [s \in SUBSET S |-> [r \in RunStates |-> Day(r, dates[Max(s)])]]
<1>1. IsFiniteSet(S) /\ S \in SUBSET Int
  BY FS_Interval
<1>2. \A s \in SUBSET S : s # {} => Max(s) \in s /\ \A y \in s : y <= Max(s)
  BY <1>1, FS_Subset, MaxOfFinite
<1>3. \A s \in SUBSET S : Ch[s] = Max(s) /\ \A r \in RunStates : G[s][r] = Day(r, dates[Max(s)])
  OBVIOUS
<1>4. NoDay \in RunStates
  BY ProfileAssumption DEF NoDay, RunStates
<1>5. \A s \in SUBSET S, r \in RunStates : s # {} => G[s][r] \in RunStates
  BY <1>2, <1>3, DayParts
<1>6. \A s \in SUBSET S : s # {} => Ch[s] \in s
  BY <1>2, <1>3
<1>. HIDE DEF Ch, G
<1>7. PICK f \in [SUBSET S -> RunStates] : Reduces(f, S, NoDay, Ch, G)
  <2>. HIDE DEF S
  <2>. QED
    BY <1>1, <1>4, <1>5, <1>6, SetRecursion
<1>8. IsRun(dates, f)
  <2>1. ASSUME NEW s \in SUBSET S
        PROVE  f[s] = IF s = {} THEN NoDay ELSE Day(f[s \ {Max(s)}], dates[Max(s)])
    <3>. f[s \ {Max(s)}] \in RunStates
      OBVIOUS
    <3>. QED
      BY <1>3, <1>7 DEF Reduces
  <2>2. DOMAIN dates = S
    OBVIOUS
  <2>. QED
    BY <2>1, <2>2 DEF IsRun
<1>. DEFINE g == CHOOSE x : IsRun(dates, x)
<1>9. IsRun(dates, g)
  BY <1>8
<1>10. Runs(dates) = g[S]
  BY RunsUnfolds
<1>. HIDE DEF g
<1>11. \A k \in 1..n : Max(1..k) = k /\ (1..k) \ {k} = 1..(k - 1) /\ 1..k # {}
  <2>. SUFFICES ASSUME NEW k \in 1..n PROVE Max(1..k) = k /\ (1..k) \ {k} = 1..(k - 1) /\ 1..k # {}
    OBVIOUS
  <2>1. 1..k \in SUBSET S /\ k \in 1..k
    OBVIOUS
  <2>2. Max(1..k) \in 1..k /\ \A y \in 1..k : y <= Max(1..k)
    BY <1>2, <2>1
  <2>. QED
    BY <2>1, <2>2
<1>12. \A k \in 1..n : 1..k \in SUBSET S
  OBVIOUS
<1>13. \A k \in 0..n : 1..k \in SUBSET S
  OBVIOUS
<1>. DEFINE h == [k \in 0..n |-> g[1..k]]
<1>14. \A k \in 1..n : g[1..k] = Day(g[1..(k - 1)], dates[k])
  <2>. SUFFICES ASSUME NEW k \in 1..n PROVE g[1..k] = Day(g[1..(k - 1)], dates[k])
    OBVIOUS
  <2>. DEFINE s == 1..k
  <2>1. s \in SUBSET DOMAIN dates /\ s # {} /\ Max(s) = k /\ s \ {k} = 1..(k - 1)
    BY <1>11, <1>12
  <2>. HIDE DEF s
  <2>2. g[s] = Day(g[s \ {Max(s)}], dates[Max(s)])
    BY <1>9, <2>1 DEF IsRun
  <2>. QED
    BY <2>1, <2>2 DEF s
<1>15. h[0] = NoDay
  <2>. 1..0 = {} /\ {} \in SUBSET DOMAIN dates
    OBVIOUS
  <2>. QED
    BY <1>9 DEF IsRun
<1>16. \A k \in 1..n : h[k] = Day(h[k - 1], dates[k])
  BY <1>14
<1>. HIDE DEF h
<1>17. \A k \in 0..n : h[k] \in RunStates
  <2>. DEFINE N == {k \in Nat : k <= n => h[k] \in RunStates}
  <2>1. 0 \in N
    BY <1>4, <1>15
  <2>2. ASSUME NEW k \in N PROVE k + 1 \in N
    <3>. SUFFICES ASSUME k + 1 <= n PROVE h[k + 1] \in RunStates
      OBVIOUS
    <3>1. k + 1 \in 1..n /\ (k + 1) - 1 = k /\ h[k] \in RunStates /\ dates[k + 1] \in Int
      OBVIOUS
    <3>2. h[k + 1] = Day(h[k], dates[k + 1])
      BY <1>16, <3>1
    <3>. QED
      BY <3>1, <3>2, DayParts
  <2>3. N \in SUBSET Nat
    OBVIOUS
  <2>. HIDE DEF N
  <2>4. N = Nat
    BY <2>1, <2>2, <2>3, Induction
  <2>. QED
    BY <2>4 DEF N
<1>18. h \in [0..n -> RunStates] /\ h[n] = g[S]
  BY <1>17 DEF h
<1>. QED
  BY <1>10, <1>15, <1>16, <1>18 DEF Walks

Streak(active, first, last) == first <= last /\ first..last \subseteq active

\* After the day x: the run that ends with x cannot be extended to the left, and the
\* longest run so far is the longest there is up to x.
Walked(r, active, x) ==
  /\ r.previous = x /\ r.run > 0
  /\ (x - r.run + 1)..x \subseteq active /\ x - r.run \notin active
  /\ \A d, e \in active : e <= x /\ Streak(active, d, e) => e - d + 1 <= r.longest
  /\ \E d, e \in active : Streak(active, d, e) /\ e - d + 1 = r.longest

\* A run of this length that ends with x and has nothing before it.
LEMMA RunIsLongestThere ==
  ASSUME NEW active \in SUBSET Int, NEW x \in active, NEW n \in Nat, x - n \notin active,
         NEW d \in active, Streak(active, d, x)
  PROVE  x - d + 1 <= n
<1>. d \in Int /\ x \in Int /\ d <= x
  BY DEF Streak
<1>1. CASE x - d + 1 <= n
  BY <1>1
<1>2. CASE ~(x - d + 1 <= n)
  <2>. x - n \in d..x
    BY <1>2
  <2>. QED
    BY DEF Streak
<1>. QED
  BY <1>1, <1>2

LEMMA WalkStarts ==
  ASSUME NEW active \in SUBSET Int, NEW x \in active, \A y \in active : x <= y
  PROVE  Walked(Day(NoDay, x), active, x)
<1>. DEFINE r == Day(NoDay, x)
<1>. x \in Int
  OBVIOUS
<1>1. NoDay \in RunStates /\ NoDay.run = 0 /\ NoDay.longest = 0
  BY ProfileAssumption DEF NoDay, RunStates
<1>2. r.previous = x /\ r.run = 1 /\ r.longest = 1
  BY <1>1, DayParts
<1>. HIDE DEF r
<1>3. x - 1 \notin active /\ (x - 1 + 1)..x \subseteq active /\ Streak(active, x, x)
  BY DEF Streak
<1>4. ASSUME NEW d \in active, NEW e \in active, e <= x, Streak(active, d, e) PROVE e - d + 1 <= 1
  <2>. d \in Int /\ e \in Int /\ x <= d /\ x <= e
    OBVIOUS
  <2>. QED
    BY <1>4
<1>5. x - x + 1 = 1
  OBVIOUS
<1>. QED
  BY <1>2, <1>3, <1>4, <1>5 DEF Walked, r

LEMMA WalkGoesOn ==
  ASSUME NEW active \in SUBSET Int, NEW p \in active, NEW x \in active, p < x,
         \A y \in active : y <= x => y = x \/ y <= p,
         NEW r \in RunStates, Walked(r, active, p)
  PROVE  Walked(Day(r, x), active, x)
<1>. DEFINE s == Day(r, x)
<1>0. p \in Int /\ x \in Int
  OBVIOUS
<1>1. /\ s \in RunStates /\ s.previous = x
      /\ s.run = IF r.run > 0 /\ x - r.previous = 1 THEN r.run + 1 ELSE 1
      /\ s.longest = IF r.longest >= s.run THEN r.longest ELSE s.run
  BY DayParts
<1>. HIDE DEF s
<1>2. /\ r.run \in Nat /\ r.longest \in Nat /\ s.run \in Nat /\ s.longest \in Nat
      /\ r.previous = p /\ r.run > 0
  BY <1>1 DEF RunStates, Walked
<1>3. s.run > 0 /\ s.run <= s.longest /\ r.longest <= s.longest
      /\ (s.longest = r.longest \/ s.longest = s.run)
  BY <1>1, <1>2
<1>4. (x - s.run + 1)..x \subseteq active /\ x - s.run \notin active
  <2>1. CASE x - p = 1
    <3>. s.run = r.run + 1 /\ x = p + 1
      BY <1>0, <1>1, <1>2, <2>1
    <3>1. x - s.run = p - r.run /\ x - s.run + 1 = p - r.run + 1
      BY <1>0, <1>2
    <3>2. (p - r.run + 1)..p \subseteq active /\ p - r.run \notin active
      BY DEF Walked
    <3>3. \A y \in (p - r.run + 1)..x : y \in (p - r.run + 1)..p \/ y = x
      BY <1>0, <1>2
    <3>. QED
      BY <3>1, <3>2, <3>3
  <2>2. CASE x - p # 1
    <3>1. s.run = 1
      BY <1>1, <1>2, <2>2
    <3>2. x - 1 \notin active
      BY <1>0, <2>2
    <3>3. (x - 1 + 1)..x = {x}
      BY <1>0
    <3>. QED
      BY <3>1, <3>2, <3>3
  <2>. QED
    BY <2>1, <2>2
<1>5. ASSUME NEW d \in active, NEW e \in active, e <= x, Streak(active, d, e)
      PROVE  e - d + 1 <= s.longest
  <2>. d \in Int /\ e \in Int
    OBVIOUS
  <2>1. CASE e = x
    <3>. x - d + 1 <= s.run
      BY <1>2, <1>4, <1>5, <2>1, RunIsLongestThere
    <3>. QED
      BY <1>2, <1>3, <2>1
  <2>2. CASE e <= p
    <3>. e - d + 1 <= r.longest
      BY <1>5, <2>2 DEF Walked
    <3>. QED
      BY <1>2, <1>3
  <2>. QED
    BY <1>5, <2>1, <2>2
<1>6. \E d, e \in active : Streak(active, d, e) /\ e - d + 1 = s.longest
  <2>1. CASE s.longest = r.longest
    BY <2>1 DEF Walked
  <2>2. CASE s.longest = s.run
    <3>. DEFINE d == x - s.run + 1
    <3>1. d \in Int /\ d <= x /\ x - d + 1 = s.run /\ d \in d..x
      BY <1>0, <1>2, <1>3
    <3>2. d \in active /\ Streak(active, d, x)
      BY <1>4, <3>1 DEF Streak
    <3>. HIDE DEF d
    <3>. QED
      BY <2>2, <3>1, <3>2
  <2>. QED
    BY <1>3, <2>1, <2>2
<1>. QED
  BY <1>1, <1>3, <1>4, <1>5, <1>6 DEF Walked, s

LEMMA LongestIsLongest ==
  ASSUME NEW active \in SUBSET Int, IsFiniteSet(active)
  PROVE  /\ Runs(Sorted(active)).longest \in Nat
         /\ \A d, e \in active : Streak(active, d, e) => e - d + 1 <= Runs(Sorted(active)).longest
         /\ active # {} => \E d, e \in active :
              Streak(active, d, e) /\ e - d + 1 = Runs(Sorted(active)).longest
<1>. DEFINE n == Cardinality(active)
            dates == Sorted(active)
<1>1. n \in Nat /\ (n = 0 <=> active = {})
  BY FS_CardinalityType, FS_EmptySet
<1>2. /\ dates \in [1..n -> active] /\ Increasing(dates)
      /\ \A d \in active : \E i \in 1..n : dates[i] = d
  BY SortedIsSorted
<1>. HIDE DEF n, dates
<1>3. dates \in [1..n -> Int]
  BY <1>2
<1>4. PICK h \in [0..n -> RunStates] : Walks(h, n, dates) /\ Runs(dates) = h[n]
  BY <1>1, <1>3, RunsByDay
<1>5. h[n] \in RunStates /\ h[n].longest \in Nat
  BY <1>1 DEF RunStates
<1>6. \A k \in 1..n, y \in active : y <= dates[k] => y = dates[k] \/ (k > 1 /\ y <= dates[k - 1])
  <2>. SUFFICES ASSUME NEW k \in 1..n, NEW y \in active, y <= dates[k], y # dates[k]
                PROVE  k > 1 /\ y <= dates[k - 1]
    OBVIOUS
  <2>1. PICK i \in 1..n : dates[i] = y
    BY <1>2
  <2>2. dates[k] \in Int /\ y \in Int
    BY <1>3
  <2>3. i < k
    <3>1. ~(k < i)
      BY <1>2, <2>1, <2>2 DEF Increasing
    <3>2. i # k
      BY <2>1
    <3>. QED
      BY <1>1, <3>1, <3>2
  <2>4. k - 1 \in 1..n /\ i <= k - 1 /\ dates[k - 1] \in Int
    BY <1>1, <1>3, <2>3
  <2>5. CASE i = k - 1
    BY <2>1, <2>2, <2>3, <2>5
  <2>6. CASE i # k - 1
    <3>. dates[i] < dates[k - 1]
      BY <1>2, <2>4, <2>6 DEF Increasing
    <3>. QED
      BY <2>1, <2>2, <2>3, <2>4
  <2>. QED
    BY <2>5, <2>6
<1>7. \A k \in 1..n : Walked(h[k], active, dates[k])
  <2>. DEFINE N == {k \in Nat : k + 1 <= n => Walked(h[k + 1], active, dates[k + 1])}
  <2>1. 0 \in N
    <3>. SUFFICES ASSUME 1 <= n PROVE Walked(h[1], active, dates[1])
      OBVIOUS
    <3>1. h[1] = Day(NoDay, dates[1])
      BY <1>1, <1>4 DEF Walks
    <3>2. dates[1] \in active
      BY <1>1, <1>2
    <3>3. \A y \in active : dates[1] <= y
      <4>. SUFFICES ASSUME NEW y \in active PROVE dates[1] <= y
        OBVIOUS
      <4>. y \in Int /\ dates[1] \in Int
        BY <3>2
      <4>. 1 \in 1..n
        BY <1>1
      <4>. y <= dates[1] => y = dates[1]
        BY <1>6
      <4>. QED
        OBVIOUS
    <3>. QED
      BY <3>1, <3>2, <3>3, WalkStarts
  <2>2. ASSUME NEW k \in N PROVE k + 1 \in N
    <3>. SUFFICES ASSUME k + 2 <= n PROVE Walked(h[k + 2], active, dates[k + 2])
      BY <1>1
    <3>1. k + 1 \in 1..n /\ k + 2 \in 1..n /\ (k + 2) - 1 = k + 1 /\ k + 1 < k + 2
      BY <1>1
    <3>2. h[k + 2] = Day(h[k + 1], dates[k + 2])
      BY <1>4, <3>1 DEF Walks
    <3>3. dates[k + 1] \in active /\ dates[k + 2] \in active /\ h[k + 1] \in RunStates
      BY <1>2, <3>1
    <3>4. dates[k + 1] < dates[k + 2]
      BY <1>2, <3>1 DEF Increasing
    <3>5. \A y \in active : y <= dates[k + 2] => y = dates[k + 2] \/ y <= dates[k + 1]
      BY <1>6, <3>1
    <3>6. Walked(h[k + 1], active, dates[k + 1])
      BY <3>1
    <3>. QED
      BY <3>2, <3>3, <3>4, <3>5, <3>6, WalkGoesOn
  <2>3. N \in SUBSET Nat
    OBVIOUS
  <2>. HIDE DEF N
  <2>4. N = Nat
    BY <2>1, <2>2, <2>3, Induction
  <2>5. ASSUME NEW k \in 1..n PROVE Walked(h[k], active, dates[k])
    <3>. k - 1 \in N /\ (k - 1) + 1 = k /\ k <= n
      BY <1>1, <2>4
    <3>. QED
      BY DEF N
  <2>. QED
    BY <2>5
<1>8. CASE active = {}
  BY <1>4, <1>5, <1>8 DEF dates
<1>9. CASE active # {}
  <2>0. n # 0
    BY <1>1, <1>9
  <2>1. n \in 1..n
    BY <1>1, <2>0
  <2>2. Walked(h[n], active, dates[n])
    BY <1>7, <2>1
  <2>3. \A y \in active : y <= dates[n]
    <3>. SUFFICES ASSUME NEW y \in active PROVE y <= dates[n]
      OBVIOUS
    <3>1. PICK i \in 1..n : dates[i] = y
      BY <1>2
    <3>2. i = n \/ i < n
      BY <1>1
    <3>3. dates[n] \in Int
      BY <1>3, <2>1
    <3>. QED
      BY <1>2, <2>1, <3>1, <3>2, <3>3 DEF Increasing
  <2>. QED
    BY <1>4, <1>5, <2>2, <2>3 DEF Walked, dates
<1>. QED
  BY <1>8, <1>9

LEMMA CurrentIsRecent ==
  ASSUME NEW active \in SUBSET Int, IsFiniteSet(active)
  PROVE  /\ CurrentStreak(active) \in Nat
         /\ CurrentStreak(active) > 0 <=> {Today, Today - 1} \intersect active # {}
         /\ CurrentStreak(active) > 0 =>
              \E d, e \in active : Streak(active, d, e) /\ e - d + 1 = CurrentStreak(active)
<1>. DEFINE anchor == IF Today \in active THEN Today ELSE Today - 1
            lengths == {n \in 0..Cardinality(active) : (anchor - n + 1)..anchor \subseteq active}
            m == CurrentStreak(active)
<1>1. anchor \in Int /\ (anchor \in active <=> {Today, Today - 1} \intersect active # {})
  BY ProfileAssumption
<1>2. Cardinality(active) \in Nat /\ (active # {} => Cardinality(active) >= 1)
  BY FS_CardinalityType, FS_EmptySet
<1>3. m = Max(lengths)
  BY DEF CurrentStreak
<1>. HIDE DEF anchor
<1>4. lengths \in SUBSET Int /\ IsFiniteSet(lengths)
  <2>. IsFiniteSet(0..Cardinality(active))
    BY <1>2, FS_Interval
  <2>. QED
    BY <1>2, FS_Subset
<1>5. 0 \in lengths
  BY <1>1, <1>2
<1>6. m \in lengths /\ \A y \in lengths : y <= m
  <2>. HIDE DEF lengths, m
  <2>. QED
    BY <1>3, <1>4, <1>5, MaxOfFinite
<1>7. m \in Nat /\ (anchor - m + 1)..anchor \subseteq active
  BY <1>2, <1>6
<1>. HIDE DEF m
<1>8. anchor \in active => m > 0
  <2>. SUFFICES ASSUME anchor \in active PROVE m > 0
    OBVIOUS
  <2>. (anchor - 1 + 1)..anchor = {anchor}
    BY <1>1
  <2>. 1 \in lengths
    BY <1>2
  <2>. QED
    BY <1>6, <1>7
<1>9. m > 0 => \E d, e \in active : Streak(active, d, e) /\ e - d + 1 = m /\ e = anchor
  <2>. SUFFICES ASSUME m > 0
                PROVE  \E d, e \in active : Streak(active, d, e) /\ e - d + 1 = m /\ e = anchor
    OBVIOUS
  <2>. DEFINE d == anchor - m + 1
  <2>1. d \in Int /\ d <= anchor /\ anchor - d + 1 = m /\ d \in d..anchor /\ anchor \in d..anchor
    BY <1>1, <1>7
  <2>2. d \in active /\ anchor \in active /\ Streak(active, d, anchor)
    BY <1>7, <2>1 DEF Streak
  <2>. HIDE DEF d
  <2>. QED
    BY <2>1, <2>2
<1>. QED
  BY <1>1, <1>7, <1>8, <1>9 DEF m

--------------------------------------------------------------------------------
(* The request for a page. *)

Arrived == Range(arrived)

\* Every listed account whose profile is wanted is waited for, has answered or has
\* failed, and the page knows whether one has failed.
FetchesAreCounted ==
  /\ profiles \in [Subscriptions -> Profiles] /\ pool \subseteq Subscriptions
  /\ listed \subseteq Subscriptions /\ arrived \in Seq(Subscriptions)
  /\ waiting \union Arrived \subseteq listed /\ waiting \intersect Arrived = {}
  /\ asked # Everyone => waiting \union Arrived \subseteq {asked}
  /\ phase = "reading" => Arrived = {} /\ ~partial
  /\ phase \in {"fetching", "done"} /\ asked = Everyone =>
       IF partial THEN waiting \union Arrived # listed ELSE waiting \union Arrived = listed

\* A page that is there was made from the profiles that came.
PageIsMade ==
  phase = "done" =>
    /\ waiting = {} /\ arrived # <<>>
    /\ IF asked = Everyone THEN answer = Page(Arrived, Identity)
                           ELSE answer = OwnProfile(Head(arrived))

PageInv == FetchesAreCounted /\ PageIsMade

LEMMA InitPageInv == PageInit => PageInv
<1>. SUFFICES ASSUME PageInit PROVE PageInv
  OBVIOUS
<1>1. Arrived = {}
  BY DEF PageInit, Arrived, Range
<1>. QED
  BY <1>1 DEF PageInit, PageInv, FetchesAreCounted, PageIsMade

LEMMA ArrivedGrows ==
  ASSUME NEW s \in Seq(Subscriptions), NEW a \in Subscriptions
  PROVE  Range(Append(s, a)) = Range(s) \union {a}
<1>. DEFINE n == Len(s)
            t == Append(s, a)
<1>1. n \in Nat /\ DOMAIN s = 1..n /\ DOMAIN t = 1..(n + 1)
  OBVIOUS
<1>2. t[n + 1] = a /\ \A i \in 1..n : t[i] = s[i]
  OBVIOUS
<1>3. 1..(n + 1) = (1..n) \union {n + 1}
  BY <1>1
<1>. HIDE DEF n, t
<1>4. Range(t) = {t[i] : i \in 1..(n + 1)} /\ Range(s) = {s[i] : i \in 1..n}
  BY <1>1 DEF Range
<1>. QED
  BY <1>2, <1>3, <1>4 DEF t

LEMMA StepPageInv == PageInv /\ [PageNext]_pageVars => PageInv'
<1>. SUFFICES ASSUME PageInv, [PageNext]_pageVars PROVE PageInv'
  OBVIOUS
<1>. USE DEF PageInv, FetchesAreCounted
<1>1. CASE Select
  <2>1. PICK readable \in SUBSET (eligible \intersect pool) :
          /\ listed' = readable
          /\ waiting' = IF asked = Everyone THEN readable ELSE readable \intersect {asked}
          /\ phase' = IF waiting' = {} THEN "failed" ELSE "fetching"
    BY <1>1 DEF Select
  <2>2. /\ phase = "reading"
        /\ UNCHANGED <<profiles, eligible, pool, asked, arrived, partial, answer>>
    BY <1>1 DEF Select
  <2>3. Arrived' = {} /\ Arrived = {}
    BY <2>2 DEF Arrived
  <2>4. phase' # "done" /\ phase' # "reading"
    BY <2>1
  <2>. QED
    BY <2>1, <2>2, <2>3, <2>4 DEF PageIsMade
<1>2. ASSUME NEW a \in Subscriptions, FetchFails(a) PROVE PageInv'
  <2>1. Arrived' = Arrived
    BY <1>2 DEF FetchFails, Arrived
  <2>. QED
    BY <1>2, <2>1 DEF FetchFails, PageIsMade
<1>3. ASSUME NEW a \in Subscriptions, ProfileArrives(a) PROVE PageInv'
  <2>1. arrived' \in Seq(Subscriptions) /\ Arrived' = Arrived \union {a}
    BY <1>3, ArrivedGrows DEF ProfileArrives, Arrived
  <2>2. waiting' \union Arrived' = waiting \union Arrived /\ waiting' \intersect Arrived' = {}
    BY <1>3, <2>1 DEF ProfileArrives
  <2>. QED
    BY <1>3, <2>1, <2>2 DEF ProfileArrives, PageIsMade
<1>4. CASE Combine
  <2>1. /\ phase = "fetching" /\ waiting = {} /\ phase' \in {"failed", "done"}
        /\ phase' = "done" => arrived # <<>>
        /\ UNCHANGED <<profiles, eligible, pool, asked, listed, waiting, arrived, partial>>
    BY <1>4 DEF Combine
  <2>2. Arrived' = Arrived /\ Identity' = Identity
    BY <2>1 DEF Arrived, Identity
  <2>3. FetchesAreCounted'
    BY <2>1, <2>2
  <2>4. phase' = "done" => IF asked = Everyone THEN answer' = Page(Arrived, Identity)
                                               ELSE answer' = OwnProfile(Head(arrived))
    BY <1>4 DEF Combine, Arrived
  <2>5. UNCHANGED <<Page(Arrived, Identity), OwnProfile(Head(arrived))>>
    BY <2>1, <2>2 DEF Page, OwnProfile, Daily, Dates
  <2>. QED
    BY <2>1, <2>3, <2>4, <2>5 DEF PageIsMade
<1>5. CASE Abandon
  <2>1. Arrived' = Arrived /\ phase' = "failed"
    BY <1>5 DEF Abandon, Arrived
  <2>. QED
    BY <1>5, <2>1 DEF Abandon, PageIsMade
<1>6. ASSUME (\E a \in Subscriptions : Leave(a)) \/ UNCHANGED pageVars PROVE PageInv'
  <2>1. /\ UNCHANGED <<profiles, asked, phase, listed, waiting, arrived, partial, answer>>
        /\ pool' \subseteq Subscriptions
    BY <1>6 DEF Leave, pageVars
  <2>2. UNCHANGED <<Arrived, Identity>>
    BY <2>1 DEF Arrived, Identity
  <2>3. UNCHANGED <<Page(Arrived, Identity), OwnProfile(Head(arrived))>>
    BY <2>1, <2>2 DEF Page, OwnProfile, Daily, Dates
  <2>. QED
    BY <2>1, <2>2, <2>3 DEF PageIsMade
<1>. QED
  BY <1>1, <1>2, <1>3, <1>4, <1>5, <1>6 DEF PageNext

LEMMA PageInvariance == PageSpec => []PageInv
BY InitPageInv, StepPageInv, PTL DEF PageSpec

\* What the lemmas above say of a page that is there.
LEMMA ArrivedIsFinite ==
  ASSUME arrived \in Seq(Subscriptions)
  PROVE  /\ Arrived \in SUBSET Subscriptions /\ IsFiniteSet(Arrived)
         /\ arrived # <<>> => Head(arrived) \in Arrived
<1>. DEFINE n == Len(arrived)
<1>1. n \in Nat /\ arrived \in [1..n -> Subscriptions] /\ DOMAIN arrived = 1..n
  OBVIOUS
<1>2. arrived \in Surjection(1..n, Arrived)
  BY <1>1 DEF Surjection, Arrived, Range
<1>3. IsFiniteSet(1..n)
  BY <1>1, FS_Interval
<1>4. arrived # <<>> => 1 \in 1..n /\ Head(arrived) = arrived[1]
  BY <1>1
<1>. QED
  BY <1>1, <1>2, <1>3, <1>4, FS_Surjection DEF Arrived, Range

LEMMA PooledPage ==
  ASSUME PageInv, Pooled
  PROVE  /\ Arrived \in SUBSET Subscriptions /\ IsFiniteSet(Arrived)
         /\ answer = Page(Arrived, Identity)
         /\ IsFiniteSet(Dates(Arrived)) /\ Dates(Arrived) \in SUBSET Int
         /\ DOMAIN Daily(Arrived) = Dates(Arrived)
<1>1. Arrived \in SUBSET Subscriptions /\ IsFiniteSet(Arrived)
  BY ArrivedIsFinite DEF PageInv, FetchesAreCounted
<1>2. answer = Page(Arrived, Identity)
  BY DEF PageInv, PageIsMade, Pooled
<1>3. profiles \in [Subscriptions -> Profiles]
  BY DEF PageInv, FetchesAreCounted
<1>. QED
  BY <1>1, <1>2, <1>3, DailyAddsUp

\* The page of the pool counts every account it does not say it lacks, and shows the
\* same activity by day, by week and in its sums.
THEOREM PageAddsUp == PageSpec => []ActivityAddsUp
<1>1. ASSUME PageInv, Pooled
      PROVE  /\ IF partial THEN Arrived \subseteq listed /\ Arrived # listed ELSE Arrived = listed
             /\ answer.lifetime = Total([a \in Arrived |-> profiles[a].lifetime], Arrived)
             /\ Days = DailySum(Arrived)
             /\ Days = Total(answer.weekly, DOMAIN answer.weekly)
             /\ DOMAIN answer.daily # {} => Days = answer.cumulative[Max(DOMAIN answer.daily)]
  <2>. DEFINE D == Dates(Arrived)
              daily == Daily(Arrived)
  <2>1. IF partial THEN Arrived \subseteq listed /\ Arrived # listed ELSE Arrived = listed
    BY <1>1 DEF PageInv, FetchesAreCounted, PageIsMade, Pooled
  <2>2. /\ answer.lifetime = Total([a \in Arrived |-> profiles[a].lifetime], Arrived)
        /\ answer.daily = daily /\ answer.weekly = Weekly(daily)
        /\ answer.cumulative = Cumulative(daily)
    BY <1>1, PooledPage, PageParts
  <2>3. profiles \in [Subscriptions -> Profiles]
    BY <1>1 DEF PageInv, FetchesAreCounted
  <2>4. /\ IsFiniteSet(D) /\ D \in SUBSET Int /\ DOMAIN daily = D /\ \A d \in D : daily[d] \in Int
        /\ Total(daily, D) = DailySum(Arrived)
    BY <1>1, <2>3, PooledPage, DailyAddsUp
  <2>. HIDE DEF D, daily
  <2>5. Days = DailySum(Arrived)
    BY <2>2, <2>4 DEF Days
  <2>6. Total(Weekly(daily), DOMAIN Weekly(daily)) = Total(daily, D)
    BY <2>4, WeeksAddUp
  <2>7. D # {} => Cumulative(daily)[Max(D)] = Total(daily, D)
    BY <2>4, LastIsWhole
  <2>. QED
    BY <2>1, <2>2, <2>4, <2>5, <2>6, <2>7
<1>2. PageInv => ActivityAddsUp
  BY <1>1 DEF ActivityAddsUp, Arrived, DailySum
<1>. QED
  BY <1>2, PageInvariance, PTL

\* A page has the identity of the controller unless the controller's own profile did
\* not come, and an account asked for is answered with its own.
THEOREM PageIdentity == PageSpec => []IdentityIsControllers
<1>1. ASSUME PageInv, phase = "done"
      PROVE  /\ asked # Everyone => answer.identity = asked
             /\ answer.identity # Primary => Primary \notin Range(arrived)
  <2>1. arrived # <<>> /\ Head(arrived) \in Arrived
    BY <1>1, ArrivedIsFinite DEF PageInv, FetchesAreCounted, PageIsMade
  <2>2. CASE asked = Everyone
    <3>1. answer = Page(Arrived, Identity)
      BY <1>1, <2>2 DEF PageInv, PageIsMade
    <3>2. answer.identity = Identity
      BY <3>1, PageParts
    <3>. QED
      BY <2>2, <3>2 DEF Identity
  <2>3. CASE asked # Everyone
    <3>1. answer = OwnProfile(Head(arrived)) /\ Arrived \subseteq {asked}
      BY <1>1, <2>3 DEF PageInv, PageIsMade, FetchesAreCounted
    <3>2. answer.identity = asked
      BY <2>1, <3>1 DEF OwnProfile
    <3>. QED
      BY <3>1, <3>2 DEF Arrived
  <2>. QED
    BY <2>2, <2>3
<1>2. PageInv => IdentityIsControllers
  BY <1>1 DEF IdentityIsControllers
<1>. QED
  BY <1>2, PageInvariance, PTL

\* The streaks of the page are those of the merged calendar, whatever the days.
THEOREM PageStreaks == PageSpec => []StreaksMatchCalendar
<1>1. ASSUME PageInv, Pooled
      PROVE  LET active == DOMAIN answer.daily
             IN /\ \A d, e \in active : Streak(active, d, e) => e - d + 1 <= answer.longest
                /\ active # {} =>
                     \E d, e \in active : Streak(active, d, e) /\ e - d + 1 = answer.longest
                /\ answer.current <= answer.longest
                /\ answer.current > 0 <=> {Today, Today - 1} \intersect active # {}
  <2>. DEFINE active == DOMAIN Daily(Arrived)
              longest == Runs(Sorted(active)).longest
              current == CurrentStreak(active)
  <2>1. answer.daily = Daily(Arrived) /\ answer.current = current /\ answer.longest = longest
    <3>. answer = Page(Arrived, Identity)
      BY <1>1, PooledPage
    <3>. HIDE DEF active
    <3>. QED
      BY PageParts DEF active
  <2>2. active \in SUBSET Int /\ IsFiniteSet(active)
    BY <1>1, PooledPage
  <2>. HIDE DEF active
  <2>3. /\ longest \in Nat
        /\ \A d, e \in active : Streak(active, d, e) => e - d + 1 <= longest
        /\ active # {} => \E d, e \in active : Streak(active, d, e) /\ e - d + 1 = longest
    BY <2>2, LongestIsLongest
  <2>4. /\ current \in Nat
        /\ current > 0 <=> {Today, Today - 1} \intersect active # {}
        /\ current > 0 => \E d, e \in active : Streak(active, d, e) /\ e - d + 1 = current
    BY <2>2, CurrentIsRecent
  <2>. HIDE DEF longest, current
  <2>5. current <= longest
    BY <2>3, <2>4
  <2>. QED
    BY <2>1, <2>3, <2>4, <2>5 DEF active
<1>2. PageInv => StreaksMatchCalendar
  BY <1>1 DEF StreaksMatchCalendar, Streak
<1>. QED
  BY <1>2, PageInvariance, PTL

================================================================================
