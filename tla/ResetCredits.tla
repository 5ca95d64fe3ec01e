------------------------------ MODULE ResetCredits -----------------------------
(***************************************************************************)
(* The banked usage resets of the subscriptions (rate_limit_resets.go):    *)
(* the cache the routing reads them from, the redemption that spends one,  *)
(* and the preview that stands in for both in UI tests.                    *)
(*                                                                         *)
(* A count is abstracted to the redemptions it accounts for: a count that  *)
(* does not account for a redemption is one too high.  Nothing is held     *)
(* while the service is asked, so fetches and redemptions overlap.         *)
(***************************************************************************)
EXTENDS Integers, FiniteSets

CONSTANTS
  Accounts,       \* subscriptions, enabled ones: resetAccount refuses the rest
  Fetches,        \* requests for a count that may be under way
  Redemptions,    \* redemptions, each by its redeemRequestId
  PreviewCounts,  \* what a preview may be set to
  NoCount,        \* a count that is not known
  NoEntry,        \* no cache entry, no preview
  NoAccount

ASSUME ResetsAssumption ==
  /\ NoAccount \notin Accounts
  /\ PreviewCounts \subseteq Nat
  /\ IsFiniteSet(Redemptions)

VARIABLES
  spent,      \* redemptions the service has carried out
  cache,      \* resetCreditsCache: per account, the count last stored
  fetches,    \* GET requests under way
  redeeming,  \* POST requests to /consume, and redemptions of a preview
  previews    \* resetPreviews

resetVars == <<spent, cache, fetches, redeeming, previews>>

\* A count: the redemptions it accounts for, or nothing known.  "overlapped" is
\* history: the cache of the account was invalidated after the fetch began.
Count == (SUBSET Redemptions) \union {NoCount}
Entry == [count : Count, overlapped : BOOLEAN]
Fetch == [stage : {"idle", "asking", "answered"}, routing : BOOLEAN, account : Accounts \union {NoAccount},
          count : Count, overlapped : BOOLEAN]
Redemption == [stage : {"no", "sent", "answered", "failed", "done", "previewing", "previewed"},
               account : Accounts \union {NoAccount}, left : Nat]
\* The preview of an account.  "total" and "raced" are history: what there was
\* to redeem, and whether two critical sections for it have overlapped.
Preview == [left : Nat, total : Nat, raced : BOOLEAN]

ASSUME NoEntryAssumption == NoEntry \notin Entry /\ NoEntry \notin Preview

Idle == [stage |-> "idle", routing |-> FALSE, account |-> NoAccount,
         count |-> NoCount, overlapped |-> FALSE]

ResetsInit ==
  /\ spent = {}
  /\ cache = [a \in Accounts |-> NoEntry]
  /\ fetches = [f \in Fetches |-> Idle]
  /\ redeeming = [r \in Redemptions |-> [stage |-> "no", account |-> NoAccount, left |-> 0]]
  /\ previews = [a \in Accounts |-> NoEntry]

--------------------------------------------------------------------------------
(* Fetching a count. *)

\* RateLimitResetCredits, for the menu, always asks the service;
\* routingResetCredits only without an entry that is still valid.  A preview
\* answers both at once.
BeginFetch(f, a, routing) ==
  /\ fetches[f].stage = "idle" /\ previews[a] = NoEntry
  /\ routing => cache[a] = NoEntry
  /\ fetches' = [fetches EXCEPT ![f] =
       [Idle EXCEPT !.stage = "asking", !.routing = routing, !.account = a]]
  /\ UNCHANGED <<spent, cache, redeeming, previews>>

\* The service answers with what is left, or the request fails, times out or
\* brings something that does not decode.
FetchEnds(f) ==
  /\ fetches[f].stage = "asking"
  /\ \E count \in {spent, NoCount} :
       fetches' = [fetches EXCEPT ![f].stage = "answered", ![f].count = count]
  /\ UNCHANGED <<spent, cache, redeeming, previews>>

\* A lookup stores what it has, an unknown count too; a read only a count.
StoreFetch(f) ==
  LET x == fetches[f] IN
  /\ x.stage = "answered"
  /\ cache' = IF x.routing \/ x.count # NoCount
              THEN [cache EXCEPT ![x.account] = [count |-> x.count, overlapped |-> x.overlapped]]
              ELSE cache
  /\ fetches' = [fetches EXCEPT ![f] = Idle]
  /\ UNCHANGED <<spent, redeeming, previews>>

\* The five minutes of a count, or the one minute of a failure, are over.
Expire(a) ==
  /\ cache[a] # NoEntry
  /\ cache' = [cache EXCEPT ![a] = NoEntry]
  /\ UNCHANGED <<spent, fetches, redeeming, previews>>

\* invalidateResetCreditCache, with the history of the fetches it overtakes.
Overtaken(a) ==
  [f \in Fetches |-> IF fetches[f].stage # "idle" /\ fetches[f].account = a
                     THEN [fetches[f] EXCEPT !.overlapped = TRUE] ELSE fetches[f]]

Invalidate(a) ==
  /\ cache' = [cache EXCEPT ![a] = NoEntry]
  /\ fetches' = Overtaken(a)

--------------------------------------------------------------------------------
(* Redeeming a reset: ConsumeRateLimitResetCredit. *)

\* The desktop redeems, or repeats a redemption it was told has failed.
SendRedemption(r, a) ==
  /\ \/ redeeming[r].stage = "no"
     \/ redeeming[r].stage = "failed" /\ redeeming[r].account = a
  /\ previews[a] = NoEntry
  /\ redeeming' = [redeeming EXCEPT ![r].stage = "sent", ![r].account = a]
  /\ UNCHANGED <<spent, cache, fetches, previews>>

\* The service carries out a redemption once, however often it is asked; it may
\* still do so when the caller has given up.
ServiceRedeems(r) ==
  /\ \/ redeeming[r].stage = "sent"
     \/ redeeming[r].stage = "failed" /\ r \notin spent
  /\ spent' = spent \union {r}
  /\ redeeming' = IF redeeming[r].stage = "sent"
                  THEN [redeeming EXCEPT ![r].stage = "answered"] ELSE redeeming
  /\ UNCHANGED <<cache, fetches, previews>>

\* The request or its answer is lost, late or refused: the cache stays.
RedemptionFails(r) ==
  /\ redeeming[r].stage \in {"sent", "answered"}
  /\ redeeming' = [redeeming EXCEPT ![r].stage = "failed"]
  /\ UNCHANGED <<spent, cache, fetches, previews>>

\* Slip: the cached count is left to run out.
AcknowledgeRedemption_Slip(r) ==
  /\ redeeming[r].stage = "answered"
  /\ redeeming' = [redeeming EXCEPT ![r].stage = "done"]
  /\ UNCHANGED <<spent, cache, fetches, previews>>

\* The answer is in: the cached count goes, and the desktop is told.
AcknowledgeRedemption(r) ==
  /\ redeeming[r].stage = "answered"
  /\ redeeming' = [redeeming EXCEPT ![r].stage = "done"]
  /\ Invalidate(redeeming[r].account)
  /\ UNCHANGED <<spent, previews>>

--------------------------------------------------------------------------------
(* The preview. *)

Redeemers(a, stage) ==
  {r \in Redemptions : redeeming[r].account = a /\ redeeming[r].stage = stage}

\* SetResetCreditsPreview: from here on the service is not asked.
SetResetCreditsPreview(a, n) ==
  /\ previews' = [previews EXCEPT ![a] =
       [left |-> n, total |-> n + Cardinality(Redeemers(a, "previewed")),
        raced |-> Redeemers(a, "previewing") # {}]]
  /\ Invalidate(a)
  /\ UNCHANGED <<spent, redeeming>>

\* The count of the preview is read under one lock, ...
BeginPreviewRedemption(r, a) ==
  /\ redeeming[r].stage = "no" /\ previews[a] # NoEntry /\ previews[a].left > 0
  /\ redeeming' = [redeeming EXCEPT ![r] =
       [stage |-> "previewing", account |-> a, left |-> previews[a].left]]
  /\ previews' = [previews EXCEPT ![a].raced = @ \/ Redeemers(a, "previewing") # {}]
  /\ UNCHANGED <<spent, cache, fetches>>

\* Slip: the decremented copy is not written back.
FinishPreviewRedemption_Slip(r) ==
  /\ redeeming[r].stage = "previewing"
  /\ redeeming' = [redeeming EXCEPT ![r].stage = "previewed"]
  /\ UNCHANGED <<spent, cache, fetches, previews>>

\* ... and written back, one less, under another.
FinishPreviewRedemption(r) ==
  /\ redeeming[r].stage = "previewing"
  /\ previews' = [previews EXCEPT ![redeeming[r].account].left = redeeming[r].left - 1]
  /\ redeeming' = [redeeming EXCEPT ![r].stage = "previewed"]
  /\ UNCHANGED <<spent, cache, fetches>>

--------------------------------------------------------------------------------
\* Every variable keeps its shape.
ResetsTypeOK ==
  /\ spent \subseteq Redemptions
  /\ cache \in [Accounts -> Entry \union {NoEntry}]
  /\ fetches \in [Fetches -> Fetch]
  /\ redeeming \in [Redemptions -> Redemption]
  /\ previews \in [Accounts -> Preview \union {NoEntry}]

\* A count that accounts for every redemption of the account the desktop knows
\* to be done.
Accounted(count, a) ==
  count # NoCount =>
    \A r \in spent : redeeming[r].account = a /\ redeeming[r].stage = "done" => r \in count

\* The routing weighs banked resets it believes there are.  A count in the cache
\* that misses a redemption already acknowledged can only come from a fetch that
\* was under way when the cache was invalidated: the store after the answer does
\* not look whether the cache was invalidated meanwhile.
StaleOnlyFromOverlap ==
  \A a \in Accounts :
    cache[a] # NoEntry /\ ~cache[a].overlapped => Accounted(cache[a].count, a)

\* A preview counts down by one per redemption, none lost, unless two redemptions,
\* or a redemption and a change of the preview, overlapped between the two locks.
PreviewLostOnlyInRace ==
  \A a \in Accounts :
    previews[a] # NoEntry /\ ~previews[a].raced =>
      previews[a].left + Cardinality(Redeemers(a, "previewed")) = previews[a].total

================================================================================
