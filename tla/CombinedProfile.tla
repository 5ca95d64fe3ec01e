---------------------------- MODULE CombinedProfile ----------------------------
(***************************************************************************)
(* The profile page of the pool (combined_profile.go, combinedProfile in   *)
(* control/server.go): one subscription's profile, or all of them fetched  *)
(* at once and merged.                                                     *)
(*                                                                         *)
(* Answers come in any order or fail, the request has a deadline, and an   *)
(* account may be removed while its profile is asked for.  Days are        *)
(* integers, Mondays the multiples of seven.  What else is on the page,    *)
(* its means, maxima and most used things, is left out.                    *)
(***************************************************************************)
EXTENDS Integers, FiniteSetsExt, SequencesExt, Functions

CONSTANTS
  Subscriptions, Primary,  \* the subscriptions and the controller
  Profiles,                \* what the service may say of a subscription
  Today,                   \* a date
  Everyone,                \* the request for all, in the place of an account
  NoProfile

ASSUME ProfileAssumption ==
  /\ Primary \in Subscriptions /\ Everyone \notin Subscriptions
  /\ Today \in Int

\* The daily buckets of a profile are a list of dates with numbers of tokens.
ASSUME BucketsAssumption ==
  \A profile \in Profiles :
    /\ IsFiniteSet(DOMAIN profile.days) /\ DOMAIN profile.days \subseteq Int
    /\ \A d \in DOMAIN profile.days : profile.days[d] \in Int

VARIABLES
  profiles,  \* the profile of every subscription at the service
  eligible,  \* subscriptions that are enabled, connected and on ChatGPT
  pool,      \* the accounts of the Store
  asked,     \* the account asked for, or Everyone
  phase,     \* how far the request has come
  listed,    \* the accounts named in the answer
  waiting,   \* those whose profile has still to come
  arrived,   \* those whose profile has come, in its order
  partial,   \* whether a fetch has failed
  answer     \* the profile answered

pageVars == <<profiles, eligible, pool, asked, phase, listed, waiting, arrived, partial, answer>>

PageInit ==
  /\ profiles \in [Subscriptions -> Profiles]
  /\ eligible \in SUBSET Subscriptions
  /\ pool = Subscriptions
  /\ asked \in Subscriptions \union {Everyone}
  /\ phase = "reading"
  /\ listed = {} /\ waiting = {} /\ arrived = <<>>
  /\ partial = FALSE
  /\ answer = NoProfile

--------------------------------------------------------------------------------
(* Merging: aggregateProfileStatsAt, over a set of accounts, as sums do not    *)
(* depend on the order.                                                        *)

Total(values, S) == MapThenSumSet(LAMBDA a : values[a], S)

\* The calendar of the pool, and its sums by day, up to a day and by week.
Dates(S) == UNION {DOMAIN profiles[a].days : a \in S}
Daily(S) ==
  [d \in Dates(S) |-> LET users == {a \in S : d \in DOMAIN profiles[a].days}
                      IN Total([a \in users |-> profiles[a].days[d]], users)]
Cumulative(daily) ==
  [d \in DOMAIN daily |-> Total(daily, {e \in DOMAIN daily : e <= d})]
Weekly(daily) ==
  LET Monday(d) == d - (d % 7)
  IN [w \in {Monday(d) : d \in DOMAIN daily} |->
        Total(daily, {d \in DOMAIN daily : Monday(d) = w})]

Sorted(days) ==
  CHOOSE dates \in [1..Cardinality(days) -> days] :
    \A i, j \in DOMAIN dates : i < j => dates[i] < dates[j]

\* Slip: a day that does not follow its predecessor goes on with the run.
Runs_Slip(dates) ==
  FoldLeft(LAMBDA r, d : [previous |-> d, run |-> r.run + 1, longest |-> Max({r.longest, r.run + 1})],
           [previous |-> Today, run |-> 0, longest |-> 0], dates)

\* mergedStreaks, first half: through the sorted dates.
NoDay == [previous |-> Today, run |-> 0, longest |-> 0]
Day(r, d) ==
  LET run == IF r.run > 0 /\ d - r.previous = 1 THEN r.run + 1 ELSE 1
  IN [previous |-> d, run |-> run, longest |-> Max({r.longest, run})]

Runs(dates) == FoldLeft(Day, NoDay, dates)

\* Second half: back from today, or from yesterday if there is nothing today.
CurrentStreak(active) ==
  LET anchor == IF Today \in active THEN Today ELSE Today - 1
      lengths == {n \in 0..Cardinality(active) : (anchor - n + 1)..anchor \subseteq active}
  IN Max(lengths)

\* The page: identity and statistics.
Page(S, identity) ==
  LET daily == Daily(S)
  IN [identity |-> identity,
      lifetime |-> Total([a \in S |-> profiles[a].lifetime], S),
      daily |-> daily, cumulative |-> Cumulative(daily), weekly |-> Weekly(daily),
      current |-> CurrentStreak(DOMAIN daily), longest |-> Runs(Sorted(DOMAIN daily)).longest]

--------------------------------------------------------------------------------
(* The request. *)

\* The statuses of the accounts are in.  One that cannot be read, or that has left
\* the pool since, is not listed; the one asked for must be.
Select ==
  /\ phase = "reading"
  /\ \E readable \in SUBSET (eligible \intersect pool) :
       /\ listed' = readable
       /\ waiting' = IF asked = Everyone THEN readable ELSE readable \intersect {asked}
       /\ phase' = IF waiting' = {} THEN "failed" ELSE "fetching"
  /\ UNCHANGED <<profiles, eligible, pool, asked, arrived, partial, answer>>

\* Slip: an account whose profile cannot be had is left out without a word.
FetchFails_Slip(a) ==
  /\ phase = "fetching" /\ a \in waiting
  /\ waiting' = waiting \ {a}
  /\ UNCHANGED <<profiles, eligible, pool, asked, phase, listed, arrived, partial, answer>>

\* fetchWhamProfile: there are no credentials any more, or the service fails.
FetchFails(a) ==
  /\ phase = "fetching" /\ a \in waiting
  /\ waiting' = waiting \ {a} /\ partial' = TRUE
  /\ UNCHANGED <<profiles, eligible, pool, asked, phase, listed, arrived, answer>>

ProfileArrives(a) ==
  /\ phase = "fetching" /\ a \in waiting
  /\ waiting' = waiting \ {a} /\ arrived' = Append(arrived, a)
  /\ UNCHANGED <<profiles, eligible, pool, asked, phase, listed, partial, answer>>

\* Slip: the profiles stay in the order in which they came.
Identity_Slip == Head(arrived)

\* The controller comes first, the others in the order in which they came.
Identity == IF Primary \in Range(arrived) THEN Primary ELSE Head(arrived)

\* A profile asked for alone is answered as the service has it.
OwnProfile(a) == [identity |-> a, lifetime |-> profiles[a].lifetime]

\* All fetches are over: the profiles there are, if there are any.
Combine ==
  /\ phase = "fetching" /\ waiting = {}
  /\ \/ arrived = <<>> /\ phase' = "failed" /\ UNCHANGED answer
     \/ /\ arrived # <<>> /\ phase' = "done"
        /\ answer' = IF asked = Everyone THEN Page(Range(arrived), Identity)
                     ELSE OwnProfile(Head(arrived))
  /\ UNCHANGED <<profiles, eligible, pool, asked, listed, waiting, arrived, partial>>

\* The deadline of the request, or the page was left.
Abandon ==
  /\ phase \in {"reading", "fetching"} /\ phase' = "failed"
  /\ UNCHANGED <<profiles, eligible, pool, asked, listed, waiting, arrived, partial, answer>>

\* The control server removes an account meanwhile.
Leave(a) ==
  /\ a \in pool \ {Primary} /\ pool' = pool \ {a}
  /\ UNCHANGED <<profiles, eligible, asked, phase, listed, waiting, arrived, partial, answer>>

PageNext ==
  \/ Select \/ Combine \/ Abandon
  \/ \E a \in Subscriptions : FetchFails(a) \/ ProfileArrives(a) \/ Leave(a)

PageSpec == PageInit /\ [][PageNext]_pageVars

--------------------------------------------------------------------------------
Days == Total(answer.daily, DOMAIN answer.daily)

Pooled == phase = "done" /\ asked = Everyone

\* The page of the pool adds up: if it is not marked partial it counts every
\* account of its selector, and if it is, it lacks one; whatever failed, came late
\* or left the pool.  Its buckets by day, by week and up to the last day are the
\* same activity.
ActivityAddsUp ==
  Pooled =>
    LET counted == Range(arrived)
    IN /\ IF partial THEN counted \subseteq listed /\ counted # listed ELSE counted = listed
       /\ answer.lifetime = Total([a \in counted |-> profiles[a].lifetime], counted)
       /\ Days = Total([a \in counted |-> Total(profiles[a].days, DOMAIN profiles[a].days)], counted)
       /\ Days = Total(answer.weekly, DOMAIN answer.weekly)
       /\ DOMAIN answer.daily # {} => Days = answer.cumulative[Max(DOMAIN answer.daily)]

\* combined_profile.go: "Identity remains the controller account's identity",
\* whichever profile comes first, as long as the controller's own one comes; and
\* an account asked for is never answered with another's.
IdentityIsControllers ==
  phase = "done" =>
    /\ asked # Everyone => answer.identity = asked
    /\ answer.identity # Primary => Primary \notin Range(arrived)

\* The streaks are those of the calendar of all accounts together: the longest run
\* of days there is, and so no shorter than any account's own, and a current one that
\* is there exactly if today or yesterday is in the calendar.
StreaksMatchCalendar ==
  Pooled =>
    LET active == DOMAIN answer.daily
        Streak(first, last) == first <= last /\ first..last \subseteq active
    IN /\ \A d, e \in active : Streak(d, e) => e - d + 1 <= answer.longest
       /\ active # {} => \E d, e \in active : Streak(d, e) /\ e - d + 1 = answer.longest
       /\ answer.current <= answer.longest
       /\ answer.current > 0 <=> {Today, Today - 1} \intersect active # {}

================================================================================
