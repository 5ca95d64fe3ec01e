----------------------------- MODULE MCQuotaRouting ----------------------------
(* Three subscriptions with quotas that are close, far apart, used up, unknown *)
(* or no quotas at all, for TLC.                                               *)
EXTENDS QuotaRouting, TLC

CONSTANTS p, a, b

Ages == [x \in Accounts |-> CASE x = p -> 1 [] x = a -> 2 [] OTHER -> 3]

WeekWindow(used, reset) == [used |-> used, mins |-> 10080, reset |-> reset]
FiveHours(used) == [used |-> used, mins |-> 300, reset |-> 120]

Status(short, weekly) ==
  [enabled |-> TRUE, chatgpt |-> TRUE, threads |-> 0, primary |-> short, secondary |-> weekly]

\* Three that are pairwise close but for the outer two, the last preferred: by their
\* shares of the short window, which are close in the same way, and their scores.
Chain == {Status(FiveHours(10), WeekWindow(40, 10080)),
          Status(FiveHours(5), WeekWindow(40, 10120)),
          Status(FiveHours(0), WeekWindow(40, 10160))}

\* About to reset, used up with a single window, past reset, no ChatGPT login.  The
\* statuses without limits and those of a preview follow from these.
Others == {Status(FiveHours(90), WeekWindow(90, 60)),
           Status(WeekWindow(100, 60), NoWindow),
           Status(FiveHours(5), WeekWindow(40, -5)),
           [Status(NoWindow, NoWindow) EXCEPT !.chatgpt = FALSE]}

SomeProfiles == Chain \union Others
================================================================================
