------------------------------ MODULE ControlPlane -----------------------------
(***************************************************************************)
(* The control server and what stands behind it: the banked resets and the *)
(* account menu, composed.  A redemption changes the limits the menu       *)
(* shows, and is announced to it.                                          *)
(***************************************************************************)
EXTENDS ResetCredits, AccountMenu

CONSTANTS
  MaxNotices,  \* bound on the announcements that a change of a preview joins
  MaxActivity  \* bound on the changes of the accounts and the redemptions together

ASSUME ControlAssumption == MaxNotices \in Nat /\ MaxActivity \in Nat

vars == <<spent, cache, fetches, redeeming, previews, version, notices, stream,
          requests, shown, login, watching, signIn, missed, faults>>

Init == ResetsInit /\ MenuInit

\* What the menu does not see.
ResetsAlone ==
  \/ \E f \in Fetches : FetchEnds(f) \/ StoreFetch(f)
  \/ \E f \in Fetches, a \in Accounts, routing \in BOOLEAN : BeginFetch(f, a, routing)
  \/ \E a \in Accounts : Expire(a)
  \/ \E r \in Redemptions, a \in Accounts : SendRedemption(r, a) \/ BeginPreviewRedemption(r, a)
  \/ \E r \in Redemptions : RedemptionFails(r)

\* The service resets the limits of the account.
Redeems(r) ==
  /\ ServiceRedeems(r)
  /\ IF r \in spent THEN UNCHANGED version ELSE AccountsChange
  /\ UNCHANGED <<notices, stream, requests, shown, login, watching, signIn, missed, faults>>

\* publishAccountRefresh, inside the handler of the redemption.
Acknowledges(r) ==
  /\ AcknowledgeRedemption(r) /\ Announce("other")
  /\ UNCHANGED <<version, stream, requests, shown, login, watching, signIn, missed, faults>>

\* A preview is redeemed or set, and published at once.
PreviewChanges ==
  /\ \/ \E r \in Redemptions : FinishPreviewRedemption(r)
     \/ \E a \in Accounts, n \in PreviewCounts : SetResetCreditsPreview(a, n)
  /\ notices.other < MaxNotices /\ Announce("other")
  /\ UNCHANGED <<version, stream, requests, shown, login, watching, signIn, missed, faults>>

Started == {r \in Redemptions : redeeming[r].stage # "no"}

Next ==
  /\ \/ ResetsAlone /\ UNCHANGED menuVars
     \/ MenuStep /\ UNCHANGED resetVars
     \/ \E r \in Redemptions : Redeems(r) \/ Acknowledges(r)
     \/ PreviewChanges
  /\ version' + Cardinality(Started') <= MaxActivity

\* Goroutines, the stream, the renderer, the timers and the local server run on; the
\* rest is up to people and to the service.
Fairness ==
  /\ WF_vars(UNCHANGED resetVars /\ Connect)
  /\ WF_vars(UNCHANGED resetVars /\ Deliver)
  /\ WF_vars(UNCHANGED resetVars /\ Resubscribe)
  /\ \A k \in Kinds : WF_vars(UNCHANGED resetVars /\ Publish(k))
  /\ WF_vars(UNCHANGED resetVars /\ RefreshOnTimer)
  /\ \A v \in 0..MaxVersion : WF_vars(UNCHANGED resetVars /\ ShowAccounts(v))

Spec == Init /\ [][Next]_vars /\ Fairness

--------------------------------------------------------------------------------
\* Every variable of both components keeps its shape.
TypeOK == ResetsTypeOK /\ MenuTypeOK

================================================================================
