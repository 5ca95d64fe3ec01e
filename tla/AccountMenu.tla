------------------------------- MODULE AccountMenu -----------------------------
(***************************************************************************)
(* The open account menu of the desktop (account-menu.js) and the event    *)
(* stream that tells it to look again (SubscribeEvents, publish and        *)
(* publishAccountRefresh in mux.go, events in control/server.go).          *)
(*                                                                         *)
(* What GET /v1/accounts would answer is a version; every change of the    *)
(* accounts is a new one.  An event carries no state the menu uses: it     *)
(* only makes it ask.  The stream may drop an event, the menu may be       *)
(* between two streams, and answers may overtake each other.               *)
(***************************************************************************)
EXTENDS Naturals, Sequences

CONSTANTS
  StreamCap,   \* capacity of a subscriber's channel, 32 in the code
  MaxVersion,  \* bound on the changes of the accounts
  MaxFaults    \* bound on lost streams, failed requests and failed snapshots

ASSUME MenuAssumption ==
  StreamCap \in Nat \ {0} /\ MaxVersion \in Nat /\ MaxFaults \in Nat

VARIABLES
  version,   \* of the accounts
  notices,   \* events of each kind that are still to be published
  stream,    \* the channel of the menu's EventSource
  requests,  \* GETs under way, by the version they bring
  shown,     \* the version the menu shows
  login,     \* the dialog of addSubscription
  watching,  \* whether the run of the effect is the one for the dialog's account
  signIn,    \* the device login of the account it adds
  missed,    \* history: after the sign-in, an event that would close the dialog was lost
  faults     \* faults so far

menuVars == <<version, notices, stream, requests, shown, login, watching, signIn, missed, faults>>

\* An event of the account the dialog waits for, or any other.
Kinds == {"login", "other"}
Closed == [open |-> FALSE, events |-> <<>>]

MenuInit ==
  /\ version = 0 /\ shown = 0
  /\ notices = [k \in Kinds |-> 0]
  /\ stream = Closed
  /\ requests = {}
  /\ login = "closed" /\ watching = FALSE /\ signIn = "no"
  /\ missed = FALSE /\ faults = 0

--------------------------------------------------------------------------------
(* The accounts change, and someone is to be told. *)

AccountsChange ==
  /\ version < MaxVersion
  /\ version' = version + 1

Announce(kind) == notices' = [notices EXCEPT ![kind] = @ + 1]

\* handleInbound after turn/completed or account/updated, on a goroutine;
\* RemoveAccount and SetRateLimitPreview when they are done.
AccountChanges ==
  /\ AccountsChange
  /\ \E kind \in Kinds : (kind = "login" => signIn # "no") /\ Announce(kind)
  /\ UNCHANGED <<stream, requests, shown, login, watching, signIn, missed, faults>>

\* The device login ends: account/login/completed.
CompleteSignIn ==
  /\ signIn = "pending" /\ signIn' = "done"
  /\ AccountsChange /\ Announce("login")
  /\ UNCHANGED <<stream, requests, shown, login, watching, missed, faults>>

--------------------------------------------------------------------------------
(* The stream. *)

Retract(kind) == notices' = [notices EXCEPT ![kind] = @ - 1]
Lose(events) ==
  missed' = (missed \/ (signIn = "done" /\ \E i \in DOMAIN events : events[i] = "login"))

\* Slip: the channel is not bounded, so that a slow reader holds up no event.
Publish_Slip(kind) ==
  /\ notices[kind] > 0 /\ Retract(kind)
  /\ IF stream.open THEN stream' = [stream EXCEPT !.events = Append(@, kind)] /\ UNCHANGED missed
     ELSE Lose(<<kind>>) /\ UNCHANGED stream
  /\ UNCHANGED <<version, requests, shown, login, watching, signIn, faults>>

\* publish: an event goes to the channel if there is one with room.
Publish(kind) ==
  /\ notices[kind] > 0 /\ Retract(kind)
  /\ IF stream.open /\ Len(stream.events) < StreamCap
     THEN stream' = [stream EXCEPT !.events = Append(@, kind)] /\ UNCHANGED missed
     ELSE Lose(<<kind>>) /\ UNCHANGED stream
  /\ UNCHANGED <<version, requests, shown, login, watching, signIn, faults>>

Fault == faults < MaxFaults /\ faults' = faults + 1

\* publishAccountRefresh cannot read the account, SetRateLimitPreview not the
\* limits: the change is there, and nothing is published.
AnnouncementFails(kind) ==
  /\ Fault
  /\ notices[kind] > 0 /\ Retract(kind) /\ Lose(<<kind>>)
  /\ UNCHANGED <<version, stream, requests, shown, login, watching, signIn>>

\* The EventSource connects, or connects again: SubscribeEvents.
Connect ==
  /\ ~stream.open /\ stream' = [stream EXCEPT !.open = TRUE]
  /\ UNCHANGED <<version, notices, requests, shown, login, watching, signIn, missed, faults>>

\* The connection is lost and with it what was on its way.
Disconnect ==
  /\ Fault /\ stream.open
  /\ stream' = Closed /\ Lose(stream.events)
  /\ UNCHANGED <<version, notices, requests, shown, login, watching, signIn>>

--------------------------------------------------------------------------------
(* The menu. *)

\* refresh: GET /v1/accounts.  Of two requests that bring the same, one is enough
\* for what the menu shows in the end.
Refresh == requests' = requests \union {version}

\* The dialog was opened or closed, and the menu is rendered again: the effect runs
\* for the other account, which closes the EventSource, opens a new one, and asks for
\* the accounts.
Resubscribe ==
  /\ watching # (login = "open") /\ watching' = (login = "open")
  /\ stream' = Closed /\ Lose(stream.events) /\ Refresh
  /\ UNCHANGED <<version, notices, shown, login, signIn, faults>>

\* Slip: an event is compared with the account of an earlier run of the effect, so
\* that none closes the dialog.
HandleEvent_Slip(kind) == Refresh /\ UNCHANGED <<login, missed>>

\* onmessage: an event of the account that this run of the effect awaits closes the
\* dialog; a dialog that was opened since is not seen.  Every event asks for the
\* accounts.
HandleEvent(kind) ==
  /\ Refresh
  /\ IF kind = "login" /\ watching THEN login' = "closed" /\ UNCHANGED missed
     ELSE Lose(<<kind>>) /\ UNCHANGED login

Deliver ==
  /\ stream.open /\ stream.events # <<>>
  /\ stream' = [stream EXCEPT !.events = Tail(@)]
  /\ HandleEvent(Head(stream.events))
  /\ UNCHANGED <<version, notices, shown, watching, signIn, faults>>

\* Slip: the timers run only while there is no stream.
RefreshOnTimer_Slip ==
  /\ ~stream.open /\ version \notin requests /\ Refresh
  /\ UNCHANGED <<version, notices, stream, shown, login, watching, signIn, missed, faults>>

\* After two, six and every thirty seconds, and after the menu's own operations.
RefreshOnTimer ==
  /\ version \notin requests /\ Refresh
  /\ UNCHANGED <<version, notices, stream, shown, login, watching, signIn, missed, faults>>

\* refresh: whatever answer comes last is shown.
ShowAccounts(v) ==
  /\ v \in requests /\ requests' = requests \ {v}
  /\ shown' = v
  /\ UNCHANGED <<version, notices, stream, login, watching, signIn, missed, faults>>

\* The request fails: an error is shown above the accounts there were.
RefreshFails(v) ==
  /\ Fault
  /\ v \in requests /\ requests' = requests \ {v}
  /\ UNCHANGED <<version, notices, stream, shown, login, watching, signIn, missed>>

\* addSubscription: POST /v1/accounts announces nothing.
AddSubscription ==
  /\ login = "closed" /\ signIn = "no" /\ AccountsChange
  /\ login' = "adding"
  /\ UNCHANGED <<notices, stream, requests, shown, watching, signIn, missed, faults>>

\* POST /v1/accounts/<id>/login answers with the device code, or fails.
LoginStarts ==
  /\ login = "adding"
  /\ login' = "open" /\ signIn' = "pending"
  /\ Refresh
  /\ UNCHANGED <<version, notices, stream, shown, watching, missed, faults>>

LoginFails ==
  /\ Fault /\ login = "adding"
  /\ login' = "closed"
  /\ UNCHANGED <<version, notices, stream, requests, shown, watching, signIn, missed>>

\* Escape closes the dialog; the login goes on.
Escape ==
  /\ login = "open" /\ login' = "closed"
  /\ UNCHANGED <<version, notices, stream, requests, shown, watching, signIn, missed, faults>>

--------------------------------------------------------------------------------
MenuStep ==
  \/ AccountChanges \/ CompleteSignIn
  \/ \E k \in Kinds : Publish(k) \/ AnnouncementFails(k)
  \/ Connect \/ Disconnect \/ Deliver \/ Resubscribe
  \/ RefreshOnTimer \/ \E v \in requests : ShowAccounts(v) \/ RefreshFails(v)
  \/ AddSubscription \/ LoginStarts \/ LoginFails \/ Escape

\* Every variable keeps its shape, and the channel its capacity.
MenuTypeOK ==
  /\ {version, shown} \subseteq 0..MaxVersion
  /\ notices \in [Kinds -> Nat]
  /\ stream \in [open : BOOLEAN, events : Seq(Kinds)]
  /\ Len(stream.events) <= StreamCap /\ (stream.events # <<>> => stream.open)
  /\ requests \subseteq 0..MaxVersion
  /\ login \in {"closed", "adding", "open"} /\ signIn \in {"no", "pending", "done"}
  /\ watching \in BOOLEAN /\ missed \in BOOLEAN /\ faults \in 0..MaxFaults

\* Although events are dropped without a trace, the stream is closed and opened
\* again, and an older answer may arrive last, the menu comes to show the accounts
\* as they are: the timer asks until it does.
MenuConverges == <>[](shown = version)

\* The dialog of a device login that was completed closes, unless an event that
\* says so was lost, or came before the effect ran for it: nothing else closes it, not
\* even the timer's refresh.
DialogCloses == login = "open" /\ signIn = "done" ~> login # "open" \/ missed

================================================================================
