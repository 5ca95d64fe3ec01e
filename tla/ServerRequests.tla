----------------------------- MODULE ServerRequests ----------------------------
(***************************************************************************)
(* Requests from the app-servers to the desktop (approvals and the like)   *)
(* and the way back of the desktop's answers (internal/mux).  Every        *)
(* app-server numbers its requests by itself, so the ids of two of them    *)
(* collide; forwardServerRequest gives each a fresh id and remembers the   *)
(* original, handleServerRequestResponse puts it back.                     *)
(*                                                                         *)
(* An ask is one occurrence of a request.  Its number is history: it lets  *)
(* the properties say which question an answer was meant for, and no step  *)
(* of the program depends on it.                                           *)
(***************************************************************************)
EXTENDS Naturals, Sequences

CONSTANTS
  Accounts,   \* the subscriptions with a child
  Ids,        \* request ids an app-server uses
  Choices,    \* what the desktop may decide
  Ending,     \* accounts whose child may exit and leave the pool
  MaxAsks     \* bound on the asks of all app-servers together

ASSUME ServerConstantsAssumption ==
  /\ MaxAsks \in Nat
  /\ Ending \subseteq Accounts

VARIABLES
  sequence,     \* serverSequence
  serverRoutes, \* the table serverRoutes: key, account, original id
  inbound,      \* server requests in the inbound channel
  forwarding,   \* the request inboundLoop has routed and not yet written
  replying,     \* the answer the stdin loop is sending back
  children,     \* accounts with an entry in the children map
  running,      \* accounts whose app-server runs
  asks,         \* number of asks so far
  open,         \* per account and id: the ask awaiting an answer, or 0
  dialogs,      \* dialogs the desktop has been shown
  decided,      \* asks the desktop has decided
  received      \* answers the app-servers have received

vars == <<sequence, serverRoutes, inbound, forwarding, replying, children, running,
          asks, open, dialogs, decided, received>>

Keys == Accounts \X (1..MaxAsks)
Routes == [key : Keys, account : Accounts, original : Ids]
Dialogs == [key : Keys, ask : 1..MaxAsks]

Init ==
  /\ sequence = 0
  /\ serverRoutes = {}
  /\ inbound = <<>>
  /\ forwarding = {}
  /\ replying = {}
  /\ children = Accounts
  /\ running = Accounts
  /\ asks = 0
  /\ open = [a \in Accounts |-> [i \in Ids |-> 0]]
  /\ dialogs = {}
  /\ decided = {}
  /\ received = {}

\* An app-server asks, using an id it is not waiting on.
Ask(a, i) ==
  /\ a \in running /\ open[a][i] = 0 /\ asks < MaxAsks
  /\ asks' = asks + 1
  /\ open' = [open EXCEPT ![a][i] = asks + 1]
  /\ inbound' = Append(inbound, [from |-> a, id |-> i, ask |-> asks + 1])
  /\ UNCHANGED <<sequence, serverRoutes, forwarding, replying, children, running,
                 dialogs, decided, received>>

\* Slip: the sequence is not part of the fresh id.
FreshKey_Slip(a) == <<a, 1>>

\* codex-mux:<account>:<sequence>
FreshKey(a) == <<a, sequence + 1>>

\* forwardServerRequest, up to the unlock of serverMu: a fresh key, and the
\* route in the table.
RouteServerRequest ==
  /\ forwarding = {} /\ inbound # <<>>
  /\ LET request == Head(inbound)
         key == FreshKey(request.from)
     IN /\ serverRoutes' = {route \in serverRoutes : route.key # key} \union
             {[key |-> key, account |-> request.from, original |-> request.id]}
        /\ forwarding' = {[key |-> key, ask |-> request.ask]}
  /\ sequence' = sequence + 1
  /\ inbound' = Tail(inbound)
  /\ UNCHANGED <<replying, children, running, asks, open, dialogs, decided, received>>

\* ... and the write to the desktop.
WriteServerRequest ==
  /\ forwarding # {}
  /\ dialogs' = dialogs \union forwarding
  /\ forwarding' = {}
  /\ UNCHANGED <<sequence, serverRoutes, inbound, replying, children, running, asks,
                 open, decided, received>>

\* The message with its original id.
ReplyAlong(route, d, c) ==
  [account |-> route.account, original |-> route.original, choice |-> c, meant |-> d.ask]

\* Slip: the route is read and not deleted.
TakeRoute_Keeps(d, c) ==
  /\ replying' = {ReplyAlong(route, d, c) : route \in {x \in serverRoutes : x.key = d.key}}
  /\ UNCHANGED serverRoutes

\* Slip: the route is deleted before it is read.
TakeRoute_DeletesFirst(d, c) ==
  /\ serverRoutes' = {route \in serverRoutes : route.key # d.key}
  /\ replying' = {ReplyAlong(route, d, c) : route \in {x \in serverRoutes' : x.key = d.key}}

\* Under serverMu: look the route up and delete it.
TakeRoute(d, c) ==
  /\ replying' = {ReplyAlong(route, d, c) : route \in {x \in serverRoutes : x.key = d.key}}
  /\ serverRoutes' = {route \in serverRoutes : route.key # d.key}

\* The desktop answers a dialog it was shown, possibly one it has answered
\* before, and handleServerRequestResponse takes the route out of the table or
\* drops the answer when there is none.
HandleServerRequestResponse(d, c) ==
  /\ replying = {}
  /\ d \in dialogs
  /\ decided' = decided \union {d.ask}
  /\ TakeRoute(d, c)
  /\ UNCHANGED <<sequence, inbound, forwarding, children, running, asks, open, dialogs,
                 received>>

\* The answer goes to the child under its original id; it is lost when the
\* child has left the map or cannot be written to.
SendBack ==
  \E reply \in replying :
    /\ replying' = {}
    /\ IF reply.account \in children \intersect running
         THEN /\ received' = received \union
                   {[account |-> reply.account, choice |-> reply.choice,
                     meant |-> reply.meant,
                     ask |-> open[reply.account][reply.original]]}
              /\ open' = [open EXCEPT ![reply.account][reply.original] = 0]
         ELSE UNCHANGED <<received, open>>
    /\ UNCHANGED <<sequence, serverRoutes, inbound, forwarding, children, running,
                   asks, dialogs, decided>>

\* The app-server exits, on its own or stopped by RemoveAccount.
ChildExits(a) ==
  /\ a \in Ending \intersect running
  /\ running' = running \ {a}
  /\ UNCHANGED <<sequence, serverRoutes, inbound, forwarding, replying, children, asks,
                 open, dialogs, decided, received>>

\* RemoveAccount takes the child out of the map.
DropChild(a) ==
  /\ a \in Ending \intersect children
  /\ children' = children \ {a}
  /\ UNCHANGED <<sequence, serverRoutes, inbound, forwarding, replying, running, asks,
                 open, dialogs, decided, received>>

InboundStep == RouteServerRequest \/ WriteServerRequest

Next ==
  \/ \E a \in Accounts, i \in Ids : Ask(a, i)
  \/ InboundStep
  \/ \E d \in dialogs, c \in Choices : HandleServerRequestResponse(d, c)
  \/ SendBack
  \/ \E a \in Accounts : ChildExits(a) \/ DropChild(a)

Spec == Init /\ [][Next]_vars

\* inboundLoop and the stdin loop are scheduled; the desktop need not answer.
FairSpec == Spec /\ WF_vars(InboundStep) /\ WF_vars(SendBack)

--------------------------------------------------------------------------------
\* Every variable keeps its shape.
TypeOK ==
  /\ sequence \in 0..MaxAsks /\ asks \in 0..MaxAsks
  /\ serverRoutes \subseteq Routes
  /\ inbound \in Seq([from : Accounts, id : Ids, ask : 1..MaxAsks])
  /\ forwarding \subseteq Dialogs /\ dialogs \subseteq Dialogs
  /\ replying \subseteq [account : Accounts, original : Ids, choice : Choices,
                         meant : 1..MaxAsks]
  /\ children \subseteq Accounts /\ running \subseteq Accounts
  /\ open \in [Accounts -> [Ids -> 0..MaxAsks]]
  /\ decided \subseteq 1..MaxAsks
  /\ received \subseteq [account : Accounts, choice : Choices, meant : 1..MaxAsks,
                         ask : 0..MaxAsks]

\* The answer an app-server receives is the one the desktop gave to that very
\* ask: never that of another app-server using the same id, and never a repeated
\* or late answer to an earlier question with the same id.
AnswerMatchesQuestion == \A x \in received : x.ask = x.meant

\* An app-server gets one answer to an ask, even when the desktop answers a
\* dialog twice.
OneAnswerPerAsk ==
  \A x, y \in received : x.meant = y.meant => x = y

\* A dialog that the desktop can still decide has its route: the table is
\* written before the request is, so an immediate answer is not dropped.
UndecidedDialogHasRoute ==
  \A d \in dialogs \union forwarding :
    d.ask \notin decided => \E route \in serverRoutes : route.key = d.key

\* What holds between any two steps of the relay: the types, and that the table
\* is ahead of the dialogs (UndecidedDialogHasRoute).
Inv == TypeOK /\ UndecidedDialogHasRoute

\* A decision reaches the app-server that asked, unless it has exited or has
\* been dropped from the pool meanwhile.
DecisionIsDelivered ==
  \A n \in 1..MaxAsks :
    n \in decided ~>
      \/ \E x \in received : x.ask = n
      \/ \E a \in Ending, i \in Ids : open[a][i] = n /\ a \notin children \intersect running

================================================================================
