-------------------------- MODULE ServerRequests_proofs ------------------------
(***************************************************************************)
(* Proofs about the requests of the app-servers, for any number of         *)
(* subscriptions, ids and asks.                                            *)
(*                                                                         *)
(* The argument.  There is one channel and one sequence, so that the       *)
(* number in a fresh key is that of the ask it was made for (Numbered).    *)
(* Until its answer is received an ask is in the channel, in the table or  *)
(* being answered, in one of them only, and the app-server still waits for *)
(* it under the id that is kept there (Awaited, Settled).                  *)
(***************************************************************************)
EXTENDS ServerRequests, SequenceTheorems, TLAPS

Request == [from : Accounts, id : Ids, ask : 1..MaxAsks]

\* What the desktop has been shown or is about to be.
Shown == dialogs \union forwarding

\* The channel holds the asks that have no key yet, in their order, and a dialog
\* has the key made for its ask.
Numbered ==
  /\ asks = sequence + Len(inbound)
  /\ \A n \in 1..Len(inbound) : inbound[n].ask = sequence + n
  /\ \A d \in Shown : d.key[2] = d.ask /\ d.ask <= sequence
  /\ \A d, e \in Shown : d.ask = e.ask => d = e
  /\ \A route \in serverRoutes : route.key[2] <= sequence
  /\ \A route, other \in serverRoutes : route.key[2] = other.key[2] => route = other

\* The app-server waits for what is in the channel, in the table or on the way
\* back to it, under the id it used.
Awaited ==
  /\ \A n \in 1..Len(inbound) : open[inbound[n].from][inbound[n].id] = inbound[n].ask
  /\ \A route \in serverRoutes : open[route.account][route.original] = route.key[2]
  /\ \A reply \in replying :
       /\ open[reply.account][reply.original] = reply.meant
       /\ reply.meant <= sequence

\* What is being answered, or has been, has no route; and no second answer to it
\* is on its way.
Settled ==
  /\ \A reply, other \in replying : reply = other
  /\ \A route \in serverRoutes, reply \in replying : route.key[2] # reply.meant
  /\ \A route \in serverRoutes, x \in received : route.key[2] # x.meant
  /\ \A reply \in replying, x \in received : reply.meant # x.meant
  /\ \A x \in received : x.meant <= sequence

IInv ==
  /\ Inv
  /\ Numbered /\ Awaited /\ Settled
  /\ AnswerMatchesQuestion /\ OneAnswerPerAsk

--------------------------------------------------------------------------------
LEMMA InitIInv == Init => IInv
<1>. SUFFICES ASSUME Init PROVE IInv
  OBVIOUS
<1>. USE ServerConstantsAssumption DEF Init
<1>1. inbound \in Seq(Request) /\ Len(inbound) = 0
  BY EmptySeq
<1>2. TypeOK
  BY <1>1 DEF TypeOK, Request
<1>. QED
  BY <1>1, <1>2
     DEF IInv, Inv, UndecidedDialogHasRoute, Numbered, Awaited, Settled, Shown,
         AnswerMatchesQuestion, OneAnswerPerAsk

\* The bounds and types that the steps need.
Bounded ==
  /\ sequence \in Nat /\ asks \in Nat /\ MaxAsks \in Nat
  /\ inbound \in Seq(Request) /\ Len(inbound) \in Nat
  /\ \A n \in 1..Len(inbound) : inbound[n] \in Request
  /\ \A d \in Shown : d \in Dialogs
  /\ \A route \in serverRoutes : route \in Routes

LEMMA Bounds == IInv => Bounded
<1>. SUFFICES ASSUME IInv PROVE Bounded
  OBVIOUS
<1>1. sequence \in Nat /\ asks \in Nat /\ MaxAsks \in Nat
  BY ServerConstantsAssumption DEF IInv, Inv, TypeOK
<1>2. inbound \in Seq(Request)
  BY DEF IInv, Inv, TypeOK, Request
<1>3. Len(inbound) \in Nat /\ \A n \in 1..Len(inbound) : inbound[n] \in Request
  BY <1>2, LenProperties, ElementOfSeq
<1>4. /\ \A d \in Shown : d \in Dialogs
      /\ \A route \in serverRoutes : route \in Routes
  BY DEF IInv, Inv, TypeOK, Shown
<1>. QED
  BY <1>1, <1>2, <1>3, <1>4 DEF Bounded

LEMMA StepAsk ==
  ASSUME IInv, NEW a \in Accounts, NEW i \in Ids, Ask(a, i)
  PROVE  IInv'
<1>. DEFINE request == [from |-> a, id |-> i, ask |-> asks + 1]
<1>. Bounded
  BY Bounds
<1>. USE DEF Bounded, Ask
<1>1. asks + 1 \in 1..MaxAsks /\ request \in Request
  BY DEF IInv, Inv, TypeOK, Request
<1>2. /\ inbound' \in Seq(Request) /\ Len(inbound') = Len(inbound) + 1
      /\ \A n \in 1..Len(inbound') :
           inbound'[n] = IF n <= Len(inbound) THEN inbound[n] ELSE request
  BY <1>1, AppendProperties
<1>3. TypeOK'
  BY <1>1, <1>2 DEF IInv, Inv, TypeOK, Request
<1>4. \A b \in Accounts, j \in Ids : open[b][j] # 0 => open'[b][j] = open[b][j]
  BY DEF IInv, Inv, TypeOK
<1>5. open'[a][i] = asks + 1
  BY DEF IInv, Inv, TypeOK
<1>6. UndecidedDialogHasRoute'
  BY DEF IInv, Inv, UndecidedDialogHasRoute
<1>7. Numbered'
  <2>1. asks' = sequence' + Len(inbound')
    BY <1>2 DEF IInv, Numbered
  <2>2. \A n \in 1..Len(inbound') : inbound'[n].ask = sequence' + n
    <3>. SUFFICES ASSUME NEW n \in 1..Len(inbound') PROVE inbound'[n].ask = sequence' + n
      OBVIOUS
    <3>1. CASE n <= Len(inbound)
      BY <1>2, <3>1 DEF IInv, Numbered
    <3>2. CASE ~(n <= Len(inbound))
      <4>. n = Len(inbound) + 1 /\ inbound'[n] = request
        BY <1>2, <3>2
      <4>. QED
        BY DEF IInv, Numbered
    <3>. QED
      BY <3>1, <3>2
  <2>. QED
    BY <2>1, <2>2 DEF IInv, Numbered, Shown
<1>8. Awaited'
  <2>1. \A n \in 1..Len(inbound') : open'[inbound'[n].from][inbound'[n].id] = inbound'[n].ask
    <3>. SUFFICES ASSUME NEW n \in 1..Len(inbound')
                  PROVE  open'[inbound'[n].from][inbound'[n].id] = inbound'[n].ask
      OBVIOUS
    <3>1. CASE n \in 1..Len(inbound)
      <4>. inbound'[n] = inbound[n] /\ inbound[n] \in Request
        BY <1>2, <3>1
      <4>. QED
        BY <1>4, <3>1 DEF IInv, Awaited, Request
    <3>2. CASE n \notin 1..Len(inbound)
      BY <1>2, <1>5, <3>2
    <3>. QED
      BY <3>1, <3>2
  <2>2. \A route \in serverRoutes : open'[route.account][route.original] = route.key[2]
    BY <1>4 DEF IInv, Awaited, Routes, Keys
  <2>3. \A reply \in replying : open'[reply.account][reply.original] = reply.meant
    BY <1>4 DEF IInv, Inv, TypeOK, Awaited
  <2>. QED
    BY <2>1, <2>2, <2>3 DEF IInv, Awaited
<1>9. Settled' /\ AnswerMatchesQuestion' /\ OneAnswerPerAsk'
  BY DEF IInv, Settled, AnswerMatchesQuestion, OneAnswerPerAsk
<1>. QED
  BY <1>3, <1>6, <1>7, <1>8, <1>9 DEF IInv, Inv

LEMMA StepRoute == ASSUME IInv, RouteServerRequest PROVE IInv'
<1>. DEFINE request == inbound[1]
            key == <<request.from, sequence + 1>>
            added == [key |-> key, account |-> request.from, original |-> request.id]
<1>. Bounded
  BY Bounds
<1>. USE DEF Bounded
<1>1. /\ inbound # <<>> /\ request = Head(inbound) /\ request \in Request
      /\ Len(inbound) \in Nat \ {0} /\ forwarding = {}
  BY EmptySeq DEF RouteServerRequest
<1>2. /\ inbound' \in Seq(Request) /\ Len(inbound') = Len(inbound) - 1
      /\ \A n \in 1..Len(inbound') : inbound'[n] = inbound[n + 1]
  BY <1>1, HeadTailProperties DEF RouteServerRequest
<1>3. /\ sequence + 1 \in 1..MaxAsks
      /\ request.ask = sequence + 1 /\ sequence' = sequence + 1
      /\ open[request.from][request.id] = sequence + 1
  <2>1. 1 \in 1..Len(inbound)
    BY <1>1
  <2>2. /\ request.ask = sequence + 1 /\ request.ask \in 1..MaxAsks
        /\ open[request.from][request.id] = request.ask
    BY <1>1, <2>1 DEF IInv, Numbered, Awaited, Request
  <2>. QED
    BY <2>2 DEF RouteServerRequest
<1>4. key \in Keys /\ added \in Routes
  BY <1>1, <1>3 DEF Keys, Routes, Request
<1>5. \A route \in serverRoutes : route.key # key
  BY DEF IInv, Numbered
<1>6. /\ serverRoutes' = serverRoutes \union {added}
      /\ forwarding' = {[key |-> key, ask |-> sequence + 1]}
  BY <1>1, <1>3, <1>5 DEF RouteServerRequest, FreshKey
<1>7. UNCHANGED <<replying, children, running, asks, open, dialogs, decided, received>>
  BY DEF RouteServerRequest
<1>8. TypeOK'
  <2>1. forwarding' \subseteq Dialogs
    BY <1>3, <1>4, <1>6 DEF Dialogs
  <2>2. sequence' \in 0..MaxAsks
    BY <1>3
  <2>3. serverRoutes' \subseteq Routes
    BY <1>4, <1>6
  <2>. QED
    BY <1>2, <1>7, <2>1, <2>2, <2>3 DEF IInv, Inv, TypeOK, Request
<1>9. UndecidedDialogHasRoute'
  <2>1. \A d \in dialogs : d.ask \notin decided => \E route \in serverRoutes : route.key = d.key
    BY DEF IInv, Inv, UndecidedDialogHasRoute
  <2>2. added.key = key /\ \A d \in forwarding' : d.key = key
    BY <1>6
  <2>. QED
    BY <1>6, <1>7, <2>1, <2>2 DEF UndecidedDialogHasRoute
<1>10. Numbered'
  <2>1. asks' = sequence' + Len(inbound')
    BY <1>2, <1>3, <1>7 DEF IInv, Numbered
  <2>2. \A n \in 1..Len(inbound') : inbound'[n].ask = sequence' + n
    <3>. SUFFICES ASSUME NEW n \in 1..Len(inbound') PROVE inbound'[n].ask = sequence' + n
      OBVIOUS
    <3>1. n + 1 \in 1..Len(inbound) /\ inbound'[n] = inbound[n + 1]
      BY <1>2
    <3>2. inbound[n + 1].ask = sequence + (n + 1)
      BY <3>1 DEF IInv, Numbered
    <3>. QED
      BY <1>3, <3>1, <3>2
  <2>3. /\ \A d \in Shown' : d.key[2] = d.ask /\ d.ask <= sequence'
        /\ \A d, e \in Shown' : d.ask = e.ask => d = e
    <3>1. \A d \in dialogs : d.key[2] = d.ask /\ d.ask <= sequence /\ d.ask \in Nat
      BY DEF IInv, Numbered, Shown, Dialogs
    <3>2. \A d \in forwarding' : /\ d = [key |-> key, ask |-> sequence + 1]
                                 /\ d.key[2] = d.ask /\ d.ask = sequence + 1
      BY <1>6
    <3>3. \A d, e \in dialogs : d.ask = e.ask => d = e
      BY DEF IInv, Numbered, Shown
    <3>4. \A d \in Shown' : d \in dialogs \/ d \in forwarding'
      BY <1>7 DEF Shown
    <3>. QED
      BY <1>3, <3>1, <3>2, <3>3, <3>4
  <2>4. /\ \A route \in serverRoutes' : route.key[2] <= sequence'
        /\ \A route, other \in serverRoutes' : route.key[2] = other.key[2] => route = other
    BY <1>3, <1>6 DEF IInv, Numbered, Routes, Keys
  <2>. QED
    BY <2>1, <2>2, <2>3, <2>4 DEF Numbered
<1>11. Awaited'
  <2>1. \A n \in 1..Len(inbound') : open'[inbound'[n].from][inbound'[n].id] = inbound'[n].ask
    BY SMTT(30), <1>2, <1>7 DEF IInv, Awaited
  <2>2. \A route \in serverRoutes' : open'[route.account][route.original] = route.key[2]
    BY <1>3, <1>6, <1>7 DEF IInv, Awaited
  <2>3. \A reply \in replying : reply.meant <= sequence + 1
    BY DEF IInv, Inv, TypeOK, Awaited
  <2>. QED
    BY <1>3, <1>7, <2>1, <2>2, <2>3 DEF IInv, Awaited
<1>12. Settled'
  BY SMTT(30), <1>3, <1>6, <1>7 DEF IInv, Inv, TypeOK, Settled, Awaited
<1>. QED
  BY <1>7, <1>8, <1>9, <1>10, <1>11, <1>12
     DEF IInv, Inv, AnswerMatchesQuestion, OneAnswerPerAsk

LEMMA StepWrite == ASSUME IInv, WriteServerRequest PROVE IInv'
BY DEF WriteServerRequest, IInv, Inv, TypeOK, UndecidedDialogHasRoute, Numbered, Awaited,
       Settled, Shown, AnswerMatchesQuestion, OneAnswerPerAsk

LEMMA StepAnswer ==
  ASSUME IInv, NEW d \in dialogs, NEW c \in Choices, HandleServerRequestResponse(d, c)
  PROVE  IInv'
<1>. Bounded
  BY Bounds
<1>. USE DEF Bounded
<1>1. /\ replying = {} /\ decided' = decided \union {d.ask}
      /\ replying' = {ReplyAlong(route, d, c) : route \in {x \in serverRoutes : x.key = d.key}}
      /\ serverRoutes' = {route \in serverRoutes : route.key # d.key}
      /\ UNCHANGED <<sequence, inbound, forwarding, children, running, asks, open, dialogs,
                     received>>
  BY DEF HandleServerRequestResponse, TakeRoute
<1>2. d \in Dialogs /\ d \in Shown /\ d.key[2] = d.ask
  BY DEF IInv, Numbered, Shown
<1>3. ASSUME NEW reply \in replying'
      PROVE  \E route \in serverRoutes :
               /\ route.key = d.key /\ route.key[2] = d.ask /\ reply = ReplyAlong(route, d, c)
               /\ reply.account = route.account /\ reply.original = route.original
               /\ reply.meant = d.ask /\ reply.choice = c
  BY <1>1, <1>2 DEF ReplyAlong
<1>4. TypeOK'
  <2>1. decided' \subseteq 1..MaxAsks /\ serverRoutes' \subseteq Routes
    BY <1>1, <1>2 DEF IInv, Inv, TypeOK, Dialogs
  <2>2. replying' \subseteq [account : Accounts, original : Ids, choice : Choices,
                             meant : 1..MaxAsks]
    BY <1>1, <1>2 DEF ReplyAlong, Routes, Dialogs
  <2>. QED
    BY <1>1, <2>1, <2>2 DEF IInv, Inv, TypeOK
<1>5. UndecidedDialogHasRoute'
  <2>. SUFFICES ASSUME NEW e \in Shown, e.ask \notin decided'
                PROVE  \E route \in serverRoutes' : route.key = e.key
    BY <1>1 DEF UndecidedDialogHasRoute, Shown
  <2>1. e.ask # d.ask /\ e.key # d.key
    BY <1>1, <1>2 DEF IInv, Numbered
  <2>. QED
    BY <1>1, <2>1 DEF IInv, Inv, UndecidedDialogHasRoute, Shown
<1>6. Numbered'
  BY <1>1 DEF IInv, Numbered, Shown
<1>7. Awaited'
  <2>1. \A reply \in replying' : /\ open[reply.account][reply.original] = reply.meant
                                 /\ reply.meant <= sequence
    BY <1>2, <1>3 DEF IInv, Awaited, Numbered
  <2>. QED
    BY <1>1, <2>1 DEF IInv, Awaited
<1>8. Settled'
  <2>1. \A reply, other \in replying' : reply = other
    <3>. SUFFICES ASSUME NEW reply \in replying', NEW other \in replying' PROVE reply = other
      OBVIOUS
    <3>1. PICK x \in serverRoutes : x.key[2] = d.ask /\ reply = ReplyAlong(x, d, c)
      BY <1>3
    <3>2. PICK y \in serverRoutes : y.key[2] = d.ask /\ other = ReplyAlong(y, d, c)
      BY <1>3
    <3>. QED
      BY <3>1, <3>2 DEF IInv, Numbered
  <2>2. \A route \in serverRoutes', reply \in replying' : route.key[2] # reply.meant
    <3>. SUFFICES ASSUME NEW route \in serverRoutes', NEW reply \in replying',
                         route.key[2] = reply.meant
                  PROVE  FALSE
      OBVIOUS
    <3>1. PICK x \in serverRoutes : x.key = d.key /\ x.key[2] = reply.meant
      BY <1>3
    <3>. QED
      BY <1>1, <3>1 DEF IInv, Numbered
  <2>3. \A reply \in replying', x \in received' : reply.meant # x.meant
    BY <1>1, <1>3 DEF IInv, Settled
  <2>. QED
    BY <1>1, <2>1, <2>2, <2>3 DEF IInv, Settled
<1>. QED
  BY <1>1, <1>4, <1>5, <1>6, <1>7, <1>8 DEF IInv, Inv, AnswerMatchesQuestion, OneAnswerPerAsk

LEMMA StepSendBack == ASSUME IInv, SendBack PROVE IInv'
<1>. Bounded
  BY Bounds
<1>. USE DEF Bounded
<1>1. PICK reply \in replying :
        /\ replying' = {}
        /\ \/ /\ received' = received \union
                   {[account |-> reply.account, choice |-> reply.choice, meant |-> reply.meant,
                     ask |-> open[reply.account][reply.original]]}
              /\ open' = [open EXCEPT ![reply.account][reply.original] = 0]
           \/ UNCHANGED <<received, open>>
        /\ UNCHANGED <<sequence, serverRoutes, inbound, forwarding, children, running,
                       asks, dialogs, decided>>
  BY DEF SendBack
<1>2. /\ reply.account \in Accounts /\ reply.original \in Ids /\ reply.choice \in Choices
      /\ reply.meant \in 1..MaxAsks
      /\ open[reply.account][reply.original] = reply.meant /\ reply.meant <= sequence
  BY DEF IInv, Inv, TypeOK, Awaited
<1>. DEFINE answer == [account |-> reply.account, choice |-> reply.choice,
                       meant |-> reply.meant, ask |-> reply.meant]
<1>3. received' \subseteq received \union {answer}
  BY <1>1, <1>2
<1>4. TypeOK'
  <2>1. open' \in [Accounts -> [Ids -> 0..MaxAsks]]
    <3>1. open \in [Accounts -> [Ids -> 0..MaxAsks]] /\ 0 \in 0..MaxAsks
      BY DEF IInv, Inv, TypeOK
    <3>2. [open EXCEPT ![reply.account][reply.original] = 0] \in [Accounts -> [Ids -> 0..MaxAsks]]
      BY <1>2, <3>1
    <3>. QED
      BY <1>1, <3>1, <3>2
  <2>2. answer \in [account : Accounts, choice : Choices, meant : 1..MaxAsks, ask : 0..MaxAsks]
    BY <1>2
  <2>. QED
    BY <1>1, <1>3, <2>1, <2>2 DEF IInv, Inv, TypeOK
<1>5. UndecidedDialogHasRoute' /\ Numbered'
  BY <1>1 DEF IInv, Inv, UndecidedDialogHasRoute, Numbered, Shown
<1>6. ASSUME NEW a \in Accounts, NEW i \in Ids, open[a][i] # reply.meant
      PROVE  open'[a][i] = open[a][i]
  <2>1. open \in [Accounts -> [Ids -> 0..MaxAsks]]
    BY DEF IInv, Inv, TypeOK
  <2>2. reply.account # a \/ reply.original # i
    BY <1>2, <1>6
  <2>3. [open EXCEPT ![reply.account][reply.original] = 0][a][i] = open[a][i]
    BY <1>2, <2>1, <2>2
  <2>. QED
    BY <1>1, <2>3
<1>7. Awaited'
  <2>1. \A n \in 1..Len(inbound) : open'[inbound[n].from][inbound[n].id] = inbound[n].ask
    <3>. SUFFICES ASSUME NEW n \in 1..Len(inbound)
                  PROVE  open'[inbound[n].from][inbound[n].id] = inbound[n].ask
      OBVIOUS
    <3>1. inbound[n].ask # reply.meant
      BY <1>2 DEF IInv, Numbered
    <3>2. inbound[n] \in Request /\ open[inbound[n].from][inbound[n].id] = inbound[n].ask
      BY DEF IInv, Awaited
    <3>. QED
      BY <1>6, <3>1, <3>2 DEF Request
  <2>2. \A route \in serverRoutes : open'[route.account][route.original] = route.key[2]
    BY <1>6 DEF IInv, Awaited, Settled, Routes
  <2>. QED
    BY <1>1, <2>1, <2>2 DEF Awaited
<1>8. Settled'
  BY <1>1, <1>2, <1>3 DEF IInv, Settled
<1>9. AnswerMatchesQuestion'
  BY <1>3 DEF IInv, AnswerMatchesQuestion
<1>10. OneAnswerPerAsk'
  BY <1>3 DEF IInv, OneAnswerPerAsk, Settled
<1>. QED
  BY <1>4, <1>5, <1>7, <1>8, <1>9, <1>10 DEF IInv, Inv

LEMMA StepChild ==
  ASSUME IInv, NEW a \in Accounts, ChildExits(a) \/ DropChild(a) \/ UNCHANGED vars
  PROVE  IInv'
<1>1. /\ UNCHANGED <<sequence, serverRoutes, inbound, forwarding, replying, asks, open,
                     dialogs, decided, received>>
      /\ running' \subseteq running /\ children' \subseteq children
  BY DEF ChildExits, DropChild, vars
<1>2. TypeOK'
  BY <1>1 DEF IInv, Inv, TypeOK
<1>3. UndecidedDialogHasRoute'
  BY <1>1 DEF IInv, Inv, UndecidedDialogHasRoute
<1>4. Numbered' /\ Awaited' /\ Settled'
  BY <1>1 DEF IInv, Numbered, Awaited, Settled, Shown
<1>5. AnswerMatchesQuestion' /\ OneAnswerPerAsk'
  BY <1>1 DEF IInv, AnswerMatchesQuestion, OneAnswerPerAsk
<1>. QED
  BY <1>2, <1>3, <1>4, <1>5 DEF IInv, Inv

LEMMA Invariance == Spec => []IInv
<1>1. IInv /\ [Next]_vars => IInv'
  <2>. SUFFICES ASSUME IInv, [Next]_vars PROVE IInv'
    OBVIOUS
  <2>1. CASE UNCHANGED vars
    BY <2>1 DEF vars, IInv, Inv, TypeOK, UndecidedDialogHasRoute, Numbered, Awaited, Settled,
                Shown, AnswerMatchesQuestion, OneAnswerPerAsk
  <2>. QED
    BY <2>1, StepAsk, StepRoute, StepWrite, StepAnswer, StepSendBack, StepChild
       DEF Next, InboundStep
<1>. QED
  BY <1>1, InitIInv, PTL DEF Spec

\* Between any two steps of the relay the tables are typed, and a dialog the desktop
\* can still decide has its route.
THEOREM TableIsAheadOfDialogs == Spec => []Inv
<1>1. IInv => Inv
  BY DEF IInv
<1>. QED
  BY <1>1, Invariance, PTL

\* An app-server receives the decision about the very ask it waits for, however
\* many app-servers use the same id and however often one id is used.
THEOREM AnswersMatchQuestions == Spec => []AnswerMatchesQuestion
<1>1. IInv => AnswerMatchesQuestion
  BY DEF IInv
<1>. QED
  BY <1>1, Invariance, PTL

\* However often the desktop answers a dialog, one answer reaches the app-server.
THEOREM AnswersAreUnique == Spec => []OneAnswerPerAsk
<1>1. IInv => OneAnswerPerAsk
  BY DEF IInv
<1>. QED
  BY <1>1, Invariance, PTL

================================================================================
