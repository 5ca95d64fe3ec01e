-------------------------- MODULE Multiplexer_proofs --------------------------
(***************************************************************************)
(* Proofs about the multiplexer, for every set of accounts, requests and   *)
(* chats and every capacity of the inbound channel.                        *)
(*                                                                         *)
(* The argument.  Typing and TrafficIsGenuine are preserved together: what *)
(* a child writes is genuine when it is written and stays so, because a    *)
(* request that was sent stays sent to the same account and a home only    *)
(* grows.  On top of them, OneTokenPerRequest counts routes and answers    *)
(* and ChatsAreKnown follows the table of owners; RequestsAreRouted and    *)
(* RemovalsAreOfMembers say what routing and removal have done so far, and *)
(* with them FollowUpReachesHome is preserved too.  The conjunction of     *)
(* these is IndInv; it is inductive and implies the safety properties.     *)
(*                                                                         *)
(* That an owner changes only where OwnerIsSticky allows it rests on       *)
(* OvertakenListingsAreKnown: a chat that a listing holds as unowned is    *)
(* unowned still, or the listing is one that was overtaken.                *)
(***************************************************************************)
EXTENDS Multiplexer, SequenceTheorems, TLAPS

\* The message inboundLoop works on came from an account.
HandlingTyped == handling.stage # "idle" => handling.from \in Accounts

--------------------------------------------------------------------------------
(* Typing. *)

\* When the program starts every variable has its shape.
LEMMA InitTyped == Init => TypeOK
<1>. SUFFICES ASSUME Init PROVE TypeOK
  OBVIOUS
<1>. USE ConstantsAssumption DEF Init
<1>1. /\ accounts \subseteq Accounts
      /\ owners \in [Threads -> Accounts \union {NoAccount}]
      /\ children \subseteq Accounts
      /\ routes \subseteq Requests
      /\ target \in [Requests -> Accounts \union {NoAccount}]
      /\ stdin \in [Accounts -> SUBSET Requests]
      /\ home \in [Accounts -> SUBSET Threads]
      /\ seen \subseteq Threads
      /\ overtaken \subseteq Requests
  OBVIOUS
<1>2. /\ adding \in [Accounts -> {"no", "starting", "done"}]
      /\ removing \in [Accounts -> Removals]
      /\ process \in [Accounts -> {"absent", "running", "signalled", "exited", "closed"}]
      /\ pc \in [Requests -> Stages]
  BY DEF Stages, Removals
<1>3. inbound \in Seq(Envelopes)
  BY EmptySeq
<1>4. handling \in [stage : {"idle", "learning", "writing"},
                    from : Accounts \union {NoAccount}, message : Message]
  BY DEF Idle, Started, Message
<1>5. params \in [Requests -> Parameters]
  BY DEF Parameters, AllMethods
<1>6. listing \in [Requests -> Listings]
  BY DEF Unlisted, Listings
<1>7. stdout \in [Accounts -> Seq(Message)]
  BY EmptySeq
<1>8. answers \in [Requests -> Seq(Accounts \union {Mux})]
  BY EmptySeq
<1>. QED
  BY <1>1, <1>2, <1>3, <1>4, <1>5, <1>6, <1>7, <1>8 DEF TypeOK

\* What a process writes is appended to its output.
LEMMA EmitTyped ==
  ASSUME TypeOK, NEW a \in Accounts, NEW s \in Seq(Message), Emit(a, s)
  PROVE  stdout' \in [Accounts -> Seq(Message)]
<1>1. stdout[a] \o s \in Seq(Message)
  BY ConcatProperties DEF TypeOK
<1>. QED
  BY <1>1 DEF Emit, TypeOK

\* A listing stays one when some of its fields are replaced.
LEMMA ListingUpdates ==
  ASSUME NEW l \in Listings, NEW W \in SUBSET Accounts, NEW S \in SUBSET Threads,
         NEW P \in SUBSET (Accounts \X Threads), NEW Q \in SUBSET (Accounts \X Threads)
  PROVE  /\ [l EXCEPT !.waiting = W] \in Listings
         /\ [l EXCEPT !.waiting = W, !.found = P] \in Listings
         /\ [l EXCEPT !.found = P, !.unowned = Q] \in Listings
         /\ [l EXCEPT !.found = P, !.shown = S] \in Listings
         /\ [l EXCEPT !.unowned = Q, !.shown = S] \in Listings
  BY DEF Listings

\* Every step keeps the shape of the variables; only the message being handled
\* needs more than the type invariant to be typed.
LEMMA NextTyped ==
  ASSUME TypeOK, HandlingTyped, Next
  PROVE  TypeOK'
<1>. USE ConstantsAssumption DEF TypeOK, HandlingTyped, storeVars, requestVars, childVars,
                                 desktopVars, controlVars
<1>1. ASSUME NEW r \in Requests, NEW m \in Methods, NEW t \in Threads \union {NoThread},
             NEW a \in Accounts \union {NoAccount}, HandleClient(r, m, t, a)
       PROVE  TypeOK'
  <2>. USE <1>1 DEF HandleClient
  <2>1. params' \in [Requests -> Parameters]
    BY DEF Parameters
  <2>2. pc' \in [Requests -> Stages]
    BY DEF Stages
  <2>. QED
    BY <2>1, <2>2
<1>2. ASSUME NEW r \in Requests, RouteNewThread(r)
       PROVE  TypeOK'
  <2>. USE <1>2 DEF RouteNewThread, RouteTo
  <2>1. target' \in [Requests -> Accounts \union {NoAccount}]
    OBVIOUS
  <2>2. pc' \in [Requests -> Stages]
    BY SMTT(60), ZenonT(60) DEF Stages
  <2>. QED
    BY <2>1, <2>2
<1>3. ASSUME NEW r \in Requests, RouteExisting(r)
       PROVE  TypeOK'
  <2>. USE <1>3 DEF RouteExisting, RouteTo, OwnerOrController
  <2>1. target' \in [Requests -> Accounts \union {NoAccount}]
    OBVIOUS
  <2>2. pc' \in [Requests -> Stages]
    BY SMTT(60), ZenonT(60) DEF Stages
  <2>. QED
    BY <2>1, <2>2
<1>4. ASSUME NEW r \in Requests, RouteLimits(r)
       PROVE  TypeOK'
  <2>. USE <1>4 DEF RouteLimits
  <2>1. pc' \in [Requests -> Stages]
    BY DEF Stages
  <2>. QED
    BY <2>1
<1>5. ASSUME NEW r \in Requests, Register(r)
       PROVE  TypeOK'
  <2>. USE <1>5 DEF Register, ChildMissing
  <2>1. routes' \subseteq Requests
    OBVIOUS
  <2>2. pc' \in [Requests -> Stages]
    BY DEF Stages
  <2>. QED
    BY <2>1, <2>2
<1>6. ASSUME NEW r \in Requests, SendToChild(r)
       PROVE  TypeOK'
  <2>. USE <1>6 DEF SendToChild, WriteSucceeds, WriteFails
  <2>1. routes' \subseteq Requests
    OBVIOUS
  <2>2. stdin' \in [Accounts -> SUBSET Requests]
    <3>1. stdin' \in {stdin, [stdin EXCEPT ![target[r]] = @ \union {r}]}
      OBVIOUS
    <3>2. [stdin EXCEPT ![target[r]] = @ \union {r}] \in [Accounts -> SUBSET Requests]
      OBVIOUS
    <3>. QED
      BY <3>1, <3>2
  <2>3. pc' \in [Requests -> Stages]
    BY DEF Stages
  <2>. QED
    BY <2>1, <2>2, <2>3
<1>7. ASSUME NEW r \in Requests, WriteOwnAnswer(r)
       PROVE  TypeOK'
  <2>. USE <1>7 DEF WriteOwnAnswer
  <2>1. answers' \in [Requests -> Seq(Accounts \union {Mux})]
    BY AppendProperties
  <2>2. seen' \subseteq Threads
    BY DEF Listings
  <2>3. pc' \in [Requests -> Stages]
    BY DEF Stages
  <2>. QED
    BY <2>1, <2>2, <2>3
<1>8. ASSUME NEW r \in Requests, StartListing(r)
       PROVE  TypeOK'
  <2>. USE <1>8 DEF StartListing
  <2>1. listing' \in [Requests -> Listings]
    <3>1. [listing[r] EXCEPT !.waiting = accounts \intersect children] \in Listings
      BY ListingUpdates, SMTT(60), ZenonT(60)
    <3>. QED
      BY <3>1
  <2>2. pc' \in [Requests -> Stages]
    BY DEF Stages
  <2>. QED
    BY <2>1, <2>2
<1>9. ASSUME NEW r \in Requests, NEW a \in Accounts, ListHome(r, a)
       PROVE  TypeOK'
  <2>. USE <1>9 DEF ListHome
  <2>1. listing' \in [Requests -> Listings]
    <3>1. PICK got \in SUBSET home[a] :
            listing' = [listing EXCEPT ![r].waiting = @ \ {a},
                                       ![r].found = @ \union ({a} \X got)]
      OBVIOUS
    <3>2. listing[r].found \union ({a} \X got) \in SUBSET (Accounts \X Threads)
      BY DEF Listings
    <3>3. listing[r].waiting \ {a} \in SUBSET Accounts
      BY DEF Listings
    <3>4. [listing[r] EXCEPT !.waiting = listing[r].waiting \ {a},
                             !.found = listing[r].found \union ({a} \X got)] \in Listings
      BY <3>2, <3>3, ListingUpdates
    <3>. QED
      BY <3>1, <3>4
  <2>. QED
    BY <2>1
<1>10. ASSUME NEW r \in Requests, CheckOwner(r)
       PROVE  TypeOK'
  <2>. USE <1>10 DEF CheckOwner
  <2>1. listing' \in [Requests -> Listings]
    <3>1. PICK a \in Accounts, t \in Threads :
            \/ listing' = [listing EXCEPT ![r].found = @ \ {<<a, t>>},
                                          ![r].unowned = {<<a, t>>}]
            \/ listing' = [listing EXCEPT ![r].found = @ \ {<<a, t>>},
                                          ![r].shown = @ \union {t}]
      OBVIOUS
    <3>2. /\ listing[r].found \ {<<a, t>>} \in SUBSET (Accounts \X Threads)
          /\ {<<a, t>>} \in SUBSET (Accounts \X Threads)
          /\ listing[r].shown \union {t} \in SUBSET Threads
      BY DEF Listings
    <3>3. listing[r] \in Listings
      OBVIOUS
    <3>4. /\ [listing[r] EXCEPT !.found = listing[r].found \ {<<a, t>>},
                                !.unowned = {<<a, t>>}] \in Listings
          /\ [listing[r] EXCEPT !.found = listing[r].found \ {<<a, t>>},
                                !.shown = listing[r].shown \union {t}] \in Listings
      BY ONLY <3>2, <3>3, ListingUpdates
    <3>. QED
      BY <3>1, <3>4, SMTT(60), ZenonT(60)
  <2>. QED
    BY <2>1
<1>11. ASSUME NEW r \in Requests, RecordOwner(r)
       PROVE  TypeOK'
  <2>. USE <1>11 DEF RecordOwner, ListedOwner
  <2>3. overtaken' \subseteq Requests
    BY DEF Noting
  <2>1. owners' \in [Threads -> Accounts \union {NoAccount}]
    OBVIOUS
  <2>2. listing' \in [Requests -> Listings]
    <3>1. PICK t \in Threads :
            listing' = [listing EXCEPT ![r].unowned = {}, ![r].shown = @ \union {t}]
      OBVIOUS
    <3>2. listing[r].shown \union {t} \in SUBSET Threads
      BY DEF Listings
    <3>3. [listing[r] EXCEPT !.unowned = {}, !.shown = listing[r].shown \union {t}] \in Listings
      BY <3>2, ListingUpdates
    <3>. QED
      BY <3>1, <3>3
  <2>. QED
    BY <2>1, <2>2, <2>3
<1>12. ASSUME NEW r \in Requests, FinishListing(r)
       PROVE  TypeOK'
  <2>. USE <1>12 DEF FinishListing
  <2>1. pc' \in [Requests -> Stages]
    BY DEF Stages
  <2>. QED
    BY <2>1
<1>13. ASSUME TakeInbound
       PROVE  TypeOK'
  <2>. USE <1>13 DEF TakeInbound
  <2>1. inbound' \in Seq(Envelopes)
    BY HeadTailProperties
  <2>2. handling' \in [stage : {"idle", "learning", "writing"},
                      from : Accounts \union {NoAccount}, message : Message]
    <3>1. Head(inbound) \in Envelopes
      BY HeadTailProperties
    <3>. QED
      BY <3>1 DEF Envelopes
  <2>3. routes' \subseteq Requests
    OBVIOUS
  <2>. QED
    BY <2>1, <2>2, <2>3
<1>14. ASSUME LearnThreadOwner
       PROVE  TypeOK'
  <2>. USE <1>14 DEF LearnThreadOwner, Learns, OwnersWith
  <2>1. owners' \in [Threads -> Accounts \union {NoAccount}]
    BY DEF Message
  <2>2. handling' \in [stage : {"idle", "learning", "writing"},
                      from : Accounts \union {NoAccount}, message : Message]
    OBVIOUS
  <2>3. overtaken' \subseteq Requests
    BY DEF Noting
  <2>. QED
    BY <2>1, <2>2, <2>3
<1>15. ASSUME WriteToDesktop
       PROVE  TypeOK'
  <2>. USE <1>15 DEF WriteToDesktop
  <2>1. answers' \in [Requests -> Seq(Accounts \union {Mux})]
    BY AppendProperties
  <2>2. seen' \subseteq Threads
    BY DEF Message
  <2>3. handling' \in [stage : {"idle", "learning", "writing"},
                      from : Accounts \union {NoAccount}, message : Message]
    BY DEF Idle, Started, Message
  <2>. QED
    BY <2>1, <2>2, <2>3
<1>16. ASSUME NEW a \in Accounts, NEW r \in Requests, NEW t \in Threads, ChildCreatesThread(a, r, t)
       PROVE  TypeOK'
  <2>. USE <1>16 DEF ChildCreatesThread
  <2>1. home' \in [Accounts -> SUBSET Threads]
    OBVIOUS
  <2>2. stdin' \in [Accounts -> SUBSET Requests]
    OBVIOUS
  <2>3. stdout' \in [Accounts -> Seq(Message)]
    <3>1. Response(r, t) \in Message /\ Started(t) \in Message
      BY DEF Response, Started, Message
    <3>2. /\ <<Response(r, t), Started(t)>> \in Seq(Message)
          /\ <<Started(t), Response(r, t)>> \in Seq(Message)
      BY <3>1
    <3>. QED
      BY <3>2, EmitTyped
  <2>. QED
    BY <2>1, <2>2, <2>3
<1>17. ASSUME NEW a \in Accounts, NEW r \in Requests, ChildReplies(a, r)
       PROVE  TypeOK'
  <2>. USE <1>17 DEF ChildReplies
  <2>1. stdin' \in [Accounts -> SUBSET Requests]
    OBVIOUS
  <2>2. stdout' \in [Accounts -> Seq(Message)]
    <3>1. /\ Response(r, NoThread) \in Message
          /\ Response(r, params[r].thread) \in Message
      BY DEF Response, Message, Parameters
    <3>2. /\ <<Response(r, NoThread)>> \in Seq(Message)
          /\ <<Response(r, params[r].thread)>> \in Seq(Message)
      BY <3>1
    <3>. QED
      BY <3>2, EmitTyped
  <2>. QED
    BY <2>1, <2>2
<1>18. ASSUME NEW a \in Accounts, ChildExits(a)
       PROVE  TypeOK'
  <2>. USE <1>18 DEF ChildExits
  <2>1. process' \in [Accounts -> {"absent", "running", "signalled", "exited", "closed"}]
    OBVIOUS
  <2>2. stdin' \in [Accounts -> SUBSET Requests]
    OBVIOUS
  <2>. QED
    BY <2>1, <2>2
<1>19. ASSUME NEW a \in Accounts, WaitLoop(a)
       PROVE  TypeOK'
  <2>. USE <1>19 DEF WaitLoop
  <2>1. process' \in [Accounts -> {"absent", "running", "signalled", "exited", "closed"}]
    OBVIOUS
  <2>2. stdout' \in [Accounts -> Seq(Message)]
    BY SubSeqProperties, ElementOfSeq
  <2>. QED
    BY <2>1, <2>2
<1>20. ASSUME NEW a \in Accounts, ReadLoop(a)
       PROVE  TypeOK'
  <2>. USE <1>20 DEF ReadLoop
  <2>1. stdout' \in [Accounts -> Seq(Message)]
    BY HeadTailProperties
  <2>2. inbound' \in Seq(Envelopes)
    BY HeadTailProperties, AppendProperties DEF Envelopes
  <2>. QED
    BY <2>1, <2>2
<1>21. ASSUME NEW a \in Accounts, AddToStore(a)
       PROVE  TypeOK'
  <2>. USE <1>21 DEF AddToStore
  <2>1. accounts' \subseteq Accounts
    OBVIOUS
  <2>2. adding' \in [Accounts -> {"no", "starting", "done"}]
    OBVIOUS
  <2>. QED
    BY <2>1, <2>2
<1>22. ASSUME NEW a \in Accounts, StartChild(a)
       PROVE  TypeOK'
  <2>. USE <1>22 DEF StartChild
  <2>1. children' \subseteq Accounts
    OBVIOUS
  <2>2. process' \in [Accounts -> {"absent", "running", "signalled", "exited", "closed"}]
    OBVIOUS
  <2>3. adding' \in [Accounts -> {"no", "starting", "done"}]
    OBVIOUS
  <2>. QED
    BY <2>1, <2>2, <2>3
<1>23. ASSUME NEW a \in Accounts, BeginRemove(a)
       PROVE  TypeOK'
  <2>. USE <1>23 DEF BeginRemove
  <2>1. process' \in [Accounts -> {"absent", "running", "signalled", "exited", "closed"}]
    BY SMTT(60), ZenonT(60)
  <2>2. removing' \in [Accounts -> Removals]
    BY DEF Removals
  <2>. QED
    BY <2>1, <2>2
<1>24. ASSUME NEW a \in Accounts, DropChild(a)
       PROVE  TypeOK'
  <2>. USE <1>24 DEF DropChild
  <2>1. children' \subseteq Accounts
    OBVIOUS
  <2>2. removing' \in [Accounts -> Removals]
    BY DEF Removals
  <2>. QED
    BY <2>1, <2>2
<1>25. ASSUME NEW a \in Accounts, BackUpHome(a)
       PROVE  TypeOK'
  <2>. USE <1>25 DEF BackUpHome
  <2>1. removing' \in [Accounts -> Removals]
    BY DEF Removals
  <2>. QED
    BY <2>1
<1>26. ASSUME NEW a \in Accounts, CommitRemoval(a)
       PROVE  TypeOK'
  <2>. USE <1>26 DEF CommitRemoval, OwnersWithout
  <2>1. accounts' \subseteq Accounts
    OBVIOUS
  <2>2. owners' \in [Threads -> Accounts \union {NoAccount}]
    OBVIOUS
  <2>3. removing' \in [Accounts -> Removals]
    BY DEF Removals
  <2>. QED
    BY <2>1, <2>2, <2>3
<1>. QED
  BY <1>1, <1>2, <1>3, <1>4, <1>5, <1>6, <1>7, <1>8, <1>9, <1>10, <1>11, <1>12, <1>13,
     <1>14, <1>15, <1>16, <1>17, <1>18, <1>19, <1>20, <1>21, <1>22, <1>23, <1>24, <1>25, <1>26
     DEF Next, RequestStep, InboundStep, ChildStep, ControlStep


--------------------------------------------------------------------------------
(* Which actions touch which variable. *)

\* The few actions that change each channel, pipe and program counter: whatever a
\* later lemma says of one of these variables it need check for those actions only.
LEMMA Frames ==
  ASSUME Next
  PROVE  /\ \/ stdout' = stdout
            \/ \E a \in Accounts : WaitLoop(a) \/ ReadLoop(a) \/ ChildStep(a)
         /\ \/ inbound' = inbound
            \/ TakeInbound \/ \E a \in Accounts : ReadLoop(a)
         /\ handling' = handling \/ InboundStep
         /\ \/ stdin' = stdin
            \/ \E r \in Requests : SendToChild(r)
            \/ \E a \in Accounts : ChildStep(a) \/ ChildExits(a)
         /\ \/ home' = home
            \/ \E a \in Accounts, r \in Requests, t \in Threads : ChildCreatesThread(a, r, t)
         /\ \/ UNCHANGED <<pc, params, target>>
            \/ \E r \in Requests : RequestStep(r)
            \/ \E r \in Requests, m \in Methods, t \in Threads \union {NoThread},
                  a \in Accounts \union {NoAccount} : HandleClient(r, m, t, a)
         /\ routes' = routes \/ TakeInbound \/ \E r \in Requests : Register(r) \/ SendToChild(r)
         /\ answers' = answers \/ WriteToDesktop \/ \E r \in Requests : WriteOwnAnswer(r)
         /\ \/ owners' = owners
            \/ LearnThreadOwner
            \/ \E r \in Requests : RecordOwner(r)
            \/ \E a \in Accounts : CommitRemoval(a)
         /\ overtaken' = overtaken \/ LearnThreadOwner \/ \E r \in Requests : RecordOwner(r)
         /\ listing' = listing \/ \E r \in Requests : RequestStep(r)
         /\ UNCHANGED <<accounts, removing>> \/ \E a \in Accounts : ControlStep(a)
         /\ seen' = seen \/ WriteToDesktop \/ \E r \in Requests : WriteOwnAnswer(r)
<1>. USE DEF Next, HandleClient, RequestStep, RouteNewThread, RouteExisting, RouteLimits,
             Register, SendToChild, WriteOwnAnswer, StartListing, ListHome, CheckOwner,
             RecordOwner, FinishListing, InboundStep, TakeInbound, LearnThreadOwner,
             WriteToDesktop, ChildStep, ChildReplies, ChildCreatesThread, ChildExits,
             WaitLoop, ReadLoop, ControlStep, AddToStore, StartChild, BeginRemove,
             DropChild, BackUpHome, CommitRemoval, storeVars, requestVars, childVars,
             desktopVars, controlVars
<1>1. \/ stdout' = stdout
      \/ \E a \in Accounts : WaitLoop(a) \/ ReadLoop(a) \/ ChildStep(a)
  BY ZenonT(60)
<1>2. \/ inbound' = inbound
      \/ TakeInbound \/ \E a \in Accounts : ReadLoop(a)
  BY ZenonT(60)
<1>3. handling' = handling \/ InboundStep
  BY ZenonT(60)
<1>4. \/ stdin' = stdin
      \/ \E r \in Requests : SendToChild(r)
      \/ \E a \in Accounts : ChildStep(a) \/ ChildExits(a)
  BY ZenonT(60)
<1>5. \/ home' = home
      \/ \E a \in Accounts, r \in Requests, t \in Threads : ChildCreatesThread(a, r, t)
  BY ZenonT(60)
<1>6. \/ UNCHANGED <<pc, params, target>>
      \/ \E r \in Requests : RequestStep(r)
      \/ \E r \in Requests, m \in Methods, t \in Threads \union {NoThread},
            a \in Accounts \union {NoAccount} : HandleClient(r, m, t, a)
  BY ZenonT(60)
<1>7. routes' = routes \/ TakeInbound \/ \E r \in Requests : Register(r) \/ SendToChild(r)
  BY ZenonT(60)
<1>8. answers' = answers \/ WriteToDesktop \/ \E r \in Requests : WriteOwnAnswer(r)
  BY ZenonT(60)
<1>9. \/ owners' = owners
      \/ LearnThreadOwner
      \/ \E r \in Requests : RecordOwner(r)
      \/ \E a \in Accounts : CommitRemoval(a)
  BY ZenonT(60)
<1>10. listing' = listing \/ \E r \in Requests : RequestStep(r)
  BY ZenonT(60)
<1>11. UNCHANGED <<accounts, removing>> \/ \E a \in Accounts : ControlStep(a)
  BY ZenonT(60)
<1>12. seen' = seen \/ WriteToDesktop \/ \E r \in Requests : WriteOwnAnswer(r)
  BY ZenonT(60)
<1>13. overtaken' = overtaken \/ LearnThreadOwner \/ \E r \in Requests : RecordOwner(r)
  BY ZenonT(60)
<1>. QED
  BY ONLY <1>13, <1>1, <1>2, <1>3, <1>4, <1>5, <1>6, <1>7, <1>8, <1>9, <1>10, <1>11, <1>12

--------------------------------------------------------------------------------
(* Traffic. *)

\* A request that was sent stays sent, where it was sent and as it was sent.
LEMMA SentIsStable ==
  ASSUME TypeOK, Next, NEW r \in Requests, pc[r] = "sent"
  PROVE  pc'[r] = "sent" /\ target'[r] = target[r] /\ params'[r] = params[r]
<1>1. CASE UNCHANGED <<pc, params, target>>
  BY <1>1
<1>2. ASSUME NEW q \in Requests, RequestStep(q)
      PROVE  pc'[r] = "sent" /\ target'[r] = target[r] /\ params'[r] = params[r]
  <2>. USE DEF TypeOK
  <2>1. pc[q] # "sent" /\ params' = params
    BY <1>2 DEF RequestStep, RouteNewThread, RouteExisting, RouteLimits, Register,
       SendToChild, WriteOwnAnswer, StartListing, ListHome, CheckOwner, RecordOwner,
       FinishListing
  <2>2. /\ pc' = pc \/ \E stage : pc' = [pc EXCEPT ![q] = stage]
        /\ target' = target \/ \E a : target' = [target EXCEPT ![q] = a]
    BY <1>2 DEF RequestStep, RouteNewThread, RouteExisting, RouteTo, RouteLimits, Register,
       ChildMissing, SendToChild, WriteSucceeds, WriteFails, WriteOwnAnswer, StartListing,
       ListHome, CheckOwner, RecordOwner, FinishListing
  <2>. QED
    BY <2>1, <2>2
<1>3. ASSUME NEW q \in Requests, NEW m \in Methods, NEW t \in Threads \union {NoThread},
             NEW a \in Accounts \union {NoAccount}, HandleClient(q, m, t, a)
      PROVE  pc'[r] = "sent" /\ target'[r] = target[r] /\ params'[r] = params[r]
  BY <1>3 DEF HandleClient, TypeOK
<1>. QED
  BY <1>1, <1>2, <1>3, Frames

\* A home only grows.
LEMMA HomesGrow ==
  ASSUME TypeOK, Next, NEW a \in Accounts
  PROVE  home[a] \subseteq home'[a]
<1>1. ASSUME NEW b \in Accounts, NEW r \in Requests, NEW t \in Threads,
             ChildCreatesThread(b, r, t)
      PROVE  home[a] \subseteq home'[a]
  BY <1>1 DEF ChildCreatesThread, TypeOK
<1>. QED
  BY <1>1, Frames

\* What was genuine stays genuine.
LEMMA GenuineGrows ==
  ASSUME TypeOK, Next, NEW a \in Accounts
  PROVE  Genuine(a) \subseteq Genuine(a)'
<1>1. ASSUME NEW m \in Genuine(a)
      PROVE  m \in Genuine(a)'
  <2>1. m \in Message /\ (m.thread # NoThread => m.thread \in home'[a])
    BY HomesGrow DEF Genuine
  <2>2. CASE m.type = "started" /\ m.request = NoRequest
    BY <2>1, <2>2 DEF Genuine
  <2>3. CASE m.type = "response" /\ m.request \in Requests
    <3>1. pc[m.request] = "sent" /\ target[m.request] = a
      BY <2>3 DEF Genuine
    <3>2. /\ pc'[m.request] = "sent" /\ target'[m.request] = a
          /\ params'[m.request] = params[m.request]
      BY <2>3, <3>1, SentIsStable
    <3>. QED
      BY <2>1, <2>3, <3>2 DEF Genuine
  <2>. QED
    BY <2>2, <2>3 DEF Genuine
<1>. QED
  BY <1>1

\* Nothing is on its way when the program starts.
LEMMA InitTraffic == Init => TrafficIsGenuine
  BY EmptySeq DEF Init, TrafficIsGenuine, OutputIsGenuine, InboundIsGenuine,
     HandledIsGenuine, PipesHoldTheirRequests, Idle

\* Every step leaves only genuine messages in the output of a child: the child
\* adds one, waitLoop and readLoop take some away.
LEMMA OutputStep ==
  ASSUME TypeOK, TrafficIsGenuine, Next
  PROVE  OutputIsGenuine'
<1>. SUFFICES ASSUME NEW b \in Accounts
              PROVE  stdout'[b] \in Seq(Genuine(b)')
  BY DEF OutputIsGenuine
<1>. USE DEF TypeOK
<1>1. stdout[b] \in Seq(Genuine(b)')
  BY GenuineGrows, SeqMonotonic DEF TrafficIsGenuine, OutputIsGenuine
<1>2. ASSUME NEW a \in Accounts, WaitLoop(a)
      PROVE  stdout'[b] \in Seq(Genuine(b)')
  <2>1. PICK n \in 0..Len(stdout[a]) : stdout' = [stdout EXCEPT ![a] = SubSeq(@, 1, n)]
    BY <1>2 DEF WaitLoop
  <2>2. CASE a = b
    <3>1. \A i \in 1..n : stdout[b][i] \in Genuine(b)'
      BY <1>1, <2>2, ElementOfSeq, LenProperties
    <3>2. SubSeq(stdout[b], 1, n) \in Seq(Genuine(b)')
      BY <3>1, SubSeqProperties
    <3>. QED
      BY <2>1, <2>2, <3>2
  <2>. QED
    BY <1>1, <2>1, <2>2
<1>3. ASSUME NEW a \in Accounts, ReadLoop(a)
      PROVE  stdout'[b] \in Seq(Genuine(b)')
  <2>1. stdout[a] # <<>> /\ stdout' = [stdout EXCEPT ![a] = Tail(@)]
    BY <1>3 DEF ReadLoop
  <2>. QED
    BY <1>1, <2>1, HeadTailProperties
<1>4. ASSUME NEW a \in Accounts, NEW r \in Requests, ChildReplies(a, r)
      PROVE  stdout'[b] \in Seq(Genuine(b)')
  <2>1. PICK t \in {NoThread, params[r].thread} :
          /\ stdout' = [stdout EXCEPT ![a] = @ \o <<Response(r, t)>>]
          /\ t # NoThread => params[r].method = "resume" /\ t \in home[a]
    BY <1>4 DEF ChildReplies, Emit
  <2>2. pc[r] = "sent" /\ target[r] = a
    BY <1>4 DEF ChildReplies, TrafficIsGenuine, PipesHoldTheirRequests
  <2>3. Response(r, t) \in Genuine(a)
    BY <2>1, <2>2 DEF Response, Genuine, Message, Learning, Parameters
  <2>4. <<Response(r, t)>> \in Seq(Genuine(a)')
    BY <2>3, GenuineGrows
  <2>. QED
    BY <1>1, <2>1, <2>4, ConcatProperties
<1>5. ASSUME NEW a \in Accounts, NEW r \in Requests, NEW t \in Threads,
             ChildCreatesThread(a, r, t)
      PROVE  stdout'[b] \in Seq(Genuine(b)')
  <2>1. PICK s \in {<<Response(r, t), Started(t)>>, <<Started(t), Response(r, t)>>} :
          stdout' = [stdout EXCEPT ![a] = @ \o s]
    BY <1>5 DEF ChildCreatesThread, Emit
  <2>2. pc[r] = "sent" /\ target[r] = a
    BY <1>5 DEF ChildCreatesThread, TrafficIsGenuine, PipesHoldTheirRequests
  <2>3. /\ pc'[r] = "sent" /\ target'[r] = a /\ params'[r].method \in Learning
        /\ t \in home'[a]
    BY <1>5, <2>2 DEF ChildCreatesThread, requestVars, Learning
  <2>4. Response(r, t) \in Genuine(a)' /\ Started(t) \in Genuine(a)'
    BY <2>3 DEF Response, Started, Genuine, Message
  <2>5. /\ <<Response(r, t), Started(t)>> \in Seq(Genuine(a)')
        /\ <<Started(t), Response(r, t)>> \in Seq(Genuine(a)')
    BY <2>4
  <2>6. s \in Seq(Genuine(a)')
    BY <2>1, <2>5
  <2>. QED
    BY <1>1, <2>1, <2>6, ConcatProperties
<1>. QED
  BY <1>1, <1>2, <1>3, <1>4, <1>5, Frames DEF ChildStep

\* Every step leaves only genuine messages in the inbound channel: readLoop moves
\* them from a child, with the name of that child.
LEMMA InboundStepGenuine ==
  ASSUME TypeOK, TrafficIsGenuine, Next
  PROVE  InboundIsGenuine'
<1>. DEFINE Old == {e \in Envelopes : e.message \in Genuine(e.from)}
            New == {e \in Envelopes : e.message \in Genuine(e.from)'}
<1>1. Old \subseteq New
  BY GenuineGrows DEF Envelopes
<1>2. inbound \in Seq(New)
  BY <1>1, SeqMonotonic DEF TrafficIsGenuine, InboundIsGenuine
<1>. SUFFICES inbound' \in Seq(New)
  BY DEF InboundIsGenuine
<1>. HIDE DEF Old, New
<1>3. ASSUME TakeInbound
      PROVE  inbound' \in Seq(New)
  BY <1>2, <1>3, HeadTailProperties DEF TakeInbound
<1>4. ASSUME NEW a \in Accounts, ReadLoop(a)
      PROVE  inbound' \in Seq(New)
  <2>1. /\ stdout[a] # <<>>
        /\ inbound' = Append(inbound, [from |-> a, message |-> Head(stdout[a])])
    BY <1>4 DEF ReadLoop
  <2>2. Head(stdout[a]) \in Genuine(a)
    BY <2>1, HeadTailProperties DEF TrafficIsGenuine, OutputIsGenuine
  <2>3. Head(stdout[a]) \in Message /\ Head(stdout[a]) \in Genuine(a)'
    BY <2>2, GenuineGrows DEF Genuine
  <2>4. [from |-> a, message |-> Head(stdout[a])] \in New
    BY <2>3 DEF New, Envelopes
  <2>. QED
    BY <1>2, <2>1, <2>4, AppendProperties
<1>. QED
  BY <1>2, <1>3, <1>4, Frames

\* The message inboundLoop has taken stays genuine while it is handled.
LEMMA HandledStep ==
  ASSUME TypeOK, TrafficIsGenuine, Next
  PROVE  HandledIsGenuine'
<1>1. ASSUME NEW a \in Accounts, NEW m \in Genuine(a),
             handling'.from = a, handling'.message = m, handling'.stage # "idle"
      PROVE  HandledIsGenuine'
  <2>1. m \in Genuine(a)'
    BY GenuineGrows
  <2>. QED
    BY <1>1, <2>1 DEF HandledIsGenuine, Genuine
<1>2. CASE handling' = handling
  <2>1. CASE handling.stage = "idle"
    BY <1>2, <2>1 DEF TrafficIsGenuine, HandledIsGenuine, Idle, Started
  <2>2. CASE handling.stage # "idle"
    BY <1>1, <1>2, <2>2 DEF TrafficIsGenuine, HandledIsGenuine
  <2>. QED
    BY <2>1, <2>2
<1>3. CASE TakeInbound
  <2>1. CASE handling' = handling
    BY <1>2, <2>1
  <2>2. CASE handling' # handling
    <3>1. /\ inbound # <<>>
          /\ handling' = [stage |-> "learning", from |-> Head(inbound).from,
                          message |-> Head(inbound).message]
      BY <1>3, <2>2 DEF TakeInbound
    <3>2. Head(inbound) \in {e \in Envelopes : e.message \in Genuine(e.from)}
      BY <3>1, HeadTailProperties DEF TrafficIsGenuine, InboundIsGenuine
    <3>3. /\ Head(inbound).from \in Accounts
          /\ Head(inbound).message \in Genuine(Head(inbound).from)
      BY <3>2 DEF Envelopes
    <3>. QED
      BY <1>1, <3>1, <3>3
  <2>. QED
    BY <2>1, <2>2
<1>4. CASE LearnThreadOwner
  <2>1. /\ handling.stage = "learning"
        /\ handling'.stage = "writing" /\ handling'.from = handling.from
        /\ handling'.message = handling.message
    BY <1>4 DEF LearnThreadOwner, TypeOK
  <2>. QED
    BY <1>1, <2>1 DEF TrafficIsGenuine, HandledIsGenuine
<1>5. CASE WriteToDesktop
  BY <1>5 DEF WriteToDesktop, HandledIsGenuine, Idle
<1>. QED
  BY <1>2, <1>3, <1>4, <1>5, Frames DEF InboundStep

\* A request in the pipe of a child is one that forward has sent to that child.
LEMMA PipesStep ==
  ASSUME TypeOK, TrafficIsGenuine, Next
  PROVE  PipesHoldTheirRequests'
<1>. SUFFICES ASSUME NEW b \in Accounts, NEW q \in stdin'[b]
              PROVE  pc'[q] = "sent" /\ target'[q] = b
  BY DEF PipesHoldTheirRequests
<1>. USE DEF TypeOK
<1>1. ASSUME q \in stdin[b]
      PROVE  pc'[q] = "sent" /\ target'[q] = b
  BY <1>1, SentIsStable DEF TrafficIsGenuine, PipesHoldTheirRequests
<1>2. ASSUME NEW r \in Requests, SendToChild(r)
      PROVE  pc'[q] = "sent" /\ target'[q] = b
  <2>1. CASE stdin' = stdin
    BY <1>1, <2>1
  <2>2. CASE stdin' # stdin
    <3>1. /\ stdin' = [stdin EXCEPT ![target[r]] = @ \union {r}]
          /\ pc' = [pc EXCEPT ![r] = "sent"] /\ target' = target
      BY <1>2, <2>2 DEF SendToChild, WriteSucceeds, WriteFails
    <3>. QED
      BY <1>1, <3>1
  <2>. QED
    BY <2>1, <2>2
<1>3. ASSUME NEW a \in Accounts, ChildStep(a)
      PROVE  pc'[q] = "sent" /\ target'[q] = b
  <2>1. PICK r \in Requests : stdin' = [stdin EXCEPT ![a] = @ \ {r}]
    BY <1>3 DEF ChildStep, ChildReplies, ChildCreatesThread
  <2>. QED
    BY <1>1, <2>1
<1>4. ASSUME NEW a \in Accounts, ChildExits(a)
      PROVE  pc'[q] = "sent" /\ target'[q] = b
  BY <1>1, <1>4 DEF ChildExits
<1>. QED
  BY <1>1, <1>2, <1>3, <1>4, Frames

\* Every step keeps the traffic genuine.
LEMMA NextTraffic ==
  ASSUME TypeOK, TrafficIsGenuine, Next
  PROVE  TrafficIsGenuine'
  BY OutputStep, InboundStepGenuine, HandledStep, PipesStep DEF TrafficIsGenuine

--------------------------------------------------------------------------------
(* Routes and answers. *)

\* No request has a route or an answer when the program starts.
LEMMA InitToken == Init => OneTokenPerRequest
  BY DEF Init, OneTokenPerRequest, OneToken, HandlingResponseTo

\* The routing decision and the dispatch touch neither routes nor answers.
LEMMA RoutingToken ==
  ASSUME TypeOK, NEW q \in Requests, OneToken(q), NEW r \in Requests,
         UNCHANGED <<routes, answers, handling>>,
         \/ pc' = pc /\ target' = target
         \/ /\ pc[r] \in {"unsent", "routing", "listing"}
            /\ \E stage \in {"routing", "forwarding", "answering", "listing"} :
                 pc' = [pc EXCEPT ![r] = stage]
            /\ target' = target \/ \E a : target' = [target EXCEPT ![r] = a]
  PROVE  OneToken(q)'
<1>. USE DEF TypeOK, HandlingResponseTo
<1>1. CASE pc' = pc /\ target' = target
  BY <1>1 DEF OneToken
<1>2. CASE q # r /\ ~(pc' = pc /\ target' = target)
  <2>1. pc'[q] = pc[q] /\ target'[q] = target[q]
    BY <1>2
  <2>. QED
    BY <2>1 DEF OneToken
<1>3. CASE q = r /\ ~(pc' = pc /\ target' = target)
  <2>1. /\ pc[q] \in {"unsent", "routing", "listing"}
        /\ pc'[q] \in {"routing", "forwarding", "answering", "listing"}
    BY <1>3
  <2>. QED
    BY <2>1 DEF OneToken
<1>. QED
  BY <1>1, <1>2, <1>3

\* forward creates the route of a request that has neither route nor answer.
LEMMA RegisterToken ==
  ASSUME TypeOK, NEW q \in Requests, OneToken(q), NEW r \in Requests, Register(r)
  PROVE  OneToken(q)'
<1>. USE DEF TypeOK, HandlingResponseTo
<1>1. /\ pc[r] = "forwarding" /\ UNCHANGED <<answers, handling, target>>
      /\ \/ routes' = routes \union {r} /\ pc' = [pc EXCEPT ![r] = "sending"]
         \/ routes' = routes /\ pc' = [pc EXCEPT ![r] = "answering"]
  BY DEF Register, ChildMissing, desktopVars
<1>2. CASE q = r
  BY <1>1, <1>2 DEF OneToken
<1>3. CASE q # r
  BY <1>1, <1>3 DEF OneToken
<1>. QED
  BY <1>2, <1>3

\* A successful send keeps the route; a failed one takes it away before the
\* multiplexer answers itself.
LEMMA SendToken ==
  ASSUME TypeOK, NEW q \in Requests, OneToken(q), NEW r \in Requests, SendToChild(r)
  PROVE  OneToken(q)'
<1>. USE DEF TypeOK, HandlingResponseTo
<1>1. /\ pc[r] = "sending" /\ UNCHANGED <<answers, handling, target>>
      /\ \/ routes' = routes /\ pc' = [pc EXCEPT ![r] = "sent"]
         \/ routes' = routes \ {r} /\ pc' = [pc EXCEPT ![r] = "answering"]
  BY DEF SendToChild, WriteSucceeds, WriteFails, desktopVars
<1>2. CASE q = r
  BY <1>1, <1>2 DEF OneToken
<1>3. CASE q # r
  BY <1>1, <1>3 DEF OneToken
<1>. QED
  BY <1>2, <1>3

\* The multiplexer answers only requests that have neither route nor answer.
LEMMA OwnAnswerToken ==
  ASSUME TypeOK, NEW q \in Requests, OneToken(q), NEW r \in Requests, WriteOwnAnswer(r)
  PROVE  OneToken(q)'
<1>. USE DEF TypeOK, HandlingResponseTo
<1>1. /\ pc[r] = "answering" /\ UNCHANGED <<routes, handling, target>>
      /\ pc' = [pc EXCEPT ![r] = "done"]
      /\ answers' = [answers EXCEPT ![r] = Append(@, Mux)]
  BY DEF WriteOwnAnswer
<1>2. CASE q = r
  <2>1. answers[q] = <<>> /\ q \notin routes /\ ~HandlingResponseTo(q)
    BY <1>1, <1>2 DEF OneToken
  <2>2. answers'[q] = <<Mux>> /\ pc'[q] = "done"
    BY <1>1, <1>2, <2>1
  <2>. QED
    BY <1>1, <2>1, <2>2 DEF OneToken
<1>3. CASE q # r
  BY <1>1, <1>3 DEF OneToken
<1>. QED
  BY <1>2, <1>3

\* A response takes the route of its request along.
LEMMA TakeToken ==
  ASSUME TypeOK, TrafficIsGenuine, NEW q \in Requests, OneToken(q), TakeInbound
  PROVE  OneToken(q)'
<1>. USE ConstantsAssumption DEF TypeOK
<1>1. /\ UNCHANGED <<pc, answers, target>> /\ inbound # <<>> /\ handling = Idle
      /\ ~HandlingResponseTo(q)
  BY DEF TakeInbound, requestVars, desktopVars, HandlingResponseTo
<1>2. CASE UNCHANGED <<handling, routes>>
  BY <1>1, <1>2 DEF OneToken, HandlingResponseTo
<1>3. CASE ~UNCHANGED <<handling, routes>>
  <2>. DEFINE m == Head(inbound).message
              a == Head(inbound).from
  <2>1. /\ handling' = [stage |-> "learning", from |-> a, message |-> m]
        /\ routes' = routes \ {m.request}
        /\ m.type = "response" => m.request \in routes
    BY <1>3 DEF TakeInbound
  <2>2. a \in Accounts /\ m \in Genuine(a)
    <3>1. Head(inbound) \in {e \in Envelopes : e.message \in Genuine(e.from)}
      BY <1>1, HeadTailProperties DEF TrafficIsGenuine, InboundIsGenuine
    <3>. QED
      BY <3>1 DEF Envelopes
  <2>3. CASE m.type = "response"
    <3>1. pc[m.request] = "sent" /\ m.request \in routes
      BY <2>1, <2>2, <2>3 DEF Genuine
    <3>2. CASE q = m.request
      BY <1>1, <2>1, <2>3, <3>1, <3>2 DEF OneToken, HandlingResponseTo, Idle
    <3>3. CASE q # m.request
      BY <1>1, <2>1, <2>3, <3>3 DEF OneToken, HandlingResponseTo
    <3>. QED
      BY <3>2, <3>3
  <2>4. CASE m.type # "response"
    <3>1. m.request = NoRequest
      BY <2>2, <2>4 DEF Genuine
    <3>2. routes' = routes /\ ~HandlingResponseTo(q)'
      BY <2>1, <2>4, <3>1 DEF HandlingResponseTo
    <3>. QED
      BY <1>1, <3>2 DEF OneToken
  <2>. QED
    BY <2>3, <2>4
<1>. QED
  BY <1>2, <1>3

\* The response that inboundLoop writes becomes the one answer of its request,
\* and its author is the account the request was sent to.
LEMMA WriteToken ==
  ASSUME TypeOK, TrafficIsGenuine, NEW q \in Requests, OneToken(q), WriteToDesktop
  PROVE  OneToken(q)'
<1>. USE ConstantsAssumption DEF TypeOK
<1>. DEFINE m == handling.message
<1>1. /\ UNCHANGED <<pc, routes, target>> /\ handling.stage = "writing" /\ handling' = Idle
      /\ ~HandlingResponseTo(q)'
      /\ answers' = IF m.type = "response"
                      THEN [answers EXCEPT ![m.request] = Append(@, handling.from)]
                      ELSE answers
  BY DEF WriteToDesktop, requestVars, HandlingResponseTo
<1>2. handling # Idle /\ handling.from \in Accounts /\ m \in Genuine(handling.from)
  BY <1>1 DEF TrafficIsGenuine, HandledIsGenuine, Idle
<1>3. CASE m.type = "response" /\ m.request = q
  <2>1. HandlingResponseTo(q) /\ target[q] = handling.from
    BY <1>2, <1>3 DEF HandlingResponseTo, Genuine
  <2>2. answers[q] = <<>> /\ pc[q] = "sent" /\ q \notin routes
    BY <2>1 DEF OneToken
  <2>3. answers'[q] = <<target[q]>>
    BY <1>1, <1>3, <2>1, <2>2
  <2>4. pc'[q] = "sent" /\ q \notin routes' /\ answers'[q] = <<target'[q]>>
    BY <1>1, <2>2, <2>3
  <2>5. answers'[q] # <<>>
    BY <2>4
  <2>. QED
    BY <1>1, <2>4, <2>5 DEF OneToken
<1>4. CASE ~(m.type = "response" /\ m.request = q)
  <2>1. answers'[q] = answers[q] /\ ~HandlingResponseTo(q)
    BY <1>1, <1>4 DEF HandlingResponseTo
  <2>. QED
    BY <1>1, <2>1 DEF OneToken
<1>. QED
  BY <1>3, <1>4

\* Every step keeps a request's route, response and answer exclusive.
LEMMA NextToken ==
  ASSUME TypeOK, TrafficIsGenuine, OneTokenPerRequest, Next
  PROVE  OneTokenPerRequest'
<1>. SUFFICES ASSUME NEW q \in Requests, OneToken(q)
              PROVE  OneToken(q)'
  BY DEF OneTokenPerRequest
<1>1. CASE UNCHANGED <<pc, target, routes, answers, handling>>
  BY <1>1 DEF OneToken, HandlingResponseTo
<1>2. ASSUME NEW r \in Requests, NEW m \in Methods, NEW t \in Threads \union {NoThread},
             NEW a \in Accounts \union {NoAccount}, HandleClient(r, m, t, a)
      PROVE  OneToken(q)'
  BY <1>2, RoutingToken DEF HandleClient, desktopVars
<1>3. ASSUME NEW r \in Requests, RequestStep(r)
      PROVE  OneToken(q)'
  <2>1. CASE RouteNewThread(r)
    BY <2>1, RoutingToken DEF RouteNewThread, RouteTo, desktopVars
  <2>2. CASE RouteExisting(r)
    BY <2>2, RoutingToken DEF RouteExisting, RouteTo, desktopVars
  <2>3. CASE RouteLimits(r)
    BY <2>3, RoutingToken DEF RouteLimits, desktopVars
  <2>4. CASE StartListing(r)
    BY <2>4, RoutingToken DEF StartListing, desktopVars
  <2>5. CASE (\E a \in Accounts : ListHome(r, a)) \/ CheckOwner(r) \/ RecordOwner(r)
    BY <1>1, <2>5 DEF ListHome, CheckOwner, RecordOwner, desktopVars
  <2>6. CASE FinishListing(r)
    BY <2>6, RoutingToken DEF FinishListing, desktopVars
  <2>7. CASE Register(r)
    BY <2>7, RegisterToken
  <2>8. CASE SendToChild(r)
    BY <2>8, SendToken
  <2>9. CASE WriteOwnAnswer(r)
    BY <2>9, OwnAnswerToken
  <2>. QED
    BY <1>3, <2>1, <2>2, <2>3, <2>4, <2>5, <2>6, <2>7, <2>8, <2>9 DEF RequestStep
<1>4. CASE TakeInbound
  BY <1>4, TakeToken
<1>5. CASE LearnThreadOwner
  <2>1. /\ UNCHANGED <<pc, target, routes, answers>>
        /\ handling.stage = "learning" /\ handling'.stage = "writing"
        /\ handling'.message = handling.message
    BY <1>5 DEF LearnThreadOwner, requestVars, desktopVars, TypeOK
  <2>2. HandlingResponseTo(q)' <=> HandlingResponseTo(q)
    BY <2>1 DEF HandlingResponseTo, Idle
  <2>. QED
    BY <2>1, <2>2 DEF OneToken
<1>6. CASE WriteToDesktop
  BY <1>6, WriteToken
<1>. QED
  BY <1>1, <1>2, <1>3, <1>4, <1>5, <1>6, Frames DEF InboundStep, RequestStep

--------------------------------------------------------------------------------
(* Chats and their owners. *)

\* The owners that Open has read hold their chats.
LEMMA InitChats == Init => ChatsAreKnown
  BY ConstantsAssumption DEF Init, ChatsAreKnown, OwnerHoldsThread, ListedIsHeld, Unlisted,
     ShownIsKnown, Known, ParametersFitMethod, Idle, FollowUps

\* A chat named by the message inboundLoop works on is in the home of its author.
LEMMA HandledIsHeld ==
  ASSUME TrafficIsGenuine, handling.stage # "idle", handling.message.thread # NoThread
  PROVE  /\ handling.from \in Accounts
         /\ handling.message.thread \in Threads
         /\ handling.message.thread \in home[handling.from]
         /\ Learns(handling.message)
  BY DEF TrafficIsGenuine, HandledIsGenuine, Genuine, Learns, Message

\* The chat that a listing records an owner for is in the home of that owner.
LEMMA RecordedIsHeld ==
  ASSUME TypeOK, ListedIsHeld, NEW r \in Requests, RecordOwner(r)
  PROVE  \E a \in Accounts, t \in Threads :
           /\ t \in home[a]
           /\ owners' = [owners EXCEPT ![t] = a]
           /\ \A q \in Requests :
                /\ listing'[q].found = listing[q].found
                /\ listing'[q].unowned \subseteq listing[q].unowned
                /\ listing'[q].shown \subseteq listing[q].shown \union {t}
<1>1. PICK a \in Accounts, t \in Threads :
        /\ <<a, t>> \in listing[r].unowned
        /\ owners' = [owners EXCEPT ![t] = a]
        /\ listing' = [listing EXCEPT ![r].unowned = {}, ![r].shown = @ \union {t}]
  BY DEF RecordOwner, ListedOwner
<1>2. t \in home[a]
  BY <1>1 DEF ListedIsHeld
<1>3. ASSUME NEW q \in Requests
      PROVE  /\ listing'[q].found = listing[q].found
             /\ listing'[q].unowned \subseteq listing[q].unowned
             /\ listing'[q].shown \subseteq listing[q].shown \union {t}
  BY <1>1 DEF TypeOK, Listings
<1>. QED
  BY <1>1, <1>2, <1>3

\* A chat whose owner has been looked up is shown if it has one, else remembered.
LEMMA CheckedListing ==
  ASSUME TypeOK, NEW r \in Requests, CheckOwner(r)
  PROVE  \E a \in Accounts, t \in Threads :
           \A q \in Requests :
             /\ listing'[q].found \subseteq listing[q].found
             /\ listing'[q].unowned \subseteq listing[q].found \union listing[q].unowned
             /\ \/ listing'[q].shown = listing[q].shown
                \/ owners[t] # NoAccount /\ listing'[q].shown = listing[q].shown \union {t}
<1>1. PICK a \in Accounts, t \in Threads :
        /\ <<a, t>> \in listing[r].found
        /\ IF owners[t] = NoAccount
             THEN listing' = [listing EXCEPT ![r].found = @ \ {<<a, t>>},
                                             ![r].unowned = {<<a, t>>}]
             ELSE listing' = [listing EXCEPT ![r].found = @ \ {<<a, t>>},
                                             ![r].shown = @ \union {t}]
  BY DEF CheckOwner
<1>2. ASSUME NEW q \in Requests
      PROVE  /\ listing'[q].found \subseteq listing[q].found
             /\ listing'[q].unowned \subseteq listing[q].found \union listing[q].unowned
             /\ \/ listing'[q].shown = listing[q].shown
                \/ owners[t] # NoAccount /\ listing'[q].shown = listing[q].shown \union {t}
  <2>1. CASE q # r
    BY <1>1, <2>1 DEF TypeOK
  <2>2. CASE q = r /\ owners[t] = NoAccount
    <3>1. listing'[r] = [listing[r] EXCEPT !.found = listing[r].found \ {<<a, t>>},
                                           !.unowned = {<<a, t>>}]
      BY <1>1, <2>2 DEF TypeOK, Listings
    <3>. QED
      BY <1>1, <2>2, <3>1 DEF TypeOK, Listings
  <2>3. CASE q = r /\ owners[t] # NoAccount
    <3>1. listing'[r] = [listing[r] EXCEPT !.found = listing[r].found \ {<<a, t>>},
                                           !.shown = listing[r].shown \union {t}]
      BY <1>1, <2>3 DEF TypeOK, Listings
    <3>. QED
      BY <1>1, <2>3, <3>1 DEF TypeOK, Listings
  <2>. QED
    BY <2>1, <2>2, <2>3
<1>. QED
  BY <1>2

\* The three writers of the owner table record only accounts that hold the chat,
\* and a home only grows.
LEMMA OwnerStep ==
  ASSUME TypeOK, TrafficIsGenuine, ChatsAreKnown, Next
  PROVE  OwnerHoldsThread'
<1>. SUFFICES ASSUME NEW t \in Threads, owners'[t] # NoAccount
              PROVE  t \in home'[owners'[t]]
  BY DEF OwnerHoldsThread
<1>. USE ConstantsAssumption DEF TypeOK
<1>1. ASSUME owners'[t] = owners[t]
      PROVE  t \in home'[owners'[t]]
  BY <1>1, HomesGrow DEF ChatsAreKnown, OwnerHoldsThread
<1>2. CASE LearnThreadOwner
  <2>1. CASE handling.message.thread = t /\ Learns(handling.message)
    <3>1. owners'[t] = handling.from /\ handling.stage # "idle" /\ t # NoThread
      BY <1>2, <2>1 DEF LearnThreadOwner, OwnersWith
    <3>. QED
      BY <2>1, <3>1, HandledIsHeld, HomesGrow
  <2>2. CASE ~(handling.message.thread = t /\ Learns(handling.message))
    BY <1>1, <1>2, <2>2 DEF LearnThreadOwner, OwnersWith
  <2>. QED
    BY <2>1, <2>2
<1>3. ASSUME NEW r \in Requests, RecordOwner(r)
      PROVE  t \in home'[owners'[t]]
  <2>1. PICK a \in Accounts, u \in Threads :
          u \in home[a] /\ owners' = [owners EXCEPT ![u] = a]
    BY <1>3, RecordedIsHeld DEF ChatsAreKnown
  <2>. QED
    BY <1>1, <2>1, HomesGrow
<1>4. ASSUME NEW a \in Accounts, CommitRemoval(a)
      PROVE  t \in home'[owners'[t]]
  BY <1>1, <1>4 DEF CommitRemoval, OwnersWithout
<1>. QED
  BY <1>1, <1>2, <1>3, <1>4, Frames

\* What a listing collects was read from the home it is attributed to.
LEMMA ListedStep ==
  ASSUME TypeOK, ChatsAreKnown, Next
  PROVE  ListedIsHeld'
<1>. SUFFICES ASSUME NEW q \in Requests, NEW b \in Accounts, NEW u \in Threads,
                     <<b, u>> \in listing'[q].found \union listing'[q].unowned
              PROVE  u \in home'[b]
  BY DEF ListedIsHeld
<1>1. ASSUME <<b, u>> \in listing[q].found \union listing[q].unowned
      PROVE  u \in home'[b]
  BY <1>1, HomesGrow DEF ChatsAreKnown, ListedIsHeld
<1>2. ASSUME NEW r \in Requests, RequestStep(r)
      PROVE  u \in home'[b]
  <2>. USE DEF TypeOK, Listings
  <2>1. CASE listing' = listing
    BY <1>1, <2>1
  <2>2. CASE StartListing(r)
    BY <1>1, <2>2 DEF StartListing
  <2>3. ASSUME NEW a \in Accounts, ListHome(r, a)
        PROVE  u \in home'[b]
    <3>1. PICK got \in SUBSET home[a] :
            listing' = [listing EXCEPT ![r].waiting = @ \ {a},
                                       ![r].found = @ \union ({a} \X got)]
      BY <2>3 DEF ListHome
    <3>2. \/ <<b, u>> \in listing[q].found \union listing[q].unowned
          \/ <<b, u>> \in {a} \X got
      BY <3>1
    <3>. QED
      BY <1>1, <3>2, HomesGrow
  <2>4. CASE CheckOwner(r)
    BY <1>1, <2>4, CheckedListing
  <2>5. CASE RecordOwner(r)
    BY <1>1, <2>5, RecordedIsHeld DEF ChatsAreKnown
  <2>. QED
    BY <1>2, <2>1, <2>2, <2>3, <2>4, <2>5
       DEF RequestStep, RouteNewThread, RouteExisting, RouteLimits, Register, SendToChild,
           WriteOwnAnswer, FinishListing
<1>. QED
  BY <1>1, <1>2, Frames

\* A chat that was known stays known: only a removal clears its owner, and it
\* leaves its mark on the account that held the chat.
LEMMA KnownIsStable ==
  ASSUME TypeOK, TrafficIsGenuine, ChatsAreKnown, Next, NEW t \in Threads, Known(t)
  PROVE  Known(t)'
<1>. USE ConstantsAssumption DEF TypeOK
<1>1. ASSUME NEW a \in Accounts, Gone(a)
      PROVE  Gone(a)'
  <2>1. ASSUME NEW b \in Accounts, ControlStep(b)
        PROVE  Gone(a)'
    BY <1>1, <2>1 DEF ControlStep, AddToStore, StartChild, BeginRemove, DropChild,
       BackUpHome, CommitRemoval, Gone
  <2>. QED
    BY <1>1, <2>1, Frames DEF Gone
<1>2. CASE \E a \in Accounts : Gone(a) /\ t \in home[a]
  BY <1>1, <1>2, HomesGrow DEF Known
<1>3. CASE owners[t] # NoAccount
  <2>1. CASE owners'[t] # NoAccount
    BY <2>1 DEF Known
  <2>2. CASE LearnThreadOwner
    <3>1. handling.stage # "idle"
      BY <2>2 DEF LearnThreadOwner
    <3>2. handling.from \in Accounts
      BY <3>1 DEF TrafficIsGenuine, HandledIsGenuine
    <3>3. \/ owners' = owners
          \/ owners' = [owners EXCEPT ![handling.message.thread] = handling.from]
      BY <2>2 DEF LearnThreadOwner, OwnersWith
    <3>. QED
      BY <1>3, <2>1, <3>2, <3>3
  <2>3. ASSUME NEW r \in Requests, RecordOwner(r)
        PROVE  Known(t)'
    <3>1. PICK a \in Accounts, u \in Threads : owners' = [owners EXCEPT ![u] = a]
      BY <2>3, RecordedIsHeld DEF ChatsAreKnown
    <3>. QED
      BY <1>3, <2>1, <3>1
  <2>4. ASSUME NEW a \in Accounts, CommitRemoval(a)
        PROVE  Known(t)'
    <3>1. CASE owners[t] = a
      <4>1. t \in home[a] /\ Gone(a)' /\ home' = home
        BY <1>3, <2>4, <3>1 DEF CommitRemoval, Gone, ChatsAreKnown, OwnerHoldsThread, childVars
      <4>. QED
        BY <4>1 DEF Known
    <3>2. CASE owners[t] # a
      BY <1>3, <2>4, <3>2 DEF CommitRemoval, OwnersWithout, Known
    <3>. QED
      BY <3>1, <3>2
  <2>. QED
    BY <1>3, <2>1, <2>2, <2>3, <2>4, Frames
<1>. QED
  BY <1>2, <1>3 DEF Known

\* A chat goes to the desktop only after its owner is in the table, or was there
\* until its account was removed.
LEMMA ShownStep ==
  ASSUME TypeOK, TrafficIsGenuine, ChatsAreKnown, Next
  PROVE  ShownIsKnown'
<1>. USE ConstantsAssumption DEF TypeOK
<1>1. \A t \in seen' : Known(t)'
  <2>1. \A t \in seen : Known(t)'
    BY KnownIsStable DEF ChatsAreKnown, ShownIsKnown
  <2>2. ASSUME NEW r \in Requests, WriteOwnAnswer(r)
        PROVE  \A t \in seen' : Known(t)'
    <3>1. listing[r].shown \subseteq Threads
      BY DEF Listings
    <3>2. \A t \in listing[r].shown : Known(t)'
      BY <3>1, KnownIsStable DEF ChatsAreKnown, ShownIsKnown
    <3>. QED
      BY <2>1, <2>2, <3>2 DEF WriteOwnAnswer
  <2>3. CASE WriteToDesktop
    <3>1. handling.stage = "writing" /\ seen' = seen \union ({handling.message.thread} \ {NoThread})
      BY <2>3 DEF WriteToDesktop
    <3>2. ASSUME handling.message.thread # NoThread
          PROVE  Known(handling.message.thread)
      BY <3>1, <3>2 DEF ChatsAreKnown, ShownIsKnown
    <3>3. ASSUME NEW t \in Threads, t = handling.message.thread
          PROVE  Known(t)'
      BY <3>2, <3>3, KnownIsStable
    <3>4. handling.message.thread \in Threads \union {NoThread}
      BY DEF Message
    <3>. QED
      BY <2>1, <3>1, <3>3, <3>4
  <2>. QED
    BY <2>1, <2>2, <2>3, Frames
<1>2. ASSUME NEW q \in Requests, NEW t \in listing'[q].shown
      PROVE  Known(t)'
  <2>1. ASSUME t \in listing[q].shown
        PROVE  Known(t)'
    <3>1. t \in Threads
      BY <2>1 DEF Listings
    <3>. QED
      BY <2>1, <3>1, KnownIsStable DEF ChatsAreKnown, ShownIsKnown
  <2>2. ASSUME NEW r \in Requests, RequestStep(r)
        PROVE  Known(t)'
    <3>1. CASE listing' = listing
      BY <2>1, <3>1
    <3>2. CASE StartListing(r)
      BY <2>1, <3>2 DEF StartListing, Listings
    <3>3. ASSUME NEW a \in Accounts, ListHome(r, a)
          PROVE  Known(t)'
      BY <2>1, <3>3 DEF ListHome, Listings
    <3>4. CASE CheckOwner(r)
      <4>1. PICK u \in Threads :
              \/ listing'[q].shown = listing[q].shown
              \/ owners[u] # NoAccount /\ listing'[q].shown = listing[q].shown \union {u}
        BY <3>4, CheckedListing
      <4>. QED
        BY <2>1, <4>1, KnownIsStable DEF Known
    <3>5. CASE RecordOwner(r)
      <4>1. PICK a \in Accounts, u \in Threads :
              /\ owners' = [owners EXCEPT ![u] = a]
              /\ listing'[q].shown \subseteq listing[q].shown \union {u}
        BY <3>5, RecordedIsHeld DEF ChatsAreKnown
      <4>2. owners'[u] # NoAccount
        BY <4>1
      <4>. QED
        BY <2>1, <4>1, <4>2 DEF Known
    <3>. QED
      BY <2>2, <3>1, <3>2, <3>3, <3>4, <3>5
         DEF RequestStep, RouteNewThread, RouteExisting, RouteLimits, Register, SendToChild,
             WriteOwnAnswer, FinishListing
  <2>. QED
    BY <2>1, <2>2, Frames
<1>3. ASSUME handling'.stage = "writing", handling'.message.thread # NoThread
      PROVE  Known(handling.message.thread)'
  <2>1. ASSUME handling' = handling
        PROVE  Known(handling.message.thread)'
    <3>1. handling.message.thread \in Threads
      BY <1>3, <2>1 DEF Message
    <3>2. Known(handling.message.thread)
      BY <1>3, <2>1 DEF ChatsAreKnown, ShownIsKnown
    <3>3. ASSUME NEW t \in Threads, t = handling.message.thread
          PROVE  Known(t)'
      BY <3>2, <3>3, KnownIsStable
    <3>. QED
      BY <2>1, <3>1, <3>3 DEF Known
  <2>2. CASE TakeInbound
    BY <1>3, <2>1, <2>2 DEF TakeInbound
  <2>3. CASE LearnThreadOwner
    <3>1. /\ handling.stage = "learning" /\ handling'.message = handling.message
          /\ owners' = IF Learns(handling.message)
                         THEN OwnersWith(handling.message.thread, handling.from)
                         ELSE owners
      BY <2>3 DEF LearnThreadOwner
    <3>2. /\ handling.from \in Accounts /\ handling.message.thread \in Threads
          /\ Learns(handling.message)
      BY <1>3, <3>1, HandledIsHeld
    <3>3. owners'[handling'.message.thread] = handling.from
      BY <3>1, <3>2 DEF OwnersWith
    <3>. QED
      BY <3>2, <3>3 DEF Known
  <2>4. CASE WriteToDesktop
    BY <1>3, <2>4 DEF WriteToDesktop, Idle
  <2>. QED
    BY <2>1, <2>2, <2>3, <2>4, Frames DEF InboundStep
<1>. QED
  BY <1>1, <1>2, <1>3 DEF ShownIsKnown

\* A follow-up names a chat the desktop has seen.
LEMMA ParametersStep ==
  ASSUME TypeOK, ChatsAreKnown, Next
  PROVE  ParametersFitMethod'
<1>. USE DEF TypeOK
<1>1. seen \subseteq seen'
  BY Frames DEF WriteOwnAnswer, WriteToDesktop
<1>2. CASE params' = params
  BY <1>1, <1>2 DEF ChatsAreKnown, ParametersFitMethod
<1>3. ASSUME NEW r \in Requests, NEW m \in Methods, NEW t \in Threads \union {NoThread},
             NEW a \in Accounts \union {NoAccount}, HandleClient(r, m, t, a)
      PROVE  ParametersFitMethod'
  BY <1>1, <1>3 DEF HandleClient, ChatsAreKnown, ParametersFitMethod
<1>4. ASSUME NEW r \in Requests, RequestStep(r)
      PROVE  params' = params
  BY <1>4 DEF RequestStep, RouteNewThread, RouteExisting, RouteLimits, Register,
     SendToChild, WriteOwnAnswer, StartListing, ListHome, CheckOwner, RecordOwner,
     FinishListing
<1>. QED
  BY <1>2, <1>3, <1>4, Frames

\* Every step keeps the table of owners and what the desktop knows in agreement.
LEMMA NextChats ==
  ASSUME TypeOK, TrafficIsGenuine, ChatsAreKnown, Next
  PROVE  ChatsAreKnown'
  BY OwnerStep, ListedStep, ShownStep, ParametersStep DEF ChatsAreKnown

--------------------------------------------------------------------------------
(* The way of a request, removals, and the homes. *)

\* What one step can do to one request.
LEMMA RequestMoves ==
  ASSUME TypeOK, Next, NEW q \in Requests
  PROVE  \/ pc'[q] = pc[q] /\ target'[q] = target[q] /\ params'[q] = params[q]
         \/ \E m \in Methods, t \in Threads \union {NoThread},
               a \in Accounts \union {NoAccount} : HandleClient(q, m, t, a)
         \/ RouteNewThread(q) /\ target'[q] \in Accounts /\ pc'[q] = "forwarding"
         \/ RouteExisting(q)
         \/ /\ pc[q] # "unsent" /\ pc'[q] \in {"listing", "answering", "done"}
            /\ target'[q] = target[q] /\ params'[q] = params[q]
         \/ /\ pc[q] \in {"forwarding", "sending"} /\ pc'[q] \in {"sending", "sent"}
            /\ target'[q] = target[q] /\ params'[q] = params[q]
<1>. DEFINE Goal == \/ pc'[q] = pc[q] /\ target'[q] = target[q] /\ params'[q] = params[q]
                    \/ \E m \in Methods, t \in Threads \union {NoThread},
                          a \in Accounts \union {NoAccount} : HandleClient(q, m, t, a)
                    \/ RouteNewThread(q) /\ target'[q] \in Accounts /\ pc'[q] = "forwarding"
                    \/ RouteExisting(q)
                    \/ /\ pc[q] # "unsent" /\ pc'[q] \in {"listing", "answering", "done"}
                       /\ target'[q] = target[q] /\ params'[q] = params[q]
                    \/ /\ pc[q] \in {"forwarding", "sending"} /\ pc'[q] \in {"sending", "sent"}
                       /\ target'[q] = target[q] /\ params'[q] = params[q]
<1>1. CASE UNCHANGED <<pc, params, target>>
  BY <1>1
<1>2. ASSUME NEW r \in Requests, NEW m \in Methods, NEW t \in Threads \union {NoThread},
             NEW a \in Accounts \union {NoAccount}, HandleClient(r, m, t, a)
      PROVE  Goal
  <2>1. CASE r = q
    BY <1>2, <2>1
  <2>2. CASE r # q
    BY <1>2, <2>2 DEF HandleClient, TypeOK
  <2>. QED
    BY <2>1, <2>2
<1>3. ASSUME NEW r \in Requests, RequestStep(r)
      PROVE  Goal
  <2>. USE DEF TypeOK
  <2>1. CASE r # q
    <3>1. /\ params' = params
          /\ pc' = pc \/ \E stage : pc' = [pc EXCEPT ![r] = stage]
          /\ target' = target \/ \E a : target' = [target EXCEPT ![r] = a]
      BY <1>3 DEF RequestStep, RouteNewThread, RouteExisting, RouteTo, RouteLimits,
         Register, ChildMissing, SendToChild, WriteSucceeds, WriteFails, WriteOwnAnswer,
         StartListing, ListHome, CheckOwner, RecordOwner, FinishListing
    <3>. QED
      BY <2>1, <3>1
  <2>2. CASE r = q /\ RouteNewThread(q)
    BY <2>2 DEF RouteNewThread, RouteTo
  <2>3. CASE r = q /\ RouteExisting(q)
    BY <2>3
  <2>4. CASE r = q /\ Register(q)
    BY <2>4 DEF Register, ChildMissing
  <2>5. CASE r = q /\ SendToChild(q)
    BY <2>5 DEF SendToChild, WriteSucceeds, WriteFails
  <2>6. CASE r = q /\ (RouteLimits(q) \/ StartListing(q) \/ FinishListing(q))
    BY <2>6 DEF RouteLimits, StartListing, FinishListing
  <2>7. CASE r = q /\ WriteOwnAnswer(q)
    BY <2>7 DEF WriteOwnAnswer
  <2>8. CASE (\E a \in Accounts : ListHome(r, a)) \/ CheckOwner(r) \/ RecordOwner(r)
    BY <2>8 DEF ListHome, CheckOwner, RecordOwner
  <2>. QED
    BY <1>3, <2>1, <2>2, <2>3, <2>4, <2>5, <2>6, <2>7, <2>8 DEF RequestStep
<1>. QED
  BY <1>1, <1>2, <1>3, Frames

\* routeExistingRequest sends a request to an account that holds its chat.
LEMMA ExistingIsRouted ==
  ASSUME TypeOK, ChatsAreKnown, NEW q \in Requests, RouteExisting(q)
  PROVE  /\ pc[q] = "routing" /\ pc'[q] = "forwarding"
         /\ target'[q] \in Accounts /\ params' = params
         /\ params[q].method \in FollowUps =>
              \/ params[q].thread \in home[target'[q]]
              \/ \E a \in Accounts : Gone(a) /\ params[q].thread \in home[a]
<1>. USE ConstantsAssumption DEF TypeOK
<1>1. /\ pc[q] = "routing" /\ pc'[q] = "forwarding" /\ params' = params
      /\ \/ params[q].account \in accounts /\ target'[q] = params[q].account
         \/ target'[q] = OwnerOrController(params[q].thread)
  BY DEF RouteExisting, RouteTo
<1>2. target'[q] \in Accounts
  BY <1>1 DEF OwnerOrController
<1>3. ASSUME params[q].method \in FollowUps
      PROVE  \/ params[q].thread \in home[target'[q]]
             \/ \E a \in Accounts : Gone(a) /\ params[q].thread \in home[a]
  <2>. DEFINE t == params[q].thread
  <2>1. params[q].account = NoAccount /\ t \in seen
    BY <1>3 DEF ChatsAreKnown, ParametersFitMethod, FollowUps
  <2>2. target'[q] = OwnerOrController(t) /\ t \in Threads /\ Known(t)
    BY <1>1, <2>1 DEF ChatsAreKnown, ShownIsKnown
  <2>3. CASE owners[t] # NoAccount
    BY <2>2, <2>3 DEF OwnerOrController, ChatsAreKnown, OwnerHoldsThread
  <2>4. CASE owners[t] = NoAccount
    BY <2>2, <2>4 DEF Known
  <2>. QED
    BY <2>3, <2>4
<1>. QED
  BY <1>1, <1>2, <1>3

\* Routing gives a request its target once, before it is forwarded.
LEMMA RoutedStep ==
  ASSUME TypeOK, ChatsAreKnown, RequestsAreRouted, Next
  PROVE  RequestsAreRouted'
<1>. SUFFICES ASSUME NEW q \in Requests
              PROVE  /\ pc'[q] \in {"unsent", "routing"} => target'[q] = NoAccount
                     /\ pc'[q] \in {"forwarding", "sending", "sent"} => target'[q] \in Accounts
  BY DEF RequestsAreRouted
<1>1. ASSUME NEW m \in Methods, NEW t \in Threads \union {NoThread},
             NEW a \in Accounts \union {NoAccount}, HandleClient(q, m, t, a)
      PROVE  pc[q] = "unsent" /\ pc'[q] = "routing" /\ target' = target
  BY <1>1 DEF HandleClient, TypeOK
<1>2. CASE RouteExisting(q)
  BY <1>2, ExistingIsRouted
<1>. QED
  BY <1>1, <1>2, RequestMoves DEF RequestsAreRouted

\* A removed account stays removed.
LEMMA RemovedIsStable ==
  ASSUME TypeOK, Next, NEW a \in Accounts, Gone(a)
  PROVE  Gone(a)'
<1>1. ASSUME NEW b \in Accounts, ControlStep(b)
      PROVE  Gone(a)'
  BY <1>1 DEF ControlStep, AddToStore, StartChild, BeginRemove, DropChild, BackUpHome,
     CommitRemoval, TypeOK, Gone
<1>. QED
  BY <1>1, Frames DEF Gone

\* A follow-up under way goes to a home that holds its chat, after every step.
LEMMA FollowUpStep ==
  ASSUME TypeOK, ChatsAreKnown, RequestsAreRouted, FollowUpReachesHome, Next
  PROVE  FollowUpReachesHome'
<1>. SUFFICES ASSUME NEW q \in Requests, params'[q].method \in FollowUps,
                     pc'[q] \in {"forwarding", "sending", "sent"}
              PROVE  \/ params'[q].thread \in home'[target'[q]]
                     \/ \E a \in Accounts : Gone(a)' /\ params'[q].thread \in home'[a]
  BY DEF FollowUpReachesHome
<1>1. SUFFICES /\ target'[q] \in Accounts /\ params'[q] = params[q]
               /\ \/ params[q].thread \in home[target'[q]]
                  \/ \E a \in Accounts : Gone(a) /\ params[q].thread \in home[a]
  BY <1>1, RemovedIsStable, HomesGrow
<1>2. ASSUME pc[q] \in {"forwarding", "sending", "sent"}, target'[q] = target[q],
             params'[q] = params[q]
      PROVE  /\ target'[q] \in Accounts /\ params'[q] = params[q]
             /\ \/ params[q].thread \in home[target'[q]]
                \/ \E a \in Accounts : Gone(a) /\ params[q].thread \in home[a]
  BY <1>2 DEF RequestsAreRouted, FollowUpReachesHome
<1>3. ASSUME NEW m \in Methods, NEW t \in Threads \union {NoThread},
             NEW a \in Accounts \union {NoAccount}, HandleClient(q, m, t, a)
      PROVE  FALSE
  BY <1>3 DEF HandleClient, TypeOK
<1>4. CASE RouteExisting(q)
  BY <1>4, ExistingIsRouted
<1>5. CASE RouteNewThread(q)
  BY <1>5 DEF RouteNewThread, FollowUps
<1>. QED
  BY <1>2, <1>3, <1>4, <1>5, RequestMoves

\* An account stays in the pool until its removal is committed.
LEMMA RemovalStep ==
  ASSUME TypeOK, RemovalsAreOfMembers, Next
  PROVE  RemovalsAreOfMembers'
<1>1. ASSUME NEW a \in Accounts, ControlStep(a)
      PROVE  RemovalsAreOfMembers'
  BY <1>1 DEF ControlStep, AddToStore, StartChild, BeginRemove, DropChild, BackUpHome,
     CommitRemoval, TypeOK, RemovalsAreOfMembers, storeVars
<1>2. CASE UNCHANGED <<accounts, removing>>
  BY <1>2 DEF RemovalsAreOfMembers
<1>. QED
  BY <1>1, <1>2, Frames

\* Whoever records an owner marks the listings that hold the chat as unowned.
LEMMA OvertakenStep ==
  ASSUME TypeOK, OvertakenListingsAreKnown, Next
  PROVE  OvertakenListingsAreKnown'
<1>. SUFFICES ASSUME NEW q \in Requests, NEW b \in Accounts, NEW u \in Threads,
                     <<b, u>> \in listing'[q].unowned
              PROVE  owners'[u] = NoAccount \/ q \in overtaken'
  BY DEF OvertakenListingsAreKnown
<1>. USE DEF TypeOK
<1>1. CASE LearnThreadOwner
  <2>1. listing' = listing
    BY <1>1 DEF LearnThreadOwner, requestVars
  <2>2. owners[u] = NoAccount \/ q \in overtaken
    BY <2>1 DEF OvertakenListingsAreKnown
  <2>3. q \in Noting(u)
    BY <2>1 DEF Noting
  <2>. QED
    BY <1>1, <2>2, <2>3 DEF LearnThreadOwner, OwnersWith
<1>2. ASSUME NEW r \in Requests, RecordOwner(r)
      PROVE  owners'[u] = NoAccount \/ q \in overtaken'
  <2>1. PICK t \in Threads :
          /\ \E a \in Accounts : owners' = [owners EXCEPT ![t] = a]
          /\ listing' = [listing EXCEPT ![r].unowned = {}, ![r].shown = @ \union {t}]
          /\ overtaken' = (overtaken \union Noting(t)) \ {r}
    BY <1>2 DEF RecordOwner, ListedOwner
  <2>2. q # r
    <3>1. listing'[r].unowned = {}
      BY <2>1 DEF Listings
    <3>. QED
      BY <3>1
  <2>3. <<b, u>> \in listing[q].unowned
    BY <2>1, <2>2
  <2>4. owners[u] = NoAccount \/ q \in overtaken
    BY <2>3 DEF OvertakenListingsAreKnown
  <2>5. q \in Noting(u)
    BY <2>3 DEF Noting
  <2>. QED
    BY <2>1, <2>2, <2>4, <2>5
<1>3. ASSUME NEW a \in Accounts, CommitRemoval(a)
      PROVE  owners'[u] = NoAccount \/ q \in overtaken'
  BY <1>3 DEF CommitRemoval, OwnersWithout, OvertakenListingsAreKnown, requestVars
<1>4. ASSUME owners' = owners, overtaken' = overtaken, <<b, u>> \in listing[q].unowned
      PROVE  owners'[u] = NoAccount \/ q \in overtaken'
  BY <1>4 DEF OvertakenListingsAreKnown
<1>5. ASSUME NEW r \in Requests, RequestStep(r), ~RecordOwner(r)
      PROVE  \/ <<b, u>> \in listing[q].unowned
             \/ owners' = owners /\ owners[u] = NoAccount
  <2>1. CASE StartListing(r)
    BY <2>1 DEF StartListing, Listings
  <2>2. ASSUME NEW a \in Accounts, ListHome(r, a)
        PROVE  <<b, u>> \in listing[q].unowned
    <3>1. PICK got \in SUBSET home[a] :
            listing' = [listing EXCEPT ![r].waiting = @ \ {a},
                                       ![r].found = @ \union ({a} \X got)]
      BY <2>2 DEF ListHome
    <3>. QED
      BY <3>1 DEF Listings
  <2>3. CASE CheckOwner(r)
    <3>1. PICK a \in Accounts, t \in Threads :
            IF owners[t] = NoAccount
              THEN listing' = [listing EXCEPT ![r].found = @ \ {<<a, t>>},
                                              ![r].unowned = {<<a, t>>}]
              ELSE listing' = [listing EXCEPT ![r].found = @ \ {<<a, t>>},
                                              ![r].shown = @ \union {t}]
      BY <2>3 DEF CheckOwner
    <3>2. owners' = owners
      BY <2>3 DEF CheckOwner, storeVars
    <3>3. CASE owners[t] # NoAccount
      <4>1. listing' = [listing EXCEPT ![r].found = @ \ {<<a, t>>},
                                       ![r].shown = @ \union {t}]
        BY <3>1, <3>3
      <4>2. CASE q = r
        <5>1. listing'[r] = [listing[r] EXCEPT !.found = listing[r].found \ {<<a, t>>},
                                               !.shown = listing[r].shown \union {t}]
          BY <4>1
        <5>2. listing[r] \in Listings
          OBVIOUS
        <5>3. listing'[r].unowned = listing[r].unowned
          BY <5>1, <5>2 DEF Listings
        <5>. QED
          BY <4>2, <5>3
      <4>3. CASE q # r
        BY <4>1, <4>3
      <4>. QED
        BY <4>2, <4>3
    <3>4. CASE owners[t] = NoAccount /\ q # r
      BY <3>1, <3>4
    <3>5. CASE owners[t] = NoAccount /\ q = r
      <4>1. listing'[r].unowned = {<<a, t>>}
        BY <3>1, <3>5 DEF Listings
      <4>. QED
        BY <3>2, <3>5, <4>1
    <3>. QED
      BY <3>3, <3>4, <3>5
  <2>. QED
    BY <1>5, <2>1, <2>2, <2>3
       DEF RequestStep, RouteNewThread, RouteExisting, RouteLimits, Register, SendToChild,
           WriteOwnAnswer, FinishListing
<1>. QED
  BY <1>1, <1>2, <1>3, <1>4, <1>5, Frames

--------------------------------------------------------------------------------
(* The invariant. *)

\* The inductive invariant holds when the program starts.
LEMMA InitInv == Init => IndInv
<1>. SUFFICES ASSUME Init PROVE IndInv
  OBVIOUS
<1>1. TypeOK /\ TrafficIsGenuine /\ OneTokenPerRequest /\ ChatsAreKnown
  BY InitTyped, InitTraffic, InitToken, InitChats
<1>2. RequestsAreRouted /\ FollowUpReachesHome /\ RemovalsAreOfMembers
  BY DEF Init, RequestsAreRouted, FollowUpReachesHome, RemovalsAreOfMembers
<1>3. OvertakenListingsAreKnown
  BY DEF Init, Unlisted, OvertakenListingsAreKnown
<1>. QED
  BY <1>1, <1>2, <1>3 DEF IndInv

\* The inductive invariant depends on the variables only.
LEMMA StutterInv == IndInv /\ UNCHANGED vars => IndInv'
<1>. SUFFICES ASSUME IndInv, UNCHANGED vars PROVE IndInv'
  OBVIOUS
<1>. USE DEF IndInv, vars, storeVars, requestVars, childVars, desktopVars, controlVars
<1>1. TypeOK'
  BY DEF TypeOK
<1>2. TrafficIsGenuine'
  BY DEF TrafficIsGenuine, OutputIsGenuine, InboundIsGenuine, HandledIsGenuine,
     PipesHoldTheirRequests, Genuine
<1>3. OneTokenPerRequest'
  BY DEF OneTokenPerRequest, OneToken, HandlingResponseTo
<1>4. ChatsAreKnown'
  BY DEF ChatsAreKnown, OwnerHoldsThread, ListedIsHeld, ShownIsKnown, Known, Gone,
     ParametersFitMethod
<1>5. RequestsAreRouted' /\ FollowUpReachesHome' /\ RemovalsAreOfMembers'
  BY DEF RequestsAreRouted, FollowUpReachesHome, RemovalsAreOfMembers, Gone
<1>6. OvertakenListingsAreKnown'
  BY DEF OvertakenListingsAreKnown
<1>. QED
  BY <1>1, <1>2, <1>3, <1>4, <1>5, <1>6

\* Every step preserves the inductive invariant.
LEMMA NextInv == IndInv /\ Next => IndInv'
<1>. SUFFICES ASSUME IndInv, Next PROVE IndInv'
  OBVIOUS
<1>. USE DEF IndInv
<1>1. TypeOK'
  <2>1. HandlingTyped
    BY DEF HandlingTyped, TrafficIsGenuine, HandledIsGenuine
  <2>. QED
    BY <2>1, NextTyped
<1>. QED
  BY <1>1, NextTraffic, NextToken, NextChats, RoutedStep, FollowUpStep, RemovalStep,
     OvertakenStep

\* The inductive invariant holds of every reachable state.
THEOREM Invariance == Spec => []IndInv
<1>1. IndInv /\ [Next]_vars => IndInv'
  BY StutterInv, NextInv
<1>. QED
  BY InitInv, <1>1, PTL DEF Spec

\* Type correctness.
THEOREM Typing == Spec => []TypeOK
<1>1. IndInv => TypeOK
  BY DEF IndInv
<1>. QED
  BY Invariance, <1>1, PTL

\* The answers to a request are none, or one by the right author.
LEMMA AnswerShape ==
  ASSUME IndInv, NEW r \in Requests
  PROVE  /\ Len(answers[r]) <= 1
         /\ \A i \in 1..Len(answers[r]) : answers[r][i] \in {Mux, target[r]}
<1>1. answers[r] \in {<<>>, <<Mux>>, <<target[r]>>}
  BY DEF IndInv, OneTokenPerRequest, OneToken
<1>2. CASE answers[r] = <<>>
  BY <1>2
<1>3. ASSUME NEW author \in {Mux, target[r]}, answers[r] = <<author>>
      PROVE  /\ Len(answers[r]) <= 1
             /\ \A i \in 1..Len(answers[r]) : answers[r][i] \in {Mux, target[r]}
  <2>1. Len(answers[r]) = 1 /\ answers[r][1] = author
    BY <1>3
  <2>2. \A i \in 1..Len(answers[r]) : i = 1
    BY <2>1
  <2>. QED
    BY <2>1, <2>2
<1>4. answers[r] = <<>> \/ \E author \in {Mux, target[r]} : answers[r] = <<author>>
  BY <1>1
<1>. QED
  BY <1>2, <1>3, <1>4

\* The desktop gets at most one answer to a request.
THEOREM AnswersAreSingle == Spec => []AnsweredAtMostOnce
<1>1. IndInv => AnsweredAtMostOnce
  BY AnswerShape DEF AnsweredAtMostOnce
<1>. QED
  BY Invariance, <1>1, PTL

\* The answer to a request that was sent is never dropped for want of a route.
THEOREM RoutesAreKept == Spec => []SentRequestKeepsRoute
<1>1. IndInv => SentRequestKeepsRoute
  BY DEF IndInv, OneTokenPerRequest, OneToken, SentRequestKeepsRoute
<1>. QED
  BY Invariance, <1>1, PTL

\* The table of routes holds requests under way and nothing else.
THEOREM RoutesAreFreed == Spec => []NoRouteAfterAnswer
<1>1. IndInv => NoRouteAfterAnswer
  BY DEF IndInv, TypeOK, OneTokenPerRequest, OneToken, NoRouteAfterAnswer
<1>. QED
  BY Invariance, <1>1, PTL

\* An answer comes from the account the request was routed to, or from the
\* multiplexer itself.
THEOREM AnswersAreGenuine == Spec => []AnswerComesFromTarget
<1>1. IndInv => AnswerComesFromTarget
  BY AnswerShape DEF AnswerComesFromTarget
<1>. QED
  BY Invariance, <1>1, PTL

\* The recorded owner of a chat holds it in its home.
THEOREM OwnersHoldTheirChats == Spec => []OwnerHoldsThread
<1>1. IndInv => OwnerHoldsThread
  BY DEF IndInv, ChatsAreKnown
<1>. QED
  BY Invariance, <1>1, PTL

\* A chat the desktop has heard of has an owner, unless its account was removed.
THEOREM SeenChatsAreKnown == Spec => []SeenThreadHasOwner
<1>1. IndInv => SeenThreadHasOwner
  BY DEF IndInv, ChatsAreKnown, ShownIsKnown, Known, SeenThreadHasOwner
<1>. QED
  BY Invariance, <1>1, PTL

\* A request about a chat goes to a home that holds the chat, unless the account
\* that held it was removed.
THEOREM FollowUpsReachTheirChat == Spec => []FollowUpReachesHome
<1>1. IndInv => FollowUpReachesHome
  BY DEF IndInv
<1>. QED
  BY Invariance, <1>1, PTL

--------------------------------------------------------------------------------
(* Who moves a chat, and the pooled session.                               *)

\* How the table of owners moves: an account that holds the chat is recorded for
\* it, or a removal clears the chats of one account.
LEMMA OwnersMove ==
  ASSUME IndInv, Next
  PROVE  \/ owners' = owners
         \/ /\ \E t \in Threads, a \in Accounts :
                 /\ owners[t] = NoAccount \/ t \in home[owners[t]]
                 /\ t \in home[a]
                 /\ owners' = [owners EXCEPT ![t] = a]
            /\ LearnThreadOwner \/ \E r \in Requests : RecordOwner(r)
         \/ \E a \in Accounts : CommitRemoval(a)
<1>. USE DEF IndInv, ChatsAreKnown
<1>1. CASE LearnThreadOwner
  <2>1. \/ owners' = owners
        \/ /\ handling.message.thread # NoThread /\ handling.stage # "idle"
           /\ owners' = [owners EXCEPT ![handling.message.thread] = handling.from]
    BY <1>1 DEF LearnThreadOwner, OwnersWith, Learns
  <2>. QED
    BY <1>1, <2>1, HandledIsHeld DEF OwnerHoldsThread
<1>2. ASSUME NEW r \in Requests, RecordOwner(r)
      PROVE  \E t \in Threads, a \in Accounts :
               /\ owners[t] = NoAccount \/ t \in home[owners[t]]
               /\ t \in home[a]
               /\ owners' = [owners EXCEPT ![t] = a]
  BY <1>2, RecordedIsHeld DEF OwnerHoldsThread
<1>. QED
  BY <1>1, <1>2, Frames

\* A chat that has an owner keeps it until the removal of that owner, unless it is
\* in two homes and an app-server names it or an overtaken listing records it.
THEOREM OwnersAreSticky == Spec => OwnerIsSticky
<1>1. ASSUME IndInv, [Next]_vars
      PROVE  [\A t \in Threads :
                owners[t] # NoAccount /\ owners'[t] # owners[t] =>
                  \/ owners'[t] = NoAccount /\ owners[t] \in accounts \ accounts'
                  \/ /\ t \in home[owners[t]] /\ t \in home[owners'[t]]
                     /\ \/ /\ handling.stage = "learning" /\ handling'.stage = "writing"
                           /\ handling.message.thread = t /\ handling.from = owners'[t]
                        \/ \E r \in overtaken : <<owners'[t], t>> \in listing[r].unowned
             ]_<<owners, accounts>>
  <2>. SUFFICES ASSUME Next, NEW t \in Threads, owners[t] # NoAccount, owners'[t] # owners[t]
                PROVE  \/ owners'[t] = NoAccount /\ owners[t] \in accounts \ accounts'
                       \/ /\ t \in home[owners[t]] /\ t \in home[owners'[t]]
                          /\ \/ /\ handling.stage = "learning" /\ handling'.stage = "writing"
                                /\ handling.message.thread = t /\ handling.from = owners'[t]
                             \/ \E r \in overtaken : <<owners'[t], t>> \in listing[r].unowned
    BY <1>1 DEF vars, storeVars
  <2>. USE <1>1 DEF IndInv, TypeOK
  <2>1. owners[t] \in Accounts /\ t \in home[owners[t]]
    BY DEF ChatsAreKnown, OwnerHoldsThread
  <2>2. ASSUME NEW a \in Accounts, CommitRemoval(a)
        PROVE  owners'[t] = NoAccount /\ owners[t] \in accounts \ accounts'
    BY <2>2 DEF CommitRemoval, OwnersWithout, RemovalsAreOfMembers
  <2>3. CASE LearnThreadOwner
    <3>1. /\ handling.stage = "learning" /\ handling'.stage = "writing"
          /\ owners' = [owners EXCEPT ![handling.message.thread] = handling.from]
          /\ Learns(handling.message)
      BY <2>3 DEF LearnThreadOwner, OwnersWith
    <3>2. handling.message.thread = t /\ owners'[t] = handling.from
      BY <3>1
    <3>3. t \in home[handling.from]
      BY <3>1, <3>2, HandledIsHeld DEF Learns
    <3>. QED
      BY <2>1, <3>1, <3>2, <3>3
  <2>4. ASSUME NEW r \in Requests, RecordOwner(r)
        PROVE  /\ t \in home[owners'[t]]
               /\ \E q \in overtaken : <<owners'[t], t>> \in listing[q].unowned
    <3>1. PICK a \in Accounts, u \in Threads :
            <<a, u>> \in listing[r].unowned /\ owners' = [owners EXCEPT ![u] = a]
      BY <2>4 DEF RecordOwner, ListedOwner
    <3>2. u = t /\ owners'[t] = a
      BY <3>1
    <3>3. t \in home[a]
      BY <3>1, <3>2 DEF ChatsAreKnown, ListedIsHeld
    <3>4. r \in overtaken
      BY <3>1, <3>2 DEF OvertakenListingsAreKnown
    <3>. QED
      BY <3>1, <3>2, <3>3, <3>4
  <2>. QED
    BY <2>1, <2>2, <2>3, <2>4, Frames
<1>. QED
  BY <1>1, Invariance, PTL DEF Spec, OwnerIsSticky

\* The initial states are initial states of the session.
LEMMA InitRefined == Init => Session!Init
  BY ConstantsAssumption DEF Init, Session!Init

\* Every step is a step of the session or leaves it as it is.
LEMMA NextRefined ==
  ASSUME IndInv, Next
  PROVE  [Session!Next]_Session!sessionVars
<1>. USE DEF IndInv
<1>. DEFINE asked == {r \in Requests : pc[r] # "unsent"}
<1>1. ASSUME asked' = asked, UNCHANGED <<target, answers, home, owners>>
      PROVE  [Session!Next]_Session!sessionVars
  BY <1>1 DEF Session!sessionVars
<1>2. ASSUME NEW r \in Requests, NEW m \in Methods, NEW t \in Threads \union {NoThread},
             NEW a \in Accounts \union {NoAccount}, HandleClient(r, m, t, a)
      PROVE  Session!Next
  <2>1. r \notin asked /\ asked' = asked \union {r}
    BY <1>2 DEF HandleClient, TypeOK
  <2>2. Session!Ask(r)
    BY <1>2, <2>1 DEF Session!Ask, HandleClient, storeVars, childVars, desktopVars
  <2>. QED
    BY <2>2 DEF Session!Next
<1>3. ASSUME NEW r \in Requests, RequestStep(r)
      PROVE  asked' = asked
  <2>1. pc[r] # "unsent" /\ pc'[r] # "unsent"
    BY <1>3 DEF RequestStep, RouteNewThread, RouteExisting, RouteTo, RouteLimits, Register,
       ChildMissing, SendToChild, WriteSucceeds, WriteFails, WriteOwnAnswer, StartListing,
       ListHome, CheckOwner, RecordOwner, FinishListing, TypeOK
  <2>2. pc' = pc \/ \E stage : pc' = [pc EXCEPT ![r] = stage]
    BY <1>3 DEF RequestStep, RouteNewThread, RouteExisting, RouteTo, RouteLimits, Register,
       ChildMissing, SendToChild, WriteSucceeds, WriteFails, WriteOwnAnswer, StartListing,
       ListHome, CheckOwner, RecordOwner, FinishListing
  <2>. QED
    BY <2>1, <2>2 DEF TypeOK
<1>4. ASSUME NEW r \in Requests, RouteNewThread(r) \/ RouteExisting(r)
      PROVE  [Session!Next]_Session!sessionVars
  <2>1. /\ asked' = asked /\ UNCHANGED <<answers, home, owners>> /\ r \in asked
        /\ target' = target \/ \E a : target' = [target EXCEPT ![r] = a]
    BY <1>3, <1>4 DEF RequestStep, RouteNewThread, RouteExisting, RouteTo, storeVars,
       childVars, desktopVars
  <2>2. CASE target' = target
    BY <1>1, <2>1, <2>2
  <2>3. CASE target' # target
    <3>1. target'[r] \in Accounts
      <4>1. CASE RouteNewThread(r)
        BY <2>3, <4>1 DEF RouteNewThread, RouteTo, TypeOK
      <4>. QED
        BY <1>4, <4>1, ExistingIsRouted
    <3>2. target[r] = NoAccount /\ answers[r] = <<>>
      BY <1>4 DEF RouteNewThread, RouteExisting, RequestsAreRouted, OneTokenPerRequest, OneToken
    <3>3. target' = [target EXCEPT ![r] = target'[r]]
      BY <2>1, <2>3 DEF TypeOK
    <3>4. Session!Route(r, target'[r])
      BY <2>1, <3>2, <3>3 DEF Session!Route
    <3>. QED
      BY <3>1, <3>4 DEF Session!Next
  <2>. QED
    BY <2>2, <2>3
<1>5. ASSUME NEW r \in Requests, WriteOwnAnswer(r)
      PROVE  Session!Next
  <2>1. /\ asked' = asked /\ r \in asked /\ UNCHANGED <<target, home, owners>>
        /\ answers[r] = <<>>
        /\ answers' = [answers EXCEPT ![r] = Append(@, Mux)]
    BY <1>3, <1>5 DEF RequestStep, WriteOwnAnswer, OneTokenPerRequest, OneToken, storeVars,
       childVars
  <2>2. answers' = [answers EXCEPT ![r] = <<Mux>>]
    BY <2>1 DEF TypeOK
  <2>3. Session!Answer(r, Mux)
    BY <2>1, <2>2 DEF Session!Answer
  <2>. QED
    BY <2>3 DEF Session!Next
<1>6. CASE WriteToDesktop
  <2>. DEFINE m == handling.message
  <2>1. /\ asked' = asked /\ UNCHANGED <<target, home, owners>>
        /\ handling.stage = "writing"
        /\ answers' = IF m.type = "response"
                        THEN [answers EXCEPT ![m.request] = Append(@, handling.from)]
                        ELSE answers
    BY <1>6 DEF WriteToDesktop, storeVars, childVars, requestVars
  <2>2. CASE m.type # "response"
    BY <1>1, <2>1, <2>2
  <2>3. CASE m.type = "response"
    <3>1. /\ m.request \in Requests /\ pc[m.request] = "sent"
          /\ target[m.request] = handling.from /\ handling.from \in Accounts
      BY <2>1, <2>3 DEF TrafficIsGenuine, HandledIsGenuine, Genuine
    <3>2. HandlingResponseTo(m.request)
      BY <2>1, <2>3 DEF HandlingResponseTo, Idle
    <3>3. answers[m.request] = <<>>
      BY <3>1, <3>2 DEF OneTokenPerRequest, OneToken
    <3>4. answers' = [answers EXCEPT ![m.request] = <<handling.from>>]
      BY <2>1, <2>3, <3>1, <3>3 DEF TypeOK
    <3>5. Session!Answer(m.request, handling.from)
      BY <2>1, <3>1, <3>3, <3>4 DEF Session!Answer
    <3>. QED
      BY <3>1, <3>5 DEF Session!Next
  <2>. QED
    BY <2>2, <2>3
<1>7. ASSUME NEW a \in Accounts, NEW r \in Requests, NEW t \in Threads,
             ChildCreatesThread(a, r, t)
      PROVE  Session!Next
  <2>1. Session!Create(t, a)
    BY <1>7 DEF ChildCreatesThread, Session!Create, requestVars, desktopVars, storeVars
  <2>. QED
    BY <2>1 DEF Session!Next
<1>8. ASSUME NEW t \in Threads, NEW a \in Accounts, t \in home[a],
             owners[t] = NoAccount \/ t \in home[owners[t]],
             owners' = [owners EXCEPT ![t] = a],
             LearnThreadOwner \/ \E r \in Requests : RecordOwner(r)
      PROVE  Session!Next
  <2>1. UNCHANGED <<pc, target, answers, home>>
    BY <1>8 DEF LearnThreadOwner, RecordOwner, requestVars, childVars, desktopVars
  <2>2. Session!Assign(t, a)
    BY <1>8, <2>1 DEF Session!Assign
  <2>. QED
    BY <2>2 DEF Session!Next
<1>9. ASSUME NEW a \in Accounts, CommitRemoval(a)
      PROVE  Session!Next
  <2>1. Session!Remove(a)
    BY <1>9 DEF CommitRemoval, OwnersWithout, Session!Remove, requestVars, childVars,
       desktopVars
  <2>. QED
    BY <2>1 DEF Session!Next
<1>10. CASE /\ ~WriteToDesktop
            /\ ~\E r \in Requests : WriteOwnAnswer(r) \/ RouteNewThread(r) \/ RouteExisting(r)
            /\ ~\E r \in Requests, m \in Methods, t \in Threads \union {NoThread},
                  a \in Accounts \union {NoAccount} : HandleClient(r, m, t, a)
            /\ ~\E a \in Accounts, r \in Requests, t \in Threads : ChildCreatesThread(a, r, t)
            /\ owners' = owners
  <2>1. answers' = answers /\ home' = home
    BY <1>10, Frames
  <2>2. target' = target
    <3>1. ASSUME NEW r \in Requests, RequestStep(r)
          PROVE  target' = target
      BY <1>10, <3>1 DEF RequestStep, RouteLimits, Register, SendToChild, StartListing,
         ListHome, CheckOwner, RecordOwner, FinishListing
    <3>. QED
      BY <1>10, <3>1, Frames
  <2>3. asked' = asked
    BY <1>3, <1>10, Frames
  <2>. QED
    BY <1>1, <1>10, <2>1, <2>2, <2>3
<1>. QED
  BY <1>2, <1>4, <1>5, <1>6, <1>7, <1>8, <1>9, <1>10, OwnersMove

\* The multiplexer implements the pooled session.
THEOREM Implementation == Spec => ImplementsPooledSession
<1>1. ASSUME IndInv, [Next]_vars
      PROVE  [Session!Next]_Session!sessionVars
  <2>1. CASE UNCHANGED vars
    BY <2>1 DEF vars, storeVars, requestVars, childVars, desktopVars, Session!sessionVars
  <2>. QED
    BY <1>1, <2>1, NextRefined
<1>. QED
  BY <1>1, InitRefined, Invariance, PTL
     DEF Spec, ImplementsPooledSession, Session!Spec

================================================================================
