------------------------------ MODULE Multiplexer ------------------------------
(***************************************************************************)
(* The request path of the multiplexer (internal/mux): one desktop         *)
(* connection on stdin and stdout, one app-server child per subscription,  *)
(* and the table of chat owners in internal/state that ties a chat to the  *)
(* subscription whose Codex home holds it.                                 *)
(*                                                                         *)
(* Concurrent activities and where they run in the program:                *)
(*   - HandleClient, called by the stdin loop of main.go one line at a     *)
(*     time; thread/list, thread/start and account/rateLimits/read leave   *)
(*     the loop and run in a goroutine of their own;                       *)
(*   - the readLoop and the waitLoop of every child;                       *)
(*   - inboundLoop, the only consumer of the shared inbound channel;       *)
(*   - AddAccount and RemoveAccount, run by the control server.            *)
(* Each step below is what one of them does between two points where       *)
(* another can get in: a lock released, a pipe or a channel used.          *)
(*                                                                         *)
(* A chat may be in more than one home when the program starts: "A chat    *)
(* handed to another subscription is readable from both homes"             *)
(* (thread_list.go:29).                                                    *)
(***************************************************************************)
EXTENDS Naturals, Sequences

CONSTANTS
  Accounts,     \* every subscription that is ever part of the pool
  Primary,      \* the controller account, which cannot be removed
  Connected,    \* the subscriptions in state.json when the program starts
  Leaving,      \* the subscriptions the user may remove
  Crashing,     \* the subscriptions whose app-server may exit by itself
  Requests,     \* ids of the requests the desktop sends, each used once
  Methods,      \* the kinds of requests the desktop sends
  Threads,      \* chats
  Homes,        \* chats present in each Codex home when the program starts
  InboundCap,   \* capacity of the inbound channel (1024 in the code)
  Mux,          \* the author of the answers the multiplexer writes itself
  NoAccount, NoThread, NoRequest

\* The requests that HandleClient hands to a goroutine.
Detached == {"start", "list", "limits"}

\* The requests that name a chat. "resume" also stands for thread/unarchive.
FollowUps == {"resume", "fork", "turn"}

\* Requests after whose answer learnThreadOwner records an owner.
Learning == {"start", "fork", "resume"}

\* "scoped": a plugin request with a routing marker; "plain": all others.
AllMethods == Detached \union FollowUps \union {"scoped", "plain"}

ASSUME ConstantsAssumption ==
  /\ Primary \in Connected
  /\ Connected \subseteq Accounts
  /\ Leaving \subseteq Accounts \ {Primary}
  /\ Crashing \subseteq Accounts
  /\ Methods \subseteq AllMethods
  /\ Homes \in [Accounts -> SUBSET Threads]
  /\ \A a \in Accounts \ Connected : Homes[a] = {}
  /\ InboundCap \in Nat \ {0}
  /\ Mux \notin Accounts
  /\ NoAccount \notin Accounts
  /\ NoThread \notin Threads
  /\ NoRequest \notin Requests

VARIABLES
  \* internal/state
  accounts,   \* ids of the accounts of the Store
  owners,     \* the chat owners of the Store
  overtaken,  \* history: listings that hold a chat as unowned after somebody
              \* else has recorded an owner for it
  \* internal/mux
  children,   \* accounts that have an entry in the children map
  routes,     \* requests with an entry in externalRoutes
  inbound,    \* the inbound channel
  handling,   \* the message inboundLoop is working on
  pc,         \* how far the handling of each request has come
  params,     \* method and parameters of each request
  target,     \* the account a request is routed to
  listing,    \* local state of aggregateThreadList
  adding,     \* progress of AddAccount
  removing,   \* progress of RemoveAccount
  \* internal/backend and the app-server processes
  process, stdin, stdout, home,
  \* the desktop
  answers,    \* who answered each request, in order
  seen        \* chats the desktop has been told about

storeVars   == <<accounts, owners, overtaken>>
requestVars == <<pc, params, target, listing>>
childVars   == <<process, stdin, stdout, home>>
desktopVars == <<answers, seen>>
controlVars == <<adding, removing>>
vars == <<storeVars, children, routes, inbound, handling, requestVars,
          controlVars, childVars, desktopVars>>

Message == [type    : {"response", "started"},
            request : Requests \union {NoRequest},
            thread  : Threads \union {NoThread}]

Response(r, t) == [type |-> "response", request |-> r, thread |-> t]
Started(t) == [type |-> "started", request |-> NoRequest, thread |-> t]

Idle == [stage |-> "idle", from |-> NoAccount, message |-> Started(NoThread)]

Unlisted == [waiting |-> {}, found |-> {}, unowned |-> {}, shown |-> {}]

Running(a) == process[a] \in {"running", "signalled"}

\* main.go reads the next line when HandleClient has returned.
StdinLoopFree ==
  \A r \in Requests :
    pc[r] \in {"routing", "forwarding", "sending", "answering"}
      => params[r].method \in Detached

--------------------------------------------------------------------------------
\* Start: every account of the store gets a child; one that cannot be started
\* stays in the pool without an entry in children.
Init ==
  /\ accounts = Connected
  /\ owners \in [Threads -> Accounts \union {NoAccount}]
  /\ \A t \in Threads :
       owners[t] # NoAccount => owners[t] \in Connected /\ t \in Homes[owners[t]]
  /\ overtaken = {}
  /\ children \in (SUBSET Connected) \ {{}}
  /\ process = [a \in Accounts |-> IF a \in children THEN "running" ELSE "absent"]
  /\ routes = {}
  /\ inbound = <<>>
  /\ handling = Idle
  /\ pc = [r \in Requests |-> "unsent"]
  /\ params = [r \in Requests |->
       [method |-> "plain", thread |-> NoThread, account |-> NoAccount]]
  /\ target = [r \in Requests |-> NoAccount]
  /\ listing = [r \in Requests |-> Unlisted]
  /\ adding = [a \in Accounts |-> IF a \in Connected THEN "done" ELSE "no"]
  /\ removing = [a \in Accounts |-> "no"]
  /\ stdin = [a \in Accounts |-> {}]
  /\ stdout = [a \in Accounts |-> <<>>]
  /\ home = Homes
  /\ answers = [r \in Requests |-> <<>>]
  /\ seen = {t \in Threads : owners[t] # NoAccount}

--------------------------------------------------------------------------------
(* The stdin loop and the request goroutines.                              *)

\* The desktop sends request r and HandleClient dispatches it.
HandleClient(r, m, t, a) ==
  /\ StdinLoopFree
  /\ pc[r] = "unsent"
  /\ IF m \in FollowUps THEN t \in seen ELSE t = NoThread
  /\ IF m = "scoped" THEN a \in Accounts ELSE a = NoAccount
  /\ params' = [params EXCEPT ![r] = [method |-> m, thread |-> t, account |-> a]]
  /\ pc' = [pc EXCEPT ![r] = "routing"]
  /\ UNCHANGED <<storeVars, children, routes, inbound, handling, target, listing,
                 controlVars, childVars, desktopVars>>

RouteTo(r, a) ==
  /\ target' = [target EXCEPT ![r] = a]
  /\ pc' = [pc EXCEPT ![r] = "forwarding"]

\* routeNewThread picks the controller when the request is billed elsewhere,
\* else an account with capacity that answered its status requests (which one
\* is left open here), else reports that every subscription is depleted.
RouteNewThread(r) ==
  /\ pc[r] = "routing" /\ params[r].method = "start"
  /\ \/ \E a \in accounts : (a \in children \/ a = Primary) /\ RouteTo(r, a)
     \/ pc' = [pc EXCEPT ![r] = "answering"] /\ UNCHANGED target
  /\ UNCHANGED <<storeVars, children, routes, inbound, handling, params, listing,
                 controlVars, childVars, desktopVars>>

\* Slip: a follow-up ignores the recorded owner.
OwnerOrController_Slip(t) == Primary

\* The owner a request is routed by: that of its chat, else the controller.
OwnerOrController(t) ==
  IF t \in Threads /\ owners[t] # NoAccount THEN owners[t] ELSE Primary

\* routeExistingRequest. A routing marker is followed when its account exists
\* and is enabled; the enabled flag is left open. Store.Open creates the Primary
\* and RemoveAccount refuses it, so Controller always finds an account and the
\* failure "no controller account is configured" (mux.go:272) is never reached.
RouteExisting(r) ==
  /\ pc[r] = "routing" /\ params[r].method \notin Detached
  /\ \/ params[r].account \in accounts /\ RouteTo(r, params[r].account)
     \/ RouteTo(r, OwnerOrController(params[r].thread))
  /\ UNCHANGED <<storeVars, children, routes, inbound, handling, params, listing,
                 controlVars, childVars, desktopVars>>

\* routeAggregatedRateLimits answers with the pool's limits or an error.
RouteLimits(r) ==
  /\ pc[r] = "routing" /\ params[r].method = "limits"
  /\ pc' = [pc EXCEPT ![r] = "answering"]
  /\ UNCHANGED <<storeVars, children, routes, inbound, handling, params, target,
                 listing, controlVars, childVars, desktopVars>>

\* Slip: a missing child is not reported to the desktop.
ChildMissing_Slip(r) == pc' = [pc EXCEPT ![r] = "done"] /\ UNCHANGED routes

\* writeFailure: the multiplexer answers with an error of its own.
ChildMissing(r) == pc' = [pc EXCEPT ![r] = "answering"] /\ UNCHANGED routes

\* forward: find the child, then register the route before anything is sent.
Register(r) ==
  /\ pc[r] = "forwarding"
  /\ IF target[r] \in children
       THEN routes' = routes \union {r} /\ pc' = [pc EXCEPT ![r] = "sending"]
       ELSE ChildMissing(r)
  /\ UNCHANGED <<storeVars, children, inbound, handling, params, target, listing,
                 controlVars, childVars, desktopVars>>

\* Slip: a successful send is followed by the failure path.
WriteSucceeds_AnswersTwice(r) ==
  /\ stdin' = [stdin EXCEPT ![target[r]] = @ \union {r}]
  /\ pc' = [pc EXCEPT ![r] = "answering"]
  /\ UNCHANGED routes

\* Slip: a successful send deletes its route.
WriteSucceeds_DropsRoute(r) ==
  /\ stdin' = [stdin EXCEPT ![target[r]] = @ \union {r}]
  /\ pc' = [pc EXCEPT ![r] = "sent"]
  /\ routes' = routes \ {r}

\* child.Send returns nil.
WriteSucceeds(r) ==
  /\ stdin' = [stdin EXCEPT ![target[r]] = @ \union {r}]
  /\ pc' = [pc EXCEPT ![r] = "sent"]
  /\ UNCHANGED routes

\* child.Send returns an error: the route is deleted and the failure reported.
WriteFails(r) ==
  /\ routes' = routes \ {r}
  /\ pc' = [pc EXCEPT ![r] = "answering"]
  /\ UNCHANGED stdin

\* The rest of forward: the write reaches a process that runs.
SendToChild(r) ==
  /\ pc[r] = "sending"
  /\ IF Running(target[r]) THEN WriteSucceeds(r) ELSE WriteFails(r)
  /\ UNCHANGED <<storeVars, children, inbound, handling, params, target, listing,
                 controlVars, process, stdout, home, desktopVars>>

\* The multiplexer writes an answer of its own: a failure or an aggregate.
WriteOwnAnswer(r) ==
  /\ pc[r] = "answering"
  /\ answers' = [answers EXCEPT ![r] = Append(@, Mux)]
  /\ seen' = seen \union listing[r].shown
  /\ pc' = [pc EXCEPT ![r] = "done"]
  /\ UNCHANGED <<storeVars, children, routes, inbound, handling, params, target,
                 listing, controlVars, childVars>>

--------------------------------------------------------------------------------
(* aggregateThreadList.                                                    *)

\* childEntries: the accounts of the store that have a child.
StartListing(r) ==
  /\ pc[r] = "routing" /\ params[r].method = "list"
  /\ listing' = [listing EXCEPT ![r].waiting = accounts \intersect children]
  /\ pc' = [pc EXCEPT ![r] = "listing"]
  /\ UNCHANGED <<storeVars, children, routes, inbound, handling, params, target,
                 controlVars, childVars, desktopVars>>

\* listAllThreads for one account: its chats, or those on the pages read before
\* one failed. Reading past the pipes, in one step, only takes away the waiting:
\* each page shows chats of the home, and a home only grows.
ListHome(r, a) ==
  /\ pc[r] = "listing" /\ a \in listing[r].waiting
  /\ \E got \in SUBSET home[a] :
       /\ Running(a) \/ got = {}
       /\ listing' = [listing EXCEPT ![r].waiting = @ \ {a},
                                     ![r].found = @ \union ({a} \X got)]
  /\ UNCHANGED <<storeVars, children, routes, inbound, handling, pc, params, target,
                 controlVars, childVars, desktopVars>>

\* Slip: the merge takes every listed chat for one without an owner.
CheckOwner_Slip(r) ==
  /\ pc[r] = "listing" /\ listing[r].waiting = {} /\ listing[r].unowned = {}
  /\ \E a \in Accounts, t \in Threads :
       /\ <<a, t>> \in listing[r].found
       /\ listing' = [listing EXCEPT ![r].found = @ \ {<<a, t>>},
                                     ![r].unowned = {<<a, t>>}]
  /\ UNCHANGED <<storeVars, children, routes, inbound, handling, pc, params, target,
                 controlVars, childVars, desktopVars>>

\* The merge reads the owner of a listed chat ...
CheckOwner(r) ==
  /\ pc[r] = "listing" /\ listing[r].waiting = {} /\ listing[r].unowned = {}
  /\ \E a \in Accounts, t \in Threads :
       /\ <<a, t>> \in listing[r].found
       /\ IF owners[t] = NoAccount
            THEN listing' = [listing EXCEPT ![r].found = @ \ {<<a, t>>},
                                            ![r].unowned = {<<a, t>>}]
            ELSE listing' = [listing EXCEPT ![r].found = @ \ {<<a, t>>},
                                            ![r].shown = @ \union {t}]
  /\ UNCHANGED <<storeVars, children, routes, inbound, handling, pc, params, target,
                 controlVars, childVars, desktopVars>>

\* The account that answered the listing.
ListedOwner(a) == a

\* The listings that hold chat t as unowned.
Noting(t) == {s \in Requests : \E a \in Accounts : <<a, t>> \in listing[s].unowned}

\* ... and records that account for a chat that had none when it looked.
RecordOwner(r) ==
  /\ pc[r] = "listing"
  /\ \E a \in Accounts, t \in Threads :
       /\ <<a, t>> \in listing[r].unowned
       /\ owners' = [owners EXCEPT ![t] = ListedOwner(a)]
       /\ listing' = [listing EXCEPT ![r].unowned = {}, ![r].shown = @ \union {t}]
       /\ overtaken' = (overtaken \union Noting(t)) \ {r}
  /\ UNCHANGED <<accounts, children, routes, inbound, handling, pc, params, target,
                 controlVars, childVars, desktopVars>>

FinishListing(r) ==
  /\ pc[r] = "listing"
  /\ listing[r].waiting = {} /\ listing[r].found = {} /\ listing[r].unowned = {}
  /\ pc' = [pc EXCEPT ![r] = "answering"]
  /\ UNCHANGED <<storeVars, children, routes, inbound, handling, params, target,
                 listing, controlVars, childVars, desktopVars>>

--------------------------------------------------------------------------------
(* The app-server process of an account: external, seen through its pipes. *)

Emit(a, messages) == stdout' = [stdout EXCEPT ![a] = @ \o messages]

\* A chat is created; its notification and the response come in either order.
ChildCreatesThread(a, r, t) ==
  /\ Running(a) /\ r \in stdin[a]
  /\ \/ params[r].method = "start"
     \/ params[r].method = "fork" /\ params[r].thread \in home[a]
  /\ \A b \in Accounts : t \notin home[b]
  /\ home' = [home EXCEPT ![a] = @ \union {t}]
  /\ stdin' = [stdin EXCEPT ![a] = @ \ {r}]
  /\ \/ Emit(a, <<Response(r, t), Started(t)>>)
     \/ Emit(a, <<Started(t), Response(r, t)>>)
  /\ UNCHANGED <<storeVars, children, routes, inbound, handling, requestVars,
                 controlVars, process, desktopVars>>

\* Any other answer: it names a chat only if a chat of this home was resumed.
ChildReplies(a, r) ==
  /\ Running(a) /\ r \in stdin[a]
  /\ stdin' = [stdin EXCEPT ![a] = @ \ {r}]
  /\ IF params[r].method = "resume" /\ params[r].thread \in home[a]
       THEN Emit(a, <<Response(r, params[r].thread)>>)
       ELSE Emit(a, <<Response(r, NoThread)>>)
  /\ UNCHANGED <<storeVars, children, routes, inbound, handling, requestVars,
                 controlVars, process, home, desktopVars>>

\* The process ends, on its own or because RemoveAccount signalled it. What it
\* had not read from its stdin is lost.
ChildExits(a) ==
  /\ \/ process[a] = "running" /\ a \in Crashing
     \/ process[a] = "signalled"
  /\ process' = [process EXCEPT ![a] = "exited"]
  /\ stdin' = [stdin EXCEPT ![a] = {}]
  /\ UNCHANGED <<storeVars, children, routes, inbound, handling, requestVars,
                 controlVars, stdout, home, desktopVars>>

\* waitLoop: command.Wait closes the read end of stdout, so the output that
\* readLoop has not scanned by then is lost.
WaitLoop(a) ==
  /\ process[a] = "exited"
  /\ process' = [process EXCEPT ![a] = "closed"]
  /\ \E n \in 0..Len(stdout[a]) :
       stdout' = [stdout EXCEPT ![a] = SubSeq(@, 1, n)]
  /\ UNCHANGED <<storeVars, children, routes, inbound, handling, requestVars,
                 controlVars, stdin, home, desktopVars>>

\* readLoop: a message no Request of the multiplexer waits for goes to the
\* inbound channel, and readLoop blocks while the channel is full.
ReadLoop(a) ==
  /\ stdout[a] # <<>> /\ Len(inbound) < InboundCap
  /\ stdout' = [stdout EXCEPT ![a] = Tail(@)]
  /\ inbound' = Append(inbound, [from |-> a, message |-> Head(stdout[a])])
  /\ UNCHANGED <<storeVars, children, routes, handling, requestVars, controlVars,
                 process, stdin, home, desktopVars>>

--------------------------------------------------------------------------------
(* inboundLoop and handleInbound.                                          *)

\* The next message: a response takes its route out of externalRoutes, or is
\* dropped when there is none.
TakeInbound ==
  /\ handling = Idle /\ inbound # <<>>
  /\ inbound' = Tail(inbound)
  /\ LET next == Head(inbound)
         r == next.message.request
     IN IF next.message.type = "response" /\ r \notin routes
          THEN UNCHANGED <<handling, routes>>
          ELSE /\ handling' = [stage |-> "learning", from |-> next.from,
                               message |-> next.message]
               /\ routes' = routes \ {r}
  /\ UNCHANGED <<storeVars, children, requestVars, controlVars, childVars,
                 desktopVars>>

\* A message whose chat is recorded: SetThreadOwner for thread/started,
\* learnThreadOwner for the responses that carry a chat.
Learns(m) ==
  /\ m.thread # NoThread
  /\ m.type = "started" \/ params[m.request].method \in Learning

\* SetThreadOwner.
OwnersWith(t, a) == [owners EXCEPT ![t] = a]

LearnThreadOwner ==
  /\ handling.stage = "learning"
  /\ LET m == handling.message
     IN IF Learns(m)
          THEN /\ owners' = OwnersWith(m.thread, handling.from)
               /\ overtaken' = overtaken \union Noting(m.thread)
          ELSE UNCHANGED <<owners, overtaken>>
  /\ handling' = [handling EXCEPT !.stage = "writing"]
  /\ UNCHANGED <<accounts, children, routes, inbound, requestVars, controlVars,
                 childVars, desktopVars>>

\* writeRaw to the desktop. Every thread/ notification is forwarded.
WriteToDesktop ==
  /\ handling.stage = "writing"
  /\ LET m == handling.message
     IN /\ answers' = IF m.type = "response"
                        THEN [answers EXCEPT ![m.request] = Append(@, handling.from)]
                        ELSE answers
        /\ seen' = seen \union ({m.thread} \ {NoThread})
  /\ handling' = Idle
  /\ UNCHANGED <<storeVars, children, routes, inbound, requestVars, controlVars,
                 childVars>>

--------------------------------------------------------------------------------
(* AddAccount and RemoveAccount, called by the control server.             *)

\* store.AddAccount.
AddToStore(a) ==
  /\ adding[a] = "no"
  /\ accounts' = accounts \union {a}
  /\ adding' = [adding EXCEPT ![a] = "starting"]
  /\ UNCHANGED <<owners, overtaken, children, routes, inbound, handling, requestVars,
                 removing, childVars, desktopVars>>

\* startChild: the process starts and enters the map, or fails to start and the
\* account stays in the store without a child.
StartChild(a) ==
  /\ adding[a] = "starting"
  /\ adding' = [adding EXCEPT ![a] = "done"]
  /\ \/ /\ process' = [process EXCEPT ![a] = "running"]
        /\ children' = children \union {a}
     \/ UNCHANGED <<process, children>>
  /\ UNCHANGED <<storeVars, routes, inbound, handling, requestVars, removing,
                 stdin, stdout, home, desktopVars>>

\* RemoveAccount: refuse an unknown account, then Close asks the child to stop.
BeginRemove(a) ==
  /\ a \in Leaving /\ removing[a] \in {"no", "failed"} /\ a \in accounts
  /\ IF a \in children
       THEN /\ removing' = [removing EXCEPT ![a] = "stopping"]
            /\ process' = [process EXCEPT ![a] = IF @ = "running" THEN "signalled" ELSE @]
       ELSE removing' = [removing EXCEPT ![a] = "moving"] /\ UNCHANGED process
  /\ UNCHANGED <<storeVars, children, routes, inbound, handling, requestVars, adding,
                 stdin, stdout, home, desktopVars>>

\* The wait for the exit is over, because the child has closed or because the
\* ten seconds have passed; the child leaves the map.
DropChild(a) ==
  /\ removing[a] = "stopping"
  /\ children' = children \ {a}
  /\ removing' = [removing EXCEPT ![a] = "moving"]
  /\ UNCHANGED <<storeVars, routes, inbound, handling, requestVars, adding, childVars,
                 desktopVars>>

\* backupAccountHome succeeds, or its error ends the removal.
BackUpHome(a) ==
  /\ removing[a] = "moving"
  /\ \E outcome \in {"committing", "failed"} :
       removing' = [removing EXCEPT ![a] = outcome]
  /\ UNCHANGED <<storeVars, children, routes, inbound, handling, requestVars, adding,
                 childVars, desktopVars>>

\* Slip: the removal clears the assignments of every account.
OwnersWithout_Slip(a) == [t \in Threads |-> NoAccount]

OwnersWithout(a) == [t \in Threads |-> IF owners[t] = a THEN NoAccount ELSE owners[t]]

\* store.RemoveAccount: the account goes, and every chat assignment it has. When
\* the save fails they are gone from memory all the same, and the removal ends
\* with the error; a second one does not find the account.
CommitRemoval(a) ==
  /\ removing[a] = "committing"
  /\ \E outcome \in {"removed", "unsaved"} :
       removing' = [removing EXCEPT ![a] = outcome]
  /\ accounts' = accounts \ {a}
  /\ owners' = OwnersWithout(a)
  /\ UNCHANGED <<overtaken, children, routes, inbound, handling, requestVars, adding,
                 childVars, desktopVars>>

--------------------------------------------------------------------------------
RequestStep(r) ==
  \/ RouteNewThread(r) \/ RouteExisting(r) \/ RouteLimits(r)
  \/ Register(r) \/ SendToChild(r) \/ WriteOwnAnswer(r)
  \/ StartListing(r) \/ (\E a \in Accounts : ListHome(r, a))
  \/ CheckOwner(r) \/ RecordOwner(r) \/ FinishListing(r)

InboundStep == TakeInbound \/ LearnThreadOwner \/ WriteToDesktop

ChildStep(a) ==
  \/ \E r \in Requests : ChildReplies(a, r)
  \/ \E r \in Requests, t \in Threads : ChildCreatesThread(a, r, t)

ControlStep(a) ==
  \/ AddToStore(a) \/ StartChild(a)
  \/ BeginRemove(a) \/ DropChild(a) \/ BackUpHome(a) \/ CommitRemoval(a)

Next ==
  \/ \E r \in Requests, m \in Methods, t \in Threads \union {NoThread},
        a \in Accounts \union {NoAccount} : HandleClient(r, m, t, a)
  \/ \E r \in Requests : RequestStep(r)
  \/ InboundStep
  \/ \E a \in Accounts : ChildStep(a)
  \/ \E a \in Accounts : ChildExits(a)
  \/ \E a \in Accounts : WaitLoop(a)
  \/ \E a \in Accounts : ReadLoop(a)
  \/ \E a \in Accounts : ControlStep(a)

Spec == Init /\ [][Next]_vars

\* The goroutines of the multiplexer are scheduled, and an app-server that is
\* running answers what it has read.
Fairness ==
  /\ \A r \in Requests : WF_vars(RequestStep(r))
  /\ WF_vars(InboundStep)
  /\ \A a \in Accounts : WF_vars(ChildStep(a)) /\ WF_vars(ReadLoop(a))

FairSpec == Spec /\ Fairness

--------------------------------------------------------------------------------
(* What must hold.                                                         *)

Envelopes == [from : Accounts, message : Message]

Stages == {"unsent", "routing", "forwarding", "sending", "sent", "listing",
           "answering", "done"}

Parameters == [method  : AllMethods,
               thread  : Threads \union {NoThread},
               account : Accounts \union {NoAccount}]

Listings == [waiting : SUBSET Accounts,
             found   : SUBSET (Accounts \X Threads),
             unowned : SUBSET (Accounts \X Threads),
             shown   : SUBSET Threads]

Removals == {"no", "stopping", "moving", "committing", "failed", "removed",
             "unsaved"}

\* Every variable keeps the shape its Go counterpart has.
TypeOK ==
  /\ accounts \subseteq Accounts
  /\ owners \in [Threads -> Accounts \union {NoAccount}]
  /\ overtaken \subseteq Requests
  /\ children \subseteq Accounts
  /\ routes \subseteq Requests
  /\ inbound \in Seq(Envelopes)
  /\ handling \in [stage : {"idle", "learning", "writing"},
                   from : Accounts \union {NoAccount}, message : Message]
  /\ pc \in [Requests -> Stages]
  /\ params \in [Requests -> Parameters]
  /\ target \in [Requests -> Accounts \union {NoAccount}]
  /\ listing \in [Requests -> Listings]
  /\ adding \in [Accounts -> {"no", "starting", "done"}]
  /\ removing \in [Accounts -> Removals]
  /\ process \in [Accounts -> {"absent", "running", "signalled", "exited", "closed"}]
  /\ stdin \in [Accounts -> SUBSET Requests]
  /\ stdout \in [Accounts -> Seq(Message)]
  /\ home \in [Accounts -> SUBSET Threads]
  /\ answers \in [Requests -> Seq(Accounts \union {Mux})]
  /\ seen \subseteq Threads

\* inboundLoop holds the response to r.
HandlingResponseTo(r) ==
  handling # Idle /\ handling.message.type = "response" /\ handling.message.request = r

\* The desktop gets at most one answer to a request, whether it comes from a
\* child, from the failure path of forward or from an aggregate: the failure
\* path deletes the route, and no answer of a child can race with it.
AnsweredAtMostOnce == \A r \in Requests : Len(answers[r]) <= 1

\* A request that a child has received and that is not answered yet still has
\* its route, so that handleInbound cannot drop the answer however early it
\* comes: forwardWithExclusions registers the route before it writes.
SentRequestKeepsRoute ==
  \A r \in Requests :
    pc[r] = "sent" /\ answers[r] = <<>> /\ ~HandlingResponseTo(r) => r \in routes

\* A route never outlives its request: once the desktop has its answer there is
\* no entry left that a later message could take.
NoRouteAfterAnswer == \A r \in routes : answers[r] = <<>> /\ pc[r] \in {"sending", "sent"}

\* An answer that a child wrote comes from the account the request was routed
\* to, although handleInbound finds the route by the request id alone.
AnswerComesFromTarget ==
  \A r \in Requests : \A i \in 1..Len(answers[r]) :
    answers[r][i] \in {Mux, target[r]}

\* A recorded owner holds the chat in its Codex home, so a follow-up request
\* reaches an app-server that can find the chat; listings, responses and
\* thread/started notifications all write the table.
OwnerHoldsThread ==
  \A t \in Threads : owners[t] # NoAccount => t \in home[owners[t]]

\* The removal of a has taken it out of the Store, confirmed or not.
Gone(a) == removing[a] \in {"removed", "unsaved"}

\* The desktop hears of a chat only when its owner is recorded, so it cannot
\* follow up on a chat that routing does not know; the one exception is a chat
\* whose subscription has been removed.
SeenThreadHasOwner ==
  \A t \in seen :
    owners[t] = NoAccount => \E a \in Accounts : Gone(a) /\ t \in home[a]

\* A follow-up that is on its way to a child goes to a home that holds the chat,
\* unless the chat's subscription was removed after the desktop saw it; plain
\* routing to the controller never strays from the chat otherwise.
FollowUpReachesHome ==
  \A r \in Requests :
    params[r].method \in FollowUps /\ pc[r] \in {"forwarding", "sending", "sent"}
      => \/ params[r].thread \in home[target[r]]
         \/ \E a \in Accounts : Gone(a) /\ params[r].thread \in home[a]

\* README: "A chat belongs to one subscription for its whole life." An owner
\* changes when the removal of its account clears it. Otherwise the chat must be
\* in the homes of the old owner and of the new one, and the new one is either an
\* account whose app-server has just named the chat or one found by a listing
\* that was overtaken: it looked the owner up before somebody else recorded one
\* and writes after that (thread_list.go:43-45, two critical sections). A listing
\* that nobody overtook leaves every owner alone, as thread_list.go:31 demands.
OwnerIsSticky ==
  [][\A t \in Threads :
       owners[t] # NoAccount /\ owners'[t] # owners[t] =>
         \/ owners'[t] = NoAccount /\ owners[t] \in accounts \ accounts'
         \/ /\ t \in home[owners[t]] /\ t \in home[owners'[t]]
            /\ \/ /\ handling.stage = "learning" /\ handling'.stage = "writing"
                  /\ handling.message.thread = t /\ handling.from = owners'[t]
               \/ \E r \in overtaken : <<owners'[t], t>> \in listing[r].unowned
    ]_<<owners, accounts>>

\* ARCHITECTURE.md: "Removing a subscription stops its app-server child, clears
\* its thread ownership": no chat is owned by a subscription that is gone.
NoOwnerIsRemoved ==
  \A t \in Threads : owners[t] # NoAccount => removing[owners[t]] # "removed"

\* Every request the desktop sends is answered, as long as the child it was
\* forwarded to does not exit.
EveryRequestAnswered ==
  \A r \in Requests :
    pc[r] = "routing" ~>
      \/ answers[r] # <<>>
      \/ pc[r] = "sent" /\ ~Running(target[r])

--------------------------------------------------------------------------------
(* The inductive invariant behind the safety properties.                   *)

\* What the app-server of a may have written: an answer to a request that was
\* sent to it, naming a chat only where the chat will be learnt, or the
\* notification of a chat; every chat it names is in its home.
Genuine(a) ==
  {m \in Message :
     /\ m.thread # NoThread => m.thread \in home[a]
     /\ \/ /\ m.type = "response" /\ m.request \in Requests
           /\ pc[m.request] = "sent" /\ target[m.request] = a
           /\ m.thread # NoThread => params[m.request].method \in Learning
        \/ m.type = "started" /\ m.request = NoRequest}

OutputIsGenuine == \A a \in Accounts : stdout[a] \in Seq(Genuine(a))

InboundIsGenuine == inbound \in Seq({e \in Envelopes : e.message \in Genuine(e.from)})

HandledIsGenuine ==
  /\ handling.stage = "idle" => handling = Idle
  /\ handling.stage # "idle" =>
       handling.from \in Accounts /\ handling.message \in Genuine(handling.from)

PipesHoldTheirRequests ==
  \A a \in Accounts : \A r \in stdin[a] : pc[r] = "sent" /\ target[r] = a

\* Everything on its way from a child to the desktop is genuine, and a request
\* in the pipe of a child was sent to that child.
TrafficIsGenuine ==
  OutputIsGenuine /\ InboundIsGenuine /\ HandledIsGenuine /\ PipesHoldTheirRequests

OneToken(r) ==
  /\ r \in routes => pc[r] \in {"sending", "sent"}
  /\ r \in routes => answers[r] = <<>> /\ ~HandlingResponseTo(r)
  /\ HandlingResponseTo(r) => answers[r] = <<>> /\ pc[r] = "sent"
  /\ pc[r] = "sending" => r \in routes
  /\ pc[r] \notin {"sent", "done"} => answers[r] = <<>>
  /\ pc[r] = "sent" => r \in routes \/ HandlingResponseTo(r) \/ answers[r] # <<>>
  /\ answers[r] \in {<<>>, <<Mux>>, <<target[r]>>}

\* Of a request, its route and its answer, exactly what the stage allows exists:
\* from registration on there is the route, or the response being handled, or
\* the answer, and never two of them.
OneTokenPerRequest == \A r \in Requests : OneToken(r)

\* A chat that routing has an owner for, or had one until the owner was removed.
Known(t) ==
  \/ owners[t] # NoAccount
  \/ \E a \in Accounts : Gone(a) /\ t \in home[a]

ListedIsHeld ==
  \A r \in Requests : \A a \in Accounts, t \in Threads :
    <<a, t>> \in listing[r].found \union listing[r].unowned => t \in home[a]

ShownIsKnown ==
  /\ \A t \in seen : Known(t)
  /\ \A r \in Requests : \A t \in listing[r].shown : Known(t)
  /\ handling.stage = "writing" /\ handling.message.thread # NoThread
       => Known(handling.message.thread)

ParametersFitMethod ==
  \A r \in Requests :
    /\ params[r].method # "scoped" => params[r].account = NoAccount
    /\ params[r].method \in FollowUps => params[r].thread \in seen

\* What a listing has collected is where it says it is, a chat goes to the
\* desktop only after it is known, and a request names a chat or an account only
\* where its kind allows it.
ChatsAreKnown ==
  OwnerHoldsThread /\ ListedIsHeld /\ ShownIsKnown /\ ParametersFitMethod

\* A request has a target from the moment it is routed, and not before.
RequestsAreRouted ==
  \A r \in Requests :
    /\ pc[r] \in {"unsent", "routing"} => target[r] = NoAccount
    /\ pc[r] \in {"forwarding", "sending", "sent"} => target[r] \in Accounts

\* Only a member of the pool is being removed.
RemovalsAreOfMembers ==
  \A a \in Accounts : removing[a] \in {"stopping", "moving", "committing"} => a \in accounts

\* A chat that a listing holds as unowned has no owner, or the listing was
\* overtaken.
OvertakenListingsAreKnown ==
  \A r \in Requests : \A a \in Accounts, t \in Threads :
    <<a, t>> \in listing[r].unowned => owners[t] = NoAccount \/ r \in overtaken

\* The conjunction that every step preserves.
IndInv ==
  /\ TypeOK /\ TrafficIsGenuine /\ OneTokenPerRequest /\ ChatsAreKnown
  /\ RequestsAreRouted /\ FollowUpReachesHome /\ RemovalsAreOfMembers
  /\ OvertakenListingsAreKnown

--------------------------------------------------------------------------------
(* The multiplexer as a pooled session.                                    *)

Session == INSTANCE PooledSession WITH
  asked    <- {r \in Requests : pc[r] # "unsent"},
  routed   <- target,
  answered <- answers,
  held     <- home,
  assigned <- owners

\* The multiplexer implements the pooled session: every interleaving of its
\* goroutines and children is, step by step, an ask, a routing decision, an
\* answer, a chat created, assigned or released, or invisible.
ImplementsPooledSession == Session!Spec

================================================================================
