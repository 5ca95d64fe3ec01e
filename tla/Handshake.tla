-------------------------------- MODULE Handshake ------------------------------
(***************************************************************************)
(* The initialize / initialized handshake between the desktop and the      *)
(* app-servers of the pool (internal/mux/mux.go), while AddAccount starts  *)
(* further children.  The goroutine of initialize, the stdin loop and each *)
(* startChild share the saved parameters, the initialized flag and the     *)
(* children map, each under a lock of its own.                             *)
(***************************************************************************)
EXTENDS Naturals, Sequences

CONSTANTS
  Accounts,  \* subscriptions with a child, now or later
  Initial,   \* those whose child is up before the desktop connects
  Fragile    \* those whose app-server may fail a handshake request

ASSUME HandshakeAssumption ==
  /\ Initial \subseteq Accounts /\ Initial # {}
  /\ Fragile \subseteq Accounts

VARIABLES
  accounts,    \* ids of the accounts of the Store
  children,    \* the children map
  paramsSaved, \* initializeParams is set
  initialized, \* the initialized flag
  starting,    \* progress of startChild for each added account
  sawParams,   \* what startChild read of initializeParams ...
  sawFlag,     \* ... and of initialized
  overlapped,  \* history: children that were between entering the map and the
               \* reading of the flag while handleClientNotification was between
               \* the setting of the flag and the taking of its entries
  handshake,   \* progress of the initialize goroutine
  toAsk,       \* entries it has still to ask
  anyResult,   \* a child has answered it
  broadcast,   \* entries handleClientNotification has still to notify
  notifying,   \* progress of handleClientNotification
  inbox        \* what each app-server was sent

vars == <<accounts, children, paramsSaved, initialized, starting, sawParams, sawFlag,
          overlapped, handshake, toAsk, anyResult, broadcast, notifying, inbox>>

startVars == <<accounts, children, starting, sawParams, sawFlag, overlapped>>
clientVars == <<paramsSaved, initialized, handshake, toAsk, anyResult, broadcast, notifying>>

Init ==
  /\ accounts = Initial
  /\ children = Initial
  /\ paramsSaved = FALSE
  /\ initialized = FALSE
  /\ starting = [a \in Accounts |-> IF a \in Initial THEN "done" ELSE "no"]
  /\ sawParams = [a \in Accounts |-> FALSE]
  /\ sawFlag = [a \in Accounts |-> FALSE]
  /\ overlapped = {}
  /\ handshake = "idle"
  /\ toAsk = {}
  /\ anyResult = FALSE
  /\ broadcast = {}
  /\ notifying = "idle"
  /\ inbox = [a \in Accounts |-> <<>>]

Entries == accounts \intersect children

Receives(a, message) == inbox' = [inbox EXCEPT ![a] = Append(@, message)]

\* An app-server answers the first initialize with a result, unless it fails,
\* and any later one with an error.
Accepts(a) == "initialize" \notin {inbox[a][i] : i \in 1..Len(inbox[a])}

--------------------------------------------------------------------------------
(* The desktop: initialize, its answer, initialized. *)

\* Slip: the parameters are not kept for children added later.
KeepParams_Slip == UNCHANGED paramsSaved

KeepParams == paramsSaved' = TRUE

\* The goroutine of initialize saves the parameters ...
SaveParams ==
  /\ handshake = "idle"
  /\ KeepParams
  /\ handshake' = "saved"
  /\ UNCHANGED <<startVars, initialized, toAsk, anyResult, broadcast, notifying, inbox>>

\* ... takes the children there are ...
TakeEntries ==
  /\ handshake = "saved"
  /\ toAsk' = Entries
  /\ handshake' = "asking"
  /\ UNCHANGED <<startVars, paramsSaved, initialized, anyResult, broadcast, notifying,
                 inbox>>

\* ... and asks them one after the other, in the order of the store.
AskChild(a) ==
  /\ handshake = "asking" /\ a \in toAsk
  /\ toAsk' = toAsk \ {a}
  /\ Receives(a, "initialize")
  /\ \/ Accepts(a) /\ anyResult' = TRUE
     \/ (a \in Fragile \/ ~Accepts(a)) /\ UNCHANGED anyResult
  /\ UNCHANGED <<startVars, paramsSaved, initialized, handshake, broadcast, notifying>>

\* Slip: the desktop is answered as soon as there is a result.
AllAsked_Slip == toAsk = {} \/ anyResult

AllAsked == toAsk = {}

\* The first result is the answer; without one the desktop gets an error.
AnswerDesktop ==
  /\ handshake = "asking" /\ AllAsked
  /\ handshake' = IF anyResult THEN "answered" ELSE "failed"
  /\ UNCHANGED <<startVars, paramsSaved, initialized, toAsk, anyResult, broadcast,
                 notifying, inbox>>

\* The desktop notifies once it has its answer. The flag is set under the lock ...
SetInitialized ==
  /\ handshake = "answered" /\ notifying = "idle"
  /\ initialized' = TRUE
  /\ notifying' = "flagged"
  /\ UNCHANGED <<startVars, paramsSaved, handshake, toAsk, anyResult, broadcast, inbox>>

\* ... then the children there are get the notification.
TakeBroadcast ==
  /\ notifying = "flagged"
  /\ broadcast' = Entries
  /\ notifying' = "sending"
  /\ overlapped' = overlapped \union {a \in Accounts : starting[a] = "entered"}
  /\ UNCHANGED <<accounts, children, starting, sawParams, sawFlag, paramsSaved, initialized,
                 handshake, toAsk, anyResult, inbox>>

Advance(a) == broadcast' = broadcast \ {a}

Broadcast(a) ==
  /\ notifying = "sending" /\ a \in broadcast
  /\ Advance(a)
  /\ Receives(a, "initialized")
  /\ UNCHANGED <<startVars, paramsSaved, initialized, handshake, toAsk, anyResult,
                 notifying>>

--------------------------------------------------------------------------------
(* AddAccount and startChild. *)

AddToStore(a) ==
  /\ starting[a] = "no"
  /\ accounts' = accounts \union {a}
  /\ starting' = [starting EXCEPT ![a] = "stored"]
  /\ UNCHANGED <<children, sawParams, sawFlag, overlapped, clientVars, inbox>>

\* The process is started and put into the map ...
EnterMap(a) ==
  /\ starting[a] = "stored"
  /\ children' = children \union {a}
  /\ starting' = [starting EXCEPT ![a] = "entered"]
  /\ UNCHANGED <<accounts, sawParams, sawFlag, overlapped, clientVars, inbox>>

\* ... and only then is the state of the handshake read.
ReadHandshake(a) ==
  /\ starting[a] = "entered"
  /\ sawParams' = [sawParams EXCEPT ![a] = paramsSaved]
  /\ sawFlag' = [sawFlag EXCEPT ![a] = initialized]
  /\ starting' = [starting EXCEPT ![a] = IF paramsSaved THEN "asking" ELSE "done"]
  /\ overlapped' = IF notifying = "flagged" THEN overlapped \union {a} ELSE overlapped
  /\ UNCHANGED <<accounts, children, clientVars, inbox>>

\* Slip: the flag is not looked at before the notification.
AfterAsking_Always(a) == "notifying"

\* Slip: a child added late is not told that the desktop is initialized.
AfterAsking_Never(a) == "done"

\* A child added after initialized is notified by startChild.
AfterAsking(a) == IF sawFlag[a] THEN "notifying" ELSE "done"

\* The child is asked to initialize; an error ends startChild, and AddAccount
\* with it, while the child stays in the map.
StartAsks(a) ==
  /\ starting[a] = "asking"
  /\ Receives(a, "initialize")
  /\ \/ Accepts(a) /\ starting' = [starting EXCEPT ![a] = AfterAsking(a)]
     \/ (a \in Fragile \/ ~Accepts(a)) /\ starting' = [starting EXCEPT ![a] = "failed"]
  /\ UNCHANGED <<accounts, children, sawParams, sawFlag, overlapped, clientVars>>

StartNotifies(a) ==
  /\ starting[a] = "notifying"
  /\ Receives(a, "initialized")
  /\ starting' = [starting EXCEPT ![a] = "done"]
  /\ UNCHANGED <<accounts, children, sawParams, sawFlag, overlapped, clientVars>>

--------------------------------------------------------------------------------
InitializeStep == TakeEntries \/ AnswerDesktop \/ (\E a \in Accounts : AskChild(a))

NotifyStep == TakeBroadcast \/ (\E a \in Accounts : Broadcast(a))

StartStep(a) == EnterMap(a) \/ ReadHandshake(a) \/ StartAsks(a) \/ StartNotifies(a)

Next ==
  \/ SaveParams \/ InitializeStep \/ SetInitialized \/ NotifyStep
  \/ \E a \in Accounts : AddToStore(a) \/ StartStep(a)

Spec == Init /\ [][Next]_vars

\* Every goroutine that has begun runs on, and the desktop notifies once it has
\* its answer; whether it connects and whether accounts are added is left open.
FairSpec ==
  /\ Spec
  /\ WF_vars(InitializeStep) /\ WF_vars(SetInitialized) /\ WF_vars(NotifyStep)
  /\ \A a \in Accounts : WF_vars(StartStep(a))

--------------------------------------------------------------------------------
Stages == {"no", "stored", "entered", "asking", "notifying", "done", "failed"}

\* Every variable keeps its shape, and an app-server is sent at most four messages.
TypeOK ==
  /\ accounts \subseteq Accounts /\ children \subseteq Accounts
  /\ paramsSaved \in BOOLEAN /\ initialized \in BOOLEAN /\ anyResult \in BOOLEAN
  /\ starting \in [Accounts -> Stages]
  /\ sawParams \in [Accounts -> BOOLEAN] /\ sawFlag \in [Accounts -> BOOLEAN]
  /\ overlapped \subseteq Accounts
  /\ handshake \in {"idle", "saved", "asking", "answered", "failed"}
  /\ notifying \in {"idle", "flagged", "sending"}
  /\ toAsk \subseteq Accounts /\ broadcast \subseteq Accounts
  /\ \A a \in Accounts : inbox[a] \in Seq({"initialize", "initialized"}) /\ Len(inbox[a]) <= 4

Times(a, message) == {i \in 1..Len(inbox[a]) : inbox[a][i] = message}

\* A child that is up before the desktop connects is sent the handshake once and
\* in order, however many accounts are being added at the time.
InitialChildInOrder ==
  \A a \in Initial :
    inbox[a] \in {<<>>, <<"initialize">>, <<"initialize", "initialized">>}

\* Once the desktop has connected, every child that startChild is done with is
\* asked to initialize: an account added while the desktop connects cannot fall
\* between the entries that initialize takes and the parameters startChild reads.
EveryChildIsAsked ==
  \A a \in Accounts :
    starting[a] = "done" /\ handshake \in {"answered", "failed"} => Times(a, "initialize") # {}

\* What holds between any two steps of the handshake: the types, and that no
\* child is left out (EveryChildIsAsked).
Inv == TypeOK /\ EveryChildIsAsked

\* Once the desktop has declared itself initialized, every child that startChild
\* finished without an error is eventually told so.
EveryChildIsNotified ==
  \A a \in Accounts :
    starting[a] = "done" /\ initialized ~> Times(a, "initialized") # {}

\* A child is told "initialized" twice only in one race: startChild had put it into
\* the map (mux.go:510) and not read the flag yet (mux.go:516), while the stdin loop
\* had set the flag (mux.go:210) and not taken its entries yet (mux.go:212). Any
\* other order of the two, and any account that is added long before or after,
\* gives one notification at most.
NotifiedTwiceOnlyInOverlap ==
  \A a \in Accounts \ overlapped : \A i, j \in Times(a, "initialized") : i = j

================================================================================
