---------------------------- MODULE Handshake_proofs ---------------------------
(***************************************************************************)
(* Proofs about the handshake, for any number of children, of which any    *)
(* may fail.                                                               *)
(*                                                                         *)
(* The argument.  A child that startChild is done with was asked, or it    *)
(* entered the map before the parameters were saved, and then the entries  *)
(* that the goroutine of initialize takes include it (NobodyIsLeftOut).    *)
(* What an app-server was sent follows from how far the goroutine, the     *)
(* notification and its startChild have come (SentByInitialize,            *)
(* SentByNotification, MessagesLeft).  A child outside the overlap is one  *)
(* that the broadcast has or one that startChild notifies, never both      *)
(* (ToldByOne).                                                            *)
(***************************************************************************)
EXTENDS Handshake, SequenceTheorems, TLAPS

Messages == {"initialize", "initialized"}

\* How the three of them proceed, one after the other.
Phases ==
  /\ inbox \in [Accounts -> Seq(Messages)]
  /\ handshake = "idle" <=> ~paramsSaved
  /\ handshake # "asking" => toAsk = {}
  /\ notifying # "idle" => handshake = "answered"
  /\ notifying # "sending" => broadcast = {}
  /\ initialized <=> notifying # "idle"
  /\ \A a \in children : starting[a] \notin {"no", "stored"}
  /\ \A a \in Accounts : starting[a] # "no" => a \in accounts
  /\ \A a \in Accounts : starting[a] \notin {"no", "stored"} => a \in children
  /\ \A a \in Accounts : starting[a] \in {"no", "stored", "entered"} => ~sawFlag[a]
  /\ \A a \in Accounts : starting[a] = "notifying" => sawFlag[a]
  /\ \A a \in Initial : starting[a] = "done" /\ ~sawFlag[a]

\* The goroutine of initialize has still to ask the child.
StillToAsk(a) == handshake \in {"idle", "saved"} \/ a \in toAsk

\* The broadcast has still to reach the child.
StillToNotify(a) == notifying \in {"idle", "flagged"} \/ a \in broadcast

\* A child that is ready was asked or will be, as it is among the entries.
NobodyIsLeftOut ==
  \A a \in Accounts :
    starting[a] \in {"notifying", "done"} => Times(a, "initialize") # {} \/ StillToAsk(a)

\* What the children of the start were sent.
SentByInitialize ==
  \A a \in Initial :
    inbox[a] = IF StillToAsk(a) THEN <<>>
               ELSE IF StillToNotify(a) THEN <<"initialize">>
               ELSE <<"initialize", "initialized">>

\* A child that startChild does not notify is notified by the broadcast, and once.
SentByNotification ==
  \A a \in Accounts :
    ~sawFlag[a] => /\ StillToNotify(a) => Times(a, "initialized") = {}
                   /\ \A i, j \in Times(a, "initialized") : i = j

\* What the three may still send to a child.
MessagesLeft(a) ==
  (IF StillToAsk(a) THEN 1 ELSE 0) + (IF StillToNotify(a) THEN 1 ELSE 0)
    + (IF starting[a] \in {"no", "stored", "entered", "asking"} THEN 2
       ELSE IF starting[a] = "notifying" THEN 1 ELSE 0)

FourAtMost == \A a \in Accounts : Len(inbox[a]) + MessagesLeft(a) <= 4

IInv == Inv /\ Phases /\ NobodyIsLeftOut /\ SentByInitialize /\ SentByNotification /\ FourAtMost

--------------------------------------------------------------------------------
\* What a message changes: one more at the end of one inbox.
LEMMA Reception ==
  ASSUME inbox \in [Accounts -> Seq(Messages)],
         NEW a \in Accounts, NEW m \in Messages, Receives(a, m)
  PROVE  /\ inbox' \in [Accounts -> Seq(Messages)]
         /\ inbox'[a] = Append(inbox[a], m)
         /\ Len(inbox[a]) \in Nat /\ Len(inbox'[a]) = Len(inbox[a]) + 1
         /\ Times(a, m)' = Times(a, m) \union {Len(inbox[a]) + 1}
         /\ \A k \in Messages \ {m} : Times(a, k)' = Times(a, k)
         /\ \A b \in Accounts \ {a} : inbox'[b] = inbox[b]
         /\ \A b \in Accounts \ {a}, k \in Messages : Times(b, k)' = Times(b, k)
<1>1. /\ inbox' = [inbox EXCEPT ![a] = Append(inbox[a], m)]
      /\ inbox[a] \in Seq(Messages)
  BY DEF Receives
<1>2. /\ Append(inbox[a], m) \in Seq(Messages) /\ Len(inbox[a]) \in Nat
      /\ Len(Append(inbox[a], m)) = Len(inbox[a]) + 1
      /\ \A i \in 1..Len(inbox[a]) : Append(inbox[a], m)[i] = inbox[a][i]
      /\ Append(inbox[a], m)[Len(inbox[a]) + 1] = m
  BY <1>1, AppendProperties, LenProperties
<1>3. /\ inbox' \in [Accounts -> Seq(Messages)] /\ inbox'[a] = Append(inbox[a], m)
      /\ \A b \in Accounts \ {a} : inbox'[b] = inbox[b]
  BY <1>1, <1>2
<1>4. \A i \in 1..Len(inbox'[a]) : i \in 1..Len(inbox[a]) \/ i = Len(inbox[a]) + 1
  BY <1>2, <1>3
<1>5. 1..Len(inbox[a]) \subseteq 1..Len(inbox'[a]) /\ Len(inbox[a]) + 1 \in 1..Len(inbox'[a])
  BY <1>2, <1>3
<1>6. Times(a, m)' = Times(a, m) \union {Len(inbox[a]) + 1}
  BY <1>2, <1>3, <1>4, <1>5 DEF Times
<1>7. \A k \in Messages \ {m} : Times(a, k)' = Times(a, k)
  BY <1>2, <1>3, <1>4, <1>5 DEF Times
<1>8. \A b \in Accounts \ {a}, k \in Messages : Times(b, k)' = Times(b, k)
  BY <1>3 DEF Times
<1>. QED
  BY <1>2, <1>3, <1>6, <1>7, <1>8

\* The second message comes after the first.
LEMMA TwoMessages == ASSUME NEW m, NEW k PROVE Append(<<m>>, k) = <<m, k>>
<1>1. <<m>> \in Seq({m, k}) /\ Len(<<m>>) = 1 /\ <<m>>[1] = m
  OBVIOUS
<1>2. /\ Append(<<m>>, k) \in Seq({m, k}) /\ Len(Append(<<m>>, k)) = 2
      /\ Append(<<m>>, k)[1] = m /\ Append(<<m>>, k)[2] = k
  BY <1>1, AppendProperties
<1>3. /\ <<m, k>> \in Seq({m, k}) /\ Len(<<m, k>>) = 2
      /\ <<m, k>>[1] = m /\ <<m, k>>[2] = k
  OBVIOUS
<1>4. \A i \in 1..Len(Append(<<m>>, k)) : Append(<<m>>, k)[i] = <<m, k>>[i]
  BY <1>2, <1>3
<1>5. Len(Append(<<m>>, k)) = Len(<<m, k>>)
  BY <1>2, <1>3
<1>. QED
  BY <1>2, <1>3, <1>4, <1>5, SeqEqual

\* An inbox that stays has the same messages.
LEMMA NoReception == ASSUME UNCHANGED inbox, NEW a, NEW m PROVE Times(a, m)' = Times(a, m)
BY DEF Times

\* Two conjuncts of the type invariant, and the one that the code needs, follow from
\* the others.
LEMMA Consequences ==
  ASSUME Phases, NobodyIsLeftOut, FourAtMost
  PROVE  /\ EveryChildIsAsked
         /\ \A a \in Accounts : inbox[a] \in Seq(Messages) /\ Len(inbox[a]) <= 4
<1>1. EveryChildIsAsked
  BY DEF EveryChildIsAsked, Phases, NobodyIsLeftOut, StillToAsk
<1>2. ASSUME NEW a \in Accounts
      PROVE  inbox[a] \in Seq(Messages) /\ Len(inbox[a]) <= 4
  <2>1. inbox[a] \in Seq(Messages) /\ Len(inbox[a]) \in Nat
    BY LenProperties DEF Phases
  <2>2. MessagesLeft(a) \in Nat
    BY DEF MessagesLeft
  <2>. QED
    BY <2>1, <2>2 DEF FourAtMost
<1>. QED
  BY <1>1, <1>2

\* Everything that is said about the steps below is about these.
Rest == Phases /\ NobodyIsLeftOut /\ SentByInitialize /\ SentByNotification /\ FourAtMost

\* The types of the variables but for the inboxes.
Typed ==
  /\ accounts \subseteq Accounts /\ children \subseteq Accounts
  /\ paramsSaved \in BOOLEAN /\ initialized \in BOOLEAN /\ anyResult \in BOOLEAN
  /\ starting \in [Accounts -> Stages]
  /\ sawParams \in [Accounts -> BOOLEAN] /\ sawFlag \in [Accounts -> BOOLEAN]
  /\ overlapped \subseteq Accounts
  /\ handshake \in {"idle", "saved", "asking", "answered", "failed"}
  /\ notifying \in {"idle", "flagged", "sending"}
  /\ toAsk \subseteq Accounts /\ broadcast \subseteq Accounts

LEMMA RestSuffices == Rest /\ Typed => IInv
BY Consequences DEF Rest, Typed, IInv, Inv, TypeOK, Messages

LEMMA RestSufficesNext == (Rest /\ Typed => IInv)'
BY RestSuffices, PTL

LEMMA InitIInv == Init => IInv
<1>. SUFFICES ASSUME Init PROVE IInv
  OBVIOUS
<1>. USE HandshakeAssumption DEF Init
<1>1. <<>> \in Seq(Messages) /\ Len(<<>>) = 0
  BY EmptySeq
<1>2. ASSUME NEW a \in Accounts
      PROVE  inbox[a] = <<>> /\ Times(a, "initialize") = {} /\ Times(a, "initialized") = {}
  <2>1. inbox[a] = <<>> /\ 1..Len(inbox[a]) = {}
    BY <1>1
  <2>. QED
    BY <2>1 DEF Times
<1>3. Phases /\ Typed
  BY <1>1 DEF Phases, Typed, Stages
<1>4. \A a \in Accounts : StillToAsk(a) /\ StillToNotify(a)
  BY DEF StillToAsk, StillToNotify
<1>5. ASSUME NEW a \in Accounts PROVE Len(inbox[a]) + MessagesLeft(a) <= 4
  <2>1. Len(inbox[a]) = 0
    BY <1>1, <1>2
  <2>2. MessagesLeft(a) \in Nat /\ MessagesLeft(a) <= 4
    BY DEF MessagesLeft
  <2>. QED
    BY <2>1, <2>2
<1>6. NobodyIsLeftOut /\ SentByInitialize /\ SentByNotification
  BY <1>2, <1>4, HandshakeAssumption DEF NobodyIsLeftOut, SentByInitialize, SentByNotification
<1>. QED
  BY <1>3, <1>5, <1>6, RestSuffices DEF Rest, FourAtMost

--------------------------------------------------------------------------------
(* The desktop and the goroutine of initialize. *)

\* Steps that send nothing and keep what is still to be sent.
LEMMA SameRest ==
  ASSUME IInv, Phases', UNCHANGED <<inbox, starting, sawFlag>>,
         \A a \in Accounts : StillToAsk(a)' = StillToAsk(a) /\ StillToNotify(a)' = StillToNotify(a)
  PROVE  Rest'
<1>1. \A a \in Accounts : MessagesLeft(a)' = MessagesLeft(a)
  BY DEF MessagesLeft
<1>2. FourAtMost'
  BY <1>1 DEF IInv, FourAtMost
<1>3. SentByInitialize'
  BY HandshakeAssumption DEF IInv, SentByInitialize
<1>. QED
  BY <1>2, <1>3, NoReception DEF Rest, IInv, NobodyIsLeftOut, SentByNotification

LEMMA StepSilent ==
  ASSUME IInv,
         SaveParams \/ TakeEntries \/ AnswerDesktop \/ SetInitialized \/ TakeBroadcast
         \/ UNCHANGED vars
  PROVE  IInv'
<1>. USE DEF IInv, Inv, TypeOK, startVars
<1>1. CASE SaveParams
  <2>1. Phases'
    BY <1>1 DEF SaveParams, KeepParams, Phases
  <2>2. Rest'
    BY <1>1, <2>1, SameRest DEF SaveParams, StillToAsk, StillToNotify
  <2>. QED
    BY <1>1, <2>2, RestSufficesNext DEF Typed, SaveParams, KeepParams
<1>2. CASE TakeEntries
  <2>1. Phases' /\ toAsk' \subseteq Accounts
    BY <1>2 DEF TakeEntries, Phases, Entries
  <2>2. \A a \in Initial : a \in toAsk'
    BY <1>2, HandshakeAssumption DEF TakeEntries, Entries, Phases
  <2>3. \A a \in Accounts : starting[a] \in {"notifying", "done"} => a \in toAsk'
    BY <1>2 DEF TakeEntries, Entries, Phases
  <2>4. \A a \in Accounts : /\ StillToAsk(a) /\ StillToNotify(a)' = StillToNotify(a)
                            /\ StillToAsk(a)' = (a \in toAsk')
    BY <1>2 DEF TakeEntries, StillToAsk, StillToNotify
  <2>5. \A a \in Accounts : MessagesLeft(a)' <= MessagesLeft(a)
                            /\ MessagesLeft(a)' \in Nat /\ MessagesLeft(a) \in Nat
    BY <1>2, <2>4 DEF TakeEntries, MessagesLeft
  <2>6. FourAtMost'
    <3>. SUFFICES ASSUME NEW a \in Accounts PROVE Len(inbox'[a]) + MessagesLeft(a)' <= 4
      BY DEF FourAtMost
    <3>1. inbox'[a] = inbox[a] /\ Len(inbox[a]) \in Nat
      BY <1>2, LenProperties DEF TakeEntries, Phases
    <3>. QED
      BY <2>5, <3>1 DEF FourAtMost
  <2>7. SentByInitialize'
    BY <1>2, <2>2, <2>4, HandshakeAssumption DEF TakeEntries, SentByInitialize
  <2>8. NobodyIsLeftOut'
    BY <1>2, <2>3, <2>4 DEF TakeEntries, NobodyIsLeftOut
  <2>9. SentByNotification'
    BY <1>2, <2>4, NoReception DEF TakeEntries, SentByNotification
  <2>10. Rest'
    BY <2>1, <2>6, <2>7, <2>8, <2>9 DEF Rest
  <2>. QED
    BY <1>2, <2>1, <2>10, RestSufficesNext DEF Typed, TakeEntries
<1>3. CASE AnswerDesktop
  <2>1. Phases'
    BY <1>3 DEF AnswerDesktop, AllAsked, Phases
  <2>2. Rest'
    BY <1>3, <2>1, SameRest DEF AnswerDesktop, StillToAsk, StillToNotify
  <2>. QED
    BY <1>3, <2>2, RestSufficesNext DEF Typed, AnswerDesktop
<1>4. CASE SetInitialized
  <2>1. Phases'
    BY <1>4 DEF SetInitialized, Phases
  <2>2. Rest'
    BY <1>4, <2>1, SameRest DEF SetInitialized, StillToAsk, StillToNotify
  <2>. QED
    BY <1>4, <2>2, RestSufficesNext DEF Typed, SetInitialized
<1>5. CASE TakeBroadcast
  <2>1. Phases' /\ broadcast' \subseteq Accounts
    BY <1>5 DEF TakeBroadcast, Phases, Entries
  <2>2. \A a \in Initial : a \in broadcast'
    BY <1>5, HandshakeAssumption DEF TakeBroadcast, Entries, Phases
  <2>3. \A a \in Accounts : /\ StillToNotify(a) /\ StillToAsk(a)' = StillToAsk(a)
                            /\ StillToNotify(a)' = (a \in broadcast')
    BY <1>5 DEF TakeBroadcast, StillToAsk, StillToNotify
  <2>4. \A a \in Accounts : MessagesLeft(a)' <= MessagesLeft(a)
                            /\ MessagesLeft(a)' \in Nat /\ MessagesLeft(a) \in Nat
    BY <1>5, <2>3 DEF TakeBroadcast, MessagesLeft
  <2>5. FourAtMost'
    <3>. SUFFICES ASSUME NEW a \in Accounts PROVE Len(inbox'[a]) + MessagesLeft(a)' <= 4
      BY DEF FourAtMost
    <3>1. inbox'[a] = inbox[a] /\ Len(inbox[a]) \in Nat
      BY <1>5, LenProperties DEF TakeBroadcast, Phases
    <3>. QED
      BY <2>4, <3>1 DEF FourAtMost
  <2>6. SentByInitialize'
    BY <1>5, <2>2, <2>3, HandshakeAssumption DEF TakeBroadcast, SentByInitialize
  <2>7. NobodyIsLeftOut' /\ SentByNotification'
    BY <1>5, <2>3, NoReception DEF TakeBroadcast, NobodyIsLeftOut, SentByNotification
  <2>8. Rest'
    BY <2>1, <2>5, <2>6, <2>7 DEF Rest
  <2>. QED
    BY <1>5, <2>1, <2>8, RestSufficesNext DEF Typed, TakeBroadcast
<1>6. CASE UNCHANGED vars
  <2>1. Phases'
    BY <1>6 DEF vars, Phases
  <2>2. Rest'
    BY <1>6, <2>1, SameRest DEF vars, StillToAsk, StillToNotify
  <2>. QED
    BY <1>6, <2>2, RestSufficesNext DEF Typed, vars
<1>. QED
  BY <1>1, <1>2, <1>3, <1>4, <1>5, <1>6

LEMMA StepAskChild == ASSUME IInv, NEW a \in Accounts, AskChild(a) PROVE IInv'
<1>. USE DEF IInv, Inv, TypeOK, startVars
<1>1. /\ handshake = "asking" /\ a \in toAsk /\ toAsk' = toAsk \ {a}
      /\ Receives(a, "initialize") /\ anyResult' \in BOOLEAN
      /\ UNCHANGED <<accounts, children, starting, sawParams, sawFlag, overlapped, paramsSaved,
                     initialized, handshake, broadcast, notifying>>
  BY DEF AskChild
<1>2. /\ inbox' \in [Accounts -> Seq(Messages)]
      /\ inbox'[a] = Append(inbox[a], "initialize")
      /\ Len(inbox[a]) \in Nat /\ Len(inbox'[a]) = Len(inbox[a]) + 1
      /\ Times(a, "initialize")' = Times(a, "initialize") \union {Len(inbox[a]) + 1}
      /\ Times(a, "initialized")' = Times(a, "initialized")
      /\ \A b \in Accounts \ {a} : inbox'[b] = inbox[b]
      /\ \A b \in Accounts \ {a}, k \in Messages : Times(b, k)' = Times(b, k)
  BY <1>1, Reception DEF Phases, Messages
<1>3. Phases'
  BY <1>1, <1>2 DEF Phases
<1>4. /\ StillToAsk(a) /\ ~StillToAsk(a)'
      /\ \A b \in Accounts : b # a => StillToAsk(b)' = StillToAsk(b)
      /\ \A b \in Accounts : StillToNotify(b)' = StillToNotify(b)
  BY <1>1 DEF StillToAsk, StillToNotify
<1>5. StillToNotify(a) \/ a \notin Initial
  BY <1>1 DEF StillToNotify, Phases
<1>6. NobodyIsLeftOut'
  BY <1>1, <1>2, <1>4 DEF NobodyIsLeftOut, Messages
<1>7. SentByNotification'
  BY <1>1, <1>2, <1>4 DEF SentByNotification, Messages
<1>8. SentByInitialize'
  <2>. SUFFICES ASSUME NEW b \in Initial
                PROVE  inbox'[b] = IF StillToAsk(b)' THEN <<>>
                                   ELSE IF StillToNotify(b)' THEN <<"initialize">>
                                   ELSE <<"initialize", "initialized">>
    BY DEF SentByInitialize
  <2>1. CASE b = a
    <3>1. inbox[a] = <<>> /\ Append(<<>>, "initialize") = <<"initialize">>
      BY <1>4, <2>1 DEF SentByInitialize
    <3>. QED
      BY <1>2, <1>4, <1>5, <2>1, <3>1
  <2>2. CASE b # a
    BY <1>2, <1>4, <2>2, HandshakeAssumption DEF SentByInitialize
  <2>. QED
    BY <2>1, <2>2
<1>9. FourAtMost'
  <2>1. MessagesLeft(a)' + 1 = MessagesLeft(a) /\ MessagesLeft(a)' \in Nat
    BY <1>1, <1>4 DEF MessagesLeft
  <2>2. \A b \in Accounts \ {a} : MessagesLeft(b)' = MessagesLeft(b)
    BY <1>1, <1>4 DEF MessagesLeft
  <2>3. Len(inbox'[a]) + MessagesLeft(a)' <= 4
    BY <1>2, <2>1 DEF FourAtMost
  <2>. QED
    BY <1>2, <2>2, <2>3 DEF FourAtMost
<1>10. Rest'
  BY <1>3, <1>6, <1>7, <1>8, <1>9 DEF Rest
<1>. QED
  BY <1>1, <1>10, RestSufficesNext DEF Typed

LEMMA StepBroadcast == ASSUME IInv, NEW a \in Accounts, Broadcast(a) PROVE IInv'
<1>. USE DEF IInv, Inv, TypeOK, startVars
<1>1. /\ notifying = "sending" /\ a \in broadcast /\ broadcast' = broadcast \ {a}
      /\ Receives(a, "initialized")
      /\ UNCHANGED <<accounts, children, starting, sawParams, sawFlag, overlapped, paramsSaved,
                     initialized, handshake, toAsk, anyResult, notifying>>
  BY DEF Broadcast, Advance
<1>2. /\ inbox' \in [Accounts -> Seq(Messages)]
      /\ inbox'[a] = Append(inbox[a], "initialized")
      /\ Len(inbox[a]) \in Nat /\ Len(inbox'[a]) = Len(inbox[a]) + 1
      /\ Times(a, "initialized")' = Times(a, "initialized") \union {Len(inbox[a]) + 1}
      /\ Times(a, "initialize")' = Times(a, "initialize")
      /\ \A b \in Accounts \ {a} : inbox'[b] = inbox[b]
      /\ \A b \in Accounts \ {a}, k \in Messages : Times(b, k)' = Times(b, k)
  BY <1>1, Reception DEF Phases, Messages
<1>3. Phases'
  BY <1>1, <1>2 DEF Phases
<1>4. /\ StillToNotify(a) /\ ~StillToNotify(a)'
      /\ \A b \in Accounts : b # a => StillToNotify(b)' = StillToNotify(b)
      /\ \A b \in Accounts : StillToAsk(b)' = StillToAsk(b) /\ ~StillToAsk(b)
  BY <1>1 DEF StillToAsk, StillToNotify, Phases
<1>5. NobodyIsLeftOut'
  BY <1>1, <1>2, <1>4 DEF NobodyIsLeftOut, Messages
<1>6. SentByNotification'
  <2>1. ASSUME ~sawFlag[a]
        PROVE  \A i, j \in Times(a, "initialized")' : i = j
    BY <1>2, <1>4, <2>1 DEF SentByNotification
  <2>2. \A b \in Accounts \ {a} : Times(b, "initialized")' = Times(b, "initialized")
    BY <1>2 DEF Messages
  <2>. QED
    BY <1>1, <1>4, <2>1, <2>2 DEF SentByNotification
<1>7. SentByInitialize'
  <2>. SUFFICES ASSUME NEW b \in Initial
                PROVE  inbox'[b] = IF StillToAsk(b)' THEN <<>>
                                   ELSE IF StillToNotify(b)' THEN <<"initialize">>
                                   ELSE <<"initialize", "initialized">>
    BY DEF SentByInitialize
  <2>1. CASE b = a
    <3>1. inbox[a] = <<"initialize">>
      BY <1>4, <2>1 DEF SentByInitialize
    <3>. QED
      BY <1>2, <1>4, <2>1, <3>1, TwoMessages
  <2>2. CASE b # a
    BY <1>2, <1>4, <2>2, HandshakeAssumption DEF SentByInitialize
  <2>. QED
    BY <2>1, <2>2
<1>8. FourAtMost'
  <2>1. MessagesLeft(a)' + 1 = MessagesLeft(a) /\ MessagesLeft(a)' \in Nat
    BY <1>1, <1>4 DEF MessagesLeft
  <2>2. \A b \in Accounts \ {a} : MessagesLeft(b)' = MessagesLeft(b)
    BY <1>1, <1>4 DEF MessagesLeft
  <2>3. Len(inbox'[a]) + MessagesLeft(a)' <= 4
    BY <1>2, <2>1 DEF FourAtMost
  <2>. QED
    BY <1>2, <2>2, <2>3 DEF FourAtMost
<1>9. Rest'
  BY <1>3, <1>5, <1>6, <1>7, <1>8 DEF Rest
<1>. QED
  BY <1>1, <1>9, RestSufficesNext DEF Typed

--------------------------------------------------------------------------------
(* startChild. *)

LEMMA StepEnter ==
  ASSUME IInv, NEW a \in Accounts, AddToStore(a) \/ EnterMap(a) \/ ReadHandshake(a)
  PROVE  IInv'
<1>. USE DEF IInv, Inv, TypeOK, clientVars
<1>1. /\ starting[a] \in {"no", "stored", "entered"} /\ a \notin Initial
      /\ UNCHANGED <<paramsSaved, initialized, handshake, toAsk, anyResult, broadcast, notifying,
                     inbox>>
      /\ \A b \in Accounts \ {a} : starting'[b] = starting[b] /\ sawFlag'[b] = sawFlag[b]
      /\ accounts' \subseteq Accounts /\ children' \subseteq Accounts
      /\ overlapped' \subseteq Accounts
      /\ starting' \in [Accounts -> Stages]
      /\ sawParams' \in [Accounts -> BOOLEAN] /\ sawFlag' \in [Accounts -> BOOLEAN]
  BY DEF AddToStore, EnterMap, ReadHandshake, Stages, Phases
<1>2. \/ /\ starting'[a] \in {"stored", "entered", "asking"}
         /\ starting'[a] = "asking" \/ ~sawFlag'[a]
      \/ starting'[a] = "done" /\ handshake = "idle"
  BY DEF AddToStore, EnterMap, ReadHandshake, Phases
<1>3. Phases'
  <2>1. CASE AddToStore(a)
    BY <1>1, <2>1 DEF AddToStore, Phases
  <2>2. CASE EnterMap(a)
    BY <1>1, <2>2 DEF EnterMap, Phases
  <2>3. CASE ReadHandshake(a)
    BY <1>1, <2>3 DEF ReadHandshake, Phases
  <2>. QED
    BY <2>1, <2>2, <2>3
<1>4. \A b \in Accounts : /\ StillToAsk(b)' = StillToAsk(b)
                          /\ StillToNotify(b)' = StillToNotify(b)
                          /\ \A k \in Messages : Times(b, k)' = Times(b, k)
  BY <1>1, NoReception DEF StillToAsk, StillToNotify
<1>5. NobodyIsLeftOut'
  <2>1. starting'[a] \in {"notifying", "done"} => StillToAsk(a)
    BY <1>2 DEF StillToAsk
  <2>. QED
    BY <1>1, <1>4, <2>1 DEF NobodyIsLeftOut, Messages
<1>6. SentByInitialize'
  BY <1>1, <1>4, HandshakeAssumption DEF SentByInitialize
<1>7. SentByNotification'
  <2>1. ~sawFlag[a]
    BY <1>1 DEF Phases
  <2>. QED
    BY <1>1, <1>4, <2>1 DEF SentByNotification, Messages
<1>8. FourAtMost'
  <2>1. \A b \in Accounts : MessagesLeft(b)' <= MessagesLeft(b)
                            /\ MessagesLeft(b)' \in Nat /\ MessagesLeft(b) \in Nat
    BY <1>1, <1>4 DEF MessagesLeft
  <2>. SUFFICES ASSUME NEW b \in Accounts PROVE Len(inbox'[b]) + MessagesLeft(b)' <= 4
    BY DEF FourAtMost
  <2>2. inbox'[b] = inbox[b] /\ Len(inbox[b]) \in Nat
    BY <1>1, LenProperties DEF Phases
  <2>. QED
    BY <2>1, <2>2 DEF FourAtMost
<1>9. Rest'
  BY <1>3, <1>5, <1>6, <1>7, <1>8 DEF Rest
<1>. QED
  BY <1>1, <1>9, RestSufficesNext DEF Typed

LEMMA StepStartSends ==
  ASSUME IInv, NEW a \in Accounts, StartAsks(a) \/ StartNotifies(a)
  PROVE  IInv'
<1>. USE DEF IInv, Inv, TypeOK, clientVars
<1>1. /\ starting[a] \in {"asking", "notifying"} /\ a \notin Initial
      /\ UNCHANGED <<accounts, children, sawParams, sawFlag, overlapped, paramsSaved, initialized, handshake,
                     toAsk, anyResult, broadcast, notifying>>
      /\ \A b \in Accounts \ {a} : starting'[b] = starting[b]
      /\ starting' \in [Accounts -> Stages]
  BY DEF StartAsks, StartNotifies, AfterAsking, Stages, Phases
<1>2. PICK m \in Messages :
        /\ Receives(a, m)
        /\ \/ /\ m = "initialize" /\ starting[a] = "asking"
              /\ starting'[a] \in {"notifying", "done", "failed"}
              /\ starting'[a] = "notifying" => sawFlag[a]
           \/ /\ m = "initialized" /\ starting[a] = "notifying" /\ starting'[a] = "done"
              /\ sawFlag[a]
  <2>1. CASE StartAsks(a)
    BY <2>1 DEF StartAsks, AfterAsking, Messages
  <2>2. CASE StartNotifies(a)
    BY <2>2 DEF StartNotifies, Messages, Phases
  <2>. QED
    BY <2>1, <2>2
<1>3. /\ inbox' \in [Accounts -> Seq(Messages)]
      /\ Len(inbox[a]) \in Nat /\ Len(inbox'[a]) = Len(inbox[a]) + 1
      /\ Times(a, m)' = Times(a, m) \union {Len(inbox[a]) + 1}
      /\ \A k \in Messages \ {m} : Times(a, k)' = Times(a, k)
      /\ \A b \in Accounts \ {a} : inbox'[b] = inbox[b]
      /\ \A b \in Accounts \ {a}, k \in Messages : Times(b, k)' = Times(b, k)
  BY <1>2, Reception DEF Phases
<1>4. Phases'
  <2>1. \A b \in Accounts :
          \/ starting'[b] = starting[b]
          \/ /\ b \notin Initial /\ b \in accounts /\ b \in children
             /\ starting'[b] \in {"notifying", "done", "failed"}
             /\ starting'[b] = "notifying" => sawFlag[b]
    BY <1>1, <1>2 DEF Phases
  <2>. QED
    BY <1>1, <1>3, <2>1, HandshakeAssumption DEF Phases
<1>5. \A b \in Accounts : /\ StillToAsk(b)' = StillToAsk(b)
                          /\ StillToNotify(b)' = StillToNotify(b)
  BY <1>1 DEF StillToAsk, StillToNotify
<1>6. NobodyIsLeftOut'
  <2>1. m = "initialize" => Times(a, "initialize")' # {}
    BY <1>3
  <2>2. m = "initialized" => Times(a, "initialize")' = Times(a, "initialize")
    BY <1>3 DEF Messages
  <2>. QED
    BY <1>1, <1>2, <1>3, <1>5, <2>1, <2>2 DEF NobodyIsLeftOut, Messages
<1>7. SentByInitialize'
  BY <1>1, <1>3, <1>5, HandshakeAssumption DEF SentByInitialize
<1>8. SentByNotification'
  <2>1. ~sawFlag[a] => Times(a, "initialized")' = Times(a, "initialized")
    BY <1>2, <1>3 DEF Messages
  <2>2. \A b \in Accounts \ {a} : Times(b, "initialized")' = Times(b, "initialized")
    BY <1>3 DEF Messages
  <2>. QED
    <3>. SUFFICES ASSUME NEW b \in Accounts, ~sawFlag'[b]
         PROVE  /\ StillToNotify(b)' => Times(b, "initialized")' = {}
                /\ \A i, j \in Times(b, "initialized")' : i = j
      BY DEF SentByNotification
    <3>1. ~sawFlag[b] /\ Times(b, "initialized")' = Times(b, "initialized")
      BY <1>1, <2>1, <2>2
    <3>2. StillToNotify(b)' = StillToNotify(b)
      BY <1>5
    <3>3. SentByNotification
      OBVIOUS
    <3>. HIDE DEF IInv
    <3>. QED
      BY <3>1, <3>2, <3>3 DEF SentByNotification
<1>9. FourAtMost'
  <2>1. MessagesLeft(a)' + 1 <= MessagesLeft(a)
        /\ MessagesLeft(a)' \in Nat /\ MessagesLeft(a) \in Nat
    BY <1>1, <1>2, <1>5 DEF MessagesLeft
  <2>2. \A b \in Accounts \ {a} : MessagesLeft(b)' = MessagesLeft(b)
    BY <1>1, <1>5 DEF MessagesLeft
  <2>3. Len(inbox'[a]) + MessagesLeft(a)' <= 4
    BY <1>3, <2>1 DEF FourAtMost
  <2>. QED
    BY <1>3, <2>2, <2>3 DEF FourAtMost
<1>10. Rest'
  BY <1>4, <1>6, <1>7, <1>8, <1>9 DEF Rest
<1>. QED
  BY <1>1, <1>10, RestSufficesNext DEF Typed

LEMMA Invariance == Spec => []IInv
<1>1. IInv /\ [Next]_vars => IInv'
  BY StepSilent, StepAskChild, StepBroadcast, StepEnter, StepStartSends
     DEF Next, InitializeStep, NotifyStep, StartStep
<1>. QED
  BY <1>1, InitIInv, PTL DEF Spec

--------------------------------------------------------------------------------
\* No child that startChild is done with has been left out when the desktop has its
\* answer, and no app-server gets more than four messages.
THEOREM NoChildIsLeftOut == Spec => []Inv
<1>1. IInv => Inv
  BY DEF IInv
<1>. QED
  BY <1>1, Invariance, PTL

\* Accounts that are added meanwhile do not disturb the handshake of a child of the
\* start.
THEOREM InitialChildrenInOrder == Spec => []InitialChildInOrder
<1>1. IInv => InitialChildInOrder
  BY DEF IInv, SentByInitialize, InitialChildInOrder
<1>. QED
  BY <1>1, Invariance, PTL

--------------------------------------------------------------------------------
(* Who tells a child that the desktop is initialized. *)

\* Outside the overlap: a child for which startChild saw the flag is not in the
\* broadcast, and one that has not come to the flag yet has not been told.
ToldByOne ==
  \A a \in Accounts \ overlapped :
    /\ sawFlag[a] => /\ notifying = "sending" /\ a \notin broadcast
                     /\ starting[a] \in {"asking", "notifying"} => Times(a, "initialized") = {}
                     /\ \A i, j \in Times(a, "initialized") : i = j
    /\ starting[a] \in {"no", "stored", "entered"} =>
         a \notin broadcast /\ Times(a, "initialized") = {}

\* The same of one child.
ToldByOneOf(a) ==
  /\ sawFlag[a] => /\ notifying = "sending" /\ a \notin broadcast
                   /\ starting[a] \in {"asking", "notifying"} => Times(a, "initialized") = {}
                   /\ \A i, j \in Times(a, "initialized") : i = j
  /\ starting[a] \in {"no", "stored", "entered"} =>
       a \notin broadcast /\ Times(a, "initialized") = {}

\* What an app-server has been told stays, unless it is this one that is told.
LEMMA Told ==
  ASSUME IInv, NEW a \in Accounts, NEW m \in Messages, Receives(a, m)
  PROVE  /\ m = "initialized" => Times(a, m)' = Times(a, m) \union {Len(inbox[a]) + 1}
         /\ m = "initialize" => Times(a, "initialized")' = Times(a, "initialized")
         /\ \A b \in Accounts \ {a} : Times(b, "initialized")' = Times(b, "initialized")
  BY Reception DEF IInv, Phases, Messages

LEMMA ToldByOneStep == IInv /\ ToldByOne /\ [Next]_vars => ToldByOne'
<1>. SUFFICES ASSUME IInv, ToldByOne, [Next]_vars, NEW b \in Accounts, b \notin overlapped'
              PROVE  ToldByOneOf(b)'
  BY DEF ToldByOne, ToldByOneOf
<1>. USE DEF IInv, Inv, TypeOK, startVars, clientVars
<1>1. b \notin overlapped
  BY DEF Next, InitializeStep, NotifyStep, StartStep, SaveParams, TakeEntries, AnswerDesktop,
     AskChild, SetInitialized, TakeBroadcast, Broadcast, AddToStore, EnterMap, ReadHandshake,
     StartAsks, StartNotifies, vars
<1>2. ToldByOneOf(b)
  BY <1>1 DEF ToldByOne, ToldByOneOf
<1>3. ASSUME UNCHANGED <<sawFlag, starting, broadcast, inbox>>,
             notifying = "sending" => notifying' = "sending"
      PROVE  ToldByOneOf(b)'
  <2>1. Times(b, "initialized")' = Times(b, "initialized")
    BY <1>3, NoReception
  <2>. QED
    BY <1>2, <1>3, <2>1 DEF ToldByOneOf
<1>4. CASE SaveParams \/ TakeEntries \/ AnswerDesktop \/ SetInitialized \/ UNCHANGED vars
  BY <1>3, <1>4 DEF SaveParams, TakeEntries, AnswerDesktop, SetInitialized, vars
<1>5. CASE TakeBroadcast
  <2>1. /\ notifying = "flagged" /\ broadcast' = Entries /\ starting[b] # "entered"
        /\ UNCHANGED <<sawFlag, starting, inbox>>
    BY <1>5 DEF TakeBroadcast
  <2>2. ~sawFlag[b]
    BY <1>2, <2>1 DEF ToldByOneOf
  <2>3. starting[b] \in {"no", "stored"} => b \notin broadcast'
    BY <2>1 DEF Entries, Phases
  <2>4. Times(b, "initialized")' = Times(b, "initialized")
    BY <2>1, NoReception
  <2>. QED
    BY <1>2, <2>1, <2>2, <2>3, <2>4 DEF ToldByOneOf
<1>6. ASSUME NEW a \in Accounts, AskChild(a)
      PROVE  ToldByOneOf(b)'
  <2>1. /\ Receives(a, "initialize")
        /\ UNCHANGED <<sawFlag, starting, broadcast, notifying>>
    BY <1>6 DEF AskChild
  <2>2. Times(b, "initialized")' = Times(b, "initialized")
    BY <2>1, Told DEF Messages
  <2>. QED
    BY <1>2, <2>1, <2>2 DEF ToldByOneOf
<1>7. ASSUME NEW a \in Accounts, Broadcast(a)
      PROVE  ToldByOneOf(b)'
  <2>1. /\ a \in broadcast /\ broadcast' = broadcast \ {a} /\ Receives(a, "initialized")
        /\ UNCHANGED <<sawFlag, starting, notifying>>
    BY <1>7 DEF Broadcast, Advance
  <2>2. CASE a = b
    BY <1>2, <2>1, <2>2 DEF ToldByOneOf
  <2>3. CASE a # b
    <3>1. Times(b, "initialized")' = Times(b, "initialized")
      BY <2>1, <2>3, Told DEF Messages
    <3>. QED
      BY <1>2, <2>1, <2>3, <3>1 DEF ToldByOneOf
  <2>. QED
    BY <2>2, <2>3
<1>8. ASSUME NEW a \in Accounts, AddToStore(a) \/ EnterMap(a)
      PROVE  ToldByOneOf(b)'
  <2>1. /\ UNCHANGED <<sawFlag, broadcast, notifying, inbox>>
        /\ starting[a] \in {"no", "stored"} /\ starting'[a] \in {"stored", "entered"}
        /\ starting' = [starting EXCEPT ![a] = starting'[a]]
    BY <1>8 DEF AddToStore, EnterMap
  <2>2. Times(b, "initialized")' = Times(b, "initialized")
    BY <2>1, NoReception
  <2>. QED
    BY <1>2, <2>1, <2>2 DEF ToldByOneOf
<1>9. ASSUME NEW a \in Accounts, ReadHandshake(a)
      PROVE  ToldByOneOf(b)'
  <2>1. /\ starting[a] = "entered"
        /\ starting' = [starting EXCEPT ![a] = IF paramsSaved THEN "asking" ELSE "done"]
        /\ sawFlag' = [sawFlag EXCEPT ![a] = initialized]
        /\ overlapped' = IF notifying = "flagged" THEN overlapped \union {a} ELSE overlapped
        /\ UNCHANGED <<broadcast, notifying, inbox>>
    BY <1>9 DEF ReadHandshake
  <2>2. Times(b, "initialized")' = Times(b, "initialized")
    BY <2>1, NoReception
  <2>3. CASE a = b
    <3>1. b \notin broadcast /\ Times(b, "initialized") = {}
      BY <1>2, <2>1, <2>3 DEF ToldByOneOf
    <3>2. sawFlag'[b] => notifying = "sending"
      BY <2>1, <2>3 DEF Phases
    <3>. QED
      BY <2>1, <2>2, <2>3, <3>1, <3>2 DEF ToldByOneOf
  <2>4. CASE a # b
    BY <1>2, <2>1, <2>2, <2>4 DEF ToldByOneOf
  <2>. QED
    BY <2>3, <2>4
<1>10. ASSUME NEW a \in Accounts, StartAsks(a)
       PROVE  ToldByOneOf(b)'
  <2>1. /\ starting[a] = "asking" /\ starting'[a] \in {"notifying", "done", "failed"}
        /\ starting' = [starting EXCEPT ![a] = starting'[a]]
        /\ Receives(a, "initialize")
        /\ UNCHANGED <<sawFlag, broadcast, notifying>>
    BY <1>10 DEF StartAsks, AfterAsking
  <2>2. Times(b, "initialized")' = Times(b, "initialized")
    BY <2>1, Told DEF Messages
  <2>. QED
    BY <1>2, <2>1, <2>2 DEF ToldByOneOf
<1>11. ASSUME NEW a \in Accounts, StartNotifies(a)
       PROVE  ToldByOneOf(b)'
  <2>1. /\ starting[a] = "notifying" /\ starting' = [starting EXCEPT ![a] = "done"]
        /\ Receives(a, "initialized")
        /\ UNCHANGED <<sawFlag, broadcast, notifying>>
    BY <1>11 DEF StartNotifies
  <2>2. CASE a = b
    <3>1. sawFlag[b]
      BY <2>1, <2>2 DEF Phases
    <3>2. Times(b, "initialized") = {}
      BY <1>2, <2>1, <2>2, <3>1 DEF ToldByOneOf
    <3>3. Times(b, "initialized")' = {Len(inbox[b]) + 1}
      BY <2>1, <2>2, <3>2, Told DEF Messages
    <3>. QED
      BY <1>2, <2>1, <2>2, <3>1, <3>3 DEF ToldByOneOf
  <2>3. CASE a # b
    <3>1. Times(b, "initialized")' = Times(b, "initialized")
      BY <2>1, <2>3, Told DEF Messages
    <3>. QED
      BY <1>2, <2>1, <2>3, <3>1 DEF ToldByOneOf
  <2>. QED
    BY <2>2, <2>3
<1>. QED
  BY <1>4, <1>5, <1>6, <1>7, <1>8, <1>9, <1>10, <1>11
     DEF Next, InitializeStep, NotifyStep, StartStep

\* A child is told twice only if startChild and the broadcast overlapped.
THEOREM NotifiedTwiceNeedsOverlap == Spec => []NotifiedTwiceOnlyInOverlap
<1>1. Init => ToldByOne
  <2>. SUFFICES ASSUME Init PROVE ToldByOne
    OBVIOUS
  <2>1. ASSUME NEW a \in Accounts PROVE Times(a, "initialized") = {}
    <3>1. inbox[a] = <<>> /\ 1..Len(inbox[a]) = {}
      BY DEF Init
    <3>. QED
      BY <3>1 DEF Times
  <2>. QED
    BY <2>1 DEF Init, ToldByOne
<1>2. IInv /\ ToldByOne => NotifiedTwiceOnlyInOverlap
  BY DEF IInv, SentByNotification, ToldByOne, NotifiedTwiceOnlyInOverlap
<1>. QED
  BY <1>1, <1>2, ToldByOneStep, Invariance, PTL DEF Spec

================================================================================
