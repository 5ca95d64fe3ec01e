----------------------------- MODULE ChildRpc_proofs ---------------------------
(***************************************************************************)
(* Proofs about the calls of one app-server child, for any number of       *)
(* calls.                                                                  *)
(*                                                                         *)
(* The argument.  The process owes a call at most one response, which is   *)
(* in one place only until it is received (OneResponse).  A call that has  *)
(* registered is in the table, is being delivered to, or has mail, and in  *)
(* one of the three cases only (Registered): so whoever sends to a mailbox *)
(* finds it empty, and what readLoop finds nobody to deliver to belongs to *)
(* a call that has given up or that waitLoop has failed.                   *)
(***************************************************************************)
EXTENDS ChildRpc, SequenceTheorems, TLAPS

\* The calls whose response is in the pipe.
Written == {stdout[n] : n \in 1..Len(stdout)}

\* The calls that the process owes a response or whose response is on its way.
Owed == stdin \union Written \union delivering \union inbound

\* A response is in one place, and in it once; there is none before its request was
\* sent and none after it was received.
OneResponse ==
  /\ \A m, n \in 1..Len(stdout) : stdout[m] = stdout[n] => m = n
  /\ \A c \in Written : c \notin stdin
  /\ \A c \in delivering : c \notin stdin \union Written /\ c \notin inbound
  /\ \A c \in inbound : c \notin stdin \union Written
  /\ \A c, d \in delivering : c = d
  /\ \A c \in Callers :
       \/ pc[c] \in {"start", "sending"}
       \/ result[c] \in {"unsent", "response"}
       \/ mailbox[c] = <<Reply(c)>>
       => c \notin Owed

\* What a call has before it registers and while it waits.
Registered ==
  /\ \A c \in Callers : pc[c] \in {"start", "sending", "waiting"} <=> result[c] = "none"
  /\ \A c \in Callers : pc[c] = "start" => c \notin pending /\ mailbox[c] = <<>>
  /\ \A c \in Callers : pc[c] = "sending" => mailbox[c] # <<Reply(c)>>
  /\ \A c \in Callers :
       pc[c] \in {"sending", "waiting"} => c \in pending \union delivering \/ mailbox[c] # <<>>
  /\ \A c \in pending : c \notin delivering
  /\ \A c \in Callers :
       \/ mailbox[c] = <<>>
       \/ mailbox[c] = <<Reply(c)>>
       \/ mailbox[c] = <<ExitError(c)>> /\ drained

IInv == Inv /\ SendersNeverBlock /\ OneResponse /\ Registered

--------------------------------------------------------------------------------
\* An empty mailbox is told from one that holds something by its length.
LEMMA MailIsMail ==
  ASSUME NEW m
  PROVE  <<m>> # <<>> /\ Head(<<m>>) = m
OBVIOUS

LEMMA ReplyIsMail ==
  ASSUME NEW c \in Callers
  PROVE  /\ Reply(c) \in Mail /\ ExitError(c) \in Mail
         /\ Reply(c) # ExitError(c)
         /\ Reply(c).caller = c /\ ExitError(c).caller = c
         /\ Reply(c).kind = "response" /\ ExitError(c).kind = "exit"
BY DEF Reply, ExitError, Mail

LEMMA InitIInv == Init => IInv
<1>. SUFFICES ASSUME Init PROVE IInv
  OBVIOUS
<1>. stdout \in Seq(Callers) /\ Len(stdout) = 0
  BY EmptySeq DEF Init
<1>1. Inv
  BY DEF Init, Inv, TypeOK, StrayResponseIsLate, FinishedCallIsNotPending
<1>2. Owed = {} /\ Written = {}
  BY DEF Init, Owed, Written
<1>3. \A c \in Callers : mailbox[c] = <<>>
  BY DEF Init
<1>4. OneResponse
  BY <1>2 DEF Init, OneResponse
<1>5. Registered /\ SendersNeverBlock
  BY <1>3 DEF Init, Registered, SendersNeverBlock
<1>. QED
  BY <1>1, <1>4, <1>5 DEF IInv

\* A step of one call that leaves the pipes, readLoop and waitLoop alone.
LEMMA StepOfCall ==
  ASSUME IInv, NEW c \in Callers, CallStep(c)
  PROVE  IInv'
<1>. USE DEF IInv, Inv, TypeOK, SendersNeverBlock
<1>1. CASE Register(c)
  <2>1. OneResponse'
    BY <1>1 DEF Register, AddPending, loopVars, OneResponse, Owed, Written
  <2>2. Registered' /\ SendersNeverBlock'
    BY <1>1 DEF Register, AddPending, loopVars, Registered, OneResponse, Owed
  <2>3. StrayResponseIsLate'
    BY <1>1 DEF Register, loopVars, StrayResponseIsLate
  <2>. QED
    BY <1>1, <2>1, <2>2, <2>3 DEF Register, AddPending, loopVars, FinishedCallIsNotPending
<1>2. CASE Send(c)
  <2>1. OneResponse'
    <3>1. /\ pc[c] = "sending" /\ result[c] = "none" /\ c \notin Owed
          /\ UNCHANGED <<pending, mailbox, stdout, reading, delivering, inbound, closed, drained>>
      BY <1>2 DEF Send, loopVars, OneResponse, Registered
    <3>2. mailbox[c] # <<Reply(c)>>
      BY <3>1 DEF Registered
    <3>. QED
      BY <1>2, <3>1, <3>2 DEF Send, GiveUp, OneResponse, Owed, Written
  <2>2. Registered' /\ SendersNeverBlock'
    BY <1>2 DEF Send, GiveUp, loopVars, Registered
  <2>3. StrayResponseIsLate'
    BY <1>2 DEF Send, GiveUp, loopVars, StrayResponseIsLate, OneResponse, Owed
  <2>. QED
    BY <1>2, <2>1, <2>2, <2>3 DEF Send, GiveUp, loopVars, FinishedCallIsNotPending
<1>3. CASE Receive(c)
  <2>1. /\ mailbox[c] # <<>> /\ pc[c] = "waiting"
        /\ UNCHANGED <<pending, stdin, stdout, loopVars, process>>
        /\ mailbox' = [mailbox EXCEPT ![c] = <<>>] /\ pc' = [pc EXCEPT ![c] = "done"]
    BY <1>3 DEF Receive
  <2>2. c \notin pending \union delivering
    BY <2>1
  <2>3. \/ result' = [result EXCEPT ![c] = "response"] /\ c \notin Owed
        \/ result' = [result EXCEPT ![c] = "exit"]
    <3>1. CASE mailbox[c] = <<Reply(c)>>
      <4>1. Head(mailbox[c]).kind = "response"
        BY <3>1, MailIsMail, ReplyIsMail
      <4>2. c \notin Owed
        BY <3>1 DEF OneResponse
      <4>. QED
        BY <1>3, <4>1, <4>2 DEF Receive
    <3>2. CASE mailbox[c] = <<ExitError(c)>>
      <4>1. Head(mailbox[c]).kind = "exit"
        BY <3>2, MailIsMail, ReplyIsMail
      <4>. QED
        BY <1>3, <4>1 DEF Receive
    <3>. QED
      BY <2>1, <3>1, <3>2 DEF Registered
  <2>4. Owed' = Owed /\ Written' = Written /\ UNCHANGED loopVars
    BY <2>1 DEF Owed, Written, loopVars
  <2>5. OneResponse'
    BY <2>1, <2>3, <2>4, MailIsMail DEF OneResponse, loopVars, Owed
  <2>6. Registered' /\ SendersNeverBlock'
    BY <2>1, <2>2, <2>3 DEF Registered, loopVars
  <2>7. StrayResponseIsLate'
    BY <2>1, <2>3 DEF StrayResponseIsLate, loopVars, Owed
  <2>8. FinishedCallIsNotPending'
    BY <2>1, <2>2 DEF FinishedCallIsNotPending
  <2>9. TypeOK'
    BY <2>1, <2>3 DEF loopVars
  <2>. QED
    BY <2>5, <2>6, <2>7, <2>8, <2>9
<1>4. CASE TimeOut(c) \/ NoticeClosed(c)
  <2>1. PICK why \in {"timeout", "closed"} : GiveUp(c, why)
    BY <1>4 DEF TimeOut, NoticeClosed
  <2>2. pc[c] = "waiting" /\ UNCHANGED <<pending, mailbox, stdin, stdout, loopVars, process>>
    BY <1>4 DEF TimeOut, NoticeClosed
  <2>3. OneResponse'
    BY <2>1, <2>2 DEF GiveUp, loopVars, OneResponse, Owed, Written
  <2>4. Registered' /\ SendersNeverBlock'
    BY <2>1, <2>2 DEF GiveUp, loopVars, Registered
  <2>5. StrayResponseIsLate'
    BY <2>1, <2>2 DEF GiveUp, loopVars, StrayResponseIsLate
  <2>. QED
    BY <2>1, <2>2, <2>3, <2>4, <2>5 DEF GiveUp, loopVars, FinishedCallIsNotPending
<1>5. CASE RemovePending(c)
  <2>1. OneResponse'
    BY <1>5 DEF RemovePending, WithoutPending, loopVars, OneResponse, Owed, Written
  <2>2. Registered' /\ SendersNeverBlock'
    BY <1>5 DEF RemovePending, WithoutPending, loopVars, Registered
  <2>3. StrayResponseIsLate'
    BY <1>5 DEF RemovePending, loopVars, StrayResponseIsLate
  <2>. QED
    BY <1>5, <2>1, <2>2, <2>3 DEF RemovePending, WithoutPending, loopVars, FinishedCallIsNotPending
<1>. QED
  BY <1>1, <1>2, <1>3, <1>4, <1>5 DEF CallStep

LEMMA StepAnswer ==
  ASSUME IInv, NEW c \in Callers, Answer(c)
  PROVE  IInv'
<1>. USE DEF IInv, Inv, TypeOK, SendersNeverBlock
<1>1. /\ c \in stdin /\ stdin' = stdin \ {c} /\ stdout' = Append(stdout, c)
      /\ UNCHANGED <<pc, result, pending, mailbox, reading, delivering, inbound, closed,
                     drained, process>>
  BY DEF Answer, callVars, loopVars
<1>2. /\ stdout' \in Seq(Callers) /\ Len(stdout') = Len(stdout) + 1 /\ Len(stdout) \in Nat
      /\ \A n \in 1..Len(stdout) : stdout'[n] = stdout[n]
      /\ stdout'[Len(stdout) + 1] = c
  BY <1>1, AppendProperties, LenProperties
<1>3. Written' = Written \union {c}
  <2>1. \A n \in 1..Len(stdout') : n \in 1..Len(stdout) \/ n = Len(stdout) + 1
    BY <1>2
  <2>2. 1..Len(stdout) \subseteq 1..Len(stdout') /\ Len(stdout) + 1 \in 1..Len(stdout')
    BY <1>2
  <2>. QED
    BY SMTT(30), <1>2, <2>1, <2>2 DEF Written
<1>4. Owed' = Owed
  BY <1>1, <1>3 DEF Owed
<1>5. OneResponse'
  <2>1. \A m, n \in 1..Len(stdout') : stdout'[m] = stdout'[n] => m = n
    <3>1. \A n \in 1..Len(stdout) : stdout'[n] # c
      BY <1>1, <1>2 DEF OneResponse, Written
    <3>2. \A m, n \in 1..Len(stdout) : stdout'[m] = stdout'[n] => m = n
      BY <1>2 DEF OneResponse
    <3>3. \A n \in 1..Len(stdout') : n \in 1..Len(stdout) \/ n = Len(stdout) + 1
      BY <1>2
    <3>. QED
      BY <1>2, <3>1, <3>2, <3>3
  <2>. QED
    BY <1>1, <1>3, <1>4, <2>1 DEF OneResponse
<1>6. Registered' /\ SendersNeverBlock' /\ StrayResponseIsLate' /\ FinishedCallIsNotPending'
  BY <1>1 DEF Registered, StrayResponseIsLate, FinishedCallIsNotPending
<1>7. TypeOK'
  BY <1>1, <1>2
<1>. QED
  BY <1>5, <1>6, <1>7

\* A step that makes the output shorter, or the process exit, leaves fewer responses.
LEMMA FewerOwed ==
  ASSUME IInv, UNCHANGED <<pc, result, pending, mailbox, delivering, inbound, drained>>,
         stdin' \subseteq stdin, stdout' \in Seq(Callers), Written' \subseteq Written,
         \A m, n \in 1..Len(stdout') : stdout'[m] = stdout'[n] => m = n
  PROVE  /\ OneResponse' /\ Registered' /\ SendersNeverBlock'
         /\ StrayResponseIsLate' /\ FinishedCallIsNotPending'
<1>1. Owed' \subseteq Owed
  BY DEF Owed
<1>2. OneResponse'
  BY <1>1 DEF IInv, OneResponse
<1>. QED
  BY <1>2 DEF IInv, Inv, Registered, SendersNeverBlock, StrayResponseIsLate,
              FinishedCallIsNotPending

LEMMA StepOfProcess ==
  ASSUME IInv, Exit \/ StopReading \/ CloseChild \/ UNCHANGED vars
  PROVE  IInv'
<1>. USE DEF IInv, Inv, TypeOK
<1>1. CASE Exit
  <2>1. stdin' \subseteq stdin /\ UNCHANGED <<stdout, callVars, pending, mailbox, loopVars>>
    BY <1>1 DEF Exit
  <2>2. Written' = Written
    BY <2>1 DEF Written
  <2>. QED
    BY <1>1, <2>1, <2>2, FewerOwed DEF Exit, callVars, loopVars, OneResponse
<1>2. CASE StopReading \/ UNCHANGED vars
  <2>1. /\ UNCHANGED <<pc, result, pending, mailbox, stdin, stdout, delivering, inbound, process,
                       closed, drained>>
        /\ reading' \in BOOLEAN
    BY <1>2 DEF StopReading, callVars, vars
  <2>2. Written' = Written
    BY <2>1 DEF Written
  <2>. QED
    BY <2>1, <2>2, FewerOwed DEF OneResponse
<1>3. CASE CloseChild
  <2>1. PICK n \in 0..Len(stdout) : stdout' = SubSeq(stdout, 1, n)
    BY <1>3 DEF CloseChild
  <2>2. Len(stdout) \in Nat /\ \A m \in 1..Len(stdout) : stdout[m] \in Callers
    BY LenProperties, ElementOfSeq
  <2>3. /\ stdout' \in Seq(Callers) /\ Len(stdout') = n
        /\ \A m \in 1..n : stdout'[m] = stdout[m]
    <3>1. \A m \in 1..n : stdout[m] \in Callers
      BY <2>2
    <3>. QED
      BY <2>1, <2>2, <3>1, SubSeqProperties
  <2>4. 1..n \subseteq 1..Len(stdout)
    BY <2>2
  <2>5. Written' \subseteq Written
    BY <2>3, <2>4 DEF Written
  <2>6. \A m, k \in 1..Len(stdout') : stdout'[m] = stdout'[k] => m = k
    BY <2>3, <2>4 DEF OneResponse
  <2>7. /\ UNCHANGED <<pc, result, pending, mailbox, stdin, reading, delivering, inbound,
                       process, drained>>
        /\ closed' \in BOOLEAN
    BY <1>3 DEF CloseChild, callVars
  <2>. QED
    BY <2>3, <2>5, <2>6, <2>7, FewerOwed
<1>. QED
  BY <1>1, <1>2, <1>3

LEMMA StepScan == ASSUME IInv, Scan PROVE IInv'
<1>. USE DEF IInv, Inv, TypeOK, SendersNeverBlock
<1>. DEFINE c == Head(stdout)
<1>1. /\ delivering = {} /\ stdout # <<>> /\ stdout' = Tail(stdout)
      /\ UNCHANGED <<pc, result, mailbox, stdin, reading, process, closed, drained>>
  BY DEF Scan, callVars
<1>2. \/ c \in pending /\ pending' = pending \ {c} /\ delivering' = {c} /\ UNCHANGED inbound
      \/ c \notin pending /\ inbound' = inbound \union {c} /\ UNCHANGED <<pending, delivering>>
  BY DEF Scan, Match
<1>3. /\ c \in Callers /\ stdout' \in Seq(Callers)
      /\ Len(stdout) \in Nat \ {0} /\ Len(stdout') = Len(stdout) - 1
      /\ \A n \in 1..Len(stdout') : stdout'[n] = stdout[n + 1]
      /\ c = stdout[1]
  BY <1>1, HeadTailProperties, EmptySeq
<1>4. \A n \in 1..Len(stdout') : n + 1 \in 1..Len(stdout) /\ n + 1 # 1
  BY <1>3
<1>5. c \in Written /\ Written' \subseteq Written \ {c}
  <2>1. 1 \in 1..Len(stdout)
    BY <1>3
  <2>2. \A n \in 1..Len(stdout') : stdout'[n] \in Written /\ stdout'[n] # c
    BY SMTT(30), <1>3, <1>4, <2>1 DEF Written, OneResponse
  <2>. QED
    BY <1>3, <2>1, <2>2 DEF Written
<1>6. c \notin stdin /\ c \notin delivering /\ c \notin inbound /\ c \in Owed
  BY <1>5 DEF OneResponse, Owed
<1>7. Owed' \subseteq Owed
  BY <1>1, <1>2, <1>5 DEF Owed
<1>8. OneResponse'
  <2>1. \A m, n \in 1..Len(stdout') : stdout'[m] = stdout'[n] => m = n
    <3>. SUFFICES ASSUME NEW m \in 1..Len(stdout'), NEW n \in 1..Len(stdout'),
                         stdout'[m] = stdout'[n]
                  PROVE  m = n
      OBVIOUS
    <3>1. m + 1 = n + 1
      BY <1>3, <1>4 DEF OneResponse
    <3>. QED
      BY <1>3, <3>1
  <2>. QED
    BY <1>1, <1>2, <1>5, <1>6, <1>7, <2>1 DEF OneResponse
<1>9. Registered' /\ SendersNeverBlock'
  BY <1>1, <1>2 DEF Registered
<1>10. StrayResponseIsLate'
  <2>1. ASSUME c \notin pending
        PROVE  \/ pc[c] \in {"removing", "done"} /\ result[c] \in {"timeout", "closed", "exit"}
               \/ drained /\ pc[c] = "waiting" /\ mailbox[c] = <<ExitError(c)>>
    BY <1>3, <1>6, <2>1 DEF OneResponse, Registered
  <2>. QED
    BY <1>1, <1>2, <2>1 DEF StrayResponseIsLate
<1>11. TypeOK' /\ FinishedCallIsNotPending'
  BY <1>1, <1>2, <1>3 DEF FinishedCallIsNotPending
<1>. QED
  BY <1>8, <1>9, <1>10, <1>11

LEMMA StepDeliver == ASSUME IInv, Deliver PROVE IInv'
<1>. USE DEF IInv, Inv, TypeOK, SendersNeverBlock
<1>1. PICK c \in delivering :
        /\ mailbox' = [mailbox EXCEPT ![c] = <<Reply(c)>>] /\ delivering' = {}
        /\ UNCHANGED <<pc, result, pending, stdin, stdout, reading, inbound, process, closed,
                       drained>>
  BY DEF Deliver, Recipients, callVars
<1>2. c \in Callers /\ Reply(c) \in Mail /\ Reply(c).caller = c /\ <<Reply(c)>> # <<>>
  BY ReplyIsMail, MailIsMail
<1>3. /\ mailbox'[c] = <<Reply(c)>>
      /\ \A d \in Callers \ {c} : mailbox'[d] = mailbox[d]
  BY <1>1, <1>2
<1>4. Written' = Written /\ Owed' = Owed \ {c}
  BY <1>1 DEF Written, Owed, OneResponse
<1>5. OneResponse'
  BY <1>1, <1>3, <1>4 DEF OneResponse
<1>6. pc[c] \notin {"start", "sending"} /\ c \notin pending /\ c \notin inbound
  BY <1>1, <1>2 DEF Registered, OneResponse, Owed
<1>7. Registered' /\ SendersNeverBlock'
  BY <1>1, <1>2, <1>3, <1>6 DEF Registered, OneResponse
<1>8. StrayResponseIsLate' /\ FinishedCallIsNotPending'
  BY <1>1, <1>3, <1>6 DEF StrayResponseIsLate, FinishedCallIsNotPending
<1>9. TypeOK'
  <2>1. mailbox' \in [Callers -> {<<>>} \union {<<m>> : m \in Mail}]
    BY <1>1, <1>2
  <2>2. \A d \in Callers : mailbox'[d] # <<>> => mailbox'[d][1].caller = d
    BY <1>2, <1>3
  <2>. QED
    BY <1>1, <2>1, <2>2
<1>. QED
  BY <1>5, <1>7, <1>8, <1>9

LEMMA StepDrain == ASSUME IInv, Drain PROVE IInv'
<1>. USE DEF IInv, Inv, TypeOK, SendersNeverBlock
<1>1. /\ closed /\ ~drained /\ drained' = TRUE /\ pending' = {}
      /\ mailbox' = [c \in Callers |-> IF c \in pending THEN <<ExitError(c)>> ELSE mailbox[c]]
      /\ UNCHANGED <<pc, result, stdin, stdout, reading, delivering, inbound, process, closed>>
  BY DEF Drain, callVars
<1>2. \A c \in Callers : /\ c \in pending => mailbox'[c] = <<ExitError(c)>>
                         /\ c \notin pending => mailbox'[c] = mailbox[c]
  BY <1>1
<1>3. \A c \in Callers : <<ExitError(c)>> # <<>> /\ <<ExitError(c)>> # <<Reply(c)>>
  BY ReplyIsMail, MailIsMail
<1>4. Written' = Written /\ Owed' = Owed
  BY <1>1 DEF Written, Owed
<1>5. OneResponse'
  BY <1>1, <1>2, <1>3, <1>4 DEF OneResponse
<1>6. Registered' /\ SendersNeverBlock'
  BY <1>1, <1>2, <1>3 DEF Registered
<1>7. StrayResponseIsLate' /\ FinishedCallIsNotPending'
  BY <1>1 DEF StrayResponseIsLate, FinishedCallIsNotPending
<1>8. TypeOK'
  <2>1. mailbox' \in [Callers -> {<<>>} \union {<<m>> : m \in Mail}]
    BY <1>1, ReplyIsMail
  <2>2. \A c \in Callers : mailbox'[c] # <<>> => mailbox'[c][1].caller = c
    BY <1>2, ReplyIsMail
  <2>. QED
    BY <1>1, <2>1, <2>2
<1>. QED
  BY <1>5, <1>6, <1>7, <1>8

LEMMA Invariance == Spec => []IInv
<1>1. IInv /\ [Next]_vars => IInv'
  BY StepOfCall, StepAnswer, StepOfProcess, StepScan, StepDeliver, StepDrain DEF Next, LoopStep
<1>. QED
  BY <1>1, InitIInv, PTL DEF Spec

\* The table of a child holds no entry of a call that returned, and no response that
\* a call still waits for is passed on as if it were an answer to the desktop.
THEOREM CallsLeaveNothingBehind == Spec => []Inv
<1>1. IInv => Inv
  BY DEF IInv
<1>. QED
  BY <1>1, Invariance, PTL

\* Neither readLoop nor waitLoop, which holds the lock of the table, blocks on a
\* mailbox, however many calls there are.
THEOREM LoopsNeverBlock == Spec => []SendersNeverBlock
<1>1. IInv => SendersNeverBlock
  BY DEF IInv
<1>. QED
  BY <1>1, Invariance, PTL

\* A call that waits has an entry, a response under way, mail, or the closed channel,
\* also when it registered after waitLoop had emptied the table.
THEOREM NoCallIsForgotten == Spec => []WaitingCallHasWaker
<1>1. IInv => WaitingCallHasWaker
  BY DEF IInv, Registered, WaitingCallHasWaker
<1>. QED
  BY <1>1, Invariance, PTL

================================================================================
