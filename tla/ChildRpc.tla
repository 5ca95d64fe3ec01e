-------------------------------- MODULE ChildRpc -------------------------------
(***************************************************************************)
(* One app-server child as internal/backend/child.go drives it: callers    *)
(* that wait in Request, the readLoop that scans the process's output, the *)
(* waitLoop that notices its exit, and the pending table they share.       *)
(*                                                                         *)
(* Every caller makes one Request, whose id is its own (sequence.Add), so  *)
(* a caller also stands for the id.  The one-slot channel a caller waits   *)
(* on is its mailbox.                                                      *)
(***************************************************************************)
EXTENDS Naturals, Sequences

CONSTANTS
  Callers,     \* the calls of Request
  Deadlined    \* those whose context has a deadline

ASSUME DeadlinedAssumption == Deadlined \subseteq Callers

VARIABLES
  pc,         \* how far each call of Request has come
  result,     \* what it returned
  pending,    \* callers with an entry in the pending map
  mailbox,    \* the responses channel of each caller, capacity one
  stdin,      \* requests the process has not answered
  stdout,     \* responses written by the process and not yet scanned
  reading,    \* readLoop is still scanning
  delivering, \* the response readLoop has matched and not yet delivered
  inbound,    \* responses readLoop passed on as nobody's
  process,    \* the app-server process
  closed,     \* the closed channel is closed
  drained     \* waitLoop has failed every pending call

vars == <<pc, result, pending, mailbox, stdin, stdout, reading, delivering, inbound,
          process, closed, drained>>

callVars == <<pc, result>>
loopVars == <<reading, delivering, inbound, closed, drained>>

\* What a mailbox can hold: the answer to one's own request, or an error.
Reply(c) == [kind |-> "response", caller |-> c]
ExitError(c) == [kind |-> "exit", caller |-> c]
Mail == [kind : {"response", "exit"}, caller : Callers]

Init ==
  /\ pc = [c \in Callers |-> "start"]
  /\ result = [c \in Callers |-> "none"]
  /\ pending = {}
  /\ mailbox = [c \in Callers |-> <<>>]
  /\ stdin = {}
  /\ stdout = <<>>
  /\ reading = TRUE
  /\ delivering = {}
  /\ inbound = {}
  /\ process = "running"
  /\ closed = FALSE
  /\ drained = FALSE

--------------------------------------------------------------------------------
(* Request. *)

\* Slip: the call sends without ever having registered.
AddPending_Slip(c) == pending

AddPending(c) == pending \union {c}

\* The call registers its channel before it sends anything.
Register(c) ==
  /\ pc[c] = "start"
  /\ pending' = AddPending(c)
  /\ pc' = [pc EXCEPT ![c] = "sending"]
  /\ UNCHANGED <<result, mailbox, stdin, stdout, loopVars, process>>

\* Leave the select, or a failed Send, with a result, after removePending.
GiveUp(c, why) ==
  /\ pc' = [pc EXCEPT ![c] = "removing"]
  /\ result' = [result EXCEPT ![c] = why]

\* SendRaw refuses when closed is closed and fails when the process is gone.
Send(c) ==
  /\ pc[c] = "sending"
  /\ IF process = "running"
       THEN /\ stdin' = stdin \union {c}
            /\ pc' = [pc EXCEPT ![c] = "waiting"]
            /\ UNCHANGED result
       ELSE GiveUp(c, "unsent") /\ UNCHANGED stdin
  /\ UNCHANGED <<pending, mailbox, stdout, loopVars, process>>

\* The select of Request: any case that is ready may be taken.
Receive(c) ==
  /\ pc[c] = "waiting" /\ mailbox[c] # <<>>
  /\ mailbox' = [mailbox EXCEPT ![c] = <<>>]
  /\ result' = [result EXCEPT ![c] = Head(mailbox[c]).kind]
  /\ pc' = [pc EXCEPT ![c] = "done"]
  /\ UNCHANGED <<pending, stdin, stdout, loopVars, process>>

TimeOut(c) ==
  /\ pc[c] = "waiting" /\ c \in Deadlined
  /\ GiveUp(c, "timeout")
  /\ UNCHANGED <<pending, mailbox, stdin, stdout, loopVars, process>>

NoticeClosed(c) ==
  /\ pc[c] = "waiting" /\ closed
  /\ GiveUp(c, "closed")
  /\ UNCHANGED <<pending, mailbox, stdin, stdout, loopVars, process>>

\* Slip: the entry of a call that gave up stays in the table.
WithoutPending_Slip(c) == pending

WithoutPending(c) == pending \ {c}

RemovePending(c) ==
  /\ pc[c] = "removing"
  /\ pending' = WithoutPending(c)
  /\ pc' = [pc EXCEPT ![c] = "done"]
  /\ UNCHANGED <<result, mailbox, stdin, stdout, loopVars, process>>

--------------------------------------------------------------------------------
(* The process (external), readLoop and waitLoop. *)

\* The process answers its requests in any order.
Answer(c) ==
  /\ process = "running" /\ c \in stdin
  /\ stdin' = stdin \ {c}
  /\ stdout' = Append(stdout, c)
  /\ UNCHANGED <<callVars, pending, mailbox, loopVars, process>>

Exit ==
  /\ process = "running"
  /\ process' = "exited"
  /\ stdin' = {}
  /\ UNCHANGED <<callVars, pending, mailbox, stdout, loopVars>>

\* Slip: the entry stays in the table when its response is delivered.
Match_KeepsEntry(c) == delivering' = {c} /\ UNCHANGED <<pending, inbound>>

\* Slip: a matched response is taken out of the table and not delivered.
Match_Forgets(c) == pending' = pending \ {c} /\ UNCHANGED <<delivering, inbound>>

\* Under pendingMu: take the entry out of the table; deliver after the unlock.
Match(c) == pending' = pending \ {c} /\ delivering' = {c} /\ UNCHANGED inbound

\* readLoop scans a response; what no caller waits for goes to the inbound channel.
Scan ==
  /\ reading /\ delivering = {} /\ stdout # <<>>
  /\ LET c == Head(stdout)
     IN \/ c \in pending /\ Match(c)
        \/ c \notin pending /\ inbound' = inbound \union {c} /\ UNCHANGED <<pending, delivering>>
  /\ stdout' = Tail(stdout)
  /\ UNCHANGED <<callVars, mailbox, stdin, reading, process, closed, drained>>

\* The channel that was looked up under the lock.
Recipients(c) == {c}

\* The send on the channel, outside the lock; it would block on a full mailbox.
Deliver ==
  \E c \in delivering : \E d \in Recipients(c) :
    /\ mailbox[d] = <<>>
    /\ mailbox' = [mailbox EXCEPT ![d] = <<Reply(c)>>]
    /\ delivering' = {}
    /\ UNCHANGED <<callVars, pending, stdin, stdout, reading, inbound, process, closed,
                   drained>>

\* The scanner stops: a line beyond its buffer, or the end of the output. The
\* process may well go on running.
StopReading ==
  /\ reading /\ delivering = {}
  /\ reading' = FALSE
  /\ UNCHANGED <<callVars, pending, mailbox, stdin, stdout, delivering, inbound, process,
                 closed, drained>>

\* command.Wait returns and closes the pipe: unscanned output is lost. Then
\* closed is closed.
CloseChild ==
  /\ process = "exited" /\ ~closed
  /\ closed' = TRUE
  /\ \E n \in 0..Len(stdout) : stdout' = SubSeq(stdout, 1, n)
  /\ UNCHANGED <<callVars, pending, mailbox, stdin, reading, delivering, inbound,
                 process, drained>>

\* The rest of waitLoop, under pendingMu: every pending call gets an error. A
\* full mailbox would block it with the lock held.
Drain ==
  /\ closed /\ ~drained
  /\ \A c \in pending : mailbox[c] = <<>>
  /\ mailbox' = [c \in Callers |-> IF c \in pending THEN <<ExitError(c)>> ELSE mailbox[c]]
  /\ pending' = {}
  /\ drained' = TRUE
  /\ UNCHANGED <<callVars, stdin, stdout, reading, delivering, inbound, process, closed>>

--------------------------------------------------------------------------------
CallStep(c) ==
  \/ Register(c) \/ Send(c) \/ Receive(c) \/ TimeOut(c) \/ NoticeClosed(c)
  \/ RemovePending(c)

LoopStep == Scan \/ Deliver \/ CloseChild \/ Drain

Next ==
  \/ \E c \in Callers : CallStep(c) \/ Answer(c)
  \/ Exit \/ StopReading \/ LoopStep

Spec == Init /\ [][Next]_vars

\* Every goroutine runs, a deadline passes, and the process answers or exits.
FairSpec ==
  /\ Spec
  /\ \A c \in Callers : WF_vars(CallStep(c)) /\ WF_vars(Answer(c))
  /\ WF_vars(Scan) /\ WF_vars(Deliver) /\ WF_vars(CloseChild) /\ WF_vars(Drain)

--------------------------------------------------------------------------------
\* Every variable keeps its shape; a mailbox never holds more than its one slot,
\* and what it holds is the answer to its own caller's request or an error.
TypeOK ==
  /\ pc \in [Callers -> {"start", "sending", "waiting", "removing", "done"}]
  /\ result \in [Callers -> {"none", "unsent", "response", "exit", "timeout", "closed"}]
  /\ pending \subseteq Callers
  /\ mailbox \in [Callers -> {<<>>} \union {<<m>> : m \in Mail}]
  /\ \A c \in Callers : mailbox[c] # <<>> => mailbox[c][1].caller = c
  /\ stdin \subseteq Callers
  /\ stdout \in Seq(Callers)
  /\ reading \in BOOLEAN
  /\ delivering \subseteq Callers
  /\ inbound \subseteq Callers
  /\ process \in {"running", "exited"}
  /\ closed \in BOOLEAN /\ drained \in BOOLEAN

\* No sender ever meets a full mailbox: neither readLoop nor waitLoop, which
\* sends with pendingMu held and would stop every other call if it blocked.
SendersNeverBlock == \A c \in pending \union delivering : mailbox[c] = <<>>

\* An internal response reaches the inbound channel, where it would be taken for
\* an answer to the desktop, only when the call it answers has given up or has
\* been failed by waitLoop.
StrayResponseIsLate ==
  \A c \in inbound :
    \/ pc[c] \in {"removing", "done"} /\ result[c] \in {"timeout", "closed", "exit"}
    \/ drained /\ pc[c] = "waiting" /\ mailbox[c] = <<ExitError(c)>>

\* A finished call leaves nothing in the pending table, so the table cannot grow.
FinishedCallIsNotPending == \A c \in pending : pc[c] # "done"

\* What holds between any two steps of a child: the types, nothing stray among the
\* answers to the desktop (StrayResponseIsLate), and nothing left in the table
\* (FinishedCallIsNotPending).
Inv == TypeOK /\ StrayResponseIsLate /\ FinishedCallIsNotPending

\* A call registered after waitLoop has drained the table cannot hang: it never
\* gets to wait without an answer, an error or the closed channel.
WaitingCallHasWaker ==
  \A c \in Callers :
    pc[c] = "waiting" =>
      c \in pending \union delivering \/ mailbox[c] # <<>> \/ closed

\* Every call returns: always if it has a deadline, and otherwise unless readLoop
\* has stopped scanning a process that goes on running.
CallReturns ==
  \A c \in Callers :
    pc[c] = "sending" ~>
      \/ pc[c] = "done"
      \/ c \notin Deadlined /\ ~reading /\ process = "running"

================================================================================
