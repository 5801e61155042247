---------------------------- MODULE ShellProofs ----------------------------
(* Proofs about Shell, for any number of dials and of messages.            *)
EXTENDS Shell, TLAPS

(* Where the goroutines of the session are when the handler is at h: they  *)
(* start with the terminal; only the docker shell has an ExecStart, and    *)
(* only the pty is given aliases.                                          *)
StartInv ==
  /\ h \in {"dial", "term"} => input = "off" /\ output = "off" /\ exec = "off"
  /\ kind # "docker" => exec = "off"
  /\ h = "alias" => kind = "pty"

(* ClosedCh is used once: what Read puts in it is its last act, and        *)
(* readMessage closes it only after it has received that.                  *)
StopInv ==
  /\ stop.full \/ stop.closed => input \in {"close", "end"}
  /\ ~panicked

(* The output of the docker shell has ended when ExecStart returns without *)
(* an error, which readMessage, and so the close message, come after; that *)
(* of the SSH shell when Wait returns.                                     *)
ByeInv ==
  /\ exec = "done" => output = "end"
  /\ kind = "docker" /\ h \in {"read", "select", "bye"} => exec = "done"
  /\ kind = "ssh" /\ (exited \/ h = "bye") => output = "end"

IInv == TypeOK /\ StartInv /\ StopInv /\ ByeInv

(* The Boolean part of the state, which has proof steps of its own.        *)
Bools == /\ ctx \in BOOLEAN /\ rest \in BOOLEAN
         /\ exited \in BOOLEAN /\ inputDone \in BOOLEAN
         /\ detached \in BOOLEAN /\ silent \in BOOLEAN /\ panicked \in BOOLEAN
         /\ stop \in [full : BOOLEAN, closed : BOOLEAN]

(* Every initial state is well typed and has the invariant. *)
LEMMA InitInv == Init => IInv
<1> SUFFICES ASSUME Init PROVE IInv
  OBVIOUS
<1> USE ShellAssumption
<1>1. TypeOK
  <2>1. Bools
    BY DEF Init, Bools
  <2>2. tries \in 0..(Steps - 1) /\ sent \in [client : 0..MaxIn, shell : 0..MaxOut]
    BY DEF Init
  <2> QED BY <2>1, <2>2 DEF Init, TypeOK, Bools
<1>2. StartInv /\ StopInv /\ ByeInv
  BY DEF Init, StartInv, StopInv, ByeInv
<1> QED BY <1>1, <1>2 DEF IInv

(* The handler's steps keep the state well typed. *)
LEMMA HandlerType == TypeOK /\ Handler => TypeOK'
<1> SUFFICES ASSUME TypeOK, Handler PROVE TypeOK'
  OBVIOUS
<1> USE ShellAssumption DEF TypeOK, link, far, chans, hist
<1>1. CASE NewDialer
  BY <1>1 DEF NewDialer, NewSSHDialer, NewDockerShell, NewPtyShell
<1>2. CASE Terminal
  BY <1>2 DEF Terminal, OpenTerminal, ExecStart, OpenPty, Started
<1>3. CASE ExecReturns \/ Alias \/ ReadMessage \/ Bye
  BY <1>3 DEF ExecReturns, Alias, ReadMessage, Bye
<1>4. CASE SelectDone
  BY <1>4 DEF SelectDone, CloseSession
<1>5. CASE SelectExited
  <2>1. Bools'
    BY <1>5 DEF Bools, SelectExited
  <2> QED BY <1>5, <2>1 DEF Bools, SelectExited, CloseSession
<1>6. CASE SelectStop
  <2>1. stop' \in [full : BOOLEAN, closed : BOOLEAN]
    BY <1>6 DEF SelectStop
  <2> QED BY <1>6, <2>1 DEF SelectStop, CloseSession
<1>7. CASE Return
  BY <1>7 DEF Return, CloseSession
<1> QED BY <1>1, <1>2, <1>3, <1>4, <1>5, <1>6, <1>7 DEF Handler

(* So do those of the other goroutines, the client and the shell. *)
LEMMA OthersType == TypeOK /\ Next => TypeOK'
<1> SUFFICES ASSUME TypeOK, Next PROVE TypeOK'
  OBVIOUS
<1> USE ShellAssumption DEF TypeOK, link, far, chans, hist
<1>1. CASE Handler
  BY <1>1, HandlerType
<1>2. CASE ReadClosed
  <2>1. Bools'
    BY <1>2 DEF Bools, ReadClosed, SendStop, InputEnds
  <2> QED BY <1>2, <2>1 DEF Bools, ReadClosed, SendStop, InputEnds
<1>3. CASE Read
  BY <1>3 DEF Read, Detaches
<1>11. CASE ReadCut \/ ReadEmpty
  <2>1. Bools'
    BY <1>11 DEF Bools, ReadCut, ReadEmpty
  <2> QED BY <1>11, <2>1 DEF Bools, ReadCut, ReadEmpty, InputEnds
<1>4. CASE ReadRest \/ WriteInput \/ CloseInput
  <2>1. Bools'
    BY <1>4 DEF Bools, ReadRest, WriteInput, CloseInput, InputEnds
  <2> QED BY <1>4, <2>1 DEF Bools, ReadRest, WriteInput, CloseInput, InputEnds
<1>5. CASE Output
  BY <1>5 DEF Output, WriteOutput, OutputEnds, Gone
<1>6. CASE Exec \/ Waiter
  <2>1. Bools'
    BY <1>6 DEF Bools, Exec, ExecOutput, ExecInput, ExecDetached, Waiter
  <2> QED BY <1>6, <2>1 DEF Bools, Exec, ExecOutput, ExecInput, ExecDetached, Waiter
<1>7. CASE ClientSends
  BY <1>7 DEF ClientSends
<1>8. CASE ClientLeaves \/ RequestEnds
  <2>1. Bools'
    BY <1>8 DEF Bools, ClientLeaves, RequestEnds
  <2> QED BY <1>8, <2>1 DEF Bools, ClientLeaves, RequestEnds
<1>9. CASE ShellWrites
  BY <1>9 DEF ShellWrites
<1>10. CASE ShellReads \/ ShellExits \/ ShellHangsUp
  BY <1>10 DEF ShellReads, ShellExits, ShellHangsUp
<1> QED BY <1>1, <1>2, <1>3, <1>4, <1>5, <1>6, <1>7, <1>8, <1>9, <1>10, <1>11 DEF Next, Input

(* The steps that start, use or close ClosedCh. *)
LEMMA StopNext == IInv /\ Next => StartInv' /\ StopInv'
<1> SUFFICES ASSUME IInv, Next PROVE StartInv' /\ StopInv'
  OBVIOUS
<1> USE ShellAssumption DEF IInv, StartInv, StopInv, TypeOK, link, far, chans, hist
<1>1. CASE NewDialer
  BY <1>1 DEF NewDialer, NewSSHDialer, NewDockerShell, NewPtyShell
<1>2. CASE Terminal
  BY <1>2 DEF Terminal, OpenTerminal, ExecStart, OpenPty, Started
<1>3. CASE ExecReturns \/ Alias \/ ReadMessage \/ Bye \/ Return
  BY <1>3 DEF ExecReturns, Alias, ReadMessage, Bye, Return
<1>4. CASE SelectDone \/ SelectExited
  BY <1>4 DEF SelectDone, SelectExited
<1>5. CASE SelectStop
  BY <1>5 DEF SelectStop
<1>6. CASE ReadClosed
  <2>1. ~stop.closed /\ ~panicked /\ h \notin {"dial", "term"}
    BY <1>6 DEF ReadClosed
  <2>2. ~panicked' /\ input' \in {"close", "end"} /\ UNCHANGED <<h, kind, output, exec>>
    BY <1>6, <2>1 DEF ReadClosed, SendStop, InputEnds
  <2> QED BY <2>1, <2>2
<1>7. CASE Read \/ ReadRest
  BY <1>7 DEF Read, ReadRest, Detaches
<1>13. CASE ReadCut \/ ReadEmpty
  BY <1>13 DEF ReadCut, ReadEmpty, InputEnds
<1>8. CASE WriteInput \/ CloseInput
  BY <1>8 DEF WriteInput, CloseInput, InputEnds
<1>9. CASE Output
  BY <1>9 DEF Output, WriteOutput, OutputEnds
<1>10. CASE Exec \/ Waiter
  BY <1>10 DEF Exec, ExecOutput, ExecInput, ExecDetached, Waiter
<1>11. CASE ClientSends \/ ClientLeaves \/ RequestEnds
  BY <1>11 DEF ClientSends, ClientLeaves, RequestEnds
<1>12. CASE ShellWrites \/ ShellReads \/ ShellExits \/ ShellHangsUp
  BY <1>12 DEF ShellWrites, ShellReads, ShellExits, ShellHangsUp
<1> QED BY <1>1, <1>2, <1>3, <1>4, <1>5, <1>6, <1>7, <1>8, <1>9, <1>10, <1>11, <1>12, <1>13
        DEF Next, Handler, Input

(* The steps that end the output, or go on to the close message. *)
LEMMA ByeNext == IInv /\ Next => ByeInv'
<1> SUFFICES ASSUME IInv, Next PROVE ByeInv'
  OBVIOUS
<1> USE ShellAssumption DEF IInv, StartInv, ByeInv, TypeOK, link, far, chans, hist
<1>1. CASE NewDialer
  BY <1>1 DEF NewDialer, NewSSHDialer, NewDockerShell, NewPtyShell
<1>2. CASE Terminal
  <2>1. kind = "ssh" => ~exited
    BY <1>2 DEF Terminal
  <2>2. exec' # "done" /\ kind' = kind /\ exited' = exited /\ h' # "bye"
    BY <1>2 DEF Terminal, OpenTerminal, ExecStart, OpenPty, Started
  <2>3. kind = "docker" => h' \notin {"read", "select", "bye"}
    BY <1>2 DEF Terminal, OpenTerminal, ExecStart, OpenPty, Started
  <2> QED BY <2>1, <2>2, <2>3
<1>3. CASE ExecReturns \/ Alias \/ ReadMessage \/ Bye \/ Return
  <2>1. UNCHANGED <<kind, output, exec, exited>>
    BY <1>3 DEF ExecReturns, Alias, ReadMessage, Bye, Return
  <2>2. h' # "bye" /\ (kind = "docker" /\ h' \in {"read", "select"} => exec = "done")
    BY <1>3 DEF ExecReturns, Alias, ReadMessage, Bye, Return
  <2> QED BY <2>1, <2>2
<1>4. CASE SelectDone \/ SelectExited
  BY <1>4 DEF SelectDone, SelectExited
<1>5. CASE SelectStop
  BY <1>5 DEF SelectStop
<1>6. CASE Input
  BY <1>6 DEF Input, ReadClosed, ReadCut, Read, ReadEmpty, ReadRest, WriteInput, CloseInput
<1>7. CASE Output
  BY <1>7 DEF Output, WriteOutput, OutputEnds
<1>8. CASE Exec
  BY <1>8 DEF Exec, ExecOutput, ExecInput, ExecDetached
<1>9. CASE Waiter
  BY <1>9 DEF Waiter, Wait
<1>10. CASE ClientSends \/ ClientLeaves \/ RequestEnds
  BY <1>10 DEF ClientSends, ClientLeaves, RequestEnds
<1>11. CASE ShellWrites \/ ShellReads \/ ShellExits \/ ShellHangsUp
  BY <1>11 DEF ShellWrites, ShellReads, ShellExits, ShellHangsUp
<1> QED BY <1>1, <1>2, <1>3, <1>4, <1>5, <1>6, <1>7, <1>8, <1>9, <1>10, <1>11
        DEF Next, Handler

(* The invariant holds throughout. *)
LEMMA Invariance == Spec => []IInv
<1>1. IInv /\ [Next]_vars => IInv'
  <2>1. IInv /\ UNCHANGED vars => IInv'
    BY DEF IInv, TypeOK, StartInv, StopInv, ByeInv, vars, link, far, chans, hist
  <2> QED BY <2>1, OthersType, StopNext, ByeNext DEF IInv
<1> QED BY InitInv, <1>1, PTL DEF Spec

(* The state of a session keeps its types.                                 *)
THEOREM TypeCorrect == Spec => []TypeOK
  BY Invariance, PTL DEF IInv

(* For any number of messages and dials, nothing is ever sent on the       *)
(* channel of the TerminalReader after readMessage has closed it.          *)
THEOREM ReaderChannelSafe == Spec => []NoSendOnClosed
<1>1. IInv => NoSendOnClosed
  BY DEF IInv, StopInv, NoSendOnClosed
<1> QED BY <1>1, Invariance, PTL

(* For any number of messages, the close message of an SSH or docker shell *)
(* is written after the copy of the output has ended.                      *)
THEOREM CloseMessageLast == Spec => []ByeIsLast
<1>1. IInv => ByeIsLast
  BY ShellAssumption DEF IInv, TypeOK, ByeInv, ByeIsLast
<1> QED BY <1>1, Invariance, PTL
---------------------------------------------------------------------------
(* Who waits for whom: the part of HandlerReturns and GoroutinesEnd that   *)
(* needs no fairness. *)

(* The guards of the goroutines, and of the end of a shell that has lost   *)
(* its terminal or its input.                                              *)
HandlerCan ==
  \/ h \in {"dial", "term", "alias", "read", "bye", "return", "hangup"}
  \/ h = "exec" /\ exec \in {"done", "failed"}
  \/ h = "select" /\ (ctx \/ exited \/ stop.full)
InputCan ==
  \/ /\ input = "read"
     /\ \/ rest
        \/ mail \notin {"none", "part"} /\ ws = "open"
        \/ mail = "part" /\ Gone
        \/ (ws = "closed" \/ (client = "gone" /\ mail = "none")) /\ (stop.closed \/ ~stop.full)
  \/ input \in {"write", "block"} /\ (session = "closed" \/ sh = "exited")
  \/ input = "write" /\ session = "open" /\ sh # "none"
  \/ input = "close"
OutputCan == output = "write" \/ (output = "copy" /\ (sh = "exited" \/ session = "closed"))
ExecCan ==
  \/ exec \in {"select", "wait"} /\ output \in {"ended", "failed"}
  \/ exec = "select" /\ (inputDone \/ input = "detach")
WaiterCan == waiter = "wait" /\ Wait
ShellCan ==
  sh \in {"runs", "eof"} /\ (session = "closed" \/ sh = "eof" \/ (kind = "pty" /\ ctx))

SomebodyCan == \/ HandlerCan \/ InputCan \/ OutputCan \/ ExecCan \/ WaiterCan \/ ShellCan

(* No goroutine of the session is left.                                    *)
AllEnded == /\ input \in {"off", "end"} /\ output \in {"off", "end"}
            /\ waiter \in {"off", "end"} /\ exec \in {"off", "done", "failed"}

(* The copies run on a shell that has been started.                        *)
CopyInv ==
  /\ input = "off" <=> output = "off"
  /\ input # "off" => session # "none" /\ sh # "none"
  /\ h = "dial" => sh = "none"
  /\ h \in {"exec", "read", "alias", "select"} => input # "off"

(* The session is closed only by a handler that is about to return, which  *)
(* leaves the websocket closed and the context done.                       *)
CloseInv ==
  /\ session = "closed" => h \in {"bye", "return", "done"}
  /\ h = "done" => ws = "closed" /\ ctx /\ (kind # "pty" => session # "open")
  /\ ws = "closed" => h = "done"
  /\ h \in {"dial", "hangup"} => session = "none"

(* The goroutine of readMessage and what it leaves for the handler.        *)
WaiterInv ==
  /\ waiter # "off" => h \in {"select", "bye", "return", "done"} /\ input # "off"
  /\ h = "select" => waiter # "off"
  /\ h = "select" /\ waiter = "end" => exited

(* An input that has ended without a word to the handler has met the end   *)
(* of the shell, or an error of the reader.                                *)
InputInv ==
  kind # "docker" /\ input = "end" /\ h \in {"alias", "read", "select"} =>
    stop.full \/ sh = "exited" \/ silent

(* The docker shell: ExecStart outlives neither the handler's call nor the *)
(* output, except after the escape keys; its input ends with inputDone or  *)
(* the escape keys.                                                        *)
ExecInv ==
  /\ exec \in {"select", "wait"} => h = "exec"
  /\ h = "exec" => kind = "docker" /\ exec # "off"
  /\ output \in {"ended", "failed"} => kind = "docker" /\ (exec \in {"select", "wait"} \/ detached)
  /\ kind = "docker" /\ output # "off" => exec # "off"
  /\ kind = "docker" /\ output = "end" => exec \in {"done", "failed"}
  /\ kind = "docker" /\ exec \in {"done", "failed"} => output = "end" \/ detached
  /\ input = "detach" => kind = "docker" /\ detached /\ ~inputDone
  /\ exec = "wait" => inputDone
  /\ inputDone => sh \in {"eof", "exited"} /\ input = "end"
  /\ kind = "docker" /\ input = "end" => inputDone \/ exec = "failed"
  /\ input = "close" => kind = "docker"

WaitInv == CopyInv /\ CloseInv /\ WaiterInv /\ InputInv /\ ExecInv

(* Before the handler has begun all of it holds.                           *)
LEMMA WaitInit == Init => WaitInv
  BY DEF Init, WaitInv, CopyInv, CloseInv, WaiterInv, InputInv, ExecInv

(* The handler's steps keep it.                                            *)
LEMMA WaitHandler ==
  ASSUME IInv, WaitInv, Handler
  PROVE  WaitInv'
<1> USE ShellAssumption DEF IInv, TypeOK, StartInv, StopInv, ByeInv, link, far, chans, hist,
        WaitInv, CopyInv, CloseInv, WaiterInv, InputInv, ExecInv
<1>1. CASE NewDialer
  BY <1>1 DEF NewDialer, NewSSHDialer, NewDockerShell, NewPtyShell
<1>2. CASE Terminal
  BY <1>2 DEF Terminal, OpenTerminal, ExecStart, OpenPty, Started
<1>3. CASE ExecReturns \/ Alias \/ ReadMessage \/ Bye
  BY <1>3 DEF ExecReturns, Alias, ReadMessage, Bye
<1>4. CASE SelectDone
  BY <1>4 DEF SelectDone, CloseSession
<1>5. CASE SelectExited
  BY <1>5 DEF SelectExited, CloseSession
<1>6. CASE SelectStop
  BY <1>6 DEF SelectStop, CloseSession
<1>7. CASE Return
  BY <1>7 DEF Return, CloseSession
<1> QED BY <1>1, <1>2, <1>3, <1>4, <1>5, <1>6, <1>7 DEF Handler

(* So do those of the copies and of the goroutines around them.            *)
LEMMA WaitCopies ==
  ASSUME IInv, WaitInv, Input \/ Output \/ Exec \/ Waiter
  PROVE  WaitInv'
<1> USE ShellAssumption DEF IInv, TypeOK, StartInv, StopInv, ByeInv, link, far, chans, hist,
        WaitInv, CopyInv, CloseInv, WaiterInv, InputInv, ExecInv
<1>1. CASE ReadClosed
  BY <1>1 DEF ReadClosed, SendStop, InputEnds
<1>2. CASE Read
  BY <1>2 DEF Read, Detaches
<1>9. CASE ReadCut \/ ReadEmpty
  BY <1>9 DEF ReadCut, ReadEmpty, InputEnds
<1>3. CASE ReadRest \/ CloseInput
  BY <1>3 DEF ReadRest, CloseInput
<1>4. CASE WriteInput
  BY <1>4 DEF WriteInput, InputEnds
<1>5. CASE WriteOutput
  BY <1>5 DEF WriteOutput
<1>6. CASE OutputEnds
  <2>1. /\ output = "copy"
        /\ \/ kind # "docker" /\ output' = "end"
           \/ kind = "docker" /\ output' \in {"ended", "failed"}
    BY <1>6 DEF OutputEnds
  <2>2. UNCHANGED <<kind, h, ws, ctx, sh, session, input, waiter, exec, stop, exited, inputDone, detached,
                    silent>>
    BY <1>6 DEF OutputEnds
  <2> QED BY <2>1, <2>2
<1>7. CASE Exec
  BY <1>7 DEF Exec, ExecOutput, ExecInput, ExecDetached
<1>8. CASE Waiter
  BY <1>8 DEF Waiter, Wait
<1> QED BY <1>1, <1>2, <1>3, <1>4, <1>5, <1>6, <1>7, <1>8, <1>9 DEF Input, Output

(* And what the client, the server and the shell do.                       *)
LEMMA WaitOthers ==
  ASSUME IInv, WaitInv,
         \/ ClientSends \/ ClientLeaves \/ RequestEnds
         \/ ShellWrites \/ ShellReads \/ ShellExits \/ ShellHangsUp \/ UNCHANGED vars
  PROVE  WaitInv'
<1> USE ShellAssumption DEF IInv, TypeOK, link, far, chans, hist,
        WaitInv, CopyInv, CloseInv, WaiterInv, InputInv, ExecInv
<1>1. CASE ClientSends \/ ClientLeaves \/ RequestEnds
  BY <1>1 DEF ClientSends, ClientLeaves, RequestEnds
<1>2. CASE ShellWrites \/ ShellReads \/ ShellExits \/ ShellHangsUp
  BY <1>2 DEF ShellWrites, ShellReads, ShellExits, ShellHangsUp
<1>3. CASE UNCHANGED vars
  BY <1>3 DEF vars
<1> QED BY <1>1, <1>2, <1>3

(* Where everyone is holds throughout.                                     *)
LEMMA WaitInvariance == Spec => []WaitInv
<1>1. IInv /\ WaitInv /\ [Next]_vars => WaitInv'
  BY WaitHandler, WaitCopies, WaitOthers DEF Next
<1> QED BY <1>1, WaitInit, Invariance, PTL DEF Spec

(* Who waits on the way out. Once the shell has exited, and until the      *)
(* handler has returned, some goroutine of the session can move, at every  *)
(* stage of the set-up and in every order of the channels of readMessage   *)
(* and ExecStart. Once the client has left the same holds, with two        *)
(* exceptions: the copy of the input waits for the shell to read, or, on   *)
(* SSH and pty, Read has ended the copy with an error of t.reader.Read,    *)
(* which it does not pass on to ClosedCh.                                  *)
THEOREM NoStandstill ==
  Spec => []( /\ sh = "exited" => h = "done" \/ SomebodyCan
              /\ client = "gone" => h = "done" \/ Unheard \/ SomebodyCan)
<1>1. IInv /\ WaitInv /\ client = "gone" => h = "done" \/ Unheard \/ SomebodyCan
  <2> SUFFICES ASSUME IInv, WaitInv, client = "gone", h # "done", ~Unheard, ~SomebodyCan PROVE FALSE
    OBVIOUS
  <2> USE DEF IInv, TypeOK, WaitInv, SomebodyCan
  <2>1. h \in {"exec", "select"}
    BY DEF HandlerCan
  <2>2. ws = "open" /\ session = "open" /\ sh # "none" /\ input # "off" /\ output # "off"
    BY <2>1 DEF CloseInv, CopyInv
  <2>3. input \notin {"read", "write", "block", "close"}
    BY <2>2 DEF InputCan, StopInv, Gone, Unheard
  <2>4. CASE h = "exec"
    <3>1. kind = "docker" /\ exec \in {"select", "wait"} /\ output \notin {"ended", "failed", "end"}
      BY <2>4 DEF ExecInv, HandlerCan, ExecCan
    <3>2. output = "copy" /\ sh # "exited" /\ sh # "eof"
      BY <2>2, <3>1 DEF OutputCan, ShellCan
    <3>3. input = "end" /\ ~inputDone
      BY <2>2, <2>3, <3>1, <3>2 DEF ExecCan, ExecInv
    <3> QED BY <3>1, <3>3 DEF ExecInv
  <2>5. CASE h = "select"
    <3>1. waiter = "wait" /\ ~Wait /\ ~stop.full
      BY <2>5 DEF HandlerCan, WaiterCan, WaiterInv
    <3>2. kind \in {"ssh", "pty"}
      BY <3>1, ShellAssumption DEF Wait
    <3>3. sh = "exited"
      BY <2>2, <2>3, <2>5, <3>1, <3>2 DEF InputInv, ExecInv, Unheard
    <3>4. output \in {"end"}
      BY <2>2, <3>2, <3>3 DEF OutputCan, ExecInv
    <3> QED BY <3>1, <3>2, <3>3, <3>4 DEF Wait
  <2> QED BY <2>1, <2>4, <2>5
<1>2. IInv /\ WaitInv /\ sh = "exited" => h = "done" \/ SomebodyCan
  <2> SUFFICES ASSUME IInv, WaitInv, sh = "exited", h # "done", ~SomebodyCan PROVE FALSE
    OBVIOUS
  <2> USE DEF IInv, TypeOK, WaitInv, SomebodyCan
  <2>1. h \in {"exec", "select"}
    BY DEF HandlerCan
  <2>2. output \in {"ended", "failed", "end"}
    BY <2>1 DEF CopyInv, OutputCan
  <2>3. CASE h = "exec"
    BY <2>2, <2>3 DEF ExecInv, HandlerCan, ExecCan
  <2>4. CASE h = "select"
    <3>1. waiter = "wait" /\ ~Wait
      BY <2>4 DEF HandlerCan, WaiterCan, WaiterInv
    <3> QED BY <2>2, <3>1, ShellAssumption DEF Wait, ExecInv
  <2> QED BY <2>1, <2>3, <2>4
<1> QED BY <1>1, <1>2, Invariance, WaitInvariance, PTL

(* Nor does anyone stay behind. Once the handler has returned, and the     *)
(* client has not typed the escape keys of docker, every goroutine of the  *)
(* session has ended, or one of them can move, or the shell they wait for  *)
(* ends.                                                                   *)
THEOREM NobodyStranded == Spec => [](h = "done" /\ ~detached => AllEnded \/ SomebodyCan)
<1>1. IInv /\ WaitInv /\ h = "done" /\ ~detached => AllEnded \/ SomebodyCan
  <2> SUFFICES ASSUME IInv, WaitInv, h = "done", ~detached, ~SomebodyCan PROVE AllEnded
    OBVIOUS
  <2> USE DEF IInv, TypeOK, WaitInv, SomebodyCan
  <2>1. ws = "closed" /\ ctx /\ (kind # "pty" => session # "open")
    BY DEF CloseInv
  <2>2. CASE input = "off"
    BY <2>2 DEF CopyInv, WaiterInv, ExecInv, AllEnded
  <2>3. CASE input # "off"
    <3>1. session # "none" /\ sh # "none" /\ output # "off"
      BY <2>3 DEF CopyInv
    <3>2. sh = "exited"
      BY <2>1, <3>1 DEF ShellCan
    <3>3. input = "end"
      BY <2>1, <2>3, <3>2 DEF InputCan, StopInv, ExecInv, Gone
    <3>4. exec \notin {"select", "wait"}
      BY DEF ExecInv
    <3>5. output = "end"
      BY <3>1, <3>2, <3>4 DEF OutputCan, ExecInv
    <3>6. waiter # "wait"
      BY <3>2, <3>5, ShellAssumption DEF WaiterCan, Wait
    <3> QED BY <3>3, <3>4, <3>5, <3>6 DEF AllEnded
  <2> QED BY <2>2, <2>3
<1> QED BY <1>1, Invariance, WaitInvariance, PTL

(* What is left to do: a rank for each goroutine, together with what it    *)
(* can still be sent or still dial.                                        *)
HandlerRank == [dial |-> 8, term |-> 7, exec |-> 6, alias |-> 6, read |-> 5, select |-> 4,
                bye |-> 3, return |-> 2, hangup |-> 2, done |-> 0]
InputRank == [off |-> 6, write |-> 5, block |-> 4, read |-> 3, close |-> 2, detach |-> 1, end |-> 0]
OutputRank == [off |-> 5, write |-> 4, copy |-> 3, ended |-> 2, failed |-> 2, end |-> 0]
WaiterRank == [off |-> 2, wait |-> 1, end |-> 0]
ExecRank == [off |-> 3, select |-> 2, wait |-> 1, done |-> 0, failed |-> 0]
ShellRank == [none |-> 3, runs |-> 2, eof |-> 1, exited |-> 0]

HandlerLeft == HandlerRank[h] + (Steps - tries)
MailRank == [none |-> 0, data |-> 4, long |-> 4, resize |-> 4, escape |-> 4, empty |-> 4, part |-> 5]
InputLeft == InputRank[input] + MailRank[mail] + (IF rest THEN 1 ELSE 0) + 6 * (MaxIn - sent.client)
OutputLeft == OutputRank[output] + 2 * (MaxOut - sent.shell)
WaiterLeft == WaiterRank[waiter]
ExecLeft == ExecRank[exec]
ShellLeft == ShellRank[sh]
OutsideLeft == (IF client = "here" THEN 1 ELSE 0) + (IF ctx THEN 0 ELSE 1)

Left == HandlerLeft + InputLeft + OutputLeft + WaiterLeft + ExecLeft + ShellLeft + OutsideLeft

LeftOK == /\ HandlerLeft \in Nat /\ InputLeft \in Nat /\ OutputLeft \in Nat /\ WaiterLeft \in Nat
          /\ ExecLeft \in Nat /\ ShellLeft \in Nat /\ OutsideLeft \in Nat

(* The parts are numbers.                                                  *)
LEMMA LeftTypes == TypeOK => LeftOK
<1> SUFFICES ASSUME TypeOK PROVE LeftOK
  OBVIOUS
<1>1. sent.client \in 0..MaxIn /\ sent.shell \in 0..MaxOut /\ tries \in 0..(Steps - 1)
  BY DEF TypeOK
<1>2. MaxIn - sent.client \in Nat /\ MaxOut - sent.shell \in Nat
  BY <1>1, ShellAssumption
<1>3. Steps - tries \in Nat
  BY <1>1, ShellAssumption
<1>4. /\ HandlerRank[h] \in Nat /\ InputRank[input] \in Nat /\ OutputRank[output] \in Nat
      /\ MailRank[mail] \in Nat
  BY DEF TypeOK, HandlerRank, InputRank, OutputRank, MailRank
<1>5. WaiterRank[waiter] \in Nat /\ ExecRank[exec] \in Nat /\ ShellRank[sh] \in Nat
  BY DEF TypeOK, WaiterRank, ExecRank, ShellRank
<1> QED BY <1>2, <1>3, <1>4, <1>5
        DEF HandlerLeft, InputLeft, OutputLeft, WaiterLeft, ExecLeft, ShellLeft, OutsideLeft, LeftOK

(* No part rises, and one falls.                                           *)
Falls ==
  /\ HandlerLeft' <= HandlerLeft /\ InputLeft' <= InputLeft /\ OutputLeft' <= OutputLeft
  /\ WaiterLeft' <= WaiterLeft /\ ExecLeft' <= ExecLeft /\ ShellLeft' <= ShellLeft
  /\ OutsideLeft' <= OutsideLeft
  /\ \/ HandlerLeft' < HandlerLeft \/ InputLeft' < InputLeft \/ OutputLeft' < OutputLeft
     \/ WaiterLeft' < WaiterLeft \/ ExecLeft' < ExecLeft \/ ShellLeft' < ShellLeft
     \/ OutsideLeft' < OutsideLeft

(* Then the sum falls.                                                     *)
LEMMA FallsLess ==
  ASSUME LeftOK, LeftOK', Falls
  PROVE  Left' < Left
<1> DEFINE a == HandlerLeft   b == InputLeft   c == OutputLeft   d == WaiterLeft
           e == ExecLeft      f == ShellLeft   g == OutsideLeft
           aa == HandlerLeft' bb == InputLeft' cc == OutputLeft' dd == WaiterLeft'
           ee == ExecLeft'    ff == ShellLeft' gg == OutsideLeft'
<1>3. /\ a \in Nat /\ b \in Nat /\ c \in Nat /\ d \in Nat /\ e \in Nat /\ f \in Nat /\ g \in Nat
      /\ aa \in Nat /\ bb \in Nat /\ cc \in Nat /\ dd \in Nat /\ ee \in Nat /\ ff \in Nat /\ gg \in Nat
  BY DEF LeftOK
<1>4. /\ aa <= a /\ bb <= b /\ cc <= c /\ dd <= d /\ ee <= e /\ ff <= f /\ gg <= g
      /\ \/ aa < a \/ bb < b \/ cc < c \/ dd < d \/ ee < e \/ ff < f \/ gg < g
  BY DEF Falls
<1>5. Left = a + b + c + d + e + f + g
  BY DEF Left
<1>6. Left' = aa + bb + cc + dd + ee + ff + gg
  BY DEF Left
<1> HIDE DEF a, b, c, d, e, f, g, aa, bb, cc, dd, ee, ff, gg
<1> QED BY <1>3, <1>4, <1>5, <1>6

(* What a step leaves alone leaves the rank alone.                         *)
LEMMA Same ==
  /\ UNCHANGED <<h, tries>> => HandlerLeft' = HandlerLeft
  /\ UNCHANGED <<input, mail, rest, sent>> => InputLeft' = InputLeft
  /\ UNCHANGED <<output, sent>> => OutputLeft' = OutputLeft
  /\ UNCHANGED waiter => WaiterLeft' = WaiterLeft
  /\ UNCHANGED exec => ExecLeft' = ExecLeft
  /\ UNCHANGED sh => ShellLeft' = ShellLeft
  /\ UNCHANGED <<client, ctx>> => OutsideLeft' = OutsideLeft
<1>1. UNCHANGED <<h, tries>> => HandlerLeft' = HandlerLeft
  BY DEF HandlerLeft, HandlerRank
<1>2. UNCHANGED <<input, mail, rest, sent>> => InputLeft' = InputLeft
  BY DEF InputLeft, InputRank, MailRank
<1>3. UNCHANGED <<output, sent>> => OutputLeft' = OutputLeft
  BY DEF OutputLeft, OutputRank
<1>4. /\ UNCHANGED waiter => WaiterLeft' = WaiterLeft
      /\ UNCHANGED exec => ExecLeft' = ExecLeft
      /\ UNCHANGED sh => ShellLeft' = ShellLeft
  BY DEF WaiterLeft, WaiterRank, ExecLeft, ExecRank, ShellLeft, ShellRank
<1>5. UNCHANGED <<client, ctx>> => OutsideLeft' = OutsideLeft
  BY DEF OutsideLeft
<1> QED BY <1>1, <1>2, <1>3, <1>4, <1>5

(* The handler: it dials once more, or goes on; what it starts is then     *)
(* under way.                                                              *)
LEMMA HandlerFalls ==
  ASSUME TypeOK, LeftOK, LeftOK', StartInv, WaitInv, Handler
  PROVE  Falls
<1>1. CASE NewDialer
  <2>1. UNCHANGED <<input, output, waiter, exec, mail, rest, sent, client, ctx>> /\ h = "dial"
    BY <1>1 DEF NewDialer, link
  <2>2. \/ h' = h /\ tries' = tries + 1
        \/ h' \in {"term", "hangup"} /\ tries' = tries
    BY <1>1, <2>1 DEF NewDialer, NewSSHDialer, NewDockerShell, NewPtyShell
  <2>3. HandlerLeft' < HandlerLeft
    <3>1. tries \in Nat /\ Steps \in Nat
      BY ShellAssumption DEF TypeOK
    <3> QED BY <2>1, <2>2, <3>1 DEF HandlerLeft, HandlerRank
  <2>4. ShellLeft' <= ShellLeft
    <3>1. sh' = sh \/ (sh' = "runs" /\ sh = "none")
      BY <1>1, <2>1 DEF NewDialer, NewSSHDialer, NewDockerShell, NewPtyShell, far, WaitInv, CopyInv
    <3> QED BY <3>1 DEF ShellLeft, ShellRank, LeftOK
  <2> QED BY <2>1, <2>3, <2>4, Same DEF Falls, LeftOK
<1>2. CASE Terminal
  <2>1. UNCHANGED <<tries, waiter, mail, rest, sent, client, ctx>>
    BY <1>2 DEF Terminal, link
  <2>2. h = "term" /\ h' \in {"read", "exec", "alias", "return"}
    BY <1>2 DEF Terminal, OpenTerminal, ExecStart, OpenPty, Started
  <2>3. HandlerLeft' < HandlerLeft
    <3>1. tries \in Nat /\ Steps \in Nat
      BY ShellAssumption DEF TypeOK
    <3> QED BY <2>1, <2>2, <3>1 DEF HandlerLeft, HandlerRank
  <2>4. /\ input = "off" /\ output = "off" /\ exec = "off"
        /\ input' \in {"off", "read"} /\ output' \in {"off", "copy"} /\ exec' \in {"off", "select"}
        /\ sh' = sh \/ (sh = "none" /\ sh' = "runs")
    BY <1>2, <2>2 DEF Terminal, OpenTerminal, ExecStart, OpenPty, Started, StartInv, far
  <2>5. InputLeft' <= InputLeft /\ OutputLeft' <= OutputLeft
    <3>1. MaxIn \in Nat /\ MaxOut \in Nat /\ sent.client \in Nat /\ sent.shell \in Nat
      BY ShellAssumption DEF TypeOK
    <3>2. MailRank[mail] \in Nat /\ MailRank[mail'] = MailRank[mail]
      BY <2>1 DEF TypeOK, MailRank
    <3> QED BY <2>1, <2>4, <3>1, <3>2 DEF InputLeft, InputRank, OutputLeft, OutputRank
  <2>6. ExecLeft' <= ExecLeft /\ ShellLeft' <= ShellLeft
    BY <2>4 DEF ExecLeft, ExecRank, ShellLeft, ShellRank, LeftOK
  <2> QED BY <2>1, <2>3, <2>5, <2>6, Same DEF Falls, LeftOK
<1>3. CASE \/ ExecReturns \/ Alias \/ ReadMessage \/ Bye
           \/ SelectDone \/ SelectExited \/ SelectStop \/ Return
  <2>1. UNCHANGED <<tries, input, output, exec, mail, rest, sent, sh, client>>
    BY <1>3 DEF ExecReturns, Alias, ReadMessage, Bye, SelectDone, SelectExited, SelectStop, Return,
                link, far
  <2>2. \/ h \in {"exec", "alias"} /\ h' \in {"read", "return"}
        \/ h = "read" /\ h' = "select"
        \/ h = "select" /\ h' \in {"bye", "return"}
        \/ h = "bye" /\ h' = "return"
        \/ h \in {"return", "hangup"} /\ h' = "done"
    BY <1>3 DEF ExecReturns, Alias, ReadMessage, Bye, SelectDone, SelectExited, SelectStop, Return
  <2>3. HandlerLeft' < HandlerLeft
    <3>1. tries \in Nat /\ Steps \in Nat
      BY ShellAssumption DEF TypeOK
    <3> QED BY <2>1, <2>2, <3>1 DEF HandlerLeft, HandlerRank
  <2>4. waiter' = waiter \/ (waiter = "off" /\ waiter' = "wait")
    <3>1. h = "read" => waiter = "off"
      BY DEF WaitInv, WaiterInv
    <3> QED BY <1>3, <3>1 DEF ExecReturns, Alias, ReadMessage, Bye, SelectDone, SelectExited,
                              SelectStop, Return
  <2>5. ctx' = ctx \/ ctx'
    BY <1>3 DEF ExecReturns, Alias, ReadMessage, Bye, SelectDone, SelectExited, SelectStop, Return, link
  <2>6. WaiterLeft' <= WaiterLeft /\ OutsideLeft' <= OutsideLeft
    BY <2>1, <2>4, <2>5 DEF WaiterLeft, WaiterRank, OutsideLeft, LeftOK
  <2> QED BY <2>1, <2>3, <2>6, Same DEF Falls, LeftOK
<1> QED BY <1>1, <1>2, <1>3 DEF Handler

(* The copy of the input: a message read is worth more than the steps it   *)
(* costs.                                                                  *)
LEMMA InputFalls ==
  ASSUME TypeOK, LeftOK, LeftOK', Input
  PROVE  Falls
<1>1. MaxIn \in Nat /\ sent.client \in Nat
  BY ShellAssumption DEF TypeOK
<1>2. UNCHANGED <<h, tries, output, sent, waiter, exec, client, ctx>>
  BY DEF Input, ReadClosed, ReadCut, Read, ReadEmpty, ReadRest, WriteInput, CloseInput, link
<1>3. ShellLeft' <= ShellLeft
  <2>1. sh' = sh \/ (sh = "runs" /\ sh' = "eof")
    BY DEF Input, ReadClosed, ReadCut, Read, ReadEmpty, ReadRest, WriteInput, CloseInput, far
  <2> QED BY <2>1 DEF ShellLeft, ShellRank, LeftOK
<1> DEFINE Takes == /\ input = "read" /\ input' \in {"read", "detach", "write", "close", "end"}
                    /\ mail # "none" /\ mail' = "none" /\ ~rest
           Skips == UNCHANGED <<input, mail>> /\ rest /\ ~rest'
           Goes == UNCHANGED <<mail, rest>> /\ InputRank[input'] < InputRank[input]
<1>4. /\ input' \in DOMAIN InputRank
      /\ Takes \/ Skips \/ Goes
  <2>1. CASE ReadClosed
    BY <2>1 DEF ReadClosed, InputEnds, link, InputRank
  <2>2. CASE ReadCut \/ ReadEmpty
    BY <2>2 DEF ReadCut, ReadEmpty, InputEnds, InputRank
  <2>3. CASE Read
    BY <2>3 DEF Read, InputRank
  <2>4. CASE ReadRest
    BY <2>4 DEF ReadRest, link, InputRank
  <2>5. CASE WriteInput
    BY <2>5 DEF WriteInput, InputEnds, link, InputRank
  <2>6. CASE CloseInput
    BY <2>6 DEF CloseInput, link, InputRank
  <2> QED BY <2>1, <2>2, <2>3, <2>4, <2>5, <2>6 DEF Input
<1>5. InputLeft' < InputLeft
  <2>1. InputRank[input] \in Nat /\ MailRank[mail] \in Nat /\ InputRank[input'] \in Nat
    BY <1>4 DEF TypeOK, InputRank, MailRank
  <2>2. CASE Skips
    BY <1>1, <1>2, <2>1, <2>2 DEF InputLeft
  <2>3. CASE Takes
    <3>1. InputRank[input'] <= InputRank[input] + 2 /\ MailRank[mail'] = 0 /\ MailRank[mail] >= 4
      BY <2>3 DEF InputRank, MailRank, TypeOK
    <3> QED BY <1>1, <1>2, <2>1, <2>3, <3>1 DEF InputLeft
  <2>4. CASE Goes
    BY <1>1, <1>2, <2>1, <2>4 DEF InputLeft
  <2> QED BY <1>4, <2>2, <2>3, <2>4
<1> QED BY <1>2, <1>3, <1>5, Same DEF Falls, LeftOK

(* The copy of the output, ExecStart and the waiter.                       *)
LEMMA OutputFalls ==
  ASSUME TypeOK, LeftOK, LeftOK', Output \/ Exec \/ Waiter
  PROVE  Falls
<1>1. MaxIn \in Nat /\ MaxOut \in Nat /\ sent.client \in Nat /\ sent.shell \in Nat
  BY ShellAssumption DEF TypeOK
<1>2. UNCHANGED <<h, tries, mail, rest, sent, sh, client, ctx>>
  BY DEF Output, WriteOutput, OutputEnds, Exec, ExecOutput, ExecInput, ExecDetached, Waiter, link, far
<1>3. CASE Output
  <2>1. UNCHANGED <<input, waiter, exec>>
    BY <1>3 DEF Output, WriteOutput, OutputEnds
  <2>2. \/ output = "write" /\ output' \in {"failed", "end", "copy"}
        \/ output = "copy" /\ output' \in {"ended", "failed", "end"}
    BY <1>3 DEF Output, WriteOutput, OutputEnds
  <2>3. OutputLeft' < OutputLeft
    BY <1>1, <1>2, <2>2 DEF OutputLeft, OutputRank
  <2> QED BY <1>2, <2>1, <2>3, Same DEF Falls, LeftOK
<1>4. CASE Exec
  <2>1. UNCHANGED waiter
    BY <1>4 DEF Exec, ExecOutput, ExecInput, ExecDetached
  <2>2. /\ \/ exec = "select" /\ exec' \in {"wait", "done", "failed"}
           \/ exec = "wait" /\ exec' \in {"done", "failed"}
        /\ output' = output \/ (output \in {"ended", "failed"} /\ output' = "end")
        /\ input' = input \/ (input = "detach" /\ input' = "end")
    BY <1>4 DEF Exec, ExecOutput, ExecInput, ExecDetached
  <2>3. ExecLeft' < ExecLeft
    BY <2>2 DEF ExecLeft, ExecRank
  <2>4. InputLeft' <= InputLeft
    <3>1. CASE input' = input
      BY <1>2, <3>1, Same DEF LeftOK
    <3>2. CASE input = "detach" /\ input' = "end"
      <4>1. MailRank[mail] \in Nat /\ MailRank[mail'] = MailRank[mail]
        BY <1>2 DEF TypeOK, MailRank
      <4> QED BY <1>1, <1>2, <3>2, <4>1 DEF InputLeft, InputRank
    <3> QED BY <2>2, <3>1, <3>2
  <2>5. OutputLeft' <= OutputLeft
    <3>1. CASE output' = output
      BY <1>2, <3>1, Same DEF LeftOK
    <3>2. CASE output \in {"ended", "failed"} /\ output' = "end"
      BY <1>1, <1>2, <3>2 DEF OutputLeft, OutputRank
    <3> QED BY <2>2, <3>1, <3>2
  <2> QED BY <1>2, <2>1, <2>3, <2>4, <2>5, Same DEF Falls, LeftOK
<1>5. CASE Waiter
  <2>1. UNCHANGED <<input, output, exec>> /\ waiter = "wait" /\ waiter' = "end"
    BY <1>5 DEF Waiter
  <2>2. WaiterLeft' < WaiterLeft
    BY <2>1 DEF WaiterLeft, WaiterRank
  <2> QED BY <1>2, <2>1, <2>2, Same DEF Falls, LeftOK
<1> QED BY <1>3, <1>4, <1>5

(* The client, the server and the shell.                                   *)
LEMMA OutsideFalls ==
  ASSUME TypeOK, LeftOK, LeftOK',
         \/ ClientSends \/ ClientLeaves \/ RequestEnds
         \/ ShellWrites \/ ShellReads \/ ShellExits \/ ShellHangsUp
  PROVE  Falls
<1>1. MaxIn \in Nat /\ MaxOut \in Nat /\ sent.client \in Nat /\ sent.shell \in Nat
  BY ShellAssumption DEF TypeOK
<1>2. UNCHANGED <<h, tries, rest, waiter, exec>> /\ (~ShellReads => UNCHANGED input)
  BY DEF ClientSends, ClientLeaves, RequestEnds, ShellWrites, ShellReads, ShellExits, ShellHangsUp
<1>3. CASE ClientSends
  <2>1. /\ UNCHANGED <<input, output, sh, client, ctx>>
        /\ \/ /\ mail = "none" /\ mail' # "none" /\ mail' \in DOMAIN MailRank
              /\ sent'.client = sent.client + 1 /\ sent'.shell = sent.shell
           \/ mail = "part" /\ mail' = "data" /\ sent' = sent
    BY <1>3 DEF ClientSends, far, TypeOK, MailRank
  <2>2. OutputLeft' = OutputLeft
    BY <2>1 DEF OutputLeft, OutputRank
  <2>3. InputLeft' < InputLeft
    <3>1. InputRank[input] \in Nat
      BY DEF TypeOK, InputRank
    <3>2. CASE /\ mail = "none" /\ mail' # "none" /\ mail' \in DOMAIN MailRank
               /\ sent'.client = sent.client + 1
      <4>1. 6 * (MaxIn - sent'.client) = 6 * (MaxIn - sent.client) - 6
        BY <1>1, <3>2
      <4>2. MailRank[mail] = 0 /\ MailRank[mail'] <= 5 /\ MailRank[mail'] \in Nat
        BY <3>2 DEF MailRank
      <4> QED BY <1>1, <1>2, <2>1, <3>1, <4>1, <4>2 DEF InputLeft
    <3>3. CASE mail = "part" /\ mail' = "data" /\ sent' = sent
      BY <1>1, <1>2, <2>1, <3>1, <3>3 DEF InputLeft, MailRank
    <3> QED BY <2>1, <3>2, <3>3
  <2> QED BY <1>2, <2>1, <2>2, <2>3, Same DEF Falls, LeftOK
<1>4. CASE ClientLeaves \/ RequestEnds
  <2>1. UNCHANGED <<input, output, mail, sent, sh>>
    BY <1>4 DEF ClientLeaves, RequestEnds, far
  <2>2. OutsideLeft' < OutsideLeft
    BY <1>4 DEF ClientLeaves, RequestEnds, OutsideLeft
  <2> QED BY <1>2, <2>1, <2>2, Same DEF Falls, LeftOK
<1>5. CASE ShellWrites
  <2>1. /\ UNCHANGED <<input, mail, sh, client, ctx>> /\ output = "copy" /\ output' = "write"
        /\ sent'.client = sent.client /\ sent'.shell = sent.shell + 1
    BY <1>5 DEF ShellWrites, far, TypeOK
  <2>2. InputLeft' = InputLeft
    BY <1>2, <2>1 DEF InputLeft, InputRank
  <2>3. OutputLeft' < OutputLeft
    BY <1>1, <2>1 DEF OutputLeft, OutputRank
  <2> QED BY <1>2, <2>1, <2>2, <2>3, Same DEF Falls, LeftOK
<1>6. CASE ShellExits \/ ShellHangsUp
  <2>1. UNCHANGED <<input, output, mail, sent, client, ctx>> /\ sh \in {"runs", "eof"} /\ sh' = "exited"
    BY <1>6 DEF ShellExits, ShellHangsUp, link
  <2>2. ShellLeft' < ShellLeft
    BY <2>1 DEF ShellLeft, ShellRank
  <2> QED BY <1>2, <2>1, <2>2, Same DEF Falls, LeftOK
<1>7. CASE ShellReads
  <2>1. /\ UNCHANGED <<output, mail, sent, sh, client, ctx>>
        /\ input = "block" /\ input' = "read"
    BY <1>7 DEF ShellReads, far, link
  <2>2. InputLeft' < InputLeft
    <3>1. MailRank[mail] \in Nat
      BY DEF TypeOK, MailRank
    <3> QED BY <1>1, <1>2, <2>1, <3>1 DEF InputLeft, InputRank
  <2> QED BY <1>2, <2>1, <2>2, Same DEF Falls, LeftOK
<1> QED BY <1>3, <1>4, <1>5, <1>6, <1>7

(* A session is finite: whatever the client, the shell and the server do   *)
(* and in whatever order, with any bounds on the dials and the messages    *)
(* every step leaves less to do, and no goroutine of the handler goes      *)
(* round without reading, writing or dialling. With NoStandstill (and its  *)
(* two exceptions) and NobodyStranded, a session that is not over can go   *)
(* on, and one that goes on comes to its end.                              *)
THEOREM SessionAdvances == Spec => [][LeftOK /\ LeftOK' /\ Left' < Left]_vars
<1>1. IInv /\ IInv' /\ WaitInv /\ [Next]_vars => [LeftOK /\ LeftOK' /\ Left' < Left]_vars
  <2> SUFFICES ASSUME IInv, IInv', WaitInv, Next PROVE LeftOK /\ LeftOK' /\ Left' < Left
    OBVIOUS
  <2>1. LeftOK /\ TypeOK /\ StartInv
    BY LeftTypes DEF IInv
  <2>2. TypeOK' => LeftOK'
    BY LeftTypes, PTL
  <2>3. LeftOK'
    BY <2>2 DEF IInv
  <2>4. Falls
    BY <2>1, <2>3, HandlerFalls, InputFalls, OutputFalls, OutsideFalls DEF Next
  <2> QED BY <2>1, <2>3, <2>4, FallsLess
<1> QED BY <1>1, Invariance, WaitInvariance, PTL DEF Spec
=============================================================================
