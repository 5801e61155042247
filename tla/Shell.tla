------------------------------- MODULE Shell -------------------------------
(***************************************************************************)
(* A shell in the browser: pkg/hosts/websocket.go between the websocket    *)
(* and one of the shells of pkg/hosts/dialer, for the handlers of          *)
(* pkg/server/store/websocket/ssh ("ssh", and "docker" for the nodes of    *)
(* k3d) and pkg/server/store/websocket/kubectl ("pty"). Goroutines of one  *)
(* session: the handler, the one that waits for the shell to exit, the     *)
(* copy of the input, the copy of the output, and the one of ExecStart.    *)
(***************************************************************************)
EXTENDS Integers

CONSTANTS Kinds,     \* the kinds of shells tried
          Steps,     \* defaultBackoff.Steps: how often the SSH server is dialled
          MaxIn,     \* bound: messages of the client
          MaxOut     \* bound: writes of the shell

ASSUME ShellAssumption == /\ Kinds \subseteq {"ssh", "docker", "pty"}
                          /\ Steps \in Nat \ {0} /\ MaxIn \in Nat /\ MaxOut \in Nat

VARIABLES
  kind,      \* the shell of this session
  h,         \* where the handler is
  tries,     \* how often it has dialled
  client,    \* the browser holds the websocket, or is gone
  ws,        \* the handler holds the websocket, or has closed it
  ctx,       \* the context of the request is done
  mail,      \* what the client has sent and nobody has read yet
  sent,      \* what it has sent, and what the shell has written, so far
  sh,        \* the shell: "none", "runs", "eof" (its input has ended) or "exited"
  session,   \* the session, the exec or the pty: "none", "open" or "closed"
  input,     \* io.Copy from the TerminalReader to the shell
  rest,      \* the TerminalReader has a message it has not read to its end
  output,    \* io.Copy from the shell to the BinaryWriter
  waiter,    \* the goroutine of readMessage
  exec,      \* the goroutine of ExecStart
  stop,      \* TerminalReader.ClosedCh: what is buffered, and whether it is closed
  exited,    \* sessionClosed has a value
  inputDone, \* inputDone is closed
  detached,  \* history: the client has typed the escape keys
  silent,    \* history: Read has ended the copy of the input without a word on ClosedCh
  panicked   \* history: something was sent on a closed channel

link == <<client, ws, ctx, mail, sent>>
far == <<sh, session>>
chans == <<stop, exited, inputDone>>
hist == <<detached, silent, panicked>>
vars == <<kind, h, tries, link, far, input, rest, output, waiter, exec, chans, hist>>

Init ==
  /\ kind \in Kinds
  /\ h = "dial" /\ tries = 0
  /\ client = "here" /\ ws = "open" /\ ctx = FALSE
  /\ mail = "none" /\ sent = [client |-> 0, shell |-> 0]
  /\ sh = "none" /\ session = "none"
  /\ input = "off" /\ rest = FALSE /\ output = "off" /\ waiter = "off" /\ exec = "off"
  /\ stop = [full |-> FALSE, closed |-> FALSE]
  /\ exited = FALSE /\ inputDone = FALSE
  /\ detached = FALSE /\ silent = FALSE /\ panicked = FALSE

---------------------------------------------------------------------------
(* The handler. *)

(* NewSSHDialer dials Steps times at most; OpenShell opens a session.      *)
NewSSHDialer ==
  /\ kind = "ssh"
  /\ \/ tries + 1 < Steps /\ tries' = tries + 1 /\ UNCHANGED <<h, far>>
     \/ h' = "term" /\ session' = "open" /\ UNCHANGED <<tries, sh>>

(* The exec is created and attached to, and runs from then on.             *)
NewDockerShell ==
  /\ kind = "docker"
  /\ h' = "term" /\ session' = "open" /\ sh' = "runs" /\ UNCHANGED tries

(* Only keeps the command.                                                 *)
NewPtyShell ==
  /\ kind = "pty"
  /\ h' = "term" /\ UNCHANGED <<tries, far>>

(* newDialer: the shell of the node's provider; an error ends the handler, *)
(* which closes the websocket.                                             *)
NewDialer ==
  /\ h = "dial"
  /\ \/ NewSSHDialer \/ NewDockerShell \/ NewPtyShell
     \/ h' = "hangup" /\ UNCHANGED <<tries, far>>
  /\ UNCHANGED <<kind, link, input, rest, output, waiter, exec, chans, hist>>

(* The shell is started, with the copies of its input and output.          *)
Started(next) ==
  /\ h' = next
  /\ sh' = (IF sh = "none" THEN "runs" ELSE sh) /\ session' = "open"
  /\ input' = "read" /\ output' = "copy"

(* RequestPty and Shell of the SSH session.                                *)
OpenTerminal ==
  /\ kind = "ssh" /\ Started("read")
  /\ UNCHANGED exec

(* OpenTerminal of the docker shell: the goroutine of ExecStart starts the *)
(* copies, and the handler waits for it.                                   *)
ExecStart ==
  /\ kind = "docker" /\ Started("exec")
  /\ exec' = "select"

(* pty.StartWithSize; the handler goes on to write the aliases.            *)
OpenPty ==
  /\ kind = "pty" /\ Started("alias")
  /\ UNCHANGED exec

(* An error of OpenTerminal makes the handler return.                      *)
Terminal ==
  /\ h = "term"
  /\ \/ OpenTerminal \/ ExecStart \/ OpenPty
     \/ kind # "docker" /\ h' = "return" /\ UNCHANGED <<far, input, output, exec>>
  /\ UNCHANGED <<kind, tries, link, rest, waiter, chans, hist>>

(* ExecStart returns what came over errCh.                                 *)
ExecReturns ==
  /\ h = "exec" /\ exec \in {"done", "failed"}
  /\ h' = IF exec = "done" THEN "read" ELSE "return"
  /\ UNCHANGED <<kind, tries, link, far, input, rest, output, waiter, exec, chans, hist>>

Alias ==
  /\ h = "alias"
  /\ h' \in {"read", "return"}
  /\ UNCHANGED <<kind, tries, link, far, input, rest, output, waiter, exec, chans, hist>>

(* readMessage starts the goroutine that waits for the shell.              *)
ReadMessage ==
  /\ h = "read"
  /\ h' = "select" /\ waiter' = "wait"
  /\ UNCHANGED <<kind, tries, link, far, input, rest, output, exec, chans, hist>>

CloseSession == session' = IF session = "open" THEN "closed" ELSE session

(* The request is over.                                                    *)
SelectDone ==
  /\ h = "select" /\ ctx
  /\ CloseSession
  /\ h' = "return"
  /\ UNCHANGED <<kind, tries, link, sh, input, rest, output, waiter, exec, chans, hist>>

(* Mutant: the channel of the reader is closed here too.                   *)
SelectExitedStops ==
  /\ h = "select" /\ exited
  /\ CloseSession
  /\ exited' = FALSE
  /\ stop' = [stop EXCEPT !.closed = TRUE]
  /\ h' = "bye"
  /\ UNCHANGED <<kind, tries, link, sh, input, rest, output, waiter, exec, inputDone, hist>>

(* The shell has exited: the close message is on its way ("bye").          *)
SelectExited ==
  /\ h = "select" /\ exited
  /\ CloseSession
  /\ exited' = FALSE
  /\ h' = "bye"
  /\ UNCHANGED <<kind, tries, link, sh, input, rest, output, waiter, exec, stop, inputDone, hist>>

(* Mutant: the loop goes on when the client is gone.                       *)
SelectStopOnce ==
  /\ h = "select" /\ stop.full
  /\ stop' = [stop EXCEPT !.full = FALSE]
  /\ UNCHANGED <<kind, h, tries, link, far, input, rest, output, waiter, exec, exited, inputDone,
                 hist>>

(* The client is gone.                                                     *)
SelectStop ==
  /\ h = "select" /\ stop.full
  /\ CloseSession
  /\ stop' = [full |-> FALSE, closed |-> TRUE]
  /\ h' = "return"
  /\ UNCHANGED <<kind, tries, link, sh, input, rest, output, waiter, exec, exited, inputDone, hist>>

(* The close message is written, if the client is still there to take it.  *)
Bye ==
  /\ h = "bye"
  /\ h' = "return"
  /\ UNCHANGED <<kind, tries, link, far, input, rest, output, waiter, exec, chans, hist>>

(* The handler's deferred functions: dialer.Close, which the handler of    *)
(* the pty does not have, and the websocket; the context ends with it.     *)
Return ==
  /\ h \in {"return", "hangup"}
  /\ IF h = "return" /\ kind # "pty" THEN CloseSession ELSE UNCHANGED session
  /\ ws' = "closed"
  /\ h' = "done" /\ ctx' = TRUE
  /\ UNCHANGED <<kind, tries, client, mail, sent, sh, input, rest, output, waiter, exec, chans, hist>>

---------------------------------------------------------------------------
(* The input. *)

Gone == client = "gone" \/ ws = "closed"

(* ClosedCh has room for one value.                                        *)
SendStop ==
  IF stop.closed THEN panicked' = TRUE /\ UNCHANGED stop
  ELSE ~stop.full /\ stop' = [stop EXCEPT !.full = TRUE] /\ UNCHANGED panicked

(* io.Copy has ended with the reader's or the writer's error. Only the     *)
(* docker shell has more to do then.                                       *)
InputEnds == input' = IF kind = "docker" THEN "close" ELSE "end"

(* TerminalReader.Read finds the websocket closed.                         *)
ReadClosed ==
  /\ input = "read" /\ ~rest
  /\ ws = "closed" \/ (client = "gone" /\ mail = "none")
  /\ SendStop
  /\ InputEnds
  /\ UNCHANGED <<kind, h, tries, link, far, rest, output, waiter, exec, exited, inputDone, detached,
                 silent>>

(* The client leaves, or the websocket is closed, in the middle of a       *)
(* message: t.reader.Read fails, and nothing is sent on ClosedCh.          *)
ReadCut ==
  /\ input = "read" /\ ~rest
  /\ mail = "part" /\ Gone
  /\ mail' = "none" /\ silent' = TRUE
  /\ InputEnds
  /\ UNCHANGED <<kind, h, tries, client, ws, ctx, sent, far, rest, output, waiter, exec, chans,
                 detached, panicked>>

(* setInput: the escape proxy around the input of the docker shell.        *)
Detaches(m) == kind = "docker" /\ m = "escape"

(* A resize is done by the reader itself and it reads on; data is returned *)
(* to io.Copy, as much of it as the buffer takes, and a part of a message  *)
(* is waited for. An empty message gives io.EOF, which ends the copy; so   *)
(* do the escape keys that of the docker shell.                            *)
Read ==
  /\ input = "read" /\ ~rest
  /\ mail \notin {"none", "part", "empty"} /\ ws = "open"
  /\ mail' = "none"
  /\ input' = CASE mail = "resize" -> "read"
                [] Detaches(mail) -> "detach"
                [] OTHER -> "write"
  /\ rest' = (mail = "long")
  /\ detached' = (detached \/ Detaches(mail))
  /\ UNCHANGED <<kind, h, tries, client, ws, ctx, sent, far, output, waiter, exec, chans, silent,
                 panicked>>

ReadEmpty ==
  /\ input = "read" /\ ~rest
  /\ mail = "empty" /\ ws = "open"
  /\ mail' = "none" /\ silent' = TRUE
  /\ InputEnds
  /\ UNCHANGED <<kind, h, tries, client, ws, ctx, sent, far, rest, output, waiter, exec, chans,
                 detached, panicked>>

(* The rest of a message longer than the buffer: the type of the message   *)
(* was a local of the last call, and the reader passes over it.            *)
ReadRest ==
  /\ input = "read" /\ rest
  /\ rest' = FALSE
  /\ UNCHANGED <<kind, h, tries, link, far, input, output, waiter, exec, chans, hist>>

(* io.Copy writes to the shell. While the tty or the window of the SSH     *)
(* channel is full the write waits ("block"), until the shell reads.       *)
WriteInput ==
  /\ \/ /\ input = "write" /\ session = "open" /\ sh \in {"runs", "eof"}
        /\ input' \in {"read", "block"}
     \/ /\ input \in {"write", "block"}
        /\ session = "closed" \/ sh = "exited"
        /\ InputEnds
  /\ UNCHANGED <<kind, h, tries, link, far, rest, output, waiter, exec, chans, hist>>

(* beginInputStream: the input of the exec is closed, and inputDone.       *)
CloseInput ==
  /\ input = "close"
  /\ input' = "end" /\ inputDone' = TRUE
  /\ sh' = IF sh = "runs" THEN "eof" ELSE sh
  /\ UNCHANGED <<kind, h, tries, link, session, rest, output, waiter, exec, stop, exited, hist>>

---------------------------------------------------------------------------
(* The output. *)

(* BinaryWriter.Write, between NextWriter and Close.                       *)
WriteOutput ==
  /\ output = "write"
  /\ output' = IF Gone THEN (IF kind = "docker" THEN "failed" ELSE "end") ELSE "copy"
  /\ UNCHANGED <<kind, h, tries, link, far, input, rest, waiter, exec, chans, hist>>

(* The output ends when the shell has exited or the session is closed; the *)
(* copy of the docker shell then sends on outputDone.                      *)
OutputEnds ==
  /\ output = "copy"
  /\ sh = "exited" \/ session = "closed"
  /\ output' = IF kind # "docker" THEN "end" ELSE IF sh = "exited" THEN "ended" ELSE "failed"
  /\ UNCHANGED <<kind, h, tries, link, far, input, rest, waiter, exec, chans, hist>>

---------------------------------------------------------------------------
(* The goroutines of ExecStart and of readMessage. *)

(* outputDone has no buffer: it is received here or never.                 *)
ExecOutput ==
  /\ exec \in {"select", "wait"} /\ output \in {"ended", "failed"}
  /\ exec' = IF output = "ended" THEN "done" ELSE "failed"
  /\ output' = "end"
  /\ UNCHANGED <<kind, h, tries, link, far, input, rest, waiter, chans, hist>>

ExecInput ==
  /\ exec = "select" /\ inputDone
  /\ exec' = "wait"
  /\ UNCHANGED <<kind, h, tries, link, far, input, rest, output, waiter, chans, hist>>

(* Nor has detached.                                                       *)
ExecDetached ==
  /\ exec = "select" /\ input = "detach"
  /\ exec' = "failed" /\ input' = "end"
  /\ UNCHANGED <<kind, h, tries, link, far, rest, output, waiter, chans, hist>>

(* Mutant: Wait of the SSH session does not wait for the output.           *)
WaitNot == sh = "exited" \/ kind = "docker"

(* Wait: the SSH session waits for its shell and for the copy of the       *)
(* output, the pty for its shell; the docker shell only asks for the exit  *)
(* code.                                                                   *)
Wait ==
  CASE kind = "ssh" -> sh = "exited" /\ output = "end"
    [] kind = "pty" -> sh = "exited"
    [] OTHER -> TRUE

(* Mutant: sessionClosed has no buffer.                                    *)
WaiterMeets ==
  /\ waiter = "wait" /\ Wait /\ h = "select"
  /\ waiter' = "end" /\ exited' = TRUE
  /\ UNCHANGED <<kind, h, tries, link, far, input, rest, output, exec, stop, inputDone, hist>>

(* sessionClosed has room for one value, whoever still reads it.           *)
Waiter ==
  /\ waiter = "wait" /\ Wait
  /\ waiter' = "end" /\ exited' = TRUE
  /\ UNCHANGED <<kind, h, tries, link, far, input, rest, output, exec, stop, inputDone, hist>>

---------------------------------------------------------------------------
(* The client, the request and the shell itself. *)

(* A message, empty perhaps, or the beginning of one and later the rest.   *)
ClientSends ==
  /\ client = "here" /\ ws = "open"
  /\ \/ /\ mail = "none" /\ sent.client < MaxIn
        /\ mail' \in {"data", "long", "resize", "escape", "empty", "part"}
        /\ sent' = [sent EXCEPT !.client = @ + 1]
     \/ mail = "part" /\ mail' = "data" /\ UNCHANGED sent
  /\ UNCHANGED <<kind, h, tries, client, ws, ctx, far, input, rest, output, waiter, exec, chans, hist>>

ClientLeaves ==
  /\ client = "here"
  /\ client' = "gone"
  /\ UNCHANGED <<kind, h, tries, ws, ctx, mail, sent, far, input, rest, output, waiter, exec, chans,
                 hist>>

(* The server is stopped.                                                  *)
RequestEnds ==
  /\ ~ctx /\ ctx' = TRUE
  /\ UNCHANGED <<kind, h, tries, client, ws, mail, sent, far, input, rest, output, waiter, exec,
                 chans, hist>>

ShellWrites ==
  /\ sh \in {"runs", "eof"} /\ session = "open"
  /\ output = "copy" /\ sent.shell < MaxOut
  /\ output' = "write" /\ sent' = [sent EXCEPT !.shell = @ + 1]
  /\ UNCHANGED <<kind, h, tries, client, ws, ctx, mail, far, input, rest, waiter, exec, chans, hist>>

(* The shell, or what runs in it, reads: it may never do.                  *)
ShellReads ==
  /\ input = "block" /\ session = "open" /\ sh \in {"runs", "eof"}
  /\ input' = "read"
  /\ UNCHANGED <<kind, h, tries, link, far, rest, output, waiter, exec, chans, hist>>

(* The user ends the shell.                                                *)
ShellExits ==
  /\ sh = "runs"
  /\ sh' = "exited"
  /\ UNCHANGED <<kind, h, tries, link, session, input, rest, output, waiter, exec, chans, hist>>

(* A shell ends when its terminal does or its input; exec.CommandContext   *)
(* kills that of the pty with the context.                                 *)
ShellHangsUp ==
  /\ sh \in {"runs", "eof"}
  /\ session = "closed" \/ sh = "eof" \/ (kind = "pty" /\ ctx)
  /\ sh' = "exited"
  /\ UNCHANGED <<kind, h, tries, link, session, input, rest, output, waiter, exec, chans, hist>>

Handler == \/ NewDialer \/ Terminal \/ ExecReturns \/ Alias \/ ReadMessage
           \/ SelectDone \/ SelectExited \/ SelectStop \/ Bye \/ Return
Input == ReadClosed \/ ReadCut \/ Read \/ ReadEmpty \/ ReadRest \/ WriteInput \/ CloseInput
Output == WriteOutput \/ OutputEnds
Exec == ExecOutput \/ ExecInput \/ ExecDetached

Next ==
  \/ Handler \/ Input \/ Output \/ Exec \/ Waiter
  \/ ClientSends \/ ClientLeaves \/ RequestEnds
  \/ ShellWrites \/ ShellReads \/ ShellExits \/ ShellHangsUp

(* The goroutines are scheduled, and a shell that has lost its terminal or *)
(* its input ends. The client and the user may do nothing, and what runs   *)
(* in the shell need not read.                                             *)
Fairness == /\ WF_vars(Handler) /\ WF_vars(Input) /\ WF_vars(Output) /\ WF_vars(Exec)
            /\ WF_vars(Waiter) /\ WF_vars(ShellHangsUp)

Spec == Init /\ [][Next]_vars /\ Fairness

---------------------------------------------------------------------------
(* The state has its types.                                                *)
TypeOK ==
  /\ kind \in Kinds
  /\ h \in {"dial", "term", "exec", "alias", "read", "select", "bye", "return", "hangup", "done"}
  /\ tries \in 0..(Steps - 1)
  /\ client \in {"here", "gone"} /\ ws \in {"open", "closed"} /\ ctx \in BOOLEAN
  /\ mail \in {"none", "data", "long", "resize", "escape", "empty", "part"}
  /\ sent \in [client : 0..MaxIn, shell : 0..MaxOut]
  /\ sh \in {"none", "runs", "eof", "exited"} /\ session \in {"none", "open", "closed"}
  /\ input \in {"off", "read", "write", "block", "close", "detach", "end"} /\ rest \in BOOLEAN
  /\ output \in {"off", "copy", "write", "ended", "failed", "end"}
  /\ waiter \in {"off", "wait", "end"}
  /\ exec \in {"off", "select", "wait", "done", "failed"}
  /\ stop \in [full : BOOLEAN, closed : BOOLEAN]
  /\ exited \in BOOLEAN /\ inputDone \in BOOLEAN
  /\ detached \in BOOLEAN /\ silent \in BOOLEAN /\ panicked \in BOOLEAN

(* Nothing is sent on the channel of the reader after readMessage has      *)
(* closed it (TerminalReader.Read, readMessage), in whatever order the     *)
(* client leaves, the shell exits and the request ends: the send would     *)
(* panic in a goroutine nobody recovers and end the server.                *)
NoSendOnClosed == ~panicked

(* The close message is the last thing a client of an SSH or docker shell  *)
(* gets (Wait, ExecStart, readMessage): no output is lost behind it, and   *)
(* the handler never writes to the websocket while the copy of the output  *)
(* does. The pty does not keep this: its Wait does not wait for the copy.  *)
ByeIsLast == h = "bye" /\ kind # "pty" => output = "end"

(* The handler cannot be told that the client has left: the copy of the    *)
(* input waits for the shell to read, or Read has ended it without a word  *)
(* (a message cut off, or an empty one). The docker shell then closes the  *)
(* input of its exec, which the shell in it notices.                       *)
Unheard == input = "block" \/ (silent /\ kind # "docker")

(* A session is over when its shell ends, or when its client leaves while  *)
(* the copy of the input is reading: its handler returns, at whatever      *)
(* stage of the set-up it was (TerminalReader.Read, readMessage,           *)
(* ExecStart). It may stay for ever when the copy waits for the shell to   *)
(* read, and on SSH and pty when t.reader.Read has failed or met an empty  *)
(* message: nothing is sent on ClosedCh then.                              *)
HandlerReturns == /\ sh = "exited" ~> h = "done"
                  /\ client = "gone" ~> h = "done" \/ Unheard

(* Once the handler has returned no goroutine of the session stays: none   *)
(* is left waiting for a reader, a writer or a channel nobody serves       *)
(* (sessionClosed and ClosedCh have room for the one value each). Not so   *)
(* when the client has typed the escape keys in a docker shell: outputDone *)
(* or detached is then sent on with nobody left to receive.                *)
GoroutinesEnd ==
  h = "done" ~> \/ detached
                \/ /\ input \in {"off", "end"} /\ output \in {"off", "end"}
                   /\ waiter \in {"off", "end"} /\ exec \in {"off", "done", "failed"}
=============================================================================
