------------------------------- MODULE Bridge --------------------------------
(***************************************************************************)
(* "tailbus agent" and "tailbus attach": a process that turns lines on its *)
(* input into calls of the daemon and writes their results, and what       *)
(* arrives for its handle, as lines on its output.                         *)
(*                                                                         *)
(* The bridge has three users, one of which is chosen at the start:        *)
(* "sdk", the Python AsyncAgent, which starts the bridge as a child and    *)
(* matches responses with its requests; "child", a program that attach     *)
(* starts, which reads and writes the bridge's lines itself; and "exec",   *)
(* attach with a command to run for each session.  A line is known by the  *)
(* request it carries or answers.                                          *)
(***************************************************************************)
EXTENDS Naturals, Sequences, Functions

CONSTANTS
  Requests,      \* requests of the SDK, lines of a child, sessions in exec mode
  MaxMessages,   \* bound: messages that arrive for the handle
  NoOne

ASSUME BridgeAssumption ==
  /\ MaxMessages \in Nat /\ NoOne \notin Requests
  /\ \A s \in {"reading", "eof", "gone"} : s \notin Requests /\ s # NoOne

VARIABLES
  user,          \* who uses the bridge
  kind,          \* the command of each request
  future,        \* what became of each request, as its sender knows it
  answeredBy,    \* the request whose response completed each future
  pendingIds,    \* SDK: _pending
  pendingOrder,  \* SDK: _pending_order
  isRegistered,  \* SDK: _is_registered
  reading,       \* SDK: _reader_loop runs
  closing,       \* SDK: close() has been called
  input,         \* lines written to the bridge and not read
  inputClosed,   \* the writer of input is gone
  scanner,       \* the goroutine that reads input: "reading", "eof", "gone", or the line it holds
  scanErr,       \* scanErrCh holds a value
  bridge,        \* the main loop of runBridge
  current,       \* the command it executes
  bridgeHandle,  \* it has registered its handle
  stream,        \* its subscription
  interrupted,   \* its context is done
  output,        \* lines it has written that were not read
  arrived,       \* messages the subscription has brought
  child,         \* attach: the child
  attach,        \* attach: its main function
  queue,         \* exec: messages of the subscription that were not handled
  executed,      \* history: requests the bridge has executed (exec: resolved)
  gaveUp         \* history: a register request was cancelled

sdkVars    == <<future, answeredBy, pendingIds, pendingOrder, isRegistered, reading, closing>>
pipes      == <<input, inputClosed, output>>
loopVars   == <<scanner, scanErr, bridge, current, bridgeHandle, stream, arrived, executed>>
attachVars == <<child, attach, queue>>
bridgeVars == <<user, kind, sdkVars, pipes, loopVars, attachVars, interrupted, gaveUp>>

SessionOps == {"open", "sessions"}       \* open, send, resolve; sessions
CommandKinds == {"register", "query", "room", "unknown"} \union SessionOps

BridgeInit ==
  /\ user \in {"sdk", "child", "exec"} /\ kind = [r \in Requests |-> "none"]
  /\ future = [r \in Requests |-> "none"] /\ answeredBy = [r \in Requests |-> NoOne]
  /\ pendingIds = {} /\ pendingOrder = <<>> /\ isRegistered = FALSE
  /\ reading = (user = "sdk") /\ closing = FALSE
  /\ input = <<>> /\ inputClosed = FALSE /\ output = <<>>
  /\ scanner = "reading" /\ scanErr = FALSE /\ current = NoOne
  /\ bridge = IF user = "sdk" THEN "idle" ELSE "initial"
  /\ bridgeHandle = FALSE /\ stream = "none" /\ arrived = 0 /\ interrupted = FALSE
  /\ child = (IF user = "child" THEN "running" ELSE "none")
  /\ attach = (IF user = "child" THEN "selecting" ELSE "none")
  /\ queue = <<>> /\ executed = {} /\ gaveUp = FALSE
-----------------------------------------------------------------------------
(* The SDK *)

Raise(r) == future' = [future EXCEPT ![r] = "failed"]

\* A request.  Most need the agent to be registered.  A write to a bridge that
\* is gone fails, and leaves the entry in _pending; after close there is none.
send_command(r, k) ==
  /\ user = "sdk" /\ kind[r] = "none" /\ kind' = [kind EXCEPT ![r] = k]
  /\ IF (k = "register" /\ isRegistered) \/ (k \in SessionOps \union {"room"} /\ ~isRegistered)
        \/ (closing /\ bridge = "exited")
     THEN Raise(r) /\ UNCHANGED <<pendingIds, pendingOrder, input>>
     ELSE /\ pendingIds' = pendingIds \union {r} /\ pendingOrder' = Append(pendingOrder, r)
          /\ IF bridge = "exited" THEN Raise(r) ELSE future' = [future EXCEPT ![r] = "pending"]
          /\ input' = IF bridge = "exited" \/ inputClosed THEN input ELSE Append(input, r)
  /\ UNCHANGED <<user, answeredBy, isRegistered, reading, closing, inputClosed, output, loopVars,
                 attachVars, interrupted, gaveUp>>

\* The caller gives up on a request, for instance at a timeout of its own.
cancel(r) ==
  /\ future[r] = "pending" /\ future' = [future EXCEPT ![r] = "cancelled"]
  /\ pendingIds' = pendingIds \ {r} /\ gaveUp' = (gaveUp \/ kind[r] = "register")
  /\ UNCHANGED <<user, kind, answeredBy, pendingOrder, isRegistered, reading, closing, pipes,
                 loopVars, attachVars, interrupted>>

fail_pending ==
  /\ future' = [r \in Requests |-> IF r \in pendingIds /\ future[r] = "pending" THEN "died"
                                   ELSE future[r]]
  /\ pendingIds' = {} /\ pendingOrder' = <<>>

\* _pending_order without an id, which it holds once or not at all.
Without(r) ==
  IF r \notin Range(pendingOrder) THEN pendingOrder
  ELSE LET i == CHOOSE j \in DOMAIN pendingOrder : pendingOrder[j] = r
       IN [j \in 1..(Len(pendingOrder) - 1) |-> pendingOrder[IF j < i THEN j ELSE j + 1]]

\* Ids are taken from the front of _pending_order up to the first in _pending.
Awaited == {i \in DOMAIN pendingOrder : pendingOrder[i] \in pendingIds}
First   == CHOOSE i \in Awaited : \A j \in Awaited : i <= j
Oldest  == IF Awaited = {} THEN NoOne ELSE pendingOrder[First]
Later   == IF Awaited = {} THEN <<>> ELSE SubSeq(pendingOrder, First + 1, Len(pendingOrder))

\* A response completes the future with its id, or without an id the oldest one.
reader_loop ==
  /\ reading /\ output # <<>> /\ output' = Tail(output)
  /\ LET line == Head(output)
         r == IF line.id = NoOne THEN Oldest ELSE IF line.id \in pendingIds THEN line.id ELSE NoOne
     IN /\ pendingOrder' = IF line.message THEN pendingOrder
                           ELSE IF line.id = NoOne THEN Later ELSE Without(line.id)
        /\ IF line.message \/ r = NoOne
           THEN UNCHANGED <<future, answeredBy, pendingIds, isRegistered>>
           ELSE /\ future' = [future EXCEPT ![r] = IF line.ok THEN "done" ELSE "failed"]
                /\ answeredBy' = [answeredBy EXCEPT ![r] = line.of]
                /\ pendingIds' = pendingIds \ {r}
                /\ isRegistered' = (isRegistered \/ (line.ok /\ kind[r] = "register"))
  /\ UNCHANGED <<user, kind, reading, closing, input, inputClosed, loopVars, attachVars,
                 interrupted, gaveUp>>

\* Variant: the requests that wait are not told.
reader_eof_NoFail ==
  /\ reading /\ (output = <<>> \/ closing) /\ bridge = "exited" /\ reading' = FALSE
  /\ UNCHANGED <<user, kind, future, answeredBy, pendingIds, pendingOrder, isRegistered, closing,
                 pipes, loopVars, attachVars, interrupted, gaveUp>>

\* The end of the bridge's output, or close() cancels the reader.
reader_eof ==
  /\ reading /\ (output = <<>> \/ closing) /\ bridge = "exited" /\ reading' = FALSE /\ fail_pending
  /\ UNCHANGED <<user, kind, answeredBy, isRegistered, closing, pipes, loopVars, attachVars,
                 interrupted, gaveUp>>

\* close() closes the bridge's input and waits for it; stop_process ends a bridge
\* that does not end by itself.
close ==
  /\ user = "sdk" /\ ~closing /\ closing' = TRUE /\ inputClosed' = TRUE
  /\ UNCHANGED <<user, kind, future, answeredBy, pendingIds, pendingOrder, isRegistered, reading,
                 input, output, loopVars, attachVars, interrupted, gaveUp>>

stop_process ==
  /\ closing /\ bridge # "exited" /\ bridge' = "exited" /\ current' = NoOne
  /\ UNCHANGED <<user, kind, sdkVars, pipes, scanner, scanErr, bridgeHandle, stream, arrived,
                 executed, attachVars, interrupted, gaveUp>>
-----------------------------------------------------------------------------
(* The bridge: the goroutine that reads its input *)

Scan ==
  /\ scanner = "reading" /\ input # <<>> /\ input' = Tail(input) /\ scanner' = Head(input)
  /\ UNCHANGED scanErr

ScanEnd ==
  /\ scanner = "reading" /\ input = <<>> /\ inputClosed
  /\ scanner' = "eof" /\ scanErr' = TRUE /\ UNCHANGED input

\* It returns without a value for scanErrCh.
ScannerStops ==
  /\ scanner \in Requests /\ interrupted /\ scanner' = "gone" /\ UNCHANGED <<scanErr, input>>

Scanner ==
  /\ bridge # "exited" /\ user # "exec" /\ (Scan \/ ScanEnd \/ ScannerStops)
  /\ UNCHANGED <<user, kind, sdkVars, inputClosed, output, bridge, current, bridgeHandle, stream,
                 arrived, executed, attachVars, interrupted, gaveUp>>
-----------------------------------------------------------------------------
(* The bridge: commands *)

Line(r, ok) == [message |-> FALSE, id |-> r, of |-> r, ok |-> ok]
\* Variant: an error does not say which request it is for.
ErrorLine_NoId(r) == [message |-> FALSE, id |-> NoOne, of |-> r, ok |-> FALSE]
ErrorLine(r) == Line(r, FALSE)

Respond(r, ok) ==
  /\ output' = IF user # "sdk" THEN output
               ELSE Append(output, IF ok THEN Line(r, TRUE) ELSE ErrorLine(r))
  /\ executed' = executed \union {r} /\ current' = NoOne /\ bridge' = "idle"

\* The calls of a bridge whose context is done fail.
Outcomes == IF interrupted THEN {FALSE} ELSE BOOLEAN

\* Register, then Subscribe; each may fail.
RegisterCommand(r) ==
  /\ kind[r] = "register"
  /\ \E ok \in Outcomes :
       /\ Respond(r, ~bridgeHandle /\ ok) /\ bridgeHandle' = (bridgeHandle \/ ok)
       /\ stream' = IF ~bridgeHandle /\ ok THEN "live" ELSE stream

Registered(r) == \E ok \in Outcomes : Respond(r, bridgeHandle /\ ok)

SessionCommand(r) == kind[r] \in SessionOps /\ Registered(r) /\ UNCHANGED <<bridgeHandle, stream>>
RoomCommand(r)    == kind[r] = "room" /\ Registered(r) /\ UNCHANGED <<bridgeHandle, stream>>
QueryCommand(r)   ==
  kind[r] = "query" /\ (\E ok \in Outcomes : Respond(r, ok)) /\ UNCHANGED <<bridgeHandle, stream>>
UnknownCommand(r) == kind[r] = "unknown" /\ Respond(r, FALSE) /\ UNCHANGED <<bridgeHandle, stream>>

executeBridgeCommand ==
  /\ bridge = "executing" /\ user # "exec"
  /\ \/ RegisterCommand(current) \/ SessionCommand(current) \/ RoomCommand(current)
     \/ QueryCommand(current) \/ UnknownCommand(current)
  /\ UNCHANGED <<user, kind, sdkVars, input, inputClosed, scanner, scanErr, arrived, attachVars,
                 interrupted, gaveUp>>

\* attach first registers and joins rooms; a command that fails is the end.
InitialCommands ==
  /\ user = "child" /\ bridge = "initial"
  /\ \E ok \in Outcomes :
       /\ bridge' = (IF ok THEN "idle" ELSE "exited") /\ bridgeHandle' = ok
       /\ stream' = IF ok THEN "live" ELSE stream
  /\ UNCHANGED <<user, kind, sdkVars, pipes, scanner, scanErr, current, arrived, executed,
                 attachVars, interrupted, gaveUp>>
-----------------------------------------------------------------------------
(* The bridge: its main loop *)

TakeCommand ==
  /\ bridge = "idle" /\ scanner \in Requests
  /\ current' = scanner /\ bridge' = "executing" /\ scanner' = "reading"

\* cmdCh is closed: the error of the scanner is awaited.
InputEnded == bridge = "idle" /\ scanner \in {"eof", "gone"} /\ bridge' = "waiting" /\ UNCHANGED <<scanner, current>>
ScanError  == bridge = "waiting" /\ scanErr /\ bridge' = "exited" /\ UNCHANGED <<scanner, current>>
Stops      == bridge = "idle" /\ interrupted /\ bridge' = "exited" /\ UNCHANGED <<scanner, current>>

runBridge ==
  /\ user # "exec" /\ (TakeCommand \/ InputEnded \/ ScanError \/ Stops)
  /\ UNCHANGED <<user, kind, sdkVars, pipes, scanErr, bridgeHandle, stream, arrived, executed,
                 attachVars, interrupted, gaveUp>>

\* The goroutine of the subscription writes what arrives.
startBridgeSubscription ==
  /\ user # "exec" /\ bridge # "exited" /\ stream = "live" /\ ~interrupted /\ arrived < MaxMessages
  /\ arrived' = arrived + 1
  /\ output' = IF user # "sdk" THEN output
               ELSE Append(output, [message |-> TRUE, id |-> NoOne, of |-> NoOne, ok |-> TRUE])
  /\ UNCHANGED <<user, kind, sdkVars, input, inputClosed, scanner, scanErr, bridge, current,
                 bridgeHandle, stream, executed, attachVars, interrupted, gaveUp>>

\* The daemon is gone.  The goroutine ends; nothing subscribes again.
StreamFails ==
  /\ stream = "live" /\ bridge # "exited" /\ stream' = "broken"
  /\ UNCHANGED <<user, kind, sdkVars, pipes, scanner, scanErr, bridge, current, bridgeHandle,
                 arrived, executed, attachVars, interrupted, gaveUp>>

Interrupt ==
  /\ ~interrupted /\ bridge # "exited" /\ interrupted' = TRUE
  /\ UNCHANGED <<user, kind, sdkVars, pipes, loopVars, attachVars, gaveUp>>
-----------------------------------------------------------------------------
(* attach with a child *)

ChildWrites(r, k) ==
  /\ child = "running" /\ kind[r] = "none"
  /\ kind' = [kind EXCEPT ![r] = k] /\ input' = Append(input, r)
  /\ UNCHANGED <<user, sdkVars, inputClosed, output, loopVars, attachVars, interrupted, gaveUp>>

ChildEnds ==
  /\ child = "running" /\ child' = "ended" /\ inputClosed' = TRUE
  /\ UNCHANGED <<user, kind, sdkVars, input, output, loopVars, attach, queue, interrupted,
                 gaveUp>>

\* Wait closes the pipe the scanner reads from: what it has not read is lost.
Wait ==
  /\ child = "ended" /\ child' = "waited" /\ input' = <<>>
  /\ UNCHANGED <<user, kind, sdkVars, inputClosed, output, loopVars, attach, queue,
                 interrupted, gaveUp>>

\* When one of the bridge and the child ends, the other is stopped and awaited.
runAttach ==
  /\ \/ /\ attach = "selecting" /\ interrupted' = TRUE
        /\ \/ bridge = "exited" /\ attach' = "waitChild"
           \/ child = "waited" /\ attach' = "waitBridge"
     \/ /\ UNCHANGED interrupted /\ attach' = "returned"
        /\ \/ attach = "waitChild" /\ child = "waited"
           \/ attach = "waitBridge" /\ bridge = "exited"
  /\ UNCHANGED <<user, kind, sdkVars, pipes, loopVars, child, queue, gaveUp>>
-----------------------------------------------------------------------------
(* attach with a command for each session: bridge and current are its state *)

\* Register, JoinRoom for each room, which may fail, and Subscribe.
ExecStart ==
  /\ user = "exec" /\ bridge = "initial"
  /\ \E ok \in Outcomes :
       /\ bridge' = (IF ok THEN "idle" ELSE "exited") /\ bridgeHandle' = ok
       /\ stream' = IF ok THEN "live" ELSE stream
  /\ UNCHANGED <<user, kind, sdkVars, pipes, scanner, scanErr, current, arrived, executed,
                 attachVars, interrupted, gaveUp>>

\* What the subscription brings: session opens, and messages of other kinds.
Arrives(r, k) ==
  /\ user = "exec" /\ stream = "live" /\ bridge # "exited" /\ kind[r] = "none"
  /\ kind' = [kind EXCEPT ![r] = k] /\ queue' = Append(queue, r)
  /\ UNCHANGED <<user, sdkVars, pipes, loopVars, child, attach, interrupted, gaveUp>>

\* Recv: only a session open is handled; an error is the end.
runExecAttach ==
  /\ user = "exec" /\ bridge = "idle"
  /\ \/ /\ queue # <<>> /\ queue' = Tail(queue)
        /\ IF kind[Head(queue)] = "open"
           THEN bridge' = "executing" /\ current' = Head(queue)
           ELSE UNCHANGED <<bridge, current>>
     \/ /\ interrupted \/ (stream = "broken" /\ queue = <<>>)
        /\ bridge' = "exited" /\ UNCHANGED <<queue, current>>
  /\ UNCHANGED <<user, kind, sdkVars, pipes, scanner, scanErr, bridgeHandle, stream, arrived,
                 executed, child, attach, interrupted, gaveUp>>

\* The command ends, with its output, an error or at its timeout, and the session
\* is resolved with what there is; if that call fails, this is logged.
execCommand ==
  /\ user = "exec" /\ bridge = "executing" /\ bridge' = "idle" /\ current' = NoOne
  /\ executed' = executed \union {current}
  /\ UNCHANGED <<user, kind, sdkVars, pipes, scanner, scanErr, bridgeHandle, stream, arrived,
                 attachVars, interrupted, gaveUp>>
-----------------------------------------------------------------------------
Loop   == executeBridgeCommand \/ runBridge \/ InitialCommands
Reader == reader_loop \/ reader_eof
Exec   == ExecStart \/ runExecAttach \/ execCommand

BridgeNext ==
  \/ \E r \in Requests : \/ \E k \in CommandKinds : send_command(r, k) \/ ChildWrites(r, k)
                         \/ \E k \in {"open", "message"} : Arrives(r, k)
                         \/ cancel(r)
  \/ Reader \/ close \/ stop_process \/ Scanner \/ Loop \/ startBridgeSubscription
  \/ StreamFails \/ Interrupt \/ ChildEnds \/ Wait \/ runAttach \/ Exec

\* Goroutines run, the daemon answers or the call fails, and a program whose
\* context is done is killed (exec.CommandContext).
BridgeFairness ==
  /\ WF_bridgeVars(Scanner) /\ WF_bridgeVars(Loop) /\ WF_bridgeVars(Reader)
  /\ WF_bridgeVars(stop_process) /\ WF_bridgeVars(runAttach) /\ WF_bridgeVars(Exec)
  /\ WF_bridgeVars(interrupted /\ ChildEnds) /\ WF_bridgeVars(Wait)

BridgeSpec == BridgeInit /\ [][BridgeNext]_bridgeVars /\ BridgeFairness
-----------------------------------------------------------------------------
\* The main loop waits for an error of the scanner, which has returned without one.
Hangs == bridge = "waiting" /\ scanner = "gone"

\* Every variable has its type, and every request that waits for a response is
\* where a response without an id would look for it.
BridgeTypeOK ==
  /\ user \in {"sdk", "child", "exec"} /\ kind \in [Requests -> CommandKinds \union {"none", "message"}]
  /\ future \in [Requests -> {"none", "pending", "done", "failed", "died", "cancelled"}]
  /\ scanner \in Requests \union {"reading", "eof", "gone"}
  /\ bridge \in {"initial", "idle", "executing", "waiting", "exited"}
  /\ (bridge = "executing") = (current # NoOne) /\ current \in Requests \union {NoOne}
  /\ stream \in {"none", "live", "broken"} /\ arrived \in 0..MaxMessages
  /\ pendingIds \subseteq Range(pendingOrder)
  /\ \A r \in Requests : future[r] = "pending" => r \in pendingIds

\* A request gets the response to itself, although requests are cancelled while
\* their responses are on the way (_reader_loop and the ids of the bridge).
OwnResponse == \A r \in Requests : answeredBy[r] \in {r, NoOne}

\* The SDK and the bridge agree on whether the agent is registered, except while
\* a request to register is under way and after one was given up; and a bridge
\* with a handle has subscribed.
RegisterAgrees ==
  /\ bridgeHandle => stream # "none"
  /\ isRegistered => bridgeHandle
  /\ user = "sdk" /\ bridgeHandle /\ bridge # "exited" => 
       isRegistered \/ gaveUp \/ \E r \in Requests : kind[r] = "register" /\ future[r] = "pending"

\* A line that attach's child has written is executed or will be, unless the
\* child has ended or the user has interrupted attach.
LinesAreExecuted ==
  user = "child" => \A r \in Requests : kind[r] # "none" =>
    r \in executed \union Range(input) \union {scanner, current} \/ child = "waited" \/ interrupted
    \/ bridge = "exited"

\* A request of the SDK ends: with a response, or because the bridge has died,
\* unless the bridge hangs (_fail_pending).
RequestsEnd == \A r \in Requests : future[r] = "pending" ~> (future[r] # "pending" \/ Hangs)

\* A session that was opened is resolved, also when its command fails, unless attach ends first.
ExecAnswers ==
  \A r \in Requests : (user = "exec" /\ kind[r] = "open") ~> (r \in executed \/ bridge = "exited")

\* attach returns when its child or its bridge has ended, and leaves neither
\* running, unless the bridge hangs.
AttachEnds ==
  (child = "waited" \/ (user = "child" /\ bridge = "exited")) ~>
    (Hangs \/ (attach = "returned" /\ child = "waited" /\ bridge = "exited"))

\* The two ends of a bridge agree on requests, responses, the registration and
\* the lines under way, although either end may give up or die (runBridge).
BridgeAgrees == BridgeTypeOK /\ OwnResponse /\ RegisterAgrees /\ LinesAreExecuted

\* Whoever waits for the bridge, its commands or its child is answered, or told
\* that it is gone, unless the bridge hangs (runBridge, runAttach).
BridgeEnds == RequestsEnd /\ ExecAnswers /\ AttachEnds
=============================================================================
