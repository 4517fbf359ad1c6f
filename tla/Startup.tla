------------------------------ MODULE Startup --------------------------------
(***************************************************************************)
(* tailbusd processes on one machine, started with the same configuration  *)
(* by `tailbus up`, by a service manager or by hand, and stopped by        *)
(* `tailbus stop`, by a signal or by a crash.                              *)
(*                                                                         *)
(* They share a key file, the message database, the P2P port, the agent    *)
(* socket and its token file.  The database is locked with flock on the    *)
(* file that was opened, which may no longer be the one at its path; a     *)
(* lock goes away with the process that holds it.  Processes are numbered  *)
(* in the order in which they start; a process that generates a key, a     *)
(* token or a database lends it its number.                                *)
(***************************************************************************)
EXTENDS Naturals, Sequences

CONSTANTS
  MaxStarts,   \* bound: processes started
  MaxStops,    \* bound: stops, signals and crashes
  MaxRecords   \* bound: records stored

ASSUME StartupAssumption == MaxStarts \in Nat \ {0} /\ MaxStops \in Nat /\ MaxRecords \in Nat

Starts == 1..MaxStarts
Cut    == MaxStarts + 1   \* a file that has been created and not yet written

VARIABLES
  keyFile,   \* the key file: the process that generated the key, 0 without a file
  dbPath,    \* the database at the path, 0 without one
  records,   \* what each database ever created holds
  token,     \* the token file: the process that wrote it, 0 without one
  socket,    \* the process that bound the socket last, 0 when it was unlinked
  daemon,      \* the processes
  stops,     \* stops, signals and crashes so far
  stored,    \* history: the records stored
  blind,     \* history: the lock was held and no daemon answered on the socket
  overlap,   \* history: a process started while another was alive
  torn,      \* history: a process died while it wrote the key file
  untidy     \* history: a stop timed out, or came before the agent server listened

startFiles == <<keyFile, dbPath, records, token, socket>>
startHist  == <<stored, blind, overlap, torn, untidy>>
startVars  == <<startFiles, daemon, stops, startHist>>

\* pc: where main, New and Run are; srv: where the goroutine of ServeUnix is.
Off    == [pc |-> "off", key |-> 0, db |-> 0, locked |-> FALSE, retry |-> FALSE,
           port |-> FALSE, srv |-> "off", cancelled |-> FALSE, stream |-> FALSE,
           late |-> FALSE]
Exited == [Off EXCEPT !.pc = "exit"]

InNew   == {"new", "key", "write", "open", "lock", "probe", "remove"}
InRun   == {"auth", "register", "serve", "drain", "close", "release"}
Live(p) == daemon[p].pc \in InNew \union InRun

Holds(d) == {p \in Starts : daemon[p].locked /\ daemon[p].db = d}

\* isDaemonAlive and isDaemonRunning: someone accepts at the socket's path.
isDaemonAlive == socket # 0 /\ daemon[socket].srv = "listen"

StartInit ==
  /\ keyFile = 0 /\ dbPath = 0 /\ records = <<>> /\ token = 0 /\ socket = 0
  /\ daemon = [p \in Starts |-> Off]
  /\ stops = 0 /\ stored = {} /\ blind = FALSE /\ overlap = FALSE /\ torn = FALSE /\ untidy = FALSE

Is(p, pc)      == daemon[p].pc = pc
Goes(p, next)  == daemon' = [daemon EXCEPT ![p] = next]
To(p, pc)      == Goes(p, [daemon[p] EXCEPT !.pc = pc])
-----------------------------------------------------------------------------
\* tailbusd's main: the process runs New.  Flags and the configuration file
\* are the same for every process.
Spawn(p) ==
  /\ Is(p, "off") /\ \A q \in 1..(p - 1) : ~Is(q, "off")
  /\ To(p, "new")
  /\ overlap' = (overlap \/ \E q \in Starts : Live(q))

\* By hand or by a service manager.
Start(p) ==
  /\ Spawn(p)
  /\ UNCHANGED <<stops, startFiles, stored, blind, torn, untidy>>

\* tailbus up: nothing if a daemon answers, else tailbusd is started with the
\* mesh token that was saved, made or given.  The command then waits six seconds
\* for a daemon to answer, whichever it is; the process goes on after that.
runUp(p) == ~isDaemonAlive /\ Start(p)
-----------------------------------------------------------------------------
\* New: LoadOrGenerate.  An empty or partial file is an error.
LoadOrGenerate(p) ==
  /\ Is(p, "new")
  /\ Goes(p, IF keyFile = 0 THEN [daemon[p] EXCEPT !.pc = "key"]
             ELSE IF keyFile = Cut THEN Exited
             ELSE [daemon[p] EXCEPT !.pc = "open", !.key = keyFile])
  /\ UNCHANGED <<stops, startFiles, startHist>>

\* SavePrivateKey: os.WriteFile creates or truncates the file, then writes.
SavePrivateKey(p) ==
  /\ \/ Is(p, "key") /\ keyFile' = Cut /\ To(p, "write")
     \/ Is(p, "write") /\ keyFile' = p /\ Goes(p, [daemon[p] EXCEPT !.pc = "open", !.key = p])
  /\ UNCHANGED <<stops, dbPath, records, token, socket, startHist>>

\* NewMessageStore: bolt.Open opens the file at the path, or creates it.
NewMessageStore(p) ==
  /\ Is(p, "open")
  /\ IF dbPath = 0 THEN /\ records' = Append(records, {})
                        /\ dbPath' = Len(records) + 1
     ELSE UNCHANGED <<records, dbPath>>
  /\ Goes(p, [daemon[p] EXCEPT !.pc = "lock", !.db = dbPath'])
  /\ UNCHANGED <<stops, keyFile, token, socket, startHist>>

\* flock succeeds once nobody else holds this file; bolt.Open waits a second.  Run
\* then restores sessions and pending messages (see Sessions and Delivery), starts
\* the loops and resolves the token.
Lock(p) ==
  /\ Is(p, "lock")
  /\ IF Holds(daemon[p].db) = {} THEN Goes(p, [daemon[p] EXCEPT !.pc = "auth", !.locked = TRUE])
     ELSE Goes(p, IF daemon[p].retry THEN Exited ELSE [daemon[p] EXCEPT !.pc = "probe", !.db = 0])
  /\ UNCHANGED <<stops, startFiles, startHist>>

\* Variant: the socket is not looked at.
Probe_Skipped(p) ==
  /\ Is(p, "probe") /\ To(p, "remove")
  /\ blind' = (blind \/ ~isDaemonAlive)
  /\ UNCHANGED <<stops, startFiles, stored, overlap, torn, untidy>>

\* New, after a lock timeout: a daemon that answers is running already.
Probe(p) ==
  /\ Is(p, "probe")
  /\ IF isDaemonAlive THEN Goes(p, Exited) /\ UNCHANGED blind
     ELSE To(p, "remove") /\ blind' = TRUE
  /\ UNCHANGED <<stops, startFiles, stored, overlap, torn, untidy>>

\* os.Remove of the database: the file that another process holds stays with
\* that process.  A path without a file is an error.
Remove(p) ==
  /\ Is(p, "remove") /\ dbPath' = 0
  /\ Goes(p, IF dbPath = 0 THEN Exited ELSE [daemon[p] EXCEPT !.pc = "open", !.retry = TRUE])
  /\ UNCHANGED <<stops, keyFile, records, token, socket, startHist>>
-----------------------------------------------------------------------------
\* A token, or none; or the login fails, and with it Run.
ResolveAuth(p) ==
  /\ Is(p, "auth") /\ ~daemon[p].cancelled
  /\ To(p, "register") \/ Goes(p, Exited)
  /\ UNCHANGED <<stops, startFiles, startHist>>

\* retryWithBackoff: until coord accepts, or until the context is cancelled.
retryWithBackoff(p, next) ==
  IF daemon[p].cancelled THEN Goes(p, Exited) ELSE Goes(p, next)

\* net.Listen on the P2P port fails while another process listens on it.
ListenP2P(p, next) == IF \E q \in Starts : daemon[q].port THEN Exited ELSE next

\* registerWithRetry, then the P2P listener and the goroutines: the agent
\* server, WatchPeerMap, Heartbeat, the metrics and the gateways.
registerWithRetry(p) ==
  /\ Is(p, "register")
  /\ retryWithBackoff(p, ListenP2P(p, [daemon[p] EXCEPT !.pc = "serve", !.port = TRUE,
                                                        !.srv = "remove"]))
  /\ UNCHANGED <<stops, startFiles, startHist>>

\* PollForToken returns when the context is cancelled.
AuthCancelled(p) ==
  /\ Is(p, "auth") /\ daemon[p].cancelled /\ Goes(p, Exited)
  /\ UNCHANGED <<stops, startFiles, startHist>>

\* Variant: the token of an earlier start is left in place.
ServeUnix_NoToken(p) ==
  /\ \/ /\ daemon[p].srv = "remove" /\ socket' = 0
        /\ Goes(p, [daemon[p] EXCEPT !.srv = "bind"])
     \/ /\ daemon[p].srv = "bind" /\ socket' = p
        /\ Goes(p, [daemon[p] EXCEPT !.srv = "listen"])
  /\ UNCHANGED <<stops, keyFile, dbPath, records, token, startHist>>

\* The goroutine of ServeUnix: it removes the socket, writes a new token and
\* listens.  A path that is bound meanwhile is an error, which is only logged;
\* once the server has been stopped the listener is closed at once.
ServeUnix(p) ==
  /\ \/ /\ daemon[p].srv = "remove" /\ socket' = 0 /\ UNCHANGED token
        /\ Goes(p, [daemon[p] EXCEPT !.srv = "token"])
     \/ /\ daemon[p].srv = "token" /\ token' = p /\ UNCHANGED socket
        /\ Goes(p, [daemon[p] EXCEPT !.srv = "bind"])
     \/ /\ daemon[p].srv = "bind" /\ UNCHANGED token
        /\ IF socket = 0 /\ Is(p, "serve")
           THEN socket' = p /\ Goes(p, [daemon[p] EXCEPT !.srv = "listen"])
           ELSE UNCHANGED socket /\ Goes(p, [daemon[p] EXCEPT !.srv = "stopped"])
  /\ UNCHANGED <<stops, keyFile, dbPath, records, startHist>>

\* An agent opens a streaming call (Subscribe, WatchActivity).
Stream(p) ==
  /\ daemon[p].srv = "listen" /\ ~daemon[p].stream
  /\ Goes(p, [daemon[p] EXCEPT !.stream = TRUE])
  /\ UNCHANGED <<stops, startFiles, startHist>>

\* The running daemon writes a record: to the file it has open.
Store(p) ==
  /\ Is(p, "serve")
  /\ \E r \in 1..MaxRecords \ stored :
       /\ \A q \in 1..(r - 1) : q \in stored
       /\ stored' = stored \union {r}
       /\ records' = [records EXCEPT ![daemon[p].db] = @ \union {r}]
  /\ UNCHANGED <<stops, keyFile, dbPath, token, socket, daemon, blind, overlap, torn, untidy>>
-----------------------------------------------------------------------------
\* tailbus stop reads the token file and calls Shutdown, which cancels Run's
\* context.
Shutdown(p) ==
  /\ stops < MaxStops /\ stops' = stops + 1
  /\ daemon[p].srv = "listen" /\ socket = p /\ token = p /\ ~daemon[p].cancelled
  /\ Goes(p, [daemon[p] EXCEPT !.cancelled = TRUE])
  /\ UNCHANGED <<startFiles, startHist>>

\* SIGINT or SIGTERM: main cancels the context from Run on; before that the
\* process dies, as it does from a crash at any time.  The kernel closes what
\* it had open; the socket and the token file stay.
Signal(p) ==
  /\ stops < MaxStops /\ stops' = stops + 1
  /\ Live(p) /\ ~daemon[p].cancelled
  /\ Goes(p, IF daemon[p].pc \in InRun THEN [daemon[p] EXCEPT !.cancelled = TRUE] ELSE Exited)
  /\ torn' = (torn \/ Is(p, "write"))
  /\ UNCHANGED <<startFiles, stored, blind, overlap, untidy>>

ProcessDies(p) ==
  /\ stops < MaxStops /\ stops' = stops + 1
  /\ daemon[p].pc \in InRun /\ Goes(p, Exited)
  /\ UNCHANGED <<startFiles, startHist>>

\* Run after <-innerCtx.Done(): GracefulStop closes the listener, which unlinks
\* the socket's path, and waits for the calls.
GracefulStop(p) ==
  /\ Is(p, "serve") /\ daemon[p].cancelled
  /\ IF daemon[p].srv = "listen"
     THEN /\ socket' = 0 /\ UNCHANGED untidy
          /\ Goes(p, [daemon[p] EXCEPT !.pc = "drain", !.srv = "stopped"])
     ELSE UNCHANGED socket /\ To(p, "drain") /\ untidy' = TRUE
  /\ UNCHANGED <<stops, keyFile, dbPath, records, token, stored, blind, overlap, torn>>

\* GracefulStop and ForceStop remove the token file if a token was written.
RemoveToken(p) == token' = IF daemon[p].srv \in {"bind", "stopped"} THEN 0 ELSE token

\* The calls have ended; or three seconds are over, ForceStop ends them, and
\* the goroutine of GracefulStop will remove the token file as well.
Drained(p) ==
  /\ Is(p, "drain") /\ RemoveToken(p)
  /\ \/ ~daemon[p].stream /\ To(p, "close") /\ UNCHANGED untidy
     \/ /\ Goes(p, [daemon[p] EXCEPT !.pc = "close", !.stream = FALSE, !.late = TRUE])
        /\ untidy' = TRUE
  /\ UNCHANGED <<stops, keyFile, dbPath, records, socket, stored, blind, overlap, torn>>

LateRemove(p) ==
  /\ daemon[p].late /\ RemoveToken(p)
  /\ Goes(p, [daemon[p] EXCEPT !.late = FALSE])
  /\ UNCHANGED <<stops, keyFile, dbPath, records, socket, startHist>>

\* transport.Close frees the port; msgStore.Close the lock; main returns.
Close(p) ==
  /\ \/ Is(p, "close") /\ Goes(p, [daemon[p] EXCEPT !.pc = "release", !.port = FALSE])
     \/ Is(p, "release") /\ daemon[p].locked /\ Goes(p, [daemon[p] EXCEPT !.locked = FALSE])
     \/ Is(p, "release") /\ ~daemon[p].locked /\ Goes(p, Exited)
  /\ UNCHANGED <<stops, startFiles, startHist>>
-----------------------------------------------------------------------------
New(p) ==
  \/ LoadOrGenerate(p) \/ SavePrivateKey(p) \/ NewMessageStore(p) \/ Lock(p)
  \/ Probe(p) \/ Remove(p)

Stop(p) ==
  \/ AuthCancelled(p) \/ (daemon[p].cancelled /\ registerWithRetry(p))
  \/ GracefulStop(p) \/ Drained(p) \/ Close(p)

StartNext ==
  \E p \in Starts :
       \/ Start(p) \/ runUp(p) \/ New(p)
       \/ ResolveAuth(p) \/ registerWithRetry(p) \/ ServeUnix(p)
       \/ Stream(p) \/ Store(p)
       \/ Shutdown(p) \/ Signal(p) \/ ProcessDies(p)
       \/ AuthCancelled(p) \/ GracefulStop(p) \/ Drained(p) \/ LateRemove(p) \/ Close(p)

\* New and Run go on by themselves; nobody has to log in, coord need not
\* answer, and a call need not end.
StartFairness ==
  \A p \in Starts : WF_startVars(New(p)) /\ WF_startVars(Stop(p))

StartSpec == StartInit /\ [][StartNext]_startVars /\ StartFairness
-----------------------------------------------------------------------------
\* Every variable has its type; a process that holds the lock has the file
\* open, and no two hold the lock of one file.
StartTypeOK ==
  /\ keyFile \in 0..Cut /\ dbPath \in 0..Len(records) /\ token \in 0..MaxStarts
  /\ socket \in 0..MaxStarts /\ stops \in 0..MaxStops
  /\ records \in Seq(SUBSET (1..MaxRecords)) /\ stored \in SUBSET (1..MaxRecords)
  /\ \A p \in Starts :
       /\ daemon[p].key \in 0..MaxStarts
       /\ daemon[p].locked => daemon[p].db \in 1..Len(records) /\ Holds(daemon[p].db) = {p}

\* The socket's path leads to the daemon that listens on it: no other process
\* unlinks or rebinds it meanwhile (ServeUnix and GracefulStop do both without
\* looking).  It is the P2P port, taken before and freed after, that sees to it,
\* except for a ServeUnix that is still to run when its daemon has stopped.
Reachable == \A p \in Starts : daemon[p].srv = "listen" => socket = p \/ untidy

\* Whoever reaches the socket finds the token of the daemon behind it in the
\* token file, which ServeUnix writes before it listens.  Only a stop that
\* timed out, or came before that, can remove the file of a later daemon.
TokenMatches == isDaemonAlive => token = socket \/ untidy

\* As long as no two processes overlap, a daemon runs with the key that is in
\* the key file, so that it has it again after a restart (LoadOrGenerate).
KeyAgrees ==
  \A p \in Starts : daemon[p].pc \in InRun => keyFile = daemon[p].key \/ overlap

\* The key file is whole unless it is being written or a process died writing
\* it; from then on every start fails (LoadPrivateKey).
KeyIsWhole == keyFile = Cut => torn \/ \E p \in Starts : Is(p, "write")

\* What daemons have stored is in the database at the path, where the next
\* start finds it, across any stops and crashes, unless a start met a locked
\* database and no answer on the socket (New).
RecordsKept == stored # {} => blind \/ (dbPath # 0 /\ stored \subseteq records[dbPath])

\* A database is removed only when its lock is stale: no process that is alive
\* holds it ("Stale lock from a crashed process", New).
StaleLockOnly == [][dbPath # 0 /\ dbPath' = 0 => Holds(dbPath) = {}]_startVars

\* New comes to a decision, whatever the processes that hold the lock do.
StartDecides == \A p \in Starts : daemon[p].pc \in InNew ~> daemon[p].pc \notin InNew

\* A daemon that is asked to stop does: during the login, the registration, or
\* with calls open that never end (Run).
StopEnds == \A p \in Starts : daemon[p].cancelled ~> Is(p, "exit")

\* The files a daemon shares with its clients and its next start are its own:
\* socket, token and key (ServeUnix, GracefulStop, LoadOrGenerate).
FilesAgree == StartTypeOK /\ Reachable /\ TokenMatches /\ KeyAgrees /\ KeyIsWhole
=============================================================================
