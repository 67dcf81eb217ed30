-------------------------- MODULE MessageScheduler --------------------------
(***************************************************************************)
(* The frontend's message scheduler (communication/MessageScheduler.ts):   *)
(* one web socket, the promises of the requests sent through it and the    *)
(* timers that reconnect, driven by the commands of the VS Code extension  *)
(* that restart the shell or connect to another one (extension.ts,         *)
(* MySQLShellLauncher.ts).                                                 *)
(*                                                                         *)
(* The extension host runs one handler at a time, so every handler is one  *)
(* action, and code after an await is another one. Shells and the commands *)
(* that ask for them have the same numbers; socket numbers are slots,      *)
(* reused once a socket is closed. A URL is the shell at its port, or None *)
(* when it was put together with the token of another shell: no shell      *)
(* accepts it.                                                             *)
(***************************************************************************)
EXTENDS Integers, FiniteSets

CONSTANTS
    Requests,      \* requests the application sends, each with a fresh id
    WithCallback,  \* those sent with an onData callback
    MaxShells,     \* shells the extension ever connects to
    External,      \* those that are given as an URL instead of started
    MaxData,       \* bound: data responses of one request
    MaxLosses      \* bound: connections lost or refused, shells that crash

ASSUME SchedulerAssumption ==
    /\ MaxShells \in Nat \ {0}
    /\ MaxData \in Nat
    /\ MaxLosses \in Nat
    /\ External \subseteq 1..MaxShells
    /\ WithCallback \subseteq Requests

Shells == 1..MaxShells
Sockets == 1..MaxShells
None == 0

VARIABLES
    \* the shells and the launcher
    process,       \* what became of each shell
    killed,        \* shells that exitProcess killed and listens to
    proc,          \* the launcher's shellProcess, or None
    token,         \* the shell whose token is in launchDetails
    asked,         \* the last command: the shell the user asked for last
    awaits,        \* the process whose end a command awaits
    resumed,       \* commands whose await ended
    latest,        \* the shell of the last command that went on
    awaiting,      \* sockets whose connect promise the launcher waits for
    \* the scheduler
    socket,        \* this.socket
    ready,         \* readyState of each socket
    goal,          \* the URL each socket was created for
    greeted,       \* sockets that delivered their web session data
    disconnecting,
    timer,         \* this.reconnectTimer with the options it is bound to
    loose,         \* armed timers that were overwritten without being cleared
    session,       \* the socket the data in webSession came from
    \* the requests
    promise,       \* what the caller of sendRequest sees
    ongoing,       \* this.ongoingRequests
    via,           \* the socket a request went through, until it closes
    emitted,       \* data responses the backend sent
    received,      \* data responses pushed or given to the callback
    running,       \* callbacks in progress
    ending,        \* the last response, on its way or delivered
    losses

commandVars == <<asked, awaits, resumed, latest>>
shellVars == <<process, killed, proc, token, commandVars, awaiting>>
socketVars == <<socket, ready, goal, greeted, disconnecting>>
timerVars == <<timer, loose>>
requestVars == <<promise, ongoing, via, emitted, received, running, ending>>
vars == <<shellVars, socketVars, timerVars, session, requestVars, losses>>

Live == {"connecting", "open"}
Endings == {"final", "error", "cancel", "end"}
NoTimer == [state |-> "null", goal |-> None]
Armed(g) == [state |-> "armed", goal |-> g]

URLs == {None} \cup Shells
Runs == {"starting", "up"}
up == {g \in Shells : process[g] = "up"}

TypeOK ==
    /\ process \in [Shells -> Runs \cup {"none", "checking", "ended"}]
    /\ killed \subseteq Shells /\ proc \in {None} \cup Shells
    /\ token \in {None} \cup Shells
    /\ asked \in Shells /\ awaits \in [Shells -> {None} \cup Shells]
    /\ resumed \subseteq Shells /\ latest \in Shells
    /\ awaiting \subseteq Sockets
    /\ socket \in {None} \cup Sockets
    /\ ready \in [Sockets -> Live \cup {"closing", "aborting", "closed"}]
    /\ goal \in [Sockets -> URLs]
    /\ greeted \subseteq Sockets /\ disconnecting \in BOOLEAN
    /\ timer \in {NoTimer} \cup [state : {"armed", "fired"}, goal : URLs]
    /\ loose \in [URLs -> Nat]
    /\ session \in {None} \cup Sockets
    /\ promise \in [Requests -> {"new", "pending", "resolved", "rejected"}]
    /\ ongoing \subseteq Requests
    /\ via \in [Requests -> {None} \cup Sockets]
    /\ emitted \in [Requests -> 0..MaxData]
    /\ received \in [Requests -> 0..MaxData]
    /\ running \in [Requests -> Nat]
    /\ ending \in [Requests -> {"none", "delivered"} \cup Endings]
    /\ losses \in 0..MaxLosses

(* The extension was activated: its first shell runs and the launcher is   *)
(* connecting to it.                                                       *)
Init ==
    /\ process = [g \in Shells |-> IF g \in {1} \cup External THEN "up" ELSE "none"]
    /\ killed = {}
    /\ proc = IF 1 \in External THEN None ELSE 1
    /\ token = proc
    /\ asked = 1
    /\ awaits = [g \in Shells |-> None]
    /\ resumed = {}
    /\ latest = 1
    /\ awaiting = {1}
    /\ socket = 1
    /\ ready = [s \in Sockets |-> IF s = 1 THEN "connecting" ELSE "closed"]
    /\ goal = [s \in Sockets |-> 1]
    /\ greeted = {}
    /\ disconnecting = FALSE
    /\ timer = NoTimer
    /\ loose = [g \in URLs |-> 0]
    /\ session = None
    /\ promise = [r \in Requests |-> "new"]
    /\ ongoing = {}
    /\ via = [r \in Requests |-> None]
    /\ emitted = [r \in Requests |-> 0]
    /\ received = [r \in Requests |-> 0]
    /\ running = [r \in Requests |-> 0]
    /\ ending = [r \in Requests |-> "none"]
    /\ losses = 0

-----------------------------------------------------------------------------
(* connect and disconnect                                                  *)

\* Mutant of Connected: a socket that is opening is not noticed.
ConnectedWhenOpen == socket # None /\ ready[socket] = "open"

Connected == socket # None /\ ready[socket] \in Live

(* A slot for a new socket: a closed one, the current one included.        *)
FreeSlot == CHOOSE s \in Sockets : ready[s] = "closed"
CanCreate == \E s \in Sockets : ready[s] = "closed"

\* Mutant of Connect: the scheduler is still disconnecting afterwards.
ConnectStillDisconnecting(g) ==
    /\ UNCHANGED disconnecting
    /\ IF Connected
       THEN UNCHANGED <<socket, ready, goal, greeted>>
       ELSE /\ CanCreate
            /\ socket' = FreeSlot
            /\ ready' = [ready EXCEPT ![FreeSlot] = "connecting"]
            /\ goal' = [goal EXCEPT ![FreeSlot] = g]
            /\ greeted' = greeted \ {FreeSlot}

(* What connect does; it resolves at once when a socket is open or opening,*)
(* whatever shell that socket is for.                                      *)
Connect(g) ==
    /\ disconnecting' = FALSE
    /\ IF Connected
       THEN UNCHANGED <<socket, ready, goal, greeted>>
       ELSE /\ CanCreate
            /\ socket' = FreeSlot
            /\ ready' = [ready EXCEPT ![FreeSlot] = "connecting"]
            /\ goal' = [goal EXCEPT ![FreeSlot] = g]
            /\ greeted' = greeted \ {FreeSlot}

(* The launcher's connect(...).then(...): what it does when it resolves is *)
(* to keep the token of an URL that was given.                             *)
Announces(g) == token' = IF g \in External THEN g ELSE token

LauncherConnects(g) ==
    /\ Connect(g)
    /\ IF Connected
       THEN Announces(g) /\ awaiting' = awaiting
       ELSE token' = token /\ awaiting' = awaiting \cup {FreeSlot}

(* Nothing more arrives for the requests on socket s: they stay in the map *)
(* and their promises stay pending.                                        *)
Forsake(s) ==
    /\ via' = [r \in Requests |-> IF via[r] = s THEN None ELSE via[r]]
    /\ UNCHANGED <<promise, ongoing, emitted, received, running, ending>>

(* disconnect: the timer is left alone. close() on a socket that is still  *)
(* opening makes it fail; an open one delivers what the shell sends until  *)
(* the closing handshake ends (the ws sockets of the extension do).        *)
Disconnect ==
    IF socket = None
    THEN UNCHANGED socketVars
    ELSE /\ disconnecting' = TRUE
         /\ ready' = [ready EXCEPT ![socket] =
                         CASE @ = "open" -> "closing"
                           [] @ = "connecting" -> "aborting"
                           [] OTHER -> @]
         /\ socket' = None
         /\ UNCHANGED <<goal, greeted>>

-----------------------------------------------------------------------------
(* The handlers of the socket                                              *)

\* Mutant of OnClose: the session data stay.
OnCloseKeepsSession(g) ==
    /\ UNCHANGED session
    /\ timer' = IF disconnecting THEN timer ELSE Armed(g)

OnClose(g) ==
    /\ session' = None
    /\ timer' = IF disconnecting THEN timer ELSE Armed(g)

\* Mutant of OnErrorThenClose: the handle of a timer that fired is taken for an armed one.
OnErrorTrustsHandle(g) ==
    /\ session' = None
    /\ timer' = IF disconnecting \/ timer # NoTimer THEN timer ELSE Armed(g)
    /\ UNCHANGED loose

(* onError and onClose run in the same task. onError overwrites a handle   *)
(* it finds; if that timer is still armed nobody can clear it any more.    *)
(* A timer onError armed is cleared again by onClose, unless the scheduler *)
(* is disconnecting.                                                       *)
OnErrorThenClose(g) ==
    /\ session' = None
    /\ timer' = IF disconnecting /\ timer = NoTimer THEN NoTimer ELSE Armed(g)
    /\ loose' = IF timer.state = "armed"
                THEN [loose EXCEPT ![timer.goal] = @ + 1]
                ELSE loose

OnOpen(s) ==
    /\ ready[s] = "connecting" /\ goal[s] \in up
    /\ ready' = [ready EXCEPT ![s] = "open"]
    /\ timer' = NoTimer
    /\ IF s \in awaiting THEN Announces(goal[s]) ELSE token' = token
    /\ awaiting' = awaiting \ {s}
    /\ UNCHANGED <<process, killed, proc, commandVars, socket, goal, greeted,
                   disconnecting, loose, session, requestVars, losses>>

Delivers(s) == ready[s] \in {"open", "closing"}

(* The first message of the backend on a socket: webSessionStarted.        *)
OnSessionData(s) ==
    /\ Delivers(s) /\ goal[s] \in up /\ s \notin greeted
    /\ greeted' = greeted \cup {s}
    /\ session' = s
    /\ UNCHANGED <<shellVars, socket, ready, goal, disconnecting, timerVars,
                   requestVars, losses>>

(* exitProcess up to its promise: done runs when the process closes, and   *)
(* at once without a process. The handle stays when a process ends by      *)
(* itself, and done then never runs.                                       *)
Exit ==
    /\ proc' = proc
    /\ killed' = IF proc # None /\ process[proc] \in Runs
                 THEN killed \cup {proc} ELSE killed
    /\ token' = IF proc = None THEN None ELSE token

(* A connection that cannot be made, or was aborted by disconnect. When it *)
(* is the launcher's and to a shell it started, its rejected promise ends  *)
(* the process the launcher has by now, in the next task.                  *)
Fails(s) ==
    /\ ready' = [ready EXCEPT ![s] = "closed"]
    /\ OnErrorThenClose(goal[s])
    /\ awaiting' = awaiting \ {s}
    /\ IF s \in awaiting /\ goal[s] \notin External
       THEN Exit
       ELSE UNCHANGED <<killed, proc, token>>
    /\ UNCHANGED <<process, commandVars, socket, goal, greeted, disconnecting,
                   requestVars>>

FailToOpen(s) ==
    /\ \/ ready[s] = "aborting" /\ UNCHANGED losses
       \/ ready[s] = "connecting" /\ goal[s] \notin up /\ UNCHANGED losses
       \/ /\ ready[s] = "connecting" /\ goal[s] \in up
          /\ losses < MaxLosses /\ losses' = losses + 1
    /\ Fails(s)

(* The close event: after a disconnect, or because the connection is lost. *)
Closed(s) ==
    /\ \/ ready[s] = "closing" /\ UNCHANGED losses
       \/ ready[s] = "open" /\ goal[s] \notin up /\ UNCHANGED losses
       \/ /\ ready[s] = "open" /\ goal[s] \in up
          /\ losses < MaxLosses /\ losses' = losses + 1
    /\ ready' = [ready EXCEPT ![s] = "closed"]
    /\ OnClose(goal[s])
    /\ Forsake(s)
    /\ UNCHANGED <<shellVars, socket, goal, greeted, disconnecting, loose>>

(* The timer's callback leaves the handle in place.                        *)
TimerFires ==
    /\ timer.state = "armed"
    /\ timer' = [timer EXCEPT !.state = "fired"]
    /\ Connect(timer.goal)
    /\ UNCHANGED <<shellVars, loose, session, requestVars, losses>>

\* Mutant of LooseTimerFires: a timer fires that was cleared.
LooseTimerFiresCleared(g) ==
    /\ loose' = [loose EXCEPT ![g] = @ - 1]
    /\ Connect(g)
    /\ UNCHANGED <<shellVars, timer, session, requestVars, losses>>

LooseTimerFires(g) ==
    /\ loose[g] > 0
    /\ loose' = [loose EXCEPT ![g] = @ - 1]
    /\ Connect(g)
    /\ UNCHANGED <<shellVars, timer, session, requestVars, losses>>

-----------------------------------------------------------------------------
(* The launcher                                                            *)

(* msg.restartShell and msg.connectToShell up to their await, also while   *)
(* an earlier one awaits.                                                  *)
Restart ==
    /\ asked < MaxShells /\ asked' = asked + 1
    /\ Disconnect
    /\ Exit
    /\ awaits' = [awaits EXCEPT ![asked + 1] = proc]
    /\ resumed' = IF proc = None THEN resumed \cup {asked + 1} ELSE resumed
    /\ UNCHANGED <<process, latest, awaiting, timerVars, session, requestVars, losses>>

\* Mutant of ProcessExits: one listener is called, the others are lost.
ProcessExitsOnce(p) ==
    /\ p \in killed /\ process[p] \in Runs
    /\ process' = [process EXCEPT ![p] = "ended"]
    /\ killed' = killed \ {p}
    /\ proc' = None /\ token' = None
    /\ LET W == {g \in Shells : awaits[g] = p}
           first == {g \in W : \A h \in W : g <= h}
       IN  /\ resumed' = resumed \cup first
           /\ awaits' = [g \in Shells |-> IF g \in first THEN None ELSE awaits[g]]
    /\ UNCHANGED <<asked, latest, awaiting, socketVars, timerVars, session,
                   requestVars, losses>>

(* The close event of a killed process: done drops the handle and the      *)
(* token, whatever process they are of by now.                             *)
ProcessExits(p) ==
    /\ p \in killed /\ process[p] \in Runs
    /\ process' = [process EXCEPT ![p] = "ended"]
    /\ killed' = killed \ {p}
    /\ proc' = None /\ token' = None
    /\ resumed' = resumed \cup {g \in Shells : awaits[g] = p}
    /\ awaits' = [g \in Shells |-> IF awaits[g] = p THEN None ELSE awaits[g]]
    /\ UNCHANGED <<asked, latest, awaiting, socketVars, timerVars, session,
                   requestVars, losses>>

(* A command goes on, in the order of its exitProcess: it clears the       *)
(* session ...                                                             *)
GoesOn(g) ==
    /\ g \in resumed /\ \A h \in resumed : g <= h
    /\ resumed' = resumed \ {g}
    /\ latest' = g
    /\ session' = None
    /\ UNCHANGED <<asked, awaits>>

(* ... and connects to the URL given by the user,                          *)
ConnectExternal(g) ==
    /\ g \in External
    /\ GoesOn(g)
    /\ LauncherConnects(g)
    /\ UNCHANGED <<process, killed, proc, timerVars, requestVars, losses>>

(* or looks for a port ...                                                 *)
StartShell(g) ==
    /\ g \notin External
    /\ GoesOn(g)
    /\ process' = [process EXCEPT ![g] = "checking"]
    /\ UNCHANGED <<killed, proc, token, awaiting, socketVars, timerVars,
                   requestVars, losses>>

(* ... to start a process on it.                                           *)
Launch(g) ==
    /\ process[g] = "checking"
    /\ process' = [process EXCEPT ![g] = "starting"]
    /\ proc' = g /\ token' = g
    /\ UNCHANGED <<killed, commandVars, awaiting, socketVars, timerVars, session,
                   requestVars, losses>>

(* A process announces its single user mode; the URL is put together only  *)
(* now, with the token of the process that was launched last.              *)
ShellReady(p) ==
    /\ process[p] = "starting"
    /\ process' = [process EXCEPT ![p] = "up"]
    /\ LauncherConnects(IF token = p THEN p ELSE None)
    /\ UNCHANGED <<killed, proc, commandVars, timerVars, session, requestVars, losses>>

(* A process ends by itself (or cannot bind its port): nobody listens.     *)
ShellCrashes(p) ==
    /\ p \notin killed \cup External /\ process[p] \in Runs
    /\ losses < MaxLosses /\ losses' = losses + 1
    /\ process' = [process EXCEPT ![p] = "ended"]
    /\ UNCHANGED <<killed, proc, token, commandVars, awaiting, socketVars, timerVars,
                   session, requestVars>>

-----------------------------------------------------------------------------
(* Requests                                                                *)

\* Mutant of Send: without a socket nothing is registered.
SendUnregistered(r) ==
    /\ promise[r] = "new"
    /\ ongoing' = IF socket = None THEN ongoing ELSE ongoing \cup {r}
    /\ promise' = [promise EXCEPT ![r] = "pending"]
    /\ via' = [via EXCEPT ![r] =
                  IF socket # None /\ ready[socket] = "open" THEN socket ELSE None]
    /\ UNCHANGED <<shellVars, socketVars, timerVars, session, emitted, received,
                   running, ending, losses>>

(* constructAndSendRequest: the entry is made first. send() throws on a    *)
(* socket that is opening, which rejects the promise but leaves the entry; *)
(* without an open socket the message is dropped and the promise waits.    *)
Send(r) ==
    /\ promise[r] = "new"
    /\ ongoing' = ongoing \cup {r}
    /\ promise' = [promise EXCEPT ![r] =
                      IF socket # None /\ ready[socket] = "connecting"
                      THEN "rejected" ELSE "pending"]
    /\ via' = [via EXCEPT ![r] =
                  IF socket # None /\ ready[socket] = "open" THEN socket ELSE None]
    /\ UNCHANGED <<shellVars, socketVars, timerVars, session, emitted, received,
                   running, ending, losses>>

(* The backend answers while the connection stands.                        *)
Served(r) == via[r] # None /\ Delivers(via[r]) /\ goal[via[r]] \in up

EmitData(r) ==
    /\ Served(r) /\ ending[r] = "none" /\ emitted[r] < MaxData
    /\ emitted' = [emitted EXCEPT ![r] = @ + 1]
    /\ UNCHANGED <<shellVars, socketVars, timerVars, session, promise, ongoing,
                   via, received, running, ending, losses>>

(* "end" is OK without "done": authenticate, cancel, prompt replies.       *)
EmitEnd(r) ==
    /\ Served(r) /\ ending[r] = "none"
    /\ \E e \in Endings : ending' = [ending EXCEPT ![r] = e]
    /\ UNCHANGED <<shellVars, socketVars, timerVars, session, promise, ongoing,
                   via, emitted, received, running, losses>>

(* The socket keeps the order: session data, data responses, last response.*)
Arrives(r) == via[r] # None /\ Delivers(via[r]) /\ via[r] \in greeted

(* onMessage, DataResponse: a callback is called but not waited for.       *)
OnData(r) ==
    /\ Arrives(r) /\ r \in ongoing /\ received[r] < emitted[r]
    /\ received' = [received EXCEPT ![r] = @ + 1]
    /\ running' = IF r \in WithCallback
                  THEN [running EXCEPT ![r] = @ + 1] ELSE running
    /\ UNCHANGED <<shellVars, socketVars, timerVars, session, promise, ongoing,
                   via, emitted, ending, losses>>

CallbackDone(r) ==
    /\ running[r] > 0
    /\ running' = [running EXCEPT ![r] = @ - 1]
    /\ UNCHANGED <<shellVars, socketVars, timerVars, session, promise, ongoing,
                   via, emitted, received, ending, losses>>

EndArrives(r) ==
    Arrives(r) /\ r \in ongoing /\ ending[r] \in Endings /\ received[r] = emitted[r]

Settle(r) == promise' = [promise EXCEPT ![r] =
                              IF ending[r] = "error" THEN "rejected" ELSE "resolved"]

\* Mutant of OnEnd: a CancelResponse is not answered.
OnEndForgetsCancel(r) ==
    /\ EndArrives(r)
    /\ IF ending[r] = "cancel" THEN UNCHANGED promise ELSE Settle(r)
    /\ ongoing' = IF ending[r] = "end" THEN ongoing ELSE ongoing \ {r}
    /\ ending' = [ending EXCEPT ![r] = "delivered"]
    /\ UNCHANGED <<shellVars, socketVars, timerVars, session, via, emitted, received,
                   running, losses>>

(* onMessage, the last response. An EndResponse leaves the entry.          *)
OnEnd(r) ==
    /\ EndArrives(r)
    /\ Settle(r)
    /\ ongoing' = IF ending[r] = "end" THEN ongoing ELSE ongoing \ {r}
    /\ ending' = [ending EXCEPT ![r] = "delivered"]
    /\ UNCHANGED <<shellVars, socketVars, timerVars, session, via, emitted, received,
                   running, losses>>

-----------------------------------------------------------------------------
SocketStep ==
    \/ \E s \in Sockets : OnOpen(s) \/ OnSessionData(s) \/ FailToOpen(s) \/ Closed(s)
    \/ TimerFires
    \/ \E g \in URLs : LooseTimerFires(g)

LauncherStep ==
    \/ Restart
    \/ \E g \in Shells : \/ ConnectExternal(g) \/ StartShell(g) \/ Launch(g)
                         \/ ShellReady(g) \/ ProcessExits(g) \/ ShellCrashes(g)

RequestStep ==
    \E r \in Requests : \/ Send(r) \/ EmitData(r) \/ EmitEnd(r)
                        \/ OnData(r) \/ CallbackDone(r) \/ OnEnd(r)

Next == SocketStep \/ LauncherStep \/ RequestStep

(* The host delivers what is due, fires timers and resumes commands, the   *)
(* backend answers what it was asked, a shell that was started comes up    *)
(* and accepts, one that was killed ends. Only losses, crashes, the user   *)
(* and the application are free.                                           *)
Fairness ==
    /\ \A s \in Sockets :
          /\ WF_vars(OnOpen(s)) /\ WF_vars(OnSessionData(s))
          /\ WF_vars(FailToOpen(s) /\ losses' = losses)
          /\ WF_vars(Closed(s) /\ losses' = losses)
    /\ WF_vars(TimerFires)
    /\ \A g \in URLs : WF_vars(LooseTimerFires(g))
    /\ \A g \in Shells :
          /\ WF_vars(ConnectExternal(g)) /\ WF_vars(StartShell(g)) /\ WF_vars(Launch(g))
          /\ WF_vars(ShellReady(g)) /\ WF_vars(ProcessExits(g))
    /\ \A r \in Requests : WF_vars(EmitEnd(r)) /\ WF_vars(OnData(r)) /\ WF_vars(OnEnd(r))

Spec == Init /\ [][Next]_vars /\ Fairness

-----------------------------------------------------------------------------
(* Properties                                                              *)

(* However connects by timers, restarts and the launcher interleave, only  *)
(* one socket is open or opening, and the scheduler holds it: no two       *)
(* connections answer, and none is beyond the reach of disconnect.         *)
OneLiveSocket == \A s \in Sockets : ready[s] \in Live => s = socket

(* A connection that broke or could not be made is always retried: behind  *)
(* the closed socket there is an armed timer, in spite of the handles that *)
(* onError overwrites, and onClose and onOpen clear.                       *)
RetryScheduled ==
    socket # None /\ ready[socket] = "closed" => timer.state = "armed"

(* Session data never outlive the socket they came through: what a user is *)
(* allowed to see ends with the connection.                                *)
SessionAlive ==
    session # None => ready[session] \in {"open", "closing"} /\ session \in greeted

(* A request whose answer is still to come is registered and its promise   *)
(* pending, and the socket it went through delivers: it is the one that is *)
(* held, or one that disconnect is closing. So no answer finds its promise *)
(* settled or its entry gone, in spite of restarts and of slots reused.    *)
AnswerUnderway ==
    \A r \in Requests :
       /\ promise[r] = "pending" => r \in ongoing
       /\ via[r] # None =>
             /\ Delivers(via[r])
             /\ via[r] # socket => ready[via[r]] = "closing"
             /\ ending[r] # "delivered" => promise[r] = "pending" /\ r \in ongoing

(* A request that was sent through an open socket is settled, unless that  *)
(* socket closes first.                                                    *)
Answered ==
    \A r \in Requests : via[r] # None ~> promise[r] # "pending" \/ via[r] = None

(* A command that waits for a process which is still there goes on, with   *)
(* however many other commands it waits.                                   *)
Resumes ==
    \A g \in Shells :
       awaits[g] # None /\ process[awaits[g]] # "ended" ~> awaits[g] = None

(* Everything that may still connect is aimed at the shell in use.         *)
Aimed ==
    /\ socket # None /\ goal[socket] = latest
    /\ timer = NoTimer \/ timer.goal = latest
    /\ \A g \in URLs : loose[g] > 0 => g = latest
    /\ \A s \in Sockets : ready[s] \in {"closing", "aborting"} => goal[s] = latest

(* A scheduler that wants the shell in use gets connected to it, however   *)
(* often it fails, as long as that shell is there and the user asks for no *)
(* other.                                                                  *)
Recovers ==
    Aimed /\ latest \in up
       ~> \/ socket # None /\ ready[socket] = "open" /\ goal[socket] = latest
          \/ latest \notin up \/ ~Aimed
=============================================================================
