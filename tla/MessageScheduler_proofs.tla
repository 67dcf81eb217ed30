----------------------- MODULE MessageScheduler_proofs -----------------------
(* What holds of the message scheduler for every set of requests, every      *)
(* number of shells, data responses and losses.                              *)
EXTENDS MessageScheduler, TLAPS

-----------------------------------------------------------------------------
(* The inductive invariant                                                   *)

\* disconnect lets go of the socket; connect sets the flag back.
FlagMatchesSocket == socket # None => ~disconnecting

\* The socket the scheduler holds is not one that disconnect closes.
HeldIsNotClosing == socket # None => ready[socket] \in Live \cup {"closed"}

\* What connect and disconnect keep of the socket.
HeldInv == FlagMatchesSocket /\ HeldIsNotClosing /\ OneLiveSocket

\* Requests in progress are on sockets that deliver; one that is open is held.
InProgress ==
    \A r \in Requests :
       via[r] # None => /\ Delivers(via[r])
                        /\ ready[via[r]] = "open" => via[r] = socket

\* What is known of each request, whatever the sockets do.
Accounted ==
    \A r \in Requests :
       /\ promise[r] = "new" => via[r] = None /\ ending[r] = "none"
       /\ promise[r] = "pending" => r \in ongoing
       /\ via[r] # None /\ ending[r] # "delivered" => promise[r] = "pending"

\* Requests are in progress only on sockets that deliver, and a socket slot is
\* not taken again before: the strengthening which makes the properties of the
\* answers inductive.
IInv ==
    /\ TypeOK
    /\ HeldInv
    /\ RetryScheduled
    /\ SessionAlive
    /\ InProgress
    /\ Accounted

-----------------------------------------------------------------------------
(* Helpers                                                                   *)

LEMMA FreeSlotClosed ==
    ASSUME CanCreate PROVE FreeSlot \in Sockets /\ ready[FreeSlot] = "closed"
BY DEF CanCreate, FreeSlot

LEMMA NoneIsNoSocket == /\ None \notin Sockets /\ None \notin Shells /\ Sockets = Shells
                        /\ External \subseteq Shells /\ URLs = {None} \cup Shells
BY SchedulerAssumption DEF None, Sockets, Shells, URLs

\* What connect leaves behind: the socket it found, or a new one that opens.
LEMMA ConnectEffect ==
    ASSUME TypeOK, NEW g \in URLs, Connect(g)
    PROVE  /\ disconnecting' = FALSE
           /\ \/ Connected /\ UNCHANGED <<socket, ready, goal, greeted>>
              \/ /\ ~Connected /\ socket' \in Sockets /\ ready[socket'] = "closed"
                 /\ ready' = [ready EXCEPT ![socket'] = "connecting"]
                 /\ goal' = [goal EXCEPT ![socket'] = g]
                 /\ greeted' = greeted \ {socket'}
BY FreeSlotClosed DEF Connect

LEMMA ConnectType ==
    ASSUME TypeOK, NEW g \in URLs, Connect(g)
    PROVE  /\ socket' \in {None} \cup Sockets
           /\ ready' \in [Sockets -> Live \cup {"closing", "aborting", "closed"}]
           /\ goal' \in [Sockets -> URLs]
           /\ greeted' \subseteq Sockets
           /\ disconnecting' \in BOOLEAN
<1>1. CASE UNCHANGED <<socket, ready, goal, greeted>>
  BY <1>1, ConnectEffect DEF TypeOK
<1>2. CASE /\ socket' \in Sockets
           /\ ready' = [ready EXCEPT ![socket'] = "connecting"]
           /\ goal' = [goal EXCEPT ![socket'] = g]
           /\ greeted' = greeted \ {socket'}
  <2>1. ready' \in [Sockets -> Live \cup {"closing", "aborting", "closed"}]
    BY <1>2 DEF TypeOK, Live
  <2> QED
    BY <1>2, <2>1, ConnectEffect DEF TypeOK
<1> QED
  BY <1>1, <1>2, ConnectEffect

LEMMA LauncherConnectsType ==
    ASSUME TypeOK, NEW g \in URLs, LauncherConnects(g)
    PROVE  /\ Connect(g)
           /\ awaiting' \subseteq Sockets
           /\ token' \in {None} \cup Shells
<1>1. Connected \/ FreeSlot \in Sockets
  BY FreeSlotClosed DEF LauncherConnects, Connect
<1> QED
  BY <1>1, NoneIsNoSocket DEF LauncherConnects, Announces, TypeOK

LEMMA DisconnectType ==
    ASSUME TypeOK, Disconnect
    PROVE  /\ socket' = None
           /\ ready' \in [Sockets -> Live \cup {"closing", "aborting", "closed"}]
           /\ goal' = goal /\ greeted' = greeted
           /\ disconnecting' \in BOOLEAN
BY DEF Disconnect, TypeOK, socketVars, Live

\* exitProcess changes only what the launcher knows.
LEMMA ExitType ==
    ASSUME TypeOK, Exit
    PROVE  /\ proc' = proc
           /\ killed' \subseteq Shells
           /\ token' \in {None} \cup Shells
BY DEF Exit, TypeOK

\* Both ways in which the launcher connects.
LEMMA LauncherCases ==
    ASSUME TypeOK, NEW g \in Shells, ConnectExternal(g) \/ ShellReady(g)
    PROVE  /\ \E u \in URLs : LauncherConnects(u)
           /\ UNCHANGED <<timerVars, requestVars, losses>>
<1>1. CASE ConnectExternal(g)
  BY <1>1, NoneIsNoSocket DEF ConnectExternal
<1>2. CASE ShellReady(g)
  <2>1. (IF token = g THEN g ELSE None) \in URLs
    BY NoneIsNoSocket
  <2> QED
    BY <1>2, <2>1 DEF ShellReady
<1> QED
  BY <1>1, <1>2

-----------------------------------------------------------------------------
(* Type correctness                                                          *)

LEMMA TypeInit == Init => TypeOK
<1> SUFFICES ASSUME Init PROVE TypeOK
  OBVIOUS
<1>1. 1 \in Shells /\ External \subseteq Shells /\ Sockets = Shells
  BY SchedulerAssumption DEF Shells, Sockets
<1>2. ready \in [Sockets -> Live \cup {"closing", "aborting", "closed"}]
  BY DEF Init, Live
<1>3. emitted \in [Requests -> 0 .. MaxData] /\ received \in [Requests -> 0 .. MaxData]
  BY SchedulerAssumption DEF Init
<1>4. losses \in 0 .. MaxLosses
  BY SchedulerAssumption DEF Init
<1>5. process \in [Shells -> Runs \cup {"none", "checking", "ended"}]
  BY DEF Init, Runs
<1>6. goal \in [Sockets -> URLs] /\ loose \in [URLs -> Nat]
  BY <1>1 DEF Init, URLs
<1> QED
  BY <1>1, <1>2, <1>3, <1>4, <1>5, <1>6 DEF Init, TypeOK

LEMMA TypeNext == TypeOK /\ [Next]_vars => TypeOK'
<1> SUFFICES ASSUME TypeOK, [Next]_vars PROVE TypeOK'
  OBVIOUS
<1> USE SchedulerAssumption, NoneIsNoSocket
<1> USE DEF vars, shellVars, commandVars, socketVars, timerVars, requestVars
<1>1. ASSUME NEW s \in Sockets, OnOpen(s) PROVE TypeOK'
  <2>1. token' \in {None} \cup Shells
    BY <1>1 DEF OnOpen, Announces, TypeOK
  <2> QED
    BY <1>1, <2>1 DEF OnOpen, TypeOK, Live
<1>2. ASSUME NEW s \in Sockets, OnSessionData(s) PROVE TypeOK'
  BY <1>2 DEF OnSessionData, TypeOK
<1>3. ASSUME NEW s \in Sockets, FailToOpen(s) PROVE TypeOK'
  <2>1. losses' \in 0 .. MaxLosses
    BY <1>3 DEF FailToOpen, TypeOK
  <2>2. timer' \in {NoTimer} \cup [state : {"armed", "fired"}, goal : URLs]
    BY <1>3 DEF FailToOpen, Fails, OnErrorThenClose, TypeOK, Armed
  <2>3. loose' \in [URLs -> Nat]
    BY <1>3 DEF FailToOpen, Fails, OnErrorThenClose, TypeOK, NoTimer
  <2>4. proc' = proc /\ killed' \subseteq Shells /\ token' \in {None} \cup Shells
    BY <1>3, ExitType DEF FailToOpen, Fails, TypeOK
  <2> QED
    BY <1>3, <2>1, <2>2, <2>3, <2>4 DEF FailToOpen, Fails, OnErrorThenClose, TypeOK
<1>4. ASSUME NEW s \in Sockets, Closed(s) PROVE TypeOK'
  <2>1. losses' \in 0 .. MaxLosses
    BY <1>4 DEF Closed, TypeOK
  <2>2. timer' \in {NoTimer} \cup [state : {"armed", "fired"}, goal : URLs]
    BY <1>4 DEF Closed, OnClose, TypeOK, Armed
  <2> QED
    BY <1>4, <2>1, <2>2 DEF Closed, OnClose, Forsake, TypeOK
<1>5. ASSUME TimerFires PROVE TypeOK'
  <2>1. timer.goal \in URLs
    BY <1>5 DEF TimerFires, TypeOK, NoTimer
  <2>2. timer' \in [state : {"armed", "fired"}, goal : URLs]
    BY <1>5 DEF TimerFires, TypeOK, NoTimer
  <2> QED
    BY <1>5, <2>1, <2>2, ConnectType DEF TimerFires, TypeOK
<1>6. ASSUME NEW g \in URLs, LooseTimerFires(g) PROVE TypeOK'
  BY <1>6, ConnectType DEF LooseTimerFires, TypeOK
<1>7. CASE Restart
  <2>1. asked + 1 \in Shells
    BY <1>7 DEF Restart, TypeOK, Shells
  <2>2. proc \in {None} \cup Shells
    BY DEF TypeOK
  <2>3. awaits' \in [Shells -> {None} \cup Shells] /\ resumed' \subseteq Shells
    BY <1>7, <2>1, <2>2 DEF Restart, TypeOK
  <2>4. proc' = proc /\ killed' \subseteq Shells /\ token' \in {None} \cup Shells
    BY <1>7, ExitType DEF Restart
  <2>5. /\ socket' = None /\ disconnecting' \in BOOLEAN
        /\ ready' \in [Sockets -> Live \cup {"closing", "aborting", "closed"}]
        /\ goal' = goal /\ greeted' = greeted
    BY <1>7, DisconnectType DEF Restart
  <2> QED
    BY <1>7, <2>1, <2>3, <2>4, <2>5 DEF Restart, TypeOK
<1>8. ASSUME NEW g \in Shells, ConnectExternal(g) PROVE TypeOK'
  BY <1>8, LauncherConnectsType, ConnectType DEF ConnectExternal, GoesOn, TypeOK
<1>9. ASSUME NEW g \in Shells, StartShell(g) \/ Launch(g) PROVE TypeOK'
  BY <1>9 DEF StartShell, Launch, GoesOn, commandVars, TypeOK, Runs
<1>10. ASSUME NEW g \in Shells, ShellReady(g) PROVE TypeOK'
  <2>1. (IF token = g THEN g ELSE None) \in URLs
    OBVIOUS
  <2>2. process' \in [Shells -> Runs \cup {"none", "checking", "ended"}]
    BY <1>10 DEF ShellReady, TypeOK, Runs
  <2> QED
    BY <1>10, <2>1, <2>2, LauncherConnectsType, ConnectType DEF ShellReady, commandVars, TypeOK
<1>11. ASSUME NEW g \in Shells, ProcessExits(g) \/ ShellCrashes(g) PROVE TypeOK'
  <2>1. process' \in [Shells -> Runs \cup {"none", "checking", "ended"}]
    BY <1>11 DEF ProcessExits, ShellCrashes, TypeOK, Runs
  <2>2. awaits' \in [Shells -> {None} \cup Shells] /\ resumed' \subseteq Shells
    <3>1. CASE ProcessExits(g)
      <4>1. resumed' \subseteq Shells
        BY <3>1 DEF ProcessExits, TypeOK
      <4>2. awaits' \in [Shells -> {None} \cup Shells]
        BY <3>1 DEF ProcessExits, TypeOK
      <4> QED
        BY <4>1, <4>2
    <3>2. CASE ShellCrashes(g)
      BY <3>2 DEF ShellCrashes, TypeOK
    <3> QED
      BY <1>11, <3>1, <3>2
  <2>3. losses' \in 0 .. MaxLosses
    BY <1>11 DEF ProcessExits, ShellCrashes, TypeOK
  <2> QED
    BY <1>11, <2>1, <2>2, <2>3 DEF ProcessExits, ShellCrashes, commandVars, TypeOK
<1>12. ASSUME NEW r \in Requests, Send(r) PROVE TypeOK'
  BY <1>12 DEF Send, TypeOK
<1>13. ASSUME NEW r \in Requests, EmitData(r) PROVE TypeOK'
  BY <1>13 DEF EmitData, TypeOK
<1>14. ASSUME NEW r \in Requests, EmitEnd(r) PROVE TypeOK'
  BY <1>14 DEF EmitEnd, TypeOK
<1>15. ASSUME NEW r \in Requests, OnData(r) PROVE TypeOK'
  BY <1>15 DEF OnData, TypeOK
<1>16. ASSUME NEW r \in Requests, CallbackDone(r) PROVE TypeOK'
  BY <1>16 DEF CallbackDone, TypeOK
<1>17. ASSUME NEW r \in Requests, OnEnd(r) PROVE TypeOK'
  BY <1>17 DEF OnEnd, Settle, TypeOK
<1>18. CASE UNCHANGED vars
  BY <1>18 DEF TypeOK
<1> QED
  BY <1>1, <1>2, <1>3, <1>4, <1>5, <1>6, <1>7, <1>8, <1>9, <1>10, <1>11, <1>12,
     <1>13, <1>14, <1>15, <1>16, <1>17, <1>18
     DEF Next, SocketStep, LauncherStep, RequestStep

-----------------------------------------------------------------------------
(* The socket and its timer                                                  *)

\* A request or a message changes nothing of the connection.
LEMMA RequestsKeepConnection ==
    ASSUME RequestStep PROVE UNCHANGED <<shellVars, socketVars, timerVars, session, losses>>
BY DEF RequestStep, Send, EmitData, EmitEnd, OnData, CallbackDone, OnEnd, shellVars,
       socketVars, timerVars

LEMMA HeldConnect ==
    ASSUME TypeOK, HeldInv, NEW g \in URLs, Connect(g) PROVE HeldInv'
<1>1. CASE UNCHANGED <<socket, ready, goal, greeted>>
  BY <1>1, ConnectEffect DEF HeldInv, FlagMatchesSocket, HeldIsNotClosing, OneLiveSocket
<1>2. CASE /\ ~Connected /\ socket' \in Sockets
           /\ ready' = [ready EXCEPT ![socket'] = "connecting"]
  <2>1. \A s \in Sockets : ready[s] \notin Live
    BY <1>2, NoneIsNoSocket DEF HeldInv, OneLiveSocket, Connected
  <2>2. ready'[socket'] = "connecting" /\ socket' # None
    BY <1>2, NoneIsNoSocket DEF TypeOK
  <2>3. OneLiveSocket'
    BY <1>2, <2>1 DEF OneLiveSocket, TypeOK
  <2> QED
    BY <2>2, <2>3, ConnectEffect DEF HeldInv, FlagMatchesSocket, HeldIsNotClosing, Live
<1> QED
  BY <1>1, <1>2, ConnectEffect

LEMMA HeldDisconnect ==
    ASSUME TypeOK, HeldInv, Disconnect PROVE HeldInv'
<1>1. CASE socket = None
  BY <1>1 DEF Disconnect, HeldInv, FlagMatchesSocket, HeldIsNotClosing, OneLiveSocket,
              socketVars
<1>2. CASE socket # None
  <2>1. socket' = None /\ socket \in Sockets
    BY <1>2, DisconnectType DEF TypeOK
  <2>2. \A s \in Sockets : ready'[s] \notin Live
    BY <1>2, <2>1 DEF Disconnect, HeldInv, OneLiveSocket, TypeOK, Live
  <2> QED
    BY <2>1, <2>2 DEF HeldInv, FlagMatchesSocket, HeldIsNotClosing, OneLiveSocket
<1> QED
  BY <1>1, <1>2

LEMMA HeldNext == TypeOK /\ HeldInv /\ [Next]_vars => HeldInv'
<1> SUFFICES ASSUME TypeOK, HeldInv, [Next]_vars PROVE HeldInv'
  OBVIOUS
<1> USE NoneIsNoSocket
<1>1. ASSUME NEW s \in Sockets, OnOpen(s) PROVE HeldInv'
  BY <1>1 DEF OnOpen, HeldInv, FlagMatchesSocket, HeldIsNotClosing, OneLiveSocket,
              TypeOK, Live
<1>2. ASSUME NEW s \in Sockets, OnSessionData(s) PROVE HeldInv'
  BY <1>2 DEF OnSessionData, HeldInv, FlagMatchesSocket, HeldIsNotClosing, OneLiveSocket
<1>3. ASSUME NEW s \in Sockets, FailToOpen(s) PROVE HeldInv'
  BY <1>3 DEF FailToOpen, Fails, HeldInv, FlagMatchesSocket, HeldIsNotClosing,
              OneLiveSocket, TypeOK, Live
<1>4. ASSUME NEW s \in Sockets, Closed(s) PROVE HeldInv'
  BY <1>4 DEF Closed, HeldInv, FlagMatchesSocket, HeldIsNotClosing, OneLiveSocket,
              TypeOK, Live
<1>5. CASE TimerFires
  <2>1. timer.goal \in URLs
    BY <1>5 DEF TimerFires, TypeOK, NoTimer
  <2> QED
    BY <1>5, <2>1, HeldConnect DEF TimerFires
<1>6. ASSUME NEW g \in URLs, LooseTimerFires(g) PROVE HeldInv'
  BY <1>6, HeldConnect DEF LooseTimerFires
<1>7. CASE Restart
  BY <1>7, HeldDisconnect DEF Restart
<1>8. ASSUME NEW g \in Shells, ConnectExternal(g) \/ ShellReady(g) PROVE HeldInv'
  BY <1>8, LauncherCases, HeldConnect DEF LauncherConnects
<1>10. CASE UNCHANGED socketVars
  BY <1>10 DEF socketVars, HeldInv, FlagMatchesSocket, HeldIsNotClosing, OneLiveSocket
<1> QED
  BY <1>1, <1>2, <1>3, <1>4, <1>5, <1>6, <1>7, <1>8, <1>10, RequestsKeepConnection
     DEF Next, SocketStep, LauncherStep, StartShell, Launch, ProcessExits, ShellCrashes, vars

\* A socket that just failed or was lost is held only by a scheduler that
\* wants it, and so the handler arms a timer; an armed timer is cleared only
\* by the socket that opens, and fires only into a connect.
LEMMA RetryNext ==
    TypeOK /\ HeldInv /\ RetryScheduled /\ [Next]_vars => RetryScheduled'
<1> SUFFICES ASSUME TypeOK, HeldInv, RetryScheduled, [Next]_vars
             PROVE  RetryScheduled'
  OBVIOUS
<1> USE NoneIsNoSocket
<1>0. ASSUME NEW g \in URLs, Connect(g) PROVE RetryScheduled'
  <2>1. CASE Connected
    BY <1>0, <2>1, ConnectEffect DEF Connected, RetryScheduled, Live
  <2>2. CASE ~Connected
    BY <1>0, <2>2, ConnectEffect DEF RetryScheduled, TypeOK
  <2> QED
    BY <2>1, <2>2
<1>1. ASSUME NEW s \in Sockets, OnOpen(s) PROVE RetryScheduled'
  BY <1>1 DEF OnOpen, RetryScheduled, HeldInv, OneLiveSocket, TypeOK, Live
<1>2. ASSUME NEW s \in Sockets, OnSessionData(s) PROVE RetryScheduled'
  BY <1>2 DEF OnSessionData, RetryScheduled, timerVars
<1>3. ASSUME NEW s \in Sockets, FailToOpen(s) PROVE RetryScheduled'
  BY <1>3 DEF FailToOpen, Fails, OnErrorThenClose, RetryScheduled, HeldInv,
              FlagMatchesSocket, TypeOK, Armed, NoTimer
<1>4. ASSUME NEW s \in Sockets, Closed(s) PROVE RetryScheduled'
  BY <1>4 DEF Closed, OnClose, RetryScheduled, HeldInv, FlagMatchesSocket, TypeOK, Armed
<1>5. CASE TimerFires
  <2>1. timer.goal \in URLs
    BY <1>5 DEF TimerFires, TypeOK, NoTimer
  <2> QED
    BY <1>5, <2>1, <1>0 DEF TimerFires
<1>6. ASSUME NEW g \in URLs, LooseTimerFires(g) PROVE RetryScheduled'
  BY <1>6, <1>0 DEF LooseTimerFires
<1>7. CASE Restart
  BY <1>7, DisconnectType DEF Restart, RetryScheduled
<1>8. ASSUME NEW g \in Shells, ConnectExternal(g) \/ ShellReady(g) PROVE RetryScheduled'
  BY <1>8, LauncherCases, <1>0 DEF LauncherConnects
<1>10. CASE UNCHANGED <<socketVars, timerVars>>
  BY <1>10 DEF socketVars, timerVars, RetryScheduled
<1> QED
  BY <1>1, <1>2, <1>3, <1>4, <1>5, <1>6, <1>7, <1>8, <1>10, RequestsKeepConnection
     DEF Next, SocketStep, LauncherStep, StartShell, Launch, ProcessExits, ShellCrashes, vars
-----------------------------------------------------------------------------
(* Session data and requests                                                 *)

\* connect touches only a closed socket.
LEMMA ConnectKeepsOpen ==
    ASSUME TypeOK, NEW g \in URLs, Connect(g), NEW s \in Sockets, ready[s] # "closed"
    PROVE  ready'[s] = ready[s] /\ (s \in greeted => s \in greeted')
BY ConnectEffect DEF TypeOK

LEMMA SessionNext == TypeOK /\ SessionAlive /\ [Next]_vars => SessionAlive'
<1> SUFFICES ASSUME TypeOK, SessionAlive, [Next]_vars PROVE SessionAlive'
  OBVIOUS
<1> USE NoneIsNoSocket
<1>0. ASSUME NEW g \in URLs, Connect(g), UNCHANGED session PROVE SessionAlive'
  BY <1>0, ConnectKeepsOpen DEF SessionAlive, TypeOK
<1>1. ASSUME NEW s \in Sockets, OnOpen(s) PROVE SessionAlive'
  <2>1. /\ session' = session /\ greeted' = greeted
        /\ \A t \in Sockets : t # s => ready'[t] = ready[t]
        /\ ready[s] = "connecting"
    BY <1>1 DEF OnOpen, TypeOK
  <2> QED
    BY <2>1 DEF SessionAlive, TypeOK
<1>2. ASSUME NEW s \in Sockets, OnSessionData(s) PROVE SessionAlive'
  BY <1>2 DEF OnSessionData, Delivers, SessionAlive
<1>3. ASSUME NEW s \in Sockets, FailToOpen(s) \/ Closed(s) PROVE SessionAlive'
  BY <1>3 DEF FailToOpen, Fails, OnErrorThenClose, Closed, OnClose, SessionAlive
<1>4. CASE TimerFires
  <2>1. timer.goal \in URLs
    BY <1>4 DEF TimerFires, TypeOK, NoTimer
  <2> QED
    BY <1>4, <2>1, <1>0 DEF TimerFires
<1>5. ASSUME NEW g \in URLs, LooseTimerFires(g) PROVE SessionAlive'
  BY <1>5, <1>0 DEF LooseTimerFires
<1>6. CASE Restart
  <2>1. session' = session /\ greeted' = greeted
    BY <1>6, DisconnectType DEF Restart
  <2>2. \A s \in Sockets : ready[s] \in {"open", "closing"} => ready'[s] \in {"open", "closing"}
    BY <1>6 DEF Restart, Disconnect, TypeOK, socketVars
  <2> QED
    BY <2>1, <2>2 DEF SessionAlive, TypeOK
<1>7. ASSUME NEW g \in Shells, ConnectExternal(g) \/ StartShell(g) PROVE SessionAlive'
  BY <1>7 DEF ConnectExternal, StartShell, GoesOn, SessionAlive
<1>8. ASSUME NEW g \in Shells, ShellReady(g) PROVE SessionAlive'
  BY <1>8, LauncherCases, <1>0 DEF LauncherConnects, ShellReady
<1>9. CASE UNCHANGED <<session, socketVars>>
  BY <1>9 DEF socketVars, SessionAlive
<1> QED
  BY <1>1, <1>2, <1>3, <1>4, <1>5, <1>6, <1>7, <1>8, <1>9, RequestsKeepConnection
     DEF Next, SocketStep, LauncherStep, Launch, ProcessExits, ShellCrashes, vars

\* A slot is taken only when it is closed, so it is not one that delivers.
LEMMA InProgressNext == TypeOK /\ HeldInv /\ InProgress /\ [Next]_vars => InProgress'
<1> SUFFICES ASSUME TypeOK, HeldInv, InProgress, [Next]_vars PROVE InProgress'
  OBVIOUS
<1> USE NoneIsNoSocket
<1>0. ASSUME NEW g \in URLs, Connect(g), UNCHANGED via PROVE InProgress'
  <2> SUFFICES ASSUME NEW r \in Requests, via[r] # None
               PROVE  /\ ready'[via[r]] \in {"open", "closing"}
                      /\ ready'[via[r]] = "open" => via[r] = socket'
    BY <1>0 DEF InProgress, Delivers
  <2>1. via[r] \in Sockets /\ ready[via[r]] \in {"open", "closing"}
    BY DEF InProgress, Delivers, TypeOK
  <2>2. ready'[via[r]] = ready[via[r]]
    BY <1>0, <2>1, ConnectKeepsOpen
  <2>3. ASSUME ready[via[r]] = "open" PROVE via[r] = socket'
    <3>1. Connected
      BY <2>3, <2>1 DEF InProgress, Connected, Live
    <3> QED
      BY <2>3, <3>1, <1>0, ConnectEffect DEF InProgress
  <2> QED
    BY <2>1, <2>2, <2>3
<1>1. ASSUME NEW s \in Sockets, OnOpen(s) PROVE InProgress'
  BY <1>1 DEF OnOpen, InProgress, Delivers, TypeOK, requestVars
<1>2. ASSUME NEW s \in Sockets, OnSessionData(s) PROVE InProgress'
  BY <1>2 DEF OnSessionData, InProgress, Delivers, requestVars
<1>3. ASSUME NEW s \in Sockets, FailToOpen(s) PROVE InProgress'
  <2>1. ready[s] \in {"connecting", "aborting"}
    BY <1>3 DEF FailToOpen
  <2> QED
    BY <1>3, <2>1 DEF FailToOpen, Fails, InProgress, Delivers, TypeOK, requestVars
<1>4. ASSUME NEW s \in Sockets, Closed(s) PROVE InProgress'
  BY <1>4 DEF Closed, Forsake, InProgress, Delivers, TypeOK
<1>5. CASE TimerFires
  <2>1. timer.goal \in URLs
    BY <1>5 DEF TimerFires, TypeOK, NoTimer
  <2> QED
    BY <1>5, <2>1, <1>0 DEF TimerFires, requestVars
<1>6. ASSUME NEW g \in URLs, LooseTimerFires(g) PROVE InProgress'
  BY <1>6, <1>0 DEF LooseTimerFires, requestVars
<1>7. CASE Restart
  BY <1>7 DEF Restart, Disconnect, InProgress, Delivers, TypeOK, socketVars, requestVars
<1>8. ASSUME NEW g \in Shells, ConnectExternal(g) \/ ShellReady(g) PROVE InProgress'
  BY <1>8, LauncherCases, <1>0 DEF LauncherConnects, requestVars
<1>10. ASSUME NEW r \in Requests, Send(r) PROVE InProgress'
  BY <1>10 DEF Send, InProgress, Delivers, TypeOK, socketVars
<1>12. CASE UNCHANGED <<socketVars, via>>
  BY <1>12 DEF socketVars, InProgress, Delivers
<1> QED
  BY <1>1, <1>2, <1>3, <1>4, <1>5, <1>6, <1>7, <1>8, <1>10, <1>12
     DEF Next, SocketStep, LauncherStep, RequestStep, StartShell, Launch, ProcessExits,
         ShellCrashes, EmitData, EmitEnd, OnData, CallbackDone, OnEnd, vars, requestVars

LEMMA AccountedNext == TypeOK /\ Accounted /\ [Next]_vars => Accounted'
<1> SUFFICES ASSUME TypeOK, Accounted, [Next]_vars PROVE Accounted'
  OBVIOUS
<1> USE NoneIsNoSocket
<1>0. ASSUME UNCHANGED <<promise, ongoing, ending>>,
             \A r \in Requests : via'[r] \in {None, via[r]}
      PROVE  Accounted'
  BY <1>0 DEF Accounted
<1>1. CASE SocketStep
  <2>1. \A r \in Requests : via'[r] \in {None, via[r]}
    BY <1>1 DEF SocketStep, OnOpen, OnSessionData, FailToOpen, Fails, Closed, Forsake,
                TimerFires, LooseTimerFires, requestVars
  <2>2. UNCHANGED <<promise, ongoing, ending>>
    BY <1>1 DEF SocketStep, OnOpen, OnSessionData, FailToOpen, Fails, Closed, Forsake,
                TimerFires, LooseTimerFires, requestVars
  <2> QED
    BY <2>1, <2>2, <1>0
<1>2. CASE UNCHANGED requestVars
  BY <1>2, <1>0 DEF requestVars
<1>3. ASSUME NEW r \in Requests, Send(r) PROVE Accounted'
  BY <1>3 DEF Send, Accounted, TypeOK
<1>5. ASSUME NEW r \in Requests, EmitEnd(r) PROVE Accounted'
  BY <1>5 DEF EmitEnd, Served, Accounted, TypeOK, Endings
<1>6. CASE UNCHANGED <<promise, ongoing, ending, via>>
  BY <1>6 DEF Accounted
<1>8. ASSUME NEW r \in Requests, OnEnd(r) PROVE Accounted'
  BY <1>8 DEF OnEnd, EndArrives, Settle, Accounted, TypeOK, Endings
<1> QED
  BY <1>1, <1>2, <1>3, <1>5, <1>6, <1>8
     DEF Next, LauncherStep, RequestStep, Restart, ConnectExternal, StartShell, Launch,
         ShellReady, ProcessExits, ShellCrashes, EmitData, OnData, CallbackDone, vars,
         requestVars

-----------------------------------------------------------------------------
(* Theorems                                                                  *)

LEMMA IInvInit == Init => IInv
<1> SUFFICES ASSUME Init PROVE IInv
  OBVIOUS
<1>1. TypeOK
  BY TypeInit
<1>3. 1 \in Sockets /\ Sockets = Shells
  BY SchedulerAssumption DEF Sockets, Shells
<1>4. HeldInv
  BY <1>3 DEF Init, HeldInv, FlagMatchesSocket, HeldIsNotClosing, OneLiveSocket, Live
<1>5. RetryScheduled
  BY <1>3 DEF Init, RetryScheduled
<1>6. SessionAlive
  BY DEF Init, SessionAlive
<1>7. InProgress
  BY DEF Init, InProgress
<1>8. Accounted
  BY DEF Init, Accounted
<1> QED
  BY <1>1, <1>4, <1>5, <1>6, <1>7, <1>8 DEF IInv

LEMMA IInvNext == IInv /\ [Next]_vars => IInv'
BY TypeNext, HeldNext, RetryNext, SessionNext, InProgressNext, AccountedNext
   DEF IInv

LEMMA Inductive == Spec => []IInv
<1>1. Init => IInv
  BY IInvInit
<1>2. IInv /\ [Next]_vars => IInv'
  BY IInvNext
<1> QED
  BY <1>1, <1>2, PTL DEF Spec

\* The variables of the scheduler and of its requests keep their types.
THEOREM TypeCorrect == Spec => []TypeOK
<1>1. IInv => TypeOK
  BY DEF IInv
<1> QED
  BY <1>1, Inductive, PTL

\* Only one socket is open or opening and it is the one the scheduler holds,
\* for any number of shells, losses and timers that were overwritten.
THEOREM SocketUnique == Spec => []OneLiveSocket
<1>1. IInv => OneLiveSocket
  BY DEF IInv, HeldInv
<1> QED
  BY <1>1, Inductive, PTL

\* A held socket that is closed has an armed timer behind it, for any number of
\* losses and whatever the launcher does.
THEOREM AlwaysRetried == Spec => []RetryScheduled
<1>1. IInv => RetryScheduled
  BY DEF IInv
<1> QED
  BY <1>1, Inductive, PTL

\* Session data belong to a socket that is not closed.
THEOREM SessionEndsWithSocket == Spec => []SessionAlive
<1>1. IInv => SessionAlive
  BY DEF IInv
<1> QED
  BY <1>1, Inductive, PTL

\* An answer finds its request registered and pending, and comes through the
\* held socket or through one that is closing, for every set of requests and
\* any number of overlapping restarts and losses.
THEOREM AnswersFindTheirRequest == Spec => []AnswerUnderway
<1>1. IInv => AnswerUnderway
  <2> SUFFICES ASSUME IInv, NEW r \in Requests
               PROVE  /\ promise[r] = "pending" => r \in ongoing
                      /\ via[r] # None =>
                            /\ Delivers(via[r])
                            /\ via[r] # socket => ready[via[r]] = "closing"
                            /\ ending[r] # "delivered" => promise[r] = "pending" /\ r \in ongoing
    BY DEF AnswerUnderway
  <2> QED
    BY DEF IInv, InProgress, Accounted, Delivers
<1> QED
  BY <1>1, Inductive, PTL
=============================================================================
