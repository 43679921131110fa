------------------------------ MODULE Connection ------------------------------
(***************************************************************************)
(* The connections of one GChatClient: the supervision loop and the XSRF   *)
(* refresh loop of every gchatmeow.Client it starts (pkg/gchatmeow/        *)
(* client.go), the connection-state callback both of them run, and the     *)
(* bridge's own calls of Connect, Disconnect and LogoutRemote              *)
(* (pkg/connector/client.go, login.go).                                    *)
(*                                                                         *)
(* A goroutine is a pair of a connection and "loop" or "xsrf".  Listen is  *)
(* reduced to the states it reports and what it returns (module Channel    *)
(* has the rest), and a wait to its end: backoff only says how long it is. *)
(***************************************************************************)
EXTENDS Naturals

CONSTANTS
  MaxConns,   \* bound: connections wireAndStart makes
  MaxResyncs, \* maxSIDInvalidResyncs (3)
  MaxRefused, \* xsrfRefreshAuthFailuresBeforeGivingUp (2)
  Callers     \* the bridge goroutines that call into the client

ASSUME ConstantsAssumption ==
  /\ MaxConns \in Nat \ {0} /\ MaxResyncs \in Nat /\ MaxRefused \in Nat \ {0}

Conns == 1..MaxConns
Routines == {"loop", "xsrf"}
States == {"connected", "transient", "badCredentials", "fatal"}

VARIABLES
  conn,            \* GChatClient.conn, 0 for nil
  initialSyncDone, \* the latch of shouldSyncOnConnect
  synced,          \* a syncChats goroutine has been started
  lastState,       \* the last state reported and cached for IsLoggedIn
  loggedOut,       \* set by LogoutRemote
  cookies,         \* the metadata holds a cookie set
  wired,           \* connections made so far
  caller,          \* caller[k]: where the bridge's call k stands
  cancelled,       \* cancelled[c]: Disconnect has cancelled c's Connect
  token,           \* token[c]: c has an XSRF token
  loop,            \* loop[c]: where c's Connect stands
  resyncCount,     \* resyncCount[c], a local of Connect
  xsrf,            \* xsrf[c]: where c's xsrfRefreshLoop stands
  authFails,       \* authFails[c], a local of xsrfRefreshLoop
  cb               \* cb[c][r]: the state callback goroutine r of c is in

client == <<conn, initialSyncDone, synced, lastState, loggedOut, cookies>>
bridge == <<wired, caller>>
locals == <<resyncCount, authFails, token>>
vars   == <<client, bridge, cancelled, locals, loop, xsrf, cb>>

NoCall == [at |-> "idle", logout |-> FALSE, new |-> 0, old |-> 0]
NoCb   == [at |-> "none", state |-> "connected", then |-> "listen"]

CallStates == {"idle", "reset", "swap", "stop", "start", "clear"}
LoopStates == {"unborn", "new", "top", "token", "listen", "report", "sleep", "fatalSleep",
               "return", "done"}
XsrfStates == {"unborn", "wait", "report", "giveUp", "done"}

TypeOK ==
  /\ conn \in 0..wired /\ wired \in 0..MaxConns
  /\ initialSyncDone \in BOOLEAN /\ synced \in BOOLEAN
  /\ lastState \in States \cup {"none"}
  /\ loggedOut \in BOOLEAN /\ cookies \in BOOLEAN
  /\ caller \in [Callers -> [at : CallStates, logout : BOOLEAN, new : 0..wired,
                           old : 0..wired]]
  /\ cancelled \in [Conns -> BOOLEAN] /\ token \in [Conns -> BOOLEAN]
  /\ loop \in [Conns -> LoopStates] /\ xsrf \in [Conns -> XsrfStates]
  /\ resyncCount \in [Conns -> 0..(MaxResyncs + 1)]
  /\ authFails \in [Conns -> 0..MaxRefused]
  /\ cb \in [Conns -> [Routines ->
       [at : {"none", "check", "report", "persist", "latch"}, state : States,
        then : LoopStates \cup XsrfStates]]]

(* Client.cancel is set: Connect has begun and has not returned. *)
Running(c) == loop[c] \notin {"unborn", "new", "done"}

(* The context of c's Connect is over. *)
Dead(c) == cancelled[c] \/ loop[c] = "done"

(* A client as LoadUserLogin makes it. *)
Init ==
  /\ conn = 0 /\ initialSyncDone = FALSE /\ synced = FALSE
  /\ lastState = "none"
  /\ loggedOut = FALSE /\ cookies \in BOOLEAN
  /\ wired = 0 /\ caller = [k \in Callers |-> NoCall]
  /\ cancelled = [c \in Conns |-> FALSE] /\ token = [c \in Conns |-> FALSE]
  /\ loop = [c \in Conns |-> "unborn"] /\ xsrf = [c \in Conns |-> "unborn"]
  /\ resyncCount = [c \in Conns |-> 0] /\ authFails = [c \in Conns |-> 0]
  /\ cb = [c \in Conns |-> [r \in Routines |-> NoCb]]

------------------------------------------------------------------------------
(* The state callback: connStateCallback, handleConnState, reportState.    *)

(* Goroutine r of c calls emitState(s), and then goes on at t. *)
Emit(c, r, s, t) ==
  cb' = [cb EXCEPT ![c][r] = [at |-> "check", state |-> s, then |-> t]]

CbGo(c, r, a) == cb' = [cb EXCEPT ![c][r].at = a]

(* The callback returns to its goroutine. *)
CbReturn(c, r) ==
  /\ cb' = [cb EXCEPT ![c][r] = NoCb]
  /\ IF r = "loop"
     THEN loop' = [loop EXCEPT ![c] = cb[c][r].then] /\ UNCHANGED xsrf
     ELSE xsrf' = [xsrf EXCEPT ![c] = cb[c][r].then] /\ UNCHANGED loop

(* A superseded connection is not listened to; but the check is all it is: *)
(* c may be superseded right after it.                                     *)
CbCheck(c, r) ==
  /\ cb[c][r].at = "check"
  /\ IF conn = c THEN CbGo(c, r, "report") /\ UNCHANGED <<loop, xsrf>>
                 ELSE CbReturn(c, r)
  /\ UNCHANGED <<client, bridge, cancelled, locals>>

(* reportBridgeState caches the state and sends it; only Connected does    *)
(* more.                                                                   *)
CbReport(c, r) ==
  /\ cb[c][r].at = "report"
  /\ lastState' = cb[c][r].state
  /\ IF cb[c][r].state = "connected" THEN CbGo(c, r, "persist") /\ UNCHANGED <<loop, xsrf>>
                                     ELSE CbReturn(c, r)
  /\ UNCHANGED <<conn, initialSyncDone, synced, loggedOut, cookies, bridge, cancelled, locals>>

(* Mutant: persistCookies does not look at loggedOut. *)
CbPersistAnyway(c, r) ==
  /\ cb[c][r].at = "persist"
  /\ cookies' = TRUE
  /\ CbGo(c, r, "latch")
  /\ UNCHANGED <<conn, initialSyncDone, synced, lastState, loggedOut, bridge, cancelled, locals,
                 loop, xsrf>>

(* persistCookies, under metaMu. *)
CbPersist(c, r) ==
  /\ cb[c][r].at = "persist"
  /\ cookies' = (cookies \/ ~loggedOut)
  /\ CbGo(c, r, "latch")
  /\ UNCHANGED <<conn, initialSyncDone, synced, lastState, loggedOut, bridge, cancelled, locals,
                 loop, xsrf>>

(* shouldSyncOnConnect: the first takes the latch and starts syncChats,    *)
(* the others start catchUp.                                               *)
CbLatch(c, r) ==
  /\ cb[c][r].at = "latch"
  /\ initialSyncDone' = TRUE
  /\ synced' = (synced \/ ~initialSyncDone)
  /\ CbReturn(c, r)
  /\ UNCHANGED <<conn, lastState, loggedOut, cookies, bridge, cancelled, locals>>

(* A syncChats that fails gives the latch back, at any time from its start *)
(* on (when it really may, module EventStream says).                       *)
SyncFails ==
  /\ synced /\ initialSyncDone
  /\ initialSyncDone' = FALSE
  /\ UNCHANGED <<conn, synced, lastState, loggedOut, cookies, bridge, cancelled, locals, loop,
                 xsrf, cb>>

------------------------------------------------------------------------------
(* The supervision loop, Client.Connect. *)

Goto(c, l) == loop' = [loop EXCEPT ![c] = l]

(* The goroutine starts: only now can Disconnect reach it. *)
LoopStarts(c) ==
  /\ loop[c] = "new"
  /\ Goto(c, "top")
  /\ xsrf' = [xsrf EXCEPT ![c] = "wait"]
  /\ UNCHANGED <<client, bridge, cancelled, locals, cb>>

(* ensureToken finds a token that is fresh enough, or goes and gets one. *)
LoopTop(c) ==
  /\ loop[c] = "top"
  /\ \/ Dead(c) /\ Goto(c, "return")
     \/ ~Dead(c) /\ token[c] /\ Goto(c, "listen")
     \/ ~Dead(c) /\ Goto(c, "token")
  /\ UNCHANGED <<client, bridge, cancelled, locals, xsrf, cb>>

TokenOK(c) ==
  /\ loop[c] = "token"
  /\ token' = [token EXCEPT ![c] = TRUE]
  /\ Goto(c, "listen")
  /\ UNCHANGED <<client, bridge, cancelled, resyncCount, authFails, xsrf, cb>>

TokenFails(c) ==
  /\ loop[c] = "token"
  /\ \/ Dead(c) /\ Goto(c, "return") /\ UNCHANGED cb
     \/ /\ ~Dead(c) /\ Goto(c, "report")
        /\ \/ Emit(c, "loop", "badCredentials", "return")
           \/ Emit(c, "loop", "transient", "sleep")
  /\ UNCHANGED <<client, bridge, cancelled, locals, xsrf>>

(* Listen reports that its poll came up or dropped. *)
ListenReports(c) ==
  /\ loop[c] = "listen"
  /\ Goto(c, "report")
  /\ \E s \in {"connected", "transient"} : Emit(c, "loop", s, "listen")
  /\ UNCHANGED <<client, bridge, cancelled, locals, xsrf>>

(* Listen returns after the context was cancelled. *)
ListenCancelled(c) ==
  /\ loop[c] = "listen" /\ Dead(c)
  /\ Goto(c, "return")
  /\ UNCHANGED <<client, bridge, cancelled, locals, xsrf, cb>>

(* The 90 minutes are over: the next channel, and no word of it. *)
ListenExpires(c) ==
  /\ loop[c] = "listen" /\ ~Dead(c)
  /\ resyncCount' = [resyncCount EXCEPT ![c] = 0]
  /\ Goto(c, "top")
  /\ UNCHANGED <<client, bridge, cancelled, authFails, token, xsrf, cb>>

(* One SIDInvalid too many in a row is fatal; the others are only waited   *)
(* out.                                                                    *)
ListenSIDInvalid(c) ==
  /\ loop[c] = "listen" /\ ~Dead(c)
  /\ resyncCount' = [resyncCount EXCEPT ![c] = @ + 1]
  /\ IF resyncCount[c] + 1 > MaxResyncs
     THEN Goto(c, "report") /\ Emit(c, "loop", "fatal", "fatalSleep")
     ELSE Goto(c, "sleep") /\ UNCHANGED cb
  /\ UNCHANGED <<client, bridge, cancelled, authFails, token, xsrf>>

(* Mutant: bad credentials end the loop without a report. *)
ListenRefusedSilently(c) ==
  /\ loop[c] = "listen" /\ ~Dead(c)
  /\ Goto(c, "return")
  /\ UNCHANGED <<client, bridge, cancelled, locals, xsrf, cb>>

ListenRefused(c) ==
  /\ loop[c] = "listen" /\ ~Dead(c)
  /\ Goto(c, "report") /\ Emit(c, "loop", "badCredentials", "return")
  /\ UNCHANGED <<client, bridge, cancelled, locals, xsrf>>

(* A NetworkError, and every other error. *)
ListenFails(c) ==
  /\ loop[c] = "listen" /\ ~Dead(c)
  /\ resyncCount' = [resyncCount EXCEPT ![c] = 0]
  /\ Goto(c, "report") /\ Emit(c, "loop", "transient", "sleep")
  /\ UNCHANGED <<client, bridge, cancelled, authFails, token, xsrf>>

SleepEnds(c) ==
  /\ loop[c] = "sleep"
  /\ Goto(c, IF Dead(c) THEN "return" ELSE "top")
  /\ UNCHANGED <<client, bridge, cancelled, locals, xsrf, cb>>

(* Mutant: the count is not reset after a fatal report. *)
FatalSleepKeepsCount(c) ==
  /\ loop[c] = "fatalSleep"
  /\ Goto(c, IF Dead(c) THEN "return" ELSE "top")
  /\ UNCHANGED <<client, bridge, cancelled, locals, xsrf, cb>>

(* After a fatal report the loop waits for longer, and starts afresh. *)
FatalSleepEnds(c) ==
  /\ loop[c] = "fatalSleep"
  /\ IF Dead(c) THEN Goto(c, "return") /\ UNCHANGED resyncCount
                ELSE Goto(c, "top") /\ resyncCount' = [resyncCount EXCEPT ![c] = 0]
  /\ UNCHANGED <<client, bridge, cancelled, authFails, token, xsrf, cb>>

(* The deferred clean-up cancels the context, for xsrfRefreshLoop, and     *)
(* clears Client.cancel; the locals are gone.                              *)
LoopReturns(c) ==
  /\ loop[c] = "return"
  /\ Goto(c, "done")
  /\ resyncCount' = [resyncCount EXCEPT ![c] = 0]
  /\ UNCHANGED <<client, bridge, cancelled, authFails, token, xsrf, cb>>

------------------------------------------------------------------------------
(* xsrfRefreshLoop. *)

XsrfGoto(c, x) == xsrf' = [xsrf EXCEPT ![c] = x]

XsrfEnds(c) ==
  /\ xsrf[c] = "wait" /\ Dead(c)
  /\ XsrfGoto(c, "done") /\ authFails' = [authFails EXCEPT ![c] = 0]
  /\ UNCHANGED <<client, bridge, cancelled, resyncCount, token, loop, cb>>

(* A new token, or a failure that is no refusal: the count starts again. *)
XsrfAnswered(c) ==
  /\ xsrf[c] = "wait"
  /\ \/ token' = [token EXCEPT ![c] = TRUE] /\ XsrfGoto(c, "wait")
     \/ UNCHANGED token /\ XsrfGoto(c, IF Dead(c) THEN "done" ELSE "wait")
  /\ authFails' = [authFails EXCEPT ![c] = 0]
  /\ UNCHANGED <<client, bridge, cancelled, resyncCount, loop, cb>>

XsrfRefused(c) ==
  /\ xsrf[c] = "wait" /\ ~Dead(c)
  /\ authFails' = [authFails EXCEPT ![c] = @ + 1]
  /\ IF authFails[c] + 1 < MaxRefused
     THEN XsrfGoto(c, "wait") /\ UNCHANGED cb
     ELSE XsrfGoto(c, "report") /\ Emit(c, "xsrf", "badCredentials", "giveUp")
  /\ UNCHANGED <<client, bridge, cancelled, resyncCount, token, loop>>

(* Mutant: the loop gives up without disconnecting. *)
XsrfGivesUpOnly(c) ==
  /\ xsrf[c] = "giveUp"
  /\ XsrfGoto(c, "done")
  /\ UNCHANGED <<client, bridge, cancelled, locals, loop, cb>>

(* c.Disconnect() from the refresh loop itself. *)
XsrfGivesUp(c) ==
  /\ xsrf[c] = "giveUp"
  /\ XsrfGoto(c, "done")
  /\ cancelled' = [cancelled EXCEPT ![c] = @ \/ Running(c)]
  /\ UNCHANGED <<client, bridge, locals, loop, cb>>

------------------------------------------------------------------------------
(* The bridge's calls. *)

CallGo(k, a) == caller' = [caller EXCEPT ![k].at = a]

(* Connect allows cookies to be saved again; without a stored set it only  *)
(* reports that, else it goes on to wireAndStart with a new connection.    *)
Connect(k) ==
  /\ caller[k].at = "idle"
  /\ loggedOut' = FALSE
  /\ \/ ~cookies /\ lastState' = "badCredentials" /\ UNCHANGED bridge
     \/ /\ cookies /\ wired < MaxConns /\ UNCHANGED lastState
        /\ wired' = wired + 1
        /\ caller' = [caller EXCEPT ![k] = [NoCall EXCEPT !.at = "reset", !.new = wired + 1]]
  /\ UNCHANGED <<conn, initialSyncDone, synced, cookies, cancelled, locals, loop, xsrf, cb>>

(* SubmitCookies has stored the cookies and hands over the client that     *)
(* validated them, token and all.                                          *)
Attach(k) ==
  /\ caller[k].at = "idle" /\ wired = 0 /\ cookies
  /\ wired' = 1
  /\ caller' = [caller EXCEPT ![k] = [NoCall EXCEPT !.at = "reset", !.new = 1]]
  /\ token' = [token EXCEPT ![1] = TRUE]
  /\ UNCHANGED <<client, cancelled, resyncCount, authFails, loop, xsrf, cb>>

(* wireAndStart: the latch is opened, ... *)
WireReset(k) ==
  /\ caller[k].at = "reset"
  /\ initialSyncDone' = FALSE
  /\ CallGo(k, "swap")
  /\ UNCHANGED <<conn, synced, lastState, loggedOut, cookies, wired, cancelled, locals, loop, xsrf,
                 cb>>

(* ... the new connection takes the place of the old, ... *)
WireSwap(k) ==
  /\ caller[k].at = "swap"
  /\ conn' = caller[k].new
  /\ caller' = [caller EXCEPT ![k].at = "stop", ![k].old = conn]
  /\ UNCHANGED <<initialSyncDone, synced, lastState, loggedOut, cookies, wired, cancelled, locals,
                 loop, xsrf, cb>>

(* ... the old one is disconnected, and the new one starts: the end of     *)
(* Stop.  Disconnect and LogoutRemote only disconnect.                     *)
Disconnect(k) ==
  /\ caller[k].at = "idle"
  /\ \E logout \in BOOLEAN :
       caller' = [caller EXCEPT ![k] =
                    [NoCall EXCEPT !.at = "stop", !.old = conn, !.logout = logout]]
  /\ UNCHANGED <<client, wired, cancelled, locals, loop, xsrf, cb>>

(* Client.Disconnect cancels a Connect that runs, and does nothing to one  *)
(* that is yet to run.                                                     *)
Stop(k) ==
  LET c == caller[k].old
  IN /\ caller[k].at = "stop"
     /\ cancelled' = [x \in Conns |-> cancelled[x] \/ (x = c /\ Running(x))]
     /\ IF caller[k].new # 0 THEN CallGo(k, "start")
        ELSE IF caller[k].logout THEN CallGo(k, "clear")
        ELSE caller' = [caller EXCEPT ![k] = NoCall]
     /\ UNCHANGED <<client, wired, locals, loop, xsrf, cb>>

(* go conn.Connect(ctx). *)
WireStart(k) ==
  /\ caller[k].at = "start"
  /\ Goto(caller[k].new, "new")
  /\ caller' = [caller EXCEPT ![k] = NoCall]
  /\ UNCHANGED <<client, wired, cancelled, locals, xsrf, cb>>

(* The second half of LogoutRemote, under metaMu. *)
LogoutClear(k) ==
  /\ caller[k].at = "clear"
  /\ loggedOut' = TRUE /\ cookies' = FALSE
  /\ caller' = [caller EXCEPT ![k] = NoCall]
  /\ UNCHANGED <<conn, initialSyncDone, synced, lastState, wired, cancelled, locals, loop, xsrf,
                 cb>>

------------------------------------------------------------------------------
Callback(c, r) ==
  CbCheck(c, r) \/ CbReport(c, r) \/ CbPersist(c, r) \/ CbLatch(c, r)

Loop(c) ==
  \/ LoopStarts(c) \/ LoopTop(c) \/ TokenOK(c) \/ TokenFails(c)
  \/ ListenReports(c) \/ ListenCancelled(c) \/ ListenExpires(c)
  \/ ListenSIDInvalid(c) \/ ListenRefused(c) \/ ListenFails(c)
  \/ SleepEnds(c) \/ FatalSleepEnds(c) \/ LoopReturns(c)

Xsrf(c) == XsrfEnds(c) \/ XsrfAnswered(c) \/ XsrfRefused(c) \/ XsrfGivesUp(c)

Call(k) ==
  \/ Connect(k) \/ Attach(k)
  \/ WireReset(k) \/ WireSwap(k) \/ WireStart(k)
  \/ Disconnect(k) \/ Stop(k) \/ LogoutClear(k)

Next ==
  \/ SyncFails
  \/ \E c \in Conns : Loop(c) \/ Xsrf(c) \/ \E r \in Routines : Callback(c, r)
  \/ \E k \in Callers : Call(k)

Spec == Init /\ [][Next]_vars

(* The goroutines run, callbacks return, waits end, and a cancelled Listen *)
(* notices, however often it is reporting meanwhile.  Nothing makes Listen *)
(* return otherwise, or the bridge call.                                   *)
FairSpec ==
  /\ Spec
  /\ \A c \in Conns :
       /\ WF_vars(LoopStarts(c)) /\ WF_vars(LoopTop(c)) /\ WF_vars(TokenOK(c) \/ TokenFails(c))
       /\ WF_vars(SleepEnds(c) \/ FatalSleepEnds(c)) /\ WF_vars(LoopReturns(c))
       /\ SF_vars(ListenCancelled(c))
       /\ WF_vars(XsrfGivesUp(c))
       /\ \A r \in Routines : WF_vars(Callback(c, r))

------------------------------------------------------------------------------
(* Properties. *)

(* After LogoutRemote no callback that is still under way brings the       *)
(* cookies back, until Connect is called again (client.go, loggedOut).     *)
LoggedOutStaysOut == loggedOut => ~cookies

(* While the login has had one connection, a loop that ended without being *)
(* cancelled has told the bridge that the credentials are bad: the login   *)
(* is never dead in silence (gchatmeow/client.go, Connect).                *)
EndIsReported ==
  wired = 1 /\ loop[1] = "done" /\ ~cancelled[1] => lastState = "badCredentials"

(* A connection that was disconnected, or whose refresh loop has given up, *)
(* ends, whatever it is waiting for (gchatmeow/client.go, Disconnect).     *)
CancelledEnds ==
  \A c \in Conns : (cancelled[c] \/ xsrf[c] = "giveUp") ~> loop[c] = "done"

(* What the comment on connStateCallback says of a superseded connection,  *)
(* "a late Connected would consume the new conn's sync latch", and the     *)
(* changelog, "can no longer steal the initial-sync latch".                *)
(* It does not hold (README, Violations).                                  *)
LatchIsNotStolen ==
  [][\A c \in Conns : CbLatch(c, "loop") /\ ~initialSyncDone => conn = c]_vars

(* What docs/ARCHITECTURE.md says of a signed-out mole/world,              *)
(* "BAD_CREDENTIALS, user re-logs in": once the refresh loop has given the *)
(* session up and Connect has returned, that is the state on show.         *)
(* It does not hold (README, Violations).                                  *)
RefusedStaysTold ==
  wired = 1 /\ loop[1] = "done" /\ xsrf[1] = "done" /\ authFails[1] = MaxRefused
    => lastState = "badCredentials"
=============================================================================
