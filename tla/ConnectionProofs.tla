-------------------------- MODULE ConnectionProofs --------------------------
(***************************************************************************)
(* Proofs about Connection, for any number of connections, callers and     *)
(* any limits: types, LoggedOutStaysOut and EndIsReported.  The first two  *)
(* need little; the third rests on the inductive invariant IInv.           *)
(***************************************************************************)
EXTENDS Connection, TLAPS

(* wireAndStart: a connection belongs to the one call that wires it until  *)
(* that call starts it, and once it may start conn is set for good.        *)
CallsOK ==
  \A k \in Callers :
    /\ caller[k].at \in {"reset", "swap", "start"} => caller[k].new # 0
    /\ caller[k].new # 0 => loop[caller[k].new] = "unborn"
    /\ caller[k].at \in {"stop", "start"} /\ caller[k].new # 0 => conn # 0
    /\ \A l \in Callers \ {k} : caller[k].new # 0 => caller[l].new # caller[k].new

(* The two loops of a connection: they run only once conn is set, and the  *)
(* counts stay under their limits except on the way to the report of it.   *)
LoopsOK ==
  \A c \in Conns :
    /\ loop[c] # "unborn" => c <= wired /\ conn # 0
    /\ loop[c] \in {"unborn", "new"} => xsrf[c] = "unborn"
    /\ \/ resyncCount[c] <= MaxResyncs
       \/ loop[c] \in {"fatalSleep", "return"}
       \/ loop[c] = "report" /\ cb[c]["loop"].then = "fatalSleep"
    /\ authFails[c] < MaxRefused \/ xsrf[c] \in {"report", "giveUp", "done"}

(* A callback belongs to a goroutine that waits for it, and a goroutine    *)
(* that will end reports bad credentials.                                  *)
LoopCbOK(c) ==
  cb[c]["loop"].at # "none" =>
    /\ loop[c] = "report"
    /\ cb[c]["loop"].then \in {"listen", "sleep", "fatalSleep", "return"}
    /\ cb[c]["loop"].then = "return" => cb[c]["loop"].state = "badCredentials"
    /\ cb[c]["loop"].at \in {"persist", "latch"} => cb[c]["loop"].state = "connected"

XsrfCbOK(c) ==
  cb[c]["xsrf"].at # "none" =>
    /\ xsrf[c] = "report"
    /\ cb[c]["xsrf"].then = "giveUp"
    /\ cb[c]["xsrf"].at \in {"check", "report"}
    /\ cb[c]["xsrf"].state = "badCredentials"

CallbacksOK == \A c \in Conns : LoopCbOK(c) /\ XsrfCbOK(c)

(* EndIsReported, from the moment on the loop decides to return.           *)
Ended ==
  wired = 1 /\ loop[1] \in {"return", "done"} /\ ~cancelled[1] => lastState = "badCredentials"

IInv == TypeOK /\ CallsOK /\ LoopsOK /\ CallbacksOK /\ Ended

(* The records of a callback and of a call.                                *)
CbRec ==
  [at : {"none", "check", "report", "persist", "latch"}, state : States,
   then : LoopStates \cup XsrfStates]

CallRec(w) == [at : CallStates, logout : BOOLEAN, new : 0..w, old : 0..w]

------------------------------------------------------------------------------
(* Updating one callback or one call.                                      *)

LEMMA CbType == TypeOK => cb \in [Conns -> [Routines -> CbRec]]
  BY DEF TypeOK, CbRec

LEMMA CbUpdate ==
  ASSUME cb \in [Conns -> [Routines -> CbRec]], NEW c \in Conns, NEW r \in Routines,
         NEW v \in CbRec, cb' = [cb EXCEPT ![c][r] = v]
  PROVE  /\ cb' \in [Conns -> [Routines -> CbRec]]
         /\ \A d \in Conns, q \in Routines : cb'[d][q] = IF d = c /\ q = r THEN v ELSE cb[d][q]
  <1>1. cb[c] \in [Routines -> CbRec]
    OBVIOUS
  <1>2. [cb[c] EXCEPT ![r] = v] \in [Routines -> CbRec]
    BY <1>1
  <1>3. cb' = [cb EXCEPT ![c] = [cb[c] EXCEPT ![r] = v]]
    OBVIOUS
  <1>4. cb' \in [Conns -> [Routines -> CbRec]]
    BY <1>2, <1>3
  <1>5. ASSUME NEW d \in Conns, NEW q \in Routines
        PROVE  cb'[d][q] = IF d = c /\ q = r THEN v ELSE cb[d][q]
    BY <1>1, <1>3
  <1> QED
    BY <1>4, <1>5

LEMMA CbGoUpdate ==
  ASSUME cb \in [Conns -> [Routines -> CbRec]], NEW c \in Conns, NEW r \in Routines,
         NEW a \in {"report", "persist", "latch"}, CbGo(c, r, a)
  PROVE  /\ cb' \in [Conns -> [Routines -> CbRec]]
         /\ \A d \in Conns, q \in Routines :
              /\ cb'[d][q].at = IF d = c /\ q = r THEN a ELSE cb[d][q].at
              /\ cb'[d][q].state = cb[d][q].state
              /\ cb'[d][q].then = cb[d][q].then
  <1>1. cb[c][r] \in CbRec
    OBVIOUS
  <1>2. PICK v : v = [cb[c][r] EXCEPT !.at = a]
    OBVIOUS
  <1>3. v \in CbRec /\ v.at = a /\ v.state = cb[c][r].state /\ v.then = cb[c][r].then
    BY <1>1, <1>2 DEF CbRec
  <1>4. cb' = [cb EXCEPT ![c][r] = v]
    BY <1>2 DEF CbGo
  <1> QED
    BY <1>3, <1>4, CbUpdate

LEMMA CallUpdate ==
  ASSUME NEW w \in Nat, caller \in [Callers -> CallRec(w)], NEW k \in Callers,
         NEW u \in Nat, w <= u, NEW v \in CallRec(u), caller' = [caller EXCEPT ![k] = v]
  PROVE  /\ caller' \in [Callers -> CallRec(u)]
         /\ \A l \in Callers : caller'[l] = IF l = k THEN v ELSE caller[l]
  <1>1. \A l \in Callers : caller[l] \in CallRec(u)
    BY DEF CallRec
  <1> QED
    BY <1>1

LEMMA NewConn ==
  TypeOK => \A k \in Callers : caller[k].new # 0 => caller[k].new \in Conns
  BY ConstantsAssumption DEF TypeOK, Conns

------------------------------------------------------------------------------
(* The steps of the two loops, by what they leave alone.                   *)

(* The supervision loop goes on without a callback. *)
LEMMA LoopGoes ==
  ASSUME IInv, NEW c \in Conns,
         NEW l \in {"top", "token", "listen", "sleep", "fatalSleep", "return", "done"},
         NEW n \in 0..(MaxResyncs + 1),
         loop[c] \notin {"unborn", "new", "report"}, Goto(c, l),
         resyncCount' = [resyncCount EXCEPT ![c] = n],
         n <= MaxResyncs \/ l \in {"fatalSleep", "return"},
         l \in {"return", "done"} => cancelled[c] \/ loop[c] \in {"return", "done"},
         token' \in [Conns -> BOOLEAN],
         UNCHANGED <<client, bridge, cancelled, authFails, xsrf, cb>>
  PROVE  IInv'
  <1> USE DEF Conns, Goto, client, bridge
  <1>1. /\ loop' \in [Conns -> LoopStates]
        /\ \A d \in Conns : loop'[d] = IF d = c THEN l ELSE loop[d]
    BY DEF IInv, TypeOK, LoopStates
  <1>2. /\ resyncCount' \in [Conns -> 0..(MaxResyncs + 1)]
        /\ \A d \in Conns : resyncCount'[d] = IF d = c THEN n ELSE resyncCount[d]
    BY DEF IInv, TypeOK
  <1>3. TypeOK'
    BY <1>1, <1>2 DEF IInv, TypeOK
  <1>4. CallsOK'
    BY <1>1 DEF IInv, TypeOK, CallsOK, LoopsOK
  <1>5. LoopsOK'
    BY <1>1, <1>2 DEF IInv, LoopsOK
  <1>6. CallbacksOK'
    BY <1>1 DEF IInv, CallbacksOK, LoopCbOK, XsrfCbOK
  <1>7. Ended'
    BY <1>1, ConstantsAssumption DEF IInv, Ended
  <1> QED
    BY <1>3, <1>4, <1>5, <1>6, <1>7 DEF IInv

(* The supervision loop reports a state, and will go on at t. *)
LEMMA LoopEmits ==
  ASSUME IInv, NEW c \in Conns, NEW s \in States,
         NEW t \in {"listen", "sleep", "fatalSleep", "return"},
         NEW n \in 0..(MaxResyncs + 1),
         loop[c] \in {"token", "listen"}, Goto(c, "report"), Emit(c, "loop", s, t),
         resyncCount' = [resyncCount EXCEPT ![c] = n],
         n <= MaxResyncs \/ t = "fatalSleep",
         t = "return" => s = "badCredentials",
         UNCHANGED <<client, bridge, cancelled, authFails, token, xsrf>>
  PROVE  IInv'
  <1> USE DEF Conns, Goto, client, bridge
  <1>1. /\ loop' \in [Conns -> LoopStates]
        /\ \A d \in Conns : loop'[d] = IF d = c THEN "report" ELSE loop[d]
    BY DEF IInv, TypeOK, LoopStates
  <1>2. /\ resyncCount' \in [Conns -> 0..(MaxResyncs + 1)]
        /\ \A d \in Conns : resyncCount'[d] = IF d = c THEN n ELSE resyncCount[d]
    BY DEF IInv, TypeOK
  <1>3. PICK v : v = [at |-> "check", state |-> s, then |-> t]
    OBVIOUS
  <1>4. v \in CbRec /\ v.at = "check" /\ v.state = s /\ v.then = t
    BY <1>3 DEF CbRec, LoopStates
  <1>5. cb' = [cb EXCEPT ![c]["loop"] = v]
    BY <1>3 DEF Emit
  <1>6. /\ cb' \in [Conns -> [Routines -> CbRec]]
        /\ \A d \in Conns, q \in Routines :
             cb'[d][q] = IF d = c /\ q = "loop" THEN v ELSE cb[d][q]
    BY <1>4, <1>5, CbUpdate, CbType DEF IInv, Routines
  <1>7. /\ \A d \in Conns : cb'[d]["xsrf"] = cb[d]["xsrf"]
        /\ \A d \in Conns : cb'[d]["loop"] = IF d = c THEN v ELSE cb[d]["loop"]
    BY <1>6 DEF Routines
  <1>8. TypeOK'
    BY <1>1, <1>2, <1>6 DEF IInv, TypeOK, CbRec
  <1>9. CallsOK'
    BY <1>1 DEF IInv, TypeOK, CallsOK, LoopsOK
  <1>10. LoopsOK'
    BY <1>1, <1>2, <1>4, <1>7 DEF IInv, LoopsOK
  <1>11. CallbacksOK'
    BY <1>1, <1>4, <1>7 DEF IInv, CallbacksOK, LoopCbOK, XsrfCbOK
  <1>12. Ended'
    BY <1>1, ConstantsAssumption DEF IInv, Ended
  <1> QED
    BY <1>8, <1>9, <1>10, <1>11, <1>12 DEF IInv

(* The refresh loop goes on without a callback. *)
LEMMA XsrfGoes ==
  ASSUME IInv, NEW c \in Conns, NEW x \in {"wait", "done"}, NEW n \in 0..MaxRefused,
         xsrf[c] \in {"wait", "giveUp"}, XsrfGoto(c, x),
         authFails' = [authFails EXCEPT ![c] = n],
         n < MaxRefused \/ x = "done",
         cancelled' \in [Conns -> BOOLEAN], \A d \in Conns : cancelled[d] => cancelled'[d],
         token' \in [Conns -> BOOLEAN],
         UNCHANGED <<client, bridge, resyncCount, loop, cb>>
  PROVE  IInv'
  <1> USE DEF Conns, XsrfGoto, client, bridge
  <1>1. /\ xsrf' \in [Conns -> XsrfStates]
        /\ \A d \in Conns : xsrf'[d] = IF d = c THEN x ELSE xsrf[d]
    BY DEF IInv, TypeOK, XsrfStates
  <1>2. /\ authFails' \in [Conns -> 0..MaxRefused]
        /\ \A d \in Conns : authFails'[d] = IF d = c THEN n ELSE authFails[d]
    BY DEF IInv, TypeOK
  <1>3. TypeOK'
    BY <1>1, <1>2 DEF IInv, TypeOK
  <1>4. CallsOK'
    BY DEF IInv, CallsOK
  <1>5. LoopsOK'
    BY <1>1, <1>2 DEF IInv, LoopsOK
  <1>6. CallbacksOK'
    BY <1>1 DEF IInv, CallbacksOK, LoopCbOK, XsrfCbOK
  <1>7. Ended'
    BY ConstantsAssumption DEF IInv, Ended
  <1> QED
    BY <1>3, <1>4, <1>5, <1>6, <1>7 DEF IInv

LEMMA XsrfRefusedStep ==
  ASSUME IInv, NEW c \in Conns, XsrfRefused(c)
  PROVE  IInv'
  <1> USE DEF Conns, XsrfGoto, client, bridge
  <1>1. xsrf[c] = "wait" /\ authFails[c] < MaxRefused /\ authFails[c] \in 0..MaxRefused
    BY DEF IInv, TypeOK, LoopsOK, XsrfRefused
  <1>2. CASE authFails[c] + 1 < MaxRefused
    <2>1. PICK n \in 0..MaxRefused : n = authFails[c] + 1
      BY <1>1, ConstantsAssumption
    <2>2. authFails' = [authFails EXCEPT ![c] = n] /\ n < MaxRefused
      BY <1>2, <2>1 DEF XsrfRefused
    <2>3. XsrfGoto(c, "wait") /\ UNCHANGED <<client, bridge, cancelled, resyncCount, token, loop, cb>>
      BY <1>2 DEF XsrfRefused
    <2>4. cancelled' \in [Conns -> BOOLEAN] /\ token' \in [Conns -> BOOLEAN]
      BY <2>3 DEF IInv, TypeOK
    <2> QED
      BY <1>1, <2>2, <2>3, <2>4, XsrfGoes
  <1>3. CASE ~(authFails[c] + 1 < MaxRefused)
    <2>1. /\ xsrf' \in [Conns -> XsrfStates]
          /\ \A d \in Conns : xsrf'[d] = IF d = c THEN "report" ELSE xsrf[d]
      BY <1>3 DEF IInv, TypeOK, XsrfStates, XsrfRefused
    <2>2. /\ authFails' \in [Conns -> 0..MaxRefused]
          /\ \A d \in Conns : d # c => authFails'[d] = authFails[d]
      BY <1>1, ConstantsAssumption DEF IInv, TypeOK, XsrfRefused
    <2>3. PICK v : v = [at |-> "check", state |-> "badCredentials", then |-> "giveUp"]
      OBVIOUS
    <2>4. v \in CbRec /\ v.at = "check" /\ v.state = "badCredentials" /\ v.then = "giveUp"
      BY <2>3 DEF CbRec, XsrfStates, States
    <2>5. cb' = [cb EXCEPT ![c]["xsrf"] = v]
      BY <1>3, <2>3 DEF XsrfRefused, Emit
    <2>6. /\ cb' \in [Conns -> [Routines -> CbRec]]
          /\ \A d \in Conns, q \in Routines :
               cb'[d][q] = IF d = c /\ q = "xsrf" THEN v ELSE cb[d][q]
      BY <2>4, <2>5, CbUpdate, CbType DEF IInv, Routines
    <2>7. /\ \A d \in Conns : cb'[d]["loop"] = cb[d]["loop"]
          /\ \A d \in Conns : cb'[d]["xsrf"] = IF d = c THEN v ELSE cb[d]["xsrf"]
      BY <2>6 DEF Routines
    <2>8. UNCHANGED <<client, bridge, cancelled, resyncCount, token, loop>>
      BY DEF XsrfRefused
    <2>9. TypeOK'
      BY <2>1, <2>2, <2>6, <2>8 DEF IInv, TypeOK, CbRec
    <2>10. CallsOK'
      BY <2>8 DEF IInv, CallsOK
    <2>11. LoopsOK'
      BY <1>1, <2>1, <2>2, <2>7, <2>8 DEF IInv, LoopsOK
    <2>12. CallbacksOK'
      BY <2>1, <2>4, <2>7, <2>8 DEF IInv, CallbacksOK, LoopCbOK, XsrfCbOK
    <2>13. Ended'
      BY <2>8 DEF IInv, Ended
    <2> QED
      BY <2>9, <2>10, <2>11, <2>12, <2>13 DEF IInv
  <1> QED
    BY <1>2, <1>3

LEMMA LoopStep ==
  ASSUME IInv, NEW c \in Conns, Loop(c)
  PROVE  IInv'
  <1> USE DEF client, bridge, locals
  <1>1. /\ token \in [Conns -> BOOLEAN] /\ resyncCount[c] \in 0..(MaxResyncs + 1)
        /\ resyncCount = [resyncCount EXCEPT ![c] = resyncCount[c]]
        /\ 0 \in 0..(MaxResyncs + 1) /\ 0 <= MaxResyncs
    BY ConstantsAssumption DEF IInv, TypeOK
  <1>2. loop[c] \in {"top", "token", "listen", "sleep"} => resyncCount[c] <= MaxResyncs
    BY DEF IInv, LoopsOK
  <1>3. CASE LoopStarts(c)
    <2>1. /\ loop' \in [Conns -> LoopStates] /\ xsrf' \in [Conns -> XsrfStates]
          /\ \A d \in Conns : loop'[d] = IF d = c THEN "top" ELSE loop[d]
          /\ \A d \in Conns : xsrf'[d] = IF d = c THEN "wait" ELSE xsrf[d]
          /\ loop[c] = "new"
          /\ UNCHANGED <<client, bridge, cancelled, locals, cb>>
      BY <1>3 DEF LoopStarts, Goto, IInv, TypeOK, LoopStates, XsrfStates
    <2>2. TypeOK'
      BY <2>1 DEF IInv, TypeOK
    <2>3. CallsOK'
      BY <2>1, NewConn DEF IInv, CallsOK
    <2>4. LoopsOK'
      BY <2>1 DEF IInv, LoopsOK
    <2>5. CallbacksOK'
      BY <2>1 DEF IInv, LoopsOK, CallbacksOK, LoopCbOK, XsrfCbOK
    <2>6. Ended'
      BY <2>1, ConstantsAssumption DEF IInv, Ended, Conns
    <2> QED
      BY <2>2, <2>3, <2>4, <2>5, <2>6 DEF IInv
  <1>4. CASE LoopTop(c)
    <2>1. PICK l \in {"top", "token", "listen", "sleep", "fatalSleep", "return", "done"} :
            Goto(c, l) /\ (l = "return" => cancelled[c]) /\ l # "done"
      BY <1>4 DEF LoopTop, Dead
    <2> QED
      BY <1>1, <1>2, <1>4, <2>1, LoopGoes DEF LoopTop
  <1>5. CASE TokenOK(c)
    <2>1. token' \in [Conns -> BOOLEAN]
      BY <1>1, <1>5 DEF TokenOK
    <2> QED
      BY <1>1, <1>2, <1>5, <2>1, LoopGoes DEF TokenOK
  <1>6. CASE TokenFails(c)
    <2>1. CASE Dead(c)
      BY <1>1, <1>2, <1>6, <2>1, LoopGoes DEF TokenFails, Dead
    <2>2. CASE ~Dead(c)
      <3>1. PICK s \in States, t \in {"listen", "sleep", "fatalSleep", "return"} :
              Emit(c, "loop", s, t) /\ (t = "return" => s = "badCredentials")
        BY <1>6, <2>2 DEF TokenFails, States
      <3> QED
        BY <1>1, <1>2, <1>6, <2>2, <3>1, LoopEmits DEF TokenFails
    <2> QED
      BY <2>1, <2>2
  <1>7. CASE ListenReports(c)
    <2>1. PICK s \in States : Emit(c, "loop", s, "listen")
      BY <1>7 DEF ListenReports, States
    <2> QED
      BY <1>1, <1>2, <1>7, <2>1, LoopEmits DEF ListenReports
  <1>8. CASE ListenCancelled(c)
    BY <1>1, <1>2, <1>8, LoopGoes DEF ListenCancelled, Dead
  <1>9. CASE ListenExpires(c)
    BY <1>1, <1>9, LoopGoes DEF ListenExpires
  <1>10. CASE ListenSIDInvalid(c)
    <2>1. PICK n \in 0..(MaxResyncs + 1) : n = resyncCount[c] + 1
      BY <1>1, <1>2, <1>10, ConstantsAssumption DEF ListenSIDInvalid
    <2>2. resyncCount' = [resyncCount EXCEPT ![c] = n]
      BY <1>10, <2>1 DEF ListenSIDInvalid
    <2>3. CASE n > MaxResyncs
      BY <1>1, <1>10, <2>1, <2>2, <2>3, LoopEmits DEF ListenSIDInvalid, States
    <2>4. CASE ~(n > MaxResyncs)
      <3>1. n <= MaxResyncs
        BY <2>4, ConstantsAssumption
      <3> QED
        BY <1>1, <1>10, <2>1, <2>2, <2>4, <3>1, LoopGoes DEF ListenSIDInvalid
    <2> QED
      BY <2>3, <2>4
  <1>11. CASE ListenRefused(c)
    BY <1>1, <1>2, <1>11, LoopEmits DEF ListenRefused, States
  <1>12. CASE ListenFails(c)
    BY <1>1, <1>12, LoopEmits DEF ListenFails, States
  <1>13. CASE SleepEnds(c)
    BY <1>1, <1>2, <1>13, LoopGoes DEF SleepEnds, Dead
  <1>14. CASE FatalSleepEnds(c)
    BY <1>1, <1>14, LoopGoes DEF FatalSleepEnds, Dead
  <1>15. CASE LoopReturns(c)
    BY <1>1, <1>15, LoopGoes DEF LoopReturns
  <1> QED
    BY <1>3, <1>4, <1>5, <1>6, <1>7, <1>8, <1>9, <1>10, <1>11, <1>12, <1>13, <1>14, <1>15
       DEF Loop

LEMMA XsrfStep ==
  ASSUME IInv, NEW c \in Conns, Xsrf(c)
  PROVE  IInv'
  <1> USE DEF client, bridge, locals
  <1>1. /\ token \in [Conns -> BOOLEAN] /\ cancelled \in [Conns -> BOOLEAN]
        /\ authFails \in [Conns -> 0..MaxRefused]
        /\ 0 \in 0..MaxRefused /\ 0 < MaxRefused
        /\ authFails = [authFails EXCEPT ![c] = authFails[c]]
    BY ConstantsAssumption DEF IInv, TypeOK
  <1>2. CASE XsrfEnds(c)
    BY <1>1, <1>2, XsrfGoes DEF XsrfEnds
  <1>3. CASE XsrfAnswered(c)
    <2>1. token' \in [Conns -> BOOLEAN]
      BY <1>1, <1>3 DEF XsrfAnswered
    <2>2. PICK x \in {"wait", "done"} : XsrfGoto(c, x)
      BY <1>3 DEF XsrfAnswered
    <2> QED
      BY <1>1, <1>3, <2>1, <2>2, XsrfGoes DEF XsrfAnswered
  <1>4. CASE XsrfRefused(c)
    BY <1>4, XsrfRefusedStep
  <1>5. CASE XsrfGivesUp(c)
    <2>1. /\ cancelled' \in [Conns -> BOOLEAN]
          /\ \A d \in Conns : cancelled[d] => cancelled'[d]
      BY <1>1, <1>5 DEF XsrfGivesUp, Running
    <2> QED
      BY <1>1, <1>5, <2>1, XsrfGoes DEF XsrfGivesUp
  <1> QED
    BY <1>2, <1>3, <1>4, <1>5 DEF Xsrf

------------------------------------------------------------------------------
(* The state callback.                                                     *)

(* The callback ends. *)
LEMMA CallbackReturns ==
  ASSUME IInv, NEW c \in Conns, NEW r \in Routines, CbReturn(c, r),
         cb[c][r].at # "none",
         lastState' \in States \cup {"none"}, initialSyncDone' \in BOOLEAN, synced' \in BOOLEAN,
         UNCHANGED <<conn, loggedOut, cookies, bridge, cancelled, locals>>,
         wired = 1 /\ lastState' # lastState =>
           cb[c][r].at = "report" /\ lastState' = cb[c][r].state,
         wired = 1 /\ cb[c][r].state = "badCredentials" => lastState' = "badCredentials"
  PROVE  IInv'
  <1> USE DEF bridge, locals
  <1>1. PICK v : v = NoCb
    OBVIOUS
  <1>2. v \in CbRec /\ v.at = "none"
    BY <1>1 DEF CbRec, NoCb, LoopStates, States
  <1>3. /\ cb' \in [Conns -> [Routines -> CbRec]]
        /\ \A d \in Conns, q \in Routines : cb'[d][q] = IF d = c /\ q = r THEN v ELSE cb[d][q]
    <2>1. cb' = [cb EXCEPT ![c][r] = v]
      BY <1>1 DEF CbReturn
    <2> QED
      BY <1>2, <2>1, CbUpdate, CbType DEF IInv
  <1>4. LoopCbOK(c) /\ XsrfCbOK(c)
    BY DEF IInv, CallbacksOK
  <1>5. CASE r = "loop"
    <2>1. PICK t \in {"listen", "sleep", "fatalSleep", "return"} : t = cb[c]["loop"].then
      BY <1>4, <1>5 DEF LoopCbOK
    <2>2. /\ loop' \in [Conns -> LoopStates]
          /\ \A d \in Conns : loop'[d] = IF d = c THEN t ELSE loop[d]
          /\ loop[c] = "report" /\ UNCHANGED xsrf
          /\ t = "return" => cb[c]["loop"].state = "badCredentials"
      BY <1>4, <1>5, <2>1 DEF CbReturn, IInv, TypeOK, LoopStates, LoopCbOK
    <2>3. /\ \A d \in Conns : cb'[d]["xsrf"] = cb[d]["xsrf"]
          /\ \A d \in Conns : cb'[d]["loop"] = IF d = c THEN v ELSE cb[d]["loop"]
      BY <1>3, <1>5 DEF Routines
    <2>4. TypeOK'
      BY <1>3, <2>2 DEF IInv, TypeOK, CbRec
    <2>5. CallsOK'
      BY <2>2, NewConn DEF IInv, CallsOK
    <2>6. LoopsOK'
      BY <2>1, <2>2, <2>3 DEF IInv, LoopsOK
    <2>7. CallbacksOK'
      BY <1>2, <2>2, <2>3 DEF IInv, CallbacksOK, LoopCbOK, XsrfCbOK
    <2>8. Ended'
      BY <1>4, <1>5, <2>2, ConstantsAssumption DEF IInv, LoopsOK, Ended, Conns
    <2> QED
      BY <2>4, <2>5, <2>6, <2>7, <2>8 DEF IInv
  <1>6. CASE r = "xsrf"
    <2>1. /\ xsrf' \in [Conns -> XsrfStates]
          /\ \A d \in Conns : xsrf'[d] = IF d = c THEN "giveUp" ELSE xsrf[d]
          /\ xsrf[c] = "report" /\ UNCHANGED loop
          /\ cb[c]["xsrf"].state = "badCredentials"
      BY <1>4, <1>6 DEF CbReturn, IInv, TypeOK, XsrfStates, XsrfCbOK
    <2>2. /\ \A d \in Conns : cb'[d]["loop"] = cb[d]["loop"]
          /\ \A d \in Conns : cb'[d]["xsrf"] = IF d = c THEN v ELSE cb[d]["xsrf"]
      BY <1>3, <1>6 DEF Routines
    <2>3. TypeOK'
      BY <1>3, <2>1 DEF IInv, TypeOK, CbRec
    <2>4. CallsOK'
      BY <2>1 DEF IInv, CallsOK
    <2>5. LoopsOK'
      BY <2>1, <2>2 DEF IInv, LoopsOK
    <2>6. CallbacksOK'
      BY <1>2, <2>1, <2>2 DEF IInv, CallbacksOK, LoopCbOK, XsrfCbOK
    <2>7. Ended'
      BY <1>6, <2>1, ConstantsAssumption DEF IInv, Ended, Conns
    <2> QED
      BY <2>3, <2>4, <2>5, <2>6, <2>7 DEF IInv
  <1> QED
    BY <1>5, <1>6 DEF Routines

(* The callback goes on: only a Connected gets past the report. *)
LEMMA CallbackGoes ==
  ASSUME IInv, NEW c \in Conns, NEW r \in Routines,
         NEW a \in {"report", "persist", "latch"}, CbGo(c, r, a),
         cb[c][r].at # "none",
         a # "report" => cb[c][r].state = "connected",
         lastState' \in States \cup {"none"}, cookies' \in BOOLEAN,
         UNCHANGED <<conn, initialSyncDone, synced, loggedOut, bridge, cancelled, locals, loop,
                     xsrf>>,
         lastState' # lastState => r = "loop"
  PROVE  IInv'
  <1> USE DEF bridge, locals
  <1>1. /\ cb' \in [Conns -> [Routines -> CbRec]]
        /\ \A d \in Conns, q \in Routines :
             /\ cb'[d][q].at = IF d = c /\ q = r THEN a ELSE cb[d][q].at
             /\ cb'[d][q].state = cb[d][q].state
             /\ cb'[d][q].then = cb[d][q].then
    BY CbGoUpdate, CbType DEF IInv
  <1>2. LoopCbOK(c) /\ XsrfCbOK(c)
    BY DEF IInv, CallbacksOK
  <1>3. "loop" \in Routines /\ "xsrf" \in Routines /\ (r = "loop" \/ r = "xsrf")
    BY DEF Routines
  <1>4. r = "loop" => loop[c] = "report"
    BY <1>2 DEF LoopCbOK
  <1>5. TypeOK'
    BY <1>1 DEF IInv, TypeOK, CbRec
  <1>6. CallsOK'
    BY DEF IInv, CallsOK
  <1>7. LoopsOK'
    BY <1>1, <1>3 DEF IInv, LoopsOK
  <1>8. CallbacksOK'
    BY <1>1, <1>2, <1>3 DEF IInv, CallbacksOK, LoopCbOK, XsrfCbOK
  <1>9. Ended'
    <2> SUFFICES ASSUME lastState' # lastState, wired = 1, loop[1] \in {"return", "done"}
                 PROVE  FALSE
      BY DEF IInv, Ended
    <2>1. c = 1
      BY <1>4, ConstantsAssumption DEF IInv, LoopsOK, Conns
    <2> QED
      BY <1>4, <2>1
  <1> QED
    BY <1>5, <1>6, <1>7, <1>8, <1>9 DEF IInv

LEMMA CallbackStep ==
  ASSUME IInv, NEW c \in Conns, NEW r \in Routines, Callback(c, r)
  PROVE  IInv'
  <1> USE DEF client, bridge, locals
  <1>1. cb[c][r] \in CbRec
    BY CbType DEF IInv
  <1>2. cb[c][r].state \in States
    BY <1>1 DEF CbRec
  <1>3. /\ lastState \in States \cup {"none"} /\ cookies \in BOOLEAN
        /\ initialSyncDone \in BOOLEAN /\ synced \in BOOLEAN
    BY DEF IInv, TypeOK
  <1>4. LoopCbOK(c) /\ XsrfCbOK(c) /\ (r = "loop" \/ r = "xsrf")
    BY DEF IInv, CallbacksOK, Routines
  <1>5. CASE CbCheck(c, r)
    <2>1. CASE conn = c
      BY <1>3, <1>5, <2>1, CallbackGoes DEF CbCheck
    <2>2. CASE conn # c
      <3>1. wired # 1
        BY <1>4, <1>5, <2>2 DEF IInv, TypeOK, LoopsOK, LoopCbOK, XsrfCbOK, CbCheck, Conns
      <3> QED
        BY <1>3, <1>5, <2>2, <3>1, CallbackReturns DEF CbCheck
    <2> QED
      BY <2>1, <2>2
  <1>6. CASE CbReport(c, r)
    <2>1. CASE cb[c][r].state = "connected"
      <3>1. r = "loop"
        BY <1>4, <1>6, <2>1 DEF CbReport, XsrfCbOK
      <3> QED
        BY <1>2, <1>3, <1>6, <2>1, <3>1, CallbackGoes DEF CbReport
    <2>2. CASE cb[c][r].state # "connected"
      BY <1>2, <1>3, <1>6, <2>2, CallbackReturns DEF CbReport
    <2> QED
      BY <2>1, <2>2
  <1>7. CASE CbPersist(c, r)
    <2>1. cookies' \in BOOLEAN /\ cb[c][r].state = "connected"
      BY <1>3, <1>4, <1>7 DEF CbPersist, LoopCbOK, XsrfCbOK
    <2> QED
      BY <1>3, <1>7, <2>1, CallbackGoes DEF CbPersist
  <1>8. CASE CbLatch(c, r)
    <2>1. initialSyncDone' \in BOOLEAN /\ synced' \in BOOLEAN
      BY <1>3, <1>8 DEF CbLatch
    <2>2. cb[c][r].state = "connected"
      BY <1>4, <1>8 DEF CbLatch, LoopCbOK, XsrfCbOK
    <2> QED
      BY <1>3, <1>8, <2>1, <2>2, CallbackReturns DEF CbLatch
  <1> QED
    BY <1>5, <1>6, <1>7, <1>8 DEF Callback

------------------------------------------------------------------------------
(* The bridge's calls. *)

(* A call stops where it is, or is over. *)
LEMMA CallMoves ==
  ASSUME IInv, NEW k \in Callers, NEW v \in CallRec(wired),
         caller' = [caller EXCEPT ![k] = v],
         conn' \in 0..wired, conn # 0 => conn' # 0,
         v.at \in {"reset", "swap", "start"} => v.new # 0,
         v.new # 0 => v.new = caller[k].new,
         v.at \in {"stop", "start"} /\ v.new # 0 => conn' # 0,
         cancelled' \in [Conns -> BOOLEAN], \A d \in Conns : cancelled[d] => cancelled'[d],
         initialSyncDone' \in BOOLEAN, cookies' \in BOOLEAN, loggedOut' \in BOOLEAN,
         UNCHANGED <<synced, lastState, wired, locals, loop, xsrf, cb>>
  PROVE  IInv'
  <1> USE DEF locals
  <1>1. wired \in Nat /\ caller \in [Callers -> CallRec(wired)]
    BY ConstantsAssumption DEF IInv, TypeOK, CallRec
  <1>2. /\ caller' \in [Callers -> CallRec(wired)]
        /\ \A l \in Callers : caller'[l] = IF l = k THEN v ELSE caller[l]
    BY <1>1, CallUpdate
  <1>3. TypeOK'
    BY <1>2 DEF IInv, TypeOK, CallRec
  <1>4. CallsOK'
    BY <1>2 DEF IInv, CallsOK
  <1>5. LoopsOK'
    BY DEF IInv, LoopsOK
  <1>6. CallbacksOK'
    BY DEF IInv, CallbacksOK, LoopCbOK, XsrfCbOK
  <1>7. Ended'
    BY ConstantsAssumption DEF IInv, Ended, Conns
  <1> QED
    BY <1>3, <1>4, <1>5, <1>6, <1>7 DEF IInv

(* A call makes the next connection. *)
LEMMA CallWires ==
  ASSUME IInv, NEW k \in Callers, NEW v \in CallRec(wired + 1),
         caller' = [caller EXCEPT ![k] = v],
         wired < MaxConns, wired' = wired + 1,
         v.at = "reset", v.new = wired + 1,
         loggedOut' \in BOOLEAN, token' \in [Conns -> BOOLEAN],
         UNCHANGED <<conn, initialSyncDone, synced, lastState, cookies, cancelled,
                     resyncCount, authFails, loop, xsrf, cb>>
  PROVE  IInv'
  <1>1. /\ wired \in Nat /\ wired + 1 \in Nat /\ wired <= wired + 1
        /\ caller \in [Callers -> CallRec(wired)]
    BY ConstantsAssumption DEF IInv, TypeOK, CallRec
  <1>2. /\ caller' \in [Callers -> CallRec(wired + 1)]
        /\ \A l \in Callers : caller'[l] = IF l = k THEN v ELSE caller[l]
    BY <1>1, CallUpdate
  <1>3. conn' \in 0..wired' /\ wired' \in 0..MaxConns
    BY <1>1, ConstantsAssumption DEF IInv, TypeOK
  <1>4. TypeOK'
    BY <1>2, <1>3 DEF IInv, TypeOK, CallRec
  <1>5. wired + 1 \in Conns /\ loop[wired + 1] = "unborn"
    BY <1>1, ConstantsAssumption DEF IInv, LoopsOK, Conns
  <1>6. \A l \in Callers : caller[l].new # wired + 1
    BY <1>1 DEF CallRec
  <1>7. CallsOK'
    <2>1. PICK c : c = wired + 1 /\ c # 0
      BY <1>1
    <2>2. loop[c] = "unborn" /\ v.at = "reset" /\ v.new = c
      BY <1>5, <2>1
    <2>3. \A l \in Callers : caller[l].new # c
      BY <1>6, <2>1
    <2> QED
      BY <1>2, <2>1, <2>2, <2>3 DEF IInv, CallsOK
  <1>8. LoopsOK'
    BY <1>1 DEF IInv, LoopsOK, Conns
  <1>9. CallbacksOK'
    BY DEF IInv, CallbacksOK, LoopCbOK, XsrfCbOK
  <1>10. Ended'
    BY <1>1, ConstantsAssumption DEF IInv, Ended, LoopsOK, Conns
  <1> QED
    BY <1>4, <1>7, <1>8, <1>9, <1>10 DEF IInv

LEMMA CallStep ==
  ASSUME IInv, NEW k \in Callers, Call(k)
  PROVE  IInv'
  <1> USE DEF client, bridge, locals
  <1>1. /\ wired \in Nat /\ caller[k] \in CallRec(wired)
        /\ 0 \in 0..wired /\ conn \in 0..wired
        /\ cancelled \in [Conns -> BOOLEAN] /\ token \in [Conns -> BOOLEAN]
        /\ initialSyncDone \in BOOLEAN /\ cookies \in BOOLEAN /\ loggedOut \in BOOLEAN
    BY ConstantsAssumption DEF IInv, TypeOK, CallRec
  <1>2. /\ caller[k].at \in {"reset", "swap", "start"} => caller[k].new # 0
        /\ caller[k].at \in {"stop", "start"} /\ caller[k].new # 0 => conn # 0
    BY DEF IInv, CallsOK
  <1>3. NoCall \in CallRec(wired) /\ NoCall.at = "idle" /\ NoCall.new = 0
    BY <1>1 DEF CallRec, CallStates, NoCall
  <1>4. CASE Connect(k)
    <2>1. CASE UNCHANGED bridge
      <3>1. TypeOK'
        BY <1>4, <2>1 DEF Connect, IInv, TypeOK, States
      <3>2. CallsOK'
        BY <1>4, <2>1 DEF Connect, IInv, CallsOK
      <3>3. LoopsOK'
        BY <1>4, <2>1 DEF Connect, IInv, LoopsOK
      <3>4. CallbacksOK'
        BY <1>4 DEF Connect, IInv, CallbacksOK, LoopCbOK, XsrfCbOK
      <3>5. Ended'
        BY <1>4, <2>1 DEF Connect, IInv, Ended
      <3> QED
        BY <3>1, <3>2, <3>3, <3>4, <3>5 DEF IInv
    <2>2. CASE /\ wired < MaxConns /\ UNCHANGED lastState /\ wired' = wired + 1
               /\ caller' = [caller EXCEPT ![k] = [NoCall EXCEPT !.at = "reset", !.new = wired + 1]]
      <3>1. PICK w \in Nat : w = wired + 1 /\ w \in 0..w /\ 0 \in 0..w
        BY <1>1
      <3>2. PICK v : v = [NoCall EXCEPT !.at = "reset", !.new = w]
        OBVIOUS
      <3>3. v \in CallRec(w) /\ v.at = "reset" /\ v.new = w
        BY <3>1, <3>2 DEF CallRec, NoCall, CallStates
      <3>4. loggedOut' \in BOOLEAN
        BY <1>4 DEF Connect
      <3> QED
        BY <1>1, <1>4, <2>2, <3>1, <3>2, <3>3, <3>4, CallWires DEF Connect
    <2> QED
      BY <1>4, <2>1, <2>2 DEF Connect
  <1>5. CASE Attach(k)
    <2>1. PICK v : v = [NoCall EXCEPT !.at = "reset", !.new = 1]
      OBVIOUS
    <2>2. wired = 0 /\ wired' = 1 /\ 1 \in 0..1 /\ 0 \in 0..1
      BY <1>5 DEF Attach
    <2>3. v \in CallRec(1) /\ v.at = "reset" /\ v.new = 1
      BY <2>1, <2>2 DEF CallRec, NoCall, CallStates
    <2>4. wired + 1 = 1
      BY <2>2
    <2>5. wired < MaxConns /\ wired' = wired + 1
      BY <2>2, ConstantsAssumption
    <2>6. token' \in [Conns -> BOOLEAN]
      BY <1>1, <1>5 DEF Attach
    <2> QED
      BY <1>1, <1>5, <2>1, <2>3, <2>4, <2>5, <2>6, CallWires DEF Attach
  <1>6. CASE WireReset(k)
    <2>1. PICK v : v = [caller[k] EXCEPT !.at = "swap"]
      OBVIOUS
    <2>2. v \in CallRec(wired) /\ v.at = "swap" /\ v.new = caller[k].new
      BY <1>1, <2>1 DEF CallRec, CallStates
    <2>3. caller' = [caller EXCEPT ![k] = v]
      BY <1>6, <2>1 DEF WireReset, CallGo
    <2> QED
      BY <1>1, <1>2, <1>6, <2>2, <2>3, CallMoves DEF WireReset
  <1>7. CASE WireSwap(k)
    <2>1. PICK v : v = [[caller[k] EXCEPT !.at = "stop"] EXCEPT !.old = conn]
      OBVIOUS
    <2>2. v \in CallRec(wired) /\ v.at = "stop" /\ v.new = caller[k].new
      BY <1>1, <2>1 DEF CallRec, CallStates
    <2>3. caller' = [caller EXCEPT ![k] = v]
      BY <1>7, <2>1 DEF WireSwap
    <2>4. conn' \in 0..wired /\ conn' # 0
      BY <1>1, <1>2, <1>7 DEF WireSwap, CallRec
    <2> QED
      BY <1>1, <1>2, <1>7, <2>2, <2>3, <2>4, CallMoves DEF WireSwap
  <1>8. CASE Disconnect(k)
    <2>1. PICK logout \in BOOLEAN :
            caller' = [caller EXCEPT ![k] =
                         [NoCall EXCEPT !.at = "stop", !.old = conn, !.logout = logout]]
      BY <1>8 DEF Disconnect
    <2>2. PICK v : v = [NoCall EXCEPT !.at = "stop", !.old = conn, !.logout = logout]
      OBVIOUS
    <2>3. v \in CallRec(wired) /\ v.at = "stop" /\ v.new = 0
      BY <1>1, <2>2 DEF CallRec, CallStates, NoCall
    <2> QED
      BY <1>1, <1>8, <2>1, <2>2, <2>3, CallMoves DEF Disconnect
  <1>9. CASE Stop(k)
    <2>1. /\ cancelled' \in [Conns -> BOOLEAN]
          /\ \A d \in Conns : cancelled[d] => cancelled'[d]
      BY <1>1, <1>9 DEF Stop
    <2>2. \A a \in CallStates : [caller[k] EXCEPT !.at = a] \in CallRec(wired)
      BY <1>1 DEF CallRec
    <2>3. PICK v \in CallRec(wired) :
            /\ caller' = [caller EXCEPT ![k] = v]
            /\ v.at \in {"start", "clear", "idle"}
            /\ v.at = "start" => v.new # 0
            /\ v.new = caller[k].new \/ v.new = 0
      <3>1. CASE caller[k].new # 0
        <4>1. PICK v : v = [caller[k] EXCEPT !.at = "start"]
          OBVIOUS
        <4>2. v \in CallRec(wired) /\ v.at = "start" /\ v.new = caller[k].new
          BY <1>1, <2>2, <4>1 DEF CallRec, CallStates
        <4>3. caller' = [caller EXCEPT ![k] = v]
          BY <1>9, <3>1, <4>1 DEF Stop, CallGo
        <4> QED
          BY <3>1, <4>2, <4>3
      <3>2. CASE caller[k].new = 0 /\ caller[k].logout
        <4>1. PICK v : v = [caller[k] EXCEPT !.at = "clear"]
          OBVIOUS
        <4>2. v \in CallRec(wired) /\ v.at = "clear" /\ v.new = caller[k].new
          BY <1>1, <2>2, <4>1 DEF CallRec, CallStates
        <4>3. caller' = [caller EXCEPT ![k] = v]
          BY <1>9, <3>2, <4>1 DEF Stop, CallGo
        <4> QED
          BY <4>2, <4>3
      <3>3. CASE caller[k].new = 0 /\ ~caller[k].logout
        BY <1>3, <1>9, <3>3 DEF Stop
      <3> QED
        BY <3>1, <3>2, <3>3
    <2>4. caller[k].new # 0 => conn # 0
      BY <1>2, <1>9 DEF Stop
    <2> QED
      BY <1>1, <1>9, <2>1, <2>3, <2>4, CallMoves DEF Stop
  <1>10. CASE WireStart(k)
    <2>1. PICK c \in Conns : c = caller[k].new
      BY <1>2, <1>10, NewConn DEF IInv, WireStart
    <2>2. /\ loop' \in [Conns -> LoopStates]
          /\ \A d \in Conns : loop'[d] = IF d = c THEN "new" ELSE loop[d]
          /\ loop[c] = "unborn" /\ conn # 0 /\ c <= wired
      BY <1>1, <1>2, <1>10, <2>1
         DEF WireStart, Goto, IInv, TypeOK, CallsOK, LoopStates, CallRec
    <2>3. /\ caller' \in [Callers -> CallRec(wired)]
          /\ \A l \in Callers : caller'[l] = IF l = k THEN NoCall ELSE caller[l]
      BY <1>1, <1>3, <1>10, CallUpdate DEF WireStart, IInv, TypeOK, CallRec
    <2>4. UNCHANGED <<client, wired, cancelled, locals, xsrf, cb>>
      BY <1>10 DEF WireStart
    <2>5. TypeOK'
      BY <2>2, <2>3, <2>4 DEF IInv, TypeOK, CallRec
    <2>6. \A l \in Callers \ {k} : caller[l].new # 0 => caller[l].new # c
      BY <2>1 DEF IInv, CallsOK
    <2>7. CallsOK'
      BY <1>3, <2>2, <2>3, <2>4, <2>6, NewConn DEF IInv, CallsOK
    <2>8. LoopsOK'
      BY <2>2, <2>4 DEF IInv, LoopsOK
    <2>9. CallbacksOK'
      BY <2>2, <2>4 DEF IInv, CallbacksOK, LoopCbOK, XsrfCbOK
    <2>10. Ended'
      BY <2>2, <2>4, ConstantsAssumption DEF IInv, Ended, Conns
    <2> QED
      BY <2>5, <2>7, <2>8, <2>9, <2>10 DEF IInv
  <1>11. CASE LogoutClear(k)
    BY <1>1, <1>3, <1>11, CallMoves DEF LogoutClear
  <1> QED
    BY <1>4, <1>5, <1>6, <1>7, <1>8, <1>9, <1>10, <1>11 DEF Call

------------------------------------------------------------------------------
(* The theorems.                                                           *)

LEMMA InitHolds == Init => IInv
  <1> SUFFICES ASSUME Init PROVE IInv
    OBVIOUS
  <1>1. NoCb \in CbRec /\ NoCb.at = "none"
    BY DEF NoCb, CbRec, States, LoopStates
  <1>2. NoCall \in CallRec(0) /\ NoCall.at = "idle" /\ NoCall.new = 0
    BY DEF NoCall, CallRec, CallStates
  <1>3. /\ cb \in [Conns -> [Routines -> CbRec]]
        /\ \A c \in Conns : cb[c]["loop"].at = "none" /\ cb[c]["xsrf"].at = "none"
    BY <1>1 DEF Init, Routines
  <1>4. caller \in [Callers -> CallRec(wired)]
    BY <1>2 DEF Init
  <1>5. /\ loop \in [Conns -> LoopStates] /\ xsrf \in [Conns -> XsrfStates]
        /\ resyncCount \in [Conns -> 0..(MaxResyncs + 1)]
        /\ authFails \in [Conns -> 0..MaxRefused]
        /\ conn \in 0..wired /\ wired \in 0..MaxConns
    BY ConstantsAssumption DEF Init, LoopStates, XsrfStates
  <1>6. TypeOK
    BY <1>3, <1>4, <1>5 DEF Init, TypeOK, CbRec, CallRec
  <1>7. CallsOK
    BY <1>2 DEF Init, CallsOK
  <1>8. LoopsOK
    BY ConstantsAssumption DEF Init, LoopsOK
  <1>9. CallbacksOK
    BY <1>3 DEF CallbacksOK, LoopCbOK, XsrfCbOK
  <1>10. Ended
    BY DEF Init, Ended
  <1> QED
    BY <1>6, <1>7, <1>8, <1>9, <1>10 DEF IInv

LEMMA NextHolds == IInv /\ [Next]_vars => IInv'
  <1> SUFFICES ASSUME IInv, [Next]_vars PROVE IInv'
    OBVIOUS
  <1>1. CASE SyncFails
    <2>1. TypeOK'
      BY <1>1 DEF SyncFails, IInv, TypeOK, bridge, locals
    <2>2. CallsOK' /\ LoopsOK'
      BY <1>1 DEF SyncFails, IInv, CallsOK, LoopsOK, bridge, locals
    <2>3. CallbacksOK' /\ Ended'
      BY <1>1 DEF SyncFails, IInv, CallbacksOK, LoopCbOK, XsrfCbOK, Ended, bridge
    <2> QED
      BY <2>1, <2>2, <2>3 DEF IInv
  <1>2. CASE \E c \in Conns : Loop(c) \/ Xsrf(c) \/ \E r \in Routines : Callback(c, r)
    BY <1>2, LoopStep, XsrfStep, CallbackStep
  <1>3. CASE \E k \in Callers : Call(k)
    BY <1>3, CallStep
  <1>4. CASE UNCHANGED vars
    <2>1. TypeOK'
      BY <1>4 DEF IInv, TypeOK, vars, client, bridge, locals
    <2>2. CallsOK' /\ LoopsOK'
      BY <1>4 DEF IInv, CallsOK, LoopsOK, vars, client, bridge, locals
    <2>3. CallbacksOK' /\ Ended'
      BY <1>4 DEF IInv, CallbacksOK, LoopCbOK, XsrfCbOK, Ended, vars, client, bridge
    <2> QED
      BY <2>1, <2>2, <2>3 DEF IInv
  <1> QED
    BY <1>1, <1>2, <1>3, <1>4 DEF Next

LEMMA Inductive == Spec => []IInv
  BY InitHolds, NextHolds, PTL DEF Spec

(* Every variable keeps its type; in particular the counts of resyncs and  *)
(* of refusals stay within the limits of gchatmeow/client.go.              *)
THEOREM TypeCorrect == Spec => []TypeOK
  <1>1. IInv => TypeOK
    BY DEF IInv
  <1> QED
    BY <1>1, Inductive, PTL

(* However many connections and callbacks are under way, a logout is not   *)
(* undone before the next Connect (client.go, persistCookies).             *)
THEOREM LogoutIsKept == Spec => []LoggedOutStaysOut
  <1>1. Init => LoggedOutStaysOut
    BY DEF Init, LoggedOutStaysOut
  <1>2. LoggedOutStaysOut /\ [Next]_vars => LoggedOutStaysOut'
    BY ZenonT(30) DEF LoggedOutStaysOut, Next, vars, client, bridge, locals, SyncFails,
           Loop, LoopStarts, LoopTop, TokenOK, TokenFails, ListenReports, ListenCancelled,
           ListenExpires, ListenSIDInvalid, ListenRefused, ListenFails, SleepEnds,
           FatalSleepEnds, LoopReturns,
           Xsrf, XsrfEnds, XsrfAnswered, XsrfRefused, XsrfGivesUp,
           Callback, CbCheck, CbReport, CbPersist, CbLatch,
           Call, Connect, Attach, WireReset, WireSwap, WireStart, Disconnect, Stop, LogoutClear
  <1> QED
    BY <1>1, <1>2, PTL DEF Spec

(* A login whose only connection ended without being cancelled has told    *)
(* the bridge that its credentials are bad (gchatmeow/client.go, Connect). *)
THEOREM EndsAreReported == Spec => []EndIsReported
  <1>1. IInv => EndIsReported
    BY DEF IInv, Ended, EndIsReported
  <1> QED
    BY <1>1, Inductive, PTL
=============================================================================
