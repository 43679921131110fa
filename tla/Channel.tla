------------------------------- MODULE Channel -------------------------------
(***************************************************************************)
(* One webchannel (pkg/gchatmeow/channel.go): the Listen goroutine, which  *)
(* registers, long-polls, adopts a session id and hands arrays to          *)
(* OnReceiveArray, and the goroutines that call SendStreamEvent.  They     *)
(* share sid, aid, ofs and rid under mu, which is held for single steps    *)
(* here, and sendMu, which is held across requests.                        *)
(*                                                                         *)
(* Sessions are numbered in the order the server opens them and 0 is the   *)
(* empty SID; the arrays of a session are numbered 1, 2, ...  What a chunk *)
(* or an array holds is left out, except whether it can be decoded.  The   *)
(* one OnReceiveArray of the program never returns an error (client.go,    *)
(* onReceiveArray), so the error return of onPushData is left out too.     *)
(***************************************************************************)
EXTENDS Naturals

CONSTANTS
  Senders,    \* the goroutines that call SendStreamEvent
  MaxRetries, \* maxRetries of Listen (defaultConnectMaxRetries, 3)
  MaxSids,    \* bound: sessions the server opens
  MaxArrays,  \* bound: arrays of one session
  MaxSends,   \* bound: calls of SendStreamEvent
  FaultKinds, \* the faults this instance allows
  MaxFaults   \* bound: faults in a behaviour

AllFaults == {"net", "truncated", "unknownSid", "status", "undecodable", "cancel"}

ASSUME ConstantsAssumption ==
  /\ MaxRetries \in Nat /\ MaxSids \in Nat /\ MaxArrays \in Nat
  /\ MaxSends \in Nat /\ MaxFaults \in Nat
  /\ FaultKinds \subseteq AllFaults
  /\ "listen" \notin Senders /\ "free" \notin Senders

VARIABLES
  sid, aid, ofs, rid, \* the session counters, guarded by mu
  sendMu,             \* who holds sendMu
  pc,                 \* where the Listen goroutine stands
  result,             \* what Listen returned
  retries,            \* Listen's local retry count
  pollSid,            \* the SID the outstanding long poll carries
  newSid,             \* the SID the answer to that poll announces
  next,               \* the array the server sends next on this poll
  isConnected,        \* a poll is live
  onConnectCalled,    \* OnConnect has fired
  sender,             \* sender[s]: where a SendStreamEvent call stands
  opened,             \* sessions the server has opened
  pinged,             \* history: the sessions whose initial ping was accepted
  wire,               \* history: the last POST put on the wire
  handled,            \* history: the last array OnReceiveArray was given
  given, skipped,     \* history: the arrays of session sid it was given, and those
                      \* that could not be decoded
  toldSid,            \* history: the session Connected was last reported in
  sends, faults       \* the bounded counters

counters == <<sid, aid, ofs, rid>>
listen   == <<pc, result, retries, pollSid, newSid, next>>
link     == <<isConnected, onConnectCalled, toldSid>>
history  == <<pinged, wire, handled, given, skipped>>
vars     == <<counters, sendMu, listen, link, sender, opened, history, sends, faults>>

PollStates == {"register", "registering", "top", "polling", "adopt", "ack", "ping",
               "pinging", "read", "array", "record", "done"}
Results == {"running", "lifetime", "sidInvalid", "network", "other", "cancelled"}
Idle == [pc |-> "idle", sid |-> 0, ofs |-> 0, rid |-> 0]

TypeOK ==
  /\ sid \in 0..opened /\ aid \in 0..MaxArrays /\ ofs \in Nat /\ rid \in Nat
  /\ sendMu \in Senders \cup {"free", "listen"}
  /\ pc \in PollStates /\ result \in Results
  /\ retries \in 0..(MaxRetries + 1)
  /\ pollSid \in 0..opened /\ newSid \in 0..opened /\ next \in 1..(MaxArrays + 1)
  /\ isConnected \in BOOLEAN /\ onConnectCalled \in BOOLEAN
  /\ sender \in [Senders -> [pc : {"idle", "waiting", "locked", "posting", "posted"},
                             sid : 0..opened, ofs : Nat, rid : Nat]]
  /\ opened \in 0..MaxSids /\ pinged \subseteq 1..opened
  /\ wire \in [sid : 0..opened, ofs : Nat, rid : Nat, ping : BOOLEAN]
  /\ handled \in [sid : 0..opened, n : 0..MaxArrays]
  /\ given \subseteq 1..MaxArrays /\ skipped \subseteq 1..MaxArrays
  /\ toldSid \in 0..opened
  /\ sends \in 0..MaxSends /\ faults \in 0..MaxFaults

Init ==
  /\ sid = 0 /\ aid = 0 /\ ofs = 0 /\ rid = 1
  /\ sendMu = "free"
  /\ pc = "register" /\ result = "running" /\ retries = 0
  /\ pollSid = 0 /\ newSid = 0 /\ next = 1
  /\ isConnected = FALSE /\ onConnectCalled = FALSE /\ toldSid = 0
  /\ sender = [s \in Senders |-> Idle]
  /\ opened = 0 /\ pinged = {}
  /\ wire = [sid |-> 0, ofs |-> 0, rid |-> 0, ping |-> FALSE]
  /\ handled = [sid |-> 0, n |-> 0] /\ given = {} /\ skipped = {}
  /\ sends = 0 /\ faults = 0

Fault(k) ==
  /\ k \in FaultKinds
  /\ faults < MaxFaults
  /\ faults' = faults + 1

(* Listen returns r; a deferred unlock gives sendMu back. *)
Return(r) ==
  /\ pc' = "done" /\ result' = r
  /\ sendMu' = IF sendMu = "listen" THEN "free" ELSE sendMu
  /\ UNCHANGED <<retries, pollSid, newSid, next>>

(* Mutant: the error return of the ack leaves sendMu locked. *)
NetworkErrorKeepsLock ==
  /\ retries' = retries + 1
  /\ isConnected' = FALSE
  /\ pc' = "top"
  /\ UNCHANGED <<sendMu, result, pollSid, newSid, next, onConnectCalled, toldSid>>

(* Listen's case for a NetworkError: one more retry, and OnDisconnect when *)
(* the poll was live.  adoptSID, if it was running, has released sendMu.   *)
NetworkError ==
  /\ retries' = retries + 1
  /\ isConnected' = FALSE
  /\ pc' = "top"
  /\ sendMu' = IF sendMu = "listen" THEN "free" ELSE sendMu
  /\ UNCHANGED <<result, pollSid, newSid, next, onConnectCalled, toldSid>>

------------------------------------------------------------------------------
(* register. *)

(* The counters are reset under mu before the request goes out, whatever a *)
(* sender that holds sendMu is doing.                                      *)
RegisterStart ==
  /\ pc = "register" /\ pc' = "registering"
  /\ sid' = 0 /\ aid' = 0 /\ ofs' = 0 /\ given' = {} /\ skipped' = {}
  /\ UNCHANGED <<rid, sendMu, result, retries, pollSid, newSid, next, link, sender, opened,
                 pinged, wire, handled, sends, faults>>

RegisterOK ==
  /\ pc = "registering" /\ pc' = "top"
  /\ UNCHANGED <<counters, sendMu, result, retries, pollSid, newSid, next, link, sender,
                 opened, history, sends, faults>>

RegisterFails ==
  /\ pc = "registering"
  /\ Return("other")
  /\ Fault("net") \/ Fault("status")
  /\ UNCHANGED <<counters, link, sender, opened, history, sends>>

------------------------------------------------------------------------------
(* The poll loop of Listen and longpollRequest. *)

(* Too many retries, or the channel is 1.5 h old. *)
LoopEnds ==
  /\ pc = "top"
  /\ \/ retries > MaxRetries /\ Return("network")
     \/ retries <= MaxRetries /\ Return("lifetime")
  /\ UNCHANGED <<counters, link, sender, opened, history, sends, faults>>

(* Mutant: the retry limit is not looked at before the poll. *)
PollStartUnlimited ==
  /\ pc = "top"
  /\ pc' = "polling" /\ pollSid' = sid
  /\ rid' = IF sid = 0 THEN rid + 1 ELSE rid
  /\ UNCHANGED <<sid, aid, ofs, sendMu, result, retries, newSid, next, link, sender, opened,
                 history, sends, faults>>

(* The long poll goes out; only the one that opens a session takes a rid.  *)
PollStart ==
  /\ pc = "top" /\ retries <= MaxRetries
  /\ pc' = "polling" /\ pollSid' = sid
  /\ rid' = IF sid = 0 THEN rid + 1 ELSE rid
  /\ UNCHANGED <<sid, aid, ofs, sendMu, result, retries, newSid, next, link, sender, opened,
                 history, sends, faults>>

PollFails ==
  /\ pc = "polling"
  /\ \/ Fault("net") /\ NetworkError
     \/ Fault("unknownSid") /\ Return("sidInvalid") /\ UNCHANGED link
     \/ Fault("status") /\ Return("other") /\ UNCHANGED link
  /\ UNCHANGED <<counters, sender, opened, history, sends>>

(* The server opens a session and announces its SID in the header. *)
PollOpens ==
  /\ pc = "polling" /\ pollSid = 0 /\ opened < MaxSids
  /\ opened' = opened + 1 /\ newSid' = opened + 1
  /\ pc' = "adopt"
  /\ UNCHANGED <<counters, sendMu, result, retries, pollSid, next, link, sender, history,
                 sends, faults>>

(* The server goes on with a session from the array after the AID it was   *)
(* given, with or without announcing the SID again.                        *)
PollContinues ==
  /\ pc = "polling" /\ pollSid # 0
  /\ next' = aid + 1
  /\ \/ pc' = "read" /\ UNCHANGED newSid
     \/ pc' = "adopt" /\ newSid' = pollSid
  /\ UNCHANGED <<counters, sendMu, result, retries, pollSid, link, sender, opened, history,
                 sends, faults>>

------------------------------------------------------------------------------
(* adoptSID. *)

(* Mutant: a SID that did not change is adopted afresh. *)
AdoptAlways ==
  /\ pc = "adopt" /\ sendMu = "free"
  /\ sendMu' = "listen" /\ pc' = "ack"
  /\ sid' = newSid /\ aid' = 0 /\ ofs' = 0
  /\ next' = IF newSid = pollSid THEN next ELSE 1
  /\ given' = {} /\ skipped' = {}
  /\ UNCHANGED <<rid, result, retries, pollSid, newSid, link, sender, opened, pinged, wire,
                 handled, sends, faults>>

(* Under sendMu a new SID is installed and the counters are reset; sendMu  *)
(* is kept until the ping is through.                                      *)
Adopt ==
  /\ pc = "adopt" /\ sendMu = "free"
  /\ IF newSid # sid
     THEN /\ sendMu' = "listen" /\ pc' = "ack"
          /\ sid' = newSid /\ aid' = 0 /\ ofs' = 0 /\ next' = 1
          /\ given' = {} /\ skipped' = {}
     ELSE pc' = "read" /\ UNCHANGED <<sendMu, sid, aid, ofs, next, given, skipped>>
  /\ UNCHANGED <<rid, result, retries, pollSid, newSid, link, sender, opened, pinged, wire,
                 handled, sends, faults>>

AckOK ==
  /\ pc = "ack" /\ pc' = "ping"
  /\ UNCHANGED <<counters, sendMu, result, retries, pollSid, newSid, next, link, sender,
                 opened, history, sends, faults>>

AckFails ==
  /\ pc = "ack"
  /\ Fault("net") /\ NetworkError
  /\ UNCHANGED <<counters, sender, opened, history, sends>>

(* sendInitialPing takes its rid and ofs and puts the POST on the wire. *)
PingStart ==
  /\ pc = "ping" /\ pc' = "pinging"
  /\ wire' = [sid |-> sid, ofs |-> ofs, rid |-> rid, ping |-> TRUE]
  /\ ofs' = ofs + 1 /\ rid' = rid + 1
  /\ UNCHANGED <<sid, aid, sendMu, result, retries, pollSid, newSid, next, link, sender,
                 opened, pinged, handled, given, skipped, sends, faults>>

PingOK ==
  /\ pc = "pinging" /\ pc' = "read"
  /\ sendMu' = "free"
  /\ pinged' = pinged \cup {sid}
  /\ UNCHANGED <<counters, result, retries, pollSid, newSid, next, link, sender, opened, wire,
                 handled, given, skipped, sends, faults>>

(* A lost or a rejected ping ends Listen: the error is no NetworkError. *)
PingFails ==
  /\ pc = "pinging"
  /\ Return("other")
  /\ Fault("net") \/ Fault("status")
  /\ UNCHANGED <<counters, link, sender, opened, history, sends>>

------------------------------------------------------------------------------
(* readBody and onPushData. *)

(* A chunk arrives with the next array; the first one after a disconnect   *)
(* fires OnConnect or OnReconnect.  A session that was not pinged streams  *)
(* nothing.                                                                *)
Chunk ==
  /\ pc = "read" /\ sid \in pinged /\ next <= MaxArrays
  /\ pc' = "array"
  /\ isConnected' = TRUE /\ onConnectCalled' = TRUE
  /\ toldSid' = IF isConnected THEN toldSid ELSE sid
  /\ UNCHANGED <<counters, sendMu, result, retries, pollSid, newSid, next, sender, opened,
                 history, sends, faults>>

(* An array that cannot be decoded is logged and skipped: aid stays, until *)
(* a later array moves it past both.                                       *)
ArraySkipped ==
  /\ pc = "array"
  /\ Fault("undecodable")
  /\ skipped' = skipped \cup {next}
  /\ pc' = "read" /\ next' = next + 1
  /\ UNCHANGED <<counters, sendMu, result, retries, pollSid, newSid, link, sender, opened,
                 pinged, wire, handled, given, sends>>

(* Mutant: aid moves on before the array is handled. *)
ArrayRecordedFirst ==
  /\ pc = "array" /\ pc' = "record"
  /\ aid' = next
  /\ UNCHANGED <<sid, ofs, rid, sendMu, result, retries, pollSid, newSid, next, link, sender,
                 opened, history, sends, faults>>

ArrayHandled ==
  /\ pc = "array" /\ pc' = "record"
  /\ handled' = [sid |-> sid, n |-> next]
  /\ given' = given \cup {next}
  /\ UNCHANGED <<counters, sendMu, result, retries, pollSid, newSid, next, link, sender,
                 opened, pinged, wire, skipped, sends, faults>>

(* Only then is the array acknowledged. *)
ArrayRecorded ==
  /\ pc = "record" /\ pc' = "read"
  /\ aid' = next /\ next' = next + 1
  /\ UNCHANGED <<sid, ofs, rid, sendMu, result, retries, pollSid, newSid, link, sender, opened,
                 history, sends, faults>>

(* The server closes the poll: Listen polls again with the same SID. *)
CleanEOF ==
  /\ pc = "read" /\ pc' = "top"
  /\ retries' = 0
  /\ UNCHANGED <<counters, sendMu, result, pollSid, newSid, next, link, sender, opened,
                 history, sends, faults>>

(* A truncated body: Listen registers again at once, and tells nobody. *)
SIDExpiring ==
  /\ pc = "read" /\ pc' = "register"
  /\ Fault("truncated")
  /\ retries' = retries + 1
  /\ UNCHANGED <<counters, sendMu, result, pollSid, newSid, next, link, sender, opened,
                 history, sends>>

(* A read error, or nothing for 60 s. *)
ReadFails ==
  /\ pc = "read"
  /\ Fault("net") /\ NetworkError
  /\ UNCHANGED <<counters, sender, opened, history, sends>>

(* A session that is never pinged stays silent until the idle watchdog. *)
ReadIdle ==
  /\ pc = "read" /\ sid \notin pinged
  /\ NetworkError
  /\ UNCHANGED <<counters, sender, opened, history, sends, faults>>

(* The context is cancelled while Listen waits. *)
Cancelled ==
  /\ pc \in {"registering", "top", "polling", "ack", "pinging", "read"}
  /\ Fault("cancel") /\ Return("cancelled")
  /\ UNCHANGED <<counters, link, sender, opened, history, sends>>

------------------------------------------------------------------------------
(* SendStreamEvent. *)

SendCall(s) ==
  /\ sender[s].pc = "idle" /\ sends < MaxSends
  /\ sender' = [sender EXCEPT ![s].pc = "waiting"]
  /\ sends' = sends + 1
  /\ UNCHANGED <<counters, sendMu, listen, link, opened, history, faults>>

(* Mutant: SendStreamEvent does not take sendMu. *)
SendUnlocked(s) ==
  /\ sender[s].pc = "waiting"
  /\ sender' = [sender EXCEPT ![s].pc = "locked"]
  /\ UNCHANGED <<counters, sendMu, listen, link, opened, history, sends, faults>>

SendLock(s) ==
  /\ sender[s].pc = "waiting" /\ sendMu = "free"
  /\ sendMu' = s
  /\ sender' = [sender EXCEPT ![s].pc = "locked"]
  /\ UNCHANGED <<counters, listen, link, opened, history, sends, faults>>

(* Under mu: no SID means ErrChannelNotReady, else rid and ofs are taken. *)
SendPrepare(s) ==
  /\ sender[s].pc = "locked"
  /\ IF sid = 0
     THEN /\ sender' = [sender EXCEPT ![s] = Idle]
          /\ sendMu' = "free"
          /\ UNCHANGED <<ofs, rid>>
     ELSE /\ sender' = [sender EXCEPT ![s] =
                          [pc |-> "posting", sid |-> sid, ofs |-> ofs, rid |-> rid]]
          /\ ofs' = ofs + 1 /\ rid' = rid + 1
          /\ UNCHANGED sendMu
  /\ UNCHANGED <<sid, aid, listen, link, opened, history, sends, faults>>

(* The POST goes out after mu was released. *)
SendPost(s) ==
  /\ sender[s].pc = "posting"
  /\ wire' = [sid |-> sender[s].sid, ofs |-> sender[s].ofs, rid |-> sender[s].rid,
              ping |-> FALSE]
  /\ sender' = [sender EXCEPT ![s].pc = "posted"]
  /\ UNCHANGED <<counters, sendMu, listen, link, opened, pinged, handled, given, skipped,
                 sends, faults>>

(* The answer, or an error, which the caller gets; sendMu is released. *)
SendReturn(s) ==
  /\ sender[s].pc = "posted"
  /\ sender' = [sender EXCEPT ![s] = Idle]
  /\ sendMu' = "free"
  /\ UNCHANGED <<counters, listen, link, opened, history, sends, faults>>

------------------------------------------------------------------------------
Listen ==
  \/ RegisterStart \/ RegisterOK \/ RegisterFails
  \/ LoopEnds \/ PollStart \/ PollFails \/ PollOpens \/ PollContinues
  \/ Adopt \/ AckOK \/ AckFails \/ PingStart \/ PingOK \/ PingFails
  \/ Chunk \/ ArraySkipped \/ ArrayHandled \/ ArrayRecorded
  \/ CleanEOF \/ SIDExpiring \/ ReadFails \/ ReadIdle \/ Cancelled

Send(s) == SendPrepare(s) \/ SendPost(s) \/ SendReturn(s)

Next == Listen \/ \E s \in Senders : SendCall(s) \/ SendLock(s) \/ Send(s)

Spec == Init /\ [][Next]_vars

(* Requests are answered or fail, goroutines run, and a Go mutex is fair   *)
(* to the goroutine that has waited longest, hence SF for SendLock and     *)
(* Adopt.  The server owes no chunk.                                       *)
FairSpec ==
  /\ Spec
  /\ WF_vars(Listen) /\ SF_vars(Adopt)
  /\ \A s \in Senders : WF_vars(Send(s)) /\ SF_vars(SendLock(s))

------------------------------------------------------------------------------
(* Properties. *)

(* POSTs go on the wire in the order the server accepts: ofs and rid grow  *)
(* within a session, no POST of an old session follows one of a newer, and *)
(* an initial ping has ofs 0 (channel.go, sendMu).                         *)
WireInOrder ==
  [][wire' # wire =>
       /\ wire'.rid > wire.rid
       /\ \/ wire'.sid > wire.sid
          \/ wire'.sid = wire.sid /\ wire'.ofs > wire.ofs
       /\ wire'.ping => wire'.ofs = 0]_vars

(* Within a session OnReceiveArray is given each array at most once and in *)
(* order, however often the poll is dropped and taken up again, and never  *)
(* an array of an earlier session (channel.go, aid and adoptSID).          *)
HandledOnce ==
  [][handled' # handled =>
       \/ handled'.sid > handled.sid
       \/ handled'.sid = handled.sid /\ handled'.n > handled.n]_vars

(* Every array that the next poll or POST acknowledges was given to        *)
(* OnReceiveArray in this very session, or was one that could not be       *)
(* decoded, which the number of a later array acknowledges along: a poll   *)
(* that drops loses no array that can be read (channel.go, onPushData).    *)
AckedIsHandled == 1..aid \subseteq given \cup skipped

(* Every SendStreamEvent returns: no path through adoptSID, its failures   *)
(* included, leaves sendMu locked (channel.go, sendMu).                    *)
SendsReturn == \A s \in Senders : (sender[s].pc = "waiting") ~> (sender[s].pc = "idle")

(* What the comments in adoptSID say, "the required ack and initial ping"  *)
(* and "without it the server never streams events": a session that is     *)
(* read has been pinged.                                                   *)
(* It does not hold (README, Violations).                                  *)
ReadIsPinged == pc = "read" => sid \in pinged

(* What the comment on wireChannel says, "Events during a reconnect gap    *)
(* are not replayed; the connector must catch up": when a later session    *)
(* delivers its first event, Connected has been reported in that session.  *)
(* It does not hold (README, Violations).                                  *)
GapIsReported == pc = "record" => toldSid = sid
=============================================================================
