----------------------------- MODULE EventStream -----------------------------
(***************************************************************************)
(* How one login follows its Google Chat event log: the live stream, the   *)
(* revision watermark, the catch_up_user drains that replay what the       *)
(* stream missed, and the first chat-list sync that switches them off      *)
(* (pkg/connector: client.go, events.go, backfill.go, sync.go).            *)
(*                                                                         *)
(* The actors are Google (Post), the Connect goroutine, which delivers     *)
(* live events and connection states one at a time, and the goroutines     *)
(* handleConnState starts: a catchUp per reconnect and a syncChats per     *)
(* first connect.  They share the watermark, syncInProgress and            *)
(* initialSyncDone.  Events are numbered by user_revision; what a body     *)
(* says is left out, only whether its handler reported Success.            *)
(***************************************************************************)
EXTENDS Naturals

CONSTANTS
  MaxPosted,  \* bound: events Google posts
  NBodies,    \* NBodies[e]: bodies splitEventBodies makes of event e
  PageSize,   \* bound: events in one catch_up_user page
  MaxPages,   \* catchUpMaxPages (100 in the code)
  Drains,     \* bound: catchUp goroutines alive at once
  Syncs,      \* bound: syncChats goroutines alive at once
  FaultKinds, \* the faults this instance allows
  MaxFaults   \* bound: faults in a behaviour

AllFaults == {"drop", "restart", "dispatch", "save", "fetch", "world"}

ASSUME ConstantsAssumption ==
  /\ MaxPosted \in Nat /\ PageSize \in Nat /\ MaxFaults \in Nat
  /\ MaxPages \in Nat \ {0}
  /\ NBodies \in [1..MaxPosted -> Nat \ {0}]
  /\ FaultKinds \subseteq AllFaults

VARIABLES
  posted,          \* events 1..posted exist on Google's side
  linkUp,          \* a chunk has arrived since the last disconnect
  live,            \* the last event the stream has dealt with, or is past
  liveBody,        \* the body of event live + 1 that is delivered next
  rev,             \* UserLoginMetadata.Revision in memory
  saved,           \* UserLoginMetadata.Revision in the database
  initialSyncDone, \* the latch of shouldSyncOnConnect
  syncInProgress,  \* the flag that makes catchUp skip
  sync,            \* sync[s]: where syncChats goroutine s stands
  drain,           \* drain[d]: the locals of catchUp goroutine d
  handled,         \* history: the bodies handled with success
  failed,          \* history: the bodies a handler has failed on
  liveHigh,        \* history: the highest revision handled off the stream
  faults           \* how many faults have happened

stream  == <<posted, linkUp, live, liveBody>>
syncing == <<initialSyncDone, syncInProgress, sync>>
history == <<handled, failed, liveHigh>>
vars    == <<stream, rev, saved, syncing, drain, history, faults>>

(* Every body of the log. *)
Bodies == UNION {{<<e, b>> : b \in 1..NBodies[e]} : e \in 1..MaxPosted}

(* The locals of a catchUp: pc, the revision it started from, the cursor   *)
(* its current page starts after, the last event of that page, the body it *)
(* handles next, whether the server has more pages, and the pages asked.   *)
DrainState ==
  [pc : {"idle", "spawned", "fetch", "replay", "drained"},
   from : 0..MaxPosted, cursor : 0..MaxPosted, last : 0..MaxPosted,
   ev : 1..(MaxPosted + 1), body : Nat \ {0}, more : BOOLEAN, pages : 0..MaxPages]

NoDrain == [pc |-> "idle", from |-> 0, cursor |-> 0, last |-> 0,
            ev |-> 1, body |-> 1, more |-> FALSE, pages |-> 0]

Free == {d \in Drains : drain[d].pc \in {"idle", "drained"}}

TypeOK ==
  /\ posted \in 0..MaxPosted /\ linkUp \in BOOLEAN
  /\ live \in 0..posted /\ liveBody \in Nat \ {0}
  /\ rev \in 0..posted /\ saved \in 0..rev
  /\ initialSyncDone \in BOOLEAN /\ syncInProgress \in BOOLEAN
  /\ sync \in [Syncs -> {"idle", "running", "failed"}]
  /\ drain \in [Drains -> DrainState]
  /\ handled \subseteq Bodies /\ failed \subseteq Bodies
  /\ liveHigh \in 0..posted
  /\ faults \in 0..MaxFaults

Init ==
  /\ posted = 0 /\ linkUp = FALSE /\ live = 0 /\ liveBody = 1
  /\ rev = 0 /\ saved = 0
  /\ initialSyncDone = FALSE /\ syncInProgress = FALSE
  /\ sync = [s \in Syncs |-> "idle"]
  /\ drain = [d \in Drains |-> NoDrain]
  /\ handled = {} /\ failed = {} /\ liveHigh = 0
  /\ faults = 0

(* A fault of kind k happens now; the bound is spent here. *)
Fault(k) ==
  /\ k \in FaultKinds
  /\ faults < MaxFaults
  /\ faults' = faults + 1

------------------------------------------------------------------------------
(* The watermark. *)

(* save writes the metadata with r as its Revision; when the database      *)
(* refuses, the caller logs it and the value in memory stays.              *)
SaveMetadata(r) ==
  \/ saved' = r /\ UNCHANGED faults
  \/ Fault("save") /\ UNCHANGED saved

(* Mutant: the check that the revision is newer is gone. *)
AdvanceToAnyRevision(e) == rev' = e /\ SaveMetadata(e)

(* advanceUserRevision through updateMetadata: only to a newer revision,   *)
(* and nothing is written when it is not newer.                            *)
AdvanceUserRevision(e) ==
  \/ rev < e /\ rev' = e /\ SaveMetadata(e)
  \/ rev >= e /\ UNCHANGED <<rev, saved, faults>>

(* handleGChatEvent: the watermark advances only when the dispatch of the  *)
(* body succeeded.                                                         *)
HandleOK(e, b) ==
  /\ handled' = handled \cup {<<e, b>>}
  /\ AdvanceUserRevision(e)
  /\ UNCHANGED failed

HandleFails(e, b) ==
  /\ failed' = failed \cup {<<e, b>>}
  /\ Fault("dispatch")
  /\ UNCHANGED <<handled, rev, saved>>

------------------------------------------------------------------------------
(* Google and the Connect goroutine. *)

Post ==
  /\ posted < MaxPosted
  /\ posted' = posted + 1
  /\ UNCHANGED <<linkUp, live, liveBody, rev, saved, syncing, drain, history, faults>>

(* onReceiveArray hands the bodies of the next event to OnStreamEvent one  *)
(* by one, whatever each of them returns.                                  *)
LiveEvent ==
  /\ linkUp /\ live < posted
  /\ \/ /\ HandleOK(live + 1, liveBody)
        /\ liveHigh' = IF liveHigh < live + 1 THEN live + 1 ELSE liveHigh
     \/ /\ HandleFails(live + 1, liveBody)
        /\ UNCHANGED liveHigh
  /\ IF liveBody < NBodies[live + 1]
     THEN liveBody' = liveBody + 1 /\ UNCHANGED live
     ELSE liveBody' = 1 /\ live' = live + 1
  /\ UNCHANGED <<posted, linkUp, syncing, drain>>

(* The poll drops between two arrays; OnDisconnect only reports it. *)
Disconnected ==
  /\ linkUp /\ liveBody = 1
  /\ linkUp' = FALSE
  /\ Fault("drop")
  /\ UNCHANGED <<posted, live, liveBody, rev, saved, syncing, drain, history>>

(* handleConnState on Connected: persistCookies saves the metadata, then   *)
(* the first Connected of the connection starts syncChats and every later  *)
(* one starts catchUp.  The stream goes on from some event that was posted *)
(* since: what Google did not keep for the session is not sent again.      *)
Connected ==
  /\ ~linkUp /\ linkUp' = TRUE
  /\ live' \in live..posted
  /\ UNCHANGED <<posted, liveBody, rev, history>>
  /\ SaveMetadata(rev)
  /\ \/ /\ ~initialSyncDone
        /\ initialSyncDone' = TRUE /\ syncInProgress' = TRUE
        /\ \E s \in Syncs : sync[s] = "idle" /\ sync' = [sync EXCEPT ![s] = "running"]
        /\ UNCHANGED drain
     \/ /\ initialSyncDone
        /\ \E d \in Free : drain' = [drain EXCEPT ![d] = [NoDrain EXCEPT !.pc = "spawned"]]
        /\ UNCHANGED syncing

(* Mutant: the new process does not read the stored watermark. *)
RestartFromZero ==
  /\ Fault("restart")
  /\ linkUp' = FALSE /\ liveBody' = 1
  /\ rev' = 0
  /\ initialSyncDone' = FALSE /\ syncInProgress' = FALSE
  /\ sync' = [s \in Syncs |-> "idle"]
  /\ drain' = [d \in Drains |-> NoDrain]
  /\ UNCHANGED <<posted, live, saved, history>>

(* The process dies and starts again: what was not saved is gone, and the  *)
(* new client has a fresh latch.                                           *)
Restart ==
  /\ Fault("restart")
  /\ linkUp' = FALSE /\ liveBody' = 1
  /\ rev' = saved
  /\ initialSyncDone' = FALSE /\ syncInProgress' = FALSE
  /\ sync' = [s \in Syncs |-> "idle"]
  /\ drain' = [d \in Drains |-> NoDrain]
  /\ UNCHANGED <<posted, live, saved, history>>

------------------------------------------------------------------------------
(* syncChats. *)

(* fetchWorldWithRetry succeeds, updateOwnLoginProfile and the pending     *)
(* invites may save the metadata, the resyncs are queued and the deferred  *)
(* setSyncInProgress(false) runs.                                          *)
SyncDone(s) ==
  /\ sync[s] = "running"
  /\ sync' = [sync EXCEPT ![s] = "idle"]
  /\ syncInProgress' = FALSE
  /\ \/ SaveMetadata(rev)
     \/ UNCHANGED <<saved, faults>>
  /\ UNCHANGED <<stream, rev, initialSyncDone, drain, history>>

(* paginated_world fails for good: resetSyncLatch lets a later Connected   *)
(* try again ...                                                           *)
SyncFails(s) ==
  /\ sync[s] = "running"
  /\ Fault("world")
  /\ sync' = [sync EXCEPT ![s] = "failed"]
  /\ initialSyncDone' = FALSE
  /\ UNCHANGED <<stream, rev, saved, syncInProgress, drain, history>>

(* Mutant: the error return forgets the flag. *)
SyncFailedKeepsFlag(s) ==
  /\ sync[s] = "failed"
  /\ sync' = [sync EXCEPT ![s] = "idle"]
  /\ UNCHANGED <<stream, rev, saved, initialSyncDone, syncInProgress, drain, history, faults>>

(* ... and then the deferred setSyncInProgress(false) runs. *)
SyncFailedReturns(s) ==
  /\ sync[s] = "failed"
  /\ sync' = [sync EXCEPT ![s] = "idle"]
  /\ syncInProgress' = FALSE
  /\ UNCHANGED <<stream, rev, saved, initialSyncDone, drain, history, faults>>

------------------------------------------------------------------------------
(* catchUp. *)

(* It returns at once while the first sync runs; else it copies the        *)
(* watermark, by now perhaps moved by a live event, into its own cursor.   *)
DrainStart(d) ==
  /\ drain[d].pc = "spawned"
  /\ drain' = [drain EXCEPT ![d] =
       IF syncInProgress THEN NoDrain
       ELSE [@ EXCEPT !.pc = "fetch", !.from = rev, !.cursor = rev, !.last = rev]]
  /\ UNCHANGED <<stream, rev, saved, syncing, history, faults>>

(* catch_up_user answers with the events after the cursor: all of them     *)
(* (COMPLETED), or a page of them, perhaps an empty one (PAGINATED).       *)
DrainFetch(d) ==
  /\ drain[d].pc = "fetch"
  /\ \E n \in drain[d].cursor..posted, more \in BOOLEAN :
       /\ IF more THEN n <= drain[d].cursor + PageSize ELSE n = posted
       /\ drain' = [drain EXCEPT ![d] =
            [@ EXCEPT !.pc = "replay", !.last = n, !.ev = drain[d].cursor + 1,
                      !.body = 1, !.more = more, !.pages = drain[d].pages + 1]]
  /\ UNCHANGED <<stream, rev, saved, syncing, history, faults>>

(* The call fails, or Google answers ABORTED: nothing is replayed. *)
DrainFetchFails(d) ==
  /\ drain[d].pc = "fetch"
  /\ Fault("fetch")
  /\ drain' = [drain EXCEPT ![d] = NoDrain]
  /\ UNCHANGED <<stream, rev, saved, syncing, history>>

(* Mutant: a failed event does not end the drain. *)
DrainReplayGoesOn(d) ==
  LET e == drain[d].ev
      b == drain[d].body
  IN /\ drain[d].pc = "replay" /\ e <= drain[d].last
     /\ HandleOK(e, b) \/ HandleFails(e, b)
     /\ drain' = [drain EXCEPT ![d] =
          IF b < NBodies[e] THEN [@ EXCEPT !.body = b + 1]
                            ELSE [@ EXCEPT !.ev = e + 1, !.body = 1]]
     /\ UNCHANGED <<stream, syncing, liveHigh>>

(* The next body of the page goes through handleGChatEvent; a failure ends *)
(* the drain.                                                              *)
DrainReplay(d) ==
  LET e == drain[d].ev
      b == drain[d].body
  IN /\ drain[d].pc = "replay" /\ e <= drain[d].last
     /\ \/ /\ HandleOK(e, b)
           /\ drain' = [drain EXCEPT ![d] =
                IF b < NBodies[e] THEN [@ EXCEPT !.body = b + 1]
                                  ELSE [@ EXCEPT !.ev = e + 1, !.body = 1]]
        \/ /\ HandleFails(e, b)
           /\ drain' = [drain EXCEPT ![d] = NoDrain]
     /\ UNCHANGED <<stream, syncing, liveHigh>>

(* Mutant: the next page is asked for from the shared watermark. *)
DrainPageDoneSharedCursor(d) ==
  LET r == drain[d]
  IN /\ r.pc = "replay" /\ r.ev > r.last
     /\ drain' = [drain EXCEPT ![d] =
          IF ~r.more THEN [r EXCEPT !.pc = "drained"]
          ELSE IF r.last <= r.cursor \/ r.pages >= MaxPages THEN NoDrain
          ELSE [r EXCEPT !.pc = "fetch", !.cursor = rev]]
     /\ UNCHANGED <<stream, rev, saved, syncing, history, faults>>

(* Mutant: neither the cursor check nor the page limit ends the loop. *)
DrainPageDoneForever(d) ==
  LET r == drain[d]
  IN /\ r.pc = "replay" /\ r.ev > r.last
     /\ drain' = [drain EXCEPT ![d] =
          IF ~r.more THEN [r EXCEPT !.pc = "drained"]
          ELSE [r EXCEPT !.pc = "fetch", !.cursor = r.last, !.pages = 0]]
     /\ UNCHANGED <<stream, rev, saved, syncing, history, faults>>

(* The page is through.  COMPLETED ends the drain; otherwise the next page *)
(* is asked for from the cursor, unless the cursor did not move or the     *)
(* page limit is reached.                                                  *)
DrainPageDone(d) ==
  LET r == drain[d]
  IN /\ r.pc = "replay" /\ r.ev > r.last
     /\ drain' = [drain EXCEPT ![d] =
          IF ~r.more THEN [r EXCEPT !.pc = "drained"]
          ELSE IF r.last <= r.cursor \/ r.pages >= MaxPages THEN NoDrain
          ELSE [r EXCEPT !.pc = "fetch", !.cursor = r.last]]
     /\ UNCHANGED <<stream, rev, saved, syncing, history, faults>>

------------------------------------------------------------------------------
Drain(d) ==
  DrainStart(d) \/ DrainFetch(d) \/ DrainFetchFails(d) \/ DrainReplay(d) \/ DrainPageDone(d)

Sync(s) == SyncDone(s) \/ SyncFails(s) \/ SyncFailedReturns(s)

Next ==
  \/ Post \/ LiveEvent \/ Disconnected \/ Connected \/ Restart
  \/ \E s \in Syncs : Sync(s)
  \/ \E d \in Drains : Drain(d)

Spec == Init /\ [][Next]_vars

(* The goroutines keep running: the Go scheduler runs every one of them,   *)
(* requests end by their own timeouts, and the supervisor reconnects for   *)
(* as long as the login stays valid.  Google posting and faults are not    *)
(* fair.                                                                   *)
FairSpec ==
  /\ Spec
  /\ WF_vars(LiveEvent) /\ WF_vars(Connected)
  /\ \A s \in Syncs : WF_vars(Sync(s))
  /\ \A d \in Drains : WF_vars(Drain(d))

------------------------------------------------------------------------------
(* Properties. *)

Touched(e) == \E b \in 1..NBodies[e] : <<e, b>> \in handled

(* A drain never moves the watermark past an event of which it handled     *)
(* nothing: an event at or below the watermark had a body handled, or the  *)
(* stream handled a later event (backfill.go, the early return of catchUp  *)
(* on a failed event).                                                     *)
DrainSkipsNothing == \A e \in 1..rev : Touched(e) \/ e <= liveHigh

(* A drain that ran to COMPLETED handled every body of every event after   *)
(* the revision it started from, and left the watermark no lower than its  *)
(* end, whatever the stream and other drains did meanwhile (backfill.go:   *)
(* the local cursor of catchUp).                                           *)
CompletedDrainIsComplete ==
  \A d \in Drains : drain[d].pc = "drained" =>
    /\ \A e \in (drain[d].from + 1)..drain[d].last :
         \A b \in 1..NBodies[e] : <<e, b>> \in handled
    /\ rev >= drain[d].last

(* The flag that disables catch-up is up only while a syncChats goroutine  *)
(* that will clear it is alive (sync.go, the deferred                      *)
(* setSyncInProgress(false)): catch-up is never off for good.              *)
FlagHasAnOwner == syncInProgress => \E s \in Syncs : sync[s] # "idle"

(* Every catchUp goroutine ends, even when Google keeps answering with     *)
(* empty pages that promise more (backfill.go, the cursor check and the    *)
(* page limit).                                                            *)
DrainsEnd ==
  \A d \in Drains : (drain[d].pc \in {"spawned", "fetch", "replay"}) ~> (d \in Free)

(* The watermark keeps its promise: EventDelivery, with the watermark in   *)
(* the database as its mark, allows every step.                            *)
Promise == INSTANCE EventDelivery WITH mark <- saved
WatermarkPromise == Promise!Spec

(* What the comment on handleGChatEvent says, "a failed event is           *)
(* re-fetched by the next catch_up": an event whose handling failed stays  *)
(* above the watermark until a replay handles it.                          *)
FailedIsRefetched == \A x \in failed \ handled : x[1] > rev

(* What the comment in handleConnState says, "Set before spawning, so a    *)
(* quick reconnect can't race an unfinished first sync": syncInProgress is *)
(* up for as long as a first chat-list sync runs.                          *)
(* It does not hold (README, Violations).                                  *)
SyncRaisesTheFlag == \A s \in Syncs : sync[s] = "running" => syncInProgress

(* What ROADMAP.md ("Missed-event catch-up after bridge downtime") and the *)
(* comment in FetchMessages ("catch_up_user covers it") say: an event the  *)
(* bridge missed is replayed once it is connected again.                   *)
(* It does not hold (README, Violations).                                  *)
DowntimeIsReplayed ==
  \A e \in 1..MaxPosted : (posted >= e /\ 0 < rev /\ rev < e) ~> Touched(e)

(* What docs/ARCHITECTURE.md says, "On reconnect, catchUp replays missed   *)
(* events", for the plainest case: the process runs on, its first sync is  *)
(* over, and the event came while the stream was down.                     *)
(* It does not hold (README, Violations).                                  *)
GapIsReplayed ==
  \A e \in 1..MaxPosted :
    (posted >= e /\ 0 < rev /\ rev < e /\ ~linkUp /\ initialSyncDone /\ ~syncInProgress)
      ~> Touched(e)
=============================================================================
