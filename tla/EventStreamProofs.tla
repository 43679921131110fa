-------------------------- MODULE EventStreamProofs --------------------------
(***************************************************************************)
(* Proofs about EventStream, for every log length, body count, page size,  *)
(* page limit, number of goroutines and number of faults.                  *)
(*                                                                         *)
(* IInv is the inductive invariant.  Its drain part follows a catchUp by   *)
(* position: everything before the position is settled, everything between *)
(* the start and the position is handled body by body.                     *)
(***************************************************************************)
EXTENDS EventStream, TLAPS

(* Event e cannot be lost by a drain any more: a body of it was handled,   *)
(* or the stream got past it.                                              *)
Settled(e) == Touched(e) \/ e <= liveHigh

Complete(e) == \A b \in 1..NBodies[e] : <<e, b>> \in handled

(* The body the stream delivers next exists. *)
LiveOK ==
  /\ liveBody > 1 => linkUp /\ live < posted
  /\ live < MaxPosted => liveBody <= NBodies[live + 1]

FetchOK(r) ==
  r.pc = "fetch" =>
    /\ r.from <= r.cursor /\ r.cursor = r.last /\ r.last <= posted
    /\ r.pages < MaxPages
    /\ r.last <= rev
    /\ \A e \in 1..r.cursor : Settled(e)
    /\ \A e \in (r.from + 1)..r.cursor : Complete(e)

ReplayOK(r) ==
  r.pc = "replay" =>
    /\ r.from <= r.cursor /\ r.cursor < r.ev /\ r.ev <= r.last + 1 /\ r.last <= posted
    /\ r.cursor <= r.last
    /\ r.ev <= r.last => r.body <= NBodies[r.ev]
    /\ r.ev <= rev + 1
    /\ \A e \in 1..(r.ev - 1) : Settled(e)
    /\ \A e \in (r.from + 1)..(r.ev - 1) : Complete(e)
    /\ \A b \in 1..(r.body - 1) : <<r.ev, b>> \in handled

DrainedOK(r) ==
  r.pc = "drained" =>
    /\ \A e \in (r.from + 1)..r.last : Complete(e)
    /\ r.last <= rev

SpawnedOK(r) == r.pc = "spawned" => r.pages = 0

DrainOK(r) == SpawnedOK(r) /\ FetchOK(r) /\ ReplayOK(r) /\ DrainedOK(r)

IInv ==
  /\ TypeOK
  /\ LiveOK
  /\ DrainSkipsNothing
  /\ \A d \in Drains : DrainOK(drain[d])

LEMMA EventHasABody == \A n \in Nat : n < MaxPosted => 1 <= NBodies[n + 1]
<1>. SUFFICES ASSUME NEW n \in Nat, n < MaxPosted PROVE 1 <= NBodies[n + 1]
  OBVIOUS
<1>1. n + 1 \in 1..MaxPosted
  BY ConstantsAssumption
<1>2. NBodies[n + 1] \in Nat \ {0}
  BY <1>1, ConstantsAssumption
<1>. QED BY <1>2

LEMMA IdleIsFine == NoDrain \in DrainState /\ DrainOK(NoDrain) /\ DrainOK(NoDrain)'
BY ConstantsAssumption
   DEF DrainOK, SpawnedOK, FetchOK, ReplayOK, DrainedOK, NoDrain, DrainState

(* The locals of a catchUp that has just been started.                     *)
Spawned == [NoDrain EXCEPT !.pc = "spawned"]

LEMMA SpawnedIsFine == Spawned \in DrainState /\ DrainOK(Spawned)'
<1>1. NoDrain \in DrainState /\ NoDrain.pages = 0
  BY IdleIsFine DEF NoDrain
<1>2. Spawned \in DrainState
  BY <1>1 DEF Spawned, DrainState
<1>3. Spawned.pc = "spawned" /\ Spawned.pages = 0
  BY <1>1 DEF Spawned, DrainState
<1>4. DrainOK(Spawned)'
  BY <1>3 DEF DrainOK, SpawnedOK, FetchOK, ReplayOK, DrainedOK
<1>. QED BY <1>2, <1>4

LEMMA InitIInv == Init => IInv
<1>. SUFFICES ASSUME Init PROVE IInv
  OBVIOUS
<1>1. TypeOK
  <2>1. drain \in [Drains -> DrainState]
    BY IdleIsFine DEF Init
  <2>2. sync \in [Syncs -> {"idle", "running", "failed"}]
    BY DEF Init
  <2>3. handled \subseteq Bodies /\ failed \subseteq Bodies
    BY DEF Init
  <2>4. linkUp \in BOOLEAN /\ initialSyncDone \in BOOLEAN /\ syncInProgress \in BOOLEAN
    BY DEF Init
  <2>5. /\ posted \in 0..MaxPosted /\ live \in 0..posted /\ liveBody \in Nat \ {0}
        /\ rev \in 0..posted /\ saved \in 0..rev /\ liveHigh \in 0..posted
        /\ faults \in 0..MaxFaults
    BY ConstantsAssumption DEF Init
  <2>. QED BY <2>1, <2>2, <2>3, <2>4, <2>5 DEF TypeOK
<1>2. LiveOK
  BY ConstantsAssumption DEF Init, LiveOK
<1>3. DrainSkipsNothing
  BY DEF Init, DrainSkipsNothing
<1>4. \A d \in Drains : DrainOK(drain[d])
  BY IdleIsFine DEF Init
<1>. QED BY <1>1, <1>2, <1>3, <1>4 DEF IInv

(* What a drain relies on survives any step that only adds to handled,     *)
(* liveHigh, posted and rev.                                               *)
LEMMA DrainOKStable ==
  ASSUME NEW r \in DrainState, IInv, DrainOK(r),
         handled \subseteq handled', liveHigh' \in Nat, liveHigh <= liveHigh',
         posted' \in Nat, posted <= posted', rev' \in Nat, rev <= rev'
  PROVE  DrainOK(r)'
<1>1. \A e \in 1..MaxPosted : Settled(e) => Settled(e)'
  BY DEF Settled, Touched, IInv, TypeOK
<1>2. \A e \in 1..MaxPosted : Complete(e) => Complete(e)'
  BY DEF Complete
<1>3. FetchOK(r)'
  BY <1>1, <1>2, ConstantsAssumption DEF DrainOK, FetchOK, IInv, TypeOK, DrainState
<1>4. ReplayOK(r)'
  <2>. SUFFICES ASSUME r.pc = "replay" PROVE ReplayOK(r)'
    BY DEF ReplayOK
  <2>1. ReplayOK(r) /\ posted \in 0..MaxPosted /\ rev \in 0..posted
    BY DEF DrainOK, IInv, TypeOK
  <2>2. \A e \in 1..(r.ev - 1) : Settled(e)'
    BY <1>1, <2>1, ConstantsAssumption DEF ReplayOK, DrainState
  <2>3. \A e \in (r.from + 1)..(r.ev - 1) : Complete(e)'
    BY <1>2, <2>1, ConstantsAssumption, SMTT(30) DEF ReplayOK, DrainState
  <2>4. \A b \in 1..(r.body - 1) : <<r.ev, b>> \in handled'
    BY <2>1 DEF ReplayOK
  <2>5. r.ev <= rev' + 1 /\ r.last <= posted'
    BY <2>1, ConstantsAssumption DEF ReplayOK, DrainState
  <2>. QED BY <2>1, <2>2, <2>3, <2>4, <2>5 DEF ReplayOK
<1>5. DrainedOK(r)'
  BY <1>1, <1>2, ConstantsAssumption DEF DrainOK, DrainedOK, IInv, TypeOK, DrainState
<1>6. SpawnedOK(r)'
  BY DEF DrainOK, SpawnedOK
<1>. QED BY <1>3, <1>4, <1>5, <1>6 DEF DrainOK

------------------------------------------------------------------------------
(* The steps, one lemma for each.                                          *)

(* Handling a body with success only adds to handled and moves the         *)
(* watermark to its event at most.                                         *)
LEMMA HandleOKEffect ==
  ASSUME TypeOK, NEW e \in 1..posted, NEW b \in 1..NBodies[e], HandleOK(e, b)
  PROVE  /\ handled' = handled \cup {<<e, b>>} /\ handled' \subseteq Bodies
         /\ rev' \in 0..posted /\ rev <= rev' /\ e <= rev'
         /\ rev' = rev \/ rev' = e
         /\ saved' \in 0..rev' /\ faults' \in 0..MaxFaults
         /\ failed' = failed
<1>1. <<e, b>> \in Bodies
  BY ConstantsAssumption DEF TypeOK, Bodies
<1>2. /\ handled' = handled \cup {<<e, b>>} /\ handled' \subseteq Bodies
      /\ failed' = failed
  BY <1>1 DEF HandleOK, TypeOK
<1>3. CASE rev < e /\ rev' = e /\ SaveMetadata(e)
  BY <1>2, <1>3, ConstantsAssumption DEF SaveMetadata, Fault, TypeOK
<1>4. CASE rev >= e /\ UNCHANGED <<rev, saved, faults>>
  BY <1>2, <1>4, ConstantsAssumption DEF TypeOK
<1>. QED BY <1>3, <1>4 DEF HandleOK, AdvanceUserRevision

LEMMA HandleFailsEffect ==
  ASSUME TypeOK, NEW e \in 1..posted, NEW b \in 1..NBodies[e], HandleFails(e, b)
  PROVE  /\ UNCHANGED <<handled, rev, saved>>
         /\ failed' \subseteq Bodies /\ faults' \in 0..MaxFaults
<1>1. <<e, b>> \in Bodies
  BY ConstantsAssumption DEF TypeOK, Bodies
<1>2. UNCHANGED <<handled, rev, saved>> /\ failed' \subseteq Bodies
  BY <1>1 DEF HandleFails, TypeOK
<1>3. faults' \in 0..MaxFaults
  BY ConstantsAssumption DEF HandleFails, Fault, TypeOK
<1>. QED BY <1>2, <1>3

(* A step that leaves the drains alone and loses nothing keeps what they   *)
(* rely on.                                                                *)
LEMMA DrainsUndisturbed ==
  ASSUME IInv, TypeOK', drain' = drain,
         handled \subseteq handled', liveHigh <= liveHigh', posted <= posted', rev <= rev'
  PROVE  \A d \in Drains : DrainOK(drain[d])'
<1>. SUFFICES ASSUME NEW d \in Drains PROVE DrainOK(drain[d])'
  OBVIOUS
<1>1. drain[d] \in DrainState /\ DrainOK(drain[d]) /\ drain'[d] = drain[d]
  BY DEF IInv, TypeOK
<1>2. liveHigh' \in Nat /\ posted' \in Nat /\ rev' \in Nat
  BY ConstantsAssumption DEF TypeOK
<1>. QED BY <1>1, <1>2, DrainOKStable

LEMMA PostStep == IInv /\ Post => IInv'
<1>. SUFFICES ASSUME IInv, Post PROVE IInv'
  OBVIOUS
<1>. USE ConstantsAssumption
<1>1. TypeOK'
  BY DEF Post, IInv, TypeOK, stream, syncing, history
<1>2. LiveOK'
  BY DEF Post, IInv, TypeOK, LiveOK
<1>3. DrainSkipsNothing'
  BY DEF Post, IInv, TypeOK, DrainSkipsNothing, Touched, history
<1>4. \A d \in Drains : DrainOK(drain[d])'
  BY <1>1, DrainsUndisturbed DEF Post, IInv, TypeOK, history
<1>. QED BY <1>1, <1>2, <1>3, <1>4 DEF IInv

LEMMA LiveEventStep == IInv /\ LiveEvent => IInv'
<1>. SUFFICES ASSUME IInv, LiveEvent PROVE IInv'
  OBVIOUS
<1>. USE ConstantsAssumption
<1>. DEFINE e == live + 1
<1>0. /\ TypeOK /\ e \in 1..posted /\ e <= MaxPosted /\ liveBody \in 1..NBodies[e]
      /\ UNCHANGED <<posted, linkUp, initialSyncDone, syncInProgress, sync, drain>>
      /\ linkUp
  BY DEF LiveEvent, IInv, TypeOK, LiveOK, syncing
<1>1. /\ handled \subseteq handled' /\ handled' \subseteq Bodies /\ failed' \subseteq Bodies
      /\ rev' \in 0..posted /\ rev <= rev' /\ saved' \in 0..rev' /\ faults' \in 0..MaxFaults
      /\ rev' = rev \/ rev' <= liveHigh'
      /\ liveHigh' \in 0..posted /\ liveHigh <= liveHigh'
  <2>1. CASE /\ HandleOK(e, liveBody)
             /\ liveHigh' = IF liveHigh < e THEN e ELSE liveHigh
    <3>0. /\ handled' = handled \cup {<<e, liveBody>>} /\ handled' \subseteq Bodies
          /\ failed' = failed
      BY <1>0, <2>1, HandleOKEffect
    <3>a. failed \subseteq Bodies
      BY <1>0 DEF TypeOK
    <3>1. /\ handled \subseteq handled' /\ handled' \subseteq Bodies /\ failed' \subseteq Bodies
      BY <3>0, <3>a
    <3>2. /\ rev' \in 0..posted /\ rev <= rev' /\ (rev' = rev \/ rev' = e)
          /\ saved' \in 0..rev' /\ faults' \in 0..MaxFaults
      BY <1>0, <2>1, HandleOKEffect
    <3>3. liveHigh' \in 0..posted /\ liveHigh <= liveHigh' /\ e <= liveHigh'
      BY <1>0, <2>1 DEF TypeOK
    <3>4. rev' = rev \/ rev' <= liveHigh'
      BY <1>0, <3>2, <3>3 DEF TypeOK
    <3>. QED BY <3>1, <3>2, <3>3, <3>4
  <2>2. CASE HandleFails(e, liveBody) /\ UNCHANGED liveHigh
    <3>1. UNCHANGED <<handled, rev, saved>> /\ failed' \subseteq Bodies
          /\ faults' \in 0..MaxFaults
      BY <1>0, <2>2, HandleFailsEffect
    <3>2. handled \subseteq handled' /\ handled' \subseteq Bodies
      BY <3>1, <1>0 DEF TypeOK
    <3>3. /\ rev' \in 0..posted /\ rev <= rev' /\ rev' = rev /\ saved' \in 0..rev'
          /\ liveHigh' \in 0..posted /\ liveHigh <= liveHigh'
      BY <3>1, <2>2, <1>0 DEF TypeOK
    <3>. QED BY <3>1, <3>2, <3>3
  <2>. QED BY <2>1, <2>2 DEF LiveEvent
<1>2. /\ live' \in 0..posted /\ liveBody' \in Nat \ {0}
      /\ liveBody' > 1 => live' < posted
      /\ live' < MaxPosted => liveBody' <= NBodies[live' + 1]
  <2>1. CASE liveBody < NBodies[e] /\ liveBody' = liveBody + 1 /\ live' = live
    BY <1>0, <2>1 DEF TypeOK
  <2>2. CASE liveBody' = 1 /\ live' = live + 1
    BY <1>0, <2>2 DEF TypeOK
  <2>. QED BY <2>1, <2>2 DEF LiveEvent
<1>3. TypeOK'
  BY <1>0, <1>1, <1>2 DEF TypeOK
<1>4. LiveOK'
  BY <1>0, <1>2 DEF LiveOK
<1>5. DrainSkipsNothing'
  <2>. SUFFICES ASSUME NEW x \in 1..rev' PROVE Touched(x)' \/ x <= liveHigh'
    BY DEF DrainSkipsNothing
  <2>1. CASE x \in 1..rev
    <3>1. Touched(x) \/ x <= liveHigh
      BY <2>1 DEF IInv, DrainSkipsNothing
    <3>2. Touched(x) => Touched(x)'
      BY <1>1 DEF Touched
    <3>. QED BY <1>0, <1>1, <3>1, <3>2 DEF TypeOK
  <2>2. CASE x \notin 1..rev
    BY <1>0, <1>1, <2>2 DEF TypeOK
  <2>. QED BY <2>1, <2>2
<1>6. \A d \in Drains : DrainOK(drain[d])'
  BY <1>0, <1>1, <1>3, DrainsUndisturbed DEF TypeOK
<1>. QED BY <1>3, <1>4, <1>5, <1>6 DEF IInv

LEMMA DisconnectedStep == IInv /\ Disconnected => IInv'
<1>. SUFFICES ASSUME IInv, Disconnected PROVE IInv'
  OBVIOUS
<1>. USE ConstantsAssumption
<1>1. /\ UNCHANGED <<posted, live, liveBody, rev, saved, syncing, drain, history>>
      /\ linkUp' = FALSE /\ liveBody = 1 /\ faults' \in 0..MaxFaults
  BY DEF Disconnected, Fault, IInv, TypeOK
<1>2. TypeOK'
  BY <1>1 DEF IInv, TypeOK, syncing, history
<1>3. LiveOK'
  BY <1>1 DEF IInv, LiveOK, TypeOK
<1>4. DrainSkipsNothing'
  BY <1>1 DEF IInv, DrainSkipsNothing, Touched, history
<1>5. \A d \in Drains : DrainOK(drain[d])'
  BY <1>1, <1>2, DrainsUndisturbed DEF IInv, TypeOK, history
<1>. QED BY <1>2, <1>3, <1>4, <1>5 DEF IInv

(* A step that touches one drain and otherwise loses nothing.              *)
LEMMA OneDrainStep ==
  ASSUME IInv, TypeOK', NEW d \in Drains, DrainOK(drain[d])',
         \A c \in Drains \ {d} : drain'[c] = drain[c],
         handled \subseteq handled', liveHigh <= liveHigh', posted <= posted', rev <= rev'
  PROVE  \A c \in Drains : DrainOK(drain[c])'
<1>. SUFFICES ASSUME NEW c \in Drains PROVE DrainOK(drain[c])'
  OBVIOUS
<1>1. CASE c = d
  BY <1>1
<1>2. CASE c # d
  <2>1. drain[c] \in DrainState /\ DrainOK(drain[c]) /\ drain'[c] = drain[c]
    BY <1>2 DEF IInv, TypeOK
  <2>2. liveHigh' \in Nat /\ posted' \in Nat /\ rev' \in Nat
    BY ConstantsAssumption DEF TypeOK
  <2>. QED BY <2>1, <2>2, DrainOKStable
<1>. QED BY <1>1, <1>2

LEMMA ConnectedStep == IInv /\ Connected => IInv'
<1>. SUFFICES ASSUME IInv, Connected PROVE IInv'
  OBVIOUS
<1>. USE ConstantsAssumption
<1>1. /\ UNCHANGED <<posted, liveBody, rev, handled, failed, liveHigh>>
      /\ linkUp' = TRUE /\ ~linkUp /\ live' \in live..posted
  BY DEF Connected, history
<1>2. saved' \in 0..rev /\ faults' \in 0..MaxFaults
  <2>1. SaveMetadata(rev)
    BY DEF Connected
  <2>. QED BY <2>1 DEF SaveMetadata, Fault, IInv, TypeOK
<1>3. /\ initialSyncDone' \in BOOLEAN /\ syncInProgress' \in BOOLEAN
      /\ sync' \in [Syncs -> {"idle", "running", "failed"}]
  BY DEF Connected, IInv, TypeOK, syncing
<1>4. \/ drain' = drain
      \/ \E d \in Drains : drain' = [drain EXCEPT ![d] = Spawned]
  BY DEF Connected, Free, Spawned
<1>6. drain' \in [Drains -> DrainState]
  BY <1>4, SpawnedIsFine DEF IInv, TypeOK
<1>7. TypeOK'
  <2>1. live' \in 0..posted'
    BY <1>1 DEF IInv, TypeOK
  <2>. QED BY <1>1, <1>2, <1>3, <1>6, <2>1 DEF IInv, TypeOK
<1>8. LiveOK'
  <2>1. liveBody' = 1
    BY <1>1 DEF IInv, TypeOK, LiveOK
  <2>2. live' \in Nat
    BY <1>7 DEF TypeOK
  <2>3. live' < MaxPosted => liveBody' <= NBodies[live' + 1]
    BY <2>1, <2>2, EventHasABody
  <2>. QED BY <2>1, <2>3 DEF LiveOK
<1>9. DrainSkipsNothing'
  BY <1>1 DEF IInv, DrainSkipsNothing, Touched
<1>10. \A d \in Drains : DrainOK(drain[d])'
  <2>0. /\ handled \subseteq handled' /\ liveHigh <= liveHigh' /\ posted <= posted'
        /\ rev <= rev'
    BY <1>1 DEF IInv, TypeOK
  <2>1. CASE drain' = drain
    BY <2>0, <2>1, <1>7, DrainsUndisturbed
  <2>2. ASSUME NEW d \in Drains, drain' = [drain EXCEPT ![d] = Spawned]
        PROVE  \A c \in Drains : DrainOK(drain[c])'
    <3>1. drain'[d] = Spawned
      BY <2>2, SpawnedIsFine DEF IInv, TypeOK
    <3>2. DrainOK(drain[d])'
      BY <3>1, SpawnedIsFine
    <3>3. \A c \in Drains \ {d} : drain'[c] = drain[c]
      BY <2>2 DEF IInv, TypeOK
    <3>. QED BY <2>0, <3>2, <3>3, <1>7, OneDrainStep
  <2>. QED BY <1>4, <2>1, <2>2
<1>. QED BY <1>7, <1>8, <1>9, <1>10 DEF IInv

LEMMA RestartStep == IInv /\ Restart => IInv'
<1>. SUFFICES ASSUME IInv, Restart PROVE IInv'
  OBVIOUS
<1>. USE ConstantsAssumption
<1>1. /\ UNCHANGED <<posted, live, saved, handled, failed, liveHigh>>
      /\ linkUp' = FALSE /\ liveBody' = 1 /\ rev' = saved
      /\ initialSyncDone' = FALSE /\ syncInProgress' = FALSE
      /\ sync' = [s \in Syncs |-> "idle"]
      /\ drain' = [d \in Drains |-> NoDrain]
  BY DEF Restart, history
<1>2. faults' \in 0..MaxFaults
  BY DEF Restart, Fault, IInv, TypeOK
<1>3. drain' \in [Drains -> DrainState] /\ \A d \in Drains : DrainOK(drain[d])'
  BY <1>1, IdleIsFine
<1>4. /\ sync' \in [Syncs -> {"idle", "running", "failed"}]
      /\ linkUp' \in BOOLEAN /\ initialSyncDone' \in BOOLEAN /\ syncInProgress' \in BOOLEAN
  BY <1>1
<1>5. /\ posted' \in 0..MaxPosted /\ live' \in 0..posted' /\ liveBody' \in Nat \ {0}
      /\ rev' \in 0..posted' /\ saved' \in 0..rev' /\ liveHigh' \in 0..posted'
  BY <1>1 DEF IInv, TypeOK
<1>6. handled' \subseteq Bodies /\ failed' \subseteq Bodies
  BY <1>1 DEF IInv, TypeOK
<1>7. TypeOK'
  BY <1>2, <1>3, <1>4, <1>5, <1>6 DEF TypeOK
<1>8. LiveOK'
  BY <1>1, <1>5 DEF LiveOK
<1>9. DrainSkipsNothing'
  <2>1. 1..rev' \subseteq 1..rev
    BY <1>1 DEF IInv, TypeOK
  <2>. QED BY <1>1, <2>1 DEF IInv, DrainSkipsNothing, Touched
<1>. QED BY <1>3, <1>7, <1>8, <1>9 DEF IInv

LEMMA SyncStep == ASSUME NEW s \in Syncs, IInv, Sync(s) PROVE IInv'
<1>. USE ConstantsAssumption
<1>1. /\ UNCHANGED <<posted, linkUp, live, liveBody, rev, drain, handled, failed, liveHigh>>
      /\ saved' \in 0..rev /\ faults' \in 0..MaxFaults
  <2>1. CASE SyncDone(s)
    BY <2>1 DEF SyncDone, SaveMetadata, Fault, IInv, TypeOK, stream, history
  <2>2. CASE SyncFails(s)
    BY <2>2 DEF SyncFails, Fault, IInv, TypeOK, stream, history
  <2>3. CASE SyncFailedReturns(s)
    BY <2>3 DEF SyncFailedReturns, IInv, TypeOK, stream, history
  <2>. QED BY <2>1, <2>2, <2>3 DEF Sync
<1>2. /\ initialSyncDone' \in BOOLEAN /\ syncInProgress' \in BOOLEAN
      /\ sync' \in [Syncs -> {"idle", "running", "failed"}]
  BY DEF Sync, SyncDone, SyncFails, SyncFailedReturns, IInv, TypeOK
<1>3. TypeOK'
  BY <1>1, <1>2 DEF IInv, TypeOK
<1>4. LiveOK'
  BY <1>1 DEF IInv, LiveOK
<1>5. DrainSkipsNothing'
  BY <1>1 DEF IInv, DrainSkipsNothing, Touched
<1>6. \A d \in Drains : DrainOK(drain[d])'
  BY <1>1, <1>3, DrainsUndisturbed DEF IInv, TypeOK
<1>. QED BY <1>3, <1>4, <1>5, <1>6 DEF IInv

(* A step of one catchUp that handles nothing: its new locals q are all    *)
(* that has to be looked at.                                               *)
LEMMA QuietDrainStep ==
  ASSUME NEW d \in Drains, IInv, NEW q \in DrainState, DrainOK(q)',
         drain' = [drain EXCEPT ![d] = q],
         UNCHANGED <<stream, rev, saved, syncing, history>>, faults' \in 0..MaxFaults
  PROVE  IInv'
<1>. USE ConstantsAssumption
<1>0. UNCHANGED <<posted, linkUp, live, liveBody, rev, saved, initialSyncDone,
                  syncInProgress, sync, handled, failed, liveHigh>>
  BY DEF stream, syncing, history
<1>1. drain' \in [Drains -> DrainState]
  BY DEF IInv, TypeOK
<1>2. TypeOK'
  BY <1>0, <1>1 DEF IInv, TypeOK
<1>3. LiveOK'
  BY <1>0 DEF IInv, LiveOK
<1>4. DrainSkipsNothing'
  BY <1>0 DEF IInv, DrainSkipsNothing, Touched
<1>5. DrainOK(drain[d])'
  <2>1. drain'[d] = q
    BY DEF IInv, TypeOK
  <2>. QED BY <2>1
<1>6. \A c \in Drains \ {d} : drain'[c] = drain[c]
  BY DEF IInv, TypeOK
<1>7. /\ handled \subseteq handled' /\ liveHigh <= liveHigh' /\ posted <= posted'
      /\ rev <= rev'
  BY <1>0 DEF IInv, TypeOK
<1>8. \A c \in Drains : DrainOK(drain[c])'
  BY <1>2, <1>5, <1>6, <1>7, OneDrainStep
<1>. QED BY <1>2, <1>3, <1>4, <1>8 DEF IInv

LEMMA StartedState ==
  ASSUME NEW r \in DrainState, NEW v \in 0..MaxPosted
  PROVE  [r EXCEPT !.pc = "fetch", !.from = v, !.cursor = v, !.last = v] \in DrainState
BY DEF DrainState

LEMMA FetchedState ==
  ASSUME NEW r \in DrainState, NEW n \in 0..MaxPosted, NEW e \in 1..(MaxPosted + 1),
         NEW more \in BOOLEAN, r.pages + 1 \in 0..MaxPages
  PROVE  [r EXCEPT !.pc = "replay", !.last = n, !.ev = e, !.body = 1, !.more = more,
                   !.pages = r.pages + 1] \in DrainState
<1>1. PICK p \in DrainState : p = [r EXCEPT !.pc = "replay", !.last = n, !.ev = e]
  BY DEF DrainState
<1>2. PICK q \in DrainState : q = [p EXCEPT !.body = 1]
  <2>1. 1 \in Nat \ {0}
    OBVIOUS
  <2>2. \A b \in Nat \ {0} : [p EXCEPT !.body = b] \in DrainState
    BY DEF DrainState
  <2>. QED BY <2>1, <2>2
<1>3. PICK t \in DrainState : t = [q EXCEPT !.more = more]
  BY DEF DrainState
<1>4. t.pages = r.pages
  BY <1>1, <1>2, <1>3 DEF DrainState
<1>5. [t EXCEPT !.pages = r.pages + 1] \in DrainState
  BY <1>4 DEF DrainState
<1>6. [t EXCEPT !.pages = r.pages + 1]
        = [r EXCEPT !.pc = "replay", !.last = n, !.ev = e, !.body = 1, !.more = more,
                    !.pages = r.pages + 1]
  BY <1>1, <1>2, <1>3
<1>. QED BY <1>5, <1>6

LEMMA DrainStartStep == ASSUME NEW d \in Drains, IInv, DrainStart(d) PROVE IInv'
<1>. USE ConstantsAssumption
<1>0. /\ drain[d] \in DrainState /\ DrainOK(drain[d]) /\ drain[d].pc = "spawned"
      /\ UNCHANGED <<stream, rev, saved, syncing, history>> /\ faults' \in 0..MaxFaults
      /\ rev \in 0..posted /\ posted \in 0..MaxPosted
  BY DEF DrainStart, IInv, TypeOK
<1>1. CASE drain' = [drain EXCEPT ![d] = NoDrain]
  BY <1>0, <1>1, IdleIsFine, QuietDrainStep
<1>2. CASE drain' = [drain EXCEPT ![d] =
                 [drain[d] EXCEPT !.pc = "fetch", !.from = rev, !.cursor = rev, !.last = rev]]
  <2>1. PICK q : q = [drain[d] EXCEPT !.pc = "fetch", !.from = rev, !.cursor = rev, !.last = rev]
    OBVIOUS
  <2>0. q \in DrainState
    <3>1. rev \in 0..MaxPosted
      BY <1>0
    <3>. QED BY <1>0, <2>1, <3>1, StartedState
  <2>2. /\ q \in DrainState
        /\ q.pc = "fetch" /\ q.from = rev /\ q.cursor = rev /\ q.last = rev
        /\ q.pages = drain[d].pages
    BY <1>0, <2>0, <2>1 DEF DrainState
  <2>3. q.pages < MaxPages
    BY <1>0, <2>2 DEF DrainOK, SpawnedOK
  <2>4. \A e \in 1..q.cursor : Settled(e)'
    BY <1>0, <2>2 DEF IInv, DrainSkipsNothing, Settled, Touched, history
  <2>5. \A e \in (q.from + 1)..q.cursor : Complete(e)'
    BY <1>0, <2>2
  <2>6. q.last <= posted' /\ q.last <= rev'
    BY <1>0, <2>2 DEF stream
  <2>7. FetchOK(q)'
    BY <1>0, <2>2, <2>3, <2>4, <2>5, <2>6 DEF FetchOK
  <2>8. DrainOK(q)'
    BY <2>2, <2>7 DEF DrainOK, SpawnedOK, ReplayOK, DrainedOK
  <2>. QED BY <1>0, <1>2, <2>1, <2>2, <2>8, QuietDrainStep
<1>. QED BY <1>1, <1>2 DEF DrainStart

LEMMA DrainFetchStep == ASSUME NEW d \in Drains, IInv, DrainFetch(d) PROVE IInv'
<1>. USE ConstantsAssumption
<1>0. /\ drain[d] \in DrainState /\ FetchOK(drain[d]) /\ drain[d].pc = "fetch"
      /\ UNCHANGED <<stream, rev, saved, syncing, history>> /\ faults' \in 0..MaxFaults
      /\ rev \in 0..posted /\ posted \in 0..MaxPosted
  BY DEF DrainFetch, IInv, TypeOK, DrainOK
<1>1. PICK n \in drain[d].cursor..posted, more \in BOOLEAN :
        drain' = [drain EXCEPT ![d] =
            [@ EXCEPT !.pc = "replay", !.last = n, !.ev = drain[d].cursor + 1,
                      !.body = 1, !.more = more, !.pages = drain[d].pages + 1]]
  BY DEF DrainFetch
<1>2. PICK q : q = [drain[d] EXCEPT !.pc = "replay", !.last = n, !.ev = drain[d].cursor + 1,
                                    !.body = 1, !.more = more, !.pages = drain[d].pages + 1]
  OBVIOUS
<1>3. /\ drain[d].cursor \in 0..posted /\ drain[d].pages + 1 \in 0..MaxPages
      /\ drain[d].from <= drain[d].cursor /\ drain[d].cursor <= rev
      /\ n \in 0..posted
  BY <1>0, SMTT(30) DEF FetchOK, DrainState
<1>4. q \in DrainState
  <2>1. n \in 0..MaxPosted /\ drain[d].cursor + 1 \in 1..(MaxPosted + 1)
    BY <1>0, <1>3
  <2>. QED BY <1>0, <1>2, <1>3, <2>1, FetchedState
<1>5. /\ q.pc = "replay" /\ q.from = drain[d].from /\ q.cursor = drain[d].cursor
      /\ q.last = n /\ q.ev = q.cursor + 1 /\ q.body = 1
  BY <1>0, <1>2 DEF DrainState
<1>6. /\ \A e \in 1..q.cursor : Settled(e)
      /\ \A e \in (q.from + 1)..q.cursor : Complete(e)
  BY <1>0, <1>5 DEF FetchOK
<1>7. /\ \A e \in 1..(q.ev - 1) : Settled(e)'
      /\ \A e \in (q.from + 1)..(q.ev - 1) : Complete(e)'
  <2>1. q.ev - 1 = q.cursor
    BY <1>3, <1>5
  <2>. QED BY <1>0, <1>6, <2>1 DEF Settled, Touched, Complete, history
<1>8. q.ev <= q.last => q.body <= NBodies[q.ev]
  <2>1. q.ev <= q.last => q.cursor < MaxPosted /\ q.cursor \in Nat
    BY <1>0, <1>3, <1>5
  <2>. QED BY <1>5, <2>1, EventHasABody
<1>9. /\ q.from <= q.cursor /\ q.cursor < q.ev /\ q.ev <= q.last + 1 /\ q.last <= posted'
      /\ q.cursor <= q.last /\ q.ev <= rev' + 1
  BY <1>0, <1>1, <1>3, <1>5 DEF stream
<1>10. \A b \in 1..(q.body - 1) : <<q.ev, b>> \in handled'
  BY <1>5
<1>11. ReplayOK(q)'
  BY <1>5, <1>7, <1>8, <1>9, <1>10 DEF ReplayOK
<1>12. DrainOK(q)'
  BY <1>5, <1>11 DEF DrainOK, SpawnedOK, FetchOK, DrainedOK
<1>13. drain' = [drain EXCEPT ![d] = q]
  BY <1>1, <1>2
<1>. QED BY <1>0, <1>4, <1>12, <1>13, QuietDrainStep

LEMMA DrainFetchFailsStep == ASSUME NEW d \in Drains, IInv, DrainFetchFails(d) PROVE IInv'
<1>1. /\ drain' = [drain EXCEPT ![d] = NoDrain]
      /\ UNCHANGED <<stream, rev, saved, syncing, history>> /\ faults' \in 0..MaxFaults
  BY ConstantsAssumption DEF DrainFetchFails, Fault, IInv, TypeOK
<1>. QED BY <1>1, IdleIsFine, QuietDrainStep

LEMMA DrainPageDoneStep == ASSUME NEW d \in Drains, IInv, DrainPageDone(d) PROVE IInv'
<1>. USE ConstantsAssumption
<1>. DEFINE r == drain[d]
<1>0. /\ r \in DrainState /\ ReplayOK(r) /\ r.pc = "replay" /\ r.ev > r.last
      /\ UNCHANGED <<stream, rev, saved, syncing, history>> /\ faults' \in 0..MaxFaults
      /\ rev \in 0..posted /\ posted \in 0..MaxPosted
  BY DEF DrainPageDone, IInv, TypeOK, DrainOK
<1>1. /\ r.ev = r.last + 1 /\ r.last <= rev /\ r.last <= posted /\ r.from <= r.last
  BY <1>0, SMTT(30) DEF ReplayOK, DrainState
<1>2. /\ \A e \in 1..r.last : Settled(e)'
      /\ \A e \in (r.from + 1)..r.last : Complete(e)'
  <2>1. r.ev - 1 = r.last
    BY <1>0, <1>1 DEF DrainState
  <2>2. /\ \A e \in 1..r.last : Settled(e)
        /\ \A e \in (r.from + 1)..r.last : Complete(e)
    BY <1>0, <2>1 DEF ReplayOK
  <2>. QED BY <1>0, <2>2 DEF Settled, Touched, Complete, history
<1>3. CASE drain' = [drain EXCEPT ![d] = NoDrain]
  BY <1>0, <1>3, IdleIsFine, QuietDrainStep
<1>4. CASE drain' = [drain EXCEPT ![d] = [r EXCEPT !.pc = "drained"]]
  <2>1. PICK q : q = [r EXCEPT !.pc = "drained"]
    OBVIOUS
  <2>2. q \in DrainState /\ q.pc = "drained" /\ q.from = r.from /\ q.last = r.last
    BY <1>0, <2>1 DEF DrainState
  <2>3. q.last <= rev'
    BY <1>0, <1>1, <2>2
  <2>4. DrainOK(q)'
    BY <1>2, <2>2, <2>3 DEF DrainOK, SpawnedOK, FetchOK, ReplayOK, DrainedOK
  <2>. QED BY <1>0, <1>4, <2>1, <2>2, <2>4, QuietDrainStep
<1>5. CASE /\ r.pages < MaxPages
           /\ drain' = [drain EXCEPT ![d] = [r EXCEPT !.pc = "fetch", !.cursor = r.last]]
  <2>1. PICK q : q = [r EXCEPT !.pc = "fetch", !.cursor = r.last]
    OBVIOUS
  <2>2. /\ q \in DrainState /\ q.pc = "fetch" /\ q.from = r.from /\ q.cursor = r.last
        /\ q.last = r.last /\ q.pages = r.pages
    BY <1>0, <2>1 DEF DrainState
  <2>3. q.last <= rev' /\ q.last <= posted' /\ q.from <= q.cursor /\ q.pages < MaxPages
    BY <1>0, <1>1, <1>5, <2>2 DEF stream
  <2>4. FetchOK(q)'
    BY <1>2, <2>2, <2>3 DEF FetchOK
  <2>5. DrainOK(q)'
    BY <2>2, <2>4 DEF DrainOK, SpawnedOK, ReplayOK, DrainedOK
  <2>. QED BY <1>0, <1>5, <2>1, <2>2, <2>5, QuietDrainStep
<1>6. r.pages < MaxPages \/ r.pages >= MaxPages
  BY <1>0 DEF DrainState
<1>. QED BY <1>3, <1>4, <1>5, <1>6 DEF DrainPageDone

LEMMA BodyDoneState ==
  ASSUME NEW r \in DrainState
  PROVE  [r EXCEPT !.body = r.body + 1] \in DrainState
<1>1. r.body + 1 \in Nat \ {0}
  BY DEF DrainState
<1>2. \A b \in Nat \ {0} : [r EXCEPT !.body = b] \in DrainState
  BY DEF DrainState
<1>. QED BY <1>1, <1>2

LEMMA EventDoneState ==
  ASSUME NEW r \in DrainState, r.ev + 1 \in 1..(MaxPosted + 1)
  PROVE  [r EXCEPT !.ev = r.ev + 1, !.body = 1] \in DrainState
<1>1. PICK p \in DrainState : p = [r EXCEPT !.ev = r.ev + 1]
  BY DEF DrainState
<1>2. [p EXCEPT !.body = 1] \in DrainState
  <2>1. 1 \in Nat \ {0}
    OBVIOUS
  <2>2. \A b \in Nat \ {0} : [p EXCEPT !.body = b] \in DrainState
    BY DEF DrainState
  <2>. QED BY <2>1, <2>2
<1>. QED BY <1>1, <1>2

LEMMA DrainReplayStep == ASSUME NEW d \in Drains, IInv, DrainReplay(d) PROVE IInv'
<1>. USE ConstantsAssumption
<1>. PICK r : r = drain[d]
  OBVIOUS
<1>. DEFINE e == r.ev
<1>. DEFINE b == r.body
<1>0. /\ TypeOK /\ r \in DrainState /\ ReplayOK(r) /\ r.pc = "replay" /\ e <= r.last
      /\ UNCHANGED <<stream, syncing, liveHigh>>
  BY DEF DrainReplay, IInv, TypeOK, DrainOK
<1>1. /\ e \in 1..posted /\ b \in 1..NBodies[e] /\ e <= rev + 1
      /\ r.last <= posted /\ posted \in 0..MaxPosted /\ rev \in 0..posted
  BY <1>0 DEF ReplayOK, DrainState, TypeOK
<1>10. /\ r.from \in Nat /\ r.cursor \in Nat /\ r.last \in Nat /\ e \in Nat /\ b \in Nat
       /\ NBodies[e] \in Nat /\ posted \in Nat /\ posted <= MaxPosted
       /\ r.from <= r.cursor /\ r.cursor < e /\ e <= r.last /\ r.last <= posted
       /\ 1 <= e /\ e <= posted /\ r.cursor <= r.last
  <2>1. NBodies[e] \in Nat
    BY <1>1
  <2>. QED BY <1>0, <1>1, <2>1 DEF ReplayOK, DrainState
<1>2. CASE HandleFails(e, b) /\ drain' = [drain EXCEPT ![d] = NoDrain]
  <2>1. /\ UNCHANGED <<handled, rev, saved>>
        /\ failed' \subseteq Bodies /\ faults' \in 0..MaxFaults
    BY <1>0, <1>1, <1>2, HandleFailsEffect
  <2>2. UNCHANGED <<posted, linkUp, live, liveBody, initialSyncDone, syncInProgress,
                    sync, liveHigh>>
    BY <1>0 DEF stream, syncing
  <2>3. drain' \in [Drains -> DrainState]
    BY <1>0, <1>2, IdleIsFine DEF TypeOK
  <2>4. TypeOK'
    BY <1>0, <2>1, <2>2, <2>3 DEF TypeOK
  <2>5. LiveOK'
    BY <2>2 DEF IInv, LiveOK
  <2>6. DrainSkipsNothing'
    BY <2>1, <2>2 DEF IInv, DrainSkipsNothing, Touched
  <2>7. DrainOK(drain[d])'
    <3>1. drain'[d] = NoDrain
      BY <1>0, <1>2 DEF TypeOK
    <3>. QED BY <3>1, IdleIsFine DEF DrainOK, SpawnedOK, FetchOK, ReplayOK, DrainedOK
  <2>8. \A c \in Drains \ {d} : drain'[c] = drain[c]
    BY <1>0, <1>2 DEF TypeOK
  <2>9. /\ handled \subseteq handled' /\ liveHigh <= liveHigh' /\ posted <= posted'
        /\ rev <= rev'
    BY <1>0, <2>1, <2>2 DEF TypeOK
  <2>10. \A c \in Drains : DrainOK(drain[c])'
    BY <2>4, <2>7, <2>8, <2>9, OneDrainStep
  <2>. QED BY <2>4, <2>5, <2>6, <2>10 DEF IInv
<1>3. ASSUME HandleOK(e, b), NEW q \in DrainState, DrainOK(q)',
             drain' = [drain EXCEPT ![d] = q]
      PROVE  IInv'
  <2>1. /\ handled' = handled \cup {<<e, b>>} /\ handled' \subseteq Bodies
        /\ failed' = failed
    BY <1>0, <1>1, <1>3, HandleOKEffect
  <2>2. /\ rev' \in 0..posted /\ rev <= rev' /\ (rev' = rev \/ rev' = e)
        /\ saved' \in 0..rev' /\ faults' \in 0..MaxFaults
    BY <1>0, <1>1, <1>3, HandleOKEffect
  <2>3. UNCHANGED <<posted, linkUp, live, liveBody, initialSyncDone, syncInProgress,
                    sync, liveHigh>>
    BY <1>0 DEF stream, syncing
  <2>4. drain' \in [Drains -> DrainState]
    BY <1>0, <1>3 DEF TypeOK
  <2>5. TypeOK'
    <3>1. handled' \subseteq Bodies /\ failed' \subseteq Bodies
      BY <1>0, <2>1 DEF TypeOK
    <3>. QED BY <1>0, <2>2, <2>3, <2>4, <3>1 DEF TypeOK
  <2>6. LiveOK'
    BY <2>3 DEF IInv, LiveOK
  <2>7. DrainSkipsNothing'
    <3>. SUFFICES ASSUME NEW x \in 1..rev' PROVE Touched(x)' \/ x <= liveHigh'
      BY DEF DrainSkipsNothing
    <3>1. CASE x \in 1..rev
      <4>1. Touched(x) \/ x <= liveHigh
        BY <3>1 DEF IInv, DrainSkipsNothing
      <4>2. Touched(x) => Touched(x)'
        BY <2>1 DEF Touched
      <4>. QED BY <2>3, <4>1, <4>2
    <3>2. CASE x \notin 1..rev
      <4>1. x = e
        BY <1>1, <2>2, <3>2
      <4>. QED BY <1>1, <2>1, <4>1 DEF Touched
    <3>. QED BY <3>1, <3>2
  <2>8. DrainOK(drain[d])'
    <3>1. drain'[d] = q
      BY <1>0, <1>3 DEF TypeOK
    <3>. QED BY <1>3, <3>1
  <2>9. \A c \in Drains \ {d} : drain'[c] = drain[c]
    BY <1>0, <1>3 DEF TypeOK
  <2>10. handled \subseteq handled'
    BY <2>1
  <2>11. liveHigh <= liveHigh' /\ posted <= posted' /\ rev <= rev'
    BY <1>0, <2>2, <2>3 DEF TypeOK
  <2>12. \A c \in Drains : DrainOK(drain[c])'
    BY <2>5, <2>8, <2>9, <2>10, <2>11, OneDrainStep
  <2>. QED BY <2>5, <2>6, <2>7, <2>12 DEF IInv
<1>4. ASSUME HandleOK(e, b)
      PROVE  /\ handled' = handled \cup {<<e, b>>} /\ handled \subseteq handled'
             /\ rev \in Nat /\ rev' \in Nat /\ rev <= rev' /\ e <= rev' /\ posted' = posted
             /\ \A x \in 1..MaxPosted : Settled(x) => Settled(x)'
             /\ \A x \in 1..MaxPosted : Complete(x) => Complete(x)'
  <2>1. handled' = handled \cup {<<e, b>>} /\ handled \subseteq handled'
    BY <1>0, <1>1, <1>4, HandleOKEffect
  <2>2. rev \in Nat /\ rev' \in Nat /\ rev <= rev' /\ e <= rev'
    BY <1>0, <1>1, <1>4, HandleOKEffect
  <2>3. posted' = posted /\ liveHigh' = liveHigh
    BY <1>0 DEF stream
  <2>4. \A x \in 1..MaxPosted : Settled(x) => Settled(x)'
    BY <2>1, <2>3 DEF Settled, Touched
  <2>5. \A x \in 1..MaxPosted : Complete(x) => Complete(x)'
    BY <2>1 DEF Complete
  <2>. QED BY <2>1, <2>2, <2>3, <2>4, <2>5
<1>5. CASE /\ HandleOK(e, b) /\ b < NBodies[e]
           /\ drain' = [drain EXCEPT ![d] = [r EXCEPT !.body = r.body + 1]]
  <2>1. PICK q : q = [r EXCEPT !.body = r.body + 1]
    OBVIOUS
  <2>2. /\ q \in DrainState /\ q.pc = "replay" /\ q.from = r.from /\ q.cursor = r.cursor
        /\ q.last = r.last /\ q.ev = e /\ q.body = b + 1
    BY <1>0, <2>1, BodyDoneState DEF DrainState
  <2>3. /\ q.from <= q.cursor /\ q.cursor < q.ev /\ q.ev <= q.last + 1
        /\ q.last <= posted' /\ q.cursor <= q.last /\ q.body <= NBodies[q.ev]
        /\ q.ev <= rev' + 1
    BY <1>10, <1>4, <1>5, <2>2, SMTT(30)
  <2>4. /\ \A x \in 1..(q.ev - 1) : Settled(x)'
        /\ \A x \in (q.from + 1)..(q.ev - 1) : Complete(x)'
    <3>1. /\ \A x \in 1..(q.ev - 1) : x \in 1..MaxPosted
          /\ \A x \in (q.from + 1)..(q.ev - 1) : x \in 1..MaxPosted
      BY <1>10, <2>2, SMTT(30)
    <3>2. /\ \A x \in 1..(q.ev - 1) : Settled(x)
          /\ \A x \in (q.from + 1)..(q.ev - 1) : Complete(x)
      BY <1>0, <2>2 DEF ReplayOK
    <3>. QED BY <1>4, <1>5, <3>1, <3>2
  <2>5. \A x \in 1..(q.body - 1) : <<q.ev, x>> \in handled'
    <3>. SUFFICES ASSUME NEW x \in 1..(q.body - 1) PROVE <<q.ev, x>> \in handled'
      OBVIOUS
    <3>1. x \in 1..(b - 1) \/ x = b
      BY <1>1, <2>2
    <3>2. x \in 1..(b - 1) => <<e, x>> \in handled
      BY <1>0 DEF ReplayOK
    <3>. QED BY <1>4, <1>5, <2>2, <3>1, <3>2
  <2>6. ReplayOK(q)'
    BY <2>2, <2>3, <2>4, <2>5 DEF ReplayOK
  <2>7. DrainOK(q)'
    BY <2>2, <2>6 DEF DrainOK, SpawnedOK, FetchOK, DrainedOK
  <2>. QED BY <1>3, <1>5, <2>1, <2>2, <2>7
<1>6. CASE /\ HandleOK(e, b) /\ ~(b < NBodies[e])
           /\ drain' = [drain EXCEPT ![d] = [r EXCEPT !.ev = r.ev + 1, !.body = 1]]
  <2>1. PICK q : q = [r EXCEPT !.ev = r.ev + 1, !.body = 1]
    OBVIOUS
  <2>2. /\ q \in DrainState /\ q.pc = "replay" /\ q.from = r.from /\ q.cursor = r.cursor
        /\ q.last = r.last /\ q.ev = e + 1 /\ q.body = 1
    <3>1. r.ev + 1 \in 1..(MaxPosted + 1)
      BY <1>1
    <3>2. q \in DrainState
      BY <1>0, <2>1, <3>1, EventDoneState
    <3>. QED BY <1>0, <2>1, <3>2 DEF DrainState
  <2>3. /\ q.from <= q.cursor /\ q.cursor < q.ev /\ q.ev <= q.last + 1
        /\ q.last <= posted' /\ q.cursor <= q.last /\ q.ev <= rev' + 1
    <3>1. /\ e <= rev' /\ rev' \in Nat /\ posted' = posted
      BY <1>4, <1>6
    <3>2. q.from <= q.cursor /\ q.cursor <= q.last /\ q.last <= posted'
      BY <1>10, <2>2, <3>1
    <3>3. q.cursor < q.ev /\ q.ev <= q.last + 1
      BY <1>10, <2>2, SMTT(30)
    <3>4. q.ev <= rev' + 1
      BY <1>10, <2>2, <3>1
    <3>. QED BY <3>2, <3>3, <3>4
  <2>4. q.ev <= q.last => q.body <= NBodies[q.ev]
    <3>1. q.ev <= q.last => e \in Nat /\ e < MaxPosted
      BY <1>10, <2>2
    <3>. QED BY <2>2, <3>1, EventHasABody
  <2>5. \A x \in 1..NBodies[e] : <<e, x>> \in handled'
    <3>. SUFFICES ASSUME NEW x \in 1..NBodies[e] PROVE <<e, x>> \in handled'
      OBVIOUS
    <3>0. b \in Nat /\ NBodies[e] \in Nat
      BY <1>0, <1>1 DEF DrainState
    <3>1. x \in 1..(b - 1) \/ x = b
      BY <1>1, <1>6, <3>0, SMTT(30)
    <3>2. x \in 1..(b - 1) => <<e, x>> \in handled
      BY <1>0 DEF ReplayOK
    <3>. QED BY <1>4, <1>6, <3>1, <3>2
  <2>6. Complete(e)' /\ Settled(e)'
    <3>1. Complete(e)'
      BY <2>5 DEF Complete
    <3>2. Touched(e)'
      BY <1>1, <2>5 DEF Touched
    <3>. QED BY <3>1, <3>2 DEF Settled
  <2>7. /\ \A x \in 1..(q.ev - 1) : Settled(x)'
        /\ \A x \in (q.from + 1)..(q.ev - 1) : Complete(x)'
    <3>0. q.ev - 1 = e /\ q.from = r.from
      BY <1>10, <2>2
    <3>1. /\ \A x \in 1..e : x = e \/ (x \in 1..(e - 1) /\ x \in 1..MaxPosted)
          /\ \A x \in (r.from + 1)..e :
               x = e \/ (x \in (r.from + 1)..(e - 1) /\ x \in 1..MaxPosted)
      BY <1>10, SMTT(30)
    <3>2. /\ \A x \in 1..(e - 1) : Settled(x)
          /\ \A x \in (r.from + 1)..(e - 1) : Complete(x)
      BY <1>0 DEF ReplayOK
    <3>. QED BY <1>4, <1>6, <2>6, <3>0, <3>1, <3>2
  <2>8. \A x \in 1..(q.body - 1) : <<q.ev, x>> \in handled'
    BY <2>2
  <2>9. ReplayOK(q)'
    BY <2>2, <2>3, <2>4, <2>7, <2>8 DEF ReplayOK
  <2>10. DrainOK(q)'
    BY <2>2, <2>9 DEF DrainOK, SpawnedOK, FetchOK, DrainedOK
  <2>. QED BY <1>3, <1>6, <2>1, <2>2, <2>10
<1>. QED BY <1>2, <1>5, <1>6 DEF DrainReplay

------------------------------------------------------------------------------
(* The theorems.                                                           *)

LEMMA StepIInv == IInv /\ [Next]_vars => IInv'
<1>. SUFFICES ASSUME IInv, [Next]_vars PROVE IInv'
  OBVIOUS
<1>1. CASE Post
  BY <1>1, PostStep
<1>2. CASE LiveEvent
  BY <1>2, LiveEventStep
<1>3. CASE Disconnected
  BY <1>3, DisconnectedStep
<1>4. CASE Connected
  BY <1>4, ConnectedStep
<1>5. CASE Restart
  BY <1>5, RestartStep
<1>6. CASE \E s \in Syncs : Sync(s)
  BY <1>6, SyncStep
<1>7. ASSUME NEW d \in Drains, Drain(d) PROVE IInv'
  <2>1. CASE DrainStart(d)
    BY <2>1, DrainStartStep
  <2>2. CASE DrainFetch(d)
    BY <2>2, DrainFetchStep
  <2>3. CASE DrainFetchFails(d)
    BY <2>3, DrainFetchFailsStep
  <2>4. CASE DrainReplay(d)
    BY <2>4, DrainReplayStep
  <2>5. CASE DrainPageDone(d)
    BY <2>5, DrainPageDoneStep
  <2>. QED BY <1>7, <2>1, <2>2, <2>3, <2>4, <2>5 DEF Drain
<1>8. CASE UNCHANGED vars
  <2>1. UNCHANGED <<posted, linkUp, live, liveBody, rev, saved, initialSyncDone,
                    syncInProgress, sync, drain, handled, failed, liveHigh, faults>>
    BY <1>8 DEF vars, stream, syncing, history
  <2>2. TypeOK'
    BY <2>1 DEF IInv, TypeOK
  <2>3. LiveOK'
    BY <2>1 DEF IInv, LiveOK
  <2>4. DrainSkipsNothing'
    BY <2>1 DEF IInv, DrainSkipsNothing, Touched
  <2>5. \A d \in Drains : DrainOK(drain[d])'
    BY <2>1, <2>2, DrainsUndisturbed DEF IInv, TypeOK
  <2>. QED BY <2>2, <2>3, <2>4, <2>5 DEF IInv
<1>. QED BY <1>1, <1>2, <1>3, <1>4, <1>5, <1>6, <1>7, <1>8 DEF Next

LEMMA Invariance == Spec => []IInv
BY InitIInv, StepIInv, PTL DEF Spec

(* The state keeps its types and ranges: in particular the watermark in    *)
(* the database never gets ahead of the one in memory, and neither gets    *)
(* ahead of the log (updateMetadata, advanceUserRevision).                 *)
THEOREM TypeCorrect == Spec => []TypeOK
<1>1. IInv => TypeOK
  BY DEF IInv
<1>. QED BY <1>1, Invariance, PTL

(* For every log, page size and number of catchUp goroutines running at    *)
(* once, no drain moves the watermark past an event it handled nothing of  *)
(* (catchUp, the early return on a failed event; advanceUserRevision).     *)
THEOREM WatermarkSound == Spec => []DrainSkipsNothing
<1>1. IInv => DrainSkipsNothing
  BY DEF IInv
<1>. QED BY <1>1, Invariance, PTL

(* A catchUp that ran to COMPLETED handled every body after the revision   *)
(* it started from, however the live stream, other drains and failed saves *)
(* interleaved with it (catchUp, the local cursor).                        *)
THEOREM DrainsComplete == Spec => []CompletedDrainIsComplete
<1>1. IInv => CompletedDrainIsComplete
  <2>. SUFFICES ASSUME IInv, NEW d \in Drains, drain[d].pc = "drained"
                PROVE  /\ \A e \in (drain[d].from + 1)..drain[d].last :
                            \A b \in 1..NBodies[e] : <<e, b>> \in handled
                       /\ rev >= drain[d].last
    BY DEF CompletedDrainIsComplete
  <2>1. DrainedOK(drain[d]) /\ drain[d].last \in 0..MaxPosted /\ rev \in 0..posted
        /\ posted \in 0..MaxPosted
    BY DEF IInv, DrainOK, TypeOK, DrainState
  <2>2. \A e \in (drain[d].from + 1)..drain[d].last : Complete(e)
    BY <2>1 DEF DrainedOK
  <2>3. rev >= drain[d].last
    BY <2>1, ConstantsAssumption DEF DrainedOK
  <2>. QED BY <2>2, <2>3 DEF Complete
<1>. QED BY <1>1, Invariance, PTL

(* Catch-up is switched off only while a syncChats goroutine is alive that *)
(* will switch it on again (syncChats, the deferred setSyncInProgress).    *)
THEOREM CatchUpComesBack == Spec => []FlagHasAnOwner
<1>1. Init => FlagHasAnOwner
  BY DEF Init, FlagHasAnOwner
<1>2. TypeOK /\ FlagHasAnOwner /\ [Next]_vars => FlagHasAnOwner'
  <2>. SUFFICES ASSUME TypeOK, FlagHasAnOwner, [Next]_vars PROVE FlagHasAnOwner'
    OBVIOUS
  <2>. USE DEF TypeOK, FlagHasAnOwner
  <2>1. CASE UNCHANGED syncing
    BY <2>1 DEF syncing
  <2>2. CASE Connected
    BY <2>2 DEF Connected, syncing
  <2>3. CASE Restart
    BY <2>3 DEF Restart
  <2>4. ASSUME NEW s \in Syncs, Sync(s) PROVE FlagHasAnOwner'
    BY <2>4 DEF Sync, SyncDone, SyncFails, SyncFailedReturns
  <2>5. Next => \/ UNCHANGED syncing \/ Connected \/ Restart
                \/ \E s \in Syncs : Sync(s)
    BY DEF Next, Post, LiveEvent, Disconnected, Drain, DrainStart, DrainFetch,
           DrainFetchFails, DrainReplay, DrainPageDone
  <2>. QED BY <2>1, <2>2, <2>3, <2>4, <2>5 DEF vars
<1>. QED BY <1>1, <1>2, TypeCorrect, PTL DEF Spec

------------------------------------------------------------------------------
(* EventStream implements EventDelivery.                                   *)

(* Both copies of the watermark stand at an event with a handled body.     *)
MarkOK == (rev = 0 \/ Touched(rev)) /\ (saved = 0 \/ Touched(saved))

LEMMA HandleOKMaps ==
  ASSUME TypeOK, MarkOK, NEW e \in 1..posted, NEW b \in 1..NBodies[e],
         HandleOK(e, b), posted' = posted
  PROVE  MarkOK' /\ Promise!Handle(e, b)
<1>. USE ConstantsAssumption
<1>1. handled' = handled \cup {<<e, b>>}
  BY DEF HandleOK
<1>2. \A x : Touched(x) => Touched(x)'
  BY <1>1 DEF Touched
<1>3. Touched(e)'
  BY <1>1 DEF Touched
<1>4. \/ rev' = rev /\ saved' = saved
      \/ rev < e /\ rev' = e /\ (saved' = saved \/ saved' = e)
  BY DEF HandleOK, AdvanceUserRevision, SaveMetadata
<1>5. (rev' = 0 \/ Touched(rev)') /\ (saved' = 0 \/ Touched(saved)')
  <2>1. CASE rev' = rev /\ saved' = saved
    BY <1>2, <2>1 DEF MarkOK, Touched
  <2>2. CASE rev' = e /\ saved' = saved
    BY <1>2, <1>3, <2>2 DEF MarkOK, Touched
  <2>3. CASE rev' = e /\ saved' = e
    BY <1>3, <2>3 DEF Touched
  <2>. QED BY <1>4, <2>1, <2>2, <2>3
<1>6. saved' = saved \/ (saved < e /\ saved' = e)
  BY <1>4 DEF TypeOK
<1>. QED BY <1>1, <1>5, <1>6 DEF MarkOK, Promise!Handle

(* A save on its own writes the watermark that is in memory.               *)
LEMMA SaveMaps ==
  ASSUME TypeOK, MarkOK, SaveMetadata(rev) \/ saved' = saved, UNCHANGED <<posted, rev, handled>>
  PROVE  MarkOK' /\ [Promise!Next]_Promise!vars
<1>1. CASE saved' = saved
  BY <1>1 DEF MarkOK, Touched, Promise!vars
<1>2. CASE saved' = rev /\ saved' # saved
  <2>1. rev \in 1..posted /\ saved < rev
    BY <1>2, ConstantsAssumption DEF TypeOK
  <2>2. PICK b \in 1..NBodies[rev] : <<rev, b>> \in handled
    BY <2>1 DEF MarkOK, Touched
  <2>3. Promise!Persist(rev, b)
    BY <1>2, <2>1, <2>2 DEF Promise!Persist
  <2>4. Promise!Next
    BY <2>1, <2>2, <2>3 DEF Promise!Next
  <2>5. MarkOK'
    BY <1>2 DEF MarkOK, Touched
  <2>. QED BY <2>4, <2>5
<1>. QED BY <1>1, <1>2 DEF SaveMetadata

LEMMA StepMaps == IInv /\ MarkOK /\ [Next]_vars => MarkOK' /\ [Promise!Next]_Promise!vars
<1>. SUFFICES ASSUME IInv, MarkOK, [Next]_vars
              PROVE  MarkOK' /\ [Promise!Next]_Promise!vars
  OBVIOUS
<1>0. TypeOK /\ LiveOK
  BY DEF IInv
<1>1. CASE UNCHANGED <<posted, rev, saved, handled>>
  BY <1>1 DEF MarkOK, Touched, Promise!vars
<1>2. CASE Post
  <2>1. Promise!Post
    BY <1>2 DEF Post, Promise!Post, history
  <2>2. MarkOK'
    BY <1>2 DEF Post, MarkOK, Touched, history
  <2>. QED BY <2>1, <2>2 DEF Promise!Next
<1>3. CASE LiveEvent
  <2>1. /\ live + 1 \in 1..posted /\ liveBody \in 1..NBodies[live + 1] /\ posted' = posted
    BY <1>0, <1>3, ConstantsAssumption DEF LiveEvent, TypeOK, LiveOK
  <2>2. CASE HandleOK(live + 1, liveBody)
    <3>1. MarkOK' /\ Promise!Handle(live + 1, liveBody)
      BY <1>0, <2>1, <2>2, HandleOKMaps
    <3>. QED BY <2>1, <3>1 DEF Promise!Next
  <2>3. CASE HandleFails(live + 1, liveBody)
    BY <1>1, <2>1, <2>3 DEF HandleFails
  <2>. QED BY <1>3, <2>2, <2>3 DEF LiveEvent
<1>4. CASE Disconnected
  BY <1>1, <1>4 DEF Disconnected, history
<1>5. CASE Connected
  BY <1>0, <1>5, SaveMaps DEF Connected, history
<1>6. CASE Restart
  <2>1. UNCHANGED <<posted, saved, handled>> /\ rev' = saved
    BY <1>6 DEF Restart, history
  <2>. QED BY <2>1 DEF MarkOK, Touched, Promise!vars
<1>7. ASSUME NEW s \in Syncs, Sync(s)
      PROVE  MarkOK' /\ [Promise!Next]_Promise!vars
  <2>1. UNCHANGED <<posted, rev, handled>> /\ (SaveMetadata(rev) \/ saved' = saved)
    BY <1>7 DEF Sync, SyncDone, SyncFails, SyncFailedReturns, stream, history
  <2>. QED BY <1>0, <2>1, SaveMaps
<1>8. ASSUME NEW d \in Drains, Drain(d)
      PROVE  MarkOK' /\ [Promise!Next]_Promise!vars
  <2>1. CASE DrainReplay(d)
    <3>. PICK e, b : e = drain[d].ev /\ b = drain[d].body
      OBVIOUS
    <3>1. /\ drain[d] \in DrainState /\ ReplayOK(drain[d]) /\ drain[d].pc = "replay"
          /\ e <= drain[d].last /\ posted' = posted
      BY <1>0, <2>1 DEF DrainReplay, IInv, DrainOK, TypeOK, stream
    <3>2. e \in 1..posted /\ b \in 1..NBodies[e]
      BY <1>0, <3>1, ConstantsAssumption DEF ReplayOK, DrainState, TypeOK
    <3>3. CASE HandleOK(e, b)
      <4>1. MarkOK' /\ Promise!Handle(e, b)
        BY <1>0, <3>1, <3>2, <3>3, HandleOKMaps
      <4>. QED BY <3>2, <4>1 DEF Promise!Next
    <3>4. CASE HandleFails(e, b)
      BY <1>1, <3>1, <3>4 DEF HandleFails
    <3>. QED BY <2>1, <3>3, <3>4 DEF DrainReplay
  <2>2. CASE DrainStart(d) \/ DrainFetch(d) \/ DrainFetchFails(d) \/ DrainPageDone(d)
    BY <1>1, <2>2 DEF DrainStart, DrainFetch, DrainFetchFails, DrainPageDone, stream, history
  <2>. QED BY <1>8, <2>1, <2>2 DEF Drain
<1>9. CASE UNCHANGED vars
  BY <1>1, <1>9 DEF vars, stream, history
<1>. QED BY <1>2, <1>3, <1>4, <1>5, <1>6, <1>7, <1>8, <1>9 DEF Next

(* Every behaviour of the code keeps the promise of EventDelivery: seen    *)
(* from the database the watermark only moves forward, and only to an      *)
(* event with a handled body, through crashes, failed saves, concurrent    *)
(* drains and the live stream (advanceUserRevision, save).                 *)
THEOREM KeepsThePromise == Spec => WatermarkPromise
<1>1. Init => Promise!Init /\ MarkOK
  BY DEF Init, Promise!Init, MarkOK
<1>. QED BY <1>1, StepMaps, Invariance, PTL DEF Spec, WatermarkPromise, Promise!Spec
=============================================================================
