---------------------------- MODULE InvitesProofs ----------------------------
(***************************************************************************)
(* Proofs about Invites, for any number of invites, events, syncs, drains  *)
(* and restarts.  For a membership that began when nothing was on its way, *)
(* what the bridge does leads back to what the user did in the room since: *)
(* while an invite waits, no event behind it, no entry of the queue and no *)
(* request stands for a join he did not make, and while he belongs to the  *)
(* space none stands for a leave.  The steps only move such traces on.     *)
(***************************************************************************)
EXTENDS Invites, Spaces, SequenceTheorems, TLAPS

NoneOf(s, bad) == \A i \in 1..Len(s) : s[i] \notin bad
NoneAfter(s, n, bad) == \A i \in (n + 1)..Len(s) : s[i] \notin bad

JoinEvents == {"joined", "sysJoined"}
LeaveEvents == {"left", "sysLeft"}

(* The entries and requests that the user did not cause.                   *)
Joins == {"join", "echo"} \cup (IF accepted THEN {} ELSE {"accept"})
Leaves == {"leave"} \cup (IF refused THEN {} ELSE {"reject", "exit"})

Awaits == settled /\ member \in {"invited", "spam"}
Belongs == settled /\ member # "out"

NoJoinOnItsWay ==
  Awaits => /\ NoneAfter(log, since, JoinEvents) /\ NoneOf(queue, Joins)
            /\ rpc \notin Joins /\ world # "joined"

NoLeaveOnItsWay ==
  Belongs => /\ NoneAfter(log, since, LeaveEvents) /\ NoneOf(queue, Leaves)
             /\ rpc \notin Leaves

(* What was before the membership is not handled again.                    *)
SinceOK == settled => since <= pos

(* The request in progress left room for what follows its answer.          *)
RoomInQueue == rpc # "none" => Len(queue) <= MaxQueue

IInv == TypeOK /\ NoJoinOnItsWay /\ NoLeaveOnItsWay /\ SinceOK /\ RoomInQueue

(***************************************************************************)
(* Sequences.                                                              *)
(***************************************************************************)
LEMMA Bounds ==
  /\ MaxInvites \in Nat /\ MaxRewinds \in Nat /\ MaxSyncs \in Nat
  /\ MaxRestarts \in Nat /\ MaxEvents \in Nat /\ MaxQueue \in Nat
  BY InvitesAssumption

LEMMA AppendNone ==
  ASSUME NEW S, NEW s \in Seq(S), NEW x \in S, NEW bad, NoneOf(s, bad), x \notin bad
  PROVE  NoneOf(Append(s, x), bad)
  BY DEF NoneOf

LEMMA AppendType ==
  ASSUME NEW S, NEW s \in Seq(S), NEW x \in S
  PROVE  Append(s, x) \in Seq(S) /\ Len(Append(s, x)) = Len(s) + 1
  OBVIOUS

LEMMA TailNone ==
  ASSUME NEW S, NEW s \in Seq(S), s # <<>>, NEW bad, NoneOf(s, bad)
  PROVE  NoneOf(Tail(s), bad) /\ Head(s) \notin bad
  <1>1. Len(s) \in Nat /\ Len(s) > 0
    OBVIOUS
  <1>2. Len(Tail(s)) = Len(s) - 1
    BY <1>1
  <1>3. \A i \in 1..Len(Tail(s)) : Tail(s)[i] = s[i + 1] /\ i + 1 \in 1..Len(s)
    BY <1>1, <1>2
  <1>4. Head(s) = s[1] /\ 1 \in 1..Len(s)
    BY <1>1
  <1> QED
    BY <1>3, <1>4 DEF NoneOf

LEMMA TailType ==
  ASSUME NEW S, NEW s \in Seq(S), s # <<>>
  PROVE  /\ Tail(s) \in Seq(S) /\ Len(Tail(s)) = Len(s) - 1
         /\ Len(s) > 0 /\ Len(s) \in Nat /\ Head(s) \in S
  OBVIOUS

LEMMA ConcatType ==
  ASSUME NEW S, NEW s \in Seq(S), NEW t \in Seq(S)
  PROVE  s \o t \in Seq(S) /\ Len(s \o t) = Len(s) + Len(t)
  OBVIOUS

LEMMA ConcatNone ==
  ASSUME NEW S, NEW s \in Seq(S), NEW t \in Seq(S), NEW bad, NoneOf(s, bad), NoneOf(t, bad)
  PROVE  NoneOf(s \o t, bad)
  <1>1. \A i \in 1..Len(s \o t) :
          \/ i \in 1..Len(s) /\ (s \o t)[i] = s[i]
          \/ i - Len(s) \in 1..Len(t) /\ (s \o t)[i] = t[i - Len(s)]
    OBVIOUS
  <1> QED
    BY <1>1 DEF NoneOf

LEMMA OneOf ==
  ASSUME NEW S, NEW x \in S
  PROVE  /\ <<x>> \in Seq(S) /\ Len(<<x>>) = 1
         /\ \A bad : x \notin bad => NoneOf(<<x>>, bad)
  BY DEF NoneOf

LEMMA TwoOf ==
  ASSUME NEW S, NEW x \in S, NEW y \in S
  PROVE  /\ <<x, y>> \in Seq(S) /\ Len(<<x, y>>) = 2
         /\ \A bad : x \notin bad /\ y \notin bad => NoneOf(<<x, y>>, bad)
  BY DEF NoneOf

LEMMA EmptyOf ==
  ASSUME NEW S
  PROVE  <<>> \in Seq(S) /\ Len(<<>>) = 0 /\ \A bad : NoneOf(<<>>, bad)
  BY DEF NoneOf

LEMMA ConcatAfter ==
  ASSUME NEW S, NEW s \in Seq(S), NEW t \in Seq(S), NEW bad, NEW n \in 0..Len(s),
         NoneAfter(s, n, bad), NoneOf(t, bad)
  PROVE  NoneAfter(s \o t, n, bad)
  <1>1. \A i \in (n + 1)..Len(s \o t) :
          \/ i \in (n + 1)..Len(s) /\ (s \o t)[i] = s[i]
          \/ i - Len(s) \in 1..Len(t) /\ (s \o t)[i] = t[i - Len(s)]
    OBVIOUS
  <1> QED
    BY <1>1 DEF NoneOf, NoneAfter

LEMMA AfterAll ==
  ASSUME NEW S, NEW s \in Seq(S), NEW bad
  PROVE  NoneAfter(s, Len(s), bad)
  BY DEF NoneAfter

(***************************************************************************)
(* Steps.                                                                  *)
(***************************************************************************)
Members == {"out", "invited", "spam", "joined"}

LEMMA InitInv ==
  ASSUME Init
  PROVE  IInv
  <1>1. /\ log \in Seq(Events) /\ Len(log) = 0 /\ queue \in Seq(Entries) /\ Len(queue) = 0
    BY EmptyOf DEF Init
  <1>2. /\ log \in Seq(Events) /\ Len(log) <= MaxEvents + 1 /\ pos \in 0..Len(log)
        /\ queue \in Seq(Entries) /\ Len(queue) <= MaxQueue + 1 /\ since \in 0..Len(log)
    BY <1>1, Bounds DEF Init
  <1>3. /\ invites \in 0..MaxInvites
        /\ rewinds \in 0..MaxRewinds /\ syncs \in 0..MaxSyncs /\ restarts \in 0..MaxRestarts
    BY Bounds DEF Init
  <1>4. TypeOK
    BY <1>2, <1>3 DEF Init, TypeOK
  <1>5. NoJoinOnItsWay /\ NoLeaveOnItsWay /\ SinceOK /\ RoomInQueue
    BY DEF Init, NoJoinOnItsWay, NoLeaveOnItsWay, Awaits, Belongs, SinceOK, RoomInQueue
  <1> QED
    BY <1>4, <1>5 DEF IInv

(* The events of a change of membership are appended to the log.           *)
LEMMA BecomeFacts ==
  ASSUME TypeOK, NEW m \in Members, NEW events \in Seq(Events), Len(events) \in 1..2,
         Become(m, events)
  PROVE  /\ member' = m
         /\ log' \in Seq(Events) /\ Len(log') <= MaxEvents + 1 /\ Len(log) <= Len(log')
         /\ Len(log) \in Nat /\ Len(log') \in Nat /\ Len(log) \in 0..Len(log')
         /\ \A bad : NoneOf(events, bad) =>
              \A n \in 0..Len(log) : NoneAfter(log, n, bad) => NoneAfter(log', n, bad)
         /\ \A bad : NoneOf(events, bad) => NoneAfter(log', Len(log), bad)
  <1>1. log \in Seq(Events) /\ Len(log) \in Nat /\ Len(log) < MaxEvents /\ log' = log \o events
    BY DEF TypeOK, Become
  <1>2. log' \in Seq(Events) /\ Len(log') = Len(log) + Len(events)
    BY <1>1, ConcatType
  <1>3. \A bad : NoneOf(events, bad) =>
          \A n \in 0..Len(log) : NoneAfter(log, n, bad) => NoneAfter(log', n, bad)
    BY <1>1, ConcatAfter
  <1>4. \A bad : NoneAfter(log, Len(log), bad)
    BY <1>1, AfterAll
  <1>5. \A bad : NoneOf(events, bad) => NoneAfter(log', Len(log), bad)
    BY <1>1, <1>3, <1>4
  <1>6. Len(log') <= MaxEvents + 1 /\ Len(log) <= Len(log') /\ Len(log) \in 0..Len(log')
    <2>1. \A a, b, c, n \in Nat : a < n /\ b \in 1..2 /\ c = a + b
                                  => c <= n + 1 /\ a <= c /\ a \in 0..c
      OBVIOUS
    <2>2. Len(log') \in Nat /\ Len(events) \in Nat /\ MaxEvents \in Nat
      BY <1>2, Bounds
    <2> QED
      BY <1>1, <1>2, <2>1, <2>2
  <1> QED
    BY <1>1, <1>2, <1>3, <1>5, <1>6 DEF Become

(* What the events of joining and of leaving are.                          *)
LEMMA JoinedEvents ==
  /\ <<"joined", "sysJoined">> \in Seq(Events) /\ Len(<<"joined", "sysJoined">>) \in 1..2
  /\ NoneOf(<<"joined", "sysJoined">>, LeaveEvents)
  <1>1. "joined" \in Events /\ "sysJoined" \in Events
        /\ "joined" \notin LeaveEvents /\ "sysJoined" \notin LeaveEvents
    BY DEF Events, LeaveEvents
  <1> QED
    BY <1>1, TwoOf

LEMMA LeftEvents ==
  ASSUME NEW events \in {<<"left", "sysLeft">>, <<"left">>}
  PROVE  events \in Seq(Events) /\ Len(events) \in 1..2
  <1>1. "left" \in Events /\ "sysLeft" \in Events
    BY DEF Events
  <1>2. CASE events = <<"left", "sysLeft">>
    BY <1>1, <1>2, TwoOf
  <1>3. CASE events = <<"left">>
    BY <1>1, <1>3, OneOf
  <1> QED
    BY <1>2, <1>3

(* A membership that begins: nothing of an earlier one is on its way, or   *)
(* the history says so.                                                    *)
LEMMA BeginsInv ==
  ASSUME IInv, Begins, NEW m \in {"invited", "spam", "joined"}, NEW events \in Seq(Events),
         Len(events) \in 1..2, Become(m, events), NoneOf(events, LeaveEvents),
         m # "joined" => NoneOf(events, JoinEvents)
  PROVE  IInv'
  <1> USE DEF bridgeVars, bounds
  <1>1. TypeOK /\ pos \in Nat /\ pos \in 0..Len(log) /\ invites \in Nat /\ settled \in BOOLEAN
    BY Bounds DEF IInv, TypeOK
  <1>2. /\ member' = m
        /\ log' \in Seq(Events) /\ Len(log') <= MaxEvents + 1 /\ Len(log) <= Len(log')
        /\ Len(log) \in Nat /\ Len(log') \in Nat /\ Len(log) \in 0..Len(log')
        /\ NoneAfter(log', Len(log), LeaveEvents)
        /\ m # "joined" => NoneAfter(log', Len(log), JoinEvents)
    BY <1>1, BecomeFacts DEF Members
  <1>3. /\ invites' \in 0..MaxInvites /\ since' = Len(log) /\ settled' \in BOOLEAN
        /\ settled' = Quiet
        /\ accepted' = FALSE /\ refused' = FALSE
        /\ UNCHANGED <<pos, pending, saved, queue, room, rpc, world, faults>>
    BY <1>1, Bounds DEF Begins, Quiet
  <1>4. pos' \in 0..Len(log')
    BY <1>1, <1>2, <1>3
  <1>5. TypeOK'
    <2>1. since' \in 0..Len(log') /\ UNCHANGED <<rewinds, syncs, restarts>>
      BY <1>2, <1>3 DEF Begins
    <2>2. /\ rewinds' \in 0..MaxRewinds /\ syncs' \in 0..MaxSyncs
          /\ restarts' \in 0..MaxRestarts
      BY <1>1, <2>1 DEF TypeOK
    <2>3. /\ pending' \in BOOLEAN /\ saved' \in BOOLEAN
          /\ queue' \in Seq(Entries) /\ Len(queue') <= MaxQueue + 1
          /\ room' \in {"none", "invite", "join"}
          /\ rpc' \in {"none", "accept", "reject", "exit", "echo"}
          /\ world' \in {"none", "out", "invited", "spam", "joined"}
          /\ faults' \in BOOLEAN
      BY <1>1, <1>3 DEF TypeOK
    <2>4. member' \in {"out", "invited", "spam", "joined"}
      BY <1>2
    <2> QED
      BY <1>2, <1>3, <1>4, <2>1, <2>2, <2>3, <2>4 DEF TypeOK
  <1>6. settled' => /\ since' <= pos' /\ NoneOf(queue', Joins') /\ NoneOf(queue', Leaves')
                    /\ rpc' = "none" /\ world' = "none"
    <2> SUFFICES ASSUME settled'
                 PROVE  /\ since' <= pos' /\ NoneOf(queue', Joins') /\ NoneOf(queue', Leaves')
                        /\ rpc' = "none" /\ world' = "none"
      OBVIOUS
    <2>1. Quiet
      BY <1>3
    <2>2. queue' = <<>> /\ rpc' = "none" /\ world' = "none" /\ since' <= pos'
      BY <1>1, <1>3, <2>1 DEF Quiet
    <2>3. NoneOf(queue', Joins') /\ NoneOf(queue', Leaves')
      BY <2>2 DEF NoneOf
    <2> QED
      BY <2>2, <2>3
  <1>7. NoJoinOnItsWay'
    BY <1>2, <1>3, <1>6 DEF NoJoinOnItsWay, Awaits, Joins
  <1>8. NoLeaveOnItsWay'
    BY <1>2, <1>3, <1>6 DEF NoLeaveOnItsWay, Belongs, Leaves
  <1>9. SinceOK' /\ RoomInQueue'
    BY <1>3, <1>6 DEF SinceOK, IInv, RoomInQueue
  <1> QED
    BY <1>5, <1>7, <1>8, <1>9 DEF IInv

(* Google Chat and the other clients.                                      *)
LEMMA WorldStep ==
  ASSUME IInv, (\E category \in {"invited", "spam"} : Invite(category))
               \/ Added \/ AcceptElsewhere \/ LeaveElsewhere
  PROVE  IInv'
  <1> USE DEF bridgeVars, history, bounds
  <1>0. TypeOK /\ pos \in Nat /\ pos \in 0..Len(log) /\ Len(log) \in Nat
        /\ since \in 0..Len(log) /\ invites \in Nat
    BY Bounds DEF IInv, TypeOK
  <1>1. ASSUME NEW category \in {"invited", "spam"}, Invite(category)
        PROVE  IInv'
    <2>1. category \in Events /\ category \notin JoinEvents /\ category \notin LeaveEvents
      BY DEF Events, JoinEvents, LeaveEvents
    <2>2. /\ <<category>> \in Seq(Events) /\ Len(<<category>>) \in 1..2
          /\ NoneOf(<<category>>, JoinEvents) /\ NoneOf(<<category>>, LeaveEvents)
      BY <2>1, OneOf
    <2> QED
      BY <1>1, <2>2, BeginsInv DEF Invite
  <1>2. CASE Added
    BY <1>2, JoinedEvents, BeginsInv DEF Added
  <1>3. CASE AcceptElsewhere
    <2>1. /\ member' = "joined" /\ member \in {"invited", "spam"}
          /\ log' \in Seq(Events) /\ Len(log') <= MaxEvents + 1 /\ Len(log) <= Len(log')
          /\ Len(log') \in Nat
          /\ NoneAfter(log, since, LeaveEvents) => NoneAfter(log', since, LeaveEvents)
      BY <1>0, <1>3, JoinedEvents, BecomeFacts DEF AcceptElsewhere, Members
    <2>2. pos' \in 0..Len(log') /\ since' \in 0..Len(log')
      BY <1>0, <1>3, <2>1 DEF AcceptElsewhere
    <2>3. TypeOK'
      BY <1>0, <1>3, <2>1, <2>2 DEF AcceptElsewhere, TypeOK
    <2>4. NoJoinOnItsWay'
      BY <2>1 DEF NoJoinOnItsWay, Awaits
    <2>5. NoLeaveOnItsWay'
      BY <1>3, <2>1 DEF AcceptElsewhere, IInv, NoLeaveOnItsWay, Belongs, Leaves
    <2> QED
      BY <1>3, <2>3, <2>4, <2>5 DEF AcceptElsewhere, IInv, SinceOK, RoomInQueue
  <1>4. CASE LeaveElsewhere
    <2>1. PICK events \in {<<"left", "sysLeft">>, <<"left">>} : Become("out", events)
      BY <1>4 DEF LeaveElsewhere
    <2>2. /\ member' = "out"
          /\ log' \in Seq(Events) /\ Len(log') <= MaxEvents + 1 /\ Len(log) <= Len(log')
          /\ Len(log') \in Nat
      BY <1>0, <2>1, LeftEvents, BecomeFacts DEF Members
    <2>3. pos' \in 0..Len(log') /\ since' \in 0..Len(log')
      BY <1>0, <1>4, <2>2 DEF LeaveElsewhere
    <2>4. TypeOK'
      BY <1>0, <1>4, <2>2, <2>3 DEF LeaveElsewhere, TypeOK
    <2>5. NoJoinOnItsWay' /\ NoLeaveOnItsWay'
      BY <2>2 DEF NoJoinOnItsWay, NoLeaveOnItsWay, Awaits, Belongs
    <2> QED
      BY <1>4, <2>4, <2>5 DEF LeaveElsewhere, IInv, SinceOK, RoomInQueue
  <1> QED
    BY <1>1, <1>2, <1>3, <1>4

(***************************************************************************)
(* The queue.                                                              *)
(***************************************************************************)

(* What a step that leaves the counters, the log and the Matrix side's      *)
(* history alone has to show.                                              *)
LEMMA QueueStep ==
  ASSUME IInv,
         UNCHANGED <<googleVars, world, since, settled, accepted, refused, bounds>>,
         pos' \in 0..Len(log), pos <= pos',
         pending' \in BOOLEAN, saved' \in BOOLEAN, faults' \in BOOLEAN,
         room' \in {"none", "invite", "join"},
         rpc' \in {"none", "accept", "reject", "exit", "echo"},
         queue' \in Seq(Entries), Len(queue') <= MaxQueue + 1,
         rpc' # "none" => Len(queue') <= MaxQueue,
         Awaits => NoneOf(queue', Joins) /\ rpc' \notin Joins,
         Belongs => NoneOf(queue', Leaves) /\ rpc' \notin Leaves
  PROVE  IInv'
  <1> USE DEF googleVars, bounds
  <1>1. TypeOK'
    BY DEF IInv, TypeOK
  <1>2. NoJoinOnItsWay'
    BY DEF IInv, NoJoinOnItsWay, Awaits, Joins
  <1>3. NoLeaveOnItsWay'
    BY DEF IInv, NoLeaveOnItsWay, Belongs, Leaves
  <1>4. SinceOK'
    BY DEF IInv, TypeOK, SinceOK
  <1>5. RoomInQueue'
    BY DEF RoomInQueue
  <1> QED
    BY <1>1, <1>2, <1>3, <1>4, <1>5 DEF IInv

(* No event that is handled now asks for a join or a leave that is none of  *)
(* the user's.                                                             *)
LEMMA EventCause ==
  ASSUME IInv, pos < Len(log)
  PROVE  /\ pos + 1 \in 0..Len(log) /\ pos <= pos + 1
         /\ Awaits => NextEvent \notin JoinEvents
         /\ Belongs => NextEvent \notin LeaveEvents
  <1>1. pos + 1 \in 1..Len(log) /\ pos + 1 \in 0..Len(log) /\ pos <= pos + 1
    BY DEF IInv, TypeOK
  <1>2. settled => pos + 1 \in (since + 1)..Len(log)
    BY DEF IInv, TypeOK, SinceOK
  <1>3. Awaits => NextEvent \notin JoinEvents
    BY <1>2 DEF IInv, NoJoinOnItsWay, Awaits, NoneAfter, NextEvent
  <1>4. Belongs => NextEvent \notin LeaveEvents
    BY <1>2 DEF IInv, NoLeaveOnItsWay, Belongs, NoneAfter, NextEvent
  <1> QED
    BY <1>1, <1>3, <1>4

(* The entries that an event of the stream adds.                           *)
LEMMA HandledStep ==
  ASSUME IInv, pos < Len(log), Len(queue) < MaxQueue,
         NEW entries \in Seq(Entries), Len(entries) <= 1, Handled(entries),
         pending' \in BOOLEAN, saved' \in BOOLEAN, faults' \in BOOLEAN,
         Awaits => NoneOf(entries, Joins),
         Belongs => NoneOf(entries, Leaves)
  PROVE  IInv'
  <1>1. /\ pos' \in 0..Len(log) /\ pos <= pos'
        /\ UNCHANGED <<googleVars, world, since, settled, accepted, refused, bounds>>
        /\ room' = room /\ rpc' = rpc
    BY EventCause DEF Handled
  <1>2. /\ queue \in Seq(Entries) /\ Len(queue) \in Nat /\ queue' = queue \o entries
    BY DEF IInv, TypeOK, Handled
  <1>3. queue' \in Seq(Entries) /\ Len(queue') = Len(queue) + Len(entries)
    BY <1>2, ConcatType
  <1>4. Len(queue') <= MaxQueue /\ Len(queue') <= MaxQueue + 1
    BY <1>2, <1>3, Bounds
  <1>5. Awaits => NoneOf(queue', Joins) /\ rpc \notin Joins
    BY <1>2, ConcatNone DEF IInv, NoJoinOnItsWay
  <1>6. Belongs => NoneOf(queue', Leaves) /\ rpc \notin Leaves
    BY <1>2, ConcatNone DEF IInv, NoLeaveOnItsWay
  <1>7. /\ room \in {"none", "invite", "join"}
        /\ rpc \in {"none", "accept", "reject", "exit", "echo"}
    BY DEF IInv, TypeOK
  <1> QED
    BY <1>1, <1>3, <1>4, <1>5, <1>6, <1>7, QueueStep

LEMMA StreamInv ==
  ASSUME IInv, StreamStep
  PROVE  IInv'
  <1>1. pos < Len(log) /\ Len(queue) < MaxQueue
    BY DEF StreamStep
  <1>2. PICK saves \in BOOLEAN :
          OwnInvited(saves) \/ OwnSpamInvite \/ OwnMembershipOther(saves) \/ SystemMessage(saves)
    BY DEF StreamStep
  <1>3. pending \in BOOLEAN /\ saved \in BOOLEAN /\ faults \in BOOLEAN
    BY DEF IInv, TypeOK
  <1>4. ASSUME NEW value \in BOOLEAN, SavePending(value, saves)
        PROVE  pending' \in BOOLEAN /\ saved' \in BOOLEAN /\ faults' \in BOOLEAN
    BY <1>3, <1>4 DEF SavePending
  <1>5. /\ <<>> \in Seq(Entries) /\ Len(<<>>) <= 1
        /\ \A bad : NoneOf(<<>>, bad)
    BY EmptyOf
  <1>6. ASSUME NEW e \in Entries
        PROVE  /\ <<e>> \in Seq(Entries) /\ Len(<<e>>) <= 1
               /\ \A bad : e \notin bad => NoneOf(<<e>>, bad)
    BY OneOf
  <1>7. CASE OwnInvited(saves)
    <2>1. "invite" \in Entries /\ "invite" \notin Joins /\ "invite" \notin Leaves
      BY DEF Entries, Joins, Leaves
    <2>2. PICK entries \in {<<>>, <<"invite">>} : Handled(entries)
      BY <1>7 DEF OwnInvited
    <2>3. /\ entries \in Seq(Entries) /\ Len(entries) <= 1
          /\ NoneOf(entries, Joins) /\ NoneOf(entries, Leaves)
      BY <1>5, <1>6, <2>1
    <2>4. pending' \in BOOLEAN /\ saved' \in BOOLEAN /\ faults' \in BOOLEAN
      BY <1>4, <1>7 DEF OwnInvited
    <2> QED
      BY <1>1, <2>2, <2>3, <2>4, HandledStep
  <1>8. CASE OwnSpamInvite
    BY <1>1, <1>3, <1>5, <1>8, HandledStep DEF OwnSpamInvite
  <1>9. CASE OwnMembershipOther(saves)
    BY <1>1, <1>4, <1>5, <1>9, HandledStep DEF OwnMembershipOther
  <1>10. CASE SystemMessage(saves)
    <2>1. pending' \in BOOLEAN /\ saved' \in BOOLEAN /\ faults' \in BOOLEAN
      BY <1>4, <1>10 DEF SystemMessage
    <2>2. CASE NextEvent = "sysJoined"
      <3>1. "join" \in Entries /\ "join" \notin Leaves /\ "sysJoined" \in JoinEvents
        BY DEF Entries, Leaves, JoinEvents
      <3>2. ~Awaits /\ Handled(<<"join">>)
        BY <1>1, <1>10, <2>2, <3>1, EventCause DEF SystemMessage
      <3>3. <<"join">> \in Seq(Entries) /\ Len(<<"join">>) <= 1 /\ NoneOf(<<"join">>, Leaves)
        BY <1>6, <3>1
      <3> QED
        BY <1>1, <2>1, <3>2, <3>3, HandledStep
    <2>3. CASE NextEvent = "sysLeft"
      <3>1. "leave" \in Entries /\ "leave" \notin Joins /\ "sysLeft" \in LeaveEvents
        BY DEF Entries, Joins, LeaveEvents
      <3>2. ~Belongs /\ Handled(<<"leave">>)
        BY <1>1, <1>10, <2>3, <3>1, EventCause DEF SystemMessage
      <3>3. <<"leave">> \in Seq(Entries) /\ Len(<<"leave">>) <= 1 /\ NoneOf(<<"leave">>, Joins)
        BY <1>6, <3>1
      <3> QED
        BY <1>1, <2>1, <3>2, <3>3, HandledStep
    <2> QED
      BY <1>10, <2>2, <2>3 DEF SystemMessage
  <1> QED
    BY <1>2, <1>7, <1>8, <1>9, <1>10

(* A drain that replays events of an earlier membership unsettles this one. *)
LEMMA RewindInv ==
  ASSUME IInv, Rewind
  PROVE  IInv'
  <1> USE DEF googleVars, bridgeVars
  <1>1. /\ pos \in 0..Len(log) /\ Len(log) \in Nat /\ since \in 0..Len(log)
        /\ rewinds \in 0..MaxRewinds /\ rewinds < MaxRewinds /\ rewinds' = rewinds + 1
        /\ settled \in BOOLEAN
    BY DEF IInv, TypeOK, Rewind
  <1>2. rewinds' \in 0..MaxRewinds
    BY <1>1, Bounds
  <1>3. PICK p \in 0..pos : pos' = p /\ settled' = (settled /\ since <= p)
    BY DEF Rewind
  <1>4. pos' \in 0..Len(log) /\ settled' \in BOOLEAN
    BY <1>1, <1>3
  <1>5. TypeOK'
    BY <1>2, <1>4 DEF IInv, TypeOK, Rewind
  <1>6. settled' => settled /\ since' <= pos'
    BY <1>3 DEF Rewind
  <1>7. NoJoinOnItsWay' /\ NoLeaveOnItsWay'
    BY <1>6 DEF IInv, Rewind, NoJoinOnItsWay, NoLeaveOnItsWay, Awaits, Belongs, Joins, Leaves
  <1> QED
    BY <1>5, <1>6, <1>7 DEF IInv, Rewind, SinceOK, RoomInQueue

(* The chat list shows what Google Chat has; it is handled later.           *)
LEMMA SyncFetchInv ==
  ASSUME IInv, SyncFetch
  PROVE  IInv'
  <1> USE DEF googleVars, history
  <1>1. syncs' \in 0..MaxSyncs
    BY Bounds DEF IInv, TypeOK, SyncFetch
  <1>2. TypeOK'
    BY <1>1 DEF IInv, TypeOK, SyncFetch
  <1>3. NoJoinOnItsWay' /\ NoLeaveOnItsWay'
    BY DEF IInv, SyncFetch, NoJoinOnItsWay, NoLeaveOnItsWay, Awaits, Belongs, Joins, Leaves
  <1> QED
    BY <1>2, <1>3 DEF IInv, SyncFetch, SinceOK, RoomInQueue

LEMMA SyncApplyInv ==
  ASSUME IInv, NEW saves \in BOOLEAN, SyncApply(saves)
  PROVE  IInv'
  <1> USE DEF googleVars, bounds
  <1>1. /\ queue \in Seq(Entries) /\ Len(queue) \in Nat /\ Len(queue) < MaxQueue
        /\ "join" \in Entries /\ "join" \notin Leaves
    BY DEF IInv, TypeOK, SyncApply, Entries, Leaves
  <1>2. /\ queue' \in Seq(Entries) /\ Len(queue') <= Len(queue) + 1 /\ Len(queue') \in Nat
        /\ Belongs => NoneOf(queue', Leaves)
    <2>1. CASE world = "joined"
      <3>1. queue' = Append(queue, "join")
        BY <2>1 DEF SyncApply
      <3> QED
        BY <1>1, <3>1, AppendType, AppendNone DEF IInv, NoLeaveOnItsWay
    <2>2. CASE world # "joined"
      BY <1>1, <2>2 DEF SyncApply, IInv, NoLeaveOnItsWay
    <2> QED
      BY <2>1, <2>2
  <1>3. Len(queue') <= MaxQueue /\ Len(queue') <= MaxQueue + 1
    BY <1>1, <1>2, Bounds
  <1>4. Awaits => queue' = queue /\ world # "joined"
    BY DEF SyncApply, IInv, NoJoinOnItsWay
  <1>5. pending' \in BOOLEAN /\ saved' \in BOOLEAN /\ faults' \in BOOLEAN
    BY DEF SyncApply, IInv, TypeOK
  <1>6. TypeOK'
    BY <1>2, <1>3, <1>5 DEF SyncApply, IInv, TypeOK
  <1>7. NoJoinOnItsWay'
    BY <1>4 DEF SyncApply, IInv, NoJoinOnItsWay, Awaits, Joins
  <1>8. NoLeaveOnItsWay'
    BY <1>2 DEF SyncApply, IInv, NoLeaveOnItsWay, Belongs, Leaves
  <1>9. SinceOK' /\ RoomInQueue'
    BY <1>3 DEF SyncApply, IInv, SinceOK, RoomInQueue
  <1> QED
    BY <1>6, <1>7, <1>8, <1>9 DEF IInv

(* What taking an entry off the queue leaves, and why the entry is there.   *)
LEMMA TakeFacts ==
  ASSUME IInv, NEW entry, Take(entry)
  PROVE  /\ Tail(queue) \in Seq(Entries) /\ Len(Tail(queue)) \in Nat
         /\ Len(Tail(queue)) <= MaxQueue /\ Len(Tail(queue)) <= MaxQueue + 1
         /\ entry \in Entries /\ rpc = "none"
         /\ Awaits => entry \notin Joins /\ NoneOf(Tail(queue), Joins)
         /\ Belongs => entry \notin Leaves /\ NoneOf(Tail(queue), Leaves)
  <1>1. /\ queue \in Seq(Entries) /\ queue # <<>> /\ Head(queue) = entry /\ rpc = "none"
        /\ Len(queue) <= MaxQueue + 1
    BY DEF Take, IInv, TypeOK
  <1>2. /\ Tail(queue) \in Seq(Entries) /\ Len(Tail(queue)) = Len(queue) - 1
        /\ Len(queue) > 0 /\ Len(queue) \in Nat /\ entry \in Entries
    BY <1>1, TailType
  <1>3. /\ Len(Tail(queue)) \in Nat
        /\ Len(Tail(queue)) <= MaxQueue /\ Len(Tail(queue)) <= MaxQueue + 1
    BY <1>1, <1>2, Bounds
  <1>4. Awaits => entry \notin Joins /\ NoneOf(Tail(queue), Joins)
    BY <1>1, TailNone DEF IInv, NoJoinOnItsWay
  <1>5. Belongs => entry \notin Leaves /\ NoneOf(Tail(queue), Leaves)
    BY <1>1, TailNone DEF IInv, NoLeaveOnItsWay
  <1> QED
    BY <1>1, <1>2, <1>3, <1>4, <1>5

(* An echo behind what is left of the queue.                                *)
LEMMA TakeAndAppend ==
  ASSUME IInv, NEW entry, Take(entry), NEW e \in Entries
  PROVE  /\ Append(Tail(queue), e) \in Seq(Entries)
         /\ Len(Append(Tail(queue), e)) <= MaxQueue + 1
         /\ Awaits /\ e \notin Joins => NoneOf(Append(Tail(queue), e), Joins)
         /\ Belongs /\ e \notin Leaves => NoneOf(Append(Tail(queue), e), Leaves)
  <1>1. /\ Tail(queue) \in Seq(Entries) /\ Len(Tail(queue)) \in Nat
        /\ Len(Tail(queue)) <= MaxQueue
        /\ Awaits => NoneOf(Tail(queue), Joins)
        /\ Belongs => NoneOf(Tail(queue), Leaves)
    BY TakeFacts
  <1>2. /\ Append(Tail(queue), e) \in Seq(Entries)
        /\ Len(Append(Tail(queue), e)) = Len(Tail(queue)) + 1
    BY <1>1, AppendType
  <1>3. Len(Append(Tail(queue), e)) <= MaxQueue + 1
    BY <1>1, <1>2, Bounds
  <1> QED
    BY <1>1, <1>2, <1>3, AppendNone

LEMMA PortalInv ==
  ASSUME IInv, PortalInvite \/ PortalJoin \/ PortalLeave
  PROVE  IInv'
  <1> USE DEF googleVars, history, bounds
  <1>1. /\ pos \in 0..Len(log) /\ pos <= pos /\ pending \in BOOLEAN /\ saved \in BOOLEAN
        /\ faults \in BOOLEAN /\ room \in {"none", "invite", "join"}
    BY DEF IInv, TypeOK
  <1>2. /\ "echo" \in Entries /\ "exit" \in Entries /\ "none" \notin Joins \cup Leaves
        /\ "echo" \notin Leaves /\ "exit" \notin Joins
        /\ "join" \in Joins /\ "leave" \in Leaves
    BY DEF Entries, Leaves, Joins
  <1>3. CASE PortalInvite
    <2>1. /\ Take("invite") /\ queue' = Tail(queue)
          /\ room' \in {"none", "invite", "join"}
          /\ UNCHANGED <<googleVars, world, since, settled, accepted, refused, bounds>>
          /\ UNCHANGED <<pos, pending, saved, rpc, faults>>
      BY <1>1, <1>3 DEF PortalInvite
    <2> QED
      BY <1>1, <1>2, <2>1, TakeFacts, QueueStep
  <1>4. CASE PortalJoin
    <2>1. /\ Take("join") /\ queue' \in {Tail(queue), Append(Tail(queue), "echo")}
          /\ room' \in {"none", "invite", "join"}
          /\ UNCHANGED <<googleVars, world, since, settled, accepted, refused, bounds>>
          /\ UNCHANGED <<pos, pending, saved, rpc, faults>>
      BY <1>1, <1>4 DEF PortalJoin
    <2>2. ~Awaits /\ rpc = "none"
      BY <1>2, <2>1, TakeFacts
    <2>3. /\ queue' \in Seq(Entries) /\ Len(queue') <= MaxQueue + 1
          /\ Belongs => NoneOf(queue', Leaves)
      BY <1>2, <2>1, TakeFacts, TakeAndAppend
    <2> QED
      BY <1>1, <1>2, <2>1, <2>2, <2>3, QueueStep
  <1>5. CASE PortalLeave
    <2>1. /\ Take("leave") /\ queue' \in {Tail(queue), Append(Tail(queue), "exit")}
          /\ room' \in {"none", "invite", "join"}
          /\ UNCHANGED <<googleVars, world, since, settled, accepted, refused, bounds>>
          /\ UNCHANGED <<pos, pending, saved, rpc, faults>>
      BY <1>1, <1>5 DEF PortalLeave
    <2>2. ~Belongs /\ rpc = "none"
      BY <1>2, <2>1, TakeFacts
    <2>3. /\ queue' \in Seq(Entries) /\ Len(queue') <= MaxQueue + 1
          /\ Awaits => NoneOf(queue', Joins)
      BY <1>2, <2>1, TakeFacts, TakeAndAppend
    <2> QED
      BY <1>1, <1>2, <2>1, <2>2, <2>3, QueueStep
  <1> QED
    BY <1>3, <1>4, <1>5

(* The user's answer or leave goes into the queue, and the history tells of *)
(* it.                                                                     *)
LEMMA UserInv ==
  ASSUME IInv, UserAccepts \/ UserRejects \/ UserLeaves
  PROVE  IInv'
  <1> USE DEF googleVars, bounds
  <1>1. PICK r \in {"join", "none"}, e \in {"accept", "reject", "exit"} : UserActs(r, e)
    <2>1. CASE UserAccepts
      BY <2>1 DEF UserAccepts
    <2>2. CASE UserRejects
      BY <2>2 DEF UserRejects
    <2>3. CASE UserLeaves
      BY <2>3 DEF UserLeaves
    <2> QED
      BY <2>1, <2>2, <2>3
  <1>2. /\ queue \in Seq(Entries) /\ Len(queue) \in Nat /\ Len(queue) < MaxQueue
        /\ e \in Entries /\ queue' = Append(queue, e)
        /\ accepted' = (accepted \/ e = "accept") /\ refused' = (refused \/ e # "accept")
        /\ accepted \in BOOLEAN /\ refused \in BOOLEAN
    BY <1>1 DEF IInv, TypeOK, UserActs, Entries
  <1>3. queue' \in Seq(Entries) /\ Len(queue') = Len(queue) + 1
    BY <1>2, AppendType
  <1>4. Len(queue') <= MaxQueue /\ Len(queue') <= MaxQueue + 1
    BY <1>2, <1>3, Bounds
  <1>5. TypeOK'
    BY <1>1, <1>2, <1>3, <1>4 DEF UserActs, IInv, TypeOK
  <1>6. e \notin Joins' /\ e \notin Leaves' /\ Joins' \subseteq Joins /\ Leaves' \subseteq Leaves
    BY <1>1, <1>2 DEF Joins, Leaves
  <1>7. Awaits => NoneOf(queue', Joins')
    <2>1. Awaits => NoneOf(queue, Joins')
      BY <1>6 DEF IInv, NoJoinOnItsWay, NoneOf
    <2> QED
      BY <1>2, <1>6, <2>1, AppendNone
  <1>8. Belongs => NoneOf(queue', Leaves')
    <2>1. Belongs => NoneOf(queue, Leaves')
      BY <1>6 DEF IInv, NoLeaveOnItsWay, NoneOf
    <2> QED
      BY <1>2, <1>6, <2>1, AppendNone
  <1>9. NoJoinOnItsWay'
    BY <1>1, <1>6, <1>7 DEF UserActs, IInv, NoJoinOnItsWay, Awaits
  <1>10. NoLeaveOnItsWay'
    BY <1>1, <1>6, <1>8 DEF UserActs, IInv, NoLeaveOnItsWay, Belongs
  <1> QED
    BY <1>1, <1>4, <1>5, <1>9, <1>10 DEF UserActs, IInv, SinceOK, RoomInQueue

LEMMA HandleInv ==
  ASSUME IInv, NEW entry \in {"accept", "echo", "reject", "exit"}, HandleMatrixMembership(entry)
  PROVE  IInv'
  <1> USE DEF googleVars, bounds
  <1>1. /\ Take(entry) /\ queue' = Tail(queue) /\ rpc' \in {entry, "none"}
        /\ UNCHANGED <<googleVars, world, since, settled, accepted, refused, bounds>>
        /\ UNCHANGED <<pos, pending, saved, room>>
    BY DEF HandleMatrixMembership
  <1>2. /\ pos \in 0..Len(log) /\ pos <= pos /\ pending \in BOOLEAN /\ saved \in BOOLEAN
        /\ faults' \in BOOLEAN /\ room \in {"none", "invite", "join"}
    BY DEF IInv, TypeOK, HandleMatrixMembership
  <1>3. "none" \notin Joins \cup Leaves
    BY DEF Joins, Leaves
  <1>4. /\ Awaits => rpc' \notin Joins
        /\ Belongs => rpc' \notin Leaves
    BY <1>1, <1>3, TakeFacts
  <1> QED
    BY <1>1, <1>2, <1>4, TakeFacts, QueueStep

(***************************************************************************)
(* Answers, and the restart.                                               *)
(***************************************************************************)

(* What the server carries out.                                            *)
LEMMA PerformFacts ==
  ASSUME IInv, ServerPerforms
  PROVE  /\ log' \in Seq(Events) /\ Len(log') <= MaxEvents + 1 /\ Len(log) <= Len(log')
         /\ member # "out"
         /\ Accepting => /\ member' = "joined" /\ member \in {"invited", "spam"}
                         /\ NoneAfter(log, since, LeaveEvents)
                              => NoneAfter(log', since, LeaveEvents)
         /\ ~Accepting => member' = "out"
  <1>1. TypeOK /\ since \in 0..Len(log)
    BY DEF IInv, TypeOK
  <1>2. CASE Accepting
    <2>1. /\ Become("joined", <<"joined", "sysJoined">>) /\ "joined" \in Members
          /\ member \in {"invited", "spam"}
      BY <1>2 DEF ServerPerforms, Possible, Members
    <2> QED
      BY <1>1, <1>2, <2>1, JoinedEvents, BecomeFacts
  <1>3. CASE ~Accepting
    <2>1. PICK events \in {<<"left", "sysLeft">>, <<"left">>} : Become("out", events)
      BY <1>3 DEF ServerPerforms
    <2>2. member # "out"
      BY <1>3 DEF ServerPerforms, Possible
    <2> QED
      BY <1>1, <1>3, <2>1, <2>2, LeftEvents, BecomeFacts DEF Members
  <1> QED
    BY <1>2, <1>3

(* A request that the server carries out, whatever becomes of its answer.  *)
LEMMA AnswerInv ==
  ASSUME IInv, rpc # "none", rpc' = "none", ServerPerforms \/ UNCHANGED <<member, log>>,
         UNCHANGED <<invites, pos, room, world, since, settled, accepted, refused, bounds>>,
         pending' \in BOOLEAN, saved' \in BOOLEAN, faults' \in BOOLEAN,
         \/ queue' = queue
         \/ ServerPerforms /\ Accepting /\ queue' = Append(queue, "join")
  PROVE  IInv'
  <1> USE DEF bounds
  <1>1. /\ log' \in Seq(Events) /\ Len(log') <= MaxEvents + 1 /\ Len(log) <= Len(log')
        /\ Len(log) \in Nat /\ Len(log') \in Nat
        /\ member' \in {"out", "invited", "spam", "joined"}
        /\ member' \in {"invited", "spam"} => UNCHANGED <<member, log, queue>>
        /\ member' # "out" => member # "out"
        /\ member' # "out" /\ NoneAfter(log, since, LeaveEvents)
             => NoneAfter(log', since, LeaveEvents)
    <2>1. CASE ServerPerforms
      BY <2>1, PerformFacts DEF IInv, TypeOK
    <2>2. CASE UNCHANGED <<member, log>> /\ ~ServerPerforms
      BY <2>2 DEF IInv, TypeOK
    <2> QED
      BY <2>1, <2>2
  <1>2. pos' \in 0..Len(log') /\ since' \in 0..Len(log')
    BY <1>1 DEF IInv, TypeOK
  <1>3. /\ queue \in Seq(Entries) /\ Len(queue) \in Nat /\ Len(queue) <= MaxQueue
        /\ "join" \in Entries /\ "join" \notin Leaves /\ "none" \notin Joins \cup Leaves
    BY DEF IInv, TypeOK, RoomInQueue, Entries, Leaves, Joins
  <1>4. /\ queue' \in Seq(Entries) /\ Len(queue') <= MaxQueue + 1
        /\ Belongs => NoneOf(queue', Leaves)
    <2>1. CASE queue' = queue
      BY <1>3, <2>1, Bounds DEF IInv, NoLeaveOnItsWay
    <2>2. CASE queue' = Append(queue, "join")
      <3>1. queue' \in Seq(Entries) /\ Len(queue') = Len(queue) + 1
        BY <1>3, <2>2, AppendType
      <3>2. Len(queue') <= MaxQueue + 1
        BY <1>3, <3>1, Bounds
      <3>3. Belongs => NoneOf(queue', Leaves)
        BY <1>3, <2>2, AppendNone DEF IInv, NoLeaveOnItsWay
      <3> QED
        BY <3>1, <3>2, <3>3
    <2> QED
      BY <2>1, <2>2
  <1>5. TypeOK'
    BY <1>1, <1>2, <1>4 DEF IInv, TypeOK
  <1>6. NoJoinOnItsWay'
    BY <1>1, <1>3 DEF IInv, NoJoinOnItsWay, Awaits, Joins
  <1>7. NoLeaveOnItsWay'
    BY <1>1, <1>3, <1>4 DEF IInv, NoLeaveOnItsWay, Belongs, Leaves
  <1> QED
    BY <1>5, <1>6, <1>7 DEF IInv, SinceOK, RoomInQueue

LEMMA RestartInv ==
  ASSUME IInv, Restart
  PROVE  IInv'
  <1> USE DEF googleVars
  <1>1. /\ queue' \in Seq(Entries) /\ Len(queue') = 0 /\ \A bad : NoneOf(queue', bad)
        /\ rpc' = "none" /\ world' = "none" /\ "none" \notin Joins' \cup Leaves'
    BY EmptyOf DEF Restart, Joins, Leaves
  <1>2. Len(queue') <= MaxQueue + 1 /\ pos' \in 0..Len(log') /\ restarts' \in 0..MaxRestarts
        /\ since' <= pos'
    BY <1>1, Bounds DEF IInv, TypeOK, Restart
  <1>3. TypeOK'
    BY <1>1, <1>2 DEF IInv, TypeOK, Restart
  <1>4. NoJoinOnItsWay' /\ NoLeaveOnItsWay'
    BY <1>1 DEF IInv, Restart, NoJoinOnItsWay, NoLeaveOnItsWay, Awaits, Belongs
  <1> QED
    BY <1>1, <1>2, <1>3, <1>4 DEF IInv, SinceOK, RoomInQueue

(***************************************************************************)
(* Theorems.                                                               *)
(***************************************************************************)
LEMMA StepInv ==
  ASSUME IInv, [Next]_vars
  PROVE  IInv'
  <1>1. CASE (\E category \in {"invited", "spam"} : Invite(category))
             \/ Added \/ AcceptElsewhere \/ LeaveElsewhere
    BY <1>1, WorldStep
  <1>2. CASE StreamStep
    BY <1>2, StreamInv
  <1>3. CASE Rewind
    BY <1>3, RewindInv
  <1>4. CASE SyncFetch
    BY <1>4, SyncFetchInv
  <1>5. CASE PortalInvite \/ PortalJoin \/ PortalLeave
    BY <1>5, PortalInv
  <1>6. CASE UserAccepts \/ UserRejects \/ UserLeaves
    BY <1>6, UserInv
  <1>7. ASSUME NEW entry \in {"accept", "echo", "reject", "exit"}, HandleMatrixMembership(entry)
        PROVE  IInv'
    BY <1>7, HandleInv
  <1>8. ASSUME NEW saves \in BOOLEAN, SyncApply(saves)
        PROVE  IInv'
    BY <1>8, SyncApplyInv
  <1>9. ASSUME NEW saves \in BOOLEAN, AnswerOK(saves)
        PROVE  IInv'
    <2>1. pending' \in BOOLEAN /\ saved' \in BOOLEAN /\ faults' \in BOOLEAN
      BY <1>9 DEF AnswerOK, SavePending, IInv, TypeOK
    <2>2. /\ rpc # "none" /\ rpc' = "none" /\ ServerPerforms
          /\ UNCHANGED <<invites, pos, room, world, since, settled, accepted, refused, bounds>>
          /\ \/ queue' = queue
             \/ Accepting /\ queue' = Append(queue, "join")
      BY <1>9 DEF AnswerOK, ServerPerforms
    <2> QED
      BY <2>1, <2>2, AnswerInv
  <1>10. CASE AnswerFails
    <2>1. pending' \in BOOLEAN /\ saved' \in BOOLEAN /\ faults' \in BOOLEAN
      BY <1>10 DEF AnswerFails, IInv, TypeOK
    <2>2. /\ rpc # "none" /\ rpc' = "none"
          /\ ServerPerforms \/ UNCHANGED <<member, log>>
          /\ UNCHANGED <<invites, pos, room, world, since, settled, accepted, refused, bounds>>
          /\ queue' = queue
      BY <1>10 DEF AnswerFails
    <2> QED
      BY <2>1, <2>2, AnswerInv
  <1>11. CASE Restart
    BY <1>11, RestartInv
  <1>12. CASE UNCHANGED vars
    BY <1>12 DEF vars, googleVars, bridgeVars, history, bounds, IInv, TypeOK,
                 NoJoinOnItsWay, NoLeaveOnItsWay, Awaits, Belongs, Joins, Leaves,
                 SinceOK, RoomInQueue
  <1> QED
    BY <1>1, <1>2, <1>3, <1>4, <1>5, <1>6, <1>7, <1>8, <1>9, <1>10, <1>11, <1>12 DEF Next

THEOREM InvHolds == Spec => []IInv
  <1>1. Init => IInv
    BY InitInv
  <1>2. IInv /\ [Next]_vars => IInv'
    BY StepInv
  <1> QED
    BY <1>1, <1>2, PTL DEF Spec

(* The types of the module's state, whatever the bounds.                   *)
THEOREM InvitesTypeCorrect == Spec => []TypeOK
  BY InvHolds, PTL DEF IInv

(* A step that ends a request and changes the membership is the server's.   *)
LEMMA AnswerIsPerformed ==
  ASSUME [Next]_vars, rpc # "none", rpc' = "none", member' # member
  PROVE  ServerPerforms
  <1>1. CASE (\E category \in {"invited", "spam"} : Invite(category))
             \/ Added \/ AcceptElsewhere \/ LeaveElsewhere
    BY <1>1 DEF Invite, Added, Begins, AcceptElsewhere, LeaveElsewhere, bridgeVars
  <1>2. CASE StreamStep
    BY <1>2 DEF StreamStep, OwnInvited, OwnSpamInvite, OwnMembershipOther, SystemMessage,
                Handled
  <1>3. CASE Rewind \/ SyncFetch \/ PortalInvite \/ PortalJoin \/ PortalLeave
    BY <1>3 DEF Rewind, SyncFetch, PortalInvite, PortalJoin, PortalLeave, bridgeVars
  <1>4. CASE \/ UserAccepts \/ UserRejects \/ UserLeaves
             \/ \E entry \in {"accept", "echo", "reject", "exit"} : HandleMatrixMembership(entry)
    BY <1>4 DEF UserAccepts, UserRejects, UserLeaves, UserActs, HandleMatrixMembership, Take
  <1>5. CASE (\E saves \in BOOLEAN : SyncApply(saves)) \/ Restart \/ UNCHANGED vars
    BY <1>5 DEF SyncApply, Restart, vars, googleVars
  <1>6. CASE (\E saves \in BOOLEAN : AnswerOK(saves)) \/ AnswerFails
    BY <1>6 DEF AnswerOK, AnswerFails
  <1> QED
    BY <1>1, <1>2, <1>3, <1>4, <1>5, <1>6 DEF Next

(* An invite that came when nothing was on its way is accepted by a request *)
(* of the bridge only if the user has accepted it in the room, however      *)
(* often the bridge restarts, syncs, replays the invite or fails to save.   *)
THEOREM NoAcceptUnasked == Spec => NeverAcceptsUnasked
  <1>1. ASSUME IInv, [Next]_vars
        PROVE  [Answers({"accept", "echo"}, "joined") /\ settled => accepted]_vars
    <2>1. SUFFICES ASSUME Answers({"accept", "echo"}, "joined"), settled
                   PROVE  accepted
      OBVIOUS
    <2>2. rpc \in {"accept", "echo"} /\ rpc # "none" /\ rpc' = "none" /\ member' # member
      BY <2>1 DEF Answers
    <2>3. ServerPerforms
      BY <1>1, <2>2, AnswerIsPerformed
    <2>4. member \in {"invited", "spam"}
      BY <2>2, <2>3 DEF ServerPerforms, Possible, Accepting
    <2>5. rpc \notin Joins
      BY <1>1, <2>1, <2>4 DEF IInv, NoJoinOnItsWay, Awaits
    <2> QED
      BY <2>2, <2>5 DEF Joins
  <1> QED
    BY <1>1, InvHolds, PTL DEF Spec, NeverAcceptsUnasked

(* ... and the user is taken out of a space he was then invited or added to *)
(* only if he has declined or left in the room since: neither what he did   *)
(* before nor a leave or a removal that the bridge mirrors does it.         *)
THEOREM NoLeaveUnasked == Spec => NeverLeavesUnasked
  <1>1. ASSUME IInv, [Next]_vars
        PROVE  [Answers({"reject", "exit"}, "out") /\ settled => refused]_vars
    <2>1. ASSUME Answers({"reject", "exit"}, "out"), settled
          PROVE  refused
      <3>1. rpc \in {"reject", "exit"} /\ member # "out"
        BY <2>1 DEF Answers
      <3>2. rpc \notin Leaves
        BY <1>1, <2>1, <3>1 DEF IInv, NoLeaveOnItsWay, Belongs
      <3> QED
        BY <3>1, <3>2 DEF Leaves
    <2> QED
      BY <2>1
  <1> QED
    BY <1>1, InvHolds, PTL DEF Spec, NeverLeavesUnasked

(***************************************************************************)
(* What the pending set and the room stand for once all is handled.  On    *)
(* top of IInv: the log ends with the invite that waits, if one does; with *)
(* nothing ahead of the stream but spam, the pending set says the same;    *)
(* and for a room that looks joined there is a membership, or an event, an *)
(* entry or a request that will bring one of the two about.                *)
(***************************************************************************)
Holds(s, n, wanted) == \E i \in (n + 1)..Len(s) : s[i] \in wanted

Others == Events \ {"spam"}

WaitsIn(s) == \E i \in 1..Len(s) : s[i] = "invited" /\ ~Holds(s, i, Others)

LogTells == WaitsIn(log) <=> member = "invited"

PendingTells == ~faults /\ ~Holds(log, pos, Others) => pending = (member = "invited")

JoinTells ==
  ~faults /\ room = "join" =>
    \/ member = "joined"
    \/ rpc \in {"accept", "echo"}
    \/ Holds(log, pos, {"sysLeft"})
    \/ Holds(queue, 0, {"leave", "accept", "echo"})

PInv == IInv /\ LogTells /\ PendingTells /\ JoinTells

LEMMA HoldsAppend ==
  ASSUME NEW S, NEW s \in Seq(S), NEW x \in S, NEW n \in 0..Len(s), NEW wanted
  PROVE  Holds(Append(s, x), n, wanted) <=> Holds(s, n, wanted) \/ x \in wanted
  <1>1. /\ Len(s) \in Nat /\ Len(Append(s, x)) = Len(s) + 1
        /\ \A i \in 1..Len(s) : Append(s, x)[i] = s[i]
        /\ Append(s, x)[Len(s) + 1] = x
    OBVIOUS
  <1>2. \A i \in (n + 1)..Len(s) : i \in (n + 1)..(Len(s) + 1) /\ i \in 1..Len(s)
    BY <1>1
  <1>3. \A i \in (n + 1)..(Len(s) + 1) : i \in (n + 1)..Len(s) \/ i = Len(s) + 1
    BY <1>1
  <1>4. Len(s) + 1 \in (n + 1)..(Len(s) + 1)
    BY <1>1
  <1> QED
    BY <1>1, <1>2, <1>3, <1>4 DEF Holds

LEMMA HoldsNext ==
  ASSUME NEW S, NEW s \in Seq(S), NEW n \in Nat, n < Len(s), NEW wanted
  PROVE  Holds(s, n, wanted) <=> s[n + 1] \in wanted \/ Holds(s, n + 1, wanted)
  <1>1. Len(s) \in Nat
    OBVIOUS
  <1>2. \A i : i \in (n + 1)..Len(s) <=> i = n + 1 \/ i \in (n + 1 + 1)..Len(s)
    BY <1>1
  <1> QED
    BY <1>2 DEF Holds

LEMMA HoldsTail ==
  ASSUME NEW S, NEW s \in Seq(S), s # <<>>, NEW wanted
  PROVE  Holds(s, 0, wanted) <=> Head(s) \in wanted \/ Holds(Tail(s), 0, wanted)
  <1>1. /\ Len(s) \in Nat /\ Len(s) > 0 /\ Len(Tail(s)) = Len(s) - 1 /\ Head(s) = s[1]
        /\ \A i \in 1..Len(Tail(s)) : Tail(s)[i] = s[i + 1]
    OBVIOUS
  <1>2. ASSUME NEW i \in 1..Len(s), s[i] \in wanted, i # 1
        PROVE  Holds(Tail(s), 0, wanted)
    <2>1. i - 1 \in (0 + 1)..Len(Tail(s)) /\ i - 1 \in 1..Len(Tail(s)) /\ (i - 1) + 1 = i
      BY <1>1, <1>2
    <2> QED
      BY <1>1, <1>2, <2>1 DEF Holds
  <1>3. ASSUME NEW i \in 1..Len(Tail(s)), Tail(s)[i] \in wanted
        PROVE  Holds(s, 0, wanted)
    <2>1. i + 1 \in (0 + 1)..Len(s)
      BY <1>1
    <2> QED
      BY <1>1, <1>3, <2>1 DEF Holds
  <1>4. Head(s) \in wanted => Holds(s, 0, wanted)
    <2>1. 1 \in (0 + 1)..Len(s)
      BY <1>1
    <2> QED
      BY <1>1, <2>1 DEF Holds
  <1>5. Holds(s, 0, wanted) => \E i \in 1..Len(s) : s[i] \in wanted
    BY DEF Holds
  <1>6. Holds(Tail(s), 0, wanted) => \E i \in 1..Len(Tail(s)) : Tail(s)[i] \in wanted
    BY DEF Holds
  <1> QED
    BY <1>1, <1>2, <1>3, <1>4, <1>5, <1>6

LEMMA HoldsBefore ==
  ASSUME NEW s, NEW n \in Nat, NEW m \in 0..n, Len(s) \in Nat, NEW wanted, Holds(s, n, wanted)
  PROVE  Holds(s, m, wanted)
  <1>1. PICK i \in (n + 1)..Len(s) : s[i] \in wanted
    BY DEF Holds
  <1>2. i \in (m + 1)..Len(s)
    OBVIOUS
  <1> QED
    BY <1>1, <1>2 DEF Holds

(* Another event ends the wait for an answer, or is the invite that waits. *)
LEMMA WaitsOther ==
  ASSUME NEW s \in Seq(Events), NEW x \in Others
  PROVE  WaitsIn(Append(s, x)) <=> x = "invited"
  <1>1. /\ Len(s) \in Nat /\ Len(Append(s, x)) = Len(s) + 1
        /\ Append(s, x)[Len(s) + 1] = x /\ x \in Events
    BY DEF Others
  <1>2. \A i \in 0..Len(s) : Holds(Append(s, x), i, Others)
    BY <1>1, HoldsAppend
  <1>3. ~Holds(Append(s, x), Len(s) + 1, Others)
    BY <1>1 DEF Holds
  <1>4. \A i \in 1..(Len(s) + 1) : i \in 0..Len(s) \/ i = Len(s) + 1
    BY <1>1
  <1>5. Len(s) + 1 \in 1..(Len(s) + 1)
    BY <1>1
  <1> QED
    BY <1>1, <1>2, <1>3, <1>4, <1>5 DEF WaitsIn

LEMMA WaitsSpam ==
  ASSUME NEW s \in Seq(Events)
  PROVE  WaitsIn(Append(s, "spam")) <=> WaitsIn(s)
  <1> DEFINE t == Append(s, "spam")
  <1>1. /\ "spam" \in Events /\ "spam" \notin Others
        /\ Len(s) \in Nat /\ Len(t) = Len(s) + 1 /\ t[Len(s) + 1] = "spam"
        /\ \A i \in 1..Len(s) : t[i] = s[i]
    BY DEF Events, Others
  <1>2. \A i \in 0..Len(s) : Holds(t, i, Others) <=> Holds(s, i, Others)
    BY <1>1, HoldsAppend
  <1>3. \A i \in 1..(Len(s) + 1) : t[i] = "invited" => i \in 1..Len(s)
    <2> SUFFICES ASSUME NEW i \in 1..(Len(s) + 1), i \notin 1..Len(s)
                 PROVE  t[i] # "invited"
      OBVIOUS
    <2>1. i = Len(s) + 1
      BY <1>1
    <2> QED
      BY <1>1, <2>1
  <1>4. \A i \in 1..Len(s) : i \in 1..(Len(s) + 1) /\ i \in 0..Len(s)
    BY <1>1
  <1> HIDE DEF t
  <1>5. WaitsIn(t) <=> WaitsIn(s)
    BY <1>1, <1>2, <1>3, <1>4 DEF WaitsIn
  <1> QED
    BY <1>5 DEF t

(* The next event, with nothing but spam behind it.                        *)
LEMMA WaitsAhead ==
  ASSUME NEW s \in Seq(Events), NEW n \in Nat, n < Len(s), ~Holds(s, n + 1, Others),
         s[n + 1] # "spam"
  PROVE  WaitsIn(s) <=> s[n + 1] = "invited"
  <1>1. Len(s) \in Nat /\ n + 1 \in 1..Len(s) /\ s[n + 1] \in Others
    BY DEF Others
  <1>2. ASSUME NEW i \in 1..Len(s), s[i] = "invited", ~Holds(s, i, Others)
        PROVE  i = n + 1
    <2>1. CASE i < n + 1
      <3>1. n + 1 \in (i + 1)..Len(s)
        BY <1>1, <2>1
      <3> QED
        BY <1>1, <1>2, <3>1 DEF Holds
    <2>2. CASE i > n + 1
      <3>1. i \in (n + 1 + 1)..Len(s)
        BY <1>1, <2>2
      <3>2. s[i] \in Others
        BY <1>2 DEF Others, Events
      <3> QED
        BY <3>1, <3>2 DEF Holds
    <2> QED
      BY <2>1, <2>2
  <1> QED
    BY <1>1, <1>2 DEF WaitsIn

(* What a step may do to the membership and to its log.                    *)
Invited(category) ==
  /\ member = "out" /\ member' = category /\ log' = Append(log, category)
  /\ UNCHANGED <<pos, bridgeVars, faults>>

Joined ==
  /\ member' = "joined" /\ log' = Append(Append(log, "joined"), "sysJoined") /\ pos' = pos

LeftAsMember ==
  /\ member' = "out" /\ log' = Append(Append(log, "left"), "sysLeft") /\ pos' = pos

LeftAsInvitee ==
  /\ member \notin {"out", "joined"} /\ member' = "out" /\ log' = Append(log, "left")
  /\ pos' = pos /\ room' = room
  /\ \/ faults'
     \/ UNCHANGED <<queue, faults>> /\ (rpc' = rpc \/ rpc \notin {"accept", "echo"})

LEMMA ConcatAppend ==
  ASSUME NEW S, NEW s \in Seq(S), NEW x \in S, NEW y \in S
  PROVE  s \o <<x>> = Append(s, x) /\ s \o <<x, y>> = Append(Append(s, x), y)
  OBVIOUS

LEMMA LogStep ==
  ASSUME IInv, [Next]_vars
  PROVE  \/ UNCHANGED <<member, log>>
         \/ \E category \in {"invited", "spam"} : Invited(category)
         \/ Joined \/ LeftAsMember \/ LeftAsInvitee
  <1> DEFINE Goal == \/ UNCHANGED <<member, log>>
                     \/ \E category \in {"invited", "spam"} : Invited(category)
                     \/ Joined \/ LeftAsMember \/ LeftAsInvitee
  <1>0. /\ {"invited", "spam", "joined", "sysJoined", "left", "sysLeft"} = Events
        /\ log \in Seq(Events)
    BY DEF Events, IInv, TypeOK
  <1>1. ASSUME NEW category \in {"invited", "spam"}, Invite(category)
        PROVE  Invited(category)
    BY <1>0, <1>1, ConcatAppend DEF Invite, Begins, Become, Invited
  <1>2. ASSUME Added \/ AcceptElsewhere
        PROVE  Joined
    BY <1>0, <1>2, ConcatAppend DEF Added, Begins, AcceptElsewhere, Become, Joined
  <1>3. ASSUME LeaveElsewhere
        PROVE  LeftAsMember \/ LeftAsInvitee
    <2>1. CASE member = "joined"
      BY <1>0, <1>3, <2>1, ConcatAppend DEF LeaveElsewhere, Become, LeftAsMember
    <2>2. CASE member # "joined"
      BY <1>0, <1>3, <2>2, ConcatAppend
      DEF LeaveElsewhere, Become, LeftAsInvitee, bridgeVars, history
    <2> QED
      BY <2>1, <2>2
  <1>4. ASSUME ServerPerforms, pos' = pos, room' = room, ~Accepting => queue' = queue,
               \/ faults'
               \/ faults' = faults
        PROVE  Joined \/ LeftAsMember \/ LeftAsInvitee
    <2>1. CASE Accepting
      BY <1>0, <1>4, <2>1, ConcatAppend DEF ServerPerforms, Become, Joined
    <2>2. CASE ~Accepting /\ member = "joined"
      BY <1>0, <1>4, <2>2, ConcatAppend DEF ServerPerforms, Become, LeftAsMember
    <2>3. CASE ~Accepting /\ member # "joined"
      BY <1>0, <1>4, <2>3, ConcatAppend
      DEF ServerPerforms, Possible, Accepting, Become, LeftAsInvitee
    <2> QED
      BY <2>1, <2>2, <2>3
  <1>5. ASSUME NEW saves \in BOOLEAN, AnswerOK(saves)
        PROVE  Goal
    <2>1. /\ ServerPerforms /\ pos' = pos /\ room' = room /\ (~Accepting => queue' = queue)
          /\ \/ faults'
             \/ faults' = faults
      BY <1>5 DEF AnswerOK, SavePending, Accepting, IInv, TypeOK
    <2> QED
      BY <1>4, <2>1
  <1>6. CASE AnswerFails
    BY <1>4, <1>6 DEF AnswerFails
  <1>7. CASE StreamStep
    BY <1>7 DEF StreamStep, OwnInvited, OwnSpamInvite, OwnMembershipOther, SystemMessage,
                Handled, googleVars
  <1>8. CASE \/ Rewind \/ SyncFetch \/ PortalInvite \/ PortalJoin \/ PortalLeave
             \/ \E entry \in {"accept", "echo", "reject", "exit"} : HandleMatrixMembership(entry)
             \/ \E saves \in BOOLEAN : SyncApply(saves)
             \/ Restart \/ UNCHANGED vars
    BY <1>8 DEF Rewind, SyncFetch, PortalInvite, PortalJoin, PortalLeave,
                HandleMatrixMembership, SyncApply, Restart, vars, googleVars
  <1>9. CASE UserAccepts \/ UserRejects \/ UserLeaves
    BY <1>9 DEF UserAccepts, UserRejects, UserLeaves, UserActs, googleVars
  <1> QED
    BY <1>1, <1>2, <1>3, <1>5, <1>6, <1>7, <1>8, <1>9 DEF Next

(* The events of joining and of leaving are none to wait for.              *)
LEMMA GrowthFacts ==
  ASSUME IInv, Joined \/ LeftAsMember \/ LeftAsInvitee
  PROVE  /\ Holds(log', pos', Others) /\ ~WaitsIn(log')
         /\ LeftAsMember => Holds(log', pos', {"sysLeft"})
         /\ Holds(log, pos, {"sysLeft"}) => Holds(log', pos', {"sysLeft"})
  <1>1. /\ log \in Seq(Events) /\ pos \in 0..Len(log) /\ Len(log) \in Nat /\ pos' = pos
        /\ {"joined", "sysJoined", "left", "sysLeft"} \subseteq Others
        /\ Others \subseteq Events
    BY DEF IInv, TypeOK, Events, Others, Joined, LeftAsMember, LeftAsInvitee
  <1>2. ASSUME NEW x \in Others \ {"invited"}, NEW s \in Seq(Events), pos \in 0..Len(s)
        PROVE  /\ Append(s, x) \in Seq(Events) /\ pos \in 0..Len(Append(s, x))
               /\ Holds(Append(s, x), pos, Others) /\ ~WaitsIn(Append(s, x))
               /\ x = "sysLeft" => Holds(Append(s, x), pos, {"sysLeft"})
               /\ Holds(s, pos, {"sysLeft"}) => Holds(Append(s, x), pos, {"sysLeft"})
    <2>1. Append(s, x) \in Seq(Events) /\ Len(Append(s, x)) = Len(s) + 1 /\ Len(s) \in Nat
      BY <1>1, <1>2, AppendType
    <2> QED
      BY <1>1, <1>2, <2>1, HoldsAppend, WaitsOther
  <1>3. CASE LeftAsInvitee
    BY <1>1, <1>2, <1>3 DEF LeftAsInvitee, LeftAsMember
  <1>4. CASE Joined
    <2> DEFINE s == Append(log, "joined")
    <2>1. /\ s \in Seq(Events) /\ pos \in 0..Len(s)
          /\ Holds(log, pos, {"sysLeft"}) => Holds(s, pos, {"sysLeft"})
      BY <1>1, <1>2
    <2>2. log' = Append(s, "sysJoined") /\ ~LeftAsMember
      BY <1>4 DEF Joined, LeftAsMember
    <2> HIDE DEF s
    <2> QED
      BY <1>1, <1>2, <2>1, <2>2
  <1>5. CASE LeftAsMember
    <2> DEFINE s == Append(log, "left")
    <2>1. s \in Seq(Events) /\ pos \in 0..Len(s)
      BY <1>1, <1>2
    <2>2. log' = Append(s, "sysLeft")
      BY <1>5 DEF LeftAsMember
    <2> HIDE DEF s
    <2> QED
      BY <1>1, <1>2, <2>1, <2>2
  <1> QED
    BY <1>3, <1>4, <1>5

LEMMA LogTellsStep ==
  ASSUME IInv, [Next]_vars, LogTells
  PROVE  LogTells'
  <1>0. log \in Seq(Events) /\ "invited" \in Others
    BY DEF IInv, TypeOK, Others, Events
  <1>1. CASE UNCHANGED <<member, log>>
    BY <1>1 DEF LogTells
  <1>2. CASE Invited("invited")
    BY <1>0, <1>2, WaitsOther DEF Invited, LogTells
  <1>3. CASE Invited("spam")
    BY <1>0, <1>3, WaitsSpam DEF Invited, LogTells
  <1>4. CASE Joined \/ LeftAsMember \/ LeftAsInvitee
    <2>1. ~WaitsIn(log') /\ member' # "invited"
      BY <1>4, GrowthFacts DEF Joined, LeftAsMember, LeftAsInvitee
    <2> QED
      BY <2>1 DEF LogTells
  <1> QED
    BY <1>1, <1>2, <1>3, <1>4, LogStep

LEMMA PendingTellsStep ==
  ASSUME IInv, IInv', [Next]_vars, LogTells, PendingTells
  PROVE  PendingTells'
  <1>0. /\ log \in Seq(Events) /\ Len(log) \in Nat /\ pos \in 0..Len(log) /\ pos \in Nat
        /\ pending \in BOOLEAN /\ faults \in BOOLEAN
    BY DEF IInv, TypeOK
  <1>1. CASE Invited("invited")
    <2>1. Holds(log', pos', Others)
      BY <1>0, <1>1, HoldsAppend DEF Invited, Others, Events
    <2> QED
      BY <2>1 DEF PendingTells
  <1>2. CASE Invited("spam")
    <2>1. /\ Holds(log', pos', Others) <=> Holds(log, pos, Others)
          /\ member = "out" /\ member' = "spam" /\ UNCHANGED <<pending, faults>>
      BY <1>0, <1>2, HoldsAppend DEF Invited, Others, Events, bridgeVars, history
    <2> QED
      BY <2>1 DEF PendingTells
  <1>3. CASE Joined \/ LeftAsMember \/ LeftAsInvitee
    BY <1>3, GrowthFacts DEF PendingTells
  <1>4. CASE StreamStep /\ UNCHANGED <<member, log>>
    <2>1. /\ pos < Len(log) /\ pos' = pos + 1
          /\ NextEvent = log[pos + 1] /\ NextEvent \in Events
      <3>1. pos < Len(log) /\ pos' = pos + 1
        BY <1>4 DEF StreamStep, OwnInvited, OwnSpamInvite, OwnMembershipOther, SystemMessage,
                    Handled
      <3>2. pos + 1 \in 1..Len(log)
        BY <1>0, <3>1
      <3> QED
        BY <1>0, <3>1, <3>2 DEF NextEvent
    <2>2. CASE NextEvent = "spam"
      <3>1. UNCHANGED <<pending, faults>>
        BY <1>4, <2>2 DEF StreamStep, OwnInvited, OwnSpamInvite, OwnMembershipOther,
                          SystemMessage
      <3>2. Holds(log, pos, Others) <=> Holds(log, pos + 1, Others)
        BY <1>0, <2>1, <2>2, HoldsNext DEF Others
      <3> QED
        BY <1>4, <2>1, <3>1, <3>2 DEF PendingTells
    <2>3. CASE NextEvent # "spam" /\ ~Holds(log, pos + 1, Others)
      <3>1. pending' = (NextEvent = "invited")
        BY <1>4, <2>3 DEF StreamStep, OwnInvited, OwnSpamInvite, OwnMembershipOther,
                          SystemMessage, SavePending
      <3>2. member = "invited" <=> NextEvent = "invited"
        BY <1>0, <2>1, <2>3, WaitsAhead DEF LogTells
      <3> QED
        BY <1>4, <3>1, <3>2 DEF PendingTells
    <2>4. CASE Holds(log, pos + 1, Others)
      BY <1>4, <2>1, <2>4 DEF PendingTells
    <2> QED
      BY <2>2, <2>3, <2>4
  <1>5. CASE Rewind /\ UNCHANGED <<member, log>>
    <2>1. PICK p \in 0..pos : pos' = p
      BY <1>5 DEF Rewind
    <2>2. Holds(log, pos, Others) => Holds(log, p, Others)
      BY <1>0, <2>1, HoldsBefore
    <2> QED
      BY <1>5, <2>1, <2>2 DEF Rewind, PendingTells, bridgeVars, history
  <1>6. ASSUME NEW saves \in BOOLEAN, SyncApply(saves)
        PROVE  PendingTells'
    <2>1. CASE world = "joined"
      BY <1>0, <1>6, <2>1 DEF SyncApply, PendingTells, googleVars
    <2>2. CASE world # "joined"
      BY <1>6, <2>2 DEF SyncApply, PendingTells, googleVars
    <2> QED
      BY <2>1, <2>2
  <1>7. CASE AnswerFails \/ Restart
    BY <1>7 DEF AnswerFails, Restart, PendingTells
  <1>8. ASSUME UNCHANGED <<member, log, pos, pending>>, faults' \/ faults' = faults
        PROVE  PendingTells'
    BY <1>8 DEF PendingTells
  <1>9. CASE \/ SyncFetch \/ PortalInvite \/ PortalJoin \/ PortalLeave \/ UNCHANGED vars
             \/ \E entry \in {"accept", "echo", "reject", "exit"} : HandleMatrixMembership(entry)
    <2>1. /\ UNCHANGED <<member, log, pos, pending>>
          /\ \/ faults'
             \/ faults' = faults
      BY <1>0, <1>9 DEF SyncFetch, PortalInvite, PortalJoin, PortalLeave,
                        HandleMatrixMembership, vars, googleVars, bridgeVars, history
    <2> QED
      BY <1>8, <2>1
  <1>10. CASE UserAccepts \/ UserRejects \/ UserLeaves
    BY <1>8, <1>10 DEF UserAccepts, UserRejects, UserLeaves, UserActs, googleVars
  <1>11. ASSUME (\E saves \in BOOLEAN : AnswerOK(saves)) \/ Added \/ AcceptElsewhere \/ LeaveElsewhere
                \/ \E category \in {"invited", "spam"} : Invite(category)
         PROVE  ~UNCHANGED <<member, log>>
    <2>1. CASE \/ Added \/ AcceptElsewhere \/ LeaveElsewhere
               \/ \E category \in {"invited", "spam"} : Invite(category)
      BY <2>1 DEF Added, AcceptElsewhere, LeaveElsewhere, Invite, Begins, Become
    <2>2. ASSUME NEW saves \in BOOLEAN, AnswerOK(saves)
          PROVE  ~UNCHANGED <<member, log>>
      BY <2>2 DEF AnswerOK, ServerPerforms, Possible, Become
    <2> QED
      BY <1>11, <2>1, <2>2
  <1> QED
    BY <1>1, <1>2, <1>3, <1>4, <1>5, <1>6, <1>7, <1>9, <1>10, <1>11, LogStep DEF Next

(* The reasons why a room looks joined that the queue and the handler hold. *)
Due == {"leave", "accept", "echo"}

LEMMA ConcatHolds ==
  ASSUME NEW S, NEW s \in Seq(S), NEW t \in Seq(S), NEW wanted, Holds(s, 0, wanted)
  PROVE  Holds(s \o t, 0, wanted)
  <1>1. PICK i \in 1..Len(s) : s[i] \in wanted
    BY DEF Holds
  <1>2. /\ i \in (0 + 1)..Len(s \o t) /\ (s \o t)[i] = s[i]
    OBVIOUS
  <1> QED
    BY <1>1, <1>2 DEF Holds

(* Taking an entry off the queue.                                          *)
LEMMA TakeHolds ==
  ASSUME IInv, NEW entry, Take(entry), entry \notin Due
  PROVE  /\ Holds(queue, 0, Due) => Holds(Tail(queue), 0, Due)
         /\ \A e \in Entries : Holds(Tail(queue), 0, Due) \/ e \in Due
                                 => Holds(Append(Tail(queue), e), 0, Due)
  <1>1. queue \in Seq(Entries) /\ queue # <<>> /\ Head(queue) = entry
    BY DEF IInv, TypeOK, Take
  <1>2. Tail(queue) \in Seq(Entries) /\ 0 \in 0..Len(Tail(queue))
    BY <1>1, TailType, TakeFacts
  <1> QED
    BY <1>1, <1>2, HoldsTail, HoldsAppend

LEMMA JoinTellsStream ==
  ASSUME IInv, StreamStep, JoinTells
  PROVE  JoinTells'
  <1>1. /\ log \in Seq(Events) /\ Len(log) \in Nat /\ pos \in Nat
        /\ queue \in Seq(Entries) /\ 0 \in 0..Len(queue)
        /\ faults \in BOOLEAN /\ pending \in BOOLEAN
    BY DEF IInv, TypeOK
  <1>2. /\ pos < Len(log) /\ pos' = pos + 1 /\ UNCHANGED <<member, log, room, rpc>>
        /\ faults => faults'
    <2>1. /\ pos < Len(log) /\ pos' = pos + 1 /\ UNCHANGED <<member, log, room, rpc>>
          /\ (\E saves \in BOOLEAN, value \in BOOLEAN : SavePending(value, saves))
             \/ faults' = faults
      BY DEF StreamStep, OwnInvited, OwnSpamInvite, OwnMembershipOther, SystemMessage,
             Handled, googleVars
    <2>2. faults => faults'
      BY <1>1, <2>1 DEF SavePending
    <2> QED
      BY <2>1, <2>2
  <1>3. /\ Holds(queue, 0, Due) => Holds(queue', 0, Due)
        /\ NextEvent = "sysLeft" => Holds(queue', 0, Due)
    <2>1. PICK entries \in {<<>>, <<"invite">>, <<"join">>, <<"leave">>} :
            /\ Handled(entries)
            /\ NextEvent = "sysLeft" => entries = <<"leave">>
      BY DEF StreamStep, OwnInvited, OwnSpamInvite, OwnMembershipOther, SystemMessage
    <2>2. /\ queue' = queue \o entries
          /\ {"invite", "join", "leave"} \subseteq Entries /\ "leave" \in Due
      BY <2>1 DEF Handled, Entries, Due
    <2>3. entries \in Seq(Entries)
      <3>1. \A e \in Entries : <<e>> \in Seq(Entries)
        BY OneOf
      <3> QED
        BY <2>2, <3>1, EmptyOf
    <2>4. Holds(queue, 0, Due) => Holds(queue', 0, Due)
      BY <1>1, <2>2, <2>3, ConcatHolds
    <2>5. ASSUME NextEvent = "sysLeft"
          PROVE  Holds(queue', 0, Due)
      <3>1. queue' = Append(queue, "leave")
        BY <1>1, <2>1, <2>2, <2>5, ConcatAppend
      <3> QED
        BY <1>1, <2>2, <3>1, HoldsAppend
    <2> QED
      BY <2>4, <2>5
  <1>4. Holds(log, pos, {"sysLeft"}) => Holds(log, pos + 1, {"sysLeft"}) \/ NextEvent = "sysLeft"
    BY <1>1, <1>2, HoldsNext DEF NextEvent
  <1> QED
    BY <1>2, <1>3, <1>4 DEF JoinTells, Due

LEMMA JoinTellsPortal ==
  ASSUME IInv, PortalInvite \/ PortalJoin \/ PortalLeave, JoinTells
  PROVE  JoinTells'
  <1>1. UNCHANGED <<member, log, pos, rpc, faults>>
    BY DEF PortalInvite, PortalJoin, PortalLeave, googleVars, history
  <1>2. "echo" \in Due /\ "echo" \in Entries /\ "invite" \notin Due /\ "join" \notin Due
    BY DEF Due, Entries
  <1>3. CASE PortalInvite
    <2>1. room' = "join" => room = "join"
      BY <1>3 DEF PortalInvite
    <2>2. Holds(queue, 0, Due) => Holds(queue', 0, Due)
      BY <1>2, <1>3, TakeHolds DEF PortalInvite
    <2> QED
      BY <1>1, <2>1, <2>2 DEF JoinTells, Due
  <1>4. CASE PortalJoin
    <2>1. CASE queue' = Append(Tail(queue), "echo")
      <3>1. Holds(queue', 0, Due)
        BY <1>2, <1>4, <2>1, TakeHolds DEF PortalJoin
      <3> QED
        BY <3>1 DEF JoinTells, Due
    <2>2. CASE queue' = Tail(queue) /\ (room' = "join" => room = "join")
      <3>1. Holds(queue, 0, Due) => Holds(queue', 0, Due)
        BY <1>2, <1>4, <2>2, TakeHolds DEF PortalJoin
      <3> QED
        BY <1>1, <2>2, <3>1 DEF JoinTells, Due
    <2> QED
      BY <1>4, <2>1, <2>2 DEF PortalJoin
  <1>5. CASE PortalLeave
    BY <1>5 DEF PortalLeave, JoinTells
  <1> QED
    BY <1>3, <1>4, <1>5

LEMMA JoinTellsHandle ==
  ASSUME IInv, NEW entry \in {"accept", "echo", "reject", "exit"},
         HandleMatrixMembership(entry), JoinTells
  PROVE  JoinTells'
  <1>1. /\ Take(entry) /\ queue' = Tail(queue) /\ rpc = "none"
        /\ UNCHANGED <<member, log, pos, room>>
        /\ faults => faults'
        /\ rpc' = entry \/ (rpc' = "none" /\ (faults' \/ member = "joined"))
    BY DEF HandleMatrixMembership, Take, googleVars
  <1>2. CASE entry \in {"reject", "exit"}
    <2>1. Holds(queue, 0, Due) => Holds(queue', 0, Due)
      BY <1>1, <1>2, TakeHolds DEF Due
    <2> QED
      BY <1>1, <2>1 DEF JoinTells, Due
  <1>3. CASE entry \in {"accept", "echo"}
    BY <1>1, <1>3 DEF JoinTells
  <1> QED
    BY <1>2, <1>3

LEMMA JoinTellsStep ==
  ASSUME IInv, [Next]_vars, JoinTells
  PROVE  JoinTells'
  <1>0. /\ log \in Seq(Events) /\ Len(log) \in Nat /\ pos \in 0..Len(log)
        /\ queue \in Seq(Entries) /\ 0 \in 0..Len(queue) /\ faults \in BOOLEAN
        /\ {"accept", "join", "reject", "exit"} \subseteq Entries /\ "accept" \in Due
        /\ {"invited", "spam"} \subseteq Events
    BY DEF IInv, TypeOK, Entries, Due, Events
  <1>1. ASSUME NEW category \in {"invited", "spam"}, Invited(category)
        PROVE  JoinTells'
    <2>1. Holds(log, pos, {"sysLeft"}) => Holds(log', pos, {"sysLeft"})
      BY <1>0, <1>1, HoldsAppend DEF Invited
    <2> QED
      BY <1>1, <2>1 DEF Invited, JoinTells, bridgeVars, history
  <1>2. CASE Joined \/ LeftAsMember
    BY <1>2, GrowthFacts DEF JoinTells, Joined
  <1>3. CASE LeftAsInvitee
    BY <1>0, <1>3, GrowthFacts DEF JoinTells, LeftAsInvitee
  <1>4. CASE StreamStep
    BY <1>4, JoinTellsStream
  <1>5. CASE PortalInvite \/ PortalJoin \/ PortalLeave
    BY <1>5, JoinTellsPortal
  <1>6. ASSUME NEW entry \in {"accept", "echo", "reject", "exit"}, HandleMatrixMembership(entry)
        PROVE  JoinTells'
    BY <1>6, JoinTellsHandle
  <1>7. CASE Rewind
    <2>1. PICK p \in 0..pos : pos' = p
      BY <1>7 DEF Rewind
    <2>2. Holds(log, pos, {"sysLeft"}) => Holds(log, p, {"sysLeft"})
      BY <1>0, <2>1, HoldsBefore
    <2> QED
      BY <1>7, <2>1, <2>2 DEF Rewind, JoinTells, googleVars, bridgeVars, history
  <1>8. ASSUME NEW saves \in BOOLEAN, SyncApply(saves)
        PROVE  JoinTells'
    <2>1. /\ UNCHANGED <<member, log, pos, room, rpc>>
          /\ faults => faults'
          /\ queue' = queue \/ queue' = Append(queue, "join")
      BY <1>8 DEF SyncApply, googleVars
    <2>2. Holds(queue, 0, Due) => Holds(Append(queue, "join"), 0, Due)
      BY <1>0, HoldsAppend
    <2>3. Holds(queue, 0, Due) => Holds(queue', 0, Due)
      BY <2>1, <2>2
    <2> QED
      BY <2>1, <2>3 DEF JoinTells, Due
  <1>9. CASE UserAccepts
    <2>1. queue' = Append(queue, "accept")
      BY <1>9 DEF UserAccepts, UserActs
    <2>2. Holds(queue', 0, Due)
      BY <1>0, <2>1, HoldsAppend
    <2> QED
      BY <2>2 DEF JoinTells, Due
  <1>10. CASE UserRejects \/ UserLeaves
    BY <1>10 DEF UserRejects, UserLeaves, UserActs, JoinTells
  <1>11. CASE AnswerFails \/ Restart
    BY <1>11 DEF AnswerFails, Restart, JoinTells
  <1>12. CASE SyncFetch \/ UNCHANGED vars
    BY <1>12 DEF SyncFetch, vars, googleVars, bridgeVars, history, JoinTells
  <1>13. ASSUME (\E saves \in BOOLEAN : AnswerOK(saves)) \/ Added \/ AcceptElsewhere \/ LeaveElsewhere
                \/ \E category \in {"invited", "spam"} : Invite(category)
         PROVE  ~UNCHANGED <<member, log>>
    <2>1. CASE \/ Added \/ AcceptElsewhere \/ LeaveElsewhere
               \/ \E category \in {"invited", "spam"} : Invite(category)
      BY <2>1 DEF Added, AcceptElsewhere, LeaveElsewhere, Invite, Begins, Become
    <2>2. ASSUME NEW saves \in BOOLEAN, AnswerOK(saves)
          PROVE  ~UNCHANGED <<member, log>>
      BY <2>2 DEF AnswerOK, ServerPerforms, Possible, Become
    <2> QED
      BY <1>13, <2>1, <2>2
  <1> QED
    BY <1>1, <1>2, <1>3, <1>4, <1>5, <1>6, <1>7, <1>8, <1>9, <1>10, <1>11, <1>12, <1>13,
       LogStep DEF Next

THEOREM PInvHolds == Spec => []PInv
  <1>1. ASSUME Init, IInv
        PROVE  PInv
    <2>1. log = <<>> /\ Len(log) = 0 /\ pending = FALSE /\ member = "out" /\ room = "none"
      BY <1>1 DEF Init
    <2>2. ~WaitsIn(log)
      BY <2>1 DEF WaitsIn
    <2> QED
      BY <1>1, <2>1, <2>2 DEF PInv, LogTells, PendingTells, JoinTells
  <1>2. ASSUME PInv, IInv', [Next]_vars
        PROVE  PInv'
    BY <1>2, LogTellsStep, PendingTellsStep, JoinTellsStep DEF PInv
  <1> QED
    BY <1>1, <1>2, InvHolds, PTL DEF Spec

(* However the log, the portal's queue, the user's answers, syncs and       *)
(* rewinds interleave: once all is handled without a fault, the invite that *)
(* waits on Google Chat is pending, none that was answered is, and the room *)
(* of a pending one does not look joined.                                   *)
THEOREM PendingIsTheInviteHolds == Spec => []PendingIsTheInvite
  <1>1. ASSUME PInv
        PROVE  PendingIsTheInvite
    <2>1. SUFFICES ASSUME Quiet, ~faults
                   PROVE  /\ pending = (member = "invited")
                          /\ pending => room # "join"
      BY DEF PendingIsTheInvite
    <2>2. Len(log) \in Nat /\ pos = Len(log) /\ queue = <<>> /\ rpc = "none"
      BY <1>1, <2>1 DEF PInv, IInv, TypeOK, Quiet
    <2>3. (pos + 1)..Len(log) = {} /\ (0 + 1)..Len(queue) = {}
      BY <2>2
    <2>4. \A wanted : ~Holds(log, pos, wanted) /\ ~Holds(queue, 0, wanted)
      BY <2>3 DEF Holds
    <2>5. pending = (member = "invited")
      BY <1>1, <2>1, <2>4 DEF PInv, PendingTells
    <2>6. room = "join" => member # "invited"
      BY <1>1, <2>1, <2>2, <2>4 DEF PInv, JoinTells
    <2> QED
      BY <2>5, <2>6
  <1> QED
    BY <1>1, PInvHolds, PTL

(***************************************************************************)
(* Spaces, for any logins, participants and bounds.  The properties hold   *)
(* because of where CreateGroup and the leave command stand when they say  *)
(* something, which SpacesInv spells out.                                  *)
(***************************************************************************)

(* Until it ends CreateGroup has said nothing, and a participant is either *)
(* still to be invited or dealt with.                                      *)
CreationOK ==
  /\ result # "none" => creating = "done"
  /\ creating \in {"power", "create"} => ~made
  /\ result = "refused" => ~made
  /\ Participants = invitees \cup invited \cup failed

(* The given room is bound before the first invitation, and no other room  *)
(* takes its place.                                                        *)
RoomOK ==
  /\ creating = "bind" => given
  /\ mxroom = "given" => given
  /\ creating \in {"power", "create", "bind"} => invited = {}
  /\ creating = "invite" /\ given => mxroom = "given"
  /\ given /\ invited # {} => mxroom = "given"
  /\ result = "ok" => invitees = {} /\ mxroom = (IF given THEN "given" ELSE "new")

(* A login the loop is through with has left or is among the errors.       *)
LeaveOK ==
  /\ leaving = "leave" => looked \ todo \subseteq left \cup errors
  /\ leaving = "forget" => left = looked

SpacesInv == SpacesTypeOK /\ CreationOK /\ RoomOK /\ LeaveOK

LEMMA SpacesInitInv ==
  ASSUME SpacesInit
  PROVE  SpacesInv
  <1>1. 0 \in 0..MaxLeaves /\ 0 \in 0..MaxJoins
    BY SpacesAssumption
  <1>2. SpacesTypeOK
    BY <1>1 DEF SpacesInit, SpacesTypeOK
  <1>3. CreationOK /\ RoomOK /\ LeaveOK
    BY DEF SpacesInit, CreationOK, RoomOK, LeaveOK
  <1> QED
    BY <1>2, <1>3 DEF SpacesInv

(* What CreateGroup does.                                                  *)
LEMMA CreateStep ==
  ASSUME SpacesInv,
         \/ EnsureBotPower \/ CreateSpace \/ CreateSpaceFails \/ BindRoom
         \/ BindRoomFails \/ CreateReturns \/ \E p \in Participants : InviteOne(p)
  PROVE  SpacesInv' /\ AllHaveLeft
  <1> USE SpacesAssumption DEF SpacesInv, SpacesTypeOK, CreationOK, RoomOK, LeaveOK, leaveVars,
     AllHaveLeft
  <1>1. CASE EnsureBotPower
    BY <1>1 DEF EnsureBotPower
  <1>2. CASE CreateSpace
    BY <1>2 DEF CreateSpace
  <1>3. CASE CreateSpaceFails
    BY <1>3 DEF CreateSpaceFails
  <1>4. CASE BindRoom
    BY <1>4 DEF BindRoom
  <1>5. CASE BindRoomFails
    BY <1>5 DEF BindRoomFails
  <1>6. CASE CreateReturns
    BY <1>6 DEF CreateReturns
  <1>7. ASSUME NEW p \in Participants, InviteOne(p)
        PROVE  SpacesInv' /\ AllHaveLeft
    BY <1>7 DEF InviteOne
  <1> QED
    BY <1>1, <1>2, <1>3, <1>4, <1>5, <1>6, <1>7

(* What the other logins, the event stream and the leave command do.       *)
LEMMA LeaveStep ==
  ASSUME SpacesInv,
         \/ LeaveCommand \/ AllTried \/ Evict
         \/ \E l \in Logins : JoinElsewhere(l) \/ PortalSync(l) \/ LeaveLogin(l) \/ ForgetRow(l)
  PROVE  SpacesInv' /\ AllHaveLeft
  <1> USE SpacesAssumption DEF SpacesInv, SpacesTypeOK, CreationOK, RoomOK, LeaveOK, createVars,
     leaveVars, AllHaveLeft
  <1>1. CASE LeaveCommand
    BY <1>1 DEF LeaveCommand
  <1>2. CASE AllTried
    BY <1>2 DEF AllTried
  <1>3. CASE Evict
    BY <1>3, ZenonT(30) DEF Evict
  <1>4. ASSUME NEW l \in Logins, JoinElsewhere(l)
        PROVE  SpacesInv' /\ AllHaveLeft
    BY <1>4 DEF JoinElsewhere
  <1>5. ASSUME NEW l \in Logins, PortalSync(l)
        PROVE  SpacesInv' /\ AllHaveLeft
    BY <1>5 DEF PortalSync
  <1>6. ASSUME NEW l \in Logins, LeaveLogin(l)
        PROVE  SpacesInv' /\ AllHaveLeft
    BY <1>6 DEF LeaveLogin
  <1>7. ASSUME NEW l \in Logins, ForgetRow(l)
        PROVE  SpacesInv' /\ AllHaveLeft
    BY <1>7 DEF ForgetRow
  <1> QED
    BY <1>1, <1>2, <1>3, <1>4, <1>5, <1>6, <1>7

LEMMA SpacesNextInv ==
  ASSUME SpacesInv, [SpacesNext]_spacesVars
  PROVE  SpacesInv' /\ [AllHaveLeft]_spacesVars
  <1>1. CASE SpacesNext
    BY <1>1, CreateStep, LeaveStep DEF SpacesNext
  <1>2. CASE UNCHANGED spacesVars
    BY <1>2 DEF SpacesInv, SpacesTypeOK, CreationOK, RoomOK, LeaveOK, spacesVars, createVars, leaveVars
  <1> QED
    BY <1>1, <1>2

THEOREM SpacesInvHolds == SpacesSpec => []SpacesInv
  BY SpacesInitInv, SpacesNextInv, PTL DEF SpacesSpec

(* The state of Spaces keeps its types.                                    *)
THEOREM SpacesTypeCorrect == SpacesSpec => []SpacesTypeOK
  <1>1. SpacesInv => SpacesTypeOK
    BY DEF SpacesInv
  <1> QED
    BY <1>1, SpacesInvHolds, PTL

(* CreateGroup reports what it leaves behind, at whichever of its steps it *)
(* fails and whatever room the event stream makes in the meantime.         *)
THEOREM CreationReported == SpacesSpec => []CreationInOrder
  <1>1. SpacesInv => CreationInOrder
    BY DEF SpacesInv, SpacesTypeOK, CreationOK, RoomOK, CreationInOrder
  <1> QED
    BY <1>1, SpacesInvHolds, PTL

(* The user is taken out of the room, and a login forgotten, only after    *)
(* every login the leave command found has been out of the space.          *)
THEOREM LeaversHaveLeft == SpacesSpec => EvictedOnlyIfAllLeft
  BY SpacesInvHolds, SpacesNextInv, PTL DEF SpacesSpec, EvictedOnlyIfAllLeft
=============================================================================
