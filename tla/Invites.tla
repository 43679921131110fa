------------------------------ MODULE Invites -------------------------------
(***************************************************************************)
(* One login's membership of one space, between Google Chat and the Matrix *)
(* room: invites.go, handlemembership.go, systemmessage.go and the chat    *)
(* list of sync.go in src/pkg/connector.                                   *)
(*                                                                         *)
(* Three things move independently.  The event stream tells the login of   *)
(* its own membership and keeps the set of pending invites, in memory and  *)
(* in the database.  The portal handles its queue one entry at a time:     *)
(* room changes the stream asked for and membership events of the Matrix   *)
(* room.  The user answers in Matrix or in another client, when he likes.  *)
(* A join or a leave that the bridge itself performs in the room comes     *)
(* back as a Matrix event, an echo, that looks like the user's: only the   *)
(* pending set tells an accepted invite from an echo.                      *)
(***************************************************************************)
EXTENDS Naturals, Sequences

CONSTANTS MaxInvites,  \* bound on the invites and direct adds
          MaxRewinds,  \* bound on the drains that replay membership events
          MaxSyncs,    \* bound on the chat-list syncs
          MaxRestarts, \* bound on the restarts of the bridge
          MaxEvents,   \* bound on the membership events
          MaxQueue     \* bound on the portal's queue

ASSUME InvitesAssumption ==
  {MaxInvites, MaxRewinds, MaxSyncs, MaxRestarts, MaxEvents, MaxQueue} \subseteq Nat

VARIABLES
  member,  \* Google Chat: "out", "invited", "spam" (invited as spam) or "joined"
  invites, \* how often the user was invited, or added without an invite
  log,     \* the membership events of the login, in order
  pos,     \* log[1..pos] was handled
  pending, \* PendingInvites holds the space, in memory
  saved,   \* ... and in the database
  queue,   \* the portal's queue
  room,    \* Matrix: "none", "invite" or "join"
  rpc,     \* the request HandleMatrixMembership waits for, or "none"
  world,   \* the membership the chat list showed a sync, or "none"
  since,    \* history: the events before he was last invited or added
  settled,  \* history: nothing was on its way then, and no drain has replayed
            \* any of those events since
  accepted, \* history: he has accepted an invite in the room since then
  refused,  \* history: he has declined the invite or left the room since then
  faults,   \* history: a request or a save failed, an event was lost, a sync
            \* used an old chat list, or an answer came too late
  rewinds, syncs, restarts

googleVars == <<member, invites, log>>
bridgeVars == <<pending, saved, queue, room, rpc, world>>
bounds == <<rewinds, syncs, restarts>>
history == <<since, settled, accepted, refused, faults>>
vars == <<googleVars, pos, bridgeVars, history, bounds>>

Events == {"invited", "spam", "joined", "left", "sysJoined", "sysLeft"}
Entries == {"invite", "join", "leave", \* asked for by the stream or a sync
            "accept", "reject", "exit", \* Matrix membership events
            "echo"} \* an accept by the bridge itself, for the handler the same

TypeOK ==
  /\ member \in {"out", "invited", "spam", "joined"} /\ invites \in 0..MaxInvites
  /\ log \in Seq(Events) /\ Len(log) <= MaxEvents + 1 /\ pos \in 0..Len(log)
  /\ pending \in BOOLEAN /\ saved \in BOOLEAN
  /\ queue \in Seq(Entries) /\ Len(queue) <= MaxQueue + 1
  /\ room \in {"none", "invite", "join"}
  /\ rpc \in {"none", "accept", "reject", "exit", "echo"}
  /\ world \in {"none", "out", "invited", "spam", "joined"}
  /\ since \in 0..Len(log) /\ settled \in BOOLEAN /\ accepted \in BOOLEAN
  /\ refused \in BOOLEAN /\ faults \in BOOLEAN
  /\ rewinds \in 0..MaxRewinds /\ syncs \in 0..MaxSyncs /\ restarts \in 0..MaxRestarts

Init ==
  /\ member = "out" /\ invites = 0 /\ log = <<>> /\ pos = 0
  /\ pending = FALSE /\ saved = FALSE /\ queue = <<>> /\ room = "none"
  /\ rpc = "none" /\ world = "none"
  /\ since = 0 /\ settled = FALSE /\ accepted = FALSE /\ refused = FALSE /\ faults = FALSE
  /\ rewinds = 0 /\ syncs = 0 /\ restarts = 0

(***************************************************************************)
(* Google Chat and the user's other clients.                               *)
(***************************************************************************)
Become(m, events) ==
  /\ Len(log) < MaxEvents
  /\ member' = m
  /\ log' = log \o events

Quiet == pos = Len(log) /\ queue = <<>> /\ rpc = "none" /\ world = "none"

(* The user is invited or added: what he did before no longer counts.      *)
Begins ==
  /\ member = "out" /\ invites < MaxInvites
  /\ invites' = invites + 1
  /\ since' = Len(log) /\ settled' = Quiet
  /\ accepted' = FALSE /\ refused' = FALSE
  /\ UNCHANGED <<pos, bridgeVars, faults, bounds>>

Invite(category) == Begins /\ Become(category, <<category>>)

(* A manager adds the user, who was not invited.                           *)
Added == Begins /\ Become("joined", <<"joined", "sysJoined">>)

(* Accepted in another client, or a manager adds the invited user.         *)
AcceptElsewhere ==
  /\ member \in {"invited", "spam"}
  /\ Become("joined", <<"joined", "sysJoined">>)
  /\ UNCHANGED <<invites, pos, bridgeVars, history, bounds>>

(* Declined or left in another client, withdrawn, or removed by a manager. *)
LeaveElsewhere ==
  /\ member # "out"
  /\ Become("out", IF member = "joined" THEN <<"left", "sysLeft">> ELSE <<"left">>)
  /\ UNCHANGED <<invites, pos, bridgeVars, history, bounds>>

(***************************************************************************)
(* The event stream.                                                       *)
(***************************************************************************)
NextEvent == log[pos + 1]

(* The event is done; the portal is asked for the entries. *)
Handled(entries) ==
  /\ pos' = pos + 1
  /\ queue' = queue \o entries
  /\ UNCHANGED <<googleVars, room, rpc, world, since, settled, accepted, refused, bounds>>

(* updateMetadata: the change is made in memory, then saved or not. *)
SavePending(value, saves) ==
  /\ pending' = value
  /\ saved' = IF pending # value /\ saves THEN value ELSE saved
  /\ faults' = (faults \/ (pending # value /\ ~saves))

(* addPendingInvite, then a resync that creates the room as an invite.  A  *)
(* failed save is reported, and the room is not asked for.                 *)
OwnInvited(saves) ==
  /\ NextEvent = "invited"
  /\ SavePending(TRUE, saves)
  /\ Handled(IF pending \/ saves THEN <<"invite">> ELSE <<>>)

OwnSpamInvite ==
  /\ NextEvent = "spam"
  /\ Handled(<<>>)
  /\ UNCHANGED <<pending, saved, faults>>

(* Answered from another client; a failed save is only logged. *)
OwnMembershipOther(saves) ==
  /\ NextEvent \in {"joined", "left"}
  /\ SavePending(FALSE, saves)
  /\ Handled(<<>>)

(* queueMembershipChanged clears the pending invite before it queues the   *)
(* delta.                                                                  *)
SystemMessage(saves) ==
  /\ NextEvent \in {"sysJoined", "sysLeft"}
  /\ SavePending(FALSE, saves)
  /\ Handled(IF NextEvent = "sysJoined" THEN <<"join">> ELSE <<"leave">>)

StreamStep ==
  /\ pos < Len(log) /\ Len(queue) < MaxQueue
  /\ \E saves \in BOOLEAN :
       OwnInvited(saves) \/ OwnSpamInvite \/ OwnMembershipOther(saves) \/ SystemMessage(saves)

(* A catch-up starts behind events that were handled already. *)
Rewind ==
  /\ rewinds < MaxRewinds
  /\ rewinds' = rewinds + 1
  /\ \E p \in 0..pos : pos' = p /\ settled' = (settled /\ since <= p)
  /\ UNCHANGED <<googleVars, bridgeVars, since, accepted, refused, faults, syncs, restarts>>

(***************************************************************************)
(* The chat list.                                                          *)
(***************************************************************************)
SyncFetch ==
  /\ world = "none" /\ syncs < MaxSyncs
  /\ syncs' = syncs + 1
  /\ world' = member
  /\ UNCHANGED <<googleVars, pos, pending, saved, queue, room, rpc, history,
                 rewinds, restarts>>

(* Mutant: the set is emptied whatever the list shows. *)
SyncApplyAlways(saves) ==
  /\ world # "none" /\ Len(queue) < MaxQueue
  /\ world' = "none"
  /\ pending' = FALSE
  /\ saved' = IF pending /\ saves THEN FALSE ELSE saved
  /\ queue' = IF world = "joined" THEN Append(queue, "join") ELSE queue
  /\ faults' = (faults \/ (pending /\ ~saves))
  /\ UNCHANGED <<googleVars, pos, room, rpc, since, settled, accepted, refused, bounds>>

(* "Drop invites already joined elsewhere before queuing, so an            *)
(* auto-accept echo can't match them."                                     *)
SyncApply(saves) ==
  /\ world # "none" /\ Len(queue) < MaxQueue
  /\ world' = "none"
  /\ IF world = "joined"
     THEN /\ pending' = FALSE
          /\ saved' = IF pending /\ saves THEN FALSE ELSE saved
          /\ queue' = Append(queue, "join")
          /\ faults' = (faults \/ (pending /\ ~saves) \/ member # "joined")
     ELSE UNCHANGED <<pending, saved, queue, faults>>
  /\ UNCHANGED <<googleVars, pos, room, rpc, since, settled, accepted, refused, bounds>>

(***************************************************************************)
(* The portal's queue.                                                     *)
(***************************************************************************)
Take(entry) == rpc = "none" /\ queue # <<>> /\ Head(queue) = entry

(* Mutant: get_group's member list is used, which has the user as joined. *)
PortalInviteJoins ==
  /\ Take("invite")
  /\ room' = "join"
  /\ queue' = IF room = "join" THEN Tail(queue) ELSE Append(Tail(queue), "echo")
  /\ UNCHANGED <<googleVars, pos, pending, saved, rpc, world, history, bounds>>

(* Mutant: no PrevMembership, so that a member becomes an invitee. *)
PortalInviteDowngrades ==
  /\ Take("invite")
  /\ room' = "invite"
  /\ queue' = IF room = "join" THEN Append(Tail(queue), "exit") ELSE Tail(queue)
  /\ UNCHANGED <<googleVars, pos, pending, saved, rpc, world, history, bounds>>

(* The room is created or updated with the user as invited; PrevMembership *)
(* keeps a member from being downgraded.                                   *)
PortalInvite ==
  /\ Take("invite")
  /\ room' = IF room = "none" THEN "invite" ELSE room
  /\ queue' = Tail(queue)
  /\ UNCHANGED <<googleVars, pos, pending, saved, rpc, world, history, bounds>>

(* The user becomes a member: his double puppet joins, and the echo looks  *)
(* like an accepted invite; without a double puppet he is only invited.    *)
PortalJoin ==
  /\ Take("join")
  /\ \/ /\ room # "join"
        /\ room' = "join" /\ queue' = Append(Tail(queue), "echo")
     \/ /\ room' = IF room = "none" THEN "invite" ELSE room
        /\ queue' = Tail(queue)
  /\ UNCHANGED <<googleVars, pos, pending, saved, rpc, world, history, bounds>>

(* PrevMembership is join: an invite stays.  The double puppet leaves, and *)
(* the echo looks like the user's leave; without a double puppet the user  *)
(* is removed by the bridge's bot.                                         *)
PortalLeave ==
  /\ Take("leave")
  /\ room' = IF room = "join" THEN "none" ELSE room
  /\ \/ room = "join" /\ queue' = Append(Tail(queue), "exit")
     \/ queue' = Tail(queue)
  /\ UNCHANGED <<googleVars, pos, pending, saved, rpc, world, history, bounds>>

(* The user answers the invite in the room, or leaves the room. *)
UserActs(r, entry) ==
  /\ Len(queue) < MaxQueue
  /\ room' = r
  /\ queue' = Append(queue, entry)
  /\ accepted' = (accepted \/ entry = "accept")
  /\ refused' = (refused \/ entry # "accept")
  /\ UNCHANGED <<googleVars, pos, pending, saved, rpc, world, since, settled, faults,
                 bounds>>

UserAccepts == room = "invite" /\ UserActs("join", "accept")
UserRejects == room = "invite" /\ UserActs("none", "reject")
UserLeaves == room = "join" /\ UserActs("none", "exit")

(* HandleMatrixMembership: an answer goes out if the invite is pending; an *)
(* accept without one is a no-op, a reject without one an error; a leave   *)
(* always goes out.                                                        *)
HandleMatrixMembership(entry) ==
  /\ Take(entry)
  /\ queue' = Tail(queue)
  /\ rpc' = IF entry = "exit" \/ pending THEN entry ELSE "none"
  /\ faults' = (faults \/ (rpc' = "none" /\ member # "joined"))
  /\ UNCHANGED <<googleVars, pos, pending, saved, room, world, since, settled, accepted,
                 refused, bounds>>

(* create_membership with the own id, or the own remove_memberships.  The  *)
(* server refuses what makes no sense any more.                            *)
Accepting == rpc \in {"accept", "echo"}
Possible == IF Accepting THEN member \in {"invited", "spam"} ELSE member # "out"

ServerPerforms ==
  /\ rpc # "none" /\ Possible
  /\ IF Accepting
     THEN Become("joined", <<"joined", "sysJoined">>)
     ELSE Become("out", IF member = "joined" THEN <<"left", "sysLeft">> ELSE <<"left">>)

(* answerInvite clears the pending invite once the request was carried out, *)
(* and an accept resyncs the space from a goroutine of its own.            *)
AnswerOK(saves) ==
  /\ ServerPerforms
  /\ IF rpc = "exit"
     THEN UNCHANGED <<pending, saved, queue, faults>>
     ELSE /\ SavePending(FALSE, saves)
          /\ queue' = IF Accepting THEN Append(queue, "join") ELSE queue
  /\ rpc' = "none"
  /\ UNCHANGED <<invites, pos, room, world, since, settled, accepted, refused, bounds>>

(* The request fails; the server may have carried it out all the same. *)
AnswerFails ==
  /\ rpc # "none"
  /\ ServerPerforms \/ UNCHANGED <<member, log>>
  /\ rpc' = "none"
  /\ faults' = TRUE
  /\ UNCHANGED <<invites, pos, pending, saved, queue, room, world, since, settled,
                 accepted, refused, bounds>>

(* Mutant: the stream goes on behind what there is. *)
RestartTooFar ==
  /\ restarts < MaxRestarts
  /\ restarts' = restarts + 1
  /\ pending' = saved
  /\ queue' = <<>> /\ rpc' = "none" /\ world' = "none"
  /\ pos' = Len(log) + 1
  /\ faults' = TRUE
  /\ UNCHANGED <<googleVars, saved, room, since, settled, accepted, refused, rewinds, syncs>>

(* A restart reads the database; the portal's queue and what happens while *)
(* the bridge is down are lost.                                            *)
Restart ==
  /\ restarts < MaxRestarts
  /\ restarts' = restarts + 1
  /\ pending' = saved
  /\ queue' = <<>> /\ rpc' = "none" /\ world' = "none"
  /\ pos' = Len(log)
  /\ faults' = TRUE
  /\ UNCHANGED <<googleVars, saved, room, since, settled, accepted, refused, rewinds, syncs>>

Next ==
  \/ \E category \in {"invited", "spam"} : Invite(category)
  \/ Added \/ AcceptElsewhere \/ LeaveElsewhere
  \/ StreamStep \/ Rewind \/ SyncFetch
  \/ PortalInvite \/ PortalJoin \/ PortalLeave
  \/ UserAccepts \/ UserRejects \/ UserLeaves
  \/ \E entry \in {"accept", "echo", "reject", "exit"} : HandleMatrixMembership(entry)
  \/ \E saves \in BOOLEAN : SyncApply(saves) \/ AnswerOK(saves)
  \/ AnswerFails \/ Restart

Spec == Init /\ [][Next]_vars

(***************************************************************************)
(* Properties.                                                             *)
(***************************************************************************)

(* A request of the bridge makes the user's membership m. *)
Answers(requests, m) == rpc \in requests /\ rpc' = "none" /\ member # m /\ member' = m

(* An invite that came when nothing was on its way is accepted by a        *)
(* request of the bridge only if the user has accepted it in the room:     *)
(* neither what the room is created with, nor a chat list, a failed save,  *)
(* a restart or a drain that replays the invite makes the bridge answer    *)
(* it.  invites.go: otherwise "the bridge accept[s] on the user's behalf". *)
(* This is not promised of an invite that overtakes the echo of a join of  *)
(* the bridge's own (run stale_accept), nor when a drain replays the       *)
(* events of an earlier membership.                                        *)
NeverAcceptsUnasked ==
  [][Answers({"accept", "echo"}, "joined") /\ settled => accepted]_vars

(* CHANGELOG.md: "Nothing is accepted on your behalf: the room stays an    *)
(* invite until you act on it."  An echo of the bridge's own join makes no *)
(* one a member of a space.                                                *)
NothingAcceptedOnYourBehalf == [][~Answers({"echo"}, "joined")]_vars

(* Likewise the user is taken out of a space he was invited or added to    *)
(* when nothing was on its way only if he has declined or left in the      *)
(* room since: what he did earlier, and the leaves and removals that the   *)
(* bridge mirrors into the room, do not end the new membership.            *)
NeverLeavesUnasked ==
  [][Answers({"reject", "exit"}, "out") /\ settled => refused]_vars

(* Once all is handled, the invite that waits on Google Chat is pending,   *)
(* none that was answered is, and the room of a pending one does not look  *)
(* joined: the user's answer will go out, and no echo is taken for it.     *)
(* Faults the user is told of, lost events and outdated chat lists are     *)
(* excepted: addPendingInvite and its three places of clearing.            *)
PendingIsTheInvite ==
  Quiet /\ ~faults =>
    /\ pending = (member = "invited")
    /\ pending => room # "join"
=============================================================================
