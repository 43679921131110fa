------------------------------- MODULE Spaces -------------------------------
(***************************************************************************)
(* A space from its creation out of a Matrix room to the day its user      *)
(* leaves it with all his logins: CreateGroup of                           *)
(* src/pkg/connector/createspace.go and the leave command of leave.go.     *)
(*                                                                         *)
(* Both are chains of requests and database writes that can fail at every  *)
(* step and are not undone.  Meanwhile the event stream of a login in the  *)
(* space may have bridgev2 create a room for it, and a chat-list sync      *)
(* brings the user back into the room of a space he is in.  The leave      *)
(* command may be given again.                                             *)
(***************************************************************************)
EXTENDS Naturals, FiniteSets

CONSTANTS Logins,       \* the user's logins
          Creator,      \* the login that creates the space
          Participants, \* the Google Chat users to invite
          MaxLeaves,    \* bound on the leave commands
          MaxJoins      \* bound on the logins that join later

ASSUME SpacesAssumption ==
  /\ Creator \in Logins
  /\ IsFiniteSet(Logins) /\ IsFiniteSet(Participants)
  /\ MaxLeaves \in Nat /\ MaxJoins \in Nat

VARIABLES
  given,     \* the room create-group was sent in, or none: provisioning API
  creating,  \* where CreateGroup is
  grantable, \* the bot has the power level, or the user's puppet can raise it
  made,      \* create_group made a space
  mxroom,    \* the portal's room: "none", "given", or a "new" one
  invitees,  \* participants still to invite
  invited,   \* participants Google Chat has invited
  failed,    \* FailedParticipants
  result,    \* what CreateGroup returned
  inSpace,   \* logins that are members on Google Chat
  rows,      \* logins with a user_portal row
  inRoom,    \* the user is in the portal's room
  leaving,   \* where the leave command is
  looked,    \* the logins leavingLogins found
  todo,      \* those the current loop has not come to
  errors,    \* those whose request failed
  left,      \* history: those that were out of the space at some time since
  leaves, joins

createVars == <<given, creating, grantable, made, mxroom, invitees, invited,
                failed, result>>
leaveVars == <<leaving, looked, todo, errors, left>>
spacesVars == <<createVars, inSpace, rows, inRoom, leaveVars, leaves, joins>>

SpacesTypeOK ==
  /\ given \in BOOLEAN /\ grantable \in BOOLEAN /\ made \in BOOLEAN
  /\ creating \in {"power", "create", "bind", "invite", "done"}
  /\ mxroom \in {"none", "given", "new"}
  /\ invitees \subseteq Participants /\ invited \subseteq Participants
  /\ failed \subseteq Participants
  /\ result \in {"none", "ok", "refused", "error", "unbridged"}
  /\ inSpace \subseteq Logins /\ rows \subseteq Logins /\ inRoom \in BOOLEAN
  /\ leaving \in {"no", "leave", "forget"}
  /\ looked \subseteq Logins /\ todo \subseteq looked /\ errors \subseteq looked
  /\ left \subseteq looked
  /\ leaves \in 0..MaxLeaves /\ joins \in 0..MaxJoins

SpacesInit ==
  /\ given \in BOOLEAN /\ grantable \in BOOLEAN
  /\ creating = "power" /\ made = FALSE /\ mxroom = "none"
  /\ invitees = Participants /\ invited = {} /\ failed = {} /\ result = "none"
  /\ inSpace = {} /\ rows = {} /\ inRoom = FALSE
  /\ leaving = "no" /\ looked = {} /\ todo = {} /\ errors = {} /\ left = {}
  /\ leaves = 0 /\ joins = 0

(***************************************************************************)
(* CreateGroup.                                                            *)
(***************************************************************************)

(* "Promote the bot before anything exists on Google Chat, so a refusal    *)
(* creates nothing."  A missing name is refused here as well.              *)
EnsureBotPower ==
  /\ creating = "power"
  /\ \/ (grantable \/ ~given) /\ creating' = "create" /\ UNCHANGED result
     \/ given /\ creating' = "done" /\ result' = "refused"
  /\ UNCHANGED <<given, grantable, made, mxroom, invitees, invited, failed,
                 inSpace, rows, inRoom, leaveVars, leaves, joins>>

(* Mutant: the invitations go out before the room is bound. *)
CreateSpaceInvites ==
  /\ creating = "create"
  /\ made' = TRUE
  /\ inSpace' = inSpace \cup {Creator}
  /\ creating' = "invite"
  /\ UNCHANGED <<given, grantable, mxroom, invitees, invited, failed, result, rows,
                 inRoom, leaveVars, leaves, joins>>

CreateSpace ==
  /\ creating = "create"
  /\ made' = TRUE
  /\ inSpace' = inSpace \cup {Creator}
  /\ creating' = IF given THEN "bind" ELSE "invite"
  /\ UNCHANGED <<given, grantable, mxroom, invitees, invited, failed, result, rows,
                 inRoom, leaveVars, leaves, joins>>

(* It fails, or returns no id; the space may exist all the same. *)
CreateSpaceFails ==
  /\ creating = "create"
  /\ \/ made' = TRUE /\ inSpace' = inSpace \cup {Creator}
     \/ UNCHANGED <<made, inSpace>>
  /\ creating' = "done" /\ result' = "error"
  /\ UNCHANGED <<given, grantable, mxroom, invitees, invited, failed, rows, inRoom,
                 leaveVars, leaves, joins>>

(* bindCreatedSpaceRoom: OverwriteOldPortal and DeleteOldRoom replace a    *)
(* room the event stream made in the meantime.                             *)
BindRoom ==
  /\ creating = "bind"
  /\ mxroom' = "given" /\ inRoom' = TRUE
  /\ rows' = rows \cup {Creator}
  /\ creating' = "invite"
  /\ UNCHANGED <<given, grantable, made, invitees, invited, failed, result, inSpace,
                 leaveVars, leaves, joins>>

BindRoomFails ==
  /\ creating = "bind"
  /\ creating' = "done" /\ result' = "unbridged"
  /\ mxroom' \in {mxroom, "given"}
  /\ UNCHANGED <<given, grantable, made, invitees, invited, failed, inSpace,
                 rows, inRoom, leaveVars, leaves, joins>>

(* "Invite one by one so one refused invitee doesn't undo the space." *)
InviteOne(p) ==
  /\ creating = "invite" /\ p \in invitees
  /\ invitees' = invitees \ {p}
  /\ \/ invited' = invited \cup {p} /\ UNCHANGED failed
     \/ failed' = failed \cup {p} /\ invited' \in {invited, invited \cup {p}}
  /\ UNCHANGED <<given, creating, grantable, made, mxroom, result, inSpace, rows,
                 inRoom, leaveVars, leaves, joins>>

(* CreateGroup returns; bridgev2 makes a room if the portal has none. *)
CreateReturns ==
  /\ creating = "invite" /\ invitees = {}
  /\ creating' = "done" /\ result' = "ok"
  /\ mxroom' = IF mxroom = "none" THEN "new" ELSE mxroom
  /\ inRoom' = TRUE /\ rows' = rows \cup {Creator}
  /\ UNCHANGED <<given, grantable, made, invitees, invited, failed, inSpace,
                 leaveVars, leaves, joins>>

(***************************************************************************)
(* The other logins and the event stream.                                  *)
(***************************************************************************)

(* Another login of the user joins the space in Google Chat. *)
JoinElsewhere(l) ==
  /\ creating = "done" /\ made /\ l \notin inSpace
  /\ joins < MaxJoins
  /\ joins' = joins + 1
  /\ inSpace' = inSpace \cup {l}
  /\ UNCHANGED <<createVars, rows, inRoom, leaveVars, leaves>>

(* An event or a chat-list sync of a login in the space: bridgev2 creates  *)
(* a missing room, adds the login's row and brings the user back.          *)
PortalSync(l) ==
  /\ l \in inSpace
  /\ mxroom' = IF mxroom = "none" THEN "new" ELSE mxroom
  /\ rows' = rows \cup {l} /\ inRoom' = TRUE
  /\ UNCHANGED <<given, creating, grantable, made, invitees, invited, failed, result,
                 inSpace, leaveVars, leaves, joins>>

(***************************************************************************)
(* The leave command, confirmed; HandleMatrixDeleteChat does the same.     *)
(***************************************************************************)

(* leavingLogins reads the user_portal rows; none is an answer, not a step. *)
LeaveCommand ==
  /\ creating = "done" /\ mxroom # "none" /\ leaving = "no"
  /\ leaves < MaxLeaves /\ rows # {}
  /\ leaves' = leaves + 1
  /\ leaving' = "leave"
  /\ looked' = rows /\ todo' = rows /\ errors' = {} /\ left' = rows \ inSpace
  /\ UNCHANGED <<createVars, inSpace, rows, inRoom, joins>>

(* leaveLogins: every login is tried, whatever became of the others. *)
LeaveLogin(l) ==
  /\ leaving = "leave" /\ l \in todo
  /\ todo' = todo \ {l}
  /\ \/ inSpace' = inSpace \ {l} /\ left' = left \cup {l} /\ UNCHANGED errors
     \/ /\ errors' = errors \cup {l}
        /\ \/ inSpace' = inSpace \ {l} /\ left' = left \cup {l}
           \/ UNCHANGED <<inSpace, left>>
  /\ UNCHANGED <<createVars, rows, inRoom, leaving, looked, leaves, joins>>

(* Mutant: errors do not keep the user in the room. *)
AllTriedAnyway ==
  /\ leaving = "leave" /\ todo = {}
  /\ leaving' = "forget" /\ todo' = looked
  /\ UNCHANGED <<createVars, inSpace, rows, inRoom, looked, errors, left, leaves, joins>>

(* Mutant: the rows are read once more. *)
AllTriedReadsAgain ==
  /\ leaving = "leave" /\ todo = {}
  /\ leaving' = IF errors = {} THEN "forget" ELSE "no"
  /\ todo' = IF errors = {} THEN rows ELSE {}
  /\ UNCHANGED <<createVars, inSpace, rows, inRoom, looked, errors, left, leaves, joins>>

(* leaveWith goes on only if all succeeded. *)
AllTried ==
  /\ leaving = "leave" /\ todo = {}
  /\ leaving' = IF errors = {} THEN "forget" ELSE "no"
  /\ todo' = IF errors = {} THEN looked ELSE {}
  /\ UNCHANGED <<createVars, inSpace, rows, inRoom, looked, errors, left, leaves, joins>>

(* removeFromPortal deletes the rows one by one; an error ends it. *)
ForgetRow(l) ==
  /\ leaving = "forget" /\ l \in todo
  /\ \/ rows' = rows \ {l} /\ todo' = todo \ {l} /\ UNCHANGED leaving
     \/ leaving' = "no" /\ todo' = {} /\ UNCHANGED rows
  /\ UNCHANGED <<createVars, inSpace, inRoom, looked, errors, left, leaves, joins>>

(* Then the bot removes the user from the room, or fails to. *)
Evict ==
  /\ leaving = "forget" /\ todo = {}
  /\ leaving' = "no"
  /\ inRoom' \in {FALSE, inRoom}
  /\ UNCHANGED <<createVars, inSpace, rows, looked, todo, errors, left, leaves, joins>>

SpacesNext ==
  \/ EnsureBotPower \/ CreateSpace \/ CreateSpaceFails \/ BindRoom \/ BindRoomFails
  \/ \E p \in Participants : InviteOne(p)
  \/ CreateReturns \/ LeaveCommand \/ AllTried \/ Evict
  \/ \E l \in Logins : JoinElsewhere(l) \/ PortalSync(l) \/ LeaveLogin(l) \/ ForgetRow(l)

SpacesSpec == SpacesInit /\ [][SpacesNext]_spacesVars

(***************************************************************************)
(* Properties.                                                             *)
(***************************************************************************)

(* CreateGroup reports what it leaves behind: a refusal for want of power  *)
(* leaves no space; no one is invited to a space before its room is the    *)
(* one the command was given in, for CreateGroup may still fail; and a     *)
(* success means one room, the given one if there is one, although the     *)
(* event stream may have made another in the meantime, and every           *)
(* participant invited or reported as failed.                              *)
CreationInOrder ==
  /\ result = "refused" => ~made
  /\ given /\ invited # {} => mxroom = "given"
  /\ result = "ok" =>
       /\ mxroom = (IF given THEN "given" ELSE "new")
       /\ Participants = invited \cup failed

(* The bot removes the user from the room only after every login the       *)
(* command found has been out of the space, and it forgets no login before *)
(* that: "removes the user from the Matrix room only if all succeeded".    *)
AllHaveLeft ==
  (inRoom /\ ~inRoom') \/ (rows \ rows' # {}) => left = looked
EvictedOnlyIfAllLeft == [][AllHaveLeft]_spacesVars
=============================================================================
