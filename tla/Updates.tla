------------------------------ MODULE Updates -------------------------------
(***************************************************************************)
(* One bridged text message that is edited, reacted to and deleted from    *)
(* both sides.  Matrix changes go out through handleedit.go,               *)
(* handlereaction.go and handleredact.go of src/pkg/connector as calls of  *)
(* Rpc (all idempotent, so Requests may repeat them); Google Chat's        *)
(* changes and the echoes of the own ones come in through events.go.       *)
(*                                                                         *)
(* The events of the message form a log.  The live stream walks through    *)
(* it; after a reconnect the stream goes on at the end while a catchUp     *)
(* drain replays an older stretch from a goroutine of its own, so the two  *)
(* interleave.  The portal handles one thing at a time: an event waits     *)
(* until a Matrix handler has returned.  What bridgev2 does with rows      *)
(* (drop an event without a target, a reaction it has, a message it has)   *)
(* is as src/ relies on it.                                                *)
(***************************************************************************)
EXTENDS Rpc, Sequences, FiniteSets

CONSTANTS MaxLog,       \* bound on the events of the message
          MaxReconnects \* bound on the reconnects of the stream

ASSUME UpdatesAssumption ==
  MaxIssues \in Nat /\ MaxLog \in Nat \ {0} /\ MaxReconnects \in Nat

VARIABLES
  does,    \* what a Matrix call changes
  gone,    \* Google Chat: the message was deleted
  text,    \* the time of the last edit that left it a text, 0 for the text it
           \* was posted with
  reacted, \* the own user's reaction is on it
  log,     \* the events, in order
  answer,  \* the last_edit_time of each answer the server gave to a call
  pos,     \* log[1..pos] passed through the live stream
  drain,   \* the indices of log a drain still has to replay
  row,     \* Matrix: the message has a row in the database
  lastEdit, \* MessageMetadata.LastEditTime of the row
  shown,   \* the edit whose text the Matrix room shows
  unsent,  \* the room shows a Matrix edit that was reported as failed
  reactRow, \* the reaction has a row
  returned, \* the calls whose handler has returned
  reconnects,
  raced    \* history: a live event was handled while a drain was replaying

googleVars == <<gone, text, reacted, log>>
streamVars == <<pos, drain, reconnects>>
matrixVars == <<row, lastEdit, shown, unsent, reactRow>>
vars == <<rpcVars, does, googleVars, answer, streamVars, matrixVars, returned, raced>>

Changes == {"edit", "react", "unreact", "delete"}
Kinds == {"posted", "edited", "emptied", "reacted", "unreacted", "deleted"}
Event(k, t) == [kind |-> k, time |-> t]
Idle == \A c \in Calls : state[c] = "idle" \/ c \in returned

TypeOK ==
  /\ RpcTypeOK
  /\ does \in [Calls -> Changes \cup {"none"}]
  /\ gone \in BOOLEAN /\ reacted \in BOOLEAN /\ text \in 0..MaxLog
  /\ log \in Seq([kind : Kinds, time : 0..MaxLog]) /\ Len(log) \in 1..MaxLog
  /\ answer \in [Calls -> SUBSET (0..MaxLog)]
  /\ pos \in 1..Len(log)
  /\ drain \in Seq(1..Len(log)) /\ Len(drain) <= MaxLog
  /\ row \in BOOLEAN /\ reactRow \in BOOLEAN /\ unsent \in BOOLEAN
  /\ lastEdit \in 0..text /\ shown \in 0..text
  /\ returned \subseteq Calls
  /\ reconnects \in 0..MaxReconnects
  /\ raced \in BOOLEAN

Init ==
  /\ RpcInit
  /\ does = [c \in Calls |-> "none"]
  /\ gone = FALSE /\ text = 0 /\ reacted = FALSE
  /\ log = <<Event("posted", 0)>>
  /\ answer = [c \in Calls |-> {}]
  /\ pos = 1 /\ drain = <<>> /\ reconnects = 0
  /\ row = TRUE /\ lastEdit = 0 /\ shown = 0 /\ unsent = FALSE /\ reactRow = FALSE
  /\ returned = {}
  /\ raced = FALSE

(***************************************************************************)
(* Google Chat, for its own users and for the bridge's requests.           *)
(***************************************************************************)
Edited ==
  /\ text' = Len(log)
  /\ log' = Append(log, Event("edited", Len(log)))
  /\ UNCHANGED <<gone, reacted>>

(* Its user takes all the text away and leaves, say, the attachment. *)
Emptied ==
  /\ log' = Append(log, Event("emptied", Len(log)))
  /\ UNCHANGED <<gone, text, reacted>>

(* A reaction that is there already, or is not, makes no event. *)
Reacted(on) ==
  /\ reacted' = on
  /\ log' = IF reacted = on THEN log
            ELSE Append(log, Event(IF on THEN "reacted" ELSE "unreacted", 0))
  /\ UNCHANGED <<gone, text>>

Deleted ==
  /\ gone' = TRUE
  /\ log' = Append(log, Event("deleted", 0))
  /\ UNCHANGED <<text, reacted>>

Open == ~gone /\ Len(log) < MaxLog

GoogleChange ==
  /\ Open
  /\ Edited \/ Emptied \/ Reacted(~reacted) \/ Deleted
  /\ UNCHANGED <<rpcVars, does, answer, streamVars, matrixVars, returned, raced>>

ServerPerforms(c) ==
  /\ Open
  /\ Perform(c)
  /\ \/ does[c] = "edit" /\ Edited
     \/ does[c] \in {"react", "unreact"} /\ Reacted(does[c] = "react")
     \/ does[c] = "delete" /\ Deleted
  /\ answer' = [answer EXCEPT ![c] = IF does[c] = "edit" THEN @ \cup {text'} ELSE @]
  /\ UNCHANGED <<does, streamVars, matrixVars, returned, raced>>

ServerRefuses(c) ==
  Refuse(c) /\ UNCHANGED <<does, googleVars, answer, streamVars, matrixVars, returned, raced>>

(***************************************************************************)
(* Matrix handlers.                                                        *)
(***************************************************************************)

(* bridgev2 finds the row the change is about.  A relayed user may touch   *)
(* only what the own account recorded as his, an edit must be text.        *)
HandleMatrix(c, change) ==
  /\ Idle /\ row
  /\ change = "react" => ~reactRow
  /\ change = "unreact" => reactRow
  /\ Invoke(c)
  /\ does' = [does EXCEPT ![c] = change]
  /\ unsent' = (unsent \/ change = "edit")
  /\ UNCHANGED <<googleVars, answer, streamVars, row, lastEdit, shown, reactRow,
                 returned, raced>>

RpcStep(c) ==
  /\ Issue(c) \/ Succeed(c) \/ Fail(c)
  /\ UNCHANGED <<does, googleVars, answer, streamVars, matrixVars, returned, raced>>

Return(c) == c \notin returned /\ returned' = returned \cup {c}

(* Mutant: the handler stores the bridge's own clock, which runs ahead. *)
EditSentOwnTime(c) ==
  /\ does[c] = "edit" /\ state[c] = "ok" /\ Return(c)
  /\ \E t \in answer[c] : shown' = t /\ lastEdit' = t + 1
  /\ unsent' = FALSE
  /\ UNCHANGED <<rpcVars, does, googleVars, answer, streamVars, row, reactRow, raced>>

(* "On success it records the server's last_edit_time so the inbound echo  *)
(* dedups."                                                                *)
EditSent(c) ==
  /\ does[c] = "edit" /\ state[c] = "ok" /\ Return(c)
  /\ lastEdit' \in answer[c] /\ shown' = lastEdit' /\ unsent' = FALSE
  /\ UNCHANGED <<rpcVars, does, googleVars, answer, streamVars, row, reactRow, raced>>

ReactionSent(c) ==
  /\ does[c] \in {"react", "unreact"} /\ state[c] = "ok" /\ Return(c)
  /\ reactRow' = (does[c] = "react")
  /\ UNCHANGED <<rpcVars, does, googleVars, answer, streamVars, row, lastEdit, shown,
                 unsent, raced>>

DeleteSent(c) ==
  /\ does[c] = "delete" /\ state[c] = "ok" /\ Return(c)
  /\ row' = FALSE /\ reactRow' = FALSE
  /\ UNCHANGED <<rpcVars, does, googleVars, answer, streamVars, lastEdit, shown, unsent,
                 raced>>

(* The handler returns the error; nothing was stored. *)
NotSent(c) ==
  /\ state[c] = "failed" /\ Return(c)
  /\ UNCHANGED <<rpcVars, does, googleVars, answer, streamVars, matrixVars, raced>>

(***************************************************************************)
(* Events from Google Chat.                                                *)
(***************************************************************************)

(* convertMessageToMatrix, unless the id has a row. *)
MessagePosted(e) ==
  /\ e.kind = "posted"
  /\ row' = TRUE
  /\ lastEdit' = IF row THEN lastEdit ELSE 0
  /\ shown' = IF row THEN shown ELSE 0
  /\ unsent' = (unsent /\ row)
  /\ UNCHANGED reactRow

(* Mutant: every edit that comes in is shown. *)
MessageEditedAlways(e) ==
  /\ e.kind \in {"edited", "emptied"}
  /\ IF row /\ e.kind = "edited"
     THEN lastEdit' = e.time /\ shown' = e.time /\ unsent' = FALSE
     ELSE UNCHANGED <<lastEdit, shown, unsent>>
  /\ UNCHANGED <<row, reactRow>>

(* convertEditToMatrix: a duplicate or stale edit is ignored, and so is     *)
(* one that removed all text, which leaves LastEditTime as it was.         *)
MessageEdited(e) ==
  /\ e.kind \in {"edited", "emptied"}
  /\ IF row /\ lastEdit < e.time /\ e.kind = "edited"
     THEN lastEdit' = e.time /\ shown' = e.time /\ unsent' = FALSE
     ELSE UNCHANGED <<lastEdit, shown, unsent>>
  /\ UNCHANGED <<row, reactRow>>

(* Mutant: ReactionRemove is not told from an added reaction. *)
MessageReactionAdds(e) ==
  /\ e.kind \in {"reacted", "unreacted"}
  /\ reactRow' = row
  /\ UNCHANGED <<row, lastEdit, shown, unsent>>

MessageReaction(e) ==
  /\ e.kind \in {"reacted", "unreacted"}
  /\ reactRow' = (row /\ e.kind = "reacted")
  /\ UNCHANGED <<row, lastEdit, shown, unsent>>

MessageDeleted(e) ==
  /\ e.kind = "deleted"
  /\ row' = FALSE /\ reactRow' = FALSE
  /\ UNCHANGED <<lastEdit, shown, unsent>>

Handle(e) == MessagePosted(e) \/ MessageEdited(e) \/ MessageReaction(e) \/ MessageDeleted(e)

LiveEvent ==
  /\ Idle /\ pos < Len(log)
  /\ pos' = pos + 1
  /\ Handle(log[pos + 1])
  /\ raced' = (raced \/ drain # <<>>)
  /\ UNCHANGED <<rpcVars, does, googleVars, answer, drain, reconnects, returned>>

DrainedEvent ==
  /\ Idle /\ drain # <<>>
  /\ drain' = Tail(drain)
  /\ Handle(log[Head(drain)])
  /\ UNCHANGED <<rpcVars, does, googleVars, answer, pos, reconnects, returned, raced>>

(* Mutant: the drain runs past the end of what happened. *)
ReconnectOffByOne ==
  /\ reconnects < MaxReconnects /\ drain = <<>>
  /\ reconnects' = reconnects + 1
  /\ \E i \in 1..(pos + 1) : drain' = [j \in 1..(Len(log) + 1 - i) |-> i + j]
  /\ pos' = Len(log)
  /\ UNCHANGED <<rpcVars, does, googleVars, answer, matrixVars, returned, raced>>

(* The stream goes on with what comes next; catch_up_user returned what    *)
(* happened since some event that was not missed.                          *)
Reconnect ==
  /\ reconnects < MaxReconnects /\ drain = <<>>
  /\ reconnects' = reconnects + 1
  /\ \E i \in 1..(pos + 1) : drain' = [j \in 1..(Len(log) + 1 - i) |-> i + j - 1]
  /\ pos' = Len(log)
  /\ UNCHANGED <<rpcVars, does, googleVars, answer, matrixVars, returned, raced>>

Next ==
  \/ GoogleChange \/ LiveEvent \/ DrainedEvent \/ Reconnect
  \/ \E c \in Calls :
       \/ \E change \in Changes : HandleMatrix(c, change)
       \/ RpcStep(c) \/ ServerPerforms(c) \/ ServerRefuses(c)
       \/ EditSent(c) \/ ReactionSent(c) \/ DeleteSent(c) \/ NotSent(c)

Spec == Init /\ [][Next]_vars

(***************************************************************************)
(* Properties.                                                             *)
(***************************************************************************)

Settled ==
  /\ Idle /\ pos = Len(log) /\ drain = <<>>
  /\ \A c \in Calls : outstanding[c] = 0

(* While the message is in the room, its text never goes back to an older  *)
(* edit, whatever is redelivered and however a drain, the live stream and  *)
(* Matrix edits interleave: the purpose of LastEditTime.                   *)
EditsGoForward == [][row /\ row' => shown <= shown']_vars

(* When every event has passed, the room shows the last text the message   *)
(* had on Google Chat, unless its sender was told that the edit in the     *)
(* room failed.  It is not always the text Google Chat shows: an edit that *)
(* takes all text away is ignored (msgconv_adapter.go, "The edit removed   *)
(* all text; ignore it."), so the old text stays in the room until an edit *)
(* brings a new one, and nothing between the two may keep that one out.    *)
EditsConverge == Settled /\ row /\ ~gone /\ ~unsent => shown = text

(* When every event has passed, the reaction and the message are in the    *)
(* room exactly if they are on Google Chat, provided that no live event    *)
(* was handled between the events a drain replays: reactions and deletions *)
(* carry nothing like LastEditTime.                                        *)
OtherChangesConverge ==
  Settled /\ ~raced => row = ~gone /\ (row => reactRow = reacted)
=============================================================================
