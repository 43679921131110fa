------------------------------- MODULE Sends --------------------------------
(***************************************************************************)
(* Matrix messages on their way to Google Chat, and their echoes on the    *)
(* event stream: HandleMatrixMessage, sendNewTopic and sendThreadedMessage *)
(* of src/pkg/connector/handlematrix.go over the calls of Requests.        *)
(*                                                                         *)
(* A send carries a fresh local_id, which bridgev2 keeps as pending until  *)
(* the row of the message is in the database; the echo comes back on the   *)
(* stream with the same local_id (queueMessagePosted).  bridgev2 drops an  *)
(* echo whose local_id is pending and one whose message id has a row, and  *)
(* bridges every other as a new message.  A copy <<m, n>> is the Google    *)
(* Chat message that attempt n of Matrix message m created.  It is not     *)
(* known whether Google drops a second request with the same local_id, so  *)
(* dedups is either.  The handler and the portal's queue may run at the    *)
(* same time: bridgev2 goes on with the queue when a handler takes long.   *)
(***************************************************************************)
EXTENDS Requests

CONSTANTS MaxDeliveries, \* bound: how often the stream delivers one echo
          MaxCrashes     \* bound on the crashes of the bridge

ASSUME SendsAssumption == MaxDeliveries \in Nat /\ MaxCrashes \in Nat

Messages == Calls \ Idempotent

VARIABLES
  handler,   \* where HandleMatrixMessage and its caller in bridgev2 are
  pending,   \* the local_ids bridgev2 ignores, in memory
  rows,      \* the copies with a row in the database
  copies,    \* the copies that exist on Google Chat
  dedups,    \* Google drops a second request with a known local_id
  delivered, \* how often the echo of a copy was delivered
  echo,      \* the copies whose echo passed the pending check, at most one
  shown,     \* how many Matrix events stand for a copy
  bridged,   \* history: the copies bridged as messages of their own
  crashes

sendVars == <<handler, pending, rows, copies, dedups, delivered, echo, shown,
              bridged, crashes>>
vars == <<requestVars, sendVars>>

Copy == Messages \X Attempts
CopiesOf(m) == {cp \in copies : cp[1] = m}
Busy == {"calling", "storing", "stored"}

TypeOK ==
  /\ RequestsTypeOK
  /\ handler \in [Messages -> Busy \cup {"idle", "success", "error", "crashed"}]
  /\ pending \subseteq Messages
  /\ rows \subseteq copies /\ copies \subseteq Copy
  /\ dedups \in BOOLEAN
  /\ delivered \in [Copy -> 0..MaxDeliveries]
  /\ echo \subseteq copies /\ Cardinality(echo) <= 1
  /\ shown \in [Copy -> 0..2]
  /\ bridged \subseteq rows
  /\ crashes \in 0..MaxCrashes

Init ==
  /\ RequestsInit
  /\ handler = [m \in Messages |-> "idle"]
  /\ pending = {} /\ rows = {} /\ copies = {} /\ echo = {} /\ bridged = {}
  /\ dedups \in BOOLEAN
  /\ delivered = [cp \in Copy |-> 0]
  /\ shown = [cp \in Copy |-> 0]
  /\ crashes = 0

(* An unsupported type, disabled or failed media, a bad portal id, or no   *)
(* connection: HandleMatrixMessage returns before anything is registered.  *)
Refuse(m) ==
  /\ handler[m] = "idle"
  /\ handler' = [handler EXCEPT ![m] = "error"]
  /\ UNCHANGED <<requestVars, pending, rows, copies, dedups, delivered, echo,
                 shown, bridged, crashes>>

(* "Register before the RPC so an echo arriving before send() returns is   *)
(* still ignored."                                                         *)
Send(m) ==
  /\ handler[m] = "idle"
  /\ handler' = [handler EXCEPT ![m] = "calling"]
  /\ pending' = pending \cup {m}
  /\ Begin(m)
  /\ UNCHANGED <<rows, copies, dedups, delivered, echo, shown, bridged, crashes>>

Call(c) == ClientStep(c) /\ UNCHANGED sendVars

(* Google carries out an attempt: a new message, or the one it has. *)
ServerPosts(m, n) ==
  /\ Process(m, n)
  /\ copies' = IF dedups /\ CopiesOf(m) # {} THEN copies ELSE copies \cup {<<m, n>>}
  /\ UNCHANGED <<handler, pending, rows, dedups, delivered, echo, shown, bridged,
                 crashes>>

ServerRejects(m, n) == Reject(m, n) /\ UNCHANGED sendVars

(* The answer names the copy, and bridgev2 writes its row. *)
Answer(m) == {cp \in CopiesOf(m) : dedups \/ cp[2] = sent[m]}

(* Mutant: the local_id is dropped before the row is written. *)
HandlerSucceedsEarly(m) ==
  /\ handler[m] = "calling" /\ pc[m] = "ok"
  /\ handler' = [handler EXCEPT ![m] = "storing"]
  /\ pending' = pending \ {m}
  /\ UNCHANGED <<requestVars, rows, copies, dedups, delivered, echo, shown, bridged,
                 crashes>>

HandlerSucceeds(m) ==
  /\ handler[m] = "calling" /\ pc[m] = "ok"
  /\ handler' = [handler EXCEPT ![m] = "storing"]
  /\ UNCHANGED <<requestVars, pending, rows, copies, dedups, delivered, echo,
                 shown, bridged, crashes>>

RowInserted(m) ==
  /\ handler[m] = "storing"
  /\ handler' = [handler EXCEPT ![m] = "stored"]
  /\ rows' = rows \cup Answer(m)
  /\ shown' = [cp \in Copy |-> IF cp \in Answer(m) THEN shown[cp] + 1 ELSE shown[cp]]
  /\ UNCHANGED <<requestVars, pending, copies, dedups, delivered, echo, bridged,
                 crashes>>

PendingRemoved(m) ==
  /\ handler[m] = "stored"
  /\ handler' = [handler EXCEPT ![m] = "success"]
  /\ pending' = pending \ {m}
  /\ UNCHANGED <<requestVars, rows, copies, dedups, delivered, echo, shown,
                 bridged, crashes>>

(* Mutant: removePending is forgotten. *)
HandlerFailsKeeps(m) ==
  /\ handler[m] = "calling" /\ pc[m] = "failed"
  /\ handler' = [handler EXCEPT ![m] = "error"]
  /\ UNCHANGED <<requestVars, pending, rows, copies, dedups, delivered, echo, shown,
                 bridged, crashes>>

(* removePending, and the error goes to the sender. *)
HandlerFails(m) ==
  /\ handler[m] = "calling" /\ pc[m] = "failed"
  /\ handler' = [handler EXCEPT ![m] = "error"]
  /\ pending' = pending \ {m}
  /\ UNCHANGED <<requestVars, rows, copies, dedups, delivered, echo, shown,
                 bridged, crashes>>

HandlerStep(m) ==
  HandlerSucceeds(m) \/ RowInserted(m) \/ PendingRemoved(m) \/ HandlerFails(m)

(* The echo of a copy reaches the portal's queue; a pending local_id ends it. *)
EchoArrives(cp) ==
  /\ echo = {} /\ delivered[cp] < MaxDeliveries
  /\ delivered' = [delivered EXCEPT ![cp] = @ + 1]
  /\ echo' = {cp} \ {e \in {cp} : e[1] \in pending}
  /\ UNCHANGED <<requestVars, handler, pending, rows, copies, dedups, shown,
                 bridged, crashes>>

(* It is bridged as a message of the own user unless its id has a row. *)
EchoHandled(cp) ==
  /\ cp \in echo
  /\ echo' = {}
  /\ \/ cp \in rows /\ UNCHANGED <<rows, shown, bridged>>
     \/ /\ cp \notin rows
        /\ rows' = rows \cup {cp}
        /\ shown' = [shown EXCEPT ![cp] = @ + 1]
        /\ bridged' = bridged \cup {cp}
  /\ UNCHANGED <<requestVars, handler, pending, copies, dedups, delivered, crashes>>

(* The process dies: what was in memory is gone, requests on the wire stay. *)
Crash ==
  /\ crashes < MaxCrashes
  /\ crashes' = crashes + 1
  /\ pending' = {} /\ echo' = {}
  /\ handler' = [m \in Messages |-> IF handler[m] \in Busy THEN "crashed" ELSE handler[m]]
  /\ pc' = [c \in Calls |-> IF pc[c] \in InProgress THEN "failed" ELSE pc[c]]
  /\ UNCHANGED <<round, tries, sent, wire, done, reply, seen, rows, copies, dedups,
                 delivered, shown, bridged>>

Next ==
  \/ Crash
  \/ \E m \in Messages :
       \/ Refuse(m) \/ Send(m) \/ Call(m) \/ HandlerStep(m)
       \/ \E n \in wire[m] : ServerPosts(m, n) \/ ServerRejects(m, n)
  \/ \E cp \in copies : EchoArrives(cp) \/ EchoHandled(cp)

Spec == Init /\ [][Next]_vars

(* The HTTP client has a timeout and the other steps do not block: a        *)
(* handler that can take a step takes one.  Nothing is assumed of Google.   *)
Fairness == \A m \in Messages : WF_vars(Call(m)) /\ WF_vars(HandlerStep(m))

FairSpec == Spec /\ Fairness

(***************************************************************************)
(* Properties.                                                             *)
(***************************************************************************)

(* No Google Chat message is shown twice in Matrix, however the echo, the   *)
(* answer, the row and a crash interleave: handlematrix.go registers before *)
(* the call, and the pending entry goes only once the row is there.  If     *)
(* Google drops a repeated local_id, a message whose sender was told of     *)
(* success is not bridged back as a message of its own either.              *)
ShownOnce ==
  /\ \A cp \in copies : shown[cp] <= 1
  /\ dedups => \A m \in Messages :
       handler[m] = "success" => CopiesOf(m) \cap bridged = {}

(* More than one copy of a message exists only if an attempt that the       *)
(* server carried out went unanswered and Google does not drop the repeat.  *)
CopiesAreExplained ==
  \A m \in Messages :
    /\ Cardinality(CopiesOf(m)) <=
         1 + Cardinality({n \in done[m] : n < sent[m] /\ seen[m][n] = "none"})
    /\ dedups => Cardinality(CopiesOf(m)) <= 1

(* A local_id is ignored only while the handler that registered it runs:    *)
(* an entry left behind would swallow the echo of a send whose answer was   *)
(* lost, and the message would be in no room.                               *)
PendingHasOwner == \A m \in pending : handler[m] \in Busy

(* Every send ends: the sender is told of success or of an error.           *)
SendsEnd == \A m \in Messages :
  handler[m] \in Busy ~> handler[m] \in {"success", "error", "crashed"}
=============================================================================
