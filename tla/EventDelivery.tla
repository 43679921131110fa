---------------------------- MODULE EventDelivery ----------------------------
(***************************************************************************)
(* What the bridge promises about the revision watermark of a login, with  *)
(* no word on streams, drains or goroutines.  Google numbers the events of *)
(* a user 1, 2, 3, ... (the user_revision); event e carries NBodies[e]     *)
(* bodies that are handled one by one.  The watermark kept in the database *)
(* only ever moves forward, and only to the revision of an event of which  *)
(* a body was handled: docs/ARCHITECTURE.md, "The watermark only advances  *)
(* after an event is queued successfully".                                 *)
(***************************************************************************)
EXTENDS Naturals

CONSTANTS MaxPosted, \* bound on the length of the log
          NBodies    \* NBodies[e] is the number of bodies of event e

VARIABLES posted,  \* events 1..posted exist on Google's side
          handled, \* the bodies <<e, b>> handled with success
          mark     \* the watermark in the database

vars == <<posted, handled, mark>>

Init == posted = 0 /\ handled = {} /\ mark = 0

(* Google appends an event to the user's log. *)
Post ==
  /\ posted < MaxPosted
  /\ posted' = posted + 1
  /\ UNCHANGED <<handled, mark>>

(* A body is handled; the watermark may move up to its event. *)
Handle(e, b) ==
  /\ e \in 1..posted /\ b \in 1..NBodies[e]
  /\ handled' = handled \cup {<<e, b>>}
  /\ mark' = mark \/ (mark < e /\ mark' = e)
  /\ UNCHANGED posted

(* A watermark that was held in memory only reaches the database. *)
Persist(e, b) ==
  /\ <<e, b>> \in handled
  /\ mark < e
  /\ mark' = e
  /\ UNCHANGED <<posted, handled>>

Next ==
  \/ Post
  \/ \E e \in 1..posted : \E b \in 1..NBodies[e] : Handle(e, b) \/ Persist(e, b)

Spec == Init /\ [][Next]_vars
=============================================================================
