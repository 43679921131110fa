-------------------------------- MODULE Rpc ---------------------------------
(***************************************************************************)
(* What an API call promises its caller, with no word on statuses, tokens  *)
(* or retries: src/pkg/gchatmeow/session.go and api.go seen from the       *)
(* handlers of src/pkg/connector.  The request may reach the server more   *)
(* than once, and after the caller has given up on it; success is reported *)
(* only if the server carried the request out at least once, and failure   *)
(* says nothing of what the server did.  Requests implements this module,  *)
(* and Updates is built on it.                                             *)
(***************************************************************************)
EXTENDS Naturals

CONSTANTS Calls,    \* the API calls the bridge makes
          MaxIssues \* how many requests one call may put on the wire

VARIABLES state,       \* "idle", "calling", "ok" or "failed"
          outstanding, \* requests that are on the wire
          issued,      \* requests put on the wire so far
          performed    \* how often the server carried the request out

rpcVars == <<state, outstanding, issued, performed>>

RpcTypeOK ==
  /\ state \in [Calls -> {"idle", "calling", "ok", "failed"}]
  /\ outstanding \in [Calls -> 0..MaxIssues]
  /\ issued \in [Calls -> 0..MaxIssues]
  /\ performed \in [Calls -> 0..MaxIssues]

RpcInit ==
  /\ state = [c \in Calls |-> "idle"]
  /\ outstanding = [c \in Calls |-> 0]
  /\ issued = [c \in Calls |-> 0]
  /\ performed = [c \in Calls |-> 0]

Invoke(c) ==
  /\ state[c] = "idle"
  /\ state' = [state EXCEPT ![c] = "calling"]
  /\ UNCHANGED <<outstanding, issued, performed>>

Issue(c) ==
  /\ state[c] = "calling" /\ issued[c] < MaxIssues
  /\ issued' = [issued EXCEPT ![c] = @ + 1]
  /\ outstanding' = [outstanding EXCEPT ![c] = @ + 1]
  /\ UNCHANGED <<state, performed>>

Perform(c) ==
  /\ outstanding[c] > 0
  /\ outstanding' = [outstanding EXCEPT ![c] = @ - 1]
  /\ performed' = [performed EXCEPT ![c] = @ + 1]
  /\ UNCHANGED <<state, issued>>

(* The server turns a request down. *)
Refuse(c) ==
  /\ outstanding[c] > 0
  /\ outstanding' = [outstanding EXCEPT ![c] = @ - 1]
  /\ UNCHANGED <<state, issued, performed>>

Succeed(c) ==
  /\ state[c] = "calling" /\ performed[c] > 0
  /\ state' = [state EXCEPT ![c] = "ok"]
  /\ UNCHANGED <<outstanding, issued, performed>>

Fail(c) ==
  /\ state[c] = "calling"
  /\ state' = [state EXCEPT ![c] = "failed"]
  /\ UNCHANGED <<outstanding, issued, performed>>

(* The bridge stops: every call in progress is abandoned. *)
Abandon ==
  /\ state' = [c \in Calls |-> IF state[c] = "calling" THEN "failed" ELSE state[c]]
  /\ UNCHANGED <<outstanding, issued, performed>>

RpcNext ==
  \/ Abandon
  \/ \E c \in Calls :
       Invoke(c) \/ Issue(c) \/ Perform(c) \/ Refuse(c) \/ Succeed(c) \/ Fail(c)

RpcSpec == RpcInit /\ [][RpcNext]_rpcVars
=============================================================================
