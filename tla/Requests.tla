------------------------------ MODULE Requests ------------------------------
(***************************************************************************)
(* One API call after another over HTTP: the retry loop of Session.fetch   *)
(* in src/pkg/gchatmeow/session.go and the one repetition with a fresh     *)
(* XSRF token of doRequestWithPolicy in src/pkg/gchatmeow/api.go.          *)
(*                                                                         *)
(* A call makes up to MaxRetries attempts, twice over if the server says   *)
(* 401.  The attempts of call c are numbered 1..sent[c].  An attempt stays *)
(* on the wire until the server takes it, which may be after the client    *)
(* gave up on it: the client sees a timeout, the server sees a request.    *)
(* Whether the server carries out a request is unknown to a client that    *)
(* reads no answer, or a 5xx.  The length of the waits is left out.        *)
(***************************************************************************)
EXTENDS Naturals, Sequences, FiniteSets

CONSTANTS Calls,      \* the API calls the bridge makes
          Idempotent, \* those made by doRequest; the rest by doRequestNonIdempotent
          MaxRetries  \* maxRetries: the attempts of one fetch

ASSUME RequestsAssumption ==
  /\ Idempotent \subseteq Calls
  /\ MaxRetries \in Nat \ {0}

VARIABLES
  pc,    \* where the goroutine of the call is
  round, \* 1, and 2 once the token was refreshed after a 401
  tries, \* the attempts begun in this round
  sent,  \* the attempts begun in all
  wire,  \* the attempts the server has not taken yet
  done,  \* the attempts the server carried out
  reply, \* the status line the server gave to the attempt in progress
  seen   \* history: what the client read of each attempt, "none" for nothing

requestVars == <<pc, round, tries, sent, wire, done, reply, seen>>

Statuses == {"200", "401", "429", "4xx", "5xx"}
InProgress == {"loop", "await", "refresh"}
Attempts == 1..(2 * MaxRetries)

RequestsTypeOK ==
  /\ pc \in [Calls -> InProgress \cup {"idle", "ok", "failed"}]
  /\ round \in [Calls -> 1..2]
  /\ tries \in [Calls -> 0..MaxRetries]
  /\ sent \in [Calls -> 0..(2 * MaxRetries)]
  /\ wire \in [Calls -> SUBSET Attempts]
  /\ done \in [Calls -> SUBSET Attempts]
  /\ reply \in [Calls -> Statuses \cup {"none"}]
  /\ seen \in [Calls -> [Attempts -> Statuses \cup {"none"}]]

RequestsInit ==
  /\ pc = [c \in Calls |-> "idle"]
  /\ round = [c \in Calls |-> 1]
  /\ tries = [c \in Calls |-> 0]
  /\ sent = [c \in Calls |-> 0]
  /\ wire = [c \in Calls |-> {}]
  /\ done = [c \in Calls |-> {}]
  /\ reply = [c \in Calls |-> "none"]
  /\ seen = [c \in Calls |-> [n \in Attempts |-> "none"]]

(***************************************************************************)
(* The client.                                                             *)
(***************************************************************************)

(* Session.fetch is entered. *)
Begin(c) ==
  /\ pc[c] = "idle"
  /\ pc' = [pc EXCEPT ![c] = "loop"]
  /\ UNCHANGED <<round, tries, sent, wire, done, reply, seen>>

(* An iteration of the loop hands a request to the HTTP client. *)
Attempt(c) ==
  /\ pc[c] = "loop"
  /\ tries[c] < MaxRetries
  /\ pc' = [pc EXCEPT ![c] = "await"]
  /\ tries' = [tries EXCEPT ![c] = @ + 1]
  /\ sent' = [sent EXCEPT ![c] = @ + 1]
  /\ wire' = [wire EXCEPT ![c] = @ \cup {sent[c] + 1}]
  /\ reply' = [reply EXCEPT ![c] = "none"]
  /\ UNCHANGED <<round, done, seen>>

(* The last attempt brought no verdict, the request cannot be built, or the *)
(* context is done before or during the wait.                               *)
GiveUp(c) ==
  /\ pc[c] = "loop"
  /\ pc' = [pc EXCEPT ![c] = "failed"]
  /\ UNCHANGED <<round, tries, sent, wire, done, reply, seen>>

(* Mutant: a client without a timeout. *)
TransportErrorAnswered(c) ==
  /\ pc[c] = "await" /\ reply[c] # "none"
  /\ pc' = [pc EXCEPT ![c] = "loop"]
  /\ UNCHANGED <<round, tries, sent, wire, done, reply, seen>>

(* Do fails, a timeout included, or the body of the answer cannot be read. *)
TransportError(c) ==
  /\ pc[c] = "await"
  /\ pc' = [pc EXCEPT ![c] = "loop"]
  /\ UNCHANGED <<round, tries, sent, wire, done, reply, seen>>

(* The client reads the answer s and goes to the state next. *)
Answered(c, s, next) ==
  /\ pc[c] = "await" /\ reply[c] = s
  /\ seen' = [seen EXCEPT ![c][sent[c]] = s]
  /\ pc' = [pc EXCEPT ![c] = next]
  /\ UNCHANGED <<round, tries, sent, wire, done, reply>>

(* A 200 whose body decodes, or does not: that is an error, not a retry. *)
AnswerOK(c) == Answered(c, "200", "ok")
AnswerUndecodableRetried(c) == Answered(c, "200", "loop")
AnswerUndecodable(c) == Answered(c, "200", "failed")

(* "Rejected, not processed: safe to repeat regardless of idempotency." *)
AnswerTooMany(c) == Answered(c, "429", "loop")

AnswerServerErrorRetried(c) == Answered(c, "5xx", "loop")

AnswerServerError(c) ==
  Answered(c, "5xx", IF c \in Idempotent THEN "loop" ELSE "failed")

AnswerOtherStatusAccepted(c) == Answered(c, "4xx", "ok")
AnswerOtherStatus(c) == Answered(c, "4xx", "failed")

(* doRequestWithPolicy repeats the call once, with a new token. *)
AnswerUnauthorized(c) ==
  Answered(c, "401", IF round[c] = 1 THEN "refresh" ELSE "failed")

(* Mutant: the round is not counted. *)
RefreshKeepsRound(c) ==
  /\ pc[c] = "refresh"
  /\ pc' = [pc EXCEPT ![c] = "loop"]
  /\ tries' = [tries EXCEPT ![c] = 0]
  /\ UNCHANGED <<round, sent, wire, done, reply, seen>>

RefreshOK(c) ==
  /\ pc[c] = "refresh"
  /\ pc' = [pc EXCEPT ![c] = "loop"]
  /\ round' = [round EXCEPT ![c] = 2]
  /\ tries' = [tries EXCEPT ![c] = 0]
  /\ UNCHANGED <<sent, wire, done, reply, seen>>

(* The caller gets the original 401. *)
RefreshFails(c) ==
  /\ pc[c] = "refresh"
  /\ pc' = [pc EXCEPT ![c] = "failed"]
  /\ UNCHANGED <<round, tries, sent, wire, done, reply, seen>>

ClientStep(c) ==
  \/ Attempt(c) \/ GiveUp(c) \/ TransportError(c)
  \/ AnswerOK(c) \/ AnswerUndecodable(c) \/ AnswerTooMany(c)
  \/ AnswerServerError(c) \/ AnswerOtherStatus(c) \/ AnswerUnauthorized(c)
  \/ RefreshOK(c) \/ RefreshFails(c)

(***************************************************************************)
(* The server, which the repository does not contain.                      *)
(***************************************************************************)

(* The answer to attempt n, if the client still waits for that one. *)
AnswerWith(c, n, s) ==
  reply' = IF pc[c] = "await" /\ n = sent[c] THEN [reply EXCEPT ![c] = s] ELSE reply

(* The server carries out an attempt; a 5xx may follow all the same. *)
Process(c, n) ==
  /\ n \in wire[c]
  /\ wire' = [wire EXCEPT ![c] = @ \ {n}]
  /\ done' = [done EXCEPT ![c] = @ \cup {n}]
  /\ \E s \in {"200", "5xx"} : AnswerWith(c, n, s)
  /\ UNCHANGED <<pc, round, tries, sent, seen>>

(* The server turns an attempt down without having carried it out. *)
Reject(c, n) ==
  /\ n \in wire[c]
  /\ wire' = [wire EXCEPT ![c] = @ \ {n}]
  /\ \E s \in Statuses \ {"200"} : AnswerWith(c, n, s)
  /\ UNCHANGED <<pc, round, tries, sent, done, seen>>

ServerStep(c, n) == Process(c, n) \/ Reject(c, n)

RequestsNext ==
  \E c \in Calls :
    \/ Begin(c) \/ ClientStep(c)
    \/ \E n \in wire[c] : ServerStep(c, n)

RequestsSpec == RequestsInit /\ [][RequestsNext]_requestVars

(***************************************************************************)
(* Properties.                                                             *)
(***************************************************************************)

Promise == INSTANCE Rpc WITH
  MaxIssues <- 2 * MaxRetries,
  state <- [c \in Calls |-> IF pc[c] \in InProgress THEN "calling" ELSE pc[c]],
  outstanding <- [c \in Calls |-> Cardinality(wire[c])],
  issued <- sent,
  performed <- [c \in Calls |-> Cardinality(done[c])]

(* The retry loop and the repetition after a 401 implement Rpc: no handler  *)
(* is told of success unless Google carried its request out, and no call   *)
(* puts more than twice maxRetries requests on the wire.                   *)
CallPromise == Promise!RpcSpec

(* Once the client has read an answer of the server that carried out an    *)
(* attempt of a call that creates something, it makes no further attempt:  *)
(* in particular not after a 5xx, which may follow a send that took place. *)
(* src/pkg/gchatmeow/api.go, CreateTopic: "retrying after a 5xx could post *)
(* the message twice".                                                     *)
AnsweredIsLast ==
  \A c \in Calls \ Idempotent : \A n \in done[c] :
    seen[c][n] # "none" => n = sent[c]
=============================================================================
