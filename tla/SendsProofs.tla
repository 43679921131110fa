----------------------------- MODULE SendsProofs -----------------------------
(***************************************************************************)
(* Proofs about Requests and Sends, for any calls, any retry limit and any *)
(* number of echoes and crashes.                                           *)
(*                                                                         *)
(* The requests: RInv numbers the attempts and says which of them can      *)
(* still change something; a refinement step for each action of Requests   *)
(* follows from it.  The sends: SInv ties pending, the rows and the copies *)
(* to where the handler stands.                                            *)
(***************************************************************************)
EXTENDS Sends, FiniteSetTheorems, TLAPS

(* The attempts are numbered in order; the limit is that of one round, and *)
(* of two after the token was refreshed.                                   *)
CountOK(c) ==
  /\ round[c] = 1 => sent[c] = tries[c]
  /\ round[c] = 2 => sent[c] <= MaxRetries + tries[c]
  /\ pc[c] = "refresh" => round[c] = 1
  /\ pc[c] = "await" => sent[c] > 0

(* An attempt is on the wire or was carried out, not both; a status says   *)
(* what the server did.                                                    *)
WireOK(c) ==
  /\ \A n \in wire[c] \cup done[c] : n <= sent[c]
  /\ wire[c] \cap done[c] = {}
  /\ pc[c] = "idle" => done[c] = {} /\ wire[c] = {}
  /\ pc[c] = "ok" => sent[c] \in done[c]
  /\ pc[c] = "await" /\ reply[c] # "none" => sent[c] \notin wire[c]
  /\ pc[c] = "await" /\ reply[c] = "200" => sent[c] \in done[c]
  /\ pc[c] = "await" /\ reply[c] \in {"401", "429", "4xx"} => sent[c] \notin done[c]

(* What was read of an attempt: nothing of one that is on the wire; and    *)
(* while a call that creates something goes on, nothing of one that the    *)
(* server carried out.                                                     *)
SeenOK(c) ==
  /\ \A n \in wire[c] : seen[c][n] = "none"
  /\ \A n \in Attempts : n > sent[c] => seen[c][n] = "none"
  /\ pc[c] = "await" => seen[c][sent[c]] = "none"
  /\ c \notin Idempotent => \A n \in done[c] :
       seen[c][n] # "none" => n = sent[c] /\ pc[c] \notin InProgress

RInv == RequestsTypeOK /\ \A c \in Calls : CountOK(c) /\ WireOK(c) /\ SeenOK(c)

RequestStep(c) == Begin(c) \/ ClientStep(c) \/ \E n \in wire[c] : ServerStep(c, n)

(* An action on c leaves every other call alone.                           *)
Others(c) ==
  \A d \in Calls \ {c} :
    /\ pc'[d] = pc[d] /\ round'[d] = round[d] /\ tries'[d] = tries[d]
    /\ sent'[d] = sent[d] /\ wire'[d] = wire[d] /\ done'[d] = done[d]
    /\ reply'[d] = reply[d] /\ seen'[d] = seen[d]

LEMMA TypeStep ==
  ASSUME RInv, NEW c \in Calls, RequestStep(c)
  PROVE  RequestsTypeOK' /\ Others(c)
  <1> USE RequestsAssumption DEF RInv, RequestsTypeOK, Others, InProgress, Statuses, Attempts,
     CountOK
  <1>1. CASE Begin(c)
    BY <1>1 DEF Begin
  <1>2. CASE Attempt(c)
    <2>1. sent[c] + 1 \in Attempts /\ tries[c] + 1 \in 0..MaxRetries
      <3>1. tries[c] < MaxRetries /\ tries[c] \in Nat /\ sent[c] \in Nat /\ round[c] \in {1, 2}
        BY <1>2 DEF Attempt
      <3>2. round[c] = 1 => sent[c] = tries[c]
        BY DEF CountOK
      <3>3. round[c] = 2 => sent[c] <= MaxRetries + tries[c]
        BY DEF CountOK
      <3>4. MaxRetries \in Nat
        OBVIOUS
      <3> QED
        BY ONLY <3>1, <3>2, <3>3, <3>4 DEF Attempts
    <2>2. wire' \in [Calls -> SUBSET Attempts]
      BY <1>2, <2>1 DEF Attempt
    <2> QED
      BY <1>2, <2>1, <2>2 DEF Attempt
  <1>3. CASE GiveUp(c) \/ TransportError(c) \/ RefreshFails(c)
    BY <1>3 DEF GiveUp, TransportError, RefreshFails
  <1>7. CASE RefreshOK(c)
    BY <1>7 DEF RefreshOK
  <1>4. ASSUME NEW s \in Statuses,
               NEW next \in {"ok", "failed", "loop", "refresh"}, Answered(c, s, next)
        PROVE  RequestsTypeOK' /\ Others(c)
    BY <1>4 DEF Answered
  <1>5. ASSUME NEW n \in wire[c], ServerStep(c, n)
        PROVE  RequestsTypeOK' /\ Others(c)
    <2>1. wire' \in [Calls -> SUBSET Attempts] /\ done' \in [Calls -> SUBSET Attempts]
          /\ \A d \in Calls \ {c} : wire'[d] = wire[d] /\ done'[d] = done[d]
      <3>1. wire' = [wire EXCEPT ![c] = @ \ {n}]
            /\ (done' = [done EXCEPT ![c] = @ \cup {n}] \/ done' = done)
        BY ONLY <1>5 DEF ServerStep, Process, Reject
      <3>2. n \in Attempts /\ wire \in [Calls -> SUBSET Attempts]
            /\ done \in [Calls -> SUBSET Attempts]
        BY ONLY RInv, n \in wire[c], c \in Calls DEF RInv, RequestsTypeOK
      <3> QED
        BY ONLY <3>1, <3>2
    <2>2. reply' \in [Calls -> Statuses \cup {"none"}]
          /\ \A d \in Calls \ {c} : reply'[d] = reply[d]
      <3>1. PICK s \in Statuses : AnswerWith(c, n, s)
        <4>1. CASE Process(c, n)
          <5>1. PICK s \in {"200", "5xx"} : AnswerWith(c, n, s)
            BY ONLY <4>1 DEF Process
          <5> QED
            BY <5>1 DEF Statuses
        <4>2. CASE Reject(c, n)
          BY <4>2 DEF Reject
        <4> QED
          BY <1>5, <4>1, <4>2 DEF ServerStep
      <3> QED
        <4>1. CASE pc[c] = "await" /\ n = sent[c]
          <5>1. reply' = [reply EXCEPT ![c] = s]
            BY <3>1, <4>1 DEF AnswerWith
          <5>2. s \in Statuses \cup {"none"} /\ reply \in [Calls -> Statuses \cup {"none"}]
            OBVIOUS
          <5> QED
            BY ONLY <5>1, <5>2
        <4>2. CASE ~(pc[c] = "await" /\ n = sent[c])
          BY <3>1, <4>2 DEF AnswerWith
        <4> QED
          BY <4>1, <4>2
    <2>3. UNCHANGED <<pc, round, tries, sent, seen>>
      BY <1>5 DEF ServerStep, Process, Reject
    <2> QED
      BY <2>1, <2>2, <2>3
  <1>6. CASE AnswerOK(c) \/ AnswerUndecodable(c) \/ AnswerTooMany(c) \/ AnswerServerError(c)
             \/ AnswerOtherStatus(c) \/ AnswerUnauthorized(c)
    BY <1>4, <1>6 DEF AnswerOK, AnswerUndecodable, AnswerTooMany, AnswerServerError,
       AnswerOtherStatus, AnswerUnauthorized
  <1> QED
    BY <1>1, <1>2, <1>3, <1>5, <1>6, <1>7 DEF RequestStep, ClientStep

LEMMA CountStep ==
  ASSUME RInv, NEW c \in Calls, RequestStep(c)
  PROVE  CountOK(c)'
  <1> USE RequestsAssumption DEF RInv, RequestsTypeOK, InProgress, Statuses, Attempts, CountOK
  <1>1. CASE Begin(c)
    BY <1>1 DEF Begin
  <1>2. CASE Attempt(c)
    BY <1>2 DEF Attempt
  <1>3. CASE GiveUp(c) \/ TransportError(c) \/ RefreshOK(c) \/ RefreshFails(c)
    BY <1>3 DEF GiveUp, TransportError, RefreshOK, RefreshFails
  <1>4. ASSUME NEW s \in Statuses,
               NEW next \in {"ok", "failed", "loop", "refresh"}, Answered(c, s, next),
               next = "refresh" => round[c] = 1
        PROVE  CountOK(c)'
    BY <1>4 DEF Answered
  <1>5. ASSUME NEW n \in wire[c], ServerStep(c, n)
        PROVE  CountOK(c)'
    BY <1>5 DEF ServerStep, Process, Reject
  <1>6. CASE AnswerOK(c) \/ AnswerUndecodable(c) \/ AnswerTooMany(c) \/ AnswerServerError(c)
             \/ AnswerOtherStatus(c) \/ AnswerUnauthorized(c)
    BY <1>4, <1>6 DEF AnswerOK, AnswerUndecodable, AnswerTooMany, AnswerServerError,
       AnswerOtherStatus, AnswerUnauthorized
  <1> QED
    BY <1>1, <1>2, <1>3, <1>5, <1>6 DEF RequestStep, ClientStep

LEMMA WireStep ==
  ASSUME RInv, NEW c \in Calls, RequestStep(c)
  PROVE  WireOK(c)'
  <1> USE RequestsAssumption DEF RInv, RequestsTypeOK, InProgress, Statuses, Attempts, WireOK
  <1>1. CASE Begin(c)
    BY <1>1 DEF Begin
  <1>2. CASE Attempt(c)
    BY <1>2 DEF Attempt
  <1>3. CASE GiveUp(c) \/ TransportError(c) \/ RefreshOK(c) \/ RefreshFails(c)
    BY <1>3 DEF GiveUp, TransportError, RefreshOK, RefreshFails
  <1>4. ASSUME NEW s \in Statuses,
               NEW next \in {"ok", "failed", "loop", "refresh"}, Answered(c, s, next),
               next = "ok" => s = "200"
        PROVE  WireOK(c)'
    BY <1>4 DEF Answered
  <1>5. ASSUME NEW n \in wire[c], Process(c, n)
        PROVE  WireOK(c)'
    <2>1. PICK s \in {"200", "5xx"} : AnswerWith(c, n, s)
      BY <1>5 DEF Process
    <2>2. reply'[c] = IF pc[c] = "await" /\ n = sent[c] THEN s ELSE reply[c]
      BY <2>1 DEF AnswerWith
    <2>3. pc' = pc /\ sent' = sent /\ wire'[c] = wire[c] \ {n} /\ done'[c] = done[c] \cup {n}
      BY <1>5 DEF Process
    <2>4. pc[c] # "idle"
      OBVIOUS
    <2> QED
      BY <2>2, <2>3, <2>4
  <1>6. ASSUME NEW n \in wire[c], Reject(c, n)
        PROVE  WireOK(c)'
    BY <1>6 DEF Reject, AnswerWith
  <1>7. CASE AnswerOK(c) \/ AnswerUndecodable(c) \/ AnswerTooMany(c) \/ AnswerServerError(c)
             \/ AnswerOtherStatus(c) \/ AnswerUnauthorized(c)
    BY <1>4, <1>7 DEF AnswerOK, AnswerUndecodable, AnswerTooMany, AnswerServerError,
       AnswerOtherStatus, AnswerUnauthorized
  <1> QED
    BY <1>1, <1>2, <1>3, <1>5, <1>6, <1>7 DEF RequestStep, ClientStep, ServerStep

LEMMA SeenStep ==
  ASSUME RInv, NEW c \in Calls, RequestStep(c)
  PROVE  SeenOK(c)'
  <1> USE RequestsAssumption DEF RInv, RequestsTypeOK, InProgress, Statuses, Attempts, CountOK,
     WireOK, SeenOK
  <1>1. CASE Begin(c)
    BY <1>1 DEF Begin
  <1>2. CASE Attempt(c)
    <2>1. sent'[c] = sent[c] + 1 /\ wire'[c] = wire[c] \cup {sent[c] + 1} /\ done' = done
          /\ seen' = seen /\ pc[c] = "loop" /\ pc'[c] = "await"
      BY <1>2 DEF Attempt
    <2>2. sent[c] \in Nat /\ sent[c] + 1 \in Attempts
      BY <2>1, TypeStep
    <2>3. \A n \in wire[c] \cup done[c] : n \in Attempts
      OBVIOUS
    <2>4. \A n \in Attempts : n > sent[c] => seen[c][n] = "none"
      BY DEF SeenOK
    <2>5. seen[c][sent[c] + 1] = "none"
      BY <2>2, <2>4
    <2>6. \A n \in Attempts : n \in Nat
      BY DEF Attempts
    <2>7. c \notin Idempotent => \A n \in done[c] : seen[c][n] = "none"
      BY <2>1
    <2> QED
      BY <2>1, <2>2, <2>4, <2>5, <2>6, <2>7
  <1>3. CASE GiveUp(c) \/ TransportError(c) \/ RefreshOK(c) \/ RefreshFails(c)
    BY <1>3 DEF GiveUp, TransportError, RefreshOK, RefreshFails
  <1>4. ASSUME NEW s \in Statuses,
               NEW next \in {"ok", "failed", "loop", "refresh"}, Answered(c, s, next),
               c \notin Idempotent /\ next \in {"loop", "refresh"} => s \in {"401", "429"}
        PROVE  SeenOK(c)'
    BY <1>4 DEF Answered
  <1>5. ASSUME NEW n \in wire[c], ServerStep(c, n)
        PROVE  SeenOK(c)'
    BY <1>5 DEF ServerStep, Process, Reject
  <1>6. CASE AnswerOK(c) \/ AnswerUndecodable(c) \/ AnswerTooMany(c) \/ AnswerServerError(c)
             \/ AnswerOtherStatus(c) \/ AnswerUnauthorized(c)
    BY <1>4, <1>6 DEF AnswerOK, AnswerUndecodable, AnswerTooMany, AnswerServerError,
       AnswerOtherStatus, AnswerUnauthorized
  <1> QED
    BY <1>1, <1>2, <1>3, <1>5, <1>6 DEF RequestStep, ClientStep

LEMMA RequestInv ==
  ASSUME RInv, NEW c \in Calls, RequestStep(c)
  PROVE  RInv'
  <1>1. \A d \in Calls \ {c} : CountOK(d)' /\ WireOK(d)' /\ SeenOK(d)'
    BY TypeStep DEF RInv, Others, CountOK, WireOK, SeenOK
  <1> QED
    BY <1>1, TypeStep, CountStep, WireStep, SeenStep DEF RInv

LEMMA RequestInitInv == RequestsInit => RInv
  BY RequestsAssumption DEF RequestsInit, RInv, RequestsTypeOK, CountOK, WireOK, SeenOK,
     InProgress, Statuses, Attempts

(* A restart abandons the calls that were in progress.                     *)
Abandoned ==
  /\ pc' = [c \in Calls |-> IF pc[c] \in InProgress THEN "failed" ELSE pc[c]]
  /\ UNCHANGED <<round, tries, sent, wire, done, reply, seen>>

LEMMA AbandonedInv ==
  ASSUME RInv, Abandoned
  PROVE  RInv'
  BY DEF RInv, Abandoned, RequestsTypeOK, CountOK, WireOK, SeenOK, InProgress, Attempts

(***************************************************************************)
(* Requests implements Rpc.                                                *)
(***************************************************************************)
LEMMA Sizes ==
  ASSUME RInv, NEW c \in Calls
  PROVE  /\ IsFiniteSet(wire[c]) /\ Cardinality(wire[c]) \in Nat
         /\ IsFiniteSet(done[c]) /\ Cardinality(done[c]) \in Nat
         /\ Cardinality(wire[c]) = 0 <=> wire[c] = {}
         /\ Cardinality(done[c]) = 0 <=> done[c] = {}
  <1>1. wire[c] \subseteq Attempts /\ done[c] \subseteq Attempts
    BY DEF RInv, RequestsTypeOK
  <1>2. IsFiniteSet(Attempts)
    BY FS_Interval, RequestsAssumption DEF Attempts
  <1> QED
    BY <1>1, <1>2, FS_Subset, FS_CardinalityType, FS_EmptySet

(* Sizes of families of sets of which one set gains or loses an element.   *)
LEMMA OneMore ==
  ASSUME NEW v, NEW w, NEW c \in Calls, NEW x, x \notin v[c], IsFiniteSet(v[c]),
         w[c] = v[c] \cup {x}, \A d \in Calls \ {c} : w[d] = v[d]
  PROVE  [d \in Calls |-> Cardinality(w[d])]
           = [[d \in Calls |-> Cardinality(v[d])] EXCEPT ![c] = @ + 1]
  <1>1. Cardinality(w[c]) = Cardinality(v[c]) + 1
    BY FS_AddElement, ZenonT(30)
  <1> QED
    BY <1>1

LEMMA OneLess ==
  ASSUME NEW v, NEW w, NEW c \in Calls, NEW x, x \in v[c], IsFiniteSet(v[c]),
         w[c] = v[c] \ {x}, \A d \in Calls \ {c} : w[d] = v[d]
  PROVE  [d \in Calls |-> Cardinality(w[d])]
           = [[d \in Calls |-> Cardinality(v[d])] EXCEPT ![c] = @ - 1]
  <1>1. Cardinality(w[c]) = Cardinality(v[c]) - 1
    BY FS_RemoveElement
  <1> QED
    BY <1>1

LEMMA NonEmpty ==
  ASSUME NEW S, NEW x, x \in S, IsFiniteSet(S)
  PROVE  Cardinality(S) > 0
  <1>1. Cardinality(S) \in Nat /\ Cardinality(S) # 0
    BY FS_CardinalityType, FS_EmptySet
  <1> QED
    BY <1>1

LEMMA Refines ==
  ASSUME RInv, NEW c \in Calls, RequestStep(c)
  PROVE  [Promise!RpcNext]_(Promise!rpcVars)
  <1>0. Others(c)
    BY TypeStep
  <1>1. CASE Begin(c)
    <2>1. Promise!Invoke(c)
      BY <1>1 DEF Begin, Promise!Invoke, RInv, RequestsTypeOK, InProgress
    <2> QED
      BY <2>1 DEF Promise!RpcNext
  <1>2. CASE Attempt(c)
    <2>1. sent[c] + 1 \notin wire[c] /\ sent[c] + 1 \in Attempts
      BY <1>2, RequestInv, TypeStep DEF Attempt, RInv, RequestsTypeOK, WireOK, Attempts
    <2>2. wire'[c] = wire[c] \cup {sent[c] + 1} /\ \A d \in Calls \ {c} : wire'[d] = wire[d]
      BY <1>0, <1>2 DEF Attempt, RInv, RequestsTypeOK, Others
    <2>3. [d \in Calls |-> Cardinality(wire'[d])]
            = [[d \in Calls |-> Cardinality(wire[d])] EXCEPT ![c] = @ + 1]
      BY <2>1, <2>2, Sizes, OneMore, SMTT(30)
    <2>4. sent[c] < 2 * MaxRetries
      BY <2>1, RequestsAssumption DEF Attempts, RInv, RequestsTypeOK
    <2>5. Promise!Issue(c)
      BY <1>2, <2>3, <2>4 DEF Attempt, Promise!Issue, RInv, RequestsTypeOK, InProgress
    <2> QED
      BY <2>5 DEF Promise!RpcNext
  <1>3. CASE GiveUp(c) \/ RefreshFails(c)
    <2>1. Promise!Fail(c)
      BY <1>3 DEF GiveUp, RefreshFails, Promise!Fail, RInv, RequestsTypeOK, InProgress
    <2> QED
      BY <2>1 DEF Promise!RpcNext
  <1>4. CASE TransportError(c) \/ RefreshOK(c)
    BY <1>4 DEF TransportError, RefreshOK, Promise!rpcVars, RInv, RequestsTypeOK, InProgress
  <1>5. ASSUME NEW s \in Statuses, Answered(c, s, "ok"), s = "200"
        PROVE  Promise!Succeed(c)
    <2>1. Cardinality(done[c]) > 0
      BY <1>5, Sizes DEF Answered, RInv, WireOK
    <2> QED
      BY <1>5, <2>1 DEF Answered, Promise!Succeed, RInv, RequestsTypeOK, InProgress
  <1>6. ASSUME NEW s \in Statuses, Answered(c, s, "failed")
        PROVE  Promise!Fail(c)
    BY <1>6 DEF Answered, Promise!Fail, RInv, RequestsTypeOK, InProgress
  <1>7. ASSUME NEW s \in Statuses, NEW next \in {"loop", "refresh"}, Answered(c, s, next)
        PROVE  UNCHANGED Promise!rpcVars
    BY <1>7 DEF Answered, Promise!rpcVars, RInv, RequestsTypeOK, InProgress
  <1>8. CASE AnswerOK(c) \/ AnswerUndecodable(c) \/ AnswerTooMany(c) \/ AnswerServerError(c)
             \/ AnswerOtherStatus(c) \/ AnswerUnauthorized(c)
    <2>1. Promise!Succeed(c) \/ Promise!Fail(c) \/ UNCHANGED Promise!rpcVars
      BY <1>5, <1>6, <1>7, <1>8 DEF AnswerOK, AnswerUndecodable, AnswerTooMany,
         AnswerServerError, AnswerOtherStatus, AnswerUnauthorized, Statuses
    <2> QED
      BY <2>1 DEF Promise!RpcNext
  <1>9. ASSUME NEW n \in wire[c], Process(c, n)
        PROVE  Promise!Perform(c)
    <2>1. n \notin done[c]
      BY DEF RInv, WireOK
    <2>2. /\ wire'[c] = wire[c] \ {n} /\ \A d \in Calls \ {c} : wire'[d] = wire[d]
          /\ done'[c] = done[c] \cup {n} /\ \A d \in Calls \ {c} : done'[d] = done[d]
      BY <1>0, <1>9 DEF Process, RInv, RequestsTypeOK, Others
    <2>3. /\ Cardinality(wire[c]) > 0
          /\ [d \in Calls |-> Cardinality(wire'[d])]
                = [[d \in Calls |-> Cardinality(wire[d])] EXCEPT ![c] = @ - 1]
      <3>1. IsFiniteSet(wire[c])
        BY Sizes
      <3>2. Cardinality(wire[c]) > 0
        BY <3>1, NonEmpty
      <3> QED
        BY ONLY <2>2, <3>1, <3>2, n \in wire[c], c \in Calls, OneLess
    <2>4. [d \in Calls |-> Cardinality(done'[d])]
            = [[d \in Calls |-> Cardinality(done[d])] EXCEPT ![c] = @ + 1]
      BY <2>1, <2>2, Sizes, OneMore
    <2>5. pc' = pc /\ sent' = sent
      BY <1>9 DEF Process
    <2> QED
      BY <2>3, <2>4, <2>5 DEF Promise!Perform
  <1>10. ASSUME NEW n \in wire[c], Reject(c, n)
        PROVE  Promise!Refuse(c)
    <2>1. wire'[c] = wire[c] \ {n} /\ \A d \in Calls \ {c} : wire'[d] = wire[d]
      BY <1>0, <1>10 DEF Reject, RInv, RequestsTypeOK, Others
    <2>2. /\ Cardinality(wire[c]) > 0
          /\ [d \in Calls |-> Cardinality(wire'[d])]
                = [[d \in Calls |-> Cardinality(wire[d])] EXCEPT ![c] = @ - 1]
      <3>1. IsFiniteSet(wire[c])
        BY Sizes
      <3>2. Cardinality(wire[c]) > 0
        BY <3>1, NonEmpty
      <3> QED
        BY ONLY <2>1, <3>1, <3>2, n \in wire[c], c \in Calls, OneLess, SMTT(30)
    <2>3. pc' = pc /\ sent' = sent /\ done' = done
      BY <1>10 DEF Reject
    <2> QED
      BY <2>2, <2>3 DEF Promise!Refuse
  <1> QED
    BY <1>1, <1>2, <1>3, <1>4, <1>8, <1>9, <1>10
       DEF RequestStep, ClientStep, ServerStep, Promise!RpcNext

LEMMA AbandonedRefines ==
  ASSUME RInv, Abandoned
  PROVE  Promise!Abandon
  BY DEF Abandoned, Promise!Abandon, RInv, RequestsTypeOK, InProgress

LEMMA InitRefines == RequestsInit => Promise!RpcInit
  BY FS_EmptySet DEF RequestsInit, Promise!RpcInit, InProgress

(***************************************************************************)
(* Sends.                                                                  *)
(***************************************************************************)

(* A local_id is pending exactly while its handler is busy, and the call   *)
(* of a handler that stores its row has succeeded.                         *)
HandlerOK(m) ==
  /\ handler[m] \in Busy <=> m \in pending
  /\ handler[m] = "idle" => pc[m] = "idle"
  /\ handler[m] \in {"storing", "stored", "success"} => pc[m] = "ok"

(* The copies are those of attempts that were carried out; one at most if  *)
(* Google drops the others.                                                *)
CopiesOK ==
  /\ \A cp \in copies : cp[2] \in done[cp[1]]
  /\ \A m \in Messages : done[m] # {} => \E cp \in copies : cp[1] = m
  /\ dedups => \A cp, cq \in copies : cp[1] = cq[1] => cp = cq

(* A row stands for one Matrix event.  None is written before the handler  *)
(* or after it for a copy the handler wrote, since an echo that passed the *)
(* check has no handler.                                                   *)
RowsOK ==
  /\ \A cp \in Copy : shown[cp] = IF cp \in rows THEN 1 ELSE 0
  /\ \A cp \in echo : cp[1] \notin pending
  /\ \A cp \in rows : handler[cp[1]] \notin {"idle", "calling", "storing"}
  /\ dedups => \A cp \in copies :
       handler[cp[1]] \in {"stored", "success"} => cp \in rows /\ cp \notin bridged

SInv == RInv /\ TypeOK /\ (\A m \in Messages : HandlerOK(m)) /\ CopiesOK /\ RowsOK

LEMMA InitSInv ==
  ASSUME Init
  PROVE  SInv
  <1>1. RInv
    BY RequestInitInv DEF Init
  <1>2. 0 \in 0..MaxDeliveries /\ 0 \in 0..MaxCrashes
    BY SendsAssumption
  <1>3. Cardinality(echo) <= 1
    BY FS_EmptySet DEF Init
  <1>4. TypeOK
    BY <1>1, <1>2, <1>3 DEF Init, TypeOK, RInv
  <1>5. \A m \in Messages : HandlerOK(m)
    BY DEF Init, HandlerOK, RequestsInit, Busy, Messages
  <1>6. CopiesOK /\ RowsOK
    BY DEF Init, CopiesOK, RowsOK, RequestsInit, Messages
  <1> QED
    BY <1>1, <1>4, <1>5, <1>6 DEF SInv

(* What a step of the client or of the server changes of a call.           *)
LEMMA ClientFacts ==
  ASSUME RInv, NEW c \in Calls, ClientStep(c)
  PROVE  RInv' /\ Others(c) /\ pc[c] \in InProgress /\ done' = done
  <1>1. RInv' /\ Others(c)
    BY RequestInv, TypeStep DEF RequestStep
  <1>2. pc[c] \in InProgress /\ done' = done
    BY DEF ClientStep, Attempt, GiveUp, TransportError, RefreshOK, RefreshFails, AnswerOK,
       AnswerUndecodable, AnswerTooMany, AnswerServerError, AnswerOtherStatus,
       AnswerUnauthorized, Answered, InProgress
  <1> QED
    BY <1>1, <1>2

LEMMA ServerFacts ==
  ASSUME RInv, NEW c \in Calls, NEW n \in wire[c], ServerStep(c, n)
  PROVE  /\ RInv' /\ Others(c) /\ pc' = pc /\ n \in Attempts
         /\ Process(c, n) => done'[c] = done[c] \cup {n}
         /\ Reject(c, n) => done' = done
  <1>1. RInv' /\ Others(c)
    BY RequestInv, TypeStep DEF RequestStep
  <1>2. pc' = pc
    BY DEF ServerStep, Process, Reject
  <1>3. n \in Attempts
    BY DEF RInv, RequestsTypeOK
  <1>4. Process(c, n) => done'[c] = done[c] \cup {n}
    BY DEF Process, RInv, RequestsTypeOK
  <1>5. Reject(c, n) => done' = done
    BY DEF Reject
  <1> QED
    BY <1>1, <1>2, <1>3, <1>4, <1>5

LEMMA BeginFacts ==
  ASSUME RInv, NEW c \in Calls, Begin(c)
  PROVE  RInv' /\ Others(c) /\ pc[c] = "idle" /\ done' = done
  <1>1. RInv' /\ Others(c)
    BY RequestInv, TypeStep DEF RequestStep
  <1> QED
    BY <1>1 DEF Begin

LEMMA SilentInv ==
  ASSUME RInv, UNCHANGED requestVars
  PROVE  RInv'
  BY DEF RInv, requestVars, RequestsTypeOK, CountOK, WireOK, SeenOK

LEMMA MessagesAreCalls == Messages \subseteq Calls
  BY DEF Messages

(* The send begins.                                                        *)
LEMMA SendStep ==
  ASSUME SInv, NEW m \in Messages, Send(m)
  PROVE  SInv'
  <1> USE DEF SInv
  <1>1. RInv' /\ Others(m) /\ pc[m] = "idle" /\ done' = done
    BY BeginFacts, MessagesAreCalls DEF Send
  <1>2. TypeOK'
    BY <1>1 DEF Send, TypeOK, RInv, Busy
  <1>3. \A d \in Messages : HandlerOK(d)'
    BY <1>1, MessagesAreCalls DEF Send, HandlerOK, Others, Busy, TypeOK
  <1>4. CopiesOK'
    BY <1>1 DEF Send, CopiesOK
  <1>5. \A cp \in copies : cp[1] # m
    BY <1>1, MessagesAreCalls DEF CopiesOK, RInv, WireOK
  <1>6. handler' = [handler EXCEPT ![m] = "calling"] /\ handler \in [Messages -> Busy \cup {"idle", "success", "error", "crashed"}]
        /\ pending' = pending \cup {m} /\ UNCHANGED <<shown, rows, echo, copies, dedups, bridged>>
    BY DEF Send, TypeOK
  <1>8. rows \subseteq copies /\ echo \subseteq copies /\ \A cp \in copies : cp[1] \in Messages
    BY DEF TypeOK, Copy
  <1>7. RowsOK'
    BY <1>5, <1>6, <1>8 DEF RowsOK
  <1> QED
    BY <1>1, <1>2, <1>3, <1>4, <1>7

(* The client and the server go on with a call.                            *)
LEMMA CallStep ==
  ASSUME SInv, NEW m \in Messages, Call(m) \/ \E n \in wire[m] : ServerRejects(m, n)
  PROVE  SInv'
  <1> USE MessagesAreCalls DEF SInv
  <1>1. RInv' /\ Others(m) /\ done' = done /\ (pc[m] \in InProgress \/ pc' = pc)
    BY ClientFacts, ServerFacts DEF Call, ServerRejects, ServerStep
  <1>2. UNCHANGED sendVars
    BY DEF Call, ServerRejects
  <1>3. TypeOK'
    BY <1>1, <1>2 DEF TypeOK, RInv, sendVars
  <1>4. \A d \in Messages : HandlerOK(d)'
    BY <1>1, <1>2 DEF HandlerOK, Others, sendVars, InProgress
  <1>5. CopiesOK' /\ RowsOK'
    BY <1>1, <1>2 DEF CopiesOK, RowsOK, sendVars
  <1> QED
    BY <1>1, <1>3, <1>4, <1>5

(* A request becomes a message on Google Chat.                             *)
LEMMA PostStep ==
  ASSUME SInv, NEW m \in Messages, NEW n \in wire[m], ServerPosts(m, n)
  PROVE  SInv'
  <1> USE MessagesAreCalls DEF SInv
  <1>1. RInv' /\ Others(m) /\ pc' = pc /\ n \in Attempts /\ done'[m] = done[m] \cup {n}
    BY ServerFacts DEF ServerPosts, ServerStep
  <1>2. UNCHANGED <<handler, pending, rows, dedups, delivered, echo, shown, bridged, crashes>>
    BY DEF ServerPosts
  <1>3. IF dedups /\ (\E cp \in copies : cp[1] = m) THEN copies' = copies
        ELSE copies' = copies \cup {<<m, n>>}
    BY DEF ServerPosts, CopiesOf
  <1>4. TypeOK'
    BY <1>1, <1>2, <1>3 DEF TypeOK, RInv, Copy
  <1>5. \A d \in Messages : HandlerOK(d)'
    BY <1>1, <1>2 DEF HandlerOK
  <1>6. \A cp \in copies : cp[1] \in Messages
    BY DEF TypeOK, Copy
  <1>7. CopiesOK'
    <2>1. copies \subseteq copies' /\ copies' \subseteq copies \cup {<<m, n>>}
      BY <1>3
    <2>2. \A d \in Messages \ {m} : done'[d] = done[d]
      BY <1>1 DEF Others
    <2>3. n \in done'[m] /\ done[m] \subseteq done'[m]
      BY <1>1
    <2>4. \A cp \in copies' : cp[2] \in done'[cp[1]]
      <3> TAKE cp \in copies'
      <3>1. CASE cp = <<m, n>>
        BY <2>3, <3>1
      <3>2. CASE cp \in copies
        BY <1>6, <2>2, <2>3, <3>2 DEF CopiesOK
      <3> QED
        BY <2>1, <3>1, <3>2
    <2>5. \E cp \in copies' : cp[1] = m
      <3>1. <<m, n>>[1] = m
        OBVIOUS
      <3>2. CASE dedups /\ \E cp \in copies : cp[1] = m
        BY <1>3, <3>2
      <3>3. CASE ~(dedups /\ \E cp \in copies : cp[1] = m)
        <4>1. <<m, n>> \in copies'
          BY <1>3, <3>3
        <4> QED
          BY <3>1, <4>1
      <3> QED
        BY <3>2, <3>3
    <2>6. \A d \in Messages : done'[d] # {} => \E cp \in copies' : cp[1] = d
      BY <2>1, <2>2, <2>5 DEF CopiesOK
    <2>7. dedups' => \A cp, cq \in copies' : cp[1] = cq[1] => cp = cq
      BY <1>2, <1>3 DEF CopiesOK
    <2> QED
      BY <2>4, <2>6, <2>7 DEF CopiesOK
  <1>8. handler[m] \in {"stored", "success"} => done[m] # {}
    BY DEF HandlerOK, RInv, WireOK
  <1>9. dedups /\ copies' # copies => handler[m] \notin {"stored", "success"}
    BY <1>3, <1>8 DEF CopiesOK
  <1>10. RowsOK'
    BY <1>2, <1>3, <1>9 DEF RowsOK
  <1> QED
    BY <1>1, <1>4, <1>5, <1>7, <1>10

(* The handler and its caller, after the call or instead of it.            *)
LEMMA HandlerStepInv ==
  ASSUME SInv, NEW m \in Messages, Refuse(m) \/ HandlerStep(m)
  PROVE  SInv'
  <1> USE MessagesAreCalls DEF SInv
  <1>1. UNCHANGED <<requestVars, copies, dedups, delivered, echo, bridged, crashes>>
    BY DEF Refuse, HandlerStep, HandlerSucceeds, RowInserted, PendingRemoved, HandlerFails
  <1>2. RInv' /\ UNCHANGED <<pc, done>>
    BY <1>1, SilentInv DEF requestVars
  <1>3. CopiesOK'
    BY <1>1, <1>2 DEF CopiesOK
  <1>4. \A cp \in copies : cp[1] \in Messages /\ cp \in Copy
    BY DEF TypeOK, Copy
  <1>5. CASE Refuse(m) \/ HandlerSucceeds(m) \/ PendingRemoved(m) \/ HandlerFails(m)
    <2>1. TypeOK'
      BY <1>1, <1>2, <1>5 DEF TypeOK, RInv, Refuse, HandlerSucceeds, PendingRemoved, HandlerFails,
         Busy
    <2>2. \A d \in Messages : HandlerOK(d)'
      BY <1>2, <1>5 DEF TypeOK, HandlerOK, Refuse, HandlerSucceeds, PendingRemoved, HandlerFails,
         Busy
    <2>3. RowsOK'
      BY <1>1, <1>4, <1>5 DEF TypeOK, RowsOK, Refuse, HandlerSucceeds, PendingRemoved,
         HandlerFails, Busy
    <2> QED
      BY <1>2, <1>3, <2>1, <2>2, <2>3
  <1>6. CASE RowInserted(m)
    <2>1. handler[m] = "storing" /\ handler' = [handler EXCEPT ![m] = "stored"]
          /\ rows' = rows \cup Answer(m) /\ pending' = pending
          /\ shown' = [cp \in Copy |-> IF cp \in Answer(m) THEN shown[cp] + 1 ELSE shown[cp]]
      BY <1>6 DEF RowInserted
    <2>2. Answer(m) \subseteq copies /\ \A cp \in Answer(m) : cp[1] = m
      BY DEF Answer, CopiesOf
    <2>3. dedups => \A cp \in copies : cp[1] = m => cp \in Answer(m)
      BY DEF Answer, CopiesOf
    <2>4. \A cp \in rows : cp[1] # m
      BY <2>1 DEF RowsOK
    <2>5. rows \subseteq copies /\ bridged \subseteq rows
      BY DEF TypeOK
    <2>6. \A cp \in Copy : shown'[cp] = IF cp \in rows' THEN 1 ELSE 0
      BY <2>1, <2>2, <2>4 DEF RowsOK
    <2>7. TypeOK'
      <3>1. shown' \in [Copy -> 0..2]
        BY <2>1, <2>6
      <3> QED
        BY <1>1, <1>2, <2>1, <2>2, <3>1 DEF TypeOK, RInv, Busy
    <2>8. \A d \in Messages : HandlerOK(d)'
      BY <1>2, <2>1 DEF TypeOK, HandlerOK, Busy
    <2>9. RowsOK'
      <3>1. \A d \in Messages : handler'[d] = IF d = m THEN "stored" ELSE handler[d]
        BY <2>1 DEF TypeOK
      <3> QED
        BY <1>1, <1>4, <2>1, <2>2, <2>3, <2>4, <2>5, <2>6, <3>1 DEF RowsOK
    <2> QED
      BY <1>2, <1>3, <2>7, <2>8, <2>9
  <1> QED
    BY <1>5, <1>6 DEF HandlerStep

(* The echo passes the check, or not, and is bridged, or not.              *)
LEMMA EchoStep ==
  ASSUME SInv, NEW cp \in copies, EchoArrives(cp) \/ EchoHandled(cp)
  PROVE  SInv'
  <1> USE MessagesAreCalls DEF SInv
  <1>1. UNCHANGED <<requestVars, handler, pending, copies, dedups, crashes>>
    BY DEF EchoArrives, EchoHandled
  <1>2. RInv' /\ UNCHANGED <<pc, done>>
    BY <1>1, SilentInv DEF requestVars
  <1>3. CopiesOK' /\ \A m \in Messages : HandlerOK(m)'
    BY <1>1, <1>2 DEF CopiesOK, HandlerOK
  <1>4. cp \in Copy /\ cp[1] \in Messages
    BY DEF TypeOK, Copy
  <1>5. CASE EchoArrives(cp)
    <2>1. echo' = {cp} \ {e \in {cp} : e[1] \in pending} /\ UNCHANGED <<rows, shown, bridged>>
          /\ delivered' = [delivered EXCEPT ![cp] = @ + 1] /\ delivered[cp] < MaxDeliveries
      BY <1>5 DEF EchoArrives
    <2>2. echo' \subseteq {cp} /\ \A e \in echo' : e[1] \notin pending
      BY <2>1
    <2>3. Cardinality(echo') <= 1
      <3>1. IsFiniteSet({cp}) /\ Cardinality({cp}) = 1 /\ echo' \in SUBSET {cp}
        BY <2>2, FS_Singleton
      <3> QED
        BY <3>1, FS_Subset
    <2>4. delivered' \in [Copy -> 0..MaxDeliveries]
      BY <2>1, <1>4, SendsAssumption DEF TypeOK
    <2>5. TypeOK'
      BY <1>1, <1>2, <2>1, <2>2, <2>3, <2>4 DEF TypeOK, RInv
    <2>6. RowsOK'
      BY <1>1, <2>1, <2>2 DEF RowsOK
    <2> QED
      BY <1>2, <1>3, <2>5, <2>6
  <1>6. CASE EchoHandled(cp)
    <2>1. cp \in echo /\ echo' = {} /\ delivered' = delivered
      BY <1>6 DEF EchoHandled
    <2>2. Cardinality(echo') <= 1
      BY <2>1, FS_EmptySet
    <2>3. CASE cp \in rows
      <3>1. UNCHANGED <<rows, shown, bridged>>
        BY <1>6, <2>3 DEF EchoHandled
      <3>2. TypeOK'
        BY <1>1, <1>2, <2>1, <2>2, <3>1 DEF TypeOK, RInv
      <3>3. RowsOK'
        BY <1>1, <2>1, <3>1 DEF RowsOK
      <3> QED
        BY <1>2, <1>3, <3>2, <3>3
    <2>4. CASE cp \notin rows
      <3>1. rows' = rows \cup {cp} /\ shown' = [shown EXCEPT ![cp] = @ + 1]
            /\ bridged' = bridged \cup {cp}
        BY <1>6, <2>4 DEF EchoHandled
      <3>2. shown[cp] = 0
        BY <1>4, <2>4 DEF RowsOK
      <3>3. TypeOK'
        <4>1. shown' \in [Copy -> 0..2]
          BY <1>4, <3>1, <3>2 DEF TypeOK
        <4> QED
          BY <1>1, <1>2, <2>1, <2>2, <3>1, <4>1 DEF TypeOK, RInv
      <3>4. done[cp[1]] # {}
        BY DEF CopiesOK
      <3>5. handler[cp[1]] \notin Busy \cup {"idle"}
        BY <1>4, <2>1, <3>4 DEF RowsOK, HandlerOK, RInv, WireOK
      <3>6. \A cq \in Copy : shown'[cq] = IF cq \in rows' THEN 1 ELSE 0
        BY <1>4, <3>1, <3>2 DEF RowsOK, TypeOK
      <3>7. RowsOK'
        BY <1>1, <2>1, <2>4, <3>1, <3>5, <3>6 DEF RowsOK, Busy
      <3> QED
        BY <1>2, <1>3, <3>3, <3>7
    <2> QED
      BY <2>3, <2>4
  <1> QED
    BY <1>5, <1>6

LEMMA CrashStep ==
  ASSUME SInv, Crash
  PROVE  SInv'
  <1> USE MessagesAreCalls DEF SInv
  <1>1. Abandoned
    BY DEF Crash, Abandoned
  <1>2. RInv'
    BY <1>1, AbandonedInv
  <1>3. Cardinality(echo') <= 1
    BY FS_EmptySet DEF Crash
  <1>4. TypeOK'
    BY <1>2, <1>3, SendsAssumption DEF Crash, TypeOK, RInv, Busy
  <1>5. \A m \in Messages : HandlerOK(m)'
    BY DEF Crash, HandlerOK, Busy, InProgress
  <1>6. CopiesOK'
    BY DEF Crash, CopiesOK
  <1>7. \A cp \in copies : cp[1] \in Messages
    BY DEF TypeOK, Copy
  <1>8. RowsOK'
    BY <1>7 DEF Crash, RowsOK, Busy, TypeOK
  <1> QED
    BY <1>2, <1>4, <1>5, <1>6, <1>8

LEMMA NextSInv ==
  ASSUME SInv, [Next]_vars
  PROVE  SInv'
  <1>1. CASE Next
    BY <1>1, SendStep, CallStep, PostStep, HandlerStepInv, EchoStep, CrashStep DEF Next
  <1>2. CASE UNCHANGED vars
    BY <1>2 DEF vars, requestVars, sendVars, SInv, RInv, RequestsTypeOK, CountOK, WireOK,
       SeenOK, TypeOK, HandlerOK, CopiesOK, CopiesOf, RowsOK
  <1> QED
    BY <1>1, <1>2

THEOREM InvHolds == Spec => []SInv
  BY InitSInv, NextSInv, PTL DEF Spec

(* The state of Sends keeps its types.                                     *)
THEOREM SendsTypeCorrect == Spec => []TypeOK
  <1>1. SInv => TypeOK
    BY DEF SInv
  <1> QED
    BY <1>1, InvHolds, PTL

(* After an answer of a server that carried the request out, a call that   *)
(* creates something makes no further attempt, for any retry limit.        *)
THEOREM AnswersEndSends == Spec => []AnsweredIsLast
  <1>1. SInv => AnsweredIsLast
    BY DEF SInv, RInv, SeenOK, AnsweredIsLast
  <1> QED
    BY <1>1, InvHolds, PTL

(* A pending local_id always has a handler that will remove it.            *)
THEOREM PendingIsOwned == Spec => []PendingHasOwner
  <1>1. SInv => PendingHasOwner
    BY DEF SInv, TypeOK, HandlerOK, PendingHasOwner
  <1> QED
    BY <1>1, InvHolds, PTL

(* No copy is shown twice, and none that its sender was told of is bridged *)
(* back if Google drops repeats, for any number of echoes and crashes.     *)
THEOREM NoDoubles == Spec => []ShownOnce
  <1>1. ASSUME SInv
        PROVE  ShownOnce
    <2>1. \A cp \in copies : shown[cp] <= 1
      BY <1>1 DEF SInv, RowsOK, TypeOK
    <2>2. dedups => \A m \in Messages : handler[m] = "success" => CopiesOf(m) \cap bridged = {}
      BY <1>1 DEF SInv, RowsOK, CopiesOf
    <2> QED
      BY <2>1, <2>2 DEF ShownOnce
  <1> QED
    BY <1>1, InvHolds, PTL

LEMMA CopiesCounted ==
  ASSUME SInv, NEW m \in Messages
  PROVE  /\ IsFiniteSet(CopiesOf(m)) /\ Cardinality(CopiesOf(m)) <= Cardinality(done[m])
         /\ dedups => Cardinality(CopiesOf(m)) <= 1
  <1> DEFINE f == [cp \in CopiesOf(m) |-> cp[2]]
  <1>1. \A cp \in CopiesOf(m) : cp = <<m, cp[2]>> /\ cp[2] \in done[m]
    BY DEF SInv, TypeOK, CopiesOK, CopiesOf, Copy
  <1>2. f \in Injection(CopiesOf(m), done[m])
    BY <1>1 DEF Injection, IsInjective
  <1>3. IsFiniteSet(done[m])
    BY Sizes, MessagesAreCalls DEF SInv
  <1>4. IsFiniteSet(CopiesOf(m)) /\ Cardinality(CopiesOf(m)) <= Cardinality(done[m])
    BY <1>2, <1>3, FS_Injection
  <1>5. ASSUME dedups, NEW cp \in CopiesOf(m)
        PROVE  Cardinality(CopiesOf(m)) = 1
    <2>1. CopiesOf(m) = {cp}
      BY <1>5 DEF SInv, CopiesOK, CopiesOf
    <2> QED
      BY <2>1, FS_Singleton
  <1>6. CopiesOf(m) = {} => Cardinality(CopiesOf(m)) = 0
    BY FS_EmptySet
  <1> QED
    BY <1>4, <1>5, <1>6

(* However often a send is repeated, only attempts that were carried out   *)
(* and never answered can add a copy.                                      *)
THEOREM DuplicatesExplained == Spec => []CopiesAreExplained
  <1>1. ASSUME SInv
        PROVE  CopiesAreExplained
    <2>1. SUFFICES ASSUME NEW m \in Messages
                   PROVE  /\ Cardinality(CopiesOf(m)) <=
                                1 + Cardinality({n \in done[m] : n < sent[m] /\ seen[m][n] = "none"})
                          /\ dedups => Cardinality(CopiesOf(m)) <= 1
      BY DEF CopiesAreExplained
    <2> DEFINE lost == {n \in done[m] : n < sent[m] /\ seen[m][n] = "none"}
    <2>2. IsFiniteSet(done[m]) /\ sent[m] \in Nat /\ \A n \in done[m] : n \in Nat /\ n <= sent[m]
      BY <1>1, Sizes, MessagesAreCalls DEF SInv, RInv, RequestsTypeOK, WireOK, Attempts
    <2>3. IsFiniteSet(lost) /\ Cardinality(lost) \in Nat
      BY <2>2, FS_Subset, FS_CardinalityType
    <2>4. done[m] \subseteq lost \cup {sent[m]}
      BY <1>1, <2>2 DEF SInv, RInv, SeenOK, Messages
    <2>5. /\ IsFiniteSet(lost \cup {sent[m]})
          /\ Cardinality(lost \cup {sent[m]}) <= 1 + Cardinality(lost)
          /\ Cardinality(lost \cup {sent[m]}) \in Nat
      <3> HIDE DEF lost
      <3>1. /\ IsFiniteSet(lost \cup {sent[m]})
            /\ Cardinality(lost \cup {sent[m]})
                 = IF sent[m] \in lost THEN Cardinality(lost) ELSE Cardinality(lost) + 1
        BY <2>3, FS_AddElement
      <3> QED
        BY <2>3, <3>1
    <2>6. Cardinality(done[m]) <= Cardinality(lost \cup {sent[m]}) /\ Cardinality(done[m]) \in Nat
      BY <2>2, <2>4, <2>5, FS_Subset, FS_CardinalityType
    <2>7. Cardinality(CopiesOf(m)) \in Nat
      BY <1>1, CopiesCounted, FS_CardinalityType
    <2> QED
      BY <1>1, <2>3, <2>5, <2>6, <2>7, CopiesCounted
  <1> QED
    BY <1>1, InvHolds, PTL

LEMMA NextRefines ==
  ASSUME SInv, [Next]_vars
  PROVE  [Promise!RpcNext]_(Promise!rpcVars)
  <1> USE MessagesAreCalls DEF SInv
  <1>1. CASE UNCHANGED requestVars
    BY <1>1 DEF requestVars, Promise!rpcVars
  <1>2. CASE Crash
    <2>1. Abandoned
      BY <1>2 DEF Crash, Abandoned
    <2> QED
      BY <2>1, AbandonedRefines DEF Promise!RpcNext
  <1>3. ASSUME NEW m \in Messages,
               Send(m) \/ Call(m) \/ \E n \in wire[m] : ServerPosts(m, n) \/ ServerRejects(m, n)
        PROVE  [Promise!RpcNext]_(Promise!rpcVars)
    <2>1. RequestStep(m)
      BY <1>3 DEF Send, Call, ServerPosts, ServerRejects, RequestStep, ServerStep
    <2> QED
      BY <2>1, Refines
  <1>4. ASSUME NEW m \in Messages, Refuse(m) \/ HandlerStep(m)
        PROVE  UNCHANGED requestVars
    BY <1>4 DEF Refuse, HandlerStep, HandlerSucceeds, RowInserted, PendingRemoved, HandlerFails
  <1>5. ASSUME NEW cp \in copies, EchoArrives(cp) \/ EchoHandled(cp)
        PROVE  UNCHANGED requestVars
    BY <1>5 DEF EchoArrives, EchoHandled
  <1> QED
    BY <1>1, <1>2, <1>3, <1>4, <1>5 DEF Next, vars

(* The requests of Sends, restarts included, implement Rpc: what a handler *)
(* is told of a call is what Google did.                                   *)
THEOREM CallsKeepThePromise == Spec => CallPromise
  <1>1. Init => Promise!RpcInit
    BY InitRefines DEF Init
  <1> QED
    BY <1>1, InvHolds, NextRefines, PTL DEF Spec, CallPromise, Promise!RpcSpec
=============================================================================
