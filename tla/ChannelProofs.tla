---------------------------- MODULE ChannelProofs ----------------------------
(***************************************************************************)
(* Proofs about Channel, for any number of senders, sessions, arrays and   *)
(* faults, and about the Framing of its long poll, for any bytes, bodies   *)
(* and cuts.  Of the channel, IInv says, beside the types, where the locks *)
(* and the counters stand at every step of Listen and of a sender; each of *)
(* its parts has a lemma below.  Of the framing, FramingInv says what is   *)
(* left in the buffer and what may still become of it.                     *)
(***************************************************************************)
EXTENDS Channel, Framing, SequenceTheorems, WellFoundedInduction, TLAPS

(* Where Listen stands: the retries left, the session it reads, the SID    *)
(* its poll carries and the one it is about to adopt.  The counters are    *)
(* those of no session or of the last one the server opened.               *)
ListenOK ==
  /\ pc \notin {"register", "registering", "top", "done"} => retries <= MaxRetries
  /\ pc \in {"array", "record"} => next <= MaxArrays
  /\ pc \in {"ack", "ping", "pinging", "read", "array", "record"} => sid # 0
  /\ pc \in {"polling", "adopt"} => pollSid = sid
  /\ pc = "adopt" => newSid = opened /\ opened # 0
  /\ sid = 0 \/ sid = opened

(* sendMu is held exactly through ack and ping, and through a POST.        *)
MutexOK ==
  /\ pc \in {"ack", "ping", "pinging"} <=> sendMu = "listen"
  /\ \A s \in Senders : sender[s].pc \in {"locked", "posting", "posted"} <=> sendMu = s

(* aid is the last array that was handled in this session, 0 before the    *)
(* first, and the next one the server sends is a later one.  Up to either, *)
(* every array was given to OnReceiveArray or skipped.                     *)
ArraysOK ==
  /\ handled.sid = 0 => handled.n = 0
  /\ handled.sid <= opened
  /\ pc = "adopt" /\ sid = 0 => handled.sid < opened
  /\ pc \in {"ack", "ping", "pinging"} => handled.sid # sid /\ next = 1
  /\ handled.sid # sid => aid = 0
  /\ handled.sid = sid /\ pc # "record" => aid = handled.n
  /\ pc \in {"read", "array", "record"} \/ (pc = "adopt" /\ sid # 0) => aid < next
  /\ pc = "record" => handled.sid = sid /\ handled.n = next /\ next \in given
  /\ 1..aid \subseteq given \cup skipped
  /\ pc \in {"read", "array", "record"} \/ (pc = "adopt" /\ sid # 0)
       => 1..(next - 1) \subseteq given \cup skipped

(* The counters are ahead of the wire, and so is the POST that is about to *)
(* go on it.                                                               *)
WireOK ==
  /\ wire.rid < rid
  /\ wire.sid <= opened
  /\ wire.sid = sid /\ sid # 0 => wire.ofs < ofs
  /\ pc = "adopt" /\ sid = 0 => wire.sid < opened
  /\ pc \in {"ack", "ping"} => ofs = 0

PostOK(s) ==
  sender[s].pc = "posting" =>
    /\ sender[s].sid # 0 /\ wire.sid <= sender[s].sid
    /\ wire.sid = sender[s].sid => wire.ofs < sender[s].ofs
    /\ wire.rid < sender[s].rid /\ sender[s].rid < rid
    /\ sid # 0 => sender[s].sid = sid /\ sender[s].ofs < ofs
    /\ pc = "adopt" /\ sid = 0 => sender[s].sid < opened

PostsOK == \A s \in Senders : PostOK(s)

IInv == TypeOK /\ ListenOK /\ MutexOK /\ ArraysOK /\ WireOK /\ PostsOK

(* What NetworkError does keeps the types, wherever it is called from.     *)
LEMMA AfterNetworkError ==
  ASSUME IInv, NetworkError, pc \in {"polling", "ack", "read"},
         faults' \in 0..MaxFaults, UNCHANGED <<counters, sender, opened, history, sends>>
  PROVE  TypeOK'
  <1> USE DEF counters, history
  <1>1. retries' \in 0..(MaxRetries + 1)
    BY ConstantsAssumption DEF IInv, TypeOK, ListenOK, NetworkError
  <1>2. sendMu' \in Senders \cup {"free", "listen"}
    BY DEF IInv, TypeOK, NetworkError
  <1>3. pc' = "top" /\ isConnected' = FALSE
        /\ UNCHANGED <<result, pollSid, newSid, next, onConnectCalled, toldSid>>
    BY DEF NetworkError
  <1> QED
    BY <1>1, <1>2, <1>3 DEF IInv, TypeOK, PollStates

(* The types.                                                              *)
LEMMA TypeOKStep ==
  ASSUME IInv, Listen \/ \E s \in Senders : SendCall(s) \/ SendLock(s) \/ Send(s)
  PROVE  TypeOK'
  <1> USE ConstantsAssumption DEF IInv, TypeOK, ListenOK, counters, listen, link, history,
     Idle, PollStates, Results
  <1>1. CASE RegisterStart
    BY <1>1 DEF RegisterStart
  <1>2. CASE RegisterOK
    BY <1>2 DEF RegisterOK
  <1>3. CASE RegisterFails
    BY <1>3 DEF RegisterFails, Return, Fault
  <1>4. CASE LoopEnds
    BY <1>4 DEF LoopEnds, Return
  <1>5. CASE Cancelled
    BY <1>5 DEF Cancelled, Return, Fault
  <1>6. CASE PollStart
    BY <1>6 DEF PollStart
  <1>7. CASE PollOpens
    BY <1>7 DEF PollOpens
  <1>8. CASE PollContinues
    BY <1>8 DEF PollContinues
  <1>9. CASE PollFails
    <2>1. faults' \in 0..MaxFaults /\ UNCHANGED <<counters, sender, opened, history, sends>>
      BY <1>9 DEF PollFails, Fault
    <2>2. CASE NetworkError
      BY <1>9, <2>1, <2>2, AfterNetworkError DEF PollFails
    <2>3. CASE ~NetworkError
      BY <1>9, <2>3 DEF PollFails, Return, Fault
    <2> QED
      BY <2>2, <2>3
  <1>10. CASE Adopt
    <2>1. CASE newSid # sid
      BY <1>10, <2>1 DEF Adopt
    <2>2. CASE newSid = sid
      BY <1>10, <2>2 DEF Adopt
    <2> QED
      BY <2>1, <2>2
  <1>11. CASE AckOK
    BY <1>11 DEF AckOK
  <1>12. CASE AckFails
    <2>1. faults' \in 0..MaxFaults /\ UNCHANGED <<counters, sender, opened, history, sends>>
      BY <1>12 DEF AckFails, Fault
    <2> QED
      BY <1>12, <2>1, AfterNetworkError DEF AckFails
  <1>13. CASE PingStart
    BY <1>13 DEF PingStart
  <1>14. CASE PingOK
    BY <1>14 DEF PingOK
  <1>15. CASE PingFails
    BY <1>15 DEF PingFails, Return, Fault
  <1>16. CASE Chunk
    BY <1>16 DEF Chunk
  <1>17. CASE ArraySkipped
    BY <1>17 DEF ArraySkipped, Fault
  <1>18. CASE ArrayHandled
    BY <1>18 DEF ArrayHandled
  <1>19. CASE ArrayRecorded
    BY <1>19 DEF ArrayRecorded
  <1>20. CASE CleanEOF
    BY <1>20 DEF CleanEOF
  <1>21. CASE SIDExpiring
    BY <1>21 DEF SIDExpiring, Fault
  <1>22. CASE ReadFails
    <2>1. faults' \in 0..MaxFaults /\ UNCHANGED <<counters, sender, opened, history, sends>>
      BY <1>22 DEF ReadFails, Fault
    <2> QED
      BY <1>22, <2>1, AfterNetworkError DEF ReadFails
  <1>23. CASE ReadIdle
    <2>1. faults' \in 0..MaxFaults /\ UNCHANGED <<counters, sender, opened, history, sends>>
      BY <1>23 DEF ReadIdle
    <2> QED
      BY <1>23, <2>1, AfterNetworkError DEF ReadIdle
  <1>24. ASSUME NEW s \in Senders, SendCall(s) \/ SendLock(s) PROVE TypeOK'
    BY <1>24 DEF SendCall, SendLock
  <1>25. ASSUME NEW s \in Senders, SendPrepare(s) PROVE TypeOK'
    BY <1>25 DEF SendPrepare
  <1>26. ASSUME NEW s \in Senders, SendPost(s) PROVE TypeOK'
    BY <1>26 DEF SendPost
  <1>27. ASSUME NEW s \in Senders, SendReturn(s) PROVE TypeOK'
    BY <1>27 DEF SendReturn
  <1> QED
    BY <1>1, <1>2, <1>3, <1>4, <1>5, <1>6, <1>7, <1>8, <1>9, <1>10, <1>11, <1>12, <1>13,
       <1>14, <1>15, <1>16, <1>17, <1>18, <1>19, <1>20, <1>21, <1>22, <1>23, <1>24, <1>25,
       <1>26, <1>27 DEF Listen, Send

(* The position of Listen.                                                 *)
LEMMA ListenOKStep ==
  ASSUME IInv, Listen \/ \E s \in Senders : SendCall(s) \/ SendLock(s) \/ Send(s)
  PROVE  ListenOK'
  <1> USE ConstantsAssumption DEF IInv, TypeOK, ListenOK, counters, listen, link, history
  <1>1. CASE RegisterStart \/ RegisterOK \/ RegisterFails
    BY <1>1 DEF RegisterStart, RegisterOK, RegisterFails, Return, Fault
  <1>2. CASE LoopEnds \/ Cancelled
    BY <1>2 DEF LoopEnds, Cancelled, Return, Fault
  <1>3. CASE PollStart \/ PollOpens \/ PollContinues
    BY <1>3 DEF PollStart, PollOpens, PollContinues
  <1>4. CASE PollFails
    BY <1>4 DEF PollFails, Return, Fault, NetworkError
  <1>5. CASE Adopt
    BY <1>5 DEF Adopt
  <1>6. CASE AckOK \/ AckFails
    BY <1>6 DEF AckOK, AckFails, Fault, NetworkError
  <1>7. CASE PingStart \/ PingOK \/ PingFails
    BY <1>7 DEF PingStart, PingOK, PingFails, Return, Fault
  <1>8. CASE Chunk \/ ArraySkipped
    BY <1>8 DEF Chunk, ArraySkipped, Fault
  <1>9. CASE ArrayHandled \/ ArrayRecorded
    BY <1>9 DEF ArrayHandled, ArrayRecorded
  <1>10. CASE CleanEOF \/ SIDExpiring
    BY <1>10 DEF CleanEOF, SIDExpiring, Fault
  <1>11. CASE ReadFails \/ ReadIdle
    BY <1>11 DEF ReadFails, ReadIdle, Fault, NetworkError
  <1>12. ASSUME NEW s \in Senders, SendCall(s) \/ SendLock(s) PROVE ListenOK'
    BY <1>12 DEF SendCall, SendLock
  <1>13. ASSUME NEW s \in Senders, SendPrepare(s) PROVE ListenOK'
    BY <1>13 DEF SendPrepare
  <1>14. ASSUME NEW s \in Senders, SendPost(s) PROVE ListenOK'
    BY <1>14 DEF SendPost
  <1>15. ASSUME NEW s \in Senders, SendReturn(s) PROVE ListenOK'
    BY <1>15 DEF SendReturn
  <1> QED
    BY <1>1, <1>2, <1>3, <1>4, <1>5, <1>6, <1>7, <1>8, <1>9, <1>10, <1>11, <1>12, <1>13,
       <1>14, <1>15 DEF Listen, Send

(* sendMu.                                                                 *)
LEMMA MutexOKStep ==
  ASSUME IInv, Listen \/ \E s \in Senders : SendCall(s) \/ SendLock(s) \/ Send(s)
  PROVE  MutexOK'
  <1> USE ConstantsAssumption DEF IInv, TypeOK, MutexOK, counters, listen, link, history,
     Idle
  <1>1. CASE RegisterStart \/ RegisterOK \/ RegisterFails
    BY <1>1 DEF RegisterStart, RegisterOK, RegisterFails, Return, Fault
  <1>2. CASE LoopEnds \/ Cancelled
    BY <1>2 DEF LoopEnds, Cancelled, Return, Fault
  <1>3. CASE PollStart \/ PollOpens \/ PollContinues
    BY <1>3 DEF PollStart, PollOpens, PollContinues
  <1>4. CASE PollFails
    BY <1>4 DEF PollFails, Return, Fault, NetworkError
  <1>5. CASE Adopt
    BY <1>5 DEF Adopt
  <1>6. CASE AckOK \/ AckFails
    BY <1>6 DEF AckOK, AckFails, Fault, NetworkError
  <1>7. CASE PingStart \/ PingOK \/ PingFails
    BY <1>7 DEF PingStart, PingOK, PingFails, Return, Fault
  <1>8. CASE Chunk \/ ArraySkipped
    BY <1>8 DEF Chunk, ArraySkipped, Fault
  <1>9. CASE ArrayHandled \/ ArrayRecorded
    BY <1>9 DEF ArrayHandled, ArrayRecorded
  <1>10. CASE CleanEOF \/ SIDExpiring
    BY <1>10 DEF CleanEOF, SIDExpiring, Fault
  <1>11. CASE ReadFails \/ ReadIdle
    BY <1>11 DEF ReadFails, ReadIdle, Fault, NetworkError
  <1>12. ASSUME NEW s \in Senders, SendCall(s) \/ SendLock(s) PROVE MutexOK'
    BY <1>12 DEF SendCall, SendLock
  <1>13. ASSUME NEW s \in Senders, SendPrepare(s) PROVE MutexOK'
    BY <1>13 DEF SendPrepare
  <1>14. ASSUME NEW s \in Senders, SendPost(s) PROVE MutexOK'
    BY <1>14 DEF SendPost
  <1>15. ASSUME NEW s \in Senders, SendReturn(s) PROVE MutexOK'
    BY <1>15 DEF SendReturn
  <1> QED
    BY <1>1, <1>2, <1>3, <1>4, <1>5, <1>6, <1>7, <1>8, <1>9, <1>10, <1>11, <1>12, <1>13,
       <1>14, <1>15 DEF Listen, Send

(* The arrays of a session.                                                *)
LEMMA ArraysOKStep ==
  ASSUME IInv, Listen \/ \E s \in Senders : SendCall(s) \/ SendLock(s) \/ Send(s)
  PROVE  ArraysOK'
  <1> USE ConstantsAssumption DEF IInv, TypeOK, ListenOK, ArraysOK, counters, listen,
     link, history
  <1>1. CASE RegisterStart \/ RegisterOK \/ RegisterFails
    BY <1>1 DEF RegisterStart, RegisterOK, RegisterFails, Return, Fault
  <1>2. CASE LoopEnds \/ Cancelled
    BY <1>2 DEF LoopEnds, Cancelled, Return, Fault
  <1>3. CASE PollStart \/ PollOpens \/ PollContinues
    BY <1>3 DEF PollStart, PollOpens, PollContinues
  <1>4. CASE PollFails
    BY <1>4 DEF PollFails, Return, Fault, NetworkError
  <1>5. CASE Adopt
    BY <1>5 DEF Adopt
  <1>6. CASE AckOK \/ AckFails
    BY <1>6 DEF AckOK, AckFails, Fault, NetworkError
  <1>7. CASE PingStart \/ PingOK \/ PingFails
    BY <1>7 DEF PingStart, PingOK, PingFails, Return, Fault
  <1>8. CASE Chunk \/ ArraySkipped
    BY <1>8 DEF Chunk, ArraySkipped, Fault
  <1>9. CASE ArrayHandled \/ ArrayRecorded
    BY <1>9 DEF ArrayHandled, ArrayRecorded
  <1>10. CASE CleanEOF \/ SIDExpiring
    BY <1>10 DEF CleanEOF, SIDExpiring, Fault
  <1>11. CASE ReadFails \/ ReadIdle
    BY <1>11 DEF ReadFails, ReadIdle, Fault, NetworkError
  <1>12. ASSUME NEW s \in Senders, SendCall(s) \/ SendLock(s) PROVE ArraysOK'
    BY <1>12 DEF SendCall, SendLock
  <1>13. ASSUME NEW s \in Senders, SendPrepare(s) PROVE ArraysOK'
    BY <1>13 DEF SendPrepare
  <1>14. ASSUME NEW s \in Senders, SendPost(s) PROVE ArraysOK'
    BY <1>14 DEF SendPost
  <1>15. ASSUME NEW s \in Senders, SendReturn(s) PROVE ArraysOK'
    BY <1>15 DEF SendReturn
  <1> QED
    BY <1>1, <1>2, <1>3, <1>4, <1>5, <1>6, <1>7, <1>8, <1>9, <1>10, <1>11, <1>12, <1>13,
       <1>14, <1>15 DEF Listen, Send

(* The counters and the wire.                                              *)
LEMMA WireOKStep ==
  ASSUME IInv, Listen \/ \E s \in Senders : SendCall(s) \/ SendLock(s) \/ Send(s)
  PROVE  WireOK'
  <1> USE ConstantsAssumption DEF IInv, TypeOK, ListenOK, MutexOK, WireOK, PostsOK,
     PostOK, counters, listen, link, history
  <1>1. CASE RegisterStart \/ RegisterOK \/ RegisterFails
    BY <1>1 DEF RegisterStart, RegisterOK, RegisterFails, Return, Fault
  <1>2. CASE LoopEnds \/ Cancelled
    BY <1>2 DEF LoopEnds, Cancelled, Return, Fault
  <1>3. CASE PollStart \/ PollOpens \/ PollContinues
    BY <1>3 DEF PollStart, PollOpens, PollContinues
  <1>4. CASE PollFails
    BY <1>4 DEF PollFails, Return, Fault, NetworkError
  <1>5. CASE Adopt
    BY <1>5 DEF Adopt
  <1>6. CASE AckOK \/ AckFails
    BY <1>6 DEF AckOK, AckFails, Fault, NetworkError
  <1>7. CASE PingStart \/ PingOK \/ PingFails
    BY <1>7 DEF PingStart, PingOK, PingFails, Return, Fault
  <1>8. CASE Chunk \/ ArraySkipped
    BY <1>8 DEF Chunk, ArraySkipped, Fault
  <1>9. CASE ArrayHandled \/ ArrayRecorded
    BY <1>9 DEF ArrayHandled, ArrayRecorded
  <1>10. CASE CleanEOF \/ SIDExpiring
    BY <1>10 DEF CleanEOF, SIDExpiring, Fault
  <1>11. CASE ReadFails \/ ReadIdle
    BY <1>11 DEF ReadFails, ReadIdle, Fault, NetworkError
  <1>12. ASSUME NEW s \in Senders, SendCall(s) \/ SendLock(s) PROVE WireOK'
    BY <1>12 DEF SendCall, SendLock
  <1>13. ASSUME NEW s \in Senders, SendPrepare(s) PROVE WireOK'
    BY <1>13 DEF SendPrepare
  <1>14. ASSUME NEW s \in Senders, SendPost(s) PROVE WireOK'
    BY <1>14 DEF SendPost
  <1>15. ASSUME NEW s \in Senders, SendReturn(s) PROVE WireOK'
    BY <1>15 DEF SendReturn
  <1> QED
    BY <1>1, <1>2, <1>3, <1>4, <1>5, <1>6, <1>7, <1>8, <1>9, <1>10, <1>11, <1>12, <1>13,
       <1>14, <1>15 DEF Listen, Send

(* The POSTs about to go out.                                              *)
LEMMA PostsOKStep ==
  ASSUME IInv, Listen \/ \E s \in Senders : SendCall(s) \/ SendLock(s) \/ Send(s)
  PROVE  PostsOK'
  <1> USE ConstantsAssumption DEF IInv, TypeOK, ListenOK, MutexOK, WireOK, PostsOK,
     PostOK, counters, listen, link, history, Idle
  <1>1. CASE RegisterStart \/ RegisterOK \/ RegisterFails
    BY <1>1 DEF RegisterStart, RegisterOK, RegisterFails, Return, Fault
  <1>2. CASE LoopEnds \/ Cancelled
    BY <1>2 DEF LoopEnds, Cancelled, Return, Fault
  <1>3. CASE PollStart \/ PollOpens \/ PollContinues
    BY <1>3 DEF PollStart, PollOpens, PollContinues
  <1>4. CASE PollFails
    BY <1>4 DEF PollFails, Return, Fault, NetworkError
  <1>5. CASE Adopt
    BY <1>5 DEF Adopt
  <1>6. CASE AckOK \/ AckFails
    BY <1>6 DEF AckOK, AckFails, Fault, NetworkError
  <1>7. CASE PingStart \/ PingOK \/ PingFails
    BY <1>7 DEF PingStart, PingOK, PingFails, Return, Fault
  <1>8. CASE Chunk \/ ArraySkipped
    BY <1>8 DEF Chunk, ArraySkipped, Fault
  <1>9. CASE ArrayHandled \/ ArrayRecorded
    BY <1>9 DEF ArrayHandled, ArrayRecorded
  <1>10. CASE CleanEOF \/ SIDExpiring
    BY <1>10 DEF CleanEOF, SIDExpiring, Fault
  <1>11. CASE ReadFails \/ ReadIdle
    BY <1>11 DEF ReadFails, ReadIdle, Fault, NetworkError
  <1>12. ASSUME NEW s \in Senders, SendCall(s) \/ SendLock(s) PROVE PostsOK'
    BY <1>12 DEF SendCall, SendLock
  <1>13. ASSUME NEW s \in Senders, SendPrepare(s) PROVE PostsOK'
    BY <1>13 DEF SendPrepare
  <1>14. ASSUME NEW s \in Senders, SendPost(s) PROVE PostsOK'
    BY <1>14 DEF SendPost
  <1>15. ASSUME NEW s \in Senders, SendReturn(s) PROVE PostsOK'
    BY <1>15 DEF SendReturn
  <1> QED
    BY <1>1, <1>2, <1>3, <1>4, <1>5, <1>6, <1>7, <1>8, <1>9, <1>10, <1>11, <1>12, <1>13,
       <1>14, <1>15 DEF Listen, Send

------------------------------------------------------------------------------
(* The theorems.                                                           *)

LEMMA InitHolds == Init => IInv
  <1> SUFFICES ASSUME Init PROVE IInv
    OBVIOUS
  <1> USE ConstantsAssumption DEF Init, Idle
  <1>1. TypeOK
    <2>1. /\ sender \in [Senders -> [pc : {"idle", "waiting", "locked", "posting", "posted"},
                                     sid : 0..opened, ofs : Nat, rid : Nat]]
          /\ wire \in [sid : 0..opened, ofs : Nat, rid : Nat, ping : BOOLEAN]
          /\ handled \in [sid : 0..opened, n : 0..MaxArrays]
      OBVIOUS
    <2>2. /\ sid \in 0..opened /\ aid \in 0..MaxArrays /\ ofs \in Nat /\ rid \in Nat
          /\ retries \in 0..(MaxRetries + 1) /\ next \in 1..(MaxArrays + 1)
          /\ pollSid \in 0..opened /\ newSid \in 0..opened /\ toldSid \in 0..opened
          /\ opened \in 0..MaxSids /\ sends \in 0..MaxSends /\ faults \in 0..MaxFaults
      OBVIOUS
    <2> QED
      BY <2>1, <2>2 DEF TypeOK, PollStates, Results
  <1>2. ListenOK /\ MutexOK
    BY DEF ListenOK, MutexOK
  <1>3. ArraysOK /\ WireOK /\ PostsOK
    BY DEF ArraysOK, WireOK, PostsOK, PostOK
  <1> QED
    BY <1>1, <1>2, <1>3 DEF IInv

LEMMA NextHolds == IInv /\ [Next]_vars => IInv'
  <1> SUFFICES ASSUME IInv, [Next]_vars PROVE IInv'
    OBVIOUS
  <1>1. CASE Next
    BY <1>1, TypeOKStep, ListenOKStep, MutexOKStep, ArraysOKStep, WireOKStep, PostsOKStep
       DEF Next, IInv
  <1>2. CASE UNCHANGED vars
    <2> USE <1>2 DEF IInv, vars, counters, listen, link, history
    <2>1. TypeOK'
      BY DEF TypeOK
    <2>2. ListenOK' /\ MutexOK'
      BY DEF ListenOK, MutexOK
    <2>3. ArraysOK' /\ WireOK' /\ PostsOK'
      BY DEF ArraysOK, WireOK, PostsOK, PostOK
    <2> QED
      BY <2>1, <2>2, <2>3
  <1> QED
    BY <1>1, <1>2

LEMMA Inductive == Spec => []IInv
  BY InitHolds, NextHolds, PTL DEF Spec

(* The state of a channel keeps its types; in particular Listen polls no   *)
(* more than MaxRetries times in a row in vain (channel.go, Listen).       *)
THEOREM TypeCorrect == Spec => []TypeOK
  <1>1. IInv => TypeOK
    BY DEF IInv
  <1> QED
    BY <1>1, Inductive, PTL

(* An array that can be decoded is given to OnReceiveArray before any      *)
(* request acknowledges it, for any number of sessions, arrays and faults; *)
(* one that cannot is skipped first (channel.go, onPushData).              *)
THEOREM AcksAreHonest == Spec => []AckedIsHandled
  <1>1. IInv => AckedIsHandled
    BY DEF IInv, TypeOK, ArraysOK, AckedIsHandled
  <1> QED
    BY <1>1, Inductive, PTL

(* Only these steps change what was put on the wire or handled last.       *)
LEMMA HistorySteps ==
  ASSUME Next
  PROVE  /\ UNCHANGED wire \/ PingStart \/ \E s \in Senders : SendPost(s)
         /\ UNCHANGED handled \/ ArrayHandled
  BY DEF Next, Listen, Send, counters, listen, link, history, Return, NetworkError,
         RegisterStart, RegisterOK, RegisterFails, LoopEnds, PollStart, PollFails, PollOpens,
         PollContinues, Adopt, AckOK, AckFails, PingStart, PingOK, PingFails, Chunk,
         ArraySkipped, ArrayHandled, ArrayRecorded, CleanEOF, SIDExpiring, ReadFails, ReadIdle,
         Cancelled, SendCall, SendLock, SendPrepare, SendPost, SendReturn

(* No array is handled twice or out of order, and none of an earlier       *)
(* session after one of a later (channel.go, aid and adoptSID).            *)
THEOREM ArraysHandledOnce == Spec => HandledOnce
  <1> DEFINE Later == handled'.sid > handled.sid
                        \/ (handled'.sid = handled.sid /\ handled'.n > handled.n)
  <1>1. ASSUME IInv, Next, handled' # handled
        PROVE  Later
    <2>1. ArrayHandled
      BY <1>1, HistorySteps
    <2> QED
      BY <1>1, <2>1, ConstantsAssumption
         DEF IInv, TypeOK, ListenOK, ArraysOK, ArrayHandled
  <1>2. IInv /\ [Next]_vars => [handled' # handled => Later]_vars
    BY <1>1 DEF vars, history
  <1> QED
    BY <1>2, Inductive, PTL DEF Spec, HandledOnce

(* POSTs and the initial ping reach the wire in the order the server       *)
(* insists on, for any number of senders (channel.go, sendMu).             *)
THEOREM PostsInOrder == Spec => WireInOrder
  <1> DEFINE Ordered ==
        /\ wire'.rid > wire.rid
        /\ \/ wire'.sid > wire.sid
           \/ wire'.sid = wire.sid /\ wire'.ofs > wire.ofs
        /\ wire'.ping => wire'.ofs = 0
  <1>1. ASSUME IInv, Next, wire' # wire
        PROVE  Ordered
    <2> USE ConstantsAssumption DEF IInv, TypeOK, ListenOK, WireOK
    <2>1. CASE PingStart
      BY <1>1, <2>1 DEF PingStart
    <2>2. ASSUME NEW s \in Senders, SendPost(s) PROVE Ordered
      BY <1>1, <2>2, SMTT(30) DEF SendPost, PostsOK, PostOK
    <2> QED
      BY <1>1, <2>1, <2>2, HistorySteps, SMTT(30)
  <1>2. IInv /\ [Next]_vars => [wire' # wire => Ordered]_vars
    BY <1>1 DEF vars, history
  <1> QED
    BY <1>2, Inductive, PTL DEF Spec, WireInOrder

(***************************************************************************)
(* Framing: numbers and sequences.                                         *)
(***************************************************************************)
LEMMA LeastNumber ==
  ASSUME NEW T \in SUBSET Nat, T # {}
  PROVE  \E m \in T : \A l \in T : m <= l
  <1>1. PICK m \in T : \A l \in T : ~ (<<l, m>> \in OpToRel(<, Nat))
    BY NatLessThanWellFounded, WFMin
  <1>2. \A l \in T : <<l, m>> \in OpToRel(<, Nat) <=> l < m
    BY DEF OpToRel
  <1>3. \A l \in T : ~(l < m)
    BY <1>1, <1>2, Zenon
  <1>4. m \in Nat /\ \A l \in T : l \in Nat
    OBVIOUS
  <1> QED
    BY <1>3, <1>4

LEMMA FromFacts ==
  ASSUME NEW s \in Seq(Bytes), NEW i \in 1 .. Len(s) + 1
  PROVE  /\ From(s, i) \in Seq(Bytes)
         /\ Len(From(s, i)) = Len(s) + 1 - i
         /\ \A j \in 1 .. Len(s) + 1 - i : From(s, i)[j] = s[i + j - 1]
  BY DEF From

LEMMA PrefixFacts ==
  ASSUME NEW s \in Seq(Bytes), NEW k \in 0 .. Len(s)
  PROVE  /\ SubSeq(s, 1, k) \in Seq(Bytes)
         /\ Len(SubSeq(s, 1, k)) = k
         /\ \A j \in 1..k : SubSeq(s, 1, k)[j] = s[j]
  OBVIOUS

LEMMA MiddleFacts ==
  ASSUME NEW s \in Seq(Bytes), NEW a \in Nat, NEW m \in Nat, a + m <= Len(s)
  PROVE  /\ SubSeq(s, a + 1, a + m) \in Seq(Bytes)
         /\ Len(SubSeq(s, a + 1, a + m)) = m
         /\ \A j \in 1..m : SubSeq(s, a + 1, a + m)[j] = s[a + j]
  <1>1. \A j \in a + 1 .. a + m : s[j] \in Bytes
    OBVIOUS
  <1>2. Len(SubSeq(s, a + 1, a + m)) = m
    <2>1. CASE m = 0
      BY <2>1
    <2>2. CASE m > 0
      BY <2>2
    <2> QED
      BY <2>1, <2>2
  <1>3. \A j \in 1..m : SubSeq(s, a + 1, a + m)[j] = s[a + j]
    <2>1. SUFFICES ASSUME NEW j \in 1..m
                   PROVE  SubSeq(s, a + 1, a + m)[j] = s[a + j]
      OBVIOUS
    <2>2. (a + 1) + j - 1 = a + j
      OBVIOUS
    <2> QED
      BY <2>2
  <1>4. SubSeq(s, a + 1, a + m) \in Seq(Bytes)
    OBVIOUS
  <1> QED
    BY <1>2, <1>3, <1>4

LEMMA ConcatFacts ==
  ASSUME NEW s \in Seq(Bytes), NEW e \in Seq(Bytes)
  PROVE  /\ s \o e \in Seq(Bytes)
         /\ Len(s \o e) = Len(s) + Len(e)
         /\ \A j \in 1 .. Len(s) : (s \o e)[j] = s[j]
         /\ \A j \in Len(s) + 1 .. Len(s) + Len(e) : (s \o e)[j] = e[j - Len(s)]
  OBVIOUS

(***************************************************************************)
(* Framing: runes.                                                         *)
(***************************************************************************)
LEMMA Sizes ==
  ASSUME NEW b
  PROVE  /\ SizeOf(b) \in {1, 2, 3}
         /\ b = "C" => SizeOf(b) = 1
  BY DEF SizeOf

(* At most one rune is cut off: the last that begins.                      *)
LEMMA OneCutOff ==
  ASSUME NEW s \in Seq(Bytes), NEW i \in 1..Len(s), NEW j \in 1..Len(s),
         IsCutOff(s, i), IsCutOff(s, j)
  PROVE  i = j
  <1>1. \A x, y \in 1..Len(s) : IsCutOff(s, x) /\ IsCutOff(s, y) => ~(x < y)
    <2>1. SUFFICES ASSUME NEW x \in 1..Len(s), NEW y \in 1..Len(s),
                          IsCutOff(s, x), IsCutOff(s, y), x < y
                   PROVE  FALSE
      OBVIOUS
    <2>2. s[y] = "C"
      BY <2>1 DEF IsCutOff
    <2>3. SizeOf(s[y]) = 1
      BY <2>2, Sizes
    <2> QED
      BY <2>1, <2>3 DEF IsCutOff
  <1> QED
    BY <1>1

LEMMA DecodeCutOff ==
  ASSUME NEW s \in Seq(Bytes), NEW i \in 1..Len(s), IsCutOff(s, i)
  PROVE  DecodePrefix(s) = SubSeq(s, 1, i - 1)
  <1>1. (CHOOSE j \in 1..Len(s) : IsCutOff(s, j)) = i
    <2> DEFINE c == CHOOSE j \in 1..Len(s) : IsCutOff(s, j)
    <2>1. c \in 1..Len(s) /\ IsCutOff(s, c)
      OBVIOUS
    <2> QED
      BY <2>1, OneCutOff
  <1> QED
    BY <1>1 DEF DecodePrefix

LEMMA DecodeFacts ==
  ASSUME NEW s \in Seq(Bytes)
  PROVE  LET d == DecodePrefix(s)
         IN  /\ d \in Seq(Bytes) /\ Len(d) \in 0..Len(s)
             /\ \A j \in 1..Len(d) : d[j] = s[j]
             /\ Len(d) < Len(s) => IsCutOff(s, Len(d) + 1)
             /\ \A i \in 1..Len(s) : IsCutOff(s, i) => i = Len(d) + 1
             /\ Len(d) = Len(s) => d = s
  <1>1. CASE \E i \in 1..Len(s) : IsCutOff(s, i)
    <2>1. PICK i \in 1..Len(s) : IsCutOff(s, i)
      BY <1>1
    <2>2. DecodePrefix(s) = SubSeq(s, 1, i - 1)
      BY <2>1, DecodeCutOff
    <2>3. i - 1 \in 0..Len(s) /\ i - 1 < Len(s) /\ i = i - 1 + 1
      OBVIOUS
    <2>4. /\ SubSeq(s, 1, i - 1) \in Seq(Bytes) /\ Len(SubSeq(s, 1, i - 1)) = i - 1
          /\ \A j \in 1..(i - 1) : SubSeq(s, 1, i - 1)[j] = s[j]
      BY <2>3, PrefixFacts
    <2>5. \A j \in 1..Len(s) : IsCutOff(s, j) => j = i
      BY <2>1, OneCutOff
    <2> QED
      BY <2>1, <2>2, <2>3, <2>4, <2>5
  <1>2. CASE ~ \E i \in 1..Len(s) : IsCutOff(s, i)
    <2>1. DecodePrefix(s) = s
      BY <1>2 DEF DecodePrefix
    <2> QED
      BY <1>2, <2>1
  <1> QED
    BY <1>1, <1>2

(* What is decided in the text r stays decided in the longer text t.       *)
Settled(r, t) ==
  /\ r \in Seq(Bytes) /\ t \in Seq(Bytes) /\ Len(r) <= Len(t)
  /\ \A j \in 1..Len(r) : r[j] = t[j] /\ (IsRune(r, j) <=> IsRune(t, j))

(* What follows the bytes read so far changes no rune of their text: only  *)
(* the cut-off one could be completed, and it is held back.                *)
LEMMA DecodeSettled ==
  ASSUME NEW s \in Seq(Bytes), NEW e \in Seq(Bytes)
  PROVE  Settled(DecodePrefix(s), DecodePrefix(s \o e))
  <1> DEFINE d == DecodePrefix(s)
             b == s \o e
             t == DecodePrefix(b)
  <1>1. /\ b \in Seq(Bytes) /\ Len(b) = Len(s) + Len(e) /\ Len(s) \in Nat /\ Len(e) \in Nat
        /\ \A j \in 1..Len(s) : b[j] = s[j]
    BY ConcatFacts
  <1>2. /\ d \in Seq(Bytes) /\ Len(d) \in 0..Len(s)
        /\ \A j \in 1..Len(d) : d[j] = s[j]
        /\ Len(d) < Len(s) => IsCutOff(s, Len(d) + 1)
        /\ \A i \in 1..Len(s) : IsCutOff(s, i) => i = Len(d) + 1
        /\ Len(d) = Len(s) => d = s
    BY DecodeFacts
  <1>3. /\ t \in Seq(Bytes) /\ Len(t) \in 0..Len(b)
        /\ \A j \in 1..Len(t) : t[j] = b[j]
        /\ Len(t) < Len(b) => IsCutOff(b, Len(t) + 1)
    BY <1>1, DecodeFacts
  <1> HIDE DEF d, b, t
  <1>4. Len(d) <= Len(t)
    <2>1. SUFFICES ASSUME Len(t) < Len(d)
                   PROVE  FALSE
      BY <1>2, <1>3
    <2>2. Len(t) + 1 \in 1..Len(s) /\ IsCutOff(b, Len(t) + 1)
      BY <1>1, <1>2, <1>3, <2>1
    <2>3. IsCutOff(s, Len(t) + 1)
      <3>1. SizeOf(b[Len(t) + 1]) \in {1, 2, 3} /\ b[Len(t) + 1] = s[Len(t) + 1]
        BY <1>1, <2>2, Sizes
      <3> QED
        BY <1>1, <2>2, <3>1 DEF IsCutOff
    <2> QED
      BY <1>2, <1>3, <2>1, <2>2, <2>3
  <1>5. \A j \in 1..Len(d) : d[j] = t[j]
    BY <1>1, <1>2, <1>3, <1>4
  <1>6. ASSUME NEW j \in 1..Len(d), IsRune(d, j)
        PROVE  IsRune(t, j)
    <2> DEFINE z == SizeOf(d[j])
    <2>1. z \in {1, 2, 3} /\ SizeOf(t[j]) = z
      BY <1>5, Sizes
    <2>2. j + z - 1 <= Len(d) /\ \A k \in j + 1 .. j + z - 1 : d[k] = "C"
      BY <1>6 DEF IsRune
    <2> HIDE DEF z
    <2>3. j + z - 1 <= Len(t) /\ \A k \in j + 1 .. j + z - 1 : t[k] = "C"
      BY <1>2, <1>3, <1>4, <1>5, <2>1, <2>2
    <2> QED
      BY <2>1, <2>3 DEF IsRune
  <1>7. ASSUME NEW j \in 1..Len(d), IsRune(t, j)
        PROVE  IsRune(d, j)
    <2> DEFINE z == SizeOf(t[j])
    <2>1. z \in {1, 2, 3} /\ SizeOf(d[j]) = z /\ SizeOf(s[j]) = z
      BY <1>2, <1>5, Sizes
    <2>2. /\ j + z - 1 <= Len(t)
          /\ \A k \in j + 1 .. j + z - 1 : t[k] = "C"
      BY <1>7 DEF IsRune
    <2> HIDE DEF z
    <2>3. j + z - 1 <= Len(d)
      <3>1. SUFFICES ASSUME j + z - 1 > Len(d)
                     PROVE  FALSE
        BY <1>2, <2>1
      <3>2. \A k \in j + 1 .. Len(d) : s[k] = "C"
        BY <1>2, <1>5, <2>1, <2>2, <3>1
      <3>3. CASE Len(d) = Len(s)
        <4>1. IsCutOff(s, j)
          BY <1>2, <2>1, <3>1, <3>2, <3>3 DEF IsCutOff
        <4> QED
          BY <1>2, <3>3, <4>1
      <3>4. CASE Len(d) < Len(s)
        <4> DEFINE i == Len(d) + 1
        <4>1. i \in 1..Len(s) /\ i \in j + 1 .. j + z - 1 /\ i <= Len(t)
          BY <1>2, <2>1, <2>2, <3>1, <3>4
        <4>2. s[i] = "C"
          BY <1>1, <1>3, <2>2, <4>1
        <4>3. i + SizeOf(s[i]) - 1 > Len(s)
          BY <1>2, <3>4 DEF IsCutOff
        <4> QED
          BY <4>1, <4>2, <4>3, Sizes
      <3> QED
        BY <1>2, <3>3, <3>4
    <2>4. \A k \in j + 1 .. j + z - 1 : d[k] = "C"
      BY <1>2, <1>5, <2>1, <2>2, <2>3
    <2> QED
      BY <2>1, <2>3, <2>4 DEF IsRune
  <1>8. Settled(d, t)
    BY <1>2, <1>3, <1>4, <1>5, <1>6, <1>7 DEF Settled
  <1> QED
    BY <1>8 DEF d, b, t

(* The runes of the end of a text are those of the text.                   *)
LEMMA RunesOfEnd ==
  ASSUME NEW s \in Seq(Bytes), NEW p \in 1 .. Len(s) + 1, NEW j \in 1 .. Len(s) + 1 - p
  PROVE  /\ IsRune(From(s, p), j) <=> IsRune(s, p + j - 1)
         /\ IsCutOff(From(s, p), j) <=> IsCutOff(s, p + j - 1)
  <1> DEFINE f == From(s, p)
             z == SizeOf(f[j])
  <1>1. /\ Len(f) = Len(s) + 1 - p /\ Len(s) \in Nat
        /\ \A k \in 1 .. Len(s) + 1 - p : f[k] = s[p + k - 1]
    <2> HIDE DEF z
    <2>1. Len(s) \in Nat
      OBVIOUS
    <2>2. /\ Len(f) = Len(s) + 1 - p
          /\ \A k \in 1 .. Len(s) + 1 - p : f[k] = s[p + k - 1]
      BY FromFacts
    <2> QED
      BY <2>1, <2>2
  <1>2. z \in {1, 2, 3} /\ SizeOf(s[p + j - 1]) = z
    BY <1>1, Sizes
  <1> HIDE DEF f, z
  <1>3. \A n \in j .. Len(f) : (\A k \in j + 1 .. n : f[k] = "C")
                               <=> (\A k \in p + j .. p + n - 1 : s[k] = "C")
    <2>1. ASSUME NEW n \in j .. Len(f), \A k \in j + 1 .. n : f[k] = "C",
                 NEW k \in p + j .. p + n - 1
          PROVE  s[k] = "C"
      <3>1. k - p + 1 \in j + 1 .. n /\ k - p + 1 \in 1 .. Len(s) + 1 - p /\ p + (k - p + 1) - 1 = k
        BY <1>1
      <3> QED
        BY <1>1, <2>1, <3>1
    <2>2. ASSUME NEW n \in j .. Len(f), \A k \in p + j .. p + n - 1 : s[k] = "C",
                 NEW k \in j + 1 .. n
          PROVE  f[k] = "C"
      <3>1. p + k - 1 \in p + j .. p + n - 1 /\ k \in 1 .. Len(s) + 1 - p
        BY <1>1
      <3> QED
        BY <1>1, <2>2, <3>1
    <2> QED
      BY <2>1, <2>2
  <1>4. IsRune(f, j) <=> IsRune(s, p + j - 1)
    <2>1. IsRune(f, j) <=> j + z - 1 <= Len(f) /\ \A k \in j + 1 .. j + z - 1 : f[k] = "C"
      BY DEF IsRune, z
    <2>2. IsRune(s, p + j - 1) <=> /\ (p + j - 1) + z - 1 <= Len(s)
                                   /\ \A k \in (p + j - 1) + 1 .. (p + j - 1) + z - 1 : s[k] = "C"
      BY <1>2 DEF IsRune
    <2>3. (p + j - 1) + 1 = p + j /\ (p + j - 1) + z - 1 = p + (j + z - 1) - 1
      BY <1>1, <1>2
    <2>4. j + z - 1 <= Len(f) <=> (p + j - 1) + z - 1 <= Len(s)
      BY <1>1, <1>2
    <2>5. j + z - 1 <= Len(f) => j + z - 1 \in j .. Len(f)
      BY <1>1, <1>2
    <2> QED
      BY <1>3, <2>1, <2>2, <2>3, <2>4, <2>5
  <1>5. IsCutOff(f, j) <=> IsCutOff(s, p + j - 1)
    <2>1. IsCutOff(f, j) <=> j + z - 1 > Len(f) /\ \A k \in j + 1 .. Len(f) : f[k] = "C"
      BY DEF IsCutOff, z
    <2>2. IsCutOff(s, p + j - 1) <=> /\ (p + j - 1) + z - 1 > Len(s)
                                     /\ \A k \in (p + j - 1) + 1 .. Len(s) : s[k] = "C"
      BY <1>2 DEF IsCutOff
    <2>3. (p + j - 1) + 1 = p + j /\ Len(s) = p + Len(f) - 1 /\ Len(f) \in j .. Len(f)
      BY <1>1
    <2>4. j + z - 1 > Len(f) <=> (p + j - 1) + z - 1 > Len(s)
      BY <1>1, <1>2
    <2> QED
      BY <1>3, <2>1, <2>2, <2>3, <2>4
  <1> QED
    BY <1>4, <1>5 DEF f

(* The text of the end of a body is the end of its text.                   *)
LEMMA DecodeEnd ==
  ASSUME NEW s \in Seq(Bytes), NEW p \in 1 .. Len(DecodePrefix(s)) + 1
  PROVE  DecodePrefix(From(s, p)) = From(DecodePrefix(s), p)
  <1> DEFINE d == DecodePrefix(s)
             f == From(s, p)
  <1>1. /\ d \in Seq(Bytes) /\ Len(d) \in 0..Len(s) /\ Len(s) \in Nat
        /\ \A j \in 1..Len(d) : d[j] = s[j]
        /\ Len(d) < Len(s) => IsCutOff(s, Len(d) + 1)
        /\ \A i \in 1..Len(s) : IsCutOff(s, i) => i = Len(d) + 1
        /\ Len(d) = Len(s) => d = s
    BY DecodeFacts
  <1>2. p \in 1 .. Len(s) + 1
    BY <1>1
  <1>3. /\ f \in Seq(Bytes) /\ Len(f) = Len(s) + 1 - p
        /\ \A j \in 1 .. Len(s) + 1 - p : f[j] = s[p + j - 1]
    BY <1>2, FromFacts
  <1>4. /\ From(d, p) \in Seq(Bytes) /\ Len(From(d, p)) = Len(d) + 1 - p
        /\ \A j \in 1 .. Len(d) + 1 - p : From(d, p)[j] = d[p + j - 1]
    BY <1>1, FromFacts
  <1>5. \A j \in 1 .. Len(s) + 1 - p : IsCutOff(f, j) <=> IsCutOff(s, p + j - 1)
    BY <1>2, RunesOfEnd
  <1> HIDE DEF d, f
  <1>6. CASE Len(d) = Len(s)
    <2>1. ASSUME NEW j \in 1..Len(f)
          PROVE  ~IsCutOff(f, j)
      <3>1. j \in 1 .. Len(s) + 1 - p /\ p + j - 1 \in 1..Len(s) /\ p + j - 1 # Len(s) + 1
        BY <1>1, <1>2, <1>3
      <3> QED
        BY <1>1, <1>5, <1>6, <3>1
    <2>2. DecodePrefix(f) = f
      BY <2>1 DEF DecodePrefix
    <2> QED
      BY <1>1, <1>6, <2>2 DEF d, f
  <1>7. CASE Len(d) < Len(s)
    <2> DEFINE j == Len(d) + 2 - p
    <2>1. j \in 1..Len(f) /\ p + j - 1 = Len(d) + 1 /\ j - 1 = Len(d) + 1 - p
          /\ j \in 1 .. Len(s) + 1 - p /\ j - 1 \in 0..Len(f)
      BY <1>1, <1>3, <1>7 DEF d
    <2> HIDE DEF j
    <2>2. IsCutOff(f, j)
      BY <1>1, <1>5, <1>7, <2>1
    <2>3. DecodePrefix(f) = SubSeq(f, 1, j - 1)
      BY <1>3, <2>1, <2>2, DecodeCutOff
    <2>4. /\ SubSeq(f, 1, j - 1) \in Seq(Bytes) /\ Len(SubSeq(f, 1, j - 1)) = j - 1
          /\ \A k \in 1 .. j - 1 : SubSeq(f, 1, j - 1)[k] = f[k]
      BY <1>3, <2>1, PrefixFacts
    <2>5. \A k \in 1 .. j - 1 : f[k] = From(d, p)[k]
      <3>1. SUFFICES ASSUME NEW k \in 1 .. j - 1
                     PROVE  f[k] = From(d, p)[k]
        OBVIOUS
      <3>2. k \in 1 .. Len(d) + 1 - p /\ k \in 1 .. Len(s) + 1 - p /\ p + k - 1 \in 1..Len(d)
        BY <1>1, <2>1
      <3> QED
        BY <1>1, <1>3, <1>4, <3>2
    <2>6. SubSeq(f, 1, j - 1) = From(d, p)
      BY <1>4, <2>1, <2>4, <2>5, SeqEqual
    <2> QED
      BY <2>3, <2>6 DEF d, f
  <1> QED
    BY <1>1, <1>6, <1>7

LEMMA SettledEnd ==
  ASSUME NEW r, NEW t, Settled(r, t), NEW p \in 1 .. Len(r) + 1
  PROVE  Settled(From(r, p), From(t, p))
  <1>1. /\ r \in Seq(Bytes) /\ t \in Seq(Bytes) /\ Len(r) \in Nat /\ Len(t) \in Nat
        /\ Len(r) <= Len(t)
        /\ \A j \in 1..Len(r) : r[j] = t[j] /\ (IsRune(r, j) <=> IsRune(t, j))
    BY DEF Settled
  <1>2. /\ From(r, p) \in Seq(Bytes) /\ Len(From(r, p)) = Len(r) + 1 - p
        /\ \A j \in 1 .. Len(r) + 1 - p : From(r, p)[j] = r[p + j - 1]
    BY <1>1, FromFacts
  <1>3. /\ From(t, p) \in Seq(Bytes) /\ Len(From(t, p)) = Len(t) + 1 - p
        /\ \A j \in 1 .. Len(t) + 1 - p : From(t, p)[j] = t[p + j - 1]
    <2>1. p \in 1 .. Len(t) + 1
      BY <1>1
    <2> QED
      BY <1>1, <2>1, FromFacts
  <1>4. ASSUME NEW j \in 1 .. Len(r) + 1 - p
        PROVE  /\ From(r, p)[j] = From(t, p)[j]
               /\ IsRune(From(r, p), j) <=> IsRune(From(t, p), j)
    <2>1. p + j - 1 \in 1..Len(r) /\ j \in 1 .. Len(t) + 1 - p /\ p \in 1 .. Len(t) + 1
      BY <1>1
    <2>2. IsRune(From(r, p), j) <=> IsRune(r, p + j - 1)
      BY <1>1, RunesOfEnd
    <2>3. IsRune(From(t, p), j) <=> IsRune(t, p + j - 1)
      BY <1>1, <2>1, RunesOfEnd
    <2> QED
      BY <1>1, <1>2, <1>3, <2>1, <2>2, <2>3
  <1> QED
    BY <1>1, <1>2, <1>3, <1>4 DEF Settled

(* So are where runes end and how many units they have.                    *)
LEMMA SettledUnits ==
  ASSUME NEW r, NEW t, Settled(r, t), NEW k \in 0..Len(r)
  PROVE  /\ k \in RuneEnds(r) <=> k \in RuneEnds(t)
         /\ UnitsIn(r, k) = UnitsIn(t, k)
  <1>1. /\ Len(r) \in Nat /\ Len(t) \in Nat /\ Len(r) <= Len(t)
        /\ \A j \in 1..Len(r) : r[j] = t[j] /\ (IsRune(r, j) <=> IsRune(t, j))
    BY DEF Settled
  <1>2. \A j \in 1..Len(r) : RuneBytes(r, j) = RuneBytes(t, j) /\ RuneUnits(r, j) = RuneUnits(t, j)
    BY <1>1 DEF RuneBytes, RuneUnits
  <1>3. k \in RuneEnds(r) <=> k \in RuneEnds(t)
    BY <1>1, <1>2 DEF RuneEnds
  <1>4. \A j \in 1..k : UnitsAt(r, j) = UnitsAt(t, j)
    <2>1. SUFFICES ASSUME NEW j \in 1..k
                   PROVE  UnitsAt(r, j) = UnitsAt(t, j)
      OBVIOUS
    <2>2. j \in 1..Len(r) /\ \A i \in 1 .. j - 1 : i \in 1..Len(r)
      BY <1>1
    <2>3. (\E i \in 1 .. j - 1 : i + RuneBytes(r, i) > j)
            <=> (\E i \in 1 .. j - 1 : i + RuneBytes(t, i) > j)
      BY <1>2, <2>2
    <2> QED
      BY <1>2, <2>2, <2>3 DEF UnitsAt
  <1>5. [j \in 1..k |-> UnitsAt(r, j)] = [j \in 1..k |-> UnitsAt(t, j)]
    BY <1>4
  <1>6. UnitsIn(r, k) = UnitsIn(t, k)
    BY <1>5 DEF UnitsIn
  <1> QED
    BY <1>3, <1>6

(***************************************************************************)
(* Framing: one chunk.                                                     *)
(***************************************************************************)
LEMMA DigitsFacts ==
  ASSUME NEW s \in Seq(Bytes)
  PROVE  /\ Digits(s) \in 0..Len(s)
         /\ \A i \in 1..Digits(s) : IsDigit(s[i])
         /\ Digits(s) = Len(s) \/ ~IsDigit(s[Digits(s) + 1])
  <1>1. \E n \in 0..Len(s) : /\ \A i \in 1..n : IsDigit(s[i])
                             /\ n = Len(s) \/ ~IsDigit(s[n + 1])
    <2>1. CASE \A i \in 1..Len(s) : IsDigit(s[i])
      BY <2>1
    <2>2. CASE ~ \A i \in 1..Len(s) : IsDigit(s[i])
      <3> DEFINE T == {i \in 1..Len(s) : ~IsDigit(s[i])}
      <3>1. T \in SUBSET Nat /\ T # {}
        BY <2>2
      <3>2. PICK m \in T : \A l \in T : m <= l
        BY <3>1, LeastNumber
      <3>3. \A i \in 1 .. m - 1 : IsDigit(s[i])
        BY <3>2
      <3>4. m - 1 \in 0..Len(s) /\ ~IsDigit(s[(m - 1) + 1])
        BY <3>2
      <3> QED
        BY <3>3, <3>4
    <2> QED
      BY <2>1, <2>2
  <1> QED
    BY <1>1 DEF Digits

LEMMA NotDigits == ~IsDigit("lf")
  BY DEF IsDigit, DigitOf

(* The one length that can stand at a place: its digits and no more.       *)
LEMMA LengthIs ==
  ASSUME NEW t \in Seq(Bytes), NEW i \in 1..Len(t), NEW n \in Nat, i + n <= Len(t),
         \A k \in i .. i + n - 1 : IsDigit(t[k]), ~IsDigit(t[i + n]),
         NEW l \in 1 .. Len(t) - i, IsLength(t, i, l)
  PROVE  l = n
  <1>1. /\ \A k \in i .. i + l - 1 : IsDigit(t[k])
        /\ ~IsDigit(t[i + l])
    BY NotDigits DEF IsLength
  <1>2. ~(l < n)
    <2>1. l < n => i + l \in i .. i + n - 1
      OBVIOUS
    <2> QED
      BY <1>1, <2>1
  <1>3. ~(n < l)
    <2>1. n < l => i + n \in i .. i + l - 1
      OBVIOUS
    <2> QED
      BY <1>1, <2>1
  <1> QED
    BY <1>2, <1>3

(* A line that is not incomplete, seen in the text t of a longer body:     *)
(* place i of t is where the decoded buffer begins.                        *)
LineAt(d, t, i) ==
  /\ t \in Seq(Bytes) /\ i \in 1 .. Len(t) + 1
  /\ Settled(d, From(t, i))
  /\ ~LineIncomplete(d)

LEMMA LineFacts ==
  ASSUME NEW d, NEW t, NEW i, LineAt(d, t, i)
  PROVE  /\ d \in Seq(Bytes) /\ Len(d) \in Nat /\ Len(t) \in Nat /\ i \in 1..Len(t)
         /\ Len(d) <= Len(t) + 1 - i
         /\ \A j \in 1..Len(d) : t[i + j - 1] = d[j]
         /\ Digits(d) \in 0 .. Len(d) - 1
         /\ i + Digits(d) <= Len(t)
         /\ \A k \in i .. i + Digits(d) - 1 : IsDigit(t[k])
         /\ ~IsDigit(t[i + Digits(d)])
         /\ t[i + Digits(d)] = d[Digits(d) + 1]
  <1>1. /\ t \in Seq(Bytes) /\ i \in 1 .. Len(t) + 1 /\ Len(t) \in Nat
        /\ d \in Seq(Bytes) /\ Len(d) \in Nat /\ Len(d) <= Len(From(t, i))
        /\ \A j \in 1..Len(d) : d[j] = From(t, i)[j]
    BY DEF LineAt, Settled
  <1>2. Len(From(t, i)) = Len(t) + 1 - i /\ \A j \in 1 .. Len(t) + 1 - i : From(t, i)[j] = t[i + j - 1]
    BY <1>1, FromFacts
  <1>3. /\ Digits(d) \in 0..Len(d) /\ Digits(d) # Len(d)
        /\ \A j \in 1..Digits(d) : IsDigit(d[j])
        /\ Digits(d) = Len(d) \/ ~IsDigit(d[Digits(d) + 1])
    BY <1>1, DigitsFacts DEF LineAt, LineIncomplete
  <1> DEFINE n == Digits(d)
  <1>4. n \in 0 .. Len(d) - 1
    BY <1>1, <1>3
  <1> HIDE DEF n
  <1>5. \A j \in 1..Len(d) : t[i + j - 1] = d[j]
    BY <1>1, <1>2
  <1>6. i \in 1..Len(t) /\ i + n <= Len(t) /\ Len(d) <= Len(t) + 1 - i
    BY <1>1, <1>2, <1>4
  <1>7. t[i + n] = d[n + 1]
    <2>1. n + 1 \in 1..Len(d) /\ i + (n + 1) - 1 = i + n
      BY <1>1, <1>4, <1>6
    <2> QED
      BY <1>5, <2>1
  <1>8. ASSUME NEW k \in i .. i + n - 1
        PROVE  IsDigit(t[k])
    <2>1. k - i + 1 \in 1..n /\ k - i + 1 \in 1..Len(d) /\ i + (k - i + 1) - 1 = k
      BY <1>1, <1>4, <1>6
    <2> QED
      BY <1>3, <1>5, <2>1 DEF n
  <1> QED
    BY <1>1, <1>3, <1>4, <1>5, <1>6, <1>7, <1>8 DEF n

(* A byte that the parser drops is one the reference skips.                *)
LEMMA DropIsSkip ==
  ASSUME NEW d, NEW t, NEW i, LineAt(d, t, i), LinePoisoned(d), NEW f
  PROVE  FramesAt(t, i, f) = f[i + 1]
  <1> DEFINE n == Digits(d)
  <1>1. /\ t \in Seq(Bytes) /\ i \in 1..Len(t) /\ n \in Nat /\ i + n <= Len(t)
        /\ \A k \in i .. i + n - 1 : IsDigit(t[k])
        /\ ~IsDigit(t[i + n]) /\ t[i + n] = d[n + 1]
        /\ Len(d) \in Nat /\ Len(t) \in Nat /\ n \in 0 .. Len(d) - 1
    BY LineFacts DEF LineAt
  <1>2. n = 0 \/ d[n + 1] # "lf"
    BY DEF LinePoisoned
  <1> HIDE DEF n
  <1>3. {l \in 1 .. Len(t) - i : IsLength(t, i, l)} = {}
    <2>1. SUFFICES ASSUME NEW l \in 1 .. Len(t) - i, IsLength(t, i, l)
                   PROVE  FALSE
      OBVIOUS
    <2>2. l = n
      BY <1>1, <2>1, LengthIs
    <2>3. t[i + l] = "lf" /\ l # 0
      BY <2>1 DEF IsLength
    <2> QED
      BY <1>1, <1>2, <2>2, <2>3
  <1>4. ~ \A k \in i .. Len(t) : IsDigit(t[k])
    BY <1>1
  <1> QED
    BY <1>3, <1>4 DEF FramesAt

(* The length the parser finds is the one the reference finds.             *)
LEMMA LengthFound ==
  ASSUME NEW d, NEW t, NEW i, LineAt(d, t, i), ~LinePoisoned(d)
  PROVE  /\ {l \in 1 .. Len(t) - i : IsLength(t, i, l)} = {Digits(d)}
         /\ ~ \A k \in i .. Len(t) : IsDigit(t[k])
         /\ SubSeq(t, i, i + Digits(d) - 1) = SubSeq(d, 1, Digits(d))
         /\ Digits(d) + 2 \in 1 .. Len(d) + 1
         /\ Settled(Rest(d), From(t, i + Digits(d) + 1))
         /\ From(t, i + Digits(d) + 1) \in Seq(Bytes)
         /\ Len(From(t, i + Digits(d) + 1)) = Len(t) - i - Digits(d)
         /\ Len(Rest(d)) = Len(d) - Digits(d) - 1
  <1> DEFINE n == Digits(d)
  <1>1. /\ t \in Seq(Bytes) /\ i \in 1..Len(t) /\ n \in Nat /\ i + n <= Len(t)
        /\ \A k \in i .. i + n - 1 : IsDigit(t[k])
        /\ ~IsDigit(t[i + n]) /\ t[i + n] = d[n + 1]
        /\ d \in Seq(Bytes) /\ Len(d) \in Nat /\ Len(t) \in Nat /\ n \in 0 .. Len(d) - 1
        /\ \A j \in 1..Len(d) : t[i + j - 1] = d[j]
        /\ Settled(d, From(t, i))
    BY LineFacts DEF LineAt
  <1>2. n # 0 /\ d[n + 1] = "lf"
    BY <1>1 DEF LinePoisoned
  <1>3. Rest(d) = From(d, n + 2)
    BY DEF Rest
  <1> HIDE DEF n
  <1>4. {l \in 1 .. Len(t) - i : IsLength(t, i, l)} = {n}
    <2>1. \A l \in 1 .. Len(t) - i : IsLength(t, i, l) => l = n
      BY <1>1, LengthIs
    <2>2. n \in 1 .. Len(t) - i /\ IsLength(t, i, n)
      BY <1>1, <1>2 DEF IsLength
    <2> QED
      BY <2>1, <2>2
  <1>5. ~ \A k \in i .. Len(t) : IsDigit(t[k])
    BY <1>1
  <1>6. SubSeq(t, i, i + n - 1) = SubSeq(d, 1, n)
    <2>1. /\ SubSeq(d, 1, n) \in Seq(Bytes) /\ Len(SubSeq(d, 1, n)) = n
          /\ \A j \in 1..n : SubSeq(d, 1, n)[j] = d[j]
      BY <1>1, PrefixFacts
    <2>2. /\ SubSeq(t, i, i + n - 1) \in Seq(Bytes) /\ Len(SubSeq(t, i, i + n - 1)) = n
          /\ \A j \in 1..n : SubSeq(t, i, i + n - 1)[j] = t[i + j - 1]
      BY <1>1
    <2>3. \A j \in 1..n : t[i + j - 1] = d[j]
      BY <1>1
    <2> QED
      BY <2>1, <2>2, <2>3, SeqEqual
  <1>7. n + 2 \in 1 .. Len(d) + 1
    BY <1>1
  <1>8. From(From(t, i), n + 2) = From(t, i + n + 1)
    <2>1. i \in 1 .. Len(t) + 1 /\ i + n + 1 \in 1 .. Len(t) + 1
      BY <1>1
    <2>2. /\ From(t, i) \in Seq(Bytes) /\ Len(From(t, i)) = Len(t) + 1 - i
          /\ \A j \in 1 .. Len(t) + 1 - i : From(t, i)[j] = t[i + j - 1]
      BY <1>1, <2>1, FromFacts
    <2>3. /\ From(t, i + n + 1) \in Seq(Bytes)
          /\ Len(From(t, i + n + 1)) = Len(t) + 1 - (i + n + 1)
          /\ \A j \in 1 .. Len(t) + 1 - (i + n + 1) : From(t, i + n + 1)[j] = t[(i + n + 1) + j - 1]
      BY <1>1, <2>1, FromFacts
    <2>4. n + 2 \in 1 .. Len(From(t, i)) + 1
      BY <1>1, <2>2
    <2>5. /\ From(From(t, i), n + 2) \in Seq(Bytes)
          /\ Len(From(From(t, i), n + 2)) = Len(From(t, i)) + 1 - (n + 2)
          /\ \A j \in 1 .. Len(From(t, i)) + 1 - (n + 2) :
                From(From(t, i), n + 2)[j] = From(t, i)[(n + 2) + j - 1]
      BY <2>2, <2>4, FromFacts
    <2>6. /\ Len(From(From(t, i), n + 2)) = Len(t) - i - n
          /\ Len(From(t, i + n + 1)) = Len(t) - i - n
      <3>1. /\ Len(t) + 1 - (i + n + 1) = Len(t) - i - n
            /\ (Len(t) + 1 - i) + 1 - (n + 2) = Len(t) - i - n
        BY <1>1
      <3>2. Len(From(From(t, i), n + 2)) = (Len(t) + 1 - i) + 1 - (n + 2)
        BY <2>2, <2>5
      <3>3. Len(From(t, i + n + 1)) = Len(t) + 1 - (i + n + 1)
        BY <2>3
      <3> QED
        BY <3>1, <3>2, <3>3
    <2>7. ASSUME NEW j \in 1 .. Len(From(From(t, i), n + 2))
          PROVE  From(From(t, i), n + 2)[j] = From(t, i + n + 1)[j]
      <3>1. j \in 1 .. Len(t) - i - n
        BY <2>6
      <3>2. /\ j \in 1 .. Len(t) + 1 - (i + n + 1) /\ (n + 2) + j - 1 \in 1 .. Len(t) + 1 - i
            /\ j \in 1 .. (Len(t) + 1 - i) + 1 - (n + 2)
            /\ i + ((n + 2) + j - 1) - 1 = (i + n + 1) + j - 1
        BY <1>1, <3>1
      <3> QED
        BY <2>2, <2>3, <2>5, <3>2
    <2> QED
      BY <2>3, <2>5, <2>6, <2>7, SeqEqual
  <1>9. Settled(From(d, n + 2), From(t, i + n + 1))
    BY <1>1, <1>7, <1>8, SettledEnd
  <1>10. /\ From(t, i + n + 1) \in Seq(Bytes)
         /\ Len(From(t, i + n + 1)) = Len(t) - i - n
         /\ Len(From(d, n + 2)) = Len(d) - n - 1
    <2>1. i + n + 1 \in 1 .. Len(t) + 1
      BY <1>1
    <2> QED
      BY <1>1, <1>7, <2>1, FromFacts
  <1> QED
    BY <1>3, <1>4, <1>5, <1>6, <1>7, <1>9, <1>10 DEF n

(* The chunk the parser cuts is the frame of the reference.                *)
LEMMA CutIsFrame ==
  ASSUME NEW d, NEW t, NEW i, LineAt(d, t, i), ChunkComplete(d), NEW f
  PROVE  LET m == TakeUnits(Rest(d), Number(d))
         IN  /\ m \in 0 .. Len(d) - Digits(d) - 1
             /\ FramesAt(t, i, f) = <<SubSeq(Rest(d), 1, m)>> \o f[i + Digits(d) + 1 + m]
  <1> DEFINE n == Digits(d)
             number == Number(d)
             rest == Rest(d)
             after == From(t, i + n + 1)
             m == TakeUnits(rest, number)
  <1>1. /\ {l \in 1 .. Len(t) - i : IsLength(t, i, l)} = {n}
        /\ ~ \A k \in i .. Len(t) : IsDigit(t[k])
        /\ SubSeq(t, i, i + n - 1) = SubSeq(d, 1, n)
        /\ Settled(rest, after)
        /\ after \in Seq(Bytes) /\ Len(after) = Len(t) - i - n
        /\ Len(rest) = Len(d) - n - 1
    BY LengthFound DEF ChunkComplete
  <1>2. /\ t \in Seq(Bytes) /\ i \in 1..Len(t) /\ n \in Nat /\ i + n <= Len(t)
        /\ Len(d) \in Nat /\ Len(t) \in Nat /\ n \in 0 .. Len(d) - 1
        /\ Len(d) <= Len(t) + 1 - i
    BY LineFacts DEF LineAt
  <1>3. number <= MaxInt /\ Enough(rest, number) # {}
    BY DEF ChunkComplete
  <1>4. Atoi(SubSeq(t, i, i + n - 1)) = number
    BY <1>1 DEF Number
  <1>5. rest \in Seq(Bytes) /\ Len(rest) \in Nat
    BY <1>1 DEF Settled
  <1>6. m \in Enough(rest, number) /\ \A l \in Enough(rest, number) : m <= l
    <2>1. Enough(rest, number) \in SUBSET Nat
      BY <1>5 DEF Enough, RuneEnds
    <2>2. \E k \in Enough(rest, number) : \A l \in Enough(rest, number) : k <= l
      BY <1>3, <2>1, LeastNumber
    <2> QED
      BY <2>2 DEF TakeUnits
  <1>7. \A k \in 0..Len(rest) : /\ k \in RuneEnds(rest) <=> k \in RuneEnds(after)
                                /\ UnitsIn(rest, k) = UnitsIn(after, k)
    BY <1>1, SettledUnits
  <1>8. m \in 0..Len(rest) /\ m \in RuneEnds(rest) /\ UnitsIn(rest, m) >= number
    BY <1>6 DEF Enough, RuneEnds
  <1>9. Len(rest) <= Len(t) - i - n
    BY <1>1, <1>2
  <1> HIDE DEF n, number, rest, after, m
  <1>10. \A k \in RuneEnds(after) : k < m => ~(UnitsIn(after, k) >= number)
    <2>1. SUFFICES ASSUME NEW k \in RuneEnds(after), k < m, UnitsIn(after, k) >= number
                   PROVE  FALSE
      OBVIOUS
    <2>2. k \in 0..Len(rest)
      BY <1>5, <1>8, <2>1 DEF RuneEnds
    <2>3. k \in Enough(rest, number)
      BY <1>7, <2>1, <2>2 DEF Enough
    <2> QED
      BY <1>6, <1>8, <2>1, <2>2, <2>3
  <1>11. {k \in 0 .. Len(t) - i - n : IsPayload(t, i, n, k)} = {m}
    <2>1. m \in 0 .. Len(t) - i - n
      BY <1>2, <1>5, <1>8, <1>9
    <2>2. m \in RuneEnds(after) /\ UnitsIn(after, m) >= number
      BY <1>7, <1>8
    <2>3. \A k : IsPayload(t, i, n, k) <=>
                   /\ number <= MaxInt
                   /\ k \in RuneEnds(after) /\ UnitsIn(after, k) >= number
                   /\ \A l \in RuneEnds(after) : l < k => ~(UnitsIn(after, l) >= number)
      BY <1>4 DEF IsPayload, after
    <2>4. IsPayload(t, i, n, m)
      BY <1>3, <1>10, <2>2, <2>3
    <2>5. ASSUME NEW k \in 0 .. Len(t) - i - n, IsPayload(t, i, n, k)
          PROVE  k = m
      <3>1. ~(k < m)
        BY <1>10, <2>3, <2>5
      <3>2. ~(m < k)
        BY <2>2, <2>3, <2>5
      <3> QED
        BY <1>2, <2>1, <3>1, <3>2
    <2> QED
      BY <2>1, <2>4, <2>5
  <1>12. SubSeq(t, i + n + 1, i + n + m) = SubSeq(rest, 1, m)
    <2>1. /\ SubSeq(rest, 1, m) \in Seq(Bytes) /\ Len(SubSeq(rest, 1, m)) = m
          /\ \A j \in 1..m : SubSeq(rest, 1, m)[j] = rest[j]
      BY <1>5, <1>8, PrefixFacts
    <2>2. /\ SubSeq(t, i + n + 1, i + n + m) \in Seq(Bytes)
          /\ Len(SubSeq(t, i + n + 1, i + n + m)) = m
          /\ \A j \in 1..m : SubSeq(t, i + n + 1, i + n + m)[j] = t[i + n + j]
      <3> DEFINE a == i + n
      <3>1. a \in Nat /\ a + m <= Len(t) /\ m \in Nat
        BY <1>2, <1>5, <1>8, <1>9
      <3> HIDE DEF a
      <3>2. /\ SubSeq(t, a + 1, a + m) \in Seq(Bytes)
            /\ Len(SubSeq(t, a + 1, a + m)) = m
            /\ \A j \in 1..m : SubSeq(t, a + 1, a + m)[j] = t[a + j]
        BY <1>2, <3>1, MiddleFacts
      <3> QED
        BY <3>2 DEF a
    <2>3. ASSUME NEW j \in 1..m
          PROVE  t[i + n + j] = rest[j]
      <3>1. j \in 1..Len(rest) /\ j \in 1 .. Len(t) - i - n
        BY <1>2, <1>5, <1>8, <1>9
      <3>2. rest[j] = after[j]
        BY <1>1, <3>1 DEF Settled
      <3>3. after[j] = t[(i + n + 1) + j - 1]
        <4>1. i + n + 1 \in 1 .. Len(t) + 1 /\ j \in 1 .. Len(t) + 1 - (i + n + 1)
          BY <1>2, <3>1
        <4> QED
          BY <1>2, <4>1, FromFacts DEF after
      <3>4. (i + n + 1) + j - 1 = i + n + j
        BY <1>2, <3>1
      <3> QED
        BY <3>2, <3>3, <3>4
    <2> QED
      BY <2>1, <2>2, <2>3, SeqEqual
  <1>13. FramesAt(t, i, f) = <<SubSeq(rest, 1, m)>> \o f[i + n + 1 + m]
    <2>1. (CHOOSE l \in {l \in 1 .. Len(t) - i : IsLength(t, i, l)} : TRUE) = n
      BY <1>1
    <2>2. (CHOOSE k \in {k \in 0 .. Len(t) - i - n : IsPayload(t, i, n, k)} : TRUE) = m
      BY <1>11
    <2> QED
      BY <1>1, <1>11, <1>12, <2>1, <2>2 DEF FramesAt
  <1>14. m \in 0 .. Len(d) - n - 1
    BY <1>1, <1>8
  <1> QED
    BY <1>13, <1>14 DEF n, number, rest, m

(* Where the parser waits, the text has no further frame.                  *)
LEMMA WaitIsEnd ==
  ASSUME NEW t \in Seq(Bytes), NEW i \in 1 .. Len(t) + 1, NEW f,
         ~LinePoisoned(From(t, i)), ~ChunkComplete(From(t, i))
  PROVE  FramesAt(t, i, f) = <<>>
  <1> DEFINE d == From(t, i)
  <1>1. /\ d \in Seq(Bytes) /\ Len(d) = Len(t) + 1 - i /\ Len(t) \in Nat
        /\ \A j \in 1 .. Len(t) + 1 - i : d[j] = t[i + j - 1]
    BY FromFacts
  <1>2. CASE LineIncomplete(d)
    <2>1. \A j \in 1..Len(d) : IsDigit(d[j])
      BY <1>1, <1>2, DigitsFacts DEF LineIncomplete
    <2>2. ASSUME NEW k \in i .. Len(t)
          PROVE  IsDigit(t[k])
      <3>1. k - i + 1 \in 1 .. Len(t) + 1 - i /\ i + (k - i + 1) - 1 = k
        BY <1>1
      <3> QED
        BY <1>1, <2>1, <3>1
    <2> QED
      BY <2>2 DEF FramesAt
  <1>3. CASE ~LineIncomplete(d)
    <2> DEFINE n == Digits(d)
               number == Number(d)
               rest == Rest(d)
    <2>1. LineAt(d, t, i)
      BY <1>1, <1>3 DEF LineAt, Settled
    <2>2. /\ {l \in 1 .. Len(t) - i : IsLength(t, i, l)} = {n}
          /\ ~ \A k \in i .. Len(t) : IsDigit(t[k])
          /\ SubSeq(t, i, i + n - 1) = SubSeq(d, 1, n)
          /\ Settled(rest, From(t, i + n + 1))
          /\ Len(From(t, i + n + 1)) = Len(t) - i - n
          /\ Len(rest) = Len(d) - n - 1
      BY <2>1, LengthFound
    <2>3. n \in Nat
      BY <2>1, LineFacts
    <2>4. From(t, i + n + 1) = rest
      <3> HIDE DEF d, n, rest
      <3>1. Len(rest) = Len(d) - n - 1
        BY <2>2
      <3>2. Len(d) = Len(t) + 1 - i /\ Len(t) \in Nat
        BY <1>1
      <3>3. Len(rest) = Len(t) - i - n
        BY <2>3, <3>1, <3>2
      <3> QED
        BY <2>2, <3>3, SeqEqual DEF Settled
    <2>5. ~(number <= MaxInt) \/ Enough(rest, number) = {}
      BY <1>3 DEF ChunkComplete
    <2>6. Atoi(SubSeq(t, i, i + n - 1)) = number
      BY <2>2 DEF Number
    <2> HIDE DEF n, number, rest
    <2>7. \A k : ~IsPayload(t, i, n, k)
      BY <2>4, <2>5, <2>6 DEF IsPayload, Enough
    <2>8. (CHOOSE l \in {l \in 1 .. Len(t) - i : IsLength(t, i, l)} : TRUE) = n
      BY <2>2
    <2>9. {k \in 0 .. Len(t) - i - n : IsPayload(t, i, n, k)} = {}
      BY <2>7
    <2> QED
      BY <2>2, <2>8, <2>9 DEF FramesAt
  <1> QED
    BY <1>2, <1>3

(***************************************************************************)
(* Framing: the reference, a recursive function, is what its body says.    *)
(***************************************************************************)

(* The frames from a place on are none, those from the next place on, or   *)
(* one frame and those behind it.                                          *)
LEMMA FramesCases ==
  ASSUME NEW t \in Seq(Bytes), NEW p \in 1 .. Len(t) + 1
  PROVE  \/ \A g : FramesAt(t, p, g) = <<>>
         \/ p <= Len(t) /\ \A g : FramesAt(t, p, g) = g[p + 1]
         \/ \E c \in Seq(Bytes), q \in p + 1 .. Len(t) + 1 :
              \A g : FramesAt(t, p, g) = <<c>> \o g[q]
  <1> DEFINE lengths == {n \in 1 .. Len(t) - p : IsLength(t, p, n)}
             payloads(n) == {m \in 0 .. Len(t) - p - n : IsPayload(t, p, n, m)}
             n0 == CHOOSE n \in lengths : TRUE
             m0 == CHOOSE m \in payloads(n0) : TRUE
             c0 == SubSeq(t, p + n0 + 1, p + n0 + m0)
  <1>1. CASE \A k \in p .. Len(t) : IsDigit(t[k])
    BY <1>1 DEF FramesAt
  <1>2. CASE ~(\A k \in p .. Len(t) : IsDigit(t[k])) /\ lengths = {}
    <2>1. p <= Len(t)
      BY <1>2
    <2> QED
      BY <1>2, <2>1 DEF FramesAt
  <1>3. CASE ~(\A k \in p .. Len(t) : IsDigit(t[k])) /\ lengths # {} /\ payloads(n0) = {}
    BY <1>3 DEF FramesAt
  <1>4. CASE ~(\A k \in p .. Len(t) : IsDigit(t[k])) /\ lengths # {} /\ payloads(n0) # {}
    <2>1. n0 \in lengths /\ m0 \in payloads(n0)
      BY <1>4
    <2>2. \A g : FramesAt(t, p, g) = <<c0>> \o g[p + n0 + 1 + m0]
      BY <1>4 DEF FramesAt
    <2>3. n0 \in 1 .. Len(t) - p /\ m0 \in 0 .. Len(t) - p - n0
      BY <2>1
    <2> HIDE DEF lengths, payloads, n0, m0
    <2> DEFINE a == p + n0
    <2>4. a \in Nat /\ m0 \in Nat /\ a + m0 <= Len(t)
      BY <2>3
    <2>5. a + 1 + m0 \in p + 1 .. Len(t) + 1
      BY <2>3
    <2> HIDE DEF a
    <2>6. SubSeq(t, a + 1, a + m0) \in Seq(Bytes)
      BY <2>4, MiddleFacts
    <2>7. c0 \in Seq(Bytes) /\ p + n0 + 1 + m0 \in p + 1 .. Len(t) + 1
      BY <2>5, <2>6 DEF a
    <2> QED
      BY <2>2, <2>7, Zenon
  <1> QED
    BY <1>1, <1>2, <1>3, <1>4

LEMMA FramesOfLater ==
  ASSUME NEW t \in Seq(Bytes), NEW p \in 1 .. Len(t) + 1, NEW g, NEW h,
         \A q \in p + 1 .. Len(t) + 1 : g[q] = h[q]
  PROVE  FramesAt(t, p, g) = FramesAt(t, p, h)
  <1>1. p <= Len(t) => p + 1 \in p + 1 .. Len(t) + 1
    OBVIOUS
  <1>2. CASE \A f : FramesAt(t, p, f) = <<>>
    BY <1>2, Zenon
  <1>3. CASE p <= Len(t) /\ \A f : FramesAt(t, p, f) = f[p + 1]
    BY <1>1, <1>3, Zenon
  <1>4. CASE \E c \in Seq(Bytes), q \in p + 1 .. Len(t) + 1 :
               \A f : FramesAt(t, p, f) = <<c>> \o f[q]
    <2>1. PICK c \in Seq(Bytes), q \in p + 1 .. Len(t) + 1 :
                 \A f : FramesAt(t, p, f) = <<c>> \o f[q]
      BY <1>4, Zenon
    <2>2. g[q] = h[q]
      BY Zenon
    <2>3. FramesAt(t, p, g) = <<c>> \o g[q] /\ FramesAt(t, p, h) = <<c>> \o h[q]
      BY <2>1, Zenon
    <2> QED
      BY <2>2, <2>3, Zenon
  <1> QED
    BY <1>2, <1>3, <1>4, FramesCases, Zenon

(* Down from the end of the text: what holds at a place if it holds at all *)
(* later ones holds at each.                                               *)
LEMMA Downward ==
  ASSUME NEW L \in Nat, NEW H \in SUBSET (1 .. L + 1),
         \A p \in 1 .. L + 1 : (p + 1 .. L + 1) \subseteq H => p \in H
  PROVE  H = 1 .. L + 1
  <1> DEFINE T == {n \in Nat : n <= L /\ ~(L + 1 - n \in H)}
  <1>1. T = {}
    <2>1. SUFFICES ASSUME T # {}
                   PROVE  FALSE
      OBVIOUS
    <2>2. PICK m \in T : \A l \in T : m <= l
      <3>1. T \in SUBSET Nat
        OBVIOUS
      <3> HIDE DEF T
      <3> QED
        BY <2>1, <3>1, LeastNumber
    <2> DEFINE p == L + 1 - m
    <2>3. p \in 1 .. L + 1 /\ ~(p \in H)
      BY <2>2
    <2>4. ASSUME NEW q \in p + 1 .. L + 1
          PROVE  q \in H
      <3>1. L + 1 - q \in Nat /\ L + 1 - q <= L /\ L + 1 - (L + 1 - q) = q /\ ~(m <= L + 1 - q)
        BY <2>2, <2>3, <2>4
      <3> QED
        BY <2>2, <3>1
    <2> QED
      BY <2>3, <2>4
  <1>2. ASSUME NEW p \in 1 .. L + 1
        PROVE  p \in H
    <2>1. L + 1 - p \in Nat /\ L + 1 - p <= L /\ L + 1 - (L + 1 - p) = p
      OBVIOUS
    <2> QED
      BY <1>1, <2>1
  <1> QED
    BY <1>2

(* The frames from place k on, as a function of the place.                 *)
FramesDown(t, k, g) == g = [i \in k .. Len(t) + 1 |-> FramesAt(t, i, g)]

LEMMA FramesStep ==
  ASSUME NEW t \in Seq(Bytes), NEW k \in 1 .. Len(t) + 1, NEW g, FramesDown(t, k + 1, g)
  PROVE  \E h : FramesDown(t, k, h)
  <1> DEFINE h == [i \in k .. Len(t) + 1 |-> IF i = k THEN FramesAt(t, k, g) ELSE g[i]]
  <1>1. \A i \in k + 1 .. Len(t) + 1 : g[i] = FramesAt(t, i, g)
    BY Zenon DEF FramesDown
  <1>2. \A i \in k + 1 .. Len(t) + 1 : i \in k .. Len(t) + 1 /\ i # k
    OBVIOUS
  <1>3. \A i \in k + 1 .. Len(t) + 1 : g[i] = h[i]
    BY <1>2
  <1>4. ASSUME NEW i \in k .. Len(t) + 1
        PROVE  FramesAt(t, i, g) = FramesAt(t, i, h)
    <2>1. i \in 1 .. Len(t) + 1 /\ \A q \in i + 1 .. Len(t) + 1 : q \in k + 1 .. Len(t) + 1
      OBVIOUS
    <2>2. \A q \in i + 1 .. Len(t) + 1 : g[q] = h[q]
      BY <1>3, <2>1
    <2> HIDE DEF h
    <2> QED
      BY <2>1, <2>2, FramesOfLater
  <1>5. ASSUME NEW i \in k .. Len(t) + 1
        PROVE  h[i] = FramesAt(t, i, h)
    <2>1. CASE i = k
      BY <1>4, <2>1
    <2>2. CASE i # k
      <3>1. i \in k + 1 .. Len(t) + 1
        BY <2>2
      <3> HIDE DEF h
      <3> QED
        BY <1>1, <1>3, <1>4, <3>1
    <2> QED
      BY <2>1, <2>2
  <1>6. h = [i \in k .. Len(t) + 1 |-> h[i]]
    OBVIOUS
  <1> HIDE DEF h
  <1>7. h = [i \in k .. Len(t) + 1 |-> FramesAt(t, i, h)]
    BY <1>5, <1>6
  <1> QED
    BY <1>7, Zenon DEF FramesDown

LEMMA FramesExist ==
  ASSUME NEW t \in Seq(Bytes)
  PROVE  \E g : FramesDown(t, 1, g)
  <1> DEFINE H == {p \in 1 .. Len(t) + 1 : \E g : FramesDown(t, p, g)}
  <1>1. ASSUME NEW p \in 1 .. Len(t) + 1, (p + 1 .. Len(t) + 1) \subseteq H
        PROVE  p \in H
    <2>1. \E g : FramesDown(t, p + 1, g)
      <3>1. CASE p = Len(t) + 1
        <4>1. p + 1 .. Len(t) + 1 = {}
          BY <3>1
        <4> DEFINE g == [i \in {} |-> {}]
        <4>2. FramesDown(t, p + 1, g)
          BY <4>1 DEF FramesDown
        <4> QED
          BY <4>2, Zenon
      <3>2. CASE p # Len(t) + 1
        <4>1. p + 1 \in p + 1 .. Len(t) + 1
          BY <3>2
        <4>2. p + 1 \in H
          BY <1>1, <4>1
        <4> QED
          BY <4>2, Zenon
      <3> QED
        BY <3>1, <3>2
    <2>2. \E h : FramesDown(t, p, h)
      BY <2>1, FramesStep, Zenon
    <2> QED
      BY <2>2, Zenon
  <1>2. H = 1 .. Len(t) + 1
    <2>1. H \in SUBSET (1 .. Len(t) + 1) /\ Len(t) \in Nat
      OBVIOUS
    <2> HIDE DEF H
    <2> QED
      BY <1>1, <2>1, Downward
  <1>3. 1 \in 1 .. Len(t) + 1
    OBVIOUS
  <1>4. 1 \in H
    BY <1>2, <1>3, Zenon
  <1> QED
    BY <1>4, Zenon

LEMMA FramesEq ==
  ASSUME NEW t \in Seq(Bytes), NEW p \in 1 .. Len(t) + 1
  PROVE  FramesFrom(t)[p] = FramesAt(t, p, FramesFrom(t))
  <1> DEFINE f == FramesFrom(t)
  <1>1. f = CHOOSE g : g = [i \in 1 .. Len(t) + 1 |-> FramesAt(t, i, g)]
    BY DEF FramesFrom
  <1>2. \E g : g = [i \in 1 .. Len(t) + 1 |-> FramesAt(t, i, g)]
    BY FramesExist, Zenon DEF FramesDown
  <1> HIDE DEF f
  <1>3. f = [i \in 1 .. Len(t) + 1 |-> FramesAt(t, i, f)]
    BY <1>1, <1>2, Zenon
  <1>4. f[p] = FramesAt(t, p, f)
    BY <1>3, Zenon
  <1> QED
    BY <1>4 DEF f

LEMMA FramesType ==
  ASSUME NEW t \in Seq(Bytes), NEW p \in 1 .. Len(t) + 1
  PROVE  FramesFrom(t)[p] \in Seq(Seq(Bytes))
  <1> DEFINE f == FramesFrom(t)
             H == {q \in 1 .. Len(t) + 1 : f[q] \in Seq(Seq(Bytes))}
  <1>1. ASSUME NEW q \in 1 .. Len(t) + 1, (q + 1 .. Len(t) + 1) \subseteq H
        PROVE  q \in H
    <2>1. f[q] = FramesAt(t, q, f)
      BY FramesEq
    <2> HIDE DEF f
    <2>2. \/ FramesAt(t, q, f) = <<>>
          \/ q <= Len(t) /\ FramesAt(t, q, f) = f[q + 1]
          \/ \E c \in Seq(Bytes), r \in q + 1 .. Len(t) + 1 : FramesAt(t, q, f) = <<c>> \o f[r]
      BY FramesCases, Zenon
    <2>3. CASE FramesAt(t, q, f) = <<>>
      <3>1. <<>> \in Seq(Seq(Bytes))
        OBVIOUS
      <3>2. f[q] \in Seq(Seq(Bytes))
        BY <2>1, <2>3, <3>1, Zenon
      <3> QED
        BY <3>2
    <2>4. CASE q <= Len(t) /\ FramesAt(t, q, f) = f[q + 1]
      <3>1. q + 1 \in q + 1 .. Len(t) + 1
        BY <2>4
      <3>2. f[q + 1] \in Seq(Seq(Bytes))
        BY <1>1, <3>1
      <3> QED
        BY <2>1, <2>4, <3>2
    <2>5. CASE \E c \in Seq(Bytes), r \in q + 1 .. Len(t) + 1 : FramesAt(t, q, f) = <<c>> \o f[r]
      <3>1. PICK c \in Seq(Bytes), r \in q + 1 .. Len(t) + 1 : FramesAt(t, q, f) = <<c>> \o f[r]
        BY <2>5, Zenon
      <3>2. f[r] \in Seq(Seq(Bytes))
        BY <1>1
      <3>3. <<c>> \o f[r] \in Seq(Seq(Bytes))
        BY <3>2
      <3> QED
        BY <2>1, <3>1, <3>3
    <2> QED
      BY <2>2, <2>3, <2>4, <2>5
  <1>2. H = 1 .. Len(t) + 1
    <2>1. H \in SUBSET (1 .. Len(t) + 1) /\ Len(t) \in Nat
      OBVIOUS
    <2> HIDE DEF H
    <2> QED
      BY <1>1, <2>1, Downward
  <1>3. p \in H
    BY <1>2, Zenon
  <1> QED
    BY <1>3, Zenon

(***************************************************************************)
(* Framing: however the body is cut, its frames are found.                 *)
(***************************************************************************)
LEMMA FromFrom ==
  ASSUME NEW s \in Seq(Bytes), NEW i \in 1 .. Len(s) + 1, NEW j \in 1 .. Len(s) + 2 - i
  PROVE  From(From(s, i), j) = From(s, i + j - 1)
  <1> DEFINE f == From(s, i)
             g == From(s, i + j - 1)
             h == From(f, j)
  <1>1. /\ f \in Seq(Bytes) /\ Len(f) = Len(s) + 1 - i
        /\ \A k \in 1 .. Len(s) + 1 - i : f[k] = s[i + k - 1]
    BY FromFacts
  <1>2. i + j - 1 \in 1 .. Len(s) + 1
    OBVIOUS
  <1>3. /\ g \in Seq(Bytes) /\ Len(g) = Len(s) + 1 - (i + j - 1)
        /\ \A k \in 1 .. Len(s) + 1 - (i + j - 1) : g[k] = s[(i + j - 1) + k - 1]
    BY <1>2, FromFacts
  <1> HIDE DEF f, g
  <1>4. j \in 1 .. Len(f) + 1
    BY <1>1
  <1>5. /\ h \in Seq(Bytes) /\ Len(h) = Len(f) + 1 - j
        /\ \A k \in 1 .. Len(f) + 1 - j : h[k] = f[j + k - 1]
    BY <1>1, <1>4, FromFacts
  <1> HIDE DEF h
  <1>6. Len(h) = Len(g)
    BY <1>1, <1>3, <1>5
  <1>7. ASSUME NEW k \in 1 .. Len(g)
        PROVE  h[k] = g[k]
    <2>1. /\ k \in 1 .. Len(s) + 1 - (i + j - 1) /\ k \in 1 .. Len(f) + 1 - j
          /\ j + k - 1 \in 1 .. Len(s) + 1 - i /\ i + (j + k - 1) - 1 = (i + j - 1) + k - 1
      BY <1>1, <1>3
    <2> QED
      BY <1>1, <1>3, <1>5, <2>1
  <1>8. h = g
    BY <1>3, <1>5, <1>6, <1>7, SeqEqual
  <1> QED
    BY <1>8 DEF f, g, h

LEMMA FromConcat ==
  ASSUME NEW s \in Seq(Bytes), NEW e \in Seq(Bytes), NEW i \in 1 .. Len(s) + 1
  PROVE  From(s \o e, i) = From(s, i) \o e
  <1> DEFINE b == s \o e
             f == From(s, i)
             g == From(b, i)
             h == f \o e
  <1>1. /\ b \in Seq(Bytes) /\ Len(b) = Len(s) + Len(e) /\ Len(s) \in Nat /\ Len(e) \in Nat
        /\ \A k \in 1 .. Len(s) : b[k] = s[k]
        /\ \A k \in Len(s) + 1 .. Len(s) + Len(e) : b[k] = e[k - Len(s)]
    BY ConcatFacts
  <1>2. /\ f \in Seq(Bytes) /\ Len(f) = Len(s) + 1 - i
        /\ \A k \in 1 .. Len(s) + 1 - i : f[k] = s[i + k - 1]
    BY FromFacts
  <1> HIDE DEF b, f
  <1>3. i \in 1 .. Len(b) + 1
    BY <1>1
  <1>4. /\ g \in Seq(Bytes) /\ Len(g) = Len(b) + 1 - i
        /\ \A k \in 1 .. Len(b) + 1 - i : g[k] = b[i + k - 1]
    BY <1>1, <1>3, FromFacts
  <1>5. /\ h \in Seq(Bytes) /\ Len(h) = Len(f) + Len(e)
        /\ \A k \in 1 .. Len(f) : h[k] = f[k]
        /\ \A k \in Len(f) + 1 .. Len(f) + Len(e) : h[k] = e[k - Len(f)]
    BY <1>2, ConcatFacts
  <1> HIDE DEF g, h
  <1>6. Len(g) = Len(h)
    BY <1>1, <1>2, <1>4, <1>5
  <1>7. ASSUME NEW k \in 1 .. Len(h)
        PROVE  g[k] = h[k]
    <2>1. g[k] = b[i + k - 1]
      <3>1. k \in 1 .. Len(b) + 1 - i
        BY <1>4, <1>6
      <3> QED
        BY <1>4, <3>1
    <2>2. CASE k <= Len(f)
      <3>1. k \in 1 .. Len(f) /\ k \in 1 .. Len(s) + 1 - i /\ i + k - 1 \in 1 .. Len(s)
        BY <1>1, <1>2, <2>2
      <3> QED
        BY <1>1, <1>2, <1>5, <2>1, <3>1
    <2>3. CASE ~(k <= Len(f))
      <3>1. /\ k \in Len(f) + 1 .. Len(f) + Len(e)
            /\ i + k - 1 \in Len(s) + 1 .. Len(s) + Len(e)
            /\ (i + k - 1) - Len(s) = k - Len(f)
        BY <1>1, <1>2, <1>5, <2>3
      <3> QED
        BY <1>1, <1>5, <2>1, <3>1
    <2> QED
      BY <2>2, <2>3
  <1>8. g = h
    BY <1>4, <1>5, <1>6, <1>7, SeqEqual
  <1> QED
    BY <1>8 DEF b, f, g, h

(* The bytes that have been dropped or cut from the buffer.                *)
Taken == Len(fed) - Len(buf)

(* The buffer is the untaken end of the body, no rune is taken before it   *)
(* is whole, and whatever is still to come, the frames of the whole body   *)
(* are the chunks found and those of what is not taken yet; once Feed has  *)
(* returned, that has none.                                                *)
FramingInv ==
  /\ fed \in Seq(Bytes) /\ buf \in Seq(Bytes) /\ feeding \in BOOLEAN
  /\ chunks \in Seq(Seq(Bytes))
  /\ Taken \in 0 .. Len(DecodePrefix(fed))
  /\ buf = From(fed, Taken + 1)
  /\ \A rest \in Seq(Bytes) :
       LET frames == FramesFrom(DecodePrefix(fed \o rest))
       IN  frames[1] = chunks \o frames[Taken + 1]
  /\ ~feeding => FramesFrom(DecodePrefix(fed))[Taken + 1] = <<>>

(* The decoded buffer, seen in the text of the body with what may follow.  *)
LEMMA BufferInText ==
  ASSUME FramingInv, NEW e \in Seq(Bytes)
  PROVE  LET d == DecodePrefix(buf)
             t == DecodePrefix(fed \o e)
         IN  /\ d = From(DecodePrefix(fed), Taken + 1)
             /\ d \in Seq(Bytes) /\ Len(d) = Len(DecodePrefix(fed)) - Taken
             /\ t \in Seq(Bytes) /\ Len(DecodePrefix(fed)) <= Len(t)
             /\ Taken + 1 \in 1 .. Len(t) + 1
             /\ ~LineIncomplete(d) => LineAt(d, t, Taken + 1)
  <1> DEFINE r == DecodePrefix(fed)
             t == DecodePrefix(fed \o e)
             d == DecodePrefix(buf)
             p == Taken + 1
  <1>1. /\ fed \in Seq(Bytes) /\ Taken \in 0 .. Len(r) /\ buf = From(fed, p)
    BY DEF FramingInv
  <1>2. Settled(r, t)
    BY <1>1, DecodeSettled
  <1>3. r \in Seq(Bytes) /\ t \in Seq(Bytes) /\ Len(r) \in Nat /\ Len(t) \in Nat /\ Len(r) <= Len(t)
    BY <1>2 DEF Settled
  <1>4. p \in 1 .. Len(r) + 1 /\ p \in 1 .. Len(t) + 1
    BY <1>1, <1>3
  <1>5. d = From(r, p)
    BY <1>1, <1>4, DecodeEnd
  <1>6. d \in Seq(Bytes) /\ Len(d) = Len(r) + 1 - p
    BY <1>3, <1>4, <1>5, FromFacts
  <1>7. Settled(d, From(t, p))
    BY <1>2, <1>4, <1>5, SettledEnd
  <1>8. Len(d) = Len(r) - Taken
    BY <1>1, <1>3, <1>6
  <1>9. ~LineIncomplete(d) => LineAt(d, t, p)
    BY <1>3, <1>4, <1>7 DEF LineAt
  <1> QED
    BY <1>3, <1>4, <1>5, <1>6, <1>8, <1>9

LEMMA FramingStart == FramingInit => FramingInv
  <1> SUFFICES ASSUME FramingInit
               PROVE  FramingInv
    OBVIOUS
  <1>1. fed = <<>> /\ buf = <<>> /\ chunks = <<>> /\ feeding = FALSE
    BY DEF FramingInit
  <1>2. <<>> \in Seq(Bytes) /\ Len(<<>>) = 0 /\ <<>> \in Seq(Seq(Bytes))
    OBVIOUS
  <1>3. Taken = 0
    BY <1>1, <1>2 DEF Taken
  <1>4. DecodePrefix(<<>>) = <<>>
    BY <1>2 DEF DecodePrefix
  <1>5. From(<<>>, 1) = <<>>
    BY DEF From
  <1>6. ASSUME NEW e \in Seq(Bytes)
        PROVE  LET frames == FramesFrom(DecodePrefix(fed \o e))
               IN  frames[1] = chunks \o frames[Taken + 1]
    <2> DEFINE t == DecodePrefix(<<>> \o e)
               f1 == FramesFrom(t)[1]
    <2>1. t \in Seq(Bytes)
      BY <1>2, ConcatFacts, DecodeFacts
    <2>2. 1 \in 1 .. Len(t) + 1
      BY <2>1
    <2>3. f1 \in Seq(Seq(Bytes))
      BY <2>1, <2>2, FramesType
    <2> HIDE DEF f1
    <2>4. f1 = <<>> \o f1
      BY <2>3
    <2> QED
      BY <1>1, <1>3, <2>4 DEF f1
  <1>7. FramesFrom(<<>>)[1] = <<>>
    <2>1. 1 \in 1 .. Len(<<>>) + 1
      BY <1>2
    <2>2. FramesFrom(<<>>)[1] = FramesAt(<<>>, 1, FramesFrom(<<>>))
      BY <1>2, <2>1, FramesEq
    <2>3. \A k \in 1 .. Len(<<>>) : FALSE
      BY <1>2
    <2> QED
      BY <2>2, <2>3 DEF FramesAt
  <1>8. Taken \in 0 .. Len(DecodePrefix(fed)) /\ buf = From(fed, Taken + 1)
    BY <1>1, <1>2, <1>3, <1>4, <1>5
  <1>9. FramesFrom(DecodePrefix(fed))[Taken + 1] = <<>>
    BY <1>1, <1>3, <1>4, <1>7
  <1>10. /\ fed \in Seq(Bytes) /\ buf \in Seq(Bytes) /\ chunks \in Seq(Seq(Bytes))
         /\ feeding \in BOOLEAN
    BY <1>1, <1>2
  <1> QED
    BY <1>6, <1>8, <1>9, <1>10, Zenon DEF FramingInv

(* More of the body: what has been found stays found.                      *)
LEMMA FeedKeeps ==
  ASSUME FramingInv, NEW data \in Seq(Bytes), Feed(data)
  PROVE  FramingInv'
  <1>1. /\ fed \in Seq(Bytes) /\ buf \in Seq(Bytes) /\ chunks \in Seq(Seq(Bytes))
        /\ Taken \in 0 .. Len(DecodePrefix(fed)) /\ buf = From(fed, Taken + 1)
    BY DEF FramingInv
  <1>2. fed' = fed \o data /\ buf' = buf \o data /\ feeding' = TRUE /\ chunks' = chunks
    BY DEF Feed
  <1>3. fed' \in Seq(Bytes) /\ buf' \in Seq(Bytes)
    BY <1>1, <1>2
  <1>4. Taken' = Taken
    <2>1. Len(fed') = Len(fed) + Len(data) /\ Len(buf') = Len(buf) + Len(data)
      BY <1>1, <1>2
    <2>2. Len(fed) \in Nat /\ Len(buf) \in Nat /\ Len(data) \in Nat
      BY <1>1
    <2> QED
      BY <2>1, <2>2 DEF Taken
  <1>5. Taken \in 0 .. Len(DecodePrefix(fed'))
    <2>1. /\ Len(DecodePrefix(fed)) <= Len(DecodePrefix(fed \o data))
          /\ DecodePrefix(fed \o data) \in Seq(Bytes) /\ DecodePrefix(fed) \in Seq(Bytes)
      BY <1>1, DecodeSettled DEF Settled
    <2>2. Taken <= Len(DecodePrefix(fed \o data))
      BY <1>1, <2>1
    <2> QED
      BY <1>1, <1>2, <2>1, <2>2
  <1>6. buf' = From(fed', Taken + 1)
    <2>1. Len(DecodePrefix(fed)) \in 0..Len(fed)
      BY <1>1, DecodeFacts
    <2>2. Taken + 1 \in 1 .. Len(fed) + 1
      BY <1>1, <2>1
    <2> QED
      BY <1>1, <1>2, <2>2, FromConcat
  <1>7. ASSUME NEW e \in Seq(Bytes)
        PROVE  LET frames == FramesFrom(DecodePrefix(fed' \o e))
               IN  frames[1] = chunks \o frames[Taken + 1]
    <2>1. data \o e \in Seq(Bytes)
      BY ConcatFacts
    <2>2. (fed \o data) \o e = fed \o (data \o e)
      BY <1>1, <2>1, SMTT(30)
    <2> QED
      BY <1>2, <2>1, <2>2 DEF FramingInv
  <1> QED
    BY <1>1, <1>2, <1>3, <1>4, <1>5, <1>6, <1>7 DEF FramingInv

(* Taking k more bytes from the buffer, and their frames with them.        *)
LEMMA TakeKeeps ==
  ASSUME FramingInv, NEW k \in Nat, Taken + k <= Len(DecodePrefix(fed)),
         fed' = fed, buf' = From(buf, k + 1), feeding, feeding' = feeding,
         chunks' \in Seq(Seq(Bytes)),
         \A e \in Seq(Bytes) :
           LET frames == FramesFrom(DecodePrefix(fed \o e))
           IN  frames[1] = chunks' \o frames[Taken + k + 1]
  PROVE  FramingInv'
  <1>1. /\ fed \in Seq(Bytes) /\ buf \in Seq(Bytes)
        /\ Taken \in 0 .. Len(DecodePrefix(fed)) /\ buf = From(fed, Taken + 1)
        /\ feeding \in BOOLEAN
    BY DEF FramingInv
  <1>2. Len(DecodePrefix(fed)) \in 0..Len(fed) /\ Len(fed) \in Nat
    BY <1>1, DecodeFacts
  <1>3. Taken + 1 \in 1 .. Len(fed) + 1 /\ Len(buf) = Len(fed) - Taken /\ Len(buf) \in Nat
    BY <1>1, <1>2 DEF Taken
  <1>4. buf' \in Seq(Bytes) /\ Len(buf') = Len(buf) - k
    <2>1. k + 1 \in 1 .. Len(buf) + 1
      BY <1>1, <1>2, <1>3
    <2> QED
      BY <1>1, <1>3, <2>1, FromFacts
  <1>5. Taken' = Taken + k
    <2>1. Taken' = Len(fed) - (Len(buf) - k) /\ Taken = Len(fed) - Len(buf)
      BY <1>4 DEF Taken
    <2> QED
      BY <1>2, <1>3, <2>1
  <1>6. buf' = From(fed, Taken + k + 1)
    <2>1. k + 1 \in 1 .. Len(fed) + 2 - (Taken + 1) /\ (Taken + 1) + (k + 1) - 1 = Taken + k + 1
      BY <1>1, <1>2
    <2>2. From(From(fed, Taken + 1), k + 1) = From(fed, (Taken + 1) + (k + 1) - 1)
      BY <1>1, <1>3, <2>1, FromFrom
    <2> QED
      BY <1>1, <2>1, <2>2
  <1>7. Taken' \in 0 .. Len(DecodePrefix(fed'))
    BY <1>1, <1>2, <1>5
  <1>8. buf' = From(fed', Taken' + 1)
    BY <1>5, <1>6
  <1>9. \A e \in Seq(Bytes) :
          LET frames == FramesFrom(DecodePrefix(fed' \o e))
          IN  frames[1] = chunks' \o frames[Taken' + 1]
    BY <1>5
  <1> QED
    BY <1>1, <1>4, <1>7, <1>8, <1>9 DEF FramingInv

(* A dropped byte begins no frame.                                         *)
LEMMA DropKeeps ==
  ASSUME FramingInv, DropByte
  PROVE  FramingInv'
  <1> DEFINE d == DecodePrefix(buf)
  <1>1. /\ fed \in Seq(Bytes) /\ buf \in Seq(Bytes) /\ chunks \in Seq(Seq(Bytes))
        /\ Taken \in 0 .. Len(DecodePrefix(fed))
    BY DEF FramingInv
  <1>2. /\ feeding /\ LinePoisoned(d) /\ buf' = Tail(buf)
        /\ fed' = fed /\ feeding' = feeding /\ chunks' = chunks
    BY DEF DropByte
  <1>3. d \in Seq(Bytes) /\ Len(d) \in 0..Len(buf) /\ Len(buf) \in Nat
    BY <1>1, DecodeFacts
  <1>4. Digits(d) \in 0..Len(d) /\ Digits(d) < Len(d) /\ ~LineIncomplete(d)
    BY <1>2, <1>3, DigitsFacts DEF LinePoisoned, LineIncomplete
  <1>5. Len(d) = Len(DecodePrefix(fed)) - Taken /\ Len(DecodePrefix(fed)) \in Nat
    <2>1. <<>> \in Seq(Bytes)
      OBVIOUS
    <2>2. Len(d) = Len(DecodePrefix(fed)) - Taken
      BY <2>1, BufferInText
    <2>3. Len(DecodePrefix(fed)) \in 0..Len(fed) /\ Len(fed) \in Nat
      BY <1>1, DecodeFacts
    <2> QED
      BY <2>2, <2>3
  <1>6. Taken + 1 <= Len(DecodePrefix(fed))
    BY <1>1, <1>3, <1>4, <1>5
  <1>7. buf' = From(buf, 1 + 1)
    BY <1>1, <1>2, <1>3, <1>4, TailIsSubSeq DEF From
  <1>8. ASSUME NEW e \in Seq(Bytes)
        PROVE  LET frames == FramesFrom(DecodePrefix(fed \o e))
               IN  frames[1] = chunks' \o frames[Taken + 1 + 1]
    <2> DEFINE t == DecodePrefix(fed \o e)
               frames == FramesFrom(t)
    <2>1. LineAt(d, t, Taken + 1) /\ t \in Seq(Bytes) /\ Taken + 1 \in 1 .. Len(t) + 1
      BY <1>4, BufferInText
    <2>2. frames[Taken + 1] = FramesAt(t, Taken + 1, frames)
      BY <2>1, FramesEq
    <2>3. frames[1] = chunks \o frames[Taken + 1]
      BY DEF FramingInv
    <2> HIDE DEF t, frames, d
    <2>4. FramesAt(t, Taken + 1, frames) = frames[Taken + 1 + 1]
      BY <1>2, <2>1, DropIsSkip
    <2>5. frames[1] = chunks' \o frames[Taken + 1 + 1]
      BY <1>2, <2>2, <2>3, <2>4
    <2> QED
      BY <2>5 DEF t, frames
  <1>9. chunks' \in Seq(Seq(Bytes))
    BY <1>1, <1>2
  <1>10. 1 \in Nat
    OBVIOUS
  <1> QED
    BY <1>2, <1>6, <1>7, <1>8, <1>9, <1>10, TakeKeeps

(* A chunk is the next frame, and what is left of the buffer follows it.   *)
LEMMA CutKeeps ==
  ASSUME FramingInv, CutChunk
  PROVE  FramingInv'
  <1> DEFINE d == DecodePrefix(buf)
             n == Digits(d)
             m == TakeUnits(Rest(d), Number(d))
             c == SubSeq(Rest(d), 1, m)
  <1>1. /\ fed \in Seq(Bytes) /\ buf \in Seq(Bytes) /\ chunks \in Seq(Seq(Bytes))
        /\ Taken \in 0 .. Len(DecodePrefix(fed))
    BY DEF FramingInv
  <1>2. /\ feeding /\ ChunkComplete(d) /\ chunks' = Append(chunks, c)
        /\ buf' = From(buf, n + 2 + m)
        /\ fed' = fed /\ feeding' = feeding
    BY DEF CutChunk
  <1>3. d \in Seq(Bytes) /\ Len(d) \in Nat
    BY <1>1, DecodeFacts
  <1>4. ~LineIncomplete(d) /\ n \in Nat
    BY <1>2, <1>3, DigitsFacts DEF ChunkComplete
  <1>5. <<>> \in Seq(Bytes)
    OBVIOUS
  <1>6. Len(d) = Len(DecodePrefix(fed)) - Taken /\ Len(DecodePrefix(fed)) \in Nat
    <2>1. Len(d) = Len(DecodePrefix(fed)) - Taken
      BY <1>5, BufferInText
    <2>2. Len(DecodePrefix(fed)) \in 0..Len(fed) /\ Len(fed) \in Nat
      BY <1>1, DecodeFacts
    <2> QED
      BY <2>1, <2>2
  <1>7. ASSUME NEW e \in Seq(Bytes)
        PROVE  LET t == DecodePrefix(fed \o e)
                   p == Taken + 1
               IN  /\ LineAt(d, t, p) /\ t \in Seq(Bytes) /\ p \in 1 .. Len(t) + 1
                   /\ m \in 0 .. Len(d) - n - 1
                   /\ \A f : FramesAt(t, p, f) = <<c>> \o f[p + n + 1 + m]
    <2>1. LET t == DecodePrefix(fed \o e)
          IN  LineAt(d, t, Taken + 1) /\ t \in Seq(Bytes) /\ Taken + 1 \in 1 .. Len(t) + 1
      BY <1>4, BufferInText
    <2> QED
      BY <1>2, <2>1, CutIsFrame
  <1>8. m \in 0 .. Len(d) - n - 1
    BY <1>5, <1>7
  <1>9. c \in Seq(Bytes)
    <2>1. n + 2 \in 1 .. Len(d) + 1
      BY <1>3, <1>4, <1>8
    <2>2. Rest(d) \in Seq(Bytes) /\ Len(Rest(d)) = Len(d) - n - 1
      BY <1>3, <1>4, <2>1, FromFacts DEF Rest
    <2>3. m \in 0..Len(Rest(d))
      BY <1>8, <2>2
    <2> QED
      BY <2>2, <2>3, PrefixFacts
  <1> HIDE DEF d, n, m, c
  <1> DEFINE k == n + 1 + m
  <1>10. k \in Nat /\ Taken + k <= Len(DecodePrefix(fed))
    BY <1>1, <1>3, <1>4, <1>6, <1>8
  <1>11. buf' = From(buf, k + 1)
    <2>1. n + 2 + m = k + 1
      BY <1>4, <1>8
    <2> QED
      BY <1>2, <2>1
  <1>12. chunks' = chunks \o <<c>> /\ <<c>> \in Seq(Seq(Bytes)) /\ chunks' \in Seq(Seq(Bytes))
    BY <1>1, <1>2, <1>9, AppendIsConcat
  <1>13. ASSUME NEW e \in Seq(Bytes)
         PROVE  LET frames == FramesFrom(DecodePrefix(fed \o e))
                IN  frames[1] = chunks' \o frames[Taken + k + 1]
    <2> DEFINE t == DecodePrefix(fed \o e)
               frames == FramesFrom(t)
               g == frames[Taken + k + 1]
    <2>1. /\ t \in Seq(Bytes) /\ Taken + 1 \in 1 .. Len(t) + 1
          /\ frames[Taken + 1] = FramesAt(t, Taken + 1, frames)
          /\ FramesAt(t, Taken + 1, frames) = <<c>> \o frames[(Taken + 1) + n + 1 + m]
      BY <1>7, FramesEq
    <2>2. (Taken + 1) + n + 1 + m = Taken + k + 1
      BY <1>1, <1>4, <1>6, <1>8
    <2>3. frames[1] = chunks \o frames[Taken + 1]
      BY DEF FramingInv
    <2>4. g \in Seq(Seq(Bytes))
      <3>1. Len(DecodePrefix(fed)) <= Len(t)
        BY BufferInText
      <3>2. Taken + k + 1 \in 1 .. Len(t) + 1
        BY <1>1, <1>6, <1>10, <2>1, <3>1
      <3> QED
        BY <2>1, <3>2, FramesType
    <2> HIDE DEF t, frames, k
    <2>5. frames[1] = chunks \o (<<c>> \o g)
      BY <2>1, <2>2, <2>3
    <2> HIDE DEF g
    <2>6. chunks \o (<<c>> \o g) = (chunks \o <<c>>) \o g
      <3> DEFINE one == <<c>>
      <3>1. chunks \in Seq(Seq(Bytes)) /\ one \in Seq(Seq(Bytes)) /\ g \in Seq(Seq(Bytes))
        BY <1>1, <1>12, <2>4
      <3> HIDE DEF one
      <3>2. chunks \o (one \o g) = (chunks \o one) \o g
        BY <3>1
      <3> QED
        BY <3>2 DEF one
    <2>7. frames[1] = chunks' \o g
      BY <1>12, <2>5, <2>6
    <2> QED
      BY <2>7 DEF t, frames, g
  <1> HIDE DEF k
  <1> QED
    BY <1>2, <1>10, <1>11, <1>12, <1>13, TakeKeeps

(* Feed returns when no frame is left in what it has read.                 *)
LEMMA ReturnKeeps ==
  ASSUME FramingInv, FeedReturns
  PROVE  FramingInv'
  <1> DEFINE d == DecodePrefix(buf)
             t == DecodePrefix(fed)
             p == Taken + 1
  <1>1. fed \in Seq(Bytes) /\ Taken \in 0 .. Len(t)
    BY DEF FramingInv
  <1>2. /\ ~LinePoisoned(d) /\ ~ChunkComplete(d)
        /\ feeding' = FALSE /\ fed' = fed /\ buf' = buf /\ chunks' = chunks
    BY DEF FeedReturns
  <1>3. t \in Seq(Bytes) /\ Len(t) \in Nat
    BY <1>1, DecodeFacts
  <1>4. d = From(t, p)
    <2>1. <<>> \in Seq(Bytes)
      OBVIOUS
    <2> QED
      BY <2>1, BufferInText
  <1>5. p \in 1 .. Len(t) + 1
    BY <1>1, <1>3
  <1>6. FramesAt(t, p, FramesFrom(t)) = <<>>
    BY <1>2, <1>3, <1>4, <1>5, WaitIsEnd
  <1>7. FramesFrom(t)[p] = <<>>
    BY <1>3, <1>5, <1>6, FramesEq
  <1>8. Taken' = Taken
    BY <1>2 DEF Taken
  <1> QED
    BY <1>2, <1>7, <1>8 DEF FramingInv

LEMMA FramingStep == FramingInv /\ [FramingNext]_framingVars => FramingInv'
  <1> SUFFICES ASSUME FramingInv, [FramingNext]_framingVars
               PROVE  FramingInv'
    OBVIOUS
  <1>1. ASSUME NEW data \in Pieces, Feed(data)
        PROVE  FramingInv'
    <2>1. data \in Seq(Bytes)
      <3>1. PICK n \in 1..MaxPiece : data \in [1..n -> Bytes]
        BY DEF Pieces
      <3>2. n \in Nat
        OBVIOUS
      <3> QED
        BY <3>1, <3>2, SeqDef
    <2> QED
      BY <1>1, <2>1, FeedKeeps
  <1>2. CASE DropByte
    BY <1>2, DropKeeps
  <1>3. CASE CutChunk
    BY <1>3, CutKeeps
  <1>4. CASE FeedReturns
    BY <1>4, ReturnKeeps
  <1>5. CASE UNCHANGED framingVars
    <2>1. fed' = fed /\ buf' = buf /\ feeding' = feeding /\ chunks' = chunks
      BY <1>5 DEF framingVars
    <2>2. Taken' = Taken
      BY <2>1 DEF Taken
    <2> QED
      BY <2>1, <2>2 DEF FramingInv
  <1> QED
    BY <1>1, <1>2, <1>3, <1>4, <1>5 DEF FramingNext

LEMMA FramingInvHolds == FramingSpec => []FramingInv
  <1> QED
    BY FramingStart, FramingStep, PTL DEF FramingSpec

(* However the body of a long poll is cut into reads, Feed has returned    *)
(* exactly the payloads of the whole body: no frame is split, merged, lost *)
(* or found twice, whatever the bytes and whatever follows.                *)
THEOREM FramesOfTheBodyHolds == FramingSpec => []FramesOfTheBody
  <1>1. FramingInv => FramesOfTheBody
    <2> SUFFICES ASSUME FramingInv, ~feeding
                 PROVE  chunks = FramesFrom(DecodePrefix(fed))[1]
      BY DEF FramesOfTheBody
    <2> DEFINE frames == FramesFrom(DecodePrefix(fed))
    <2>1. <<>> \in Seq(Bytes) /\ fed \o <<>> = fed /\ chunks \o <<>> = chunks
      BY DEF FramingInv
    <2>2. frames[1] = chunks \o frames[Taken + 1]
      BY <2>1 DEF FramingInv
    <2>3. frames[Taken + 1] = <<>>
      BY DEF FramingInv
    <2> QED
      BY <2>1, <2>2, <2>3
  <1> QED
    BY <1>1, FramingInvHolds, PTL
=============================================================================
