---------------------------- MODULE UpdatesProofs ----------------------------
(***************************************************************************)
(* Proofs about the text of the message in Updates, for any number of      *)
(* Matrix changes, repetitions, events and reconnects.  Two facts carry    *)
(* them.  Events wait while a Matrix handler runs, so an edit that Google  *)
(* Chat answers with is newer than what the room shows; and the event of   *)
(* the last edit is either still to come or what the room shows.           *)
(***************************************************************************)
EXTENDS Updates, SequenceTheorems, TLAPS

Events == [kind : Kinds, time : 0..MaxLog]

(* The event with index i will pass again, live or from the drain.         *)
Pending(i) == i > pos \/ \E j \in 1..Len(drain) : drain[j] = i

(* The last edit that left a text is in the log under the time it has.     *)
LogOK ==
  /\ text < Len(log)
  /\ \A i \in 1..Len(log) : log[i].kind = "edited" => log[i].time <= text
  /\ text > 0 => log[text + 1].kind = "edited" /\ log[text + 1].time = text
  /\ \A i \in 1..Len(log) : log[i].kind = "deleted" => gone

(* What a call brought about, and what it can still be answered with.      *)
CallOK(c) ==
  /\ state[c] = "idle" => answer[c] = {} /\ outstanding[c] = 0 /\ performed[c] = 0
  /\ outstanding[c] + performed[c] <= issued[c]
  /\ state[c] = "ok" => performed[c] > 0
  /\ does[c] = "delete" /\ performed[c] > 0 => gone
  /\ \A t \in answer[c] : t <= text
  /\ c \notin returned =>
       /\ \A t \in answer[c] : shown <= t
       /\ answer[c] # {} => Pending(text + 1)

(* One handler at a time.                                                  *)
OneHandler ==
  \A c, d \in Calls \ returned : state[c] # "idle" /\ state[d] # "idle" => c = d

ShownOK ==
  /\ shown = lastEdit
  /\ ~gone => row /\ (shown = text \/ Pending(text + 1))

IInv == TypeOK /\ LogOK /\ (\A c \in Calls : CallOK(c)) /\ OneHandler /\ ShownOK

LEMMA InitInv ==
  ASSUME Init
  PROVE  IInv
  <1>1. /\ MaxLog \in Nat /\ 1 <= MaxLog /\ 0 \in 0..MaxIssues /\ 0 \in 0..MaxLog
        /\ 0 \in 0..MaxReconnects
    BY UpdatesAssumption
  <1>2. Event("posted", 0) \in Events
    BY <1>1 DEF Event, Events, Kinds
  <1>3. log \in Seq(Events) /\ Len(log) = 1 /\ log[1] = Event("posted", 0)
    BY <1>2 DEF Init
  <1>4. drain \in Seq(1..Len(log)) /\ Len(drain) = 0
    BY DEF Init
  <1>5. RpcTypeOK
    BY <1>1 DEF Init, RpcInit, RpcTypeOK
  <1>6. TypeOK
    <2>1. text = 0 /\ lastEdit = 0 /\ shown = 0 /\ pos = 1 /\ reconnects = 0 /\ returned = {}
          /\ Len(drain) <= MaxLog /\ does = [c \in Calls |-> "none"] /\ answer = [c \in Calls |-> {}]
      BY <1>1, <1>4 DEF Init
    <2>2. gone \in BOOLEAN /\ reacted \in BOOLEAN /\ row \in BOOLEAN /\ reactRow \in BOOLEAN
          /\ unsent \in BOOLEAN /\ raced \in BOOLEAN
      BY DEF Init
    <2>3. does \in [Calls -> Changes \cup {"none"}] /\ answer \in [Calls -> SUBSET (0..MaxLog)]
      BY <2>1
    <2> QED
      BY <1>1, <1>3, <1>4, <1>5, <2>1, <2>2, <2>3 DEF TypeOK, Events
  <1>7. LogOK
    BY <1>3 DEF Init, LogOK, Event
  <1>8. \A c \in Calls : CallOK(c)
    <2> TAKE c \in Calls
    <2>1. answer[c] = {} /\ outstanding[c] = 0 /\ performed[c] = 0 /\ issued[c] = 0
          /\ state[c] = "idle" /\ does[c] = "none"
      BY DEF Init, RpcInit
    <2> QED
      BY <2>1 DEF CallOK
  <1>9. OneHandler /\ ShownOK
    BY DEF Init, RpcInit, OneHandler, ShownOK
  <1> QED
    BY <1>6, <1>7, <1>8, <1>9 DEF IInv

(* Google Chat appends one event.                                          *)
LEMMA Appended ==
  ASSUME IInv, Open, NEW k \in Kinds, NEW t \in 0..MaxLog, log' = Append(log, Event(k, t))
  PROVE  /\ log' \in Seq(Events) /\ Len(log') = Len(log) + 1 /\ Len(log') \in 1..MaxLog
         /\ \A i \in 1..Len(log) : log'[i] = log[i]
         /\ log'[Len(log) + 1].kind = k /\ log'[Len(log) + 1].time = t
  <1>1. log \in Seq(Events) /\ Event(k, t) \in Events
    BY DEF IInv, TypeOK, Event, Events
  <1>2. Len(log) < MaxLog /\ Len(log) \in Nat /\ MaxLog \in Nat
    BY <1>1, UpdatesAssumption DEF Open
  <1>3. log' \in Seq(Events) /\ Len(log') = Len(log) + 1
        /\ (\A i \in 1..Len(log) : log'[i] = log[i]) /\ log'[Len(log) + 1] = Event(k, t)
    BY <1>1
  <1> QED
    BY <1>2, <1>3 DEF Event

LEMMA GoogleStep ==
  ASSUME IInv, Open, Edited \/ Emptied \/ (\E on \in BOOLEAN : Reacted(on)) \/ Deleted
  PROVE  /\ log' \in Seq(Events) /\ Len(log') \in 1..MaxLog /\ Len(log) <= Len(log')
         /\ text' \in 0..MaxLog /\ gone' \in BOOLEAN /\ reacted' \in BOOLEAN
         /\ LogOK'
         /\ text' = text \/ (text' = Len(log) /\ text < text')
         /\ Edited => text' = Len(log)
         /\ gone => gone'
         /\ Deleted => gone'
  <1> USE UpdatesAssumption DEF LogOK
  <1>1. /\ text \in 0..MaxLog /\ Len(log) \in 1..MaxLog /\ text < Len(log) /\ log \in Seq(Events)
        /\ gone \in BOOLEAN /\ reacted \in BOOLEAN
    BY DEF IInv, TypeOK, Events
  <1>2. LogOK
    BY DEF IInv
  <1>3. CASE Edited
    <2>1. log' = Append(log, Event("edited", Len(log))) /\ text' = Len(log)
          /\ UNCHANGED <<gone, reacted>>
      BY <1>3 DEF Edited
    <2>2. "edited" \in Kinds /\ Len(log) \in 0..MaxLog
      BY <1>1 DEF Kinds
    <2>3. /\ log' \in Seq(Events) /\ Len(log') = Len(log) + 1 /\ Len(log') \in 1..MaxLog
          /\ \A i \in 1..Len(log) : log'[i] = log[i]
          /\ log'[Len(log) + 1].kind = "edited" /\ log'[Len(log) + 1].time = Len(log)
      BY <2>1, <2>2, Appended
    <2>4. \A i \in 1..Len(log) : log[i].time \in 0..MaxLog
      <3>1. \A i \in 1..Len(log) : log[i] \in Events
        BY <1>1, ElementOfSeq
      <3> QED
        BY <3>1 DEF Events
    <2>5. LogOK'
      BY <1>1, <1>2, <2>1, <2>3, <2>4
    <2>6. ~Deleted \/ gone'
      BY DEF Deleted
    <2> QED
      BY <1>1, <2>1, <2>3, <2>5, <2>6
  <1>4. ASSUME NEW k \in Kinds \ {"edited"}, NEW t \in 0..MaxLog,
               log' = Append(log, Event(k, t)), text' = text,
               k = "deleted" => gone', gone => gone'
        PROVE  log' \in Seq(Events) /\ Len(log') \in 1..MaxLog /\ Len(log) <= Len(log') /\ LogOK'
    <2>1. /\ log' \in Seq(Events) /\ Len(log') = Len(log) + 1 /\ Len(log') \in 1..MaxLog
          /\ \A i \in 1..Len(log) : log'[i] = log[i]
          /\ log'[Len(log) + 1].kind = k
      BY <1>4, Appended
    <2> QED
      BY <1>1, <1>2, <1>4, <2>1
  <1>5. CASE \E on \in BOOLEAN : Reacted(on)
    <2>1. PICK on \in BOOLEAN : Reacted(on)
      BY <1>5
    <2>2. text' = text /\ gone' = gone /\ reacted' = on
      BY <2>1 DEF Reacted
    <2>3. CASE log' = log
      BY <1>1, <1>2, <2>2, <2>3 DEF Edited, Deleted
    <2>4. CASE log' # log
      <3>1. PICK k \in {"reacted", "unreacted"} : log' = Append(log, Event(k, 0))
        BY <2>1, <2>4 DEF Reacted
      <3>2. k \in Kinds \ {"edited"} /\ k # "deleted" /\ 0 \in 0..MaxLog
        BY DEF Kinds
      <3>3. log' \in Seq(Events) /\ Len(log') \in 1..MaxLog /\ Len(log) <= Len(log') /\ LogOK'
        BY <1>4, <2>2, <3>1, <3>2
      <3>4. ~Edited \/ text' = Len(log)
        BY DEF Edited
      <3>5. ~Deleted \/ gone'
        BY DEF Deleted
      <3> QED
        BY <1>1, <2>2, <3>3, <3>4, <3>5
    <2> QED
      BY <2>3, <2>4
  <1>6. CASE Deleted
    <2>1. gone' = TRUE /\ log' = Append(log, Event("deleted", 0)) /\ UNCHANGED <<text, reacted>>
      BY <1>6 DEF Deleted
    <2>2. "deleted" \in Kinds \ {"edited"} /\ 0 \in 0..MaxLog
      BY DEF Kinds
    <2>3. log' \in Seq(Events) /\ Len(log') \in 1..MaxLog /\ Len(log) <= Len(log') /\ LogOK'
      BY <1>4, <2>1, <2>2
    <2>4. ~Edited \/ text' = Len(log)
      BY DEF Edited
    <2> QED
      BY <1>1, <2>1, <2>3, <2>4
  <1>7. CASE Emptied
    <2>1. log' = Append(log, Event("emptied", Len(log))) /\ UNCHANGED <<gone, text, reacted>>
      BY <1>7 DEF Emptied
    <2>2. "emptied" \in Kinds \ {"edited"} /\ "emptied" # "deleted" /\ Len(log) \in 0..MaxLog
      BY <1>1 DEF Kinds
    <2>3. log' \in Seq(Events) /\ Len(log') \in 1..MaxLog /\ Len(log) <= Len(log') /\ LogOK'
      BY <1>4, <2>1, <2>2
    <2>4. ~Edited \/ text' = Len(log)
      BY DEF Edited
    <2>5. ~Deleted \/ gone'
      BY DEF Deleted
    <2> QED
      BY <1>1, <2>1, <2>3, <2>4, <2>5
  <1> QED
    BY <1>3, <1>5, <1>6, <1>7

(* The calls, when the server acts on one and when only the log grows.     *)
LEMMA GoogleKeepsCalls ==
  ASSUME IInv, Open, Edited \/ Emptied \/ (\E on \in BOOLEAN : Reacted(on)) \/ Deleted,
         UNCHANGED <<pos, drain, shown>>
  PROVE  /\ text' # text => Pending(text + 1)'
         /\ Pending(text + 1) => Pending(text + 1)'
  <1>1. text' = text => (Pending(text + 1) <=> Pending(text + 1)')
    BY DEF Pending
  <1>2. text' = text \/ text' = Len(log)
    BY GoogleStep
  <1>3. pos \in 1..Len(log) /\ Len(log) \in Nat
    BY DEF IInv, TypeOK
  <1>4. text' = Len(log) => Pending(text + 1)'
    BY <1>3 DEF Pending
  <1> QED
    BY <1>1, <1>2, <1>4

LEMMA GoogleKeepsTypes ==
  ASSUME IInv, Open, Edited \/ Emptied \/ (\E on \in BOOLEAN : Reacted(on)) \/ Deleted,
         UNCHANGED <<streamVars, matrixVars, returned, does, raced>>,
         RpcTypeOK', answer' \in [Calls -> SUBSET (0..MaxLog)]
  PROVE  TypeOK'
  <1>1. /\ log' \in Seq(Events) /\ Len(log') \in 1..MaxLog /\ Len(log) <= Len(log')
        /\ text' \in 0..MaxLog /\ gone' \in BOOLEAN /\ reacted' \in BOOLEAN /\ text <= text'
        /\ text \in 0..MaxLog /\ Len(log) \in 1..MaxLog
    BY GoogleStep DEF IInv, TypeOK
  <1>2. pos' \in 1..Len(log') /\ drain' \in Seq(1..Len(log')) /\ Len(drain') <= MaxLog
    <2>1. pos \in 1..Len(log) /\ drain \in Seq(1..Len(log)) /\ Len(drain) <= MaxLog
      BY DEF IInv, TypeOK
    <2>2. 1..Len(log) \subseteq 1..Len(log')
      BY <1>1
    <2>3. drain \in Seq(1..Len(log'))
      BY <2>1, <2>2, SeqMonotonic
    <2> QED
      BY <2>1, <2>2, <2>3 DEF streamVars
  <1>3. lastEdit' \in 0..text' /\ shown' \in 0..text'
    BY <1>1 DEF IInv, TypeOK, matrixVars
  <1>4. UNCHANGED <<row, reactRow, unsent, reconnects, returned, raced, does>>
    BY DEF matrixVars, streamVars
  <1> QED
    BY <1>1, <1>2, <1>3, <1>4 DEF TypeOK, IInv, Events

(* A change on Google Chat that no call of the bridge made.                *)
LEMMA GoogleChangeInv ==
  ASSUME IInv, GoogleChange
  PROVE  IInv'
  <1>1. Open /\ (Edited \/ Emptied \/ (\E on \in BOOLEAN : Reacted(on)) \/ Deleted)
    BY DEF GoogleChange, IInv, TypeOK
  <1>2. UNCHANGED <<rpcVars, does, answer, streamVars, matrixVars, returned, raced>>
    BY DEF GoogleChange
  <1>3. RpcTypeOK' /\ answer' \in [Calls -> SUBSET (0..MaxLog)]
    BY <1>2 DEF rpcVars, RpcTypeOK, IInv, TypeOK
  <1>4. TypeOK'
    BY <1>1, <1>2, <1>3, GoogleKeepsTypes
  <1>5. LogOK' /\ (gone => gone') /\ (text' = text \/ text < text') /\ text \in Nat /\ text' \in Nat
    <2>1. LogOK' /\ (gone => gone') /\ (text' = text \/ (text' = Len(log) /\ text < text'))
      BY <1>1, GoogleStep
    <2>2. text \in Nat
      BY DEF IInv, TypeOK
    <2>3. text' \in Nat
      BY <1>4 DEF TypeOK
    <2> QED
      BY <2>1, <2>2, <2>3
  <1>6. UNCHANGED <<pos, drain, shown, lastEdit, row>>
    BY <1>2 DEF streamVars, matrixVars
  <1>7. (text' # text => Pending(text + 1)') /\ (Pending(text + 1) => Pending(text + 1)')
    BY <1>1, <1>6, GoogleKeepsCalls
  <1>8. ASSUME NEW c \in Calls
        PROVE  CallOK(c)'
    <2>1. CallOK(c) /\ answer[c] \subseteq 0..MaxLog
      BY DEF IInv, TypeOK
    <2>2. UNCHANGED <<state, answer, outstanding, performed, issued, does, returned, shown>>
      BY <1>2, <1>6 DEF rpcVars
    <2>3. \A t \in answer[c] : t <= text /\ t \in Nat
      BY <2>1 DEF CallOK
    <2>4. \A t \in answer[c] : t <= text'
      BY <1>5, <2>3
    <2> QED
      BY <1>5, <1>7, <2>1, <2>2, <2>4 DEF CallOK
  <1>9. OneHandler'
    BY <1>2 DEF IInv, OneHandler, rpcVars
  <1>10. ShownOK'
    BY <1>5, <1>6, <1>7 DEF IInv, ShownOK
  <1> QED
    BY <1>4, <1>5, <1>8, <1>9, <1>10 DEF IInv

(* ... and one that a request of the bridge made.                          *)
LEMMA ServerPerformsInv ==
  ASSUME IInv, NEW c \in Calls, ServerPerforms(c)
  PROVE  IInv'
  <1>1. Open /\ (Edited \/ Emptied \/ (\E on \in BOOLEAN : Reacted(on)) \/ Deleted)
        /\ (does[c] = "edit" => Edited) /\ (does[c] = "delete" => Deleted)
    BY DEF ServerPerforms
  <1>2. UNCHANGED <<does, streamVars, matrixVars, returned, raced>>
    BY DEF ServerPerforms
  <1>3. /\ outstanding[c] > 0 /\ outstanding' = [outstanding EXCEPT ![c] = @ - 1]
        /\ performed' = [performed EXCEPT ![c] = @ + 1] /\ UNCHANGED <<state, issued>>
        /\ answer' = [answer EXCEPT ![c] = IF does[c] = "edit" THEN @ \cup {text'} ELSE @]
    BY DEF ServerPerforms, Perform
  <1>4. \A d \in Calls : outstanding[d] \in 0..MaxIssues /\ performed[d] \in 0..MaxIssues
          /\ issued[d] \in 0..MaxIssues /\ outstanding[d] + performed[d] <= issued[d]
    BY DEF IInv, TypeOK, RpcTypeOK, CallOK
  <1>5. RpcTypeOK'
    <2>1. outstanding[c] - 1 \in 0..MaxIssues /\ performed[c] + 1 \in 0..MaxIssues
      BY <1>3, <1>4, UpdatesAssumption
    <2> QED
      BY <1>3, <2>1 DEF RpcTypeOK, IInv, TypeOK
  <1>6. text' \in 0..MaxLog /\ LogOK' /\ (gone => gone') /\ (text' = text \/ (text' = Len(log) /\ text < text'))
        /\ text \in 0..MaxLog /\ shown \in 0..text
        /\ (does[c] = "delete" => gone') /\ (does[c] = "edit" => text' # text)
    BY <1>1, GoogleStep DEF IInv, TypeOK, LogOK
  <1>7. answer' \in [Calls -> SUBSET (0..MaxLog)]
    BY <1>3, <1>6 DEF IInv, TypeOK
  <1>8. TypeOK'
    BY <1>1, <1>2, <1>5, <1>7, GoogleKeepsTypes
  <1>9. UNCHANGED <<pos, drain, shown, lastEdit, row>>
    BY <1>2 DEF streamVars, matrixVars
  <1>10. (text' # text => Pending(text + 1)') /\ (Pending(text + 1) => Pending(text + 1)')
    BY <1>1, <1>9, GoogleKeepsCalls
  <1>11. ASSUME NEW d \in Calls
         PROVE  CallOK(d)'
    <2>1. CallOK(d) /\ answer[d] \subseteq 0..MaxLog
      BY DEF IInv, TypeOK
    <2>2. \A t \in answer[d] : t <= text' /\ t \in Nat
      BY <1>6, <2>1 DEF CallOK
    <2>3. CASE d # c
      <3>1. answer'[d] = answer[d] /\ outstanding'[d] = outstanding[d]
            /\ performed'[d] = performed[d]
        BY <1>3, <2>3 DEF IInv, TypeOK, RpcTypeOK
      <3> QED
        BY <1>2, <1>3, <1>6, <1>9, <1>10, <2>1, <2>2, <3>1 DEF CallOK
    <2>4. CASE d = c
      <3>1. /\ answer'[c] = IF does[c] = "edit" THEN answer[c] \cup {text'} ELSE answer[c]
            /\ outstanding'[c] = outstanding[c] - 1 /\ performed'[c] = performed[c] + 1
        BY <1>3 DEF IInv, TypeOK, RpcTypeOK
      <3>2. state[c] # "idle" /\ performed'[c] > 0
            /\ outstanding'[c] + performed'[c] <= issued[c]
        BY <1>3, <1>4, <2>1, <2>4, <3>1 DEF CallOK
      <3>3. shown <= text'
        BY <1>6
      <3>4. \A t \in answer'[c] : t <= text'
        BY <1>6, <2>2, <2>4, <3>1
      <3>5. c \notin returned => (\A t \in answer'[c] : shown <= t)
            /\ (answer'[c] # {} => Pending(text + 1)')
        BY <1>6, <1>10, <2>1, <2>4, <3>1, <3>3 DEF CallOK
      <3>6. does[c] = "delete" => gone'
        BY <1>6
      <3> QED
        BY <1>2, <1>3, <1>9, <2>4, <3>2, <3>4, <3>5, <3>6 DEF CallOK
    <2> QED
      BY <2>3, <2>4
  <1>12. OneHandler'
    BY <1>2, <1>3 DEF IInv, OneHandler
  <1>13. ShownOK'
    BY <1>6, <1>9, <1>10 DEF IInv, ShownOK
  <1> QED
    BY <1>6, <1>8, <1>11, <1>12, <1>13 DEF IInv

(* The steps that change neither the log nor what the room shows.          *)
LEMMA CallStep ==
  ASSUME IInv, NEW c \in Calls, ServerRefuses(c) \/ RpcStep(c)
  PROVE  IInv'
  <1>1. UNCHANGED <<does, googleVars, answer, streamVars, matrixVars, returned, raced>>
    BY DEF ServerRefuses, RpcStep
  <1>2. \A d \in Calls : outstanding[d] \in 0..MaxIssues /\ performed[d] \in 0..MaxIssues
          /\ issued[d] \in 0..MaxIssues /\ outstanding[d] + performed[d] <= issued[d]
    BY DEF IInv, TypeOK, RpcTypeOK, CallOK
  <1>3. /\ RpcTypeOK'
        /\ \A d \in Calls \ {c} : /\ state'[d] = state[d] /\ outstanding'[d] = outstanding[d]
                                   /\ issued'[d] = issued[d] /\ performed'[d] = performed[d]
        /\ outstanding'[c] + performed'[c] <= issued'[c]
        /\ performed'[c] = performed[c]
        /\ state[c] = "idle" => state'[c] = "idle" /\ outstanding'[c] = 0
        /\ state[c] # "idle" => state'[c] # "idle"
        /\ state'[c] = "ok" => state[c] = "ok" \/ performed[c] > 0
    <2>1. CASE ServerRefuses(c)
      <3>1. outstanding[c] > 0 /\ outstanding' = [outstanding EXCEPT ![c] = @ - 1]
            /\ UNCHANGED <<state, issued, performed>>
        BY <2>1 DEF ServerRefuses, Refuse
      <3>2. outstanding[c] - 1 \in 0..MaxIssues
        BY <1>2, <3>1, UpdatesAssumption
      <3>3. state[c] # "idle"
        BY <3>1 DEF IInv, CallOK
      <3> QED
        BY <1>2, <3>1, <3>2, <3>3 DEF IInv, TypeOK, RpcTypeOK
    <2>2. CASE Issue(c)
      <3>1. /\ state[c] = "calling" /\ issued[c] < MaxIssues
            /\ issued' = [issued EXCEPT ![c] = @ + 1]
            /\ outstanding' = [outstanding EXCEPT ![c] = @ + 1]
            /\ UNCHANGED <<state, performed>>
        BY <2>2 DEF Issue
      <3>2. issued[c] + 1 \in 0..MaxIssues /\ outstanding[c] + 1 \in 0..MaxIssues
        BY <1>2, <3>1, UpdatesAssumption
      <3> QED
        BY <1>2, <3>1, <3>2, SMTT(30) DEF IInv, TypeOK, RpcTypeOK
    <2>3. CASE Succeed(c) \/ Fail(c)
      BY <1>2, <2>3 DEF Succeed, Fail, IInv, TypeOK, RpcTypeOK
    <2> QED
      BY <2>1, <2>2, <2>3 DEF RpcStep
  <1>4. TypeOK'
    BY <1>1, <1>3 DEF IInv, TypeOK, googleVars, streamVars, matrixVars
  <1>5. LogOK' /\ ShownOK' /\ OneHandler'
    BY <1>1, <1>3 DEF IInv, LogOK, ShownOK, OneHandler, Pending, googleVars, streamVars,
       matrixVars
  <1>6. ASSUME NEW d \in Calls
        PROVE  CallOK(d)'
    <2>1. Pending(text + 1)' <=> Pending(text + 1)
      BY <1>1 DEF Pending, googleVars, streamVars
    <2>2. CallOK(d) /\ UNCHANGED <<does, answer, text, gone, shown, returned>>
      BY <1>1 DEF IInv, googleVars, matrixVars
    <2> QED
      BY <1>3, <2>1, <2>2 DEF CallOK
  <1> QED
    BY <1>4, <1>5, <1>6 DEF IInv

(* A Matrix change comes in.                                               *)
LEMMA HandleMatrixInv ==
  ASSUME IInv, NEW c \in Calls, NEW change \in Changes, HandleMatrix(c, change)
  PROVE  IInv'
  <1>1. /\ UNCHANGED <<googleVars, answer, streamVars, row, lastEdit, shown, reactRow, returned, raced>>
        /\ does' = [does EXCEPT ![c] = change] /\ unsent' = (unsent \/ change = "edit")
        /\ Idle
    BY DEF HandleMatrix
  <1>2. /\ state[c] = "idle" /\ state' = [state EXCEPT ![c] = "calling"]
        /\ UNCHANGED <<outstanding, issued, performed>>
    BY DEF HandleMatrix, Invoke
  <1>3. RpcTypeOK'
    BY <1>2 DEF IInv, TypeOK, RpcTypeOK
  <1>4. unsent' \in BOOLEAN /\ does' \in [Calls -> Changes \cup {"none"}]
    BY <1>1 DEF IInv, TypeOK
  <1>5. TypeOK'
    BY <1>1, <1>3, <1>4 DEF IInv, TypeOK, googleVars, streamVars
  <1>6. LogOK' /\ ShownOK'
    BY <1>1 DEF IInv, LogOK, ShownOK, Pending, googleVars, streamVars
  <1>7. \A d \in Calls \ returned' : state'[d] # "idle" => d = c
    BY <1>1, <1>2 DEF Idle, IInv, TypeOK, RpcTypeOK
  <1>8. OneHandler'
    BY <1>7 DEF OneHandler
  <1>9. ASSUME NEW d \in Calls
        PROVE  CallOK(d)'
    <2>1. Pending(text + 1)' <=> Pending(text + 1)
      BY <1>1 DEF Pending, googleVars, streamVars
    <2>2. CallOK(d) /\ UNCHANGED <<answer, text, gone, shown, returned, outstanding, issued, performed>>
      BY <1>1, <1>2 DEF IInv, googleVars
    <2>3. CASE d = c
      <3>1. answer[c] = {} /\ outstanding[c] = 0 /\ performed[c] = 0 /\ state'[c] = "calling"
        BY <1>2, <2>2, <2>3 DEF CallOK, IInv, TypeOK, RpcTypeOK
      <3> QED
        BY <2>2, <2>3, <3>1 DEF CallOK
    <2>4. CASE d # c
      <3>1. does'[d] = does[d] /\ state'[d] = state[d]
        BY <1>1, <1>2, <2>4 DEF IInv, TypeOK, RpcTypeOK
      <3> QED
        BY <2>1, <2>2, <3>1 DEF CallOK
    <2> QED
      BY <2>3, <2>4
  <1> QED
    BY <1>5, <1>6, <1>8, <1>9 DEF IInv

(* A handler returns; an edit is shown under the time of its answer.       *)
LEMMA ReturnInv ==
  ASSUME IInv, NEW c \in Calls,
         EditSent(c) \/ ReactionSent(c) \/ DeleteSent(c) \/ NotSent(c)
  PROVE  IInv' /\ (row /\ row' => shown <= shown')
  <1>1. /\ UNCHANGED <<rpcVars, does, googleVars, answer, streamVars, raced>>
        /\ c \notin returned /\ returned' = returned \cup {c} /\ state[c] # "idle"
    BY DEF EditSent, ReactionSent, DeleteSent, NotSent, Return
  <1>2. /\ lastEdit' \in 0..text /\ shown' = lastEdit' /\ shown <= shown'
        /\ shown' = shown \/ shown' \in answer[c]
        /\ row' \in BOOLEAN /\ reactRow' \in BOOLEAN /\ unsent' \in BOOLEAN
        /\ row' = row \/ gone
    <2>0. shown = lastEdit /\ lastEdit \in 0..text /\ text \in Nat
      BY DEF IInv, ShownOK, TypeOK
    <2>00. row \in BOOLEAN /\ reactRow \in BOOLEAN /\ unsent \in BOOLEAN
      BY DEF IInv, TypeOK
    <2>1. CASE EditSent(c)
      <3>1. PICK t \in answer[c] : lastEdit' = t /\ shown' = t /\ unsent' = FALSE
            /\ UNCHANGED <<row, reactRow>>
        BY <2>1 DEF EditSent
      <3>2. t \in 0..MaxLog /\ t <= text /\ shown <= t
        BY <1>1 DEF IInv, TypeOK, CallOK
      <3>3. lastEdit' \in 0..text /\ shown <= shown'
        BY <2>0, <3>1, <3>2
      <3>4. row' \in BOOLEAN /\ reactRow' \in BOOLEAN /\ unsent' \in BOOLEAN
        BY <2>00, <3>1
      <3> QED
        BY <3>1, <3>3, <3>4
    <2>2. CASE ReactionSent(c)
      BY <2>0, <2>2 DEF ReactionSent, IInv, TypeOK
    <2>3. CASE DeleteSent(c)
      <3>1. gone
        BY <2>3 DEF DeleteSent, IInv, CallOK
      <3>2. row' = FALSE /\ reactRow' = FALSE /\ UNCHANGED <<lastEdit, shown, unsent>>
        BY <2>3 DEF DeleteSent
      <3>3. shown <= shown' /\ lastEdit' \in 0..text /\ shown' = lastEdit'
        BY <2>0, <3>2
      <3> QED
        BY <2>00, <3>1, <3>2, <3>3
    <2>4. CASE NotSent(c)
      BY <2>0, <2>4 DEF NotSent, matrixVars, IInv, TypeOK
    <2> QED
      BY <2>1, <2>2, <2>3, <2>4
  <1>3. RpcTypeOK'
    BY <1>1 DEF IInv, TypeOK, RpcTypeOK, rpcVars
  <1>4. TypeOK'
    <2>1. shown' \in 0..text /\ returned' \subseteq Calls
      BY <1>1, <1>2 DEF IInv, TypeOK
    <2> QED
      BY <1>1, <1>2, <1>3, <2>1 DEF IInv, TypeOK, googleVars, streamVars
  <1>5. LogOK'
    BY <1>1 DEF IInv, LogOK, googleVars
  <1>6. Pending(text + 1)' <=> Pending(text + 1)
    BY <1>1 DEF Pending, googleVars, streamVars
  <1>7. answer[c] # {} => Pending(text + 1)
    BY <1>1 DEF IInv, CallOK
  <1>8. ShownOK'
    BY <1>1, <1>2, <1>6, <1>7 DEF IInv, ShownOK, googleVars
  <1>9. OneHandler'
    BY <1>1 DEF IInv, OneHandler, rpcVars
  <1>10. ASSUME NEW d \in Calls
         PROVE  CallOK(d)'
    <2>1. CallOK(d) /\ UNCHANGED <<state, outstanding, issued, performed, does, answer, text, gone>>
      BY <1>1 DEF IInv, rpcVars, googleVars
    <2>2. d \notin returned' => answer[d] = {}
      <3>1. ASSUME d \notin returned'
            PROVE  state[d] = "idle"
        BY <1>1, <3>1 DEF IInv, OneHandler
      <3> QED
        BY <2>1, <3>1 DEF CallOK
    <2> QED
      BY <1>1, <2>1, <2>2 DEF CallOK
  <1> QED
    BY <1>2, <1>4, <1>5, <1>8, <1>9, <1>10 DEF IInv

(* What handling an event of the log does to the row and to the text.      *)
LEMMA HandleFacts ==
  ASSUME IInv, NEW k \in 1..Len(log), Handle(log[k])
  PROVE  /\ lastEdit' = shown' /\ shown' \in 0..text
         /\ row' \in BOOLEAN /\ reactRow' \in BOOLEAN /\ unsent' \in BOOLEAN
         /\ row /\ row' => shown <= shown'
         /\ ~gone => row'
         /\ ~gone /\ (k = text + 1 \/ shown = text) => shown' = text
  <1>1. text \in Nat /\ shown \in 0..text /\ lastEdit = shown
    BY DEF IInv, TypeOK, ShownOK
  <1>2. row \in BOOLEAN /\ reactRow \in BOOLEAN /\ unsent \in BOOLEAN
    BY DEF IInv, TypeOK
  <1>3. ~gone => row
    BY DEF IInv, ShownOK
  <1>4. log[k].time \in Nat /\ (log[k].kind = "edited" => log[k].time <= text)
    <2>1. log[k] \in Events
      BY ElementOfSeq DEF IInv, TypeOK, Events
    <2> QED
      BY <2>1 DEF Events, IInv, LogOK
  <1>5. k = text + 1 /\ text > 0 => log[k].kind = "edited" /\ log[k].time = text
    BY DEF IInv, LogOK
  <1>6. CASE MessagePosted(log[k])
    <2>1. row' = TRUE /\ unsent' = (unsent /\ row) /\ reactRow' = reactRow
          /\ log[k].kind = "posted"
      BY <1>6 DEF MessagePosted
    <2>2. IF row THEN lastEdit' = lastEdit /\ shown' = shown ELSE lastEdit' = 0 /\ shown' = 0
      BY <1>6 DEF MessagePosted
    <2>3. lastEdit' = shown' /\ shown' \in 0..text /\ (row => shown' = shown)
      BY <1>1, <2>2
    <2>4. k = text + 1 => shown = text
      BY <1>1, <1>5, <2>1
    <2>5. ~gone /\ (k = text + 1 \/ shown = text) => shown' = text
      BY <1>3, <2>3, <2>4
    <2>6. row => shown <= shown'
      BY <1>1, <2>3
    <2>7. row' \in BOOLEAN /\ reactRow' \in BOOLEAN /\ unsent' \in BOOLEAN
      BY <1>2, <2>1
    <2> QED
      BY <2>1, <2>3, <2>5, <2>6, <2>7
  <1>7. CASE MessageEdited(log[k])
    <2>1. row' = row /\ reactRow' = reactRow
      BY <1>7 DEF MessageEdited
    <2>2. IF row /\ lastEdit < log[k].time /\ log[k].kind = "edited"
          THEN lastEdit' = log[k].time /\ shown' = log[k].time /\ unsent' = FALSE
          ELSE lastEdit' = lastEdit /\ shown' = shown /\ unsent' = unsent
      BY <1>7 DEF MessageEdited
    <2>3. lastEdit' = shown' /\ shown' \in 0..text /\ shown <= shown'
      BY <1>1, <1>4, <2>2
    <2>4. shown = text => shown' = text
      BY <1>1, <1>4, <2>2
    <2>5. row /\ k = text + 1 => shown' = text
      BY <1>1, <1>4, <1>5, <2>2
    <2>6. unsent' \in BOOLEAN
      BY <1>2, <2>2
    <2> QED
      BY <1>2, <1>3, <2>1, <2>3, <2>4, <2>5, <2>6
  <1>8. CASE MessageReaction(log[k])
    <2>1. row' = row /\ lastEdit' = lastEdit /\ shown' = shown /\ unsent' = unsent
          /\ reactRow' \in BOOLEAN /\ log[k].kind # "edited"
      BY <1>2, <1>8 DEF MessageReaction
    <2>2. k = text + 1 => shown = text
      BY <1>1, <1>5, <2>1
    <2>3. shown <= shown' /\ shown' \in 0..text /\ lastEdit' = shown'
      BY <1>1, <2>1
    <2> QED
      BY <1>2, <1>3, <2>1, <2>2, <2>3
  <1>9. CASE MessageDeleted(log[k])
    <2>1. row' = FALSE /\ reactRow' = FALSE /\ lastEdit' = lastEdit /\ shown' = shown
          /\ unsent' = unsent /\ log[k].kind = "deleted"
      BY <1>9 DEF MessageDeleted
    <2>2. gone
      BY <2>1 DEF IInv, LogOK
    <2>3. shown' \in 0..text /\ lastEdit' = shown'
      BY <1>1, <2>1
    <2> QED
      BY <1>2, <2>1, <2>2, <2>3
  <1> QED
    BY <1>6, <1>7, <1>8, <1>9 DEF Handle

(* An event is handled while no Matrix handler runs.                       *)
LEMMA EventInv ==
  ASSUME IInv, Idle, NEW k \in 1..Len(log), Handle(log[k]),
         UNCHANGED <<rpcVars, does, googleVars, answer, reconnects, returned>>,
         pos' \in 1..Len(log), drain' \in Seq(1..Len(log)), Len(drain') <= MaxLog,
         raced' \in BOOLEAN,
         Pending(text + 1) => k = text + 1 \/ Pending(text + 1)'
  PROVE  IInv' /\ (row /\ row' => shown <= shown')
  <1>1. /\ lastEdit' = shown' /\ shown' \in 0..text
        /\ row' \in BOOLEAN /\ reactRow' \in BOOLEAN /\ unsent' \in BOOLEAN
        /\ row /\ row' => shown <= shown'
        /\ ~gone => row'
        /\ ~gone /\ (k = text + 1 \/ shown = text) => shown' = text
    BY HandleFacts
  <1>2. RpcTypeOK'
    BY DEF IInv, TypeOK, RpcTypeOK, rpcVars
  <1>3. UNCHANGED <<gone, text, reacted, log>>
    BY DEF googleVars
  <1>4. TypeOK'
    BY <1>1, <1>2, <1>3 DEF IInv, TypeOK
  <1>5. LogOK'
    BY <1>3 DEF IInv, LogOK
  <1>6. ShownOK'
    <2>1. ~gone => shown = text \/ Pending(text + 1)
      BY DEF IInv, ShownOK
    <2> QED
      BY <1>1, <1>3, <2>1 DEF ShownOK
  <1>7. OneHandler'
    BY DEF IInv, OneHandler, rpcVars
  <1>8. ASSUME NEW d \in Calls
        PROVE  CallOK(d)'
    <2>1. CallOK(d) /\ UNCHANGED <<state, outstanding, issued, performed, does, answer, returned>>
      BY DEF IInv, rpcVars
    <2>2. d \notin returned => answer[d] = {}
      BY <2>1 DEF Idle, CallOK
    <2> QED
      BY <1>3, <2>1, <2>2 DEF CallOK
  <1> QED
    BY <1>1, <1>4, <1>5, <1>6, <1>7, <1>8 DEF IInv

LEMMA LiveEventInv ==
  ASSUME IInv, LiveEvent
  PROVE  IInv' /\ (row /\ row' => shown <= shown')
  <1>1. pos \in 1..Len(log) /\ Len(log) \in Nat /\ pos < Len(log) /\ text \in Nat
    BY DEF IInv, TypeOK, LiveEvent
  <1>2. pos' = pos + 1 /\ UNCHANGED <<drain, text>>
    BY DEF LiveEvent, googleVars
  <1>3. pos + 1 \in 1..Len(log) /\ pos' \in 1..Len(log)
    BY <1>1, <1>2
  <1>4. Pending(text + 1) => pos + 1 = text + 1 \/ Pending(text + 1)'
    BY <1>1, <1>2 DEF Pending
  <1>5. drain' \in Seq(1..Len(log)) /\ Len(drain') <= MaxLog /\ raced' \in BOOLEAN
    BY DEF LiveEvent, IInv, TypeOK
  <1>6. Idle /\ Handle(log[pos + 1])
        /\ UNCHANGED <<rpcVars, does, googleVars, answer, reconnects, returned>>
    BY DEF LiveEvent
  <1> QED
    BY ONLY IInv, <1>3, <1>4, <1>5, <1>6, EventInv

LEMMA DrainedEventInv ==
  ASSUME IInv, DrainedEvent
  PROVE  IInv' /\ (row /\ row' => shown <= shown')
  <1>1. drain \in Seq(1..Len(log)) /\ drain # <<>> /\ Len(drain) <= MaxLog
        /\ drain' = Tail(drain) /\ UNCHANGED <<pos, text, raced>>
    BY DEF IInv, TypeOK, DrainedEvent, googleVars
  <1>2. /\ Head(drain) \in 1..Len(log) /\ Head(drain) = drain[1]
        /\ Tail(drain) \in Seq(1..Len(log)) /\ Len(Tail(drain)) = Len(drain) - 1
        /\ \A j \in 1..Len(Tail(drain)) : Tail(drain)[j] = drain[j + 1]
        /\ Len(drain) \in Nat /\ Len(drain) > 0
    BY <1>1, HeadTailProperties, EmptySeq
  <1>3. ASSUME NEW j \in 1..Len(drain), drain[j] = text + 1, j # 1
        PROVE  Pending(text + 1)'
    <2>1. j - 1 \in 1..Len(Tail(drain)) /\ (j - 1) + 1 = j
      BY <1>2, <1>3
    <2>2. Tail(drain)[j - 1] = text + 1
      BY <1>2, <1>3, <2>1
    <2> QED
      BY <1>1, <2>1, <2>2 DEF Pending
  <1>4. Pending(text + 1) => Head(drain) = text + 1 \/ Pending(text + 1)'
    BY <1>1, <1>2, <1>3 DEF Pending
  <1>5. pos' \in 1..Len(log) /\ raced' \in BOOLEAN
    BY <1>1 DEF IInv, TypeOK
  <1>6. drain' \in Seq(1..Len(log)) /\ Len(drain') <= MaxLog
    <2>1. MaxLog \in Nat
      BY UpdatesAssumption
    <2> QED
      BY <1>1, <1>2, <2>1
  <1>7. Idle /\ Handle(log[Head(drain)])
        /\ UNCHANGED <<rpcVars, does, googleVars, answer, reconnects, returned>>
    BY DEF DrainedEvent
  <1> QED
    BY ONLY IInv, <1>2, <1>4, <1>5, <1>6, <1>7, EventInv

(* The stream skips what the drain replays.                                *)
LEMMA ReconnectInv ==
  ASSUME IInv, Reconnect
  PROVE  IInv' /\ UNCHANGED <<row, shown>>
  <1>1. PICK i \in 1..(pos + 1) : drain' = [j \in 1..(Len(log) + 1 - i) |-> i + j - 1]
    BY DEF Reconnect
  <1>2. /\ drain = <<>> /\ pos' = Len(log) /\ reconnects' = reconnects + 1
        /\ reconnects < MaxReconnects
        /\ UNCHANGED <<rpcVars, does, googleVars, answer, matrixVars, returned, raced>>
    BY DEF Reconnect
  <1>3. pos \in 1..Len(log) /\ Len(log) \in 1..MaxLog /\ reconnects \in 0..MaxReconnects
        /\ MaxLog \in Nat /\ MaxReconnects \in Nat /\ text \in Nat /\ text < Len(log)
    BY UpdatesAssumption DEF IInv, TypeOK, LogOK
  <1>4. Len(log) + 1 - i \in Nat /\ Len(log) + 1 - i <= MaxLog /\ i \in Nat \ {0}
    BY <1>3
  <1>5. /\ drain' \in Seq(1..Len(log)) /\ Len(drain') = Len(log) + 1 - i
        /\ \A j \in 1..Len(drain') : drain'[j] = i + j - 1
    <2>1. \A j \in 1..(Len(log) + 1 - i) : i + j - 1 \in 1..Len(log)
      BY <1>3, <1>4
    <2> QED
      BY <1>1, <1>4, <2>1
  <1>6. reconnects' \in 0..MaxReconnects /\ pos' \in 1..Len(log) /\ Len(drain') <= MaxLog
    BY <1>2, <1>3, <1>4, <1>5
  <1>7. UNCHANGED <<gone, text, reacted, log, row, lastEdit, shown, unsent, reactRow>>
    BY <1>2 DEF googleVars, matrixVars
  <1>8. RpcTypeOK'
    BY <1>2 DEF IInv, TypeOK, RpcTypeOK, rpcVars
  <1>9. TypeOK'
    BY <1>2, <1>5, <1>6, <1>7, <1>8 DEF IInv, TypeOK
  <1>10. Pending(text + 1) => Pending(text + 1)'
    <2>1. SUFFICES ASSUME text + 1 > pos
                   PROVE  \E j \in 1..Len(drain') : drain'[j] = text + 1
      BY <1>2, <1>7 DEF Pending
    <2>2. text + 2 - i \in 1..Len(drain') /\ i + (text + 2 - i) - 1 = text + 1
      BY <1>3, <1>4, <1>5, <2>1
    <2> QED
      BY <1>5, <2>2
  <1>11. LogOK' /\ ShownOK'
    BY <1>7, <1>10 DEF IInv, LogOK, ShownOK
  <1>12. OneHandler'
    BY <1>2 DEF IInv, OneHandler, rpcVars
  <1>13. ASSUME NEW d \in Calls
         PROVE  CallOK(d)'
    <2>1. CallOK(d) /\ UNCHANGED <<state, outstanding, issued, performed, does, answer, returned>>
      BY <1>2 DEF IInv, rpcVars
    <2> QED
      BY <1>7, <1>10, <2>1 DEF CallOK
  <1> QED
    BY <1>7, <1>9, <1>11, <1>12, <1>13 DEF IInv

LEMMA StutterInv ==
  ASSUME IInv, UNCHANGED vars
  PROVE  IInv'
  <1>1. UNCHANGED <<rpcVars, does, googleVars, answer, streamVars, matrixVars, returned, raced>>
    BY DEF vars
  <1>2. RpcTypeOK'
    BY <1>1 DEF IInv, TypeOK, RpcTypeOK, rpcVars
  <1>3. TypeOK'
    BY <1>1, <1>2 DEF IInv, TypeOK, googleVars, streamVars, matrixVars
  <1>4. LogOK' /\ ShownOK' /\ OneHandler'
    BY <1>1 DEF IInv, LogOK, ShownOK, OneHandler, Pending, googleVars, streamVars,
       matrixVars, rpcVars
  <1>5. ASSUME NEW d \in Calls
        PROVE  CallOK(d)'
    BY <1>1 DEF IInv, CallOK, Pending, rpcVars, googleVars, streamVars, matrixVars
  <1> QED
    BY <1>3, <1>4, <1>5 DEF IInv

LEMMA NextInv ==
  ASSUME IInv, [Next]_vars
  PROVE  IInv' /\ (row /\ row' => shown <= shown')
  <1>1. shown \in Nat
    BY DEF IInv, TypeOK
  <1>2. CASE GoogleChange
    <2>1. IInv'
      BY <1>2, GoogleChangeInv
    <2>2. shown' = shown
      BY <1>2 DEF GoogleChange, matrixVars
    <2> QED
      BY <1>1, <2>1, <2>2
  <1>3. CASE LiveEvent
    BY <1>3, LiveEventInv
  <1>4. CASE DrainedEvent
    BY <1>4, DrainedEventInv
  <1>5. CASE Reconnect
    BY <1>1, <1>5, ReconnectInv
  <1>6. ASSUME NEW c \in Calls, NEW change \in Changes, HandleMatrix(c, change)
        PROVE  IInv' /\ (row /\ row' => shown <= shown')
    <2>1. IInv'
      BY <1>6, HandleMatrixInv
    <2>2. shown' = shown
      BY <1>6 DEF HandleMatrix
    <2> QED
      BY <1>1, <2>1, <2>2
  <1>7. ASSUME NEW c \in Calls, RpcStep(c) \/ ServerPerforms(c) \/ ServerRefuses(c)
        PROVE  IInv' /\ (row /\ row' => shown <= shown')
    <2>1. IInv'
      BY <1>7, CallStep, ServerPerformsInv
    <2>2. shown' = shown
      BY <1>7 DEF RpcStep, ServerPerforms, ServerRefuses, matrixVars
    <2> QED
      BY <1>1, <2>1, <2>2
  <1>8. ASSUME NEW c \in Calls,
               EditSent(c) \/ ReactionSent(c) \/ DeleteSent(c) \/ NotSent(c)
        PROVE  IInv' /\ (row /\ row' => shown <= shown')
    BY <1>8, ReturnInv
  <1>9. CASE UNCHANGED vars
    <2>1. IInv' /\ shown' = shown
      BY <1>9, StutterInv DEF vars, matrixVars
    <2> QED
      BY <1>1, <2>1
  <1> QED
    BY <1>2, <1>3, <1>4, <1>5, <1>6, <1>7, <1>8, <1>9 DEF Next

(* The invariant that carries the theorems below: one Matrix handler at a  *)
(* time, and the event of the last edit is shown or still to come.         *)
THEOREM InvHolds == Spec => []IInv
  <1>1. Init => IInv
    BY InitInv
  <1>2. IInv /\ [Next]_vars => IInv'
    BY NextInv
  <1> QED
    BY <1>1, <1>2, PTL DEF Spec

(* Every variable stays in its type: among others, the room never shows an *)
(* edit that Google Chat has not had, and no drain points past the log.    *)
THEOREM UpdatesTypeCorrect == Spec => []TypeOK
  <1>1. IInv => TypeOK
    BY DEF IInv
  <1> QED
    BY <1>1, InvHolds, PTL

(* The text of a message never goes back to an older edit, however the     *)
(* live stream, a drain and Matrix edits interleave (convertEditToMatrix   *)
(* and HandleMatrixEdit).                                                  *)
THEOREM TextNeverGoesBack == Spec => EditsGoForward
  <1>1. IInv /\ [Next]_vars => [row /\ row' => shown <= shown']_vars
    BY NextInv
  <1> QED
    BY <1>1, InvHolds, PTL DEF Spec, EditsGoForward

(* Once every event has passed, the room shows the last text the message   *)
(* had on Google Chat, unless the sender of the edit in the room was told  *)
(* that it failed (convertEditToMatrix ignores an edit that takes all text *)
(* away, so the text before it stays).                                     *)
THEOREM TextConverges == Spec => []EditsConverge
  <1>1. IInv => EditsConverge
    <2>1. SUFFICES ASSUME IInv, Settled, ~gone
                   PROVE  shown = text
      BY DEF EditsConverge
    <2>2. pos = Len(log) /\ drain = <<>> /\ text \in Nat /\ text < Len(log) /\ Len(log) \in Nat
      BY <2>1 DEF Settled, IInv, TypeOK, LogOK
    <2>3. ~Pending(text + 1)
      BY <2>2 DEF Pending
    <2> QED
      BY <2>1, <2>3 DEF IInv, ShownOK
  <1> QED
    BY <1>1, InvHolds, PTL

(***************************************************************************)
(* Reactions and deletions, which carry no time.  As long as no live event *)
(* is handled among the events of a drain, the events pass in the order of *)
(* the log: Done is the last that did, even when a drain starts again      *)
(* behind it.  The reaction in the room is then the one of the last        *)
(* reaction event, unless another is still to come.                        *)
(***************************************************************************)
Reactions == {"reacted", "unreacted"}

Done == pos - Len(drain)

ReactionAfter(n) == \E i \in (n + 1)..Len(log) : log[i].kind \in Reactions

DrainOrder == ~raced => Len(drain) <= pos /\ \A j \in 1..Len(drain) : drain[j] = Done + j

LogOrder ==
  /\ \A i \in 1..Len(log) : log[i].kind = "deleted" <=> gone /\ i = Len(log)
  /\ \A i \in 1..Len(log) :
       log[i].kind \in Reactions /\ ~ReactionAfter(i) => reacted = (log[i].kind = "reacted")

DeletionTold == ~raced /\ gone /\ Done = Len(log) => ~row

ReactionTold == ~raced /\ ~gone /\ ~ReactionAfter(Done) => reactRow = reacted

(* What a running handler is about to store is what Google Chat has, or an *)
(* event that says otherwise waits for the handler to return.              *)
CallReacts(c) ==
  ~raced /\ c \notin returned /\ does[c] \in {"react", "unreact"} /\ performed[c] > 0
    => reacted = (does[c] = "react") \/ ReactionAfter(Done)

Order == DrainOrder /\ LogOrder /\ DeletionTold /\ ReactionTold /\ \A c \in Calls : CallReacts(c)

LEMMA DoneFacts ==
  ASSUME IInv, DrainOrder
  PROVE  /\ pos \in 1..Len(log) /\ Len(log) \in Nat /\ Len(drain) \in Nat
         /\ ~raced => Done \in 0..Len(log)
         /\ raced \in BOOLEAN /\ gone \in BOOLEAN /\ reacted \in BOOLEAN
         /\ row \in BOOLEAN /\ reactRow \in BOOLEAN
  BY DEF IInv, TypeOK, DrainOrder, Done

(* Google Chat's changes, seen from what passed already.                   *)
LEMMA GrowthFacts ==
  ASSUME IInv, LogOrder, Open, Edited \/ Emptied \/ (\E on \in BOOLEAN : Reacted(on)) \/ Deleted
  PROVE  /\ LogOrder'
         /\ gone' \in BOOLEAN /\ (gone' => Len(log') = Len(log) + 1)
         /\ \A n \in 0..Len(log) : ReactionAfter(n) => ReactionAfter(n)'
         /\ reacted' = reacted \/ \A n \in 0..Len(log) : ReactionAfter(n)'
  <1>0. /\ Len(log) \in 1..MaxLog /\ Len(log) \in Nat /\ MaxLog \in Nat /\ reacted \in BOOLEAN
        /\ gone = FALSE
    BY UpdatesAssumption DEF IInv, TypeOK, Open
  <1>1. ASSUME NEW k \in Kinds \ {"posted"}, NEW t \in 0..MaxLog, log' = Append(log, Event(k, t)),
               gone' = (k = "deleted"),
               reacted' = IF k \in Reactions THEN k = "reacted" ELSE reacted
        PROVE  /\ LogOrder'
               /\ gone' \in BOOLEAN /\ (gone' => Len(log') = Len(log) + 1)
               /\ \A n \in 0..Len(log) : ReactionAfter(n) => ReactionAfter(n)'
               /\ reacted' = reacted \/ \A n \in 0..Len(log) : ReactionAfter(n)'
    <2>1. /\ Len(log') = Len(log) + 1
          /\ \A i \in 1..Len(log) : log'[i] = log[i]
          /\ log'[Len(log) + 1].kind = k
      BY <1>1, Appended
    <2>2. \A n \in 0..Len(log) : ReactionAfter(n) => ReactionAfter(n)'
      <3> SUFFICES ASSUME NEW n \in 0..Len(log), ReactionAfter(n)
                   PROVE  ReactionAfter(n)'
        OBVIOUS
      <3>1. PICK i \in (n + 1)..Len(log) : log[i].kind \in Reactions
        BY DEF ReactionAfter
      <3>2. i \in (n + 1)..Len(log') /\ i \in 1..Len(log)
        BY <1>0, <2>1
      <3> QED
        BY <2>1, <3>1, <3>2 DEF ReactionAfter
    <2>3. k \in Reactions => \A n \in 0..Len(log) : ReactionAfter(n)'
      <3> SUFFICES ASSUME k \in Reactions, NEW n \in 0..Len(log)
                   PROVE  ReactionAfter(n)'
        OBVIOUS
      <3>1. Len(log) + 1 \in (n + 1)..Len(log')
        BY <1>0, <2>1
      <3> QED
        BY <2>1, <3>1 DEF ReactionAfter
    <2>4. \A i \in 1..Len(log') : i \in 1..Len(log) \/ i = Len(log) + 1
      BY <1>0, <2>1
    <2>5. ASSUME NEW i \in 1..Len(log')
          PROVE  log'[i].kind = "deleted" <=> gone' /\ i = Len(log')
      <3>1. CASE i \in 1..Len(log)
        BY <1>0, <2>1, <3>1 DEF LogOrder
      <3>2. CASE i = Len(log) + 1
        BY <1>0, <1>1, <2>1, <3>2
      <3> QED
        BY <2>4, <3>1, <3>2
    <2>6. ASSUME NEW i \in 1..Len(log'), log'[i].kind \in Reactions, ~ReactionAfter(i)'
          PROVE  reacted' = (log'[i].kind = "reacted")
      <3>1. CASE i \in 1..Len(log)
        <4>1. k \notin Reactions /\ ~ReactionAfter(i)
          BY <2>2, <2>3, <2>6, <3>1
        <4> QED
          BY <1>1, <2>1, <2>6, <3>1, <4>1 DEF LogOrder
      <3>2. CASE i = Len(log) + 1
        BY <1>1, <2>1, <2>6, <3>2
      <3> QED
        BY <2>4, <3>1, <3>2
    <2>7. LogOrder'
      BY <2>5, <2>6 DEF LogOrder
    <2>8. reacted' = reacted \/ \A n \in 0..Len(log) : ReactionAfter(n)'
      BY <1>1, <2>3
    <2> QED
      BY <1>1, <2>1, <2>2, <2>7, <2>8
  <1>2. CASE Edited
    <2>1. "edited" \in Kinds \ {"posted"} /\ Len(log) \in 0..MaxLog /\ "edited" \notin Reactions
      BY <1>0 DEF Kinds, Reactions
    <2> QED
      BY <1>0, <1>1, <1>2, <2>1 DEF Edited
  <1>3. CASE Deleted
    <2>1. "deleted" \in Kinds \ {"posted"} /\ 0 \in 0..MaxLog /\ "deleted" \notin Reactions
      BY <1>0 DEF Kinds, Reactions
    <2> QED
      BY <1>1, <1>3, <2>1 DEF Deleted
  <1>4. ASSUME NEW on \in BOOLEAN, Reacted(on)
        PROVE  /\ LogOrder'
               /\ gone' \in BOOLEAN /\ (gone' => Len(log') = Len(log) + 1)
               /\ \A n \in 0..Len(log) : ReactionAfter(n) => ReactionAfter(n)'
               /\ reacted' = reacted \/ \A n \in 0..Len(log) : ReactionAfter(n)'
    <2>1. CASE reacted = on
      <3>1. UNCHANGED <<log, gone, reacted>>
        BY <1>4, <2>1 DEF Reacted
      <3> QED
        BY <1>0, <3>1 DEF LogOrder, ReactionAfter
    <2>2. CASE reacted # on
      <3> DEFINE k == IF on THEN "reacted" ELSE "unreacted"
      <3>1. k \in Kinds \ {"posted"} /\ k # "deleted" /\ k \in Reactions /\ (on <=> k = "reacted")
            /\ 0 \in 0..MaxLog
        BY <1>0 DEF Kinds, Reactions
      <3>2. log' = Append(log, Event(k, 0)) /\ gone' = FALSE /\ reacted' = on
        BY <1>0, <1>4, <2>2 DEF Reacted
      <3> HIDE DEF k
      <3>3. reacted' = (k = "reacted")
        BY <3>1, <3>2
      <3> QED
        BY <1>1, <3>1, <3>2, <3>3
    <2> QED
      BY <2>1, <2>2
  <1>5. CASE Emptied
    <2>1. "emptied" \in Kinds \ {"posted"} /\ Len(log) \in 0..MaxLog /\ "emptied" \notin Reactions
      BY <1>0 DEF Kinds, Reactions
    <2> QED
      BY <1>0, <1>1, <1>5, <2>1 DEF Emptied
  <1> QED
    BY <1>2, <1>3, <1>4, <1>5

LEMMA GoogleOrder ==
  ASSUME IInv, Order, GoogleChange \/ \E c \in Calls : ServerPerforms(c)
  PROVE  Order'
  <1>1. Open /\ (Edited \/ Emptied \/ (\E on \in BOOLEAN : Reacted(on)) \/ Deleted)
    BY DEF GoogleChange, ServerPerforms, IInv, TypeOK
  <1>2. UNCHANGED <<does, pos, drain, row, reactRow, returned, raced>>
    BY DEF GoogleChange, ServerPerforms, streamVars, matrixVars
  <1>3. /\ LogOrder'
        /\ gone' \in BOOLEAN /\ (gone' => Len(log') = Len(log) + 1)
        /\ \A n \in 0..Len(log) : ReactionAfter(n) => ReactionAfter(n)'
        /\ reacted' = reacted \/ \A n \in 0..Len(log) : ReactionAfter(n)'
    BY <1>1, GrowthFacts DEF Order
  <1>4. /\ Done' = Done /\ DrainOrder' /\ (~raced => Done \in 0..Len(log)) /\ Len(log) \in Nat
        /\ raced \in BOOLEAN /\ gone = FALSE
    BY <1>1, <1>2, DoneFacts DEF Order, DrainOrder, Done, Open
  <1>5. ~raced => /\ ReactionAfter(Done) => ReactionAfter(Done)'
                  /\ reacted' = reacted \/ ReactionAfter(Done)'
    <2> SUFFICES ASSUME ~raced
                 PROVE  /\ ReactionAfter(Done) => ReactionAfter(Done)'
                        /\ reacted' = reacted \/ ReactionAfter(Done)'
      OBVIOUS
    <2> DEFINE d == Done
    <2>1. d \in 0..Len(log) /\ d' = d
      BY <1>4
    <2>2. ReactionAfter(d)' <=> \E i \in (d + 1)..Len(log') : log'[i].kind \in Reactions
      BY <2>1 DEF ReactionAfter
    <2>3. \A n \in 0..Len(log) :
            ReactionAfter(n)' <=> \E i \in (n + 1)..Len(log') : log'[i].kind \in Reactions
      BY DEF ReactionAfter
    <2> HIDE DEF d
    <2>4. /\ ReactionAfter(d) => ReactionAfter(d)'
          /\ reacted' = reacted \/ ReactionAfter(d)'
      BY <1>3, <2>1, <2>2, <2>3
    <2> QED
      BY <2>4 DEF d
  <1>6. DeletionTold'
    BY <1>2, <1>3, <1>4 DEF DeletionTold
  <1>7. ReactionTold'
    BY <1>2, <1>4, <1>5 DEF Order, ReactionTold
  <1>8. ASSUME NEW d \in Calls
        PROVE  CallReacts(d)'
    <2>1. CASE performed'[d] = performed[d]
      BY <1>2, <1>5, <2>1 DEF Order, CallReacts
    <2>2. ASSUME NEW c \in Calls, ServerPerforms(c), performed'[d] # performed[d]
          PROVE  CallReacts(d)'
      <3>1. c = d
        BY <2>2 DEF ServerPerforms, Perform, IInv, TypeOK, RpcTypeOK
      <3>2. does[d] \in {"react", "unreact"} => reacted' = (does[d] = "react")
        BY <2>2, <3>1 DEF ServerPerforms, Reacted
      <3> QED
        BY <1>2, <3>2 DEF CallReacts
    <2>3. CASE GoogleChange
      BY <2>1, <2>3 DEF GoogleChange, rpcVars
    <2> QED
      BY <2>1, <2>2, <2>3
  <1> QED
    BY <1>3, <1>4, <1>6, <1>7, <1>8 DEF Order

(* What the calls do before they return changes neither side of it.        *)
LEMMA CallOrder ==
  ASSUME IInv, Order, NEW c \in Calls,
         ServerRefuses(c) \/ RpcStep(c) \/ \E change \in Changes : HandleMatrix(c, change)
  PROVE  Order'
  <1>1. UNCHANGED <<log, gone, reacted, pos, drain, row, reactRow, raced, returned>>
    BY DEF ServerRefuses, RpcStep, HandleMatrix, googleVars, streamVars, matrixVars
  <1>2. Done' = Done /\ (ReactionAfter(Done)' <=> ReactionAfter(Done))
    BY <1>1 DEF Done, ReactionAfter
  <1>3. DrainOrder' /\ LogOrder' /\ DeletionTold' /\ ReactionTold'
    BY <1>1, <1>2 DEF Order, DrainOrder, LogOrder, DeletionTold, ReactionTold, ReactionAfter
  <1>4. performed' = performed
    BY DEF ServerRefuses, Refuse, RpcStep, Issue, Succeed, Fail, HandleMatrix, Invoke
  <1>5. ASSUME NEW d \in Calls
        PROVE  does'[d] = does[d] \/ performed[d] = 0
    <2>1. ASSUME NEW change \in Changes, HandleMatrix(c, change)
          PROVE  does'[d] = does[d] \/ performed[d] = 0
      <3>1. performed[c] = 0
        BY <2>1 DEF HandleMatrix, Invoke, IInv, CallOK
      <3> QED
        BY <2>1, <3>1 DEF HandleMatrix, IInv, TypeOK
    <2> QED
      BY <2>1 DEF ServerRefuses, RpcStep
  <1>6. ASSUME NEW d \in Calls
        PROVE  CallReacts(d)'
    BY <1>1, <1>2, <1>4, <1>5 DEF Order, CallReacts
  <1> QED
    BY <1>3, <1>6 DEF Order

(* A reaction is stored as Google Chat has it, or as it will be corrected; *)
(* a deletion is stored once the message is gone.                          *)
LEMMA ReturnOrder ==
  ASSUME IInv, Order, NEW c \in Calls,
         EditSent(c) \/ ReactionSent(c) \/ DeleteSent(c) \/ NotSent(c)
  PROVE  Order'
  <1>1. /\ UNCHANGED <<log, gone, reacted, pos, drain, raced, performed, does>>
        /\ c \notin returned /\ returned' = returned \cup {c}
    BY DEF EditSent, ReactionSent, DeleteSent, NotSent, Return, googleVars, streamVars, rpcVars
  <1>2. Done' = Done /\ (ReactionAfter(Done)' <=> ReactionAfter(Done))
    BY <1>1 DEF Done, ReactionAfter
  <1>3. DrainOrder' /\ LogOrder' /\ \A d \in Calls : CallReacts(d)'
    BY <1>1, <1>2 DEF Order, DrainOrder, LogOrder, CallReacts, ReactionAfter
  <1>4. CASE EditSent(c) \/ NotSent(c)
    <2>1. UNCHANGED <<row, reactRow>>
      BY <1>4 DEF EditSent, NotSent, matrixVars
    <2> QED
      BY <1>1, <1>2, <1>3, <2>1 DEF Order, DeletionTold, ReactionTold
  <1>5. CASE ReactionSent(c)
    <2>1. row' = row /\ reactRow' = (does[c] = "react") /\ does[c] \in {"react", "unreact"}
          /\ state[c] = "ok"
      BY <1>5 DEF ReactionSent
    <2>2. performed[c] > 0
      BY <2>1 DEF IInv, CallOK
    <2>3. ~raced => reacted = (does[c] = "react") \/ ReactionAfter(Done)
      BY <1>1, <2>1, <2>2 DEF Order, CallReacts
    <2> QED
      BY <1>1, <1>2, <1>3, <2>1, <2>3 DEF Order, DeletionTold, ReactionTold
  <1>6. CASE DeleteSent(c)
    <2>1. gone /\ row' = FALSE
      <3>1. does[c] = "delete" /\ state[c] = "ok" /\ row' = FALSE
        BY <1>6 DEF DeleteSent
      <3> QED
        BY <3>1 DEF IInv, CallOK
    <2> QED
      BY <1>1, <1>3, <2>1 DEF Order, DeletionTold, ReactionTold
  <1> QED
    BY <1>4, <1>5, <1>6

(* The next event in the order of the log.                                 *)
LEMMA EventOrder ==
  ASSUME IInv, Order, Idle, NEW k \in 1..Len(log), Handle(log[k]),
         UNCHANGED <<rpcVars, does, googleVars, returned>>,
         raced' \in BOOLEAN, DrainOrder',
         ~raced' => ~raced /\ k = Done + 1 /\ Done' = k
  PROVE  Order'
  <1>1. UNCHANGED <<log, gone, reacted>> /\ Len(log) \in Nat
    BY DEF googleVars, IInv, TypeOK
  <1>2. LogOrder'
    BY <1>1 DEF Order, LogOrder, ReactionAfter
  <1>3. \A d \in Calls : CallReacts(d)'
    <2> SUFFICES ASSUME NEW d \in Calls, d \notin returned
                 PROVE  ~(performed[d] > 0)
      BY DEF CallReacts, rpcVars
    <2>1. state[d] = "idle"
      BY DEF Idle
    <2> QED
      BY <2>1 DEF IInv, CallOK
  <1>4. ASSUME ~raced', gone, k = Len(log)
        PROVE  ~row'
    <2>1. log[k].kind = "deleted"
      BY <1>4 DEF Order, LogOrder
    <2> QED
      BY <2>1 DEF Handle, MessagePosted, MessageEdited, MessageReaction, MessageDeleted
  <1>5. DeletionTold'
    BY <1>1, <1>4 DEF DeletionTold
  <1>6. ASSUME ~raced', ~gone, ~ReactionAfter(k)
        PROVE  reactRow' = reacted
    <2>1. row /\ log[k].kind # "deleted"
      BY <1>6 DEF IInv, ShownOK, LogOK
    <2>2. CASE log[k].kind \in Reactions
      <3>1. reacted = (log[k].kind = "reacted")
        BY <1>6, <2>2 DEF Order, LogOrder
      <3>2. reactRow' = (row /\ log[k].kind = "reacted")
        BY <2>2 DEF Handle, MessagePosted, MessageEdited, MessageReaction, MessageDeleted,
                    Reactions
      <3>3. row = TRUE
        BY <2>1 DEF IInv, TypeOK
      <3> QED
        BY <3>1, <3>2, <3>3
    <2>3. CASE log[k].kind \notin Reactions
      <3>1. reactRow' = reactRow
        BY <2>1, <2>3 DEF Handle, MessagePosted, MessageEdited, MessageReaction,
                          MessageDeleted, Reactions
      <3>2. ~raced /\ k = Done + 1
        BY <1>6
      <3>3. ~ReactionAfter(Done)
        <4> SUFFICES ASSUME NEW i \in (Done + 1)..Len(log), log[i].kind \in Reactions
                     PROVE  FALSE
          BY DEF ReactionAfter
        <4>1. i # k
          BY <2>3
        <4>2. i \in (k + 1)..Len(log)
          BY <1>1, <3>2, <4>1
        <4> QED
          BY <1>6, <4>2 DEF ReactionAfter
      <3> QED
        BY <1>6, <3>1, <3>2, <3>3 DEF Order, ReactionTold
    <2> QED
      BY <2>2, <2>3
  <1>7. ReactionTold'
    <2>1. SUFFICES ASSUME ~raced', ~gone', ~ReactionAfter(Done)'
                   PROVE  reactRow' = reacted'
      BY DEF ReactionTold
    <2>2. ~ReactionAfter(k)
      BY <1>1, <2>1 DEF ReactionAfter
    <2> QED
      BY <1>1, <1>6, <2>1, <2>2
  <1> QED
    BY <1>2, <1>3, <1>5, <1>7 DEF Order

LEMMA LiveEventOrder ==
  ASSUME IInv, Order, LiveEvent
  PROVE  Order'
  <1>1. /\ Idle /\ pos < Len(log) /\ pos' = pos + 1 /\ Handle(log[pos + 1])
        /\ UNCHANGED <<rpcVars, does, googleVars, returned>> /\ drain' = drain
    BY DEF LiveEvent
  <1>2. pos \in Nat /\ Len(log) \in Nat /\ pos + 1 \in 1..Len(log)
    BY <1>1 DEF IInv, TypeOK
  <1>3. raced' \in BOOLEAN /\ (~raced' => ~raced /\ drain = <<>>)
    BY DEF LiveEvent, IInv, TypeOK
  <1>4. ~raced' => ~raced /\ pos + 1 = Done + 1 /\ Done' = pos + 1
    BY <1>1, <1>2, <1>3 DEF Done
  <1>5. DrainOrder'
    BY <1>1, <1>2, <1>3 DEF DrainOrder
  <1> QED
    BY ONLY IInv, Order, <1>1, <1>2, <1>3, <1>4, <1>5, EventOrder

LEMMA DrainedEventOrder ==
  ASSUME IInv, Order, DrainedEvent
  PROVE  Order'
  <1>1. /\ Idle /\ drain # <<>> /\ Handle(log[Head(drain)]) /\ drain' = Tail(drain)
        /\ UNCHANGED <<rpcVars, does, googleVars, returned>> /\ UNCHANGED <<pos, raced>>
        /\ drain \in Seq(1..Len(log)) /\ raced \in BOOLEAN /\ pos \in Nat
    BY DEF DrainedEvent, IInv, TypeOK
  <1>2. /\ Head(drain) \in 1..Len(log) /\ Head(drain) = drain[1]
        /\ Len(drain') = Len(drain) - 1 /\ Len(drain) \in Nat /\ Len(drain) > 0
        /\ \A j \in 1..Len(drain') : drain'[j] = drain[j + 1]
    BY <1>1, HeadTailProperties, EmptySeq
  <1>3. ~raced' => ~raced /\ Head(drain) = Done + 1 /\ Done' = Head(drain)
    <2> SUFFICES ASSUME ~raced
                 PROVE  Head(drain) = Done + 1 /\ Done' = Head(drain)
      BY <1>1
    <2>1. drain[1] = Done + 1
      BY <1>2 DEF Order, DrainOrder
    <2>2. Done' = Done + 1
      BY <1>1, <1>2 DEF Done
    <2> QED
      BY <1>2, <2>1, <2>2
  <1>4. DrainOrder'
    <2>1. SUFFICES ASSUME ~raced
                   PROVE  /\ Len(drain') <= pos'
                          /\ \A j \in 1..Len(drain') : drain'[j] = Done' + j
      BY <1>1 DEF DrainOrder
    <2>2. Len(drain) <= pos /\ \A j \in 1..Len(drain) : drain[j] = Done + j
      BY <2>1 DEF Order, DrainOrder
    <2>3. Done' = Done + 1 /\ Done \in Int
      BY <1>1, <1>2 DEF Done
    <2>4. \A j \in 1..Len(drain') : j + 1 \in 1..Len(drain)
      BY <1>2
    <2>5. \A j \in 1..Len(drain') : drain'[j] = Done + (j + 1)
      BY <1>2, <2>2, <2>4
    <2>6. \A j \in 1..Len(drain') : drain'[j] = Done' + j
      BY <2>3, <2>5
    <2> QED
      BY <1>1, <1>2, <2>2, <2>6
  <1> QED
    BY ONLY IInv, Order, <1>1, <1>2, <1>3, <1>4, EventOrder

(* A drain starts at or before the event behind the last one that passed.  *)
LEMMA ReconnectOrder ==
  ASSUME IInv, Order, Reconnect
  PROVE  Order'
  <1>1. PICK i \in 1..(pos + 1) : drain' = [j \in 1..(Len(log) + 1 - i) |-> i + j - 1]
    BY DEF Reconnect
  <1>2. /\ drain = <<>> /\ pos' = Len(log)
        /\ UNCHANGED <<log, gone, reacted, row, reactRow, returned, raced, does, performed>>
    BY DEF Reconnect, googleVars, matrixVars, rpcVars
  <1>3. pos \in 1..Len(log) /\ Len(log) \in Nat /\ i \in Nat /\ i >= 1
    BY DEF IInv, TypeOK
  <1>4. Len(log) + 1 - i \in Nat
    BY <1>3
  <1>5. /\ Len(drain') = Len(log) + 1 - i
        /\ \A j \in 1..Len(drain') : drain'[j] = i + j - 1
    BY <1>1, <1>3, <1>4
  <1>6. Done' = i - 1 /\ Done = pos
    BY <1>2, <1>3, <1>5 DEF Done
  <1>7. DrainOrder'
    <2>1. Len(drain') <= pos'
      BY <1>2, <1>3, <1>5
    <2>2. \A j \in 1..Len(drain') : drain'[j] = Done' + j
      BY <1>3, <1>5, <1>6
    <2> QED
      BY <2>1, <2>2 DEF DrainOrder
  <1>8. LogOrder'
    BY <1>2 DEF Order, LogOrder, ReactionAfter
  <1>9. ReactionAfter(Done) => ReactionAfter(Done)'
    <2>1. SUFFICES ASSUME NEW m \in (pos + 1)..Len(log), log[m].kind \in Reactions
                   PROVE  \E n \in (i - 1 + 1)..Len(log) : log[n].kind \in Reactions
      BY <1>2, <1>6 DEF ReactionAfter
    <2>2. m \in (i - 1 + 1)..Len(log)
      BY <1>3
    <2> QED
      BY <2>1, <2>2
  <1>10. DeletionTold' /\ ReactionTold'
    <2>1. Done' = Len(log) => Done = Len(log)
      BY <1>3, <1>6
    <2> QED
      BY <1>2, <1>9, <2>1 DEF Order, DeletionTold, ReactionTold
  <1>11. \A d \in Calls : CallReacts(d)'
    BY <1>2, <1>9 DEF Order, CallReacts
  <1> QED
    BY <1>7, <1>8, <1>10, <1>11 DEF Order

LEMMA NextOrder ==
  ASSUME IInv, Order, [Next]_vars
  PROVE  Order'
  <1>1. CASE UNCHANGED vars
    <2>1. UNCHANGED <<log, gone, reacted, pos, drain, row, reactRow, raced, returned, does,
                      performed>>
      BY <1>1 DEF vars, googleVars, streamVars, matrixVars, rpcVars
    <2> QED
      BY <2>1 DEF Order, DrainOrder, LogOrder, DeletionTold, ReactionTold, CallReacts,
                  ReactionAfter, Done
  <1>2. CASE LiveEvent
    BY <1>2, LiveEventOrder
  <1>3. CASE DrainedEvent
    BY <1>3, DrainedEventOrder
  <1>4. CASE Reconnect
    BY <1>4, ReconnectOrder
  <1>5. CASE GoogleChange
    BY <1>5, GoogleOrder
  <1>6. ASSUME NEW c \in Calls, ServerPerforms(c)
        PROVE  Order'
    BY <1>6, GoogleOrder
  <1>7. ASSUME NEW c \in Calls,
               ServerRefuses(c) \/ RpcStep(c) \/ \E change \in Changes : HandleMatrix(c, change)
        PROVE  Order'
    BY <1>7, CallOrder
  <1>8. ASSUME NEW c \in Calls, EditSent(c) \/ ReactionSent(c) \/ DeleteSent(c) \/ NotSent(c)
        PROVE  Order'
    BY <1>8, ReturnOrder
  <1> QED
    BY <1>1, <1>2, <1>3, <1>4, <1>5, <1>6, <1>7, <1>8 DEF Next

THEOREM OrderHolds == Spec => [](IInv /\ Order)
  <1>1. Init => Order
    <2> SUFFICES ASSUME Init
                 PROVE  Order
      OBVIOUS
    <2>1. /\ log = <<Event("posted", 0)>> /\ pos = 1 /\ drain = <<>> /\ gone = FALSE
          /\ reacted = FALSE /\ reactRow = FALSE /\ performed = [c \in Calls |-> 0]
      BY DEF Init, RpcInit
    <2>2. /\ Len(log) = 1 /\ Len(drain) = 0 /\ Done = 1
          /\ \A i \in 1..Len(log) : log[i].kind = "posted"
      BY <2>1 DEF Event, Done
    <2>3. DrainOrder /\ DeletionTold
      BY <2>1, <2>2 DEF DrainOrder, DeletionTold
    <2>4. LogOrder /\ ReactionTold
      BY <2>1, <2>2 DEF LogOrder, ReactionTold, Reactions
    <2>5. \A c \in Calls : CallReacts(c)
      BY <2>1 DEF CallReacts
    <2> QED
      BY <2>3, <2>4, <2>5 DEF Order
  <1>2. IInv /\ Order /\ [Next]_vars => Order'
    BY NextOrder
  <1> QED
    BY <1>1, <1>2, InvHolds, PTL DEF Spec

(* Once every event has passed, a deleted message is gone from the room,   *)
(* one that is not deleted is in it, and its reaction is there exactly if  *)
(* it is on Google Chat: however Matrix handlers, repeated requests, late  *)
(* answers and replays interleave, if no live event came among a drain's.  *)
THEOREM OtherChangesConvergeHolds == Spec => []OtherChangesConverge
  <1>1. IInv /\ Order => OtherChangesConverge
    <2>1. SUFFICES ASSUME IInv, Order, Settled, ~raced
                   PROVE  row = ~gone /\ (row => reactRow = reacted)
      BY DEF OtherChangesConverge
    <2>2. pos = Len(log) /\ Len(drain) = 0 /\ Len(log) \in Nat /\ row \in BOOLEAN
      BY <2>1 DEF Settled, IInv, TypeOK
    <2>3. Done = Len(log) /\ (Done + 1)..Len(log) = {}
      BY <2>2 DEF Done
    <2>4. gone => ~row
      BY <2>1, <2>3 DEF Order, DeletionTold
    <2>5. ~gone => row
      BY <2>1 DEF IInv, ShownOK
    <2>6. ~gone => reactRow = reacted
      BY <2>1, <2>3 DEF Order, ReactionTold, ReactionAfter
    <2>7. gone \in BOOLEAN
      BY <2>1 DEF IInv, TypeOK
    <2> QED
      BY <2>2, <2>4, <2>5, <2>6, <2>7
  <1> QED
    BY <1>1, OrderHolds, PTL
=============================================================================
