--------------------------- MODULE InferenceProofs ---------------------------
(***************************************************************************)
(* Theorems about InferenceClient: what a call promises, and the bound on  *)
(* work that no usage shows, for any number of retries and of calls, any   *)
(* server and any loss of connections.                                     *)
(***************************************************************************)
EXTENDS InferenceClient, SequenceTheorems, TLAPS

CallRecords == [mode : Modes, asked : Nat, served : Nat, abandoned : Nat,
                answered : BOOLEAN]

(* What the server may still finish of the request in flight.              *)
InFlight == IF exchange.state \in {"unseen", "working"} THEN 1 ELSE 0

(* The inductive invariant: the account of every call includes what is in  *)
(* flight, an attempt is always left where another one will be made, and   *)
(* a body that is an answer has been served.                               *)
AccountOf(c) ==
  /\ calls[c].served + calls[c].abandoned + (IF c = current THEN InFlight ELSE 0)
       <= calls[c].asked
  /\ calls[c].asked <= Allowed(calls[c].mode)
  /\ (calls[c].answered /\ calls[c].mode = "complete") => calls[c].served > 0

CallPlace ==
  /\ pc # "waiting" => exchange = Idle /\ wire = <<>> /\ partial = Nothing
  /\ pc \in {"post", "backoff"} => call.asked < Allowed(call.mode)
  /\ pc = "waiting" => call.asked > 0
  /\ (pc = "waiting" /\ call.mode = "complete" /\ wire # <<>>) =>
       Head(wire) = "refused" \/ call.served > 0

Accounts == CallPlace /\ \A c \in DOMAIN calls : AccountOf(c)

(* Changing what is known of the current call leaves the others alone.     *)
LEMMA CurrentCall ==
  ASSUME TypeOK, calls # <<>>
  PROVE  /\ current \in DOMAIN calls /\ current \in Nat \ {0}
         /\ call \in CallRecords
         /\ DOMAIN calls = 1..Len(calls)
<1>1. calls \in Seq(CallRecords)
  BY DEF TypeOK, CallRecords
<1>2. Len(calls) \in Nat \ {0} /\ DOMAIN calls = 1..Len(calls)
  BY <1>1
<1>3. calls[Len(calls)] \in CallRecords
  BY <1>1, <1>2
<1> QED BY <1>2, <1>3 DEF current, call

LEMMA UpdateCall ==
  ASSUME TypeOK, NEW at \in DOMAIN calls, NEW new \in CallRecords,
         calls' = [calls EXCEPT ![at] = new]
  PROVE  /\ calls' \in Seq(CallRecords) /\ Len(calls') = Len(calls)
         /\ calls' # <<>> /\ current' = current
         /\ call' = IF at = current THEN new ELSE call
         /\ DOMAIN calls' = DOMAIN calls /\ calls'[at] = new
         /\ \A c \in DOMAIN calls : c # at => calls'[c] = calls[c]
<1>1. calls \in Seq(CallRecords)
  BY DEF TypeOK, CallRecords
<1>2. at \in 1..Len(calls) /\ DOMAIN calls = 1..Len(calls) /\ Len(calls) \in Nat
  BY <1>1
<1>3. /\ calls' \in Seq(CallRecords) /\ Len(calls') = Len(calls)
      /\ calls'[at] = new
      /\ \A c \in 1..Len(calls) : c # at => calls'[c] = calls[c]
  BY <1>1, <1>2
<1>4. DOMAIN calls' = 1..Len(calls) /\ calls' # <<>>
  BY <1>2, <1>3
<1>5. current' = current
  BY <1>3 DEF current
<1>6. call' = calls'[current] /\ current \in 1..Len(calls)
  BY <1>2, <1>5 DEF call, current
<1>7. call' = IF at = current THEN new ELSE call
  BY <1>2, <1>3, <1>6 DEF call
<1> QED BY <1>2, <1>3, <1>4, <1>5, <1>7

(* What can be on the wire, and how a step can change it.                  *)
LEMMA WireTyped ==
  ASSUME TypeOK
  PROVE  /\ \A ending \in Endings : wire \o ending \in Seq(Chunks)
         /\ \A chunk \in Chunks : Append(wire, chunk) \in Seq(Chunks)
         /\ <<"refused">> \in Seq(Chunks) /\ <<>> \in Seq(Chunks)
         /\ wire # <<>> => Head(wire) \in Chunks /\ Tail(wire) \in Seq(Chunks)
<1>1. wire \in Seq(Chunks)
  BY DEF TypeOK
<1>2. \A ending \in Endings : ending \in Seq(Chunks)
  <2>1. /\ <<"answer">> \in Seq(Chunks) /\ <<"uncounted">> \in Seq(Chunks)
        /\ <<"unreadable">> \in Seq(Chunks) /\ <<"odd">> \in Seq(Chunks)
    BY DEF Chunks
  <2>2. <<"usage", "done", "end">> \in Seq(Chunks) /\ <<"done", "end">> \in Seq(Chunks)
    BY DEF Chunks
  <2> QED BY <2>1, <2>2 DEF Endings, Bodies, StreamEnds
<1>3. <<"refused">> \in Seq(Chunks)
  BY DEF Chunks
<1> QED BY <1>1, <1>2, <1>3

LEMMA AllowedTyped ==
  ASSUME NEW mode \in Modes
  PROVE  Allowed(mode) \in Nat \ {0} /\ Allowed(mode) \in {1, Attempts}
BY ClientAssumption DEF Allowed, Attempts, Modes

(* How the steps that touch the current call leave the calls.              *)
LEMMA ReturnUpdates ==
  ASSUME TypeOK, calls # <<>>, NEW content \in Nat, NEW usage \in Nat,
         NEW intervals \in Nat, Return(content, usage, intervals)
  PROVE  /\ calls' = [calls EXCEPT ![current] = [call EXCEPT !.answered = TRUE]]
         /\ [call EXCEPT !.answered = TRUE] \in CallRecords
         /\ responses' \in Seq([mode : Modes, content : Nat, usage : Nat,
                                generated : Nat, intervals : Nat])
         /\ pc' = "answered"
<1>1. call \in CallRecords
  BY CurrentCall
<1>2. [call EXCEPT !.answered = TRUE] \in CallRecords
  BY <1>1 DEF CallRecords
<1>3. [mode |-> call.mode, content |-> content, usage |-> usage,
       generated |-> exchange.length, intervals |-> intervals]
        \in [mode : Modes, content : Nat, usage : Nat, generated : Nat, intervals : Nat]
  BY <1>1 DEF TypeOK, CallRecords
<1>4. responses' \in Seq([mode : Modes, content : Nat, usage : Nat,
                         generated : Nat, intervals : Nat])
  BY <1>3 DEF TypeOK, Return
<1>5. calls' = [calls EXCEPT ![current] = [call EXCEPT !.answered = TRUE]]
  BY DEF Return, call
<1> QED BY <1>2, <1>4, <1>5 DEF Return

LEMMA TakeTyped ==
  ASSUME TypeOK, NEW chunk \in Chunks
  PROVE  Take(chunk) \in [pieces : Nat, usage : Nat, intervals : Nat]
<1>1. partial \in [pieces : Nat, usage : Nat, intervals : Nat] /\ exchange.length \in Nat
  BY DEF TypeOK
<1>2. CASE chunk = "piece"
  <2>1. partial.pieces \in Nat /\ partial.usage \in Nat /\ partial.intervals \in Nat
    BY <1>1
  <2> DEFINE intervals == IF partial.pieces > 0 THEN partial.intervals + 1
                          ELSE partial.intervals
  <2>2. intervals \in Nat /\ partial.pieces + 1 \in Nat
    BY <2>1
  <2>3. Take(chunk) = [partial EXCEPT !.pieces = @ + 1, !.intervals = intervals]
    BY <1>1, <1>2, <2>1 DEF Take
  <2> HIDE DEF intervals
  <2>4. [partial EXCEPT !.pieces = @ + 1, !.intervals = intervals]
          \in [pieces : Nat, usage : Nat, intervals : Nat]
    BY <1>1, <2>1, <2>2
  <2> QED BY <2>3, <2>4
<1>3. CASE chunk = "usage"
  BY <1>1, <1>3 DEF Take
<1>4. CASE chunk \notin {"piece", "usage"}
  BY <1>1, <1>4 DEF Take
<1> QED BY <1>2, <1>3, <1>4

LEMMA HangTyped ==
  ASSUME TypeOK, Hang
  PROVE  /\ exchange' = Idle /\ wire' = <<>> /\ partial' = Nothing
         /\ exchange' \in [state : {"none", "unseen", "working", "over"},
                           length : Nat, sent : Nat]
         /\ wire' \in Seq(Chunks)
         /\ partial' \in [pieces : Nat, usage : Nat, intervals : Nat]
         /\ exchange'.state = "none"
BY WireTyped DEF Hang, Idle, Nothing

(* The type invariant, action by action.                                   *)
LEMMA TypeInit == Init => TypeOK
<1> SUFFICES ASSUME Init PROVE TypeOK
  OBVIOUS
<1>1. <<>> \in Seq(Chunks)
  OBVIOUS
<1> QED BY <1>1 DEF Init, TypeOK, Places, Ended, Idle, Nothing

LEMMA TypeNext == TypeOK /\ [Next]_vars => TypeOK'
<1> SUFFICES ASSUME TypeOK, [Next]_vars PROVE TypeOK'
  OBVIOUS
<1> USE DEF CallRecords
<1>1. ASSUME NEW mode \in Modes, Call(mode) PROVE TypeOK'
  <2>1. [mode |-> mode, asked |-> 0, served |-> 0, abandoned |-> 0,
         answered |-> FALSE] \in CallRecords
    OBVIOUS
  <2>2. calls' \in Seq(CallRecords) /\ calls' # <<>>
    <3>1. calls \in Seq(CallRecords)
      BY DEF TypeOK
    <3> DEFINE new == [mode |-> mode, asked |-> 0, served |-> 0, abandoned |-> 0,
                       answered |-> FALSE]
    <3>2. calls' = Append(calls, new)
      BY <1>1 DEF Call
    <3>3. new \in CallRecords
      BY <2>1
    <3> HIDE DEF new
    <3> QED BY <3>1, <3>2, <3>3, AppendProperties, EmptySeq, SMTT(30)
  <2>3. pc' = "post" /\ exchange.state = "none"
    BY <1>1 DEF TypeOK, Call, Ended
  <2> QED BY <1>1, <2>2, <2>3 DEF TypeOK, Call, Places
<1>2. CASE Post
  <2>1. calls # <<>> /\ call \in CallRecords
    BY <1>2, CurrentCall DEF Post, TypeOK
  <2>2. [call EXCEPT !.asked = @ + 1] \in CallRecords
    BY <2>1
  <2>3. calls' = [calls EXCEPT ![current] = [call EXCEPT !.asked = @ + 1]]
    BY <1>2 DEF Post, call
  <2>4. calls' \in Seq(CallRecords) /\ calls' # <<>>
    BY <2>1, <2>2, <2>3, UpdateCall, CurrentCall
  <2> QED BY <1>2, <2>4 DEF TypeOK, Post, Places, Idle, Nothing
<1>3. CASE ReceiveBody
  <2>1. calls # <<>> /\ exchange.length \in Nat
    BY <1>3 DEF ReceiveBody, TypeOK
  <2>2. \/ \E content, usage \in Nat : Return(content, usage, 0)
        \/ pc' \in {"backoff", "failed", "raised"} /\ UNCHANGED <<calls, responses>>
    BY <1>3, <2>1 DEF ReceiveBody, AfterError
  <2> DEFINE Typed == /\ calls' \in Seq(CallRecords) /\ calls' # <<>> /\ pc' \in Places
                      /\ responses' \in Seq([mode : Modes, content : Nat, usage : Nat,
                                             generated : Nat, intervals : Nat])
                      /\ pc' # "waiting"
  <2>3. Typed
    <3>1. ASSUME NEW content \in Nat, NEW usage \in Nat, Return(content, usage, 0)
          PROVE  Typed
      BY <2>1, <3>1, ReturnUpdates, UpdateCall, CurrentCall DEF Places, Ended
    <3>2. CASE pc' \in {"backoff", "failed", "raised"} /\ UNCHANGED <<calls, responses>>
      BY <2>1, <3>2 DEF TypeOK, Places, Ended
    <3> QED BY <2>2, <3>1, <3>2
  <2> QED BY <1>3, <2>3, HangTyped DEF TypeOK, ReceiveBody
<1>4. CASE ReadLine
  BY <1>4, WireTyped, TakeTyped DEF TypeOK, ReadLine
<1>5. CASE ReadEnd
  <2>1. calls # <<>> /\ partial.pieces \in Nat /\ partial.usage \in Nat
        /\ partial.intervals \in Nat
    BY <1>5 DEF ReadEnd, TypeOK
  <2>2. \/ Return(partial.pieces, partial.usage, partial.intervals)
        \/ pc' \in {"backoff", "failed", "raised"} /\ UNCHANGED <<calls, responses>>
    BY <1>5 DEF ReadEnd, AfterError
  <2> DEFINE Typed == /\ calls' \in Seq(CallRecords) /\ calls' # <<>> /\ pc' \in Places
                      /\ responses' \in Seq([mode : Modes, content : Nat, usage : Nat,
                                             generated : Nat, intervals : Nat])
                      /\ pc' # "waiting"
  <2>3. Typed
    <3>1. CASE Return(partial.pieces, partial.usage, partial.intervals)
      BY <2>1, <3>1, ReturnUpdates, UpdateCall, CurrentCall DEF Places, Ended
    <3>2. CASE pc' \in {"backoff", "failed", "raised"} /\ UNCHANGED <<calls, responses>>
      BY <2>1, <3>2 DEF TypeOK, Places, Ended
    <3> QED BY <2>2, <3>1, <3>2
  <2> QED BY <1>5, <2>3, HangTyped DEF TypeOK, ReadEnd
<1>6. CASE Lose
  <2>1. calls # <<>> /\ call \in CallRecords
    BY <1>6, CurrentCall DEF Lose, TypeOK
  <2> DEFINE lost == [call EXCEPT !.abandoned =
                        IF exchange.state \in {"unseen", "working"} THEN @ + 1 ELSE @]
  <2>2. lost \in CallRecords
    BY <2>1
  <2>3. calls' = [calls EXCEPT ![current] = lost]
    BY <1>6 DEF Lose, call
  <2>4. calls' \in Seq(CallRecords) /\ calls' # <<>>
    BY <2>1, <2>2, <2>3, UpdateCall, CurrentCall
  <2> QED BY <1>6, <2>4, HangTyped DEF TypeOK, Lose, AfterError, Places, Ended
<1>7. CASE Resume
  BY <1>7 DEF TypeOK, Resume, Places
<1>8. CASE Generate
  <2>1. PICK length \in Nat :
          exchange' = [exchange EXCEPT !.state = "working", !.length = length]
    BY <1>8, ClientAssumption DEF Generate, GenerationLengths
  <2> QED BY <1>8, <2>1 DEF TypeOK, Generate, ServerOnly
<1>9. CASE Refuse
  BY <1>9, WireTyped DEF TypeOK, Refuse, ServerOnly
<1>10. CASE SendPiece
  <2>1. wire' \in Seq(Chunks)
    BY <1>10, WireTyped DEF SendPiece, Chunks
  <2>2. exchange.sent + 1 \in Nat /\ exchange' = [exchange EXCEPT !.sent = @ + 1]
    BY <1>10, SMTT(30) DEF TypeOK, SendPiece
  <2> QED BY <1>10, <2>1, <2>2 DEF TypeOK, SendPiece, ServerOnly
<1>11. CASE Finish
  <2>1. calls # <<>> /\ call \in CallRecords
    BY <1>11, CurrentCall DEF Finish, TypeOK
  <2>2. [call EXCEPT !.served = @ + 1] \in CallRecords
    BY <2>1
  <2>3. calls' = [calls EXCEPT ![current] = [call EXCEPT !.served = @ + 1]]
    BY <1>11 DEF Finish, call
  <2>4. calls' \in Seq(CallRecords) /\ calls' # <<>>
    BY <2>1, <2>2, <2>3, UpdateCall, CurrentCall
  <2> QED BY <1>11, <2>4, WireTyped DEF TypeOK, Finish, ServerOnly
<1>12. CASE Break
  BY <1>12, WireTyped DEF TypeOK, Break, ServerOnly, Chunks
<1>13. CASE AbandonedWorkEnds
  <2>1. PICK c \in DOMAIN calls, finished \in {0, 1} :
          /\ calls[c].abandoned > 0
          /\ calls' = [calls EXCEPT ![c].abandoned = @ - 1, ![c].served = @ + finished]
    BY <1>13 DEF AbandonedWorkEnds
  <2> DEFINE ended == [calls[c] EXCEPT !.abandoned = @ - 1, !.served = @ + finished]
  <2>2. ended \in CallRecords
    <3>1. calls \in Seq(CallRecords)
      BY DEF TypeOK
    <3>2. c \in 1..Len(calls)
      BY <3>1, <2>1
    <3>3. calls[c] \in CallRecords
      BY <3>1, <3>2, ElementOfSeq
    <3>4. calls[c].abandoned - 1 \in Nat /\ calls[c].served + finished \in Nat
      BY <2>1, <3>3
    <3> QED BY <3>3, <3>4
  <2>3. calls' = [calls EXCEPT ![c] = ended]
    BY <2>1
  <2>4. calls' \in Seq(CallRecords) /\ calls' # <<>>
    BY <2>2, <2>3, UpdateCall
  <2> QED BY <1>13, <2>4 DEF TypeOK, AbandonedWorkEnds
<1>14. CASE UNCHANGED vars
  BY <1>14 DEF TypeOK, vars
<1> QED
  BY <1>1, <1>2, <1>3, <1>4, <1>5, <1>6, <1>7, <1>8, <1>9, <1>10, <1>11, <1>12,
     <1>13, <1>14 DEF Next, ClientStep, ServerStep, AllCalled

(* InferenceClient's type invariant holds for any retries, bounds, lengths *)
(* and servers.                                                            *)
THEOREM TypeCorrect == Spec => []TypeOK
BY TypeInit, TypeNext, PTL DEF Spec

----------------------------------------------------------------------------
(* The account of the calls a step does not touch stays what it was.       *)
LEMMA OthersAccounted ==
  ASSUME TypeOK, Accounts, NEW at \in DOMAIN calls, NEW new \in CallRecords,
         calls' = [calls EXCEPT ![at] = new],
         at = current \/ exchange' = exchange,
         new.served + new.abandoned + (IF at = current THEN InFlight' ELSE 0) <= new.asked,
         new.asked <= Allowed(new.mode),
         (new.answered /\ new.mode = "complete") => new.served > 0
  PROVE  \A c \in DOMAIN calls' : AccountOf(c)'
<1> SUFFICES ASSUME NEW c \in DOMAIN calls' PROVE AccountOf(c)'
  OBVIOUS
<1>1. /\ current' = current /\ c \in DOMAIN calls /\ calls'[at] = new
      /\ c # at => calls'[c] = calls[c]
  BY UpdateCall
<1>2. AccountOf(c)
  BY <1>1 DEF Accounts
<1>3. CASE c = at
  BY <1>1, <1>3 DEF AccountOf, Allowed, Attempts
<1>4. CASE c # at
  <2>1. (IF c = current THEN InFlight' ELSE 0) = (IF c = current THEN InFlight ELSE 0)
    BY <1>4 DEF InFlight
  <2> QED BY <1>1, <1>2, <1>4, <2>1 DEF AccountOf, Allowed, Attempts
<1> QED BY <1>3, <1>4

LEMMA SameCalls ==
  ASSUME TypeOK, Accounts, calls' = calls, InFlight' <= InFlight
  PROVE  \A c \in DOMAIN calls' : AccountOf(c)'
<1> SUFFICES ASSUME NEW c \in DOMAIN calls PROVE AccountOf(c)'
  OBVIOUS
<1>1. AccountOf(c) /\ current' = current
  BY DEF Accounts, current
<1>2. calls \in Seq(CallRecords) /\ c \in 1..Len(calls)
  BY SMTT(30) DEF TypeOK, CallRecords
<1>3. calls[c] \in CallRecords
  BY <1>2, ElementOfSeq
<1>4. InFlight \in {0, 1} /\ InFlight' \in {0, 1}
  BY DEF InFlight
<1> HIDE DEF InFlight
<1>5. CASE c = current
  BY <1>1, <1>3, <1>4, <1>5 DEF AccountOf, CallRecords, Allowed, Attempts
<1>6. CASE c # current
  BY <1>1, <1>6 DEF AccountOf, Allowed, Attempts
<1> QED BY <1>5, <1>6

(* Where a call is when its attempt has ended.                             *)
LEMMA HangPlace ==
  ASSUME TypeOK, Hang, pc' \in Ended \cup {"backoff"},
         pc' = "backoff" => call'.asked < Allowed(call'.mode)
  PROVE  CallPlace' /\ InFlight' = 0
<1>1. exchange' = Idle /\ wire' = <<>> /\ partial' = Nothing
  BY HangTyped
<1>2. InFlight' = 0
  BY <1>1 DEF InFlight, Idle
<1> QED BY <1>1, <1>2 DEF CallPlace, Ended, Allowed, Attempts

LEMMA AccountsInit == Init => Accounts
<1> SUFFICES ASSUME Init PROVE Accounts
  OBVIOUS
<1>1. DOMAIN calls = {}
  BY DEF Init
<1> QED BY <1>1 DEF Init, Accounts, CallPlace

LEMMA AccountsNext == TypeOK /\ Accounts /\ [Next]_vars => Accounts'
<1> SUFFICES ASSUME TypeOK, Accounts, [Next]_vars PROVE Accounts'
  OBVIOUS
<1>0. /\ \A mode \in Modes : Allowed(mode) \in Nat \ {0}
      /\ calls # <<>> => /\ current \in DOMAIN calls /\ call \in CallRecords
                         /\ AccountOf(current)
  BY AllowedTyped, CurrentCall DEF Accounts
<1>1. ASSUME NEW mode \in Modes, Call(mode) PROVE Accounts'
  <2> DEFINE new == [mode |-> mode, asked |-> 0, served |-> 0, abandoned |-> 0,
                     answered |-> FALSE]
  <2>1. calls \in Seq(CallRecords) /\ new \in CallRecords
    BY DEF TypeOK, CallRecords
  <2>2. /\ calls' = Append(calls, new) /\ exchange' = exchange /\ exchange.state = "none"
        /\ pc' = "post" /\ wire' = <<>> /\ partial' = Nothing /\ exchange = Idle
    BY <1>1 DEF Call, Accounts, CallPlace, Ended, TypeOK
  <2>3. InFlight = 0 /\ InFlight' = 0
    BY <2>2 DEF InFlight
  <2>4. /\ DOMAIN calls = 1..Len(calls) /\ DOMAIN calls' = 1..(Len(calls) + 1)
        /\ Len(calls) \in Nat /\ current' = Len(calls) + 1
        /\ calls'[Len(calls) + 1] = new
        /\ \A c \in 1..Len(calls) : calls'[c] = calls[c]
    <3> HIDE DEF new
    <3> QED BY <2>1, <2>2, AppendProperties DEF current
  <2>5. \A c \in DOMAIN calls' : AccountOf(c)'
    <3> SUFFICES ASSUME NEW c \in DOMAIN calls' PROVE AccountOf(c)'
      OBVIOUS
    <3>1. CASE c = Len(calls) + 1
      BY <1>0, <2>3, <2>4, <3>1 DEF AccountOf, Allowed, Attempts
    <3>2. CASE c # Len(calls) + 1
      <4>1. c \in DOMAIN calls /\ AccountOf(c) /\ calls'[c] = calls[c] /\ c # current'
        BY <2>4, <3>2 DEF Accounts
      <4>2. calls[c] \in CallRecords
        BY <2>1, <2>4, <4>1, ElementOfSeq
      <4>3. calls[c].served + calls[c].abandoned <= calls[c].asked
        BY <2>3, <4>1, <4>2 DEF AccountOf, CallRecords
      <4> QED BY <4>1, <4>2, <4>3 DEF AccountOf, CallRecords, Allowed, Attempts
    <3> QED BY <3>1, <3>2
  <2>6. call' = new
    BY <2>4 DEF call, current
  <2>7. CallPlace'
    BY <1>0, <2>2, <2>6 DEF CallPlace, Allowed, Attempts
  <2> QED BY <2>5, <2>7 DEF Accounts
<1>2. CASE Post
  <2>1. calls # <<>> /\ call \in CallRecords
    BY <1>2, CurrentCall DEF Post, TypeOK
  <2> DEFINE new == [call EXCEPT !.asked = @ + 1]
  <2>2. new \in CallRecords
    BY <2>1 DEF CallRecords
  <2>3. calls' = [calls EXCEPT ![current] = new]
    BY <1>2 DEF Post, call
  <2>4. call' = new
    BY <2>1, <2>2, <2>3, UpdateCall, CurrentCall
  <2>5. call.asked < Allowed(call.mode) /\ exchange.state = "none"
    BY <1>2 DEF Accounts, CallPlace, Post, Idle
  <2>6. InFlight = 0 /\ InFlight' = 1
    BY <1>2, <2>5 DEF InFlight, Post, Idle
  <2>7. AccountOf(current) /\ call = calls[current]
    BY <1>0, <2>1 DEF call
  <2>8. /\ new.served + new.abandoned + InFlight' <= new.asked
        /\ new.asked <= Allowed(new.mode)
        /\ (new.answered /\ new.mode = "complete") => new.served > 0
    BY <1>0, <2>1, <2>5, <2>6, <2>7 DEF AccountOf, CallRecords
  <2>9. \A c \in DOMAIN calls' : AccountOf(c)'
    BY <1>0, <2>1, <2>2, <2>3, <2>8, OthersAccounted
  <2>10. CallPlace'
    <3>1. wire' = <<>> /\ pc' = "waiting"
      BY <1>2 DEF Post, Accounts, CallPlace
    <3>2. call'.asked > 0
      BY <2>1, <2>4 DEF CallRecords
    <3> QED BY <3>1, <3>2 DEF CallPlace
  <2> QED BY <2>9, <2>10 DEF Accounts
<1>3. CASE ReceiveBody
  <2>1. calls # <<>> /\ call \in CallRecords /\ Hang
    BY <1>0, <1>3 DEF ReceiveBody, TypeOK
  <2>2. ASSUME NEW content \in Nat, NEW usage \in Nat, NEW intervals \in Nat,
               Return(content, usage, intervals),
               call.mode = "complete" => call.served > 0
        PROVE  Accounts'
    <3> DEFINE new == [call EXCEPT !.answered = TRUE]
    <3>1. calls' = [calls EXCEPT ![current] = new] /\ new \in CallRecords /\ pc' = "answered"
      BY <2>1, <2>2, ReturnUpdates
    <3>2. CallPlace' /\ InFlight' = 0
      BY <2>1, <3>1, HangPlace DEF Ended
    <3>3. InFlight \in {0, 1} /\ AccountOf(current) /\ call = calls[current]
      BY <1>0, <2>1 DEF InFlight, call
    <3>4. /\ new.served + new.abandoned + InFlight' <= new.asked
          /\ new.asked <= Allowed(new.mode)
          /\ (new.answered /\ new.mode = "complete") => new.served > 0
      BY <2>1, <2>2, <3>2, <3>3 DEF AccountOf, CallRecords
    <3>5. \A c \in DOMAIN calls' : AccountOf(c)'
      BY <1>0, <2>1, <3>1, <3>4, OthersAccounted
    <3> QED BY <3>2, <3>5 DEF Accounts
  <2>3. CASE pc' \in {AfterError, "raised"} /\ UNCHANGED calls
    <3>1. call' = call /\ pc' \in Ended \cup {"backoff"}
      BY <2>3 DEF AfterError, call, current, Ended
    <3>2. pc' = "backoff" => call'.asked < Allowed(call'.mode)
      BY <2>3, <3>1 DEF AfterError, Allowed, Attempts
    <3>3. CallPlace' /\ InFlight' = 0
      BY <2>1, <3>1, <3>2, HangPlace
    <3>4. \A c \in DOMAIN calls' : AccountOf(c)'
      BY <2>3, <3>3, SameCalls DEF InFlight
    <3> QED BY <3>3, <3>4 DEF Accounts

  <2>4. CASE Head(wire) \in {"answer", "uncounted"}
    <3>1. call.served > 0
      BY <1>3, <2>4 DEF ReceiveBody, Accounts, CallPlace
    <3>2. exchange.length \in Nat
      BY DEF TypeOK
    <3> QED BY <1>3, <2>2, <2>4, <3>1, <3>2 DEF ReceiveBody
  <2>5. CASE Head(wire) \notin {"answer", "uncounted"}
    BY <1>3, <2>3, <2>5 DEF ReceiveBody
  <2> QED BY <2>4, <2>5
<1>4. CASE ReadLine
  <2>1. /\ pc' = pc /\ pc = "waiting" /\ call.mode = "stream" /\ calls' = calls
        /\ exchange' = exchange
    BY <1>4 DEF ReadLine
  <2>2. call' = call /\ InFlight' = InFlight
    BY <2>1 DEF call, current, InFlight
  <2>3. CallPlace'
    BY <2>1, <2>2 DEF CallPlace, Accounts
  <2> QED BY <2>1, <2>2, <2>3, SameCalls DEF Accounts, InFlight
<1>5. CASE ReadEnd
  <2>1. calls # <<>> /\ call \in CallRecords /\ Hang
    BY <1>0, <1>5 DEF ReadEnd, TypeOK
  <2>2. ASSUME NEW content \in Nat, NEW usage \in Nat, NEW intervals \in Nat,
               Return(content, usage, intervals),
               call.mode = "complete" => call.served > 0
        PROVE  Accounts'
    <3> DEFINE new == [call EXCEPT !.answered = TRUE]
    <3>1. calls' = [calls EXCEPT ![current] = new] /\ new \in CallRecords /\ pc' = "answered"
      BY <2>1, <2>2, ReturnUpdates
    <3>2. CallPlace' /\ InFlight' = 0
      BY <2>1, <3>1, HangPlace DEF Ended
    <3>3. InFlight \in {0, 1} /\ AccountOf(current) /\ call = calls[current]
      BY <1>0, <2>1 DEF InFlight, call
    <3>4. /\ new.served + new.abandoned + InFlight' <= new.asked
          /\ new.asked <= Allowed(new.mode)
          /\ (new.answered /\ new.mode = "complete") => new.served > 0
      BY <2>1, <2>2, <3>2, <3>3 DEF AccountOf, CallRecords
    <3>5. \A c \in DOMAIN calls' : AccountOf(c)'
      BY <1>0, <2>1, <3>1, <3>4, OthersAccounted
    <3> QED BY <3>2, <3>5 DEF Accounts
  <2>3. CASE pc' \in {AfterError, "raised"} /\ UNCHANGED calls
    <3>1. call' = call /\ pc' \in Ended \cup {"backoff"}
      BY <2>3 DEF AfterError, call, current, Ended
    <3>2. pc' = "backoff" => call'.asked < Allowed(call'.mode)
      BY <2>3, <3>1 DEF AfterError, Allowed, Attempts
    <3>3. CallPlace' /\ InFlight' = 0
      BY <2>1, <3>1, <3>2, HangPlace
    <3>4. \A c \in DOMAIN calls' : AccountOf(c)'
      BY <2>3, <3>3, SameCalls DEF InFlight
    <3> QED BY <3>3, <3>4 DEF Accounts

  <2>4. call.mode # "complete"
    BY <1>5 DEF ReadEnd
  <2>5. partial.pieces \in Nat /\ partial.usage \in Nat /\ partial.intervals \in Nat
    BY DEF TypeOK
  <2> QED BY <1>5, <2>2, <2>3, <2>4, <2>5 DEF ReadEnd
<1>6. CASE Lose
  <2>1. calls # <<>> /\ call \in CallRecords /\ Hang /\ pc = "waiting"
    BY <1>0, <1>6 DEF Lose, TypeOK
  <2> DEFINE new == [call EXCEPT !.abandoned =
                       IF exchange.state \in {"unseen", "working"} THEN @ + 1 ELSE @]
  <2>2. new \in CallRecords /\ calls' = [calls EXCEPT ![current] = new]
    BY <1>6, <2>1 DEF Lose, call, CallRecords
  <2>3. call' = new
    BY <1>0, <2>1, <2>2, UpdateCall
  <2>4. new.asked = call.asked /\ new.mode = call.mode
    BY <2>1 DEF CallRecords
  <2>5. /\ pc' \in Ended \cup {"backoff"}
        /\ pc' = "backoff" => call'.asked < Allowed(call'.mode)
    BY <1>6, <2>3, <2>4 DEF Lose, AfterError, Ended, Allowed, Attempts
  <2>6. CallPlace' /\ InFlight' = 0
    BY <2>1, <2>5, HangPlace
  <2>7. AccountOf(current) /\ call = calls[current]
    BY <1>0, <2>1 DEF call
  <2>8. /\ new.served + new.abandoned + InFlight' <= new.asked
        /\ new.asked <= Allowed(new.mode)
        /\ (new.answered /\ new.mode = "complete") => new.served > 0
    BY <2>1, <2>6, <2>7 DEF AccountOf, CallRecords, InFlight
  <2>9. \A c \in DOMAIN calls' : AccountOf(c)'
    BY <1>0, <2>1, <2>2, <2>8, OthersAccounted
  <2> QED BY <2>6, <2>9 DEF Accounts
<1>7. CASE Resume
  <2>1. /\ pc' = "post" /\ pc = "backoff" /\ calls' = calls /\ exchange' = exchange
        /\ wire' = wire /\ partial' = partial
    BY <1>7 DEF Resume
  <2>2. call' = call /\ InFlight' = InFlight
    BY <2>1 DEF call, current, InFlight
  <2>3. CallPlace'
    BY <2>1, <2>2 DEF CallPlace, Accounts, Allowed, Attempts
  <2> QED BY <2>1, <2>2, <2>3, SameCalls DEF Accounts, InFlight
<1>8. CASE Generate
  <2>1. pc' = pc /\ pc = "waiting" /\ calls' = calls /\ call.asked > 0 /\ wire' = wire
    BY <1>8 DEF Generate, ServerOnly, TypeOK, Accounts, CallPlace
  <2>2. call' = call /\ InFlight' <= InFlight
    BY <1>8, <2>1 DEF call, current, InFlight, Generate, TypeOK
  <2>3. CallPlace'
    BY <2>1, <2>2 DEF CallPlace, Accounts
  <2> QED BY <2>1, <2>2, <2>3, SameCalls DEF Accounts, InFlight
<1>9. CASE Refuse
  <2>1. pc' = pc /\ pc = "waiting" /\ calls' = calls /\ call.asked > 0 /\ wire' = <<"refused">>
    BY <1>9 DEF Refuse, ServerOnly, TypeOK, Accounts, CallPlace
  <2>2. call' = call /\ InFlight' <= InFlight
    BY <1>9, <2>1 DEF call, current, InFlight, Refuse, TypeOK
  <2>3. CallPlace'
    BY <2>1, <2>2 DEF CallPlace, Accounts
  <2> QED BY <2>1, <2>2, <2>3, SameCalls DEF Accounts, InFlight
<1>10. CASE SendPiece
  <2>1. pc' = pc /\ pc = "waiting" /\ calls' = calls /\ call.asked > 0 /\ call.mode = "stream"
    BY <1>10 DEF SendPiece, ServerOnly, TypeOK, Accounts, CallPlace
  <2>2. call' = call /\ InFlight' <= InFlight
    BY <1>10, <2>1 DEF call, current, InFlight, SendPiece, TypeOK
  <2>3. CallPlace'
    BY <2>1, <2>2 DEF CallPlace, Accounts
  <2> QED BY <2>1, <2>2, <2>3, SameCalls DEF Accounts, InFlight
<1>11. CASE Finish
  <2>1. calls # <<>> /\ call \in CallRecords /\ pc = "waiting" /\ pc' = pc
    BY <1>0, <1>11 DEF Finish, ServerOnly, TypeOK
  <2> DEFINE new == [call EXCEPT !.served = @ + 1]
  <2>2. new \in CallRecords /\ calls' = [calls EXCEPT ![current] = new]
    <3>1. calls' = [calls EXCEPT ![current].served = @ + 1]
      BY <1>11 DEF Finish
    <3> QED BY <2>1, <3>1 DEF call, CallRecords
  <2>3. call' = new
    BY <1>0, <2>1, <2>2, UpdateCall
  <2>4. call'.served > 0 /\ call'.asked > 0
    BY <2>1, <2>3 DEF CallRecords, Accounts, CallPlace
  <2>5. CallPlace'
    BY <2>1, <2>4 DEF CallPlace
  <2>6. AccountOf(current) /\ call = calls[current] /\ InFlight = 1 /\ InFlight' = 0
    BY <1>0, <1>11, <2>1 DEF call, InFlight, Finish, TypeOK
  <2>7. /\ new.served + new.abandoned + InFlight' <= new.asked
        /\ new.asked <= Allowed(new.mode)
        /\ (new.answered /\ new.mode = "complete") => new.served > 0
    BY <2>1, <2>6 DEF AccountOf, CallRecords
  <2>8. \A c \in DOMAIN calls' : AccountOf(c)'
    BY <1>0, <2>1, <2>2, <2>7, OthersAccounted
  <2> QED BY <2>5, <2>8 DEF Accounts
<1>12. CASE Break
  <2>1. pc' = pc /\ pc = "waiting" /\ calls' = calls /\ call.asked > 0 /\ call.mode = "stream"
    BY <1>12 DEF Break, ServerOnly, TypeOK, Accounts, CallPlace
  <2>2. call' = call /\ InFlight' <= InFlight
    BY <1>12, <2>1 DEF call, current, InFlight, Break, TypeOK
  <2>3. CallPlace'
    BY <2>1, <2>2 DEF CallPlace, Accounts
  <2> QED BY <2>1, <2>2, <2>3, SameCalls DEF Accounts, InFlight
<1>13. CASE AbandonedWorkEnds
  <2>1. PICK c \in DOMAIN calls, finished \in {0, 1} :
          /\ calls[c].abandoned > 0
          /\ calls' = [calls EXCEPT ![c].abandoned = @ - 1, ![c].served = @ + finished]
    BY <1>13 DEF AbandonedWorkEnds
  <2>2. /\ pc' = pc /\ exchange' = exchange /\ wire' = wire /\ partial' = partial
        /\ InFlight' = InFlight
    BY <1>13 DEF AbandonedWorkEnds, InFlight
  <2> DEFINE new == [calls[c] EXCEPT !.abandoned = @ - 1, !.served = @ + finished]
  <2>3. calls[c] \in CallRecords /\ AccountOf(c) /\ calls # <<>>
    <3>1. calls \in Seq(CallRecords)
      BY DEF TypeOK, CallRecords
    <3>2. c \in 1..Len(calls)
      BY <3>1, <2>1
    <3> QED BY <3>1, <3>2, ElementOfSeq DEF Accounts
  <2>4. new \in CallRecords /\ calls' = [calls EXCEPT ![c] = new]
    <3>1. calls[c].abandoned - 1 \in Nat /\ calls[c].served + finished \in Nat
      BY <2>1, <2>3 DEF CallRecords
    <3> QED BY <2>1, <2>3, <3>1 DEF CallRecords
  <2>5. call' = IF c = current THEN new ELSE call
    BY <2>1, <2>4, UpdateCall
  <2>6. /\ new.served + new.abandoned + (IF c = current THEN InFlight' ELSE 0) <= new.asked
        /\ new.asked <= Allowed(new.mode)
        /\ (new.answered /\ new.mode = "complete") => new.served > 0
    <3>1. InFlight \in {0, 1}
      BY DEF InFlight
    <3> HIDE DEF InFlight
    <3> QED BY <2>1, <2>2, <2>3, <3>1 DEF AccountOf, CallRecords
  <2>7. \A d \in DOMAIN calls' : AccountOf(d)'
    BY <2>1, <2>2, <2>4, <2>6, OthersAccounted
  <2>8. /\ call'.asked = call.asked /\ call'.mode = call.mode
        /\ call.served > 0 => call'.served > 0
    <3>1. CASE c = current
      <4>1. calls[c] = call /\ call' = new
        BY <2>5, <3>1 DEF call
      <4>2. new.asked = call.asked /\ new.mode = call.mode /\ new.served >= call.served
        BY <2>3, <4>1 DEF CallRecords
      <4> QED BY <2>3, <2>4, <4>1, <4>2 DEF CallRecords
    <3>2. CASE c # current
      BY <2>5, <3>2
    <3> QED BY <3>1, <3>2
  <2>9. CallPlace'
    BY <2>2, <2>8 DEF CallPlace, Accounts, Allowed, Attempts
  <2> QED BY <2>7, <2>9 DEF Accounts
<1>14. CASE UNCHANGED vars
  BY <1>14 DEF vars, Accounts, CallPlace, AccountOf, InFlight, call, current, Allowed, Attempts
<1> QED
  BY <1>1, <1>2, <1>3, <1>4, <1>5, <1>6, <1>7, <1>8, <1>9, <1>10, <1>11, <1>12,
     <1>13, <1>14 DEF Next, ClientStep, ServerStep, AllCalled

(* Accounts holds together with the types, whatever the server does.       *)
THEOREM AccountsInvariant == Spec => []Accounts
<1>1. TypeOK /\ Accounts /\ [Next]_vars => TypeOK' /\ Accounts'
  BY TypeNext, AccountsNext
<1> QED BY TypeInit, AccountsInit, <1>1, PTL DEF Spec

(* Work that no usage shows is bounded by the attempts, for any number of  *)
(* them: what client.py:69 retries can be served twice, never more.        *)
THEOREM LostWorkIsBounded == Spec => []LostWorkBounded
<1>1. TypeOK /\ Accounts => LostWorkBounded
  <2> SUFFICES ASSUME TypeOK, Accounts, NEW c \in DOMAIN calls
               PROVE  /\ calls[c].served + calls[c].abandoned <= calls[c].asked
                      /\ calls[c].asked <= Allowed(calls[c].mode)
                      /\ (calls[c].answered /\ calls[c].mode = "complete") =>
                            calls[c].served > 0
    BY DEF LostWorkBounded
  <2>1. calls \in Seq(CallRecords) /\ c \in 1..Len(calls)
    BY SMTT(30) DEF TypeOK, CallRecords
  <2>2. calls[c] \in CallRecords /\ AccountOf(c)
    BY <2>1, ElementOfSeq DEF Accounts
  <2>3. InFlight \in {0, 1}
    BY DEF InFlight
  <2> HIDE DEF InFlight
  <2> QED BY <2>2, <2>3 DEF AccountOf, CallRecords
<1> QED BY TypeCorrect, AccountsInvariant, <1>1, PTL

----------------------------------------------------------------------------
(* Every step of the client and the server is a step of the promise, or    *)
(* none.                                                                   *)
LEMMA PromiseInit == Init => Promise!Init
BY DEF Init, Promise!Init, Phase, Ended

LEMMA PromiseStutter ==
  ASSUME calls # <<>>, calls' # <<>>, call'.asked = call.asked, call'.mode = call.mode,
         Phase' = Phase
  PROVE  UNCHANGED Promise!vars
BY DEF Promise!vars, Allowed, Attempts

LEMMA PromiseNext ==
  ASSUME TypeOK, Accounts, TypeOK', [Next]_vars
  PROVE  [Promise!Next]_Promise!vars
<1>0. /\ \A mode \in Modes : Allowed(mode) \in Nat \ {0} /\ Allowed(mode) \in {1, Attempts}
      /\ calls # <<>> => /\ current \in DOMAIN calls /\ call \in CallRecords
                         /\ AccountOf(current) /\ call = calls[current]
                         /\ call.mode \in Modes /\ call.asked \in Nat
                         /\ call.asked <= Allowed(call.mode)
      /\ pc # "idle" => calls # <<>>
      /\ pc' # "idle" => calls' # <<>>
  BY AllowedTyped, CurrentCall DEF Accounts, call, CallRecords, AccountOf, TypeOK
<1>1. ASSUME NEW mode \in Modes, Call(mode) PROVE Promise!Begin
  <2> DEFINE new == [mode |-> mode, asked |-> 0, served |-> 0, abandoned |-> 0,
                     answered |-> FALSE]
  <2>1. calls \in Seq(CallRecords) /\ calls' = Append(calls, new) /\ new \in CallRecords
    BY <1>1 DEF TypeOK, CallRecords, Call
  <2>2. call' = new
    <3> HIDE DEF new
    <3> QED BY <2>1, AppendProperties DEF call, current
  <2>3. Phase # "asking" /\ Phase' = "asking" /\ calls' # <<>>
    BY <1>0, <1>1 DEF Call, Phase, Ended
  <2>4. Allowed(mode)' = Allowed(mode)
    BY DEF Allowed, Attempts
  <2> QED BY <1>0, <2>2, <2>3, <2>4 DEF Promise!Begin, Allowed, Attempts
<1>2. CASE Post
  <2>1. calls # <<>> /\ calls' # <<>> /\ call.asked < Allowed(call.mode)
    BY <1>0, <1>2 DEF Post, Accounts, CallPlace
  <2> DEFINE new == [call EXCEPT !.asked = @ + 1]
  <2>2. new \in CallRecords /\ calls' = [calls EXCEPT ![current] = new]
    BY <1>0, <1>2, <2>1 DEF Post, call, CallRecords
  <2>3. call' = new
    BY <1>0, <2>1, <2>2, UpdateCall
  <2>4. call'.asked = call.asked + 1 /\ call'.mode = call.mode
    BY <1>0, <2>1, <2>3 DEF CallRecords
  <2>5. Phase = "asking" /\ Phase' = "asking"
    BY <1>2 DEF Post, Phase, Ended
  <2>6. Promise!Ask
    BY <2>1, <2>4, <2>5 DEF Promise!Ask, Allowed, Attempts
  <2> QED BY <2>6 DEF Promise!Next
<1>3. ASSUME pc = "waiting", call'.asked = call.asked, call'.mode = call.mode,
             pc' \in {AfterError, "raised", "answered"}
      PROVE  [Promise!Next]_Promise!vars
  <2>1. calls # <<>> /\ call.asked > 0 /\ Phase = "asking"
    BY <1>0, <1>3 DEF Accounts, CallPlace, Phase, Ended
  <2>2. calls' # <<>>
    BY <1>0, <1>3 DEF AfterError
  <2>3. CASE pc' = "backoff"
    <3>1. Phase' = Phase
      BY <2>1, <2>3 DEF Phase, Ended
    <3> QED BY <1>3, <2>1, <2>2, <3>1, PromiseStutter
  <2>4. CASE pc' = "failed"
    <3>1. call.asked = Allowed(call.mode)
      BY <1>0, <1>3, <2>1, <2>4 DEF AfterError
    <3>2. Phase' = "failed"
      BY <2>4 DEF Phase, Ended
    <3>3. Promise!GiveUp
      BY <1>3, <2>1, <2>2, <3>1, <3>2 DEF Promise!GiveUp, Allowed, Attempts
    <3> QED BY <3>3 DEF Promise!Next
  <2>5. CASE pc' \in {"answered", "raised"}
    <3>1. Phase' \in {"answered", "raised"}
      BY <2>5 DEF Phase, Ended
    <3>2. Promise!Answer
      BY <1>3, <2>1, <2>2, <3>1 DEF Promise!Answer, Allowed, Attempts
    <3> QED BY <3>2 DEF Promise!Next
  <2> QED BY <1>3, <2>3, <2>4, <2>5 DEF AfterError
<1>4. ASSUME NEW content \in Nat, NEW usage \in Nat, NEW intervals \in Nat,
             pc = "waiting", Return(content, usage, intervals)
      PROVE  [Promise!Next]_Promise!vars
  <2> DEFINE new == [call EXCEPT !.answered = TRUE]
  <2>1. calls # <<>> /\ calls' = [calls EXCEPT ![current] = new] /\ new \in CallRecords
        /\ pc' = "answered"
    BY <1>0, <1>4, ReturnUpdates
  <2>2. call' = new
    BY <1>0, <2>1, UpdateCall
  <2>3. call'.asked = call.asked /\ call'.mode = call.mode
    BY <1>0, <2>1, <2>2 DEF CallRecords
  <2> QED BY <1>3, <1>4, <2>1, <2>3
<1>5. ASSUME calls' = calls, pc = "waiting", pc' \in {AfterError, "raised"}
      PROVE  [Promise!Next]_Promise!vars
  BY <1>3, <1>5 DEF call, current
<1>6. CASE ReceiveBody
  <2>1. exchange.length \in Nat
    BY DEF TypeOK
  <2> QED BY <1>4, <1>5, <1>6, <2>1 DEF ReceiveBody
<1>7. CASE ReadEnd
  <2>1. partial.pieces \in Nat /\ partial.usage \in Nat /\ partial.intervals \in Nat
    BY DEF TypeOK
  <2> QED BY <1>4, <1>5, <1>7, <2>1 DEF ReadEnd
<1>8. CASE Lose
  <2> DEFINE new == [call EXCEPT !.abandoned =
                       IF exchange.state \in {"unseen", "working"} THEN @ + 1 ELSE @]
  <2>1. calls # <<>> /\ pc = "waiting" /\ pc' = AfterError
    BY <1>0, <1>8 DEF Lose
  <2>2. new \in CallRecords /\ calls' = [calls EXCEPT ![current] = new]
    BY <1>0, <1>8, <2>1 DEF Lose, call, CallRecords
  <2>3. call' = new
    BY <1>0, <2>1, <2>2, UpdateCall
  <2>4. call'.asked = call.asked /\ call'.mode = call.mode
    BY <1>0, <2>1, <2>3 DEF CallRecords
  <2> QED BY <1>3, <2>1, <2>4
<1>9. ASSUME Phase' = Phase, calls' = calls PROVE UNCHANGED Promise!vars
  BY <1>9 DEF Promise!vars, call, current, Allowed, Attempts
<1>10. CASE ReadLine \/ Resume \/ Generate \/ Refuse \/ SendPiece \/ Break \/ UNCHANGED vars
  <2>1. Phase' = Phase /\ calls' = calls
    BY <1>10 DEF ReadLine, Resume, Generate, Refuse, SendPiece, Break, ServerOnly, vars,
                 Phase, Ended
  <2> QED BY <1>9, <2>1
<1>11. CASE Finish
  <2>1. calls # <<>> /\ pc' = pc /\ calls' = [calls EXCEPT ![current].served = @ + 1]
    BY <1>0, <1>11 DEF Finish, ServerOnly, TypeOK
  <2> DEFINE new == [call EXCEPT !.served = @ + 1]
  <2>2. new \in CallRecords /\ calls' = [calls EXCEPT ![current] = new]
    BY <1>0, <2>1 DEF call, CallRecords
  <2>3. call' = new /\ calls' # <<>>
    BY <1>0, <2>1, <2>2, UpdateCall
  <2>4. call'.asked = call.asked /\ call'.mode = call.mode /\ Phase' = Phase
    BY <1>0, <2>1, <2>3 DEF CallRecords, Phase
  <2> QED BY <2>1, <2>3, <2>4, PromiseStutter
<1>12. CASE AbandonedWorkEnds
  <2>1. PICK c \in DOMAIN calls, finished \in {0, 1} :
          /\ calls[c].abandoned > 0
          /\ calls' = [calls EXCEPT ![c].abandoned = @ - 1, ![c].served = @ + finished]
    BY <1>12 DEF AbandonedWorkEnds
  <2> DEFINE new == [calls[c] EXCEPT !.abandoned = @ - 1, !.served = @ + finished]
  <2>2. calls \in Seq(CallRecords) /\ c \in 1..Len(calls)
    <3>1. calls \in Seq(CallRecords)
      BY DEF TypeOK, CallRecords
    <3> QED BY <2>1, <3>1
  <2>3. calls[c] \in CallRecords /\ calls # <<>>
    BY <2>2, ElementOfSeq
  <2>4. new \in CallRecords /\ calls' = [calls EXCEPT ![c] = new]
    <3>1. calls[c].abandoned - 1 \in Nat /\ calls[c].served + finished \in Nat
      BY <2>1, <2>3 DEF CallRecords
    <3> QED BY <2>1, <2>3, <3>1 DEF CallRecords
  <2>5. calls' # <<>> /\ call' = IF c = current THEN new ELSE call
    BY <2>1, <2>4, UpdateCall
  <2>6. new.asked = calls[c].asked /\ new.mode = calls[c].mode
    BY <2>3 DEF CallRecords
  <2>7. call'.asked = call.asked /\ call'.mode = call.mode
    BY <2>5, <2>6 DEF call
  <2>8. Phase' = Phase
    BY <1>12 DEF AbandonedWorkEnds, Phase
  <2> QED BY <2>3, <2>5, <2>7, <2>8, PromiseStutter
<1> QED
  BY <1>1, <1>2, <1>6, <1>7, <1>8, <1>10, <1>11, <1>12
  DEF Next, ClientStep, ServerStep, AllCalled, Promise!Next

(* InferenceClient implements InferencePromise: a call is asked again only *)
(* as often as its mode allows, and gives up only when it was (client.py   *)
(* 69-85, 131-133), for any number of retries.                             *)
THEOREM ClientKeepsPromise == Spec => KeepsPromise
<1>1. Init => Promise!Init
  BY PromiseInit
<1>2. TypeOK /\ Accounts /\ TypeOK' /\ [Next]_vars => [Promise!Next]_Promise!vars
  BY PromiseNext
<1> QED BY TypeCorrect, AccountsInvariant, <1>1, <1>2, PTL DEF Spec, KeepsPromise, Promise!Spec

----------------------------------------------------------------------------
(* What has been read of a stream and what is still on the wire make up    *)
(* what was sent: first pieces, all of them read before anything else, and *)
(* a usage only behind a whole generation.                                 *)
Leading(n) ==
  /\ \A i \in 1..Len(wire) : wire[i] = "piece" <=> i <= n
  /\ partial.pieces + n = exchange.sent
  /\ exchange.state = "working" => n = Len(wire) /\ partial.usage = 0
  /\ \A i \in 1..Len(wire) : wire[i] = "usage" => partial.pieces + n = exchange.length
  /\ partial.usage # 0 =>
       partial.usage = exchange.length /\ partial.pieces = exchange.length

Streamed ==
  (pc = "waiting" /\ call.mode = "stream") =>
    /\ partial.intervals = IF partial.pieces > 0 THEN partial.pieces - 1 ELSE 0
    /\ exchange.sent <= exchange.length
    /\ exchange.state \in {"none", "unseen"} =>
         wire = <<>> /\ partial = Nothing /\ exchange.sent = 0
    /\ \E n \in 0..Len(wire) : Leading(n)

Counted == CountedIsWhole /\ Streamed

(* What is done to the account of a call does not change its mode.         *)
LEMMA ModeKept ==
  ASSUME TypeOK, calls # <<>>, Finish \/ AbandonedWorkEnds
  PROVE  call'.mode = call.mode
<1>1. /\ current \in DOMAIN calls /\ call \in CallRecords /\ calls \in Seq(CallRecords)
      /\ DOMAIN calls = 1..Len(calls)
  BY CurrentCall DEF TypeOK, CallRecords
<1>2. CASE Finish
  <2>1. calls' = [calls EXCEPT ![current] = [call EXCEPT !.served = @ + 1]]
    BY <1>2 DEF Finish, call
  <2>2. [call EXCEPT !.served = @ + 1] \in CallRecords
    <3>1. call \in CallRecords /\ call.served + 1 \in Nat
      BY <1>1 DEF CallRecords
    <3> HIDE DEF call
    <3> QED
      BY <3>1 DEF CallRecords
  <2>3. call' = [call EXCEPT !.served = @ + 1]
    BY <1>1, <2>1, <2>2, UpdateCall
  <2> QED
    BY <1>1, <2>3 DEF CallRecords
<1>3. CASE AbandonedWorkEnds
  <2>1. PICK c \in DOMAIN calls, finished \in {0, 1} :
          /\ calls[c].abandoned > 0
          /\ calls' = [calls EXCEPT ![c].abandoned = @ - 1, ![c].served = @ + finished]
    BY <1>3 DEF AbandonedWorkEnds
  <2> DEFINE ended == [calls[c] EXCEPT !.abandoned = @ - 1, !.served = @ + finished]
  <2>2. calls[c] \in CallRecords
    BY <1>1, ElementOfSeq
  <2>3. ended \in CallRecords /\ ended.mode = calls[c].mode
    BY <2>1, <2>2 DEF CallRecords
  <2>4. calls' = [calls EXCEPT ![c] = ended]
    BY <2>1
  <2>5. call' = IF c = current THEN ended ELSE call
    <3> HIDE DEF ended
    <3> QED
      BY <2>3, <2>4, UpdateCall
  <2> QED
    BY <2>3, <2>5 DEF call
<1> QED
  BY <1>2, <1>3

(* A chunk that is no piece goes to the end of the wire.                   *)
LEMMA EndsWithoutPiece ==
  ASSUME NEW n \in 0..Len(wire), wire \in Seq(Chunks), NEW ending \in Seq(Chunks),
         \A i \in 1..Len(ending) : ending[i] # "piece",
         \A i \in 1..Len(wire) : wire[i] = "piece" <=> i <= n
  PROVE  \A i \in 1..Len(wire \o ending) : (wire \o ending)[i] = "piece" <=> i <= n
<1>1. /\ Len(wire \o ending) = Len(wire) + Len(ending) /\ Len(wire) \in Nat /\ Len(ending) \in Nat
      /\ \A i \in 1..Len(wire) : (wire \o ending)[i] = wire[i]
      /\ \A i \in (Len(wire) + 1)..(Len(wire) + Len(ending)) :
           (wire \o ending)[i] = ending[i - Len(wire)]
  BY ConcatProperties
<1> SUFFICES ASSUME NEW i \in 1..Len(wire \o ending)
             PROVE  (wire \o ending)[i] = "piece" <=> i <= n
  OBVIOUS
<1>2. CASE i <= Len(wire)
  BY <1>1, <1>2
<1>3. CASE i > Len(wire)
  <2>1. i - Len(wire) \in 1..Len(ending) /\ i \in (Len(wire) + 1)..(Len(wire) + Len(ending))
    BY <1>1, <1>3
  <2> QED
    BY <1>1, <1>3, <2>1
<1> QED
  BY <1>1, <1>2, <1>3

LEMMA CountedInit == Init => Counted
BY DEF Init, Counted, CountedIsWhole, Streamed

(* The reading of a stream's first line.                                   *)
LEMMA FirstChunk ==
  ASSUME TypeOK, wire # <<>>, NEW n \in 0..Len(wire),
         \A i \in 1..Len(wire) : wire[i] = "piece" <=> i <= n
  PROVE  /\ Head(wire) = wire[1] /\ Len(wire) \in Nat \ {0}
         /\ Head(wire) = "piece" <=> n > 0
         /\ Len(Tail(wire)) = Len(wire) - 1
         /\ \A i \in 1..Len(Tail(wire)) : Tail(wire)[i] = wire[i + 1]
<1>1. wire \in Seq(Chunks)
  BY DEF TypeOK
<1>2. /\ Head(wire) = wire[1] /\ Len(wire) \in Nat \ {0}
      /\ Len(Tail(wire)) = Len(wire) - 1
      /\ \A i \in 1..Len(Tail(wire)) : Tail(wire)[i] = wire[i + 1]
  BY <1>1, HeadTailProperties
<1>3. wire[1] = "piece" <=> 1 <= n
  BY <1>2
<1> QED
  BY <1>2, <1>3

(* What was streamed is known after every step that leaves no call waiting *)
(* for a stream, or that keeps what is waited for.                         *)
LEMMA StreamedKept ==
  ASSUME Streamed, pc' # "waiting" \/ call'.mode # "stream"
                   \/ (UNCHANGED <<pc, wire, partial, exchange>> /\ call'.mode = call.mode)
  PROVE  Streamed'
BY DEF Streamed, Leading

LEMMA ReadLineStreamed ==
  ASSUME TypeOK, Streamed, ReadLine
  PROVE  Streamed'
<1>1. /\ pc = "waiting" /\ call.mode = "stream" /\ wire # <<>>
      /\ Head(wire) \in {"piece", "usage", "done"}
      /\ partial' = Take(Head(wire)) /\ wire' = Tail(wire)
      /\ UNCHANGED <<pc, calls, exchange>>
  BY DEF ReadLine
<1>2. PICK n \in 0..Len(wire) : Leading(n)
  BY <1>1 DEF Streamed
<1>3. /\ Head(wire) = wire[1] /\ Len(wire) \in Nat \ {0}
      /\ Head(wire) = "piece" <=> n > 0
      /\ Len(wire') = Len(wire) - 1
      /\ \A i \in 1..Len(wire') : wire'[i] = wire[i + 1]
  BY <1>1, <1>2, FirstChunk DEF Leading
<1>4. /\ partial \in [pieces : Nat, usage : Nat, intervals : Nat]
      /\ exchange.sent \in Nat /\ exchange.length \in Nat
      /\ partial.pieces \in Nat /\ partial.intervals \in Nat /\ partial.usage \in Nat
  BY DEF TypeOK
<1>5. exchange.state \notin {"none", "unseen"}
  BY <1>1 DEF Streamed
<1>6. CASE Head(wire) = "piece"
  <2>1. /\ partial'.pieces = partial.pieces + 1 /\ partial'.usage = partial.usage
        /\ partial'.intervals = IF partial.pieces > 0 THEN partial.intervals + 1
                                ELSE partial.intervals
    BY <1>1, <1>4, <1>6 DEF Take
  <2>2. n - 1 \in 0..Len(wire') /\ n > 0
    BY <1>3, <1>6
  <2>3. \A i \in 1..Len(wire') : wire'[i] = "piece" <=> i <= n - 1
    BY <1>2, <1>3, <2>2 DEF Leading
  <2>4. partial'.pieces + (n - 1) = exchange.sent
    BY <1>2, <1>4, <2>1, <2>2 DEF Leading
  <2>5. exchange.state = "working" => n - 1 = Len(wire') /\ partial'.usage = 0
    BY <1>2, <1>3, <2>1 DEF Leading
  <2>6. \A i \in 1..Len(wire') : wire'[i] = "usage" =>
           partial'.pieces + (n - 1) = exchange.length
    BY <1>2, <1>3, <1>4, <2>1, <2>2 DEF Leading
  <2>7. partial'.usage = 0
    <3>1. partial.pieces + n = exchange.sent /\ exchange.sent <= exchange.length
      BY <1>1, <1>2 DEF Streamed, Leading
    <3>2. partial.usage # 0 => partial.pieces = exchange.length
      BY <1>2 DEF Leading
    <3>3. partial.pieces # exchange.length
      <4>1. \A a, b, c, d \in Nat : (a + b = c /\ c <= d /\ b > 0) => a # d
        OBVIOUS
      <4>2. n \in Nat
        BY <1>2, <1>3
      <4> QED
        BY <1>4, <2>2, <3>1, <4>1, <4>2
    <3> QED
      BY <2>1, <3>2, <3>3
  <2>8. Leading(n - 1)'
    BY <1>1, <2>3, <2>4, <2>5, <2>6, <2>7 DEF Leading
  <2>9. partial'.intervals = IF partial'.pieces > 0 THEN partial'.pieces - 1 ELSE 0
    BY <1>1, <1>4, <2>1, SMTT(30) DEF Streamed
  <2> QED
    BY <1>1, <1>5, <2>2, <2>8, <2>9 DEF Streamed
<1>7. CASE Head(wire) # "piece"
  <2>1. n = 0
    BY <1>2, <1>3, <1>7
  <2>2. partial'.pieces = partial.pieces /\ partial'.intervals = partial.intervals
    BY <1>1, <1>4, <1>7 DEF Take
  <2>3. 0 \in 0..Len(wire') /\ exchange.state # "working"
    BY <1>2, <1>3, <2>1 DEF Leading
  <2>4. \A i \in 1..Len(wire') : wire'[i] = "piece" <=> i <= 0
    BY <1>2, <1>3, <2>1 DEF Leading
  <2>5. partial'.pieces + 0 = exchange.sent
    BY <1>2, <1>4, <2>1, <2>2 DEF Leading
  <2>6. \A i \in 1..Len(wire') : wire'[i] = "usage" => partial'.pieces + 0 = exchange.length
    BY <1>2, <1>3, <1>4, <2>1, <2>2 DEF Leading
  <2>7. partial'.usage # 0 =>
          partial'.usage = exchange.length /\ partial'.pieces = exchange.length
    <3>1. CASE Head(wire) = "usage"
      <4>1. partial.pieces = exchange.length
        BY <1>2, <1>3, <1>4, <2>1, <3>1 DEF Leading
      <4>2. partial'.usage = exchange.length
        BY <1>1, <1>4, <3>1 DEF Take
      <4> QED
        BY <2>2, <4>1, <4>2
    <3>2. CASE Head(wire) # "usage"
      <4>1. partial' = partial
        BY <1>1, <1>7, <3>2 DEF Take
      <4> QED
        BY <1>2, <4>1 DEF Leading
    <3> QED
      BY <3>1, <3>2
  <2>8. Leading(0)'
    BY <1>1, <2>3, <2>4, <2>5, <2>6, <2>7 DEF Leading
  <2>9. partial'.intervals = IF partial'.pieces > 0 THEN partial'.pieces - 1 ELSE 0
    BY <1>1, <2>2 DEF Streamed
  <2> QED
    BY <1>1, <1>5, <2>3, <2>8, <2>9 DEF Streamed
<1> QED
  BY <1>6, <1>7

(* The server adds to the end of what it has sent.                         *)
LEMMA ServerStreamed ==
  ASSUME TypeOK, CallPlace, Streamed, ServerStep
  PROVE  Streamed'
<1>1. /\ partial \in [pieces : Nat, usage : Nat, intervals : Nat]
      /\ exchange \in [state : {"none", "unseen", "working", "over"}, length : Nat, sent : Nat]
      /\ exchange.sent \in Nat /\ exchange.length \in Nat /\ partial.pieces \in Nat
      /\ wire \in Seq(Chunks) /\ Len(wire) \in Nat
      /\ \A length \in GenerationLengths : length \in Nat
  BY SMTT(30), ClientAssumption DEF TypeOK, GenerationLengths
<1>2. CASE AbandonedWorkEnds
  <2>1. CASE calls # <<>>
    <3>1. call'.mode = call.mode
      BY <1>2, <2>1, ModeKept
    <3> QED
      BY <1>2, <3>1, StreamedKept DEF AbandonedWorkEnds
  <2>2. CASE calls = <<>>
    BY <1>2, <2>2 DEF AbandonedWorkEnds
  <2> QED
    BY <2>1, <2>2
<1>3. exchange.state # "none" => pc = "waiting" /\ calls # <<>>
  BY DEF TypeOK
<1> SUFFICES ASSUME pc = "waiting", call.mode = "stream", exchange.state # "none",
                    Generate \/ Refuse \/ SendPiece \/ Finish \/ Break, call'.mode = call.mode
             PROVE  Streamed'
  <2>1. CASE AbandonedWorkEnds
    BY <1>2, <2>1
  <2>2. CASE Generate \/ Refuse \/ SendPiece \/ Finish \/ Break
    <3>1. exchange.state # "none"
      BY <2>2 DEF Generate, Refuse, SendPiece, Finish, Break
    <3>2. call'.mode = call.mode
      BY <1>3, <2>2, <3>1, ModeKept
         DEF Generate, Refuse, SendPiece, Finish, Break, call, current
    <3>3. pc' = pc
      BY <2>2 DEF Generate, Refuse, SendPiece, Finish, Break, ServerOnly
    <3>4. CASE call.mode # "stream"
      BY <3>2, <3>4, StreamedKept
    <3> QED
      BY <1>3, <2>2, <3>1, <3>2, <3>4
  <2> QED
    BY <2>1, <2>2 DEF ServerStep
<1>4. /\ partial.intervals = IF partial.pieces > 0 THEN partial.pieces - 1 ELSE 0
      /\ exchange.sent <= exchange.length
      /\ exchange.state = "unseen" =>
           wire = <<>> /\ partial = Nothing /\ exchange.sent = 0
  BY DEF Streamed
<1>5. PICK n \in 0..Len(wire) : Leading(n)
  BY DEF Streamed
<1>6. partial' = partial /\ pc' = pc
  BY DEF Generate, Refuse, SendPiece, Finish, Break, ServerOnly
<1>7. /\ \A i \in 1..Len(wire) : wire[i] = "piece" <=> i <= n
      /\ partial.pieces + n = exchange.sent
      /\ exchange.state = "working" => n = Len(wire) /\ partial.usage = 0
      /\ partial.usage # 0 =>
           partial.usage = exchange.length /\ partial.pieces = exchange.length
  BY <1>5 DEF Leading
<1>8. CASE Generate
  <2>1. PICK length \in GenerationLengths :
          exchange' = [exchange EXCEPT !.state = "working", !.length = length]
    BY <1>8 DEF Generate
  <2>2. exchange.state = "unseen" /\ wire' = wire
    BY <1>8 DEF Generate
  <2>3. /\ exchange'.state = "working" /\ exchange'.length \in Nat
        /\ exchange'.sent = 0 /\ wire' = <<>> /\ partial' = Nothing
    BY <1>1, <1>4, <1>6, <2>1, <2>2
  <2>4. Leading(0)'
    BY <2>3 DEF Leading, Nothing
  <2> QED
    BY <2>3, <2>4 DEF Streamed, Nothing
<1>9. CASE Refuse
  <2>1. /\ exchange'.state = "over" /\ exchange'.sent = exchange.sent
        /\ exchange'.length = exchange.length
        /\ wire' = <<"refused">> /\ exchange.state = "unseen"
    BY <1>1, <1>9 DEF Refuse
  <2>2. exchange'.sent = 0 /\ partial' = Nothing
    BY <1>4, <1>6, <2>1
  <2>3. Leading(0)'
    BY <2>1, <2>2 DEF Leading, Nothing
  <2> QED
    BY <1>1, <2>1, <2>2, <2>3 DEF Streamed, Nothing
<1>10. CASE SendPiece
  <2>1. /\ exchange.state = "working" /\ exchange.sent < exchange.length
        /\ exchange' = [exchange EXCEPT !.sent = @ + 1] /\ wire' = Append(wire, "piece")
    BY <1>10 DEF SendPiece
  <2>2. /\ exchange'.state = "working" /\ exchange'.sent = exchange.sent + 1
        /\ exchange'.length = exchange.length
    BY <1>1, <2>1
  <2>3. /\ Len(wire') = Len(wire) + 1 /\ wire'[Len(wire) + 1] = "piece"
        /\ \A i \in 1..Len(wire) : wire'[i] = wire[i]
    BY <1>1, <2>1
  <2>4. \A i \in 1..Len(wire') : wire'[i] = "piece" /\ i <= n + 1
    BY <1>1, <1>7, <2>1, <2>3
  <2>5. Leading(n + 1)'
    BY <1>1, <1>6, <1>7, <2>1, <2>2, <2>3, <2>4 DEF Leading
  <2>6. n + 1 \in 0..Len(wire')
    BY <1>1, <2>3
  <2> QED
    BY <1>1, <1>4, <1>6, <2>1, <2>2, <2>5, <2>6 DEF Streamed
<1>11. ASSUME exchange.state = "working", NEW ending \in Seq(Chunks),
              wire' = wire \o ending, exchange' = [exchange EXCEPT !.state = "over"],
              \A i \in 1..Len(ending) : ending[i] # "piece",
              \A i \in 1..Len(ending) : ending[i] = "usage" => exchange.sent = exchange.length
       PROVE  Streamed'
  <2>1. /\ exchange'.state = "over" /\ exchange'.sent = exchange.sent
        /\ exchange'.length = exchange.length
    BY <1>1, <1>11
  <2>2. \A i \in 1..Len(wire') : wire'[i] = "piece" <=> i <= n
    <3>1. \A i \in 1..Len(wire) : wire[i] = "piece" <=> i <= n
      BY <1>7
    <3>2. \A i \in 1..Len(wire \o ending) : (wire \o ending)[i] = "piece" <=> i <= n
      BY <1>1, <1>5, <1>11, <3>1, EndsWithoutPiece
    <3> QED
      BY <1>11, <3>2
  <2>3. n = Len(wire) /\ n \in 0..Len(wire')
    <3>1. Len(wire') = Len(wire) + Len(ending) /\ Len(ending) \in Nat
      BY <1>1, <1>11
    <3> QED
      BY <1>1, <1>7, <1>11, <3>1
  <2>4. ASSUME NEW i \in 1..Len(wire'), wire'[i] = "usage"
        PROVE  partial'.pieces + n = exchange'.length
    <3>1. i \in (Len(wire) + 1)..(Len(wire) + Len(ending)) /\ Len(ending) \in Nat
      BY <1>1, <1>11, <2>2, <2>3, <2>4
    <3>2. wire'[i] = ending[i - Len(wire)] /\ i - Len(wire) \in 1..Len(ending)
      BY <1>1, <1>11, <3>1
    <3> QED
      BY <1>6, <1>7, <1>11, <2>1, <2>4, <3>2
  <2>5. Leading(n)'
    BY <1>6, <1>7, <2>1, <2>2, <2>4 DEF Leading
  <2> QED
    BY <1>4, <1>6, <2>1, <2>3, <2>5 DEF Streamed
<1>12. CASE Finish
  <2>1. PICK ending \in StreamEnds : wire' = wire \o ending
    BY <1>12 DEF Finish, Endings
  <2>2. ending \in Seq(Chunks) /\ \A i \in 1..Len(ending) : ending[i] # "piece"
    <3>1. ending = <<"usage", "done", "end">> \/ ending = <<"done", "end">>
      BY DEF StreamEnds
    <3>2. CASE ending = <<"usage", "done", "end">>
      BY <3>2 DEF Chunks
    <3>3. CASE ending = <<"done", "end">>
      BY <3>3 DEF Chunks
    <3> QED
      BY <3>1, <3>2, <3>3
  <2>3. exchange.state = "working" /\ exchange.sent = exchange.length
        /\ exchange' = [exchange EXCEPT !.state = "over"]
    BY <1>12 DEF Finish
  <2> QED
    BY <1>11, <2>1, <2>2, <2>3
<1>13. CASE Break
  <2>1. PICK last \in {"end", "unreadable", "odd"} : wire' = Append(wire, last)
    BY <1>13 DEF Break
  <2>2. <<last>> \in Seq(Chunks) /\ wire' = wire \o <<last>>
        /\ \A i \in 1..Len(<<last>>) : <<last>>[i] \notin {"piece", "usage"}
    BY <1>1, <2>1 DEF Chunks
  <2>3. exchange.state = "working" /\ exchange' = [exchange EXCEPT !.state = "over"]
    BY <1>13 DEF Break
  <2> QED
    BY <1>11, <2>2, <2>3
<1> QED
  BY <1>8, <1>9, <1>10, <1>12, <1>13

(* A response is appended only by Return.                                  *)
LEMMA ReturnCounted ==
  ASSUME TypeOK, CountedIsWhole, call.mode \in Modes,
         NEW content \in Nat, NEW usage \in Nat, NEW intervals \in Nat,
         Return(content, usage, intervals),
         usage # 0 => usage = exchange.length /\ content = exchange.length,
         call.mode = "complete" => content = exchange.length /\ intervals = 0,
         content <= exchange.length,
         call.mode = "stream" => intervals = IF content > 0 THEN content - 1 ELSE 0
  PROVE  CountedIsWhole'
<1> DEFINE Responses == [mode : Modes, content : Nat, usage : Nat, generated : Nat,
                         intervals : Nat]
           response == [mode |-> call.mode, content |-> content, usage |-> usage,
                        generated |-> exchange.length, intervals |-> intervals]
           Whole(r) ==
             /\ r.usage # 0 => r.usage = r.generated /\ r.content = r.generated
             /\ r.mode = "complete" => r.content = r.generated /\ r.intervals = 0
             /\ r.mode = "stream" => r.content <= r.generated
             /\ r.intervals = IF r.mode = "stream" /\ r.content > 0 THEN r.content - 1 ELSE 0
<1>1. Whole(response)
  BY DEF Modes
<1>2. responses \in Seq(Responses) /\ responses' = Append(responses, response)
  BY DEF TypeOK, Return
<1>3. \A i \in 1..Len(responses) : Whole(responses[i])
  <2>1. \A i \in DOMAIN responses : Whole(responses[i])
    BY Zenon DEF CountedIsWhole
  <2> HIDE DEF Whole, response, Responses
  <2> QED
    BY <1>2, <2>1
<1> HIDE DEF response, Responses, Whole
<1>4. /\ DOMAIN responses' = 1..Len(responses) + 1 /\ Len(responses) \in Nat
      /\ responses'[Len(responses) + 1] = response
      /\ \A i \in 1..Len(responses) : responses'[i] = responses[i]
  BY <1>2
<1>5. \A i \in DOMAIN responses' : Whole(responses'[i])
  BY <1>1, <1>3, <1>4
<1> QED
  BY <1>5 DEF CountedIsWhole, Whole

LEMMA CountedNext ==
  ASSUME TypeOK, Accounts, Counted, TypeOK', [Next]_vars
  PROVE  Counted'
<1>0. pc' # "waiting" => Streamed'
  BY DEF Streamed
<1>1. /\ exchange.length \in Nat /\ exchange.sent \in Nat
      /\ partial.pieces \in Nat /\ partial.usage \in Nat /\ partial.intervals \in Nat
  BY DEF TypeOK
<1>2. UNCHANGED responses => CountedIsWhole'
  BY DEF Counted, CountedIsWhole
<1>3. pc = "waiting" => calls # <<>> /\ call.mode \in Modes
  <2>1. calls # <<>> => call.mode \in Modes
    BY CurrentCall DEF CallRecords
  <2> QED
    BY <2>1 DEF TypeOK
<1>4. CASE ServerStep
  <2>1. UNCHANGED responses
    BY <1>4 DEF ServerStep, Generate, Refuse, SendPiece, Finish, Break, AbandonedWorkEnds,
                ServerOnly
  <2> QED
    BY <1>2, <1>4, <2>1, ServerStreamed DEF Accounts, Counted
<1>5. CASE ReadLine
  BY <1>2, <1>5, ReadLineStreamed DEF ReadLine, Counted
<1>6. CASE Post
  <2>1. wire = <<>>
    BY <1>6 DEF Post, Accounts, CallPlace
  <2>2. exchange' = [Idle EXCEPT !.state = "unseen"] /\ partial' = Nothing /\ wire' = <<>>
    BY <1>6, <2>1 DEF Post
  <2>3. exchange'.state = "unseen" /\ exchange'.sent = 0 /\ exchange'.length = 0
    BY <2>2 DEF Idle
  <2>4. Leading(0)'
    BY <2>2, <2>3 DEF Leading, Nothing
  <2>5. Streamed'
    BY <2>2, <2>3, <2>4 DEF Streamed, Nothing
  <2> QED
    BY <1>2, <1>6, <2>5 DEF Post, Counted
<1>7. AfterError # "waiting"
  BY DEF AfterError
<1>8. CASE ReceiveBody
  <2>1. call.mode = "complete" /\ pc = "waiting"
    BY <1>8 DEF ReceiveBody
  <2>2. pc' # "waiting"
    BY <1>7, <1>8 DEF ReceiveBody, Return
  <2>3. ASSUME NEW usage \in {exchange.length, 0}, Return(exchange.length, usage, 0)
        PROVE  CountedIsWhole'
    BY <1>1, <1>3, <2>1, <2>3, ReturnCounted DEF Counted
  <2>4. CountedIsWhole'
    BY <1>2, <1>8, <2>3 DEF ReceiveBody
  <2> QED
    BY <1>0, <2>2, <2>4 DEF Counted
<1>9. CASE ReadEnd
  <2>1. call.mode = "stream" /\ pc = "waiting"
    BY <1>9 DEF ReadEnd
  <2>2. pc' # "waiting"
    BY <1>7, <1>9 DEF ReadEnd, Return
  <2>3. PICK n \in 0..Len(wire) : Leading(n)
    BY <2>1 DEF Counted, Streamed
  <2>4. partial.pieces <= exchange.length
    <3>1. partial.pieces + n = exchange.sent /\ exchange.sent <= exchange.length /\ n \in Nat
      BY <2>1, <2>3 DEF Counted, Streamed, Leading
    <3> QED
      BY <1>1, <3>1
  <2>5. /\ partial.intervals = IF partial.pieces > 0 THEN partial.pieces - 1 ELSE 0
        /\ partial.usage # 0 =>
             partial.usage = exchange.length /\ partial.pieces = exchange.length
    BY <2>1, <2>3 DEF Counted, Streamed, Leading
  <2>6. Return(partial.pieces, partial.usage, partial.intervals) => CountedIsWhole'
    BY <1>1, <1>3, <2>1, <2>4, <2>5, ReturnCounted DEF Counted
  <2>7. CountedIsWhole'
    BY <1>2, <1>9, <2>6 DEF ReadEnd
  <2> QED
    BY <1>0, <2>2, <2>7 DEF Counted
<1>10. CASE Lose
  <2>1. pc' # "waiting" /\ UNCHANGED responses
    BY <1>7, <1>10 DEF Lose
  <2> QED
    BY <1>0, <1>2, <2>1 DEF Counted
<1>11. CASE Resume \/ \E mode \in Modes : Call(mode)
  <2>1. pc' # "waiting" /\ UNCHANGED responses
    BY <1>11 DEF Resume, Call
  <2> QED
    BY <1>0, <1>2, <2>1 DEF Counted
<1>12. CASE UNCHANGED vars
  <2>1. UNCHANGED <<pc, wire, partial, exchange, responses>> /\ call'.mode = call.mode
    BY <1>12 DEF vars, call, current
  <2> QED
    BY <1>2, <2>1, StreamedKept DEF Counted
<1> QED
  BY <1>4, <1>5, <1>6, <1>8, <1>9, <1>10, <1>11, <1>12 DEF Next, ClientStep, AllCalled

(* A response counts everything that was generated for it and shows it     *)
(* whole, or counts nothing (client.py 74-95, 135-181), for any lengths,   *)
(* any number of calls and any server: nothing read of a stream that was   *)
(* lost is left in the accumulators of the next.                           *)
THEOREM CountedWholeOrNotAtAll == Spec => []CountedIsWhole
<1>1. TypeOK /\ Accounts /\ Counted /\ TypeOK' /\ [Next]_vars => Counted'
  BY CountedNext
<1>2. Counted => CountedIsWhole
  BY DEF Counted
<1> QED
  BY TypeCorrect, AccountsInvariant, CountedInit, <1>1, <1>2, PTL DEF Spec
=============================================================================
