--------------------------- MODULE InferenceClient ---------------------------
(***************************************************************************)
(* OpenAIClient.complete and stream against a server that may refuse,      *)
(* answer late, answer nonsense or stop in the middle, over connections    *)
(* that may be lost.  The agent and the compactor await one call at a      *)
(* time; what the server still does for a request the client gave up on    *)
(* goes on beside the next one.  A token is a piece of a stream.           *)
(* Assumed of every server: it sends the usage of a stream after its last  *)
(* piece, where "include_usage" asks for it (stream() takes it from any    *)
(* chunk), and does not keep a read alive for ever, one byte at a time.    *)
(***************************************************************************)
EXTENDS Naturals, Sequences

CONSTANTS
  Retries,   \* config.retries
  MaxCalls,  \* bound: calls made of one client
  Lengths,   \* lengths of a generation, in tokens
  Servers    \* which server the endpoint is: "mock" (mock_server.py), "other"

ASSUME ClientAssumption ==
  /\ Retries \in Nat /\ MaxCalls \in Nat
  /\ Lengths \subseteq Nat \ {0}
  /\ Servers \subseteq {"mock", "other"}

VARIABLES
  server,     \* the endpoint
  pc,         \* where the call is
  calls,      \* the calls begun, with what became of each
  exchange,   \* what the server does for the request in flight
  wire,       \* what it sent and the client has not read
  partial,    \* the accumulators of stream()
  responses   \* the InferenceResponses returned

vars == <<server, pc, calls, exchange, wire, partial, responses>>

Ended == {"answered", "failed", "raised"}
Places == {"idle", "post", "waiting", "backoff"} \cup Ended
Modes == {"complete", "stream"}

(* The last chunk of a body that ends is "end"; a whole body is one chunk. *)
(* "unreadable" is what complete() and stream() catch (no JSON, a missing  *)
(* key), "odd" what they do not (an empty list of choices, a null delta).  *)
Chunks == {"refused", "answer", "uncounted", "unreadable", "odd",
           "piece", "usage", "done", "end"}

Idle == [state |-> "none", length |-> 0, sent |-> 0]
Nothing == [pieces |-> 0, usage |-> 0, intervals |-> 0]

current == Len(calls)
call == calls[current]
Attempts == Retries + 1
Allowed(mode) == IF mode = "complete" THEN Attempts ELSE 1

----------------------------------------------------------------------------
Init ==
  /\ server \in Servers
  /\ pc = "idle" /\ calls = <<>> /\ responses = <<>>
  /\ exchange = Idle /\ wire = <<>> /\ partial = Nothing

Call(mode) ==
  /\ pc \in Ended \cup {"idle"} /\ current < MaxCalls
  /\ calls' = Append(calls, [mode |-> mode, asked |-> 0, served |-> 0,
                             abandoned |-> 0, answered |-> FALSE])
  /\ pc' = "post"
  /\ UNCHANGED <<server, exchange, wire, partial, responses>>

Post ==
  /\ pc = "post"
  /\ calls' = [calls EXCEPT ![current].asked = @ + 1]
  /\ exchange' = [Idle EXCEPT !.state = "unseen"]
  /\ partial' = Nothing
  /\ pc' = "waiting"
  /\ UNCHANGED <<server, wire, responses>>

(* Every way an attempt ends drops its connection.                         *)
HangUp == UNCHANGED exchange /\ wire' = <<>> /\ partial' = Nothing
  \* mutant: the connection of an attempt that failed stays open
Hang == exchange' = Idle /\ wire' = <<>> /\ partial' = Nothing

(* An error of the attempt: complete() sleeps and tries again unless this  *)
(* was the last attempt, stream() raises InferenceError at once.           *)
AfterErrorOnceMore ==  \* mutant: one retry too many
  IF call.asked <= Allowed(call.mode) THEN "backoff" ELSE "failed"
AfterErrorAtOnce ==  \* mutant: gives up before the retries are used up
  IF call.asked + 1 < Allowed(call.mode) THEN "backoff" ELSE "failed"
AfterErrorAwaits ==  \* mutant: the next attempt awaits without asking again
  IF call.asked < Allowed(call.mode) THEN "waiting" ELSE "failed"
AfterError == IF call.asked < Allowed(call.mode) THEN "backoff" ELSE "failed"

Resume ==
  /\ pc = "backoff" /\ pc' = "post"
  /\ UNCHANGED <<server, calls, exchange, wire, partial, responses>>

(* The response: content and usage, of how long a generation it is, and    *)
(* how many intervals between tokens it timed.                             *)
Return(content, usage, intervals) ==
  /\ responses' = Append(responses,
       [mode |-> call.mode, content |-> content, usage |-> usage,
        generated |-> exchange.length, intervals |-> intervals])
  /\ calls' = [calls EXCEPT ![current].answered = TRUE]
  /\ pc' = "answered"

(* complete(): a body without a usage counts as zero tokens.               *)
ReceiveBody ==
  /\ pc = "waiting" /\ call.mode = "complete" /\ wire # <<>>
  /\ \/ Head(wire) = "answer" /\ Return(exchange.length, exchange.length, 0)
     \/ Head(wire) = "uncounted" /\ Return(exchange.length, 0, 0)
     \/ /\ Head(wire) \in {"refused", "unreadable"}
        /\ pc' = AfterError /\ UNCHANGED <<calls, responses>>
     \/ Head(wire) = "odd" /\ pc' = "raised" /\ UNCHANGED <<calls, responses>>
  /\ Hang
  /\ UNCHANGED server

(* stream(): one line of the body.  "done" and what carries neither        *)
(* content nor usage is skipped.                                           *)
TakeCountingPieces(chunk) ==  \* mutant: no usage, then as many tokens as came
  [partial EXCEPT !.pieces = IF chunk = "piece" THEN @ + 1 ELSE @,
                  !.intervals = IF chunk = "piece" /\ partial.pieces > 0 THEN @ + 1 ELSE @,
                  !.usage = IF chunk = "piece" THEN @ + 1 ELSE @]
Take(chunk) ==
  CASE chunk = "piece" ->
         [partial EXCEPT !.pieces = @ + 1,
                         !.intervals = IF partial.pieces > 0 THEN @ + 1 ELSE @]
    [] chunk = "usage" -> [partial EXCEPT !.usage = exchange.length]
    [] OTHER -> partial

ReadLine ==
  /\ pc = "waiting" /\ call.mode = "stream" /\ wire # <<>>
  /\ Head(wire) \in {"piece", "usage", "done"}
  /\ partial' = Take(Head(wire))
  /\ wire' = Tail(wire)
  /\ UNCHANGED <<server, pc, calls, exchange, responses>>

(* The end of the body is the end of the response, wherever it came.       *)
ReadEnd ==
  /\ pc = "waiting" /\ call.mode = "stream" /\ wire # <<>>
  /\ \/ Head(wire) = "end" /\ Return(partial.pieces, partial.usage, partial.intervals)
     \/ /\ Head(wire) \in {"refused", "unreadable"}
        /\ pc' = AfterError /\ UNCHANGED <<calls, responses>>
     \/ Head(wire) = "odd" /\ pc' = "raised" /\ UNCHANGED <<calls, responses>>
  /\ Hang
  /\ UNCHANGED server

(* A timeout, or a connection that could not be made or was lost.  What    *)
(* the server has begun, or may yet begin, it may also finish.             *)
Lose ==
  /\ pc = "waiting"
  /\ calls' = [calls EXCEPT ![current].abandoned =
                 IF exchange.state \in {"unseen", "working"} THEN @ + 1 ELSE @]
  /\ pc' = AfterError
  /\ Hang
  /\ UNCHANGED <<server, responses>>

----------------------------------------------------------------------------
(* The server.  The mock answers every request in two pieces and counts    *)
(* them; another server may do less.                                       *)
GenerationLengths == IF server = "mock" THEN {2} ELSE Lengths
Bodies ==
  IF server = "mock" THEN {<<"answer">>}
  ELSE {<<"answer">>, <<"uncounted">>, <<"unreadable">>, <<"odd">>}
StreamEnds ==
  IF server = "mock" THEN {<<"usage", "done", "end">>}
  ELSE {<<"usage", "done", "end">>, <<"done", "end">>}
Endings == IF call.mode = "complete" THEN Bodies ELSE StreamEnds

ServerOnly == UNCHANGED <<server, pc, partial, responses>>

Generate ==
  /\ exchange.state = "unseen"
  /\ \E length \in GenerationLengths :
       exchange' = [exchange EXCEPT !.state = "working", !.length = length]
  /\ ServerOnly /\ UNCHANGED <<calls, wire>>

Refuse ==
  /\ exchange.state = "unseen" /\ server # "mock"
  /\ exchange' = [exchange EXCEPT !.state = "over"]
  /\ wire' = <<"refused">>
  /\ ServerOnly /\ UNCHANGED calls

SendPiece ==
  /\ exchange.state = "working" /\ call.mode = "stream"
  /\ exchange.sent < exchange.length
  /\ exchange' = [exchange EXCEPT !.sent = @ + 1]
  /\ wire' = Append(wire, "piece")
  /\ ServerOnly /\ UNCHANGED calls

Finish ==
  /\ exchange.state = "working"
  /\ call.mode = "stream" => exchange.sent = exchange.length
  /\ \E ending \in Endings : wire' = wire \o ending
  /\ calls' = [calls EXCEPT ![current].served = @ + 1]
  /\ exchange' = [exchange EXCEPT !.state = "over"]
  /\ ServerOnly

(* A stream breaks off: an early end looks like any other, an error line   *)
(* or half a line does not.                                                *)
Break ==
  /\ exchange.state = "working" /\ call.mode = "stream" /\ server # "mock"
  /\ \E last \in {"end", "unreadable", "odd"} : wire' = Append(wire, last)
  /\ exchange' = [exchange EXCEPT !.state = "over"]
  /\ ServerOnly /\ UNCHANGED calls

(* Work for a request the client no longer waits for ends, or is aborted.  *)
AbandonedWorkEnds ==
  /\ \E c \in DOMAIN calls :
       /\ calls[c].abandoned > 0
       /\ \E finished \in {0, 1} :
            calls' = [calls EXCEPT ![c].abandoned = @ - 1, ![c].served = @ + finished]
  /\ UNCHANGED <<server, pc, exchange, wire, partial, responses>>

ClientStep == Post \/ ReceiveBody \/ ReadLine \/ ReadEnd \/ Lose \/ Resume
ServerStep == Generate \/ Refuse \/ SendPiece \/ Finish \/ Break \/ AbandonedWorkEnds
AllCalled == pc \in Ended /\ current = MaxCalls /\ UNCHANGED vars

Next == (\E mode \in Modes : Call(mode)) \/ ClientStep \/ ServerStep \/ AllCalled

Spec == Init /\ [][Next]_vars

(* Requests have a timeout and back-offs end, so the client always moves;  *)
(* nothing is assumed of the server.                                       *)
FairSpec == Spec /\ WF_vars(ClientStep)

----------------------------------------------------------------------------
(* Type invariant.                                                         *)
TypeOK ==
  /\ server \in Servers /\ pc \in Places
  /\ calls \in Seq([mode : Modes, asked : Nat, served : Nat, abandoned : Nat,
                    answered : BOOLEAN])
  /\ exchange \in [state : {"none", "unseen", "working", "over"}, length : Nat, sent : Nat]
  /\ wire \in Seq(Chunks)
  /\ partial \in [pieces : Nat, usage : Nat, intervals : Nat]
  /\ responses \in Seq([mode : Modes, content : Nat, usage : Nat, generated : Nat,
                        intervals : Nat])
  /\ pc # "idle" => calls # <<>>
  /\ exchange.state # "none" => pc = "waiting"

(* Work that no usage shows is bounded: whatever is lost, late or retried, *)
(* the server never does more for a call than the attempts it made, one of *)
(* which a call that is answered can show.                                 *)
LostWorkBounded ==
  \A c \in DOMAIN calls :
    /\ calls[c].served + calls[c].abandoned <= calls[c].asked
    /\ calls[c].asked <= Allowed(calls[c].mode)
    /\ (calls[c].answered /\ calls[c].mode = "complete") => calls[c].served > 0

(* Tokens are under-counted only as a whole: a response either counts all  *)
(* that was generated for it, and shows it whole, or counts nothing - an   *)
(* answer cut short never contributes a part to a total or to a limit.     *)
CountedIsWhole ==
  \A i \in DOMAIN responses :
    LET r == responses[i] IN
      /\ r.usage # 0 => r.usage = r.generated /\ r.content = r.generated
      /\ r.mode = "complete" => r.content = r.generated /\ r.intervals = 0
      /\ r.mode = "stream" => r.content <= r.generated
      /\ r.intervals = IF r.mode = "stream" /\ r.content > 0 THEN r.content - 1 ELSE 0

(* Every call ends, even when the server never says a word.                *)
CallsEnd == (pc = "post") ~> (pc \in Ended)

(* The client keeps the promise its callers rely on.                       *)
Phase == IF pc \in Ended \cup {"idle"} THEN pc ELSE "asking"
Promise == INSTANCE InferencePromise WITH
  phase   <- Phase,
  asked   <- IF calls = <<>> THEN 0 ELSE call.asked,
  allowed <- IF calls = <<>> THEN 1 ELSE Allowed(call.mode)
KeepsPromise == Promise!Spec
=============================================================================
