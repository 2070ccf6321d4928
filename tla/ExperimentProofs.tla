-------------------------- MODULE ExperimentProofs --------------------------
(***************************************************************************)
(* Theorems about Experiment and ExperimentReport, for any matrix, any     *)
(* number of processes with one experiment id, and any number of           *)
(* invocations that raise or are killed: what an analysis finds on disk.   *)
(***************************************************************************)
EXTENDS ExperimentReport, FoldTheorems

(* A process that outlived its command, of whichever run, changes nothing  *)
(* but the clone it was started in.                                        *)
AllButClones == <<order, shuffle, artifacts, at, attempt, position, prepared, returned,
                  outcome, official>>

LEMMA StraggleChanges ==
  ASSUME Straggle \/ UNCHANGED vars
  PROVE  UNCHANGED AllButClones
  BY DEF Straggle, CommandOutlived, StragglerWrites, vars, local, AllButClones

----------------------------------------------------------------------------

(* The conditions an invocation has finished come before its present one,  *)
(* and those of earlier invocations of the process before all of them.     *)
Past(run) ==
  /\ run.by.runner \in Runners /\ run.by.attempt \in Nat /\ run.position \in Nat
  /\ \/ run.by.attempt < attempt[run.by.runner]
     \/ /\ run.by.attempt = attempt[run.by.runner]
        /\ run.position < position[run.by.runner]

Whole(run) == run \in DOMAIN traces /\ traces[run] = "complete"

(* A record is of the past and has its whole trace; so has the run whose   *)
(* record is being written; and an invocation has a record for every       *)
(* condition before its present one.                                       *)
OnDisk ==
  /\ at \in [Runners -> Stopped \cup Working \cup {"check", "configure"}]
  /\ attempt \in [Runners -> Nat] /\ position \in [Runners -> Nat]
  /\ DOMAIN returned = Runners
  /\ \A record \in records : Past(record.run) /\ Whole(record.run)
  /\ \A r \in Runners :
       /\ at[r] \in {"record", "recording"} => Whole(Run(r))
       /\ at[r] = "recording" => returned[r].run = Run(r)
       /\ \A n \in 0..(position[r] - 1) :
            \E record \in records : record.run = [by |-> Invocation(r), position |-> n]
  /\ InterruptedLeavesPrefix

(* The run of a process at its present position is none of the past, and   *)
(* none of another process.                                                *)
LEMMA PresentIsNotPast ==
  ASSUME OnDisk, NEW r \in Runners
  PROVE  /\ ~Past(Run(r))
         /\ \A other \in Runners : Run(other) = Run(r) => other = r
  BY DEF OnDisk, Past, Run, Invocation

LEMMA OnDiskInit == Init => OnDisk
  BY DEF Init, OnDisk, InterruptedLeavesPrefix, Stopped

(* A step that leaves records and traces alone and the counters too.       *)
LEMMA QuietStep ==
  ASSUME OnDisk, NEW r \in Runners, UNCHANGED <<traces, records, attempt, position>>,
         at' \in [Runners -> Stopped \cup Working \cup {"check", "configure"}],
         \A other \in Runners \ {r} : at'[other] = at[other],
         at'[r] \notin {"record", "recording"}, UNCHANGED returned
  PROVE  OnDisk'
  BY DEF OnDisk, Past, Whole, Run, Invocation, InterruptedLeavesPrefix

LEMMA GoTyped ==
  ASSUME OnDisk, NEW r \in Runners,
         NEW next \in Stopped \cup Working \cup {"check", "configure"}, Go(r, next)
  PROVE  /\ at' \in [Runners -> Stopped \cup Working \cup {"check", "configure"}]
         /\ \A other \in Runners \ {r} : at'[other] = at[other]
         /\ at'[r] = next
  BY DEF OnDisk, Go

(* Writing a trace touches no run of the past.                             *)
LEMMA TraceStep ==
  ASSUME OnDisk, NEW r \in Runners, NEW state, Trace(r, state),
         UNCHANGED <<records, attempt, position, returned>>,
         NEW next \in {"tracing", "record"}, Go(r, next),
         next = "record" => state = "complete"
  PROVE  OnDisk'
<1>1. /\ DOMAIN traces' = DOMAIN traces \cup {Run(r)}
      /\ traces'[Run(r)] = state
      /\ \A run \in DOMAIN traces : run # Run(r) => traces'[run] = traces[run]
  BY DEF Trace
<1>2. /\ at' \in [Runners -> Stopped \cup Working \cup {"check", "configure"}]
      /\ \A other \in Runners \ {r} : at'[other] = at[other]
      /\ at'[r] = next
  BY GoTyped DEF Working
<1>3. \A other \in Runners : Run(other)' = Run(other) /\ Invocation(other)' = Invocation(other)
  BY DEF Run, Invocation
<1>4. \A run : Past(run)' <=> Past(run)
  BY DEF Past
<1>5. \A run : Whole(run) /\ run # Run(r) => Whole(run)'
  BY <1>1 DEF Whole
<1>6. \A record \in records' : Past(record.run)' /\ Whole(record.run)'
  BY <1>4, <1>5, PresentIsNotPast DEF OnDisk
<1>7. \A other \in Runners : at'[other] \in {"record", "recording"} => Whole(Run(other))'
  BY <1>1, <1>2, <1>3, <1>5, PresentIsNotPast DEF OnDisk, Whole
<1>8. InterruptedLeavesPrefix'
  <2>1. \A earlier \in 0..(Run(r).position - 1) :
          \E record \in records : record.run = [Run(r) EXCEPT !.position = earlier]
    BY DEF OnDisk, Run
  <2> QED
    BY <1>1, <2>1 DEF OnDisk, InterruptedLeavesPrefix
<1> QED
  BY <1>2, <1>3, <1>6, <1>7, <1>8 DEF OnDisk

(* A new invocation: what was present is past.                             *)
LEMMA InvokeStep ==
  ASSUME OnDisk, NEW r \in Runners, Invoke(r)
  PROVE  OnDisk'
<1>1. /\ UNCHANGED <<traces, records, returned>>
      /\ attempt' = [attempt EXCEPT ![r] = @ + 1] /\ position' = [position EXCEPT ![r] = 0]
  BY DEF Invoke, artifacts
<1>2. /\ at' \in [Runners -> Stopped \cup Working \cup {"check", "configure"}]
      /\ \A other \in Runners \ {r} : at'[other] = at[other]
      /\ at'[r] = "check"
  BY GoTyped DEF Invoke
<1>3. attempt' \in [Runners -> Nat] /\ position' \in [Runners -> Nat]
  BY <1>1 DEF OnDisk
<1>4. /\ attempt'[r] = attempt[r] + 1 /\ position'[r] = 0
      /\ \A other \in Runners \ {r} :
           attempt'[other] = attempt[other] /\ position'[other] = position[other]
  BY <1>1 DEF OnDisk
<1>5. \A run : Past(run) => Past(run)'
  BY <1>4 DEF OnDisk, Past
<1>6. \A other \in Runners \ {r} :
        Run(other)' = Run(other) /\ Invocation(other)' = Invocation(other)
  BY <1>4 DEF Run, Invocation
<1>7. \A run : Whole(run)' <=> Whole(run)
  BY <1>1 DEF Whole
<1>8. ASSUME NEW other \in Runners
      PROVE  /\ at'[other] \in {"record", "recording"} => Whole(Run(other))'
             /\ at'[other] = "recording" => returned'[other].run = Run(other)'
             /\ \A n \in 0..(position'[other] - 1) :
                  \E record \in records' :
                    record.run = [by |-> Invocation(other)', position |-> n]
  <2>1. CASE other = r
    BY <1>2, <1>4, <2>1
  <2>2. CASE other # r
    BY <1>1, <1>2, <1>4, <1>6, <1>7, <2>2 DEF OnDisk
  <2> QED
    BY <2>1, <2>2
<1>9. InterruptedLeavesPrefix'
  BY <1>1 DEF OnDisk, InterruptedLeavesPrefix
<1> QED
  BY <1>1, <1>2, <1>3, <1>5, <1>7, <1>8, <1>9 DEF OnDisk

LEMMA OpenRecordStep ==
  ASSUME OnDisk, NEW r \in Runners, OpenRecord(r)
  PROVE  OnDisk'
<1>1. /\ UNCHANGED <<traces, records, attempt, position>>
      /\ returned' = [returned EXCEPT ![r] = RunRecord(r)]
      /\ at[r] = "record"
  BY DEF OpenRecord
<1>2. /\ at' \in [Runners -> Stopped \cup Working \cup {"check", "configure"}]
      /\ \A other \in Runners \ {r} : at'[other] = at[other]
      /\ at'[r] = "recording"
  BY GoTyped DEF OpenRecord, Working
<1>3. /\ DOMAIN returned' = Runners /\ returned'[r].run = Run(r)
      /\ \A other \in Runners \ {r} : returned'[other] = returned[other]
  BY <1>1 DEF OnDisk, RunRecord
<1>4. \A other \in Runners : Run(other)' = Run(other) /\ Invocation(other)' = Invocation(other)
  BY <1>1 DEF Run, Invocation
<1>5. \A run : (Whole(run)' <=> Whole(run)) /\ (Past(run)' <=> Past(run))
  BY <1>1 DEF Whole, Past
<1>6. \A other \in Runners :
        /\ at'[other] \in {"record", "recording"} => Whole(Run(other))'
        /\ at'[other] = "recording" => returned'[other].run = Run(other)'
  BY <1>1, <1>2, <1>3, <1>4, <1>5 DEF OnDisk
<1>7. InterruptedLeavesPrefix'
  BY <1>1 DEF OnDisk, InterruptedLeavesPrefix
<1> QED
  BY <1>1, <1>2, <1>3, <1>4, <1>5, <1>6, <1>7 DEF OnDisk

LEMMA WriteRecordStep ==
  ASSUME OnDisk, NEW r \in Runners, WriteRecord(r)
  PROVE  OnDisk'
<1>1. /\ UNCHANGED <<traces, attempt, returned>>
      /\ records' = records \cup {returned[r]}
      /\ position' = [position EXCEPT ![r] = @ + 1]
      /\ at[r] = "recording"
  BY DEF WriteRecord, Recorded
<1>2. /\ at' \in [Runners -> Stopped \cup Working \cup {"check", "configure"}]
      /\ \A other \in Runners \ {r} : at'[other] = at[other]
      /\ at'[r] \in {"finished", "next"}
  BY GoTyped DEF WriteRecord, Working, Stopped
<1>3. /\ position' \in [Runners -> Nat] /\ position'[r] = position[r] + 1
      /\ \A other \in Runners \ {r} : position'[other] = position[other]
      /\ position[r] \in Nat /\ attempt[r] \in Nat
  BY <1>1 DEF OnDisk
<1>4. returned[r].run = Run(r) /\ Whole(Run(r))
  BY <1>1 DEF OnDisk
<1>5. \A run : Whole(run)' <=> Whole(run)
  BY <1>1 DEF Whole
<1>6. \A run : Past(run) => Past(run)'
  BY <1>1, <1>3 DEF Past, OnDisk
<1>7. \A run : run = Run(r) => Past(run)'
  <2>1. /\ Run(r).by.runner = r /\ Run(r).by.attempt = attempt[r]
        /\ Run(r).position = position[r]
    BY DEF Run, Invocation
  <2> QED
    BY <1>1, <1>3, <2>1 DEF Past
<1>8. \A record \in records' : Past(record.run)' /\ Whole(record.run)'
  BY <1>1, <1>4, <1>5, <1>6, <1>7 DEF OnDisk
<1>9. \A other \in Runners : Invocation(other)' = Invocation(other)
  BY <1>1 DEF Invocation
<1>10. \A other \in Runners \ {r} : Run(other)' = Run(other)
  BY <1>3, <1>9 DEF Run
<1>11. ASSUME NEW other \in Runners
       PROVE  /\ at'[other] \in {"record", "recording"} => Whole(Run(other))'
              /\ at'[other] = "recording" => returned'[other].run = Run(other)'
  <2>1. CASE other = r
    BY <1>2, <2>1
  <2>2. CASE other # r
    BY <1>1, <1>2, <1>5, <1>10, <2>2 DEF OnDisk
  <2> QED
    BY <2>1, <2>2
<1>12. ASSUME NEW other \in Runners, NEW n \in 0..(position'[other] - 1)
       PROVE  \E record \in records' : record.run = [by |-> Invocation(other)', position |-> n]
  <2>1. CASE n \in 0..(position[other] - 1)
    BY <1>1, <1>9, <2>1 DEF OnDisk
  <2>2. CASE n \notin 0..(position[other] - 1)
    <3>1. other = r /\ n = position[r]
      BY <1>3, <1>12, <2>2
    <3>2. returned[r].run = [by |-> Invocation(r)', position |-> n]
      BY <1>4, <1>9, <3>1 DEF Run
    <3> QED
      BY <1>1, <3>1, <3>2
  <2> QED
    BY <2>1, <2>2
<1>13. InterruptedLeavesPrefix'
  BY <1>1 DEF OnDisk, InterruptedLeavesPrefix
<1> QED
  BY <1>1, <1>2, <1>3, <1>8, <1>11, <1>12, <1>13 DEF OnDisk

LEMMA OnDiskNext == OnDisk /\ [Next]_vars => OnDisk'
<1> SUFFICES ASSUME OnDisk, [Next]_vars PROVE OnDisk'
  OBVIOUS
<1>1. ASSUME NEW r \in Runners, Invoke(r) PROVE OnDisk'
  BY <1>1, InvokeStep
<1>2. ASSUME NEW r \in Runners, BeginTrace(r) PROVE OnDisk'
  <2>1. Trace(r, "partial") /\ Go(r, "tracing")
        /\ UNCHANGED <<records, attempt, position, returned>>
    BY <1>2 DEF BeginTrace
  <2> QED BY <2>1, TraceStep
<1>3. ASSUME NEW r \in Runners, EndTrace(r) PROVE OnDisk'
  <2>1. Trace(r, "complete") /\ Go(r, "record")
        /\ UNCHANGED <<records, attempt, position, returned>>
    BY <1>3 DEF EndTrace
  <2> QED BY <2>1, TraceStep
<1>4. ASSUME NEW r \in Runners, OpenRecord(r) \/ WriteRecord(r) PROVE OnDisk'
  BY <1>4, OpenRecordStep, WriteRecordStep
<1>5. ASSUME NEW r \in Runners,
             \/ Check(r) \/ Configure(r) \/ NextCondition(r) \/ OpenWorkspace(r)
             \/ RunAgent(r) \/ AgentRaises(r) \/ Evaluate(r) \/ Raise(r) \/ Kill(r)
      PROVE  OnDisk'
  <2>1. UNCHANGED <<traces, records, attempt, position, returned>>
    BY <1>5 DEF Check, Configure, NextCondition, OpenWorkspace, RunAgent, AgentRaises,
                Evaluate, Raise, Kill, artifacts
  <2>2. PICK next \in {"configure", "refused", "next", "clone", "agent", "evaluate",
                       "trace", "raised", "killed"} : Go(r, next)
    BY <1>5 DEF Check, Configure, NextCondition, OpenWorkspace, RunAgent, AgentRaises,
                Evaluate, Raise, Kill, Unwind
  <2>3. next \in Stopped \cup Working \cup {"check", "configure"}
        /\ next \notin {"record", "recording"}
    BY DEF Stopped, Working
  <2> QED
    BY <2>1, <2>2, <2>3, GoTyped, QuietStep
<1>6. CASE Straggle \/ UNCHANGED vars
  BY <1>6, StraggleChanges DEF AllButClones, artifacts, OnDisk, Past, Whole, Run,
              Invocation, InterruptedLeavesPrefix
<1> QED
  BY <1>1, <1>2, <1>3, <1>4, <1>5, <1>6 DEF Next, Progress, Terminated

THEOREM OnDiskInvariant == Spec => []OnDisk
  BY OnDiskInit, OnDiskNext, PTL DEF Spec

(* However often processes with one id are killed, raise or race, a record *)
(* is only ever there with the whole trace it points to.                   *)
THEOREM RecordsAreReadable == Spec => []RecordsHaveTraces
<1>1. OnDisk => RecordsHaveTraces
  BY DEF OnDisk, Whole, RecordsHaveTraces
<1> QED
  BY <1>1, OnDiskInvariant, PTL

(* Wherever an invocation stops, everything it did before has its record.  *)
THEOREM PrefixIsRecorded == Spec => []InterruptedLeavesPrefix
<1>1. OnDisk => InterruptedLeavesPrefix
  BY DEF OnDisk
<1> QED
  BY <1>1, OnDiskInvariant, PTL

----------------------------------------------------------------------------
(* Which places a clone is open at, and what it holds there.               *)
Open == {"agent", "evaluate", "trace", "tracing", "record"}

(* A clone of the task, in which the run wrote and no other.               *)
OfRun(content, task, run) ==
  /\ content = [task |-> task, writers |-> content.writers]
  /\ content.writers \subseteq {run}

Clean(r) ==
  /\ at[r] \in Stopped \cup Working \cup {"check", "configure"}
  /\ at[r] \notin Open \cup {"killed"} => workspace[r] = None
  /\ at[r] \in {"check", "configure", "refused", "finished", "raised"} => prepared[r] = {}
  /\ at[r] \in Open => OfRun(workspace[r], TaskAt(position[r]), Run(r))
  /\ at[r] \in {"trace", "tracing", "record"} =>
       OfRun(official[r], TaskAt(position[r]), Run(r))
  /\ at[r] = "recording" =>
       /\ OfRun(returned[r].official, returned[r].task, returned[r].run)
       /\ OfRun(returned[r].patch, returned[r].task, returned[r].run)

Grading ==
  /\ DOMAIN at = Runners /\ DOMAIN workspace = Runners /\ DOMAIN prepared = Runners
  /\ DOMAIN official = Runners /\ DOMAIN returned = Runners /\ DOMAIN position = Runners
  /\ DOMAIN attempt = Runners
  /\ \A r \in Runners : Clean(r)
  /\ ResultIsOfTheRun

LEMMA GradingInit == Init => Grading
  BY DEF Init, Grading, Clean, Open, Stopped, ResultIsOfTheRun

(* Writing in a clone of the run keeps it of the run.                      *)
LEMMA WrittenByItsRun ==
  ASSUME NEW content, NEW task, NEW run, OfRun(content, task, run)
  PROVE  OfRun(Written(content, run), task, run)
<1>1. PICK writers : /\ content = [task |-> task, writers |-> writers]
                     /\ writers \subseteq {run}
  BY DEF OfRun
<1>2. Written(content, run) = [task |-> task, writers |-> writers \cup {run}]
  BY <1>1 DEF Written
<1> QED
  BY <1>1, <1>2 DEF OfRun

(* And a clone it writes in is the one of its own run.                     *)
LEMMA StraggleKeepsClones ==
  ASSUME DOMAIN workspace = Runners, Straggle
  PROVE  /\ DOMAIN workspace' = Runners
         /\ \A r \in Runners :
              \/ workspace'[r] = workspace[r]
              \/ workspace[r] # None /\ workspace'[r] = Written(workspace[r], Run(r))
<1>1. CASE \E s \in Runners : CommandOutlived(s)
  BY <1>1 DEF CommandOutlived, local
<1>2. ASSUME NEW s \in Runners, NEW run \in stragglers, StragglerWrites(run, s)
      PROVE  /\ DOMAIN workspace' = Runners
             /\ \A r \in Runners :
                  \/ workspace'[r] = workspace[r]
                  \/ workspace[r] # None /\ workspace'[r] = Written(workspace[r], Run(r))
  BY <1>2 DEF StragglerWrites, Directory
<1> QED
  BY <1>1, <1>2 DEF Straggle

(* A step of one process leaves what another holds alone.                  *)
LEMMA OthersClean ==
  ASSUME Grading, NEW r \in Runners, NEW other \in Runners \ {r},
         Progress(r) \/ Invoke(r) \/ Kill(r)
  PROVE  Clean(other)'
<1>1. /\ at'[other] = at[other] /\ workspace'[other] = workspace[other]
      /\ prepared'[other] = prepared[other] /\ official'[other] = official[other]
      /\ returned'[other] = returned[other] /\ position'[other] = position[other]
      /\ attempt'[other] = attempt[other]
  BY DEF Grading, Progress, Invoke, Check, Configure, NextCondition, OpenWorkspace,
         RunAgent, AgentRaises, Evaluate, BeginTrace, EndTrace, OpenRecord,
         WriteRecord, Raise, Kill, Go, Unwind
<1>2. TaskAt(position[other])' = TaskAt(position[other]) /\ Run(other)' = Run(other)
  BY <1>1 DEF TaskAt, Run, Invocation
<1> QED
  BY <1>1, <1>2 DEF Grading, Clean, OfRun

LEMMA GradingNext == Grading /\ [Next]_vars => Grading'
<1> SUFFICES ASSUME Grading, [Next]_vars PROVE Grading'
  OBVIOUS
<1>a. ASSUME NEW r \in Runners, Progress(r) \/ Invoke(r) \/ Kill(r)
      PROVE  /\ DOMAIN at' = Runners /\ DOMAIN workspace' = Runners
             /\ DOMAIN prepared' = Runners /\ DOMAIN official' = Runners
             /\ DOMAIN returned' = Runners /\ DOMAIN position' = Runners
             /\ DOMAIN attempt' = Runners
  BY <1>a, SMTT(30)
     DEF Grading, Progress, Invoke, Check, Configure, NextCondition, OpenWorkspace,
         RunAgent, AgentRaises, Evaluate, BeginTrace, EndTrace, OpenRecord,
         WriteRecord, Raise, Kill, Go, Unwind
<1>b. ASSUME NEW r \in Runners, Progress(r) \/ Invoke(r) \/ Kill(r), Clean(r)',
             ResultIsOfTheRun'
      PROVE  Grading'
  BY <1>a, <1>b, OthersClean DEF Grading
<1>c. ASSUME UNCHANGED records PROVE ResultIsOfTheRun'
  BY <1>c DEF Grading, ResultIsOfTheRun
<1>1. ASSUME NEW r \in Runners, Invoke(r) PROVE Grading'
  BY <1>1, <1>b, <1>c DEF Invoke, Go, artifacts, Grading, Clean, Open
<1>d. ASSUME NEW r \in Runners, UNCHANGED <<position, attempt>>
      PROVE  TaskAt(position[r])' = TaskAt(position[r]) /\ Run(r)' = Run(r)
  BY <1>d DEF TaskAt, Run, Invocation
<1>2. ASSUME NEW r \in Runners, Check(r) \/ Configure(r) PROVE Grading'
  <2>1. /\ at'[r] \in {"refused", "configure", "next"}
        /\ UNCHANGED <<workspace, prepared, records>>
        /\ at[r] \in {"check", "configure"}
        /\ at[r] = "configure" => at'[r] = "next"
    BY <1>2 DEF Check, Configure, Go, artifacts, Grading
  <2>2. Clean(r)'
    BY <2>1 DEF Grading, Clean, Open, Stopped, Working
  <2> QED BY <1>2, <1>b, <1>c, <2>1, <2>2 DEF Progress
<1>3. ASSUME NEW r \in Runners, NextCondition(r) PROVE Grading'
  <2>1. /\ at[r] = "next" /\ at'[r] \in {"raised", "clone"}
        /\ at'[r] = "raised" => prepared'[r] = {}
        /\ UNCHANGED <<workspace, records>>
    BY <1>3 DEF NextCondition, Go, artifacts, Grading
  <2>2. Clean(r)'
    BY <2>1 DEF Grading, Clean, Open, Stopped, Working
  <2> QED BY <1>3, <1>b, <1>c, <2>1, <2>2 DEF Progress
<1>4. ASSUME NEW r \in Runners, OpenWorkspace(r) PROVE Grading'
  <2>1. /\ at'[r] = "agent" /\ workspace'[r] = Baseline(r)
        /\ UNCHANGED <<position, attempt, records>>
    BY <1>4 DEF OpenWorkspace, Go, artifacts, Grading
  <2>2. Baseline(r) = [task |-> TaskAt(position[r]), writers |-> {}]
    BY DEF Baseline
  <2>3. OfRun(workspace'[r], TaskAt(position[r]), Run(r))
    BY <2>1, <2>2 DEF OfRun
  <2>4. Clean(r)'
    BY <1>d, <2>1, <2>3 DEF Clean, Open, Stopped, Working, OfRun
  <2> QED BY <1>4, <1>b, <1>c, <2>1, <2>4 DEF Progress
<1>e. ASSUME NEW r \in Runners, RunAgent(r) PROVE Grading'
  <2>1. workspace'[r] = Written(workspace[r], Run(r))
    BY <1>e DEF RunAgent, Grading
  <2>2. /\ at[r] = "agent" /\ at'[r] = "evaluate"
        /\ UNCHANGED <<position, attempt, records>>
    BY <1>e DEF RunAgent, Go, artifacts, Grading
  <2>3. OfRun(workspace'[r], TaskAt(position[r]), Run(r))
    BY <2>1, <2>2, WrittenByItsRun DEF Grading, Clean, Open
  <2>4. Clean(r)'
    BY <1>d, <2>2, <2>3 DEF Clean, Open, Stopped, Working, OfRun
  <2> QED BY <1>e, <1>b, <1>c, <2>2, <2>4 DEF Progress
<1>f. ASSUME NEW r \in Runners, AgentRaises(r) \/ Raise(r) PROVE Grading'
  <2>1. /\ at'[r] = "raised" /\ workspace'[r] = None /\ prepared'[r] = {}
        /\ UNCHANGED records
    BY <1>f DEF AgentRaises, Raise, Unwind, Go, artifacts, Grading
  <2>2. Clean(r)'
    BY <2>1 DEF Clean, Open, Stopped, Working
  <2> QED BY <1>f, <1>b, <1>c, <2>1, <2>2 DEF Progress
<1>5. ASSUME NEW r \in Runners, Evaluate(r) PROVE Grading'
  <2>1. /\ workspace'[r] = Written(workspace[r], Run(r)) /\ official'[r] = workspace'[r]
        /\ at[r] = "evaluate" /\ at'[r] = "trace"
        /\ UNCHANGED <<position, attempt, records>>
    BY <1>5 DEF Evaluate, Go, artifacts, Grading
  <2>2. OfRun(workspace'[r], TaskAt(position[r]), Run(r))
    BY <2>1, WrittenByItsRun DEF Grading, Clean, Open
  <2>3. OfRun(official'[r], TaskAt(position[r]), Run(r))
    BY <2>1, <2>2
  <2>4. Clean(r)'
    BY <1>d, <2>1, <2>2, <2>3 DEF Clean, Open, Stopped, Working, OfRun
  <2> QED BY <1>5, <1>b, <1>c, <2>1, <2>4 DEF Progress
<1>6. ASSUME NEW r \in Runners, BeginTrace(r) \/ EndTrace(r) PROVE Grading'
  <2>1. /\ at[r] \in {"trace", "tracing"} /\ at'[r] \in {"tracing", "record"}
        /\ UNCHANGED <<position, attempt, records, workspace, official>>
    BY <1>6 DEF BeginTrace, EndTrace, Go, Grading
  <2>2. Clean(r)'
    BY <1>d, <2>1 DEF Grading, Clean, Open, Stopped, Working, OfRun
  <2> QED BY <1>6, <1>b, <1>c, <2>1, <2>2 DEF Progress
<1>7. ASSUME NEW r \in Runners, OpenRecord(r) PROVE Grading'
  <2>1. /\ at[r] = "record" /\ at'[r] = "recording" /\ workspace'[r] = None
        /\ returned'[r] = RunRecord(r) /\ UNCHANGED <<position, records>>
    BY <1>7 DEF OpenRecord, Go, Grading
  <2>2. /\ RunRecord(r).official = official[r] /\ RunRecord(r).patch = workspace[r]
        /\ RunRecord(r).task = TaskAt(position[r]) /\ RunRecord(r).run = Run(r)
    BY DEF RunRecord
  <2>3. /\ OfRun(workspace[r], TaskAt(position[r]), Run(r))
        /\ OfRun(official[r], TaskAt(position[r]), Run(r))
    BY <2>1 DEF Grading, Clean, Open
  <2>4. /\ OfRun(returned'[r].official, returned'[r].task, returned'[r].run)
        /\ OfRun(returned'[r].patch, returned'[r].task, returned'[r].run)
    BY <2>1, <2>2, <2>3
  <2>5. Clean(r)'
    BY <2>1, <2>4 DEF Clean, Open, Stopped, Working, OfRun
  <2> QED BY <1>7, <1>b, <1>c, <2>1, <2>5 DEF Progress
<1>8. ASSUME NEW r \in Runners, WriteRecord(r) PROVE Grading'
  <2>1. /\ at[r] = "recording" /\ at'[r] \in {"finished", "next"}
        /\ at'[r] = "finished" => prepared'[r] = {}
        /\ UNCHANGED workspace /\ records' = records \cup {returned[r]}
    BY <1>8 DEF WriteRecord, Recorded, Go, Grading
  <2>2. Clean(r)'
    BY <2>1 DEF Grading, Clean, Open, Stopped, Working
  <2>3. /\ OfRun(returned[r].official, returned[r].task, returned[r].run)
        /\ OfRun(returned[r].patch, returned[r].task, returned[r].run)
    BY <2>1 DEF Grading, Clean
  <2>4. \A content \in {returned[r].official, returned[r].patch} :
          content.task = returned[r].task /\ content.writers \subseteq {returned[r].run}
    BY <2>3 DEF OfRun
  <2>5. ResultIsOfTheRun'
    BY <2>1, <2>4 DEF Grading, ResultIsOfTheRun
  <2> QED BY <1>8, <1>b, <2>2, <2>5 DEF Progress
<1>9. ASSUME NEW r \in Runners, Kill(r) PROVE Grading'
  BY <1>9, <1>b, <1>c DEF Kill, Go, artifacts, Grading, Clean, Open, Working, Stopped
<1>10. CASE Straggle
  <2>1. UNCHANGED <<at, attempt, position, prepared, returned, official, records>>
    BY <1>10, StraggleChanges DEF AllButClones, artifacts
  <2>2. ASSUME NEW r \in Runners PROVE Clean(r)'
    <3>1. \/ workspace'[r] = workspace[r]
          \/ workspace[r] # None /\ workspace'[r] = Written(workspace[r], Run(r))
      BY <1>10, StraggleKeepsClones DEF Grading
    <3>2. at[r] \in Open => OfRun(workspace'[r], TaskAt(position[r]), Run(r))
      BY <3>1, WrittenByItsRun DEF Grading, Clean
    <3>3. at[r] \notin Open \cup {"killed"} => workspace'[r] = None
      BY <3>1 DEF Grading, Clean
    <3> QED
      BY <1>d, <2>1, <3>2, <3>3 DEF Grading, Clean, OfRun
  <2>3. DOMAIN workspace' = Runners
    BY <1>10, StraggleKeepsClones DEF Grading
  <2> QED
    BY <1>c, <2>1, <2>2, <2>3 DEF Grading
<1>11. CASE UNCHANGED vars
  BY <1>11, <1>c, <1>d DEF vars, artifacts, local, Grading, Clean, OfRun
<1> QED
  BY <1>1, <1>2, <1>3, <1>4, <1>e, <1>f, <1>5, <1>6, <1>7, <1>8, <1>9, <1>10, <1>11
  DEF Next, Progress, Terminated

THEOREM GradingInvariant == Spec => []Grading
  BY GradingInit, GradingNext, PTL DEF Spec

(* An agent starts on a clone of its own task that no other run wrote in,  *)
(* and a process that was not killed leaves neither clone nor baseline.    *)
THEOREM StartsAreClean == Spec => []CleanStart
<1>1. ASSUME Grading, NEW r \in Runners
      PROVE  /\ at[r] = "agent" => OfRun(workspace[r], TaskAt(position[r]), Run(r))
             /\ at[r] \in {"refused", "finished", "raised"} =>
                  workspace[r] = None /\ prepared[r] = {}
  BY <1>1 DEF Grading, Clean, Open
<1>2. Grading => CleanStart
  <2> SUFFICES ASSUME Grading PROVE CleanStart
    OBVIOUS
  <2>1. ASSUME NEW content, NEW task, NEW run, OfRun(content, task, run)
        PROVE  content.task = task /\ content.writers \subseteq {run}
    BY <2>1 DEF OfRun
  <2> QED
    BY <1>1, <2>1 DEF CleanStart
<1> QED
  BY <1>2, GradingInvariant, PTL

(* However many processes outlive their runs and go on writing, what a     *)
(* record shows was graded, and its patch taken, where no other run wrote. *)
THEOREM ResultsAreOfTheRun == Spec => []ResultIsOfTheRun
<1>1. Grading => ResultIsOfTheRun
  BY DEF Grading
<1> QED
  BY <1>1, GradingInvariant, PTL

----------------------------------------------------------------------------
(* The matrix: every position before the last is a condition of a task.    *)
LEMMA MatrixSizes ==
  /\ Len(TaskIds) \in Nat \ {0} /\ Len(Budgets) \in Nat \ {0} /\ Len(Policies) \in Nat \ {0}
  /\ DOMAIN TaskIds = 1..Len(TaskIds) /\ DOMAIN Budgets = 1..Len(Budgets)
  /\ DOMAIN Policies = 1..Len(Policies)
  /\ PerTrial \in Nat \ {0} /\ PerTask \in Nat \ {0} /\ Total \in Nat \ {0}
<1>1. ASSUME NEW list \in {TaskIds, Budgets, Policies}
      PROVE  Len(list) \in Nat \ {0} /\ DOMAIN list = 1..Len(list)
  <2>1. list \in Seq({list[i] : i \in DOMAIN list}) /\ list # <<>>
    BY ExperimentAssumption
  <2> QED BY <2>1
<1>2. \A m, n \in Nat \ {0} : m * n \in Nat \ {0}
  OBVIOUS
<1>3. /\ Len(TaskIds) \in Nat \ {0} /\ Len(Budgets) \in Nat \ {0} /\ Len(Policies) \in Nat \ {0}
      /\ DOMAIN TaskIds = 1..Len(TaskIds) /\ DOMAIN Budgets = 1..Len(Budgets)
      /\ DOMAIN Policies = 1..Len(Policies)
  BY <1>1
<1>4. PerTrial \in Nat \ {0}
  BY <1>2, <1>3 DEF PerTrial
<1>5. PerTask \in Nat \ {0}
  BY <1>2, <1>4, ExperimentAssumption DEF PerTask
<1>6. Total \in Nat \ {0}
  BY <1>2, <1>3, <1>5 DEF Total
<1> QED
  BY <1>3, <1>4, <1>5, <1>6

LEMMA QuotientBelow ==
  ASSUME NEW m \in Nat, NEW n \in Nat \ {0}, NEW k \in 0..(m * n - 1)
  PROVE  k \div n \in 0..(m - 1)
<1>1. k = n * (k \div n) + (k % n) /\ k % n \in 0..(n - 1) /\ k \div n \in Int
  OBVIOUS
<1>2. k \div n >= 0
  OBVIOUS
<1>3. k \div n < m
  <2> DEFINE q == k \div n
  <2>1. SUFFICES ASSUME q >= m PROVE FALSE
    BY <1>1
  <2>2. q \in Int /\ n * q <= k /\ k < m * n
    BY <1>1
  <2> HIDE DEF q
  <2>3. n * q >= n * m
    BY <2>1, <2>2
  <2> QED BY <2>2, <2>3
<1> QED
  BY <1>1, <1>2, <1>3

LEMMA TaskOfPosition ==
  ASSUME NEW n \in 0..(Total - 1)
  PROVE  TaskAt(n) \in {TaskIds[i] : i \in DOMAIN TaskIds}
<1>1. n \div PerTask \in 0..(Len(TaskIds) - 1)
  BY MatrixSizes, QuotientBelow DEF Total
<1> QED
  BY <1>1, MatrixSizes DEF TaskAt

(* Behind the type invariant: an invocation that is under way was counted, *)
(* and starts at the first condition.                                      *)
Invocations == [runner : Runners, attempt : 1..MaxAttempts]
Outcomes == [end : {"none", "completed", "failed", "raised"}, tool_calls : ToolCalls \cup {0}]

Started(r) ==
  /\ at[r] \notin Stopped => attempt[r] >= 1
  /\ at[r] \in {"check", "configure"} => position[r] = 0
  /\ at[r] \in Working => position[r] < Total
  /\ prepared[r] \subseteq {TaskIds[i] : i \in DOMAIN TaskIds}
  /\ outcome[r] \in Outcomes

FilesTyped ==
  /\ config \in {None} \cup Invocations
  /\ \A run \in DOMAIN traces :
       run.by \in Invocations /\ run.position \in 0..(Total - 1)
         /\ traces[run] \in {"partial", "complete"}
  /\ torn \subseteq DOMAIN traces

Typed ==
  /\ order \in Orders
  /\ at \in [Runners -> Stopped \cup Working \cup {"check", "configure"}]
  /\ attempt \in [Runners -> 0..MaxAttempts]
  /\ position \in [Runners -> 0..Total]
  /\ DOMAIN prepared = Runners /\ DOMAIN outcome = Runners
  /\ \A r \in Runners : Started(r)
  /\ FilesTyped

LEMMA TypedInit == Init => Typed
<1> SUFFICES ASSUME Init PROVE Typed
  OBVIOUS
<1>1. /\ at = [r \in Runners |-> "idle"] /\ attempt = [r \in Runners |-> 0]
      /\ position = [r \in Runners |-> 0] /\ prepared = [r \in Runners |-> {}]
      /\ outcome = [r \in Runners |-> NotRun] /\ torn = {} /\ order \in Orders
      /\ config = None /\ DOMAIN traces = {}
  BY DEF Init
<1>2. NotRun \in Outcomes
  BY DEF NotRun, Outcomes
<1>3. \A r \in Runners : Started(r)
  BY <1>1, <1>2 DEF Started, Stopped, Working
<1> QED
  BY <1>1, <1>3, MatrixSizes, ExperimentAssumption DEF Typed, FilesTyped, Stopped

(* A step of one process leaves what another has done alone.               *)
LEMMA OthersStarted ==
  ASSUME Typed, NEW r \in Runners, NEW other \in Runners \ {r},
         Progress(r) \/ Invoke(r) \/ Kill(r)
  PROVE  Started(other)'
<1>1. /\ at'[other] = at[other] /\ attempt'[other] = attempt[other]
      /\ position'[other] = position[other] /\ prepared'[other] = prepared[other]
      /\ outcome'[other] = outcome[other]
  BY DEF Typed, Progress, Invoke, Check, Configure, NextCondition, OpenWorkspace,
         RunAgent, AgentRaises, Evaluate, BeginTrace, EndTrace, OpenRecord,
         WriteRecord, Raise, Kill, Go, Unwind
<1> QED
  BY <1>1 DEF Typed, Started

(* So it is enough that the process itself goes to a place it may be at.   *)
LEMMA StartedEnough ==
  ASSUME Typed, NEW r \in Runners, Progress(r) \/ Invoke(r) \/ Kill(r),
         NEW next \in Stopped \cup Working \cup {"check", "configure"}, Go(r, next),
         Started(r)', attempt'[r] \in 0..MaxAttempts, position'[r] \in 0..Total,
         FilesTyped'
  PROVE  Typed'
<1>1. /\ DOMAIN prepared' = Runners /\ DOMAIN outcome' = Runners /\ order' = order
      /\ attempt' \in [Runners -> 0..MaxAttempts] /\ position' \in [Runners -> 0..Total]
  BY DEF Typed, Progress, Invoke, Check, Configure, NextCondition, OpenWorkspace,
         RunAgent, AgentRaises, Evaluate, BeginTrace, EndTrace, OpenRecord,
         WriteRecord, Raise, Kill, Go, Unwind
<1>2. at' \in [Runners -> Stopped \cup Working \cup {"check", "configure"}]
  BY DEF Typed, Go
<1>3. \A other \in Runners : Started(other)'
  BY OthersStarted
<1> QED
  BY <1>1, <1>2, <1>3 DEF Typed

LEMMA TypedNext == Typed /\ OnDisk /\ [Next]_vars => Typed'
<1> SUFFICES ASSUME Typed, OnDisk, [Next]_vars PROVE Typed'
  OBVIOUS
<1>w. ASSUME NEW r \in Runners, at[r] \in Working
      PROVE  attempt[r] \in 1..MaxAttempts /\ position[r] \in 0..(Total - 1)
  <2>1. at[r] \notin Stopped
    BY <1>w DEF Working, Stopped
  <2>2. attempt[r] >= 1 /\ position[r] < Total
    BY <1>w, <2>1 DEF Typed, Started
  <2>3. attempt[r] \in 0..MaxAttempts /\ position[r] \in 0..Total
    BY DEF Typed
  <2>4. MaxAttempts \in Nat /\ Total \in Nat
    BY ExperimentAssumption, MatrixSizes
  <2> QED
    BY <2>2, <2>3, <2>4
<1>a. ASSUME UNCHANGED <<traces, config, torn>> PROVE FilesTyped'
  BY <1>a DEF Typed, FilesTyped
<1>b. ASSUME NEW r \in Runners, at[r] \in Working
      PROVE  Run(r).by \in Invocations /\ Run(r).position \in 0..(Total - 1)
  BY <1>b, <1>w DEF Run, Invocation, Invocations
<1>1. ASSUME NEW r \in Runners, Invoke(r) PROVE Typed'
  <2>1. /\ attempt'[r] = attempt[r] + 1 /\ attempt[r] < MaxAttempts /\ position'[r] = 0
        /\ prepared'[r] = {} /\ outcome'[r] = NotRun /\ Go(r, "check")
        /\ UNCHANGED <<traces, config, torn>>
    BY <1>1 DEF Invoke, Typed, artifacts
  <2>2. NotRun \in Outcomes
    BY DEF NotRun, Outcomes
  <2>3. attempt[r] \in Nat /\ attempt'[r] \in 1..MaxAttempts /\ at'[r] = "check"
    BY <2>1, ExperimentAssumption DEF Typed, Go
  <2>4. Started(r)'
    BY <2>1, <2>2, <2>3 DEF Started, Working, Outcomes
  <2> QED
    BY <1>1, <1>a, <2>1, <2>3, <2>4, StartedEnough, MatrixSizes
<1>2. ASSUME NEW r \in Runners, Check(r) \/ Raise(r) \/ Kill(r) PROVE Typed'
  <2>1. PICK next \in {"configure", "refused", "raised", "killed"} : Go(r, next)
    BY <1>2 DEF Check, Raise, Kill, Unwind
  <2>2. /\ UNCHANGED <<attempt, position, outcome, traces, config, torn>>
        /\ prepared'[r] \subseteq prepared[r] /\ at'[r] = next
        /\ next = "configure" => at[r] = "check"
    BY <1>2, <2>1 DEF Check, Raise, Kill, Unwind, Go, Typed, artifacts
  <2>3. next \in Stopped \cup {"configure"}
    BY DEF Stopped
  <2>4. Started(r)'
    BY <2>2, <2>3 DEF Typed, Started, Working, Stopped
  <2> QED
    BY <1>2, <1>a, <2>1, <2>2, <2>3, <2>4, StartedEnough DEF Typed, Progress
<1>3. ASSUME NEW r \in Runners, Configure(r) PROVE Typed'
  <2>1. /\ at[r] = "configure" /\ Go(r, "next") /\ at'[r] = "next"
        /\ config' = Invocation(r)
        /\ UNCHANGED <<attempt, position, prepared, outcome, traces, torn>>
    BY <1>3 DEF Configure, Go, Typed
  <2>2. attempt[r] \in 1..MaxAttempts /\ position[r] = 0
    BY <2>1 DEF Typed, Started, Stopped
  <2>3. FilesTyped'
    BY <2>1, <2>2 DEF Typed, FilesTyped, Invocation, Invocations
  <2>4. Started(r)'
    BY <2>1, <2>2, MatrixSizes DEF Typed, Started
  <2> QED
    BY <1>3, <2>1, <2>3, <2>4, StartedEnough DEF Typed, Progress, Working
<1>4. ASSUME NEW r \in Runners, NextCondition(r) PROVE Typed'
  <2>1. PICK next \in {"raised", "clone"} : Go(r, next)
    BY <1>4 DEF NextCondition
  <2>2. /\ at[r] = "next" /\ at'[r] = next
        /\ UNCHANGED <<attempt, position, outcome, traces, config, torn>>
        /\ prepared'[r] \subseteq prepared[r] \cup {TaskAt(position[r])}
    BY <1>4, <2>1 DEF NextCondition, Go, Typed, artifacts
  <2>3. position[r] \in 0..(Total - 1) /\ attempt[r] >= 1
    BY <1>w, <2>2 DEF Working
  <2>4. Started(r)'
    BY <2>2, <2>3, TaskOfPosition DEF Typed, Started, Working
  <2>5. next \in Stopped \cup Working
    BY DEF Stopped, Working
  <2> QED
    BY <1>4, <1>a, <2>1, <2>2, <2>4, <2>5, StartedEnough DEF Typed, Progress
<1>5. ASSUME NEW r \in Runners,
             OpenWorkspace(r) \/ RunAgent(r) \/ AgentRaises(r) \/ Evaluate(r) \/ OpenRecord(r)
      PROVE  Typed'
  <2>1. PICK next \in {"agent", "evaluate", "raised", "trace", "recording"} : Go(r, next)
    BY <1>5 DEF OpenWorkspace, RunAgent, AgentRaises, Evaluate, OpenRecord, Unwind
  <2>2. /\ at[r] \in Working /\ at'[r] = next
        /\ UNCHANGED <<attempt, position, traces, config>>
        /\ prepared'[r] \subseteq prepared[r]
    BY <1>5, <2>1 DEF OpenWorkspace, RunAgent, AgentRaises, Evaluate, OpenRecord, Unwind,
                      Go, Typed, artifacts, Working
  <2>3. next \in Stopped \cup Working
    BY DEF Stopped, Working
  <2>4. outcome'[r] \in Outcomes
    <3>1. CASE OpenWorkspace(r)
      BY <3>1 DEF OpenWorkspace, Typed, NotRun, Outcomes
    <3>2. CASE RunAgent(r)
      BY <3>2 DEF RunAgent, Typed, Outcomes
    <3>3. CASE AgentRaises(r)
      <4>1. outcome'[r] = [outcome[r] EXCEPT !.end = "raised"] /\ outcome[r] \in Outcomes
        BY <3>3 DEF AgentRaises, Typed, Started
      <4> QED
        BY <4>1 DEF Outcomes
    <3>4. CASE Evaluate(r) \/ OpenRecord(r)
      BY <3>4 DEF Evaluate, OpenRecord, Typed, Started
    <3> QED
      BY <1>5, <3>1, <3>2, <3>3, <3>4
  <2>5. Started(r)'
    BY <2>2, <2>3, <2>4 DEF Typed, Started, Working, Stopped
  <2>6. torn' \subseteq DOMAIN traces
    <3>1. CASE OpenRecord(r)
      BY <3>1 DEF OpenRecord, OnDisk, Whole, Typed, FilesTyped
    <3>2. CASE ~OpenRecord(r)
      BY <1>5, <3>2 DEF OpenWorkspace, RunAgent, AgentRaises, Evaluate, artifacts, Typed,
                        FilesTyped
    <3> QED
      BY <3>1, <3>2
  <2>7. FilesTyped'
    BY <2>2, <2>6 DEF Typed, FilesTyped
  <2> QED
    BY <1>5, <2>1, <2>2, <2>3, <2>5, <2>7, StartedEnough DEF Typed, Progress
<1>6. ASSUME NEW r \in Runners, BeginTrace(r) \/ EndTrace(r) PROVE Typed'
  <2>1. PICK next \in {"tracing", "record"}, state \in {"partial", "complete"} :
          Go(r, next) /\ Trace(r, state)
    BY <1>6 DEF BeginTrace, EndTrace
  <2>2. /\ at[r] \in Working /\ at'[r] = next
        /\ UNCHANGED <<attempt, position, prepared, outcome, config, torn>>
    BY <1>6, <2>1 DEF BeginTrace, EndTrace, Go, Typed, Working
  <2>3. /\ DOMAIN traces' = DOMAIN traces \cup {Run(r)}
        /\ \A run \in DOMAIN traces' :
             traces'[run] = IF run = Run(r) THEN state ELSE traces[run]
    BY <2>1 DEF Trace
  <2>4. FilesTyped'
    BY <1>b, <2>1, <2>2, <2>3 DEF Typed, FilesTyped
  <2>5. Started(r)'
    BY <2>2 DEF Typed, Started, Working, Stopped
  <2> QED
    BY <1>6, <2>1, <2>2, <2>4, <2>5, StartedEnough DEF Typed, Progress, Working
<1>7. ASSUME NEW r \in Runners, WriteRecord(r) PROVE Typed'
  <2>1. PICK next \in {"finished", "next"} : Go(r, next)
    BY <1>7 DEF WriteRecord
  <2>2. /\ at[r] = "recording" /\ at'[r] = next /\ position'[r] = position[r] + 1
        /\ next = "next" => position[r] + 1 # Total
        /\ UNCHANGED <<attempt, outcome, config, traces>>
        /\ prepared'[r] \subseteq prepared[r] /\ torn' \subseteq torn
    BY <1>7, <2>1 DEF WriteRecord, LastCondition, Go, Typed
  <2>3. position[r] \in 0..(Total - 1) /\ attempt[r] >= 1
    BY <1>w, <2>2 DEF Working
  <2>a. next = "next" => position[r] + 1 < Total
    BY <2>2, <2>3, MatrixSizes
  <2>4. Started(r)'
    BY <2>2, <2>3, <2>a DEF Typed, Started, Working
  <2>5. FilesTyped'
    BY <2>2 DEF Typed, FilesTyped
  <2>6. next \in Stopped \cup Working /\ position'[r] \in 0..Total
    BY <2>2, <2>3, MatrixSizes DEF Stopped, Working
  <2> QED
    BY <1>7, <2>1, <2>2, <2>4, <2>5, <2>6, StartedEnough DEF Typed, Progress
<1>8. CASE Straggle \/ UNCHANGED vars
  BY <1>8, StraggleChanges DEF AllButClones, artifacts, Typed, FilesTyped, Started
<1> QED
  BY <1>1, <1>2, <1>3, <1>4, <1>5, <1>6, <1>7, <1>8 DEF Next, Progress, Terminated

THEOREM TypedInvariant == Spec => []Typed
  BY TypedInit, TypedNext, OnDiskInvariant, PTL DEF Spec

(* Type correctness: no process is ever past its matrix, and nothing is on *)
(* disk for an invocation or a condition there was not.                    *)
THEOREM ExperimentIsTyped == Spec => []TypeOK
<1>1. Typed => TypeOK
  BY DEF Typed, FilesTyped, Started, Invocations, Outcomes, TypeOK
<1> QED
  BY <1>1, TypedInvariant, PTL

(* Records are only ever added.                                            *)
LEMMA RecordsGrow == [Next]_vars => records \subseteq records'
<1> SUFFICES ASSUME [Next]_vars PROVE records \subseteq records'
  OBVIOUS
<1> QED
  BY StraggleChanges
     DEF Next, Progress, Invoke, Check, Configure, NextCondition, OpenWorkspace,
         RunAgent, AgentRaises, Evaluate, BeginTrace, EndTrace, OpenRecord,
         WriteRecord, Recorded, Raise, Kill, Terminated, artifacts, vars, AllButClones

----------------------------------------------------------------------------
(* What is on disk is never written again.  A trace is of the past or of a *)
(* process that has begun to write it, so the one a process begins is new. *)
Traced == {"tracing", "record", "recording"} \cup Stopped

Fresh ==
  \A run \in DOMAIN traces :
    Past(run) \/ \E r \in Runners : run = Run(r) /\ at[r] \in Traced

LEMMA FreshInit == Init => Fresh
  BY DEF Init, Fresh

LEMMA BeginsNewTrace ==
  ASSUME OnDisk, Fresh, NEW r \in Runners, at[r] \notin Traced
  PROVE  Run(r) \notin DOMAIN traces
  BY PresentIsNotPast DEF Fresh

LEMMA FreshNext == OnDisk /\ Fresh /\ [Next]_vars => Fresh'
<1> SUFFICES ASSUME OnDisk, Fresh, [Next]_vars PROVE Fresh'
  OBVIOUS
<1>a. \A run : Past(run) => Past(run)'
  <2>1. CASE UNCHANGED <<attempt, position>>
    BY <2>1 DEF Past
  <2>2. ASSUME NEW r \in Runners, Invoke(r) PROVE \A run : Past(run) => Past(run)'
    BY <2>2 DEF Invoke, OnDisk, Past
  <2>3. ASSUME NEW r \in Runners, WriteRecord(r) PROVE \A run : Past(run) => Past(run)'
    BY <2>3 DEF WriteRecord, OnDisk, Past
  <2> QED
    BY <2>1, <2>2, <2>3, StraggleChanges
       DEF Next, Progress, Check, Configure, NextCondition, OpenWorkspace, RunAgent,
       AgentRaises, Evaluate, BeginTrace, EndTrace, OpenRecord, Raise, Kill, Terminated,
       vars, local, AllButClones
<1>b. ASSUME NEW r \in Runners, UNCHANGED <<attempt, position>>, NEW onto, Go(r, onto),
             at[r] \in Traced => onto \in Traced,
             \A run \in DOMAIN traces' : run \in DOMAIN traces \/ run = Run(r),
             DOMAIN traces' # DOMAIN traces => onto \in Traced
      PROVE  Fresh'
  <2>1. \A other \in Runners : Run(other)' = Run(other)
    BY <1>b DEF Run, Invocation
  <2>2. at'[r] = onto /\ \A other \in Runners \ {r} : at'[other] = at[other]
    BY <1>b DEF Go, OnDisk
  <2>3. ASSUME NEW run \in DOMAIN traces', ~Past(run)'
        PROVE  \E other \in Runners : run = Run(other)' /\ at'[other] \in Traced
    <3>1. CASE run \in DOMAIN traces
      <4>1. PICK other \in Runners : run = Run(other) /\ at[other] \in Traced
        BY <1>a, <2>3, <3>1 DEF Fresh
      <4> QED
        BY <1>b, <2>1, <2>2, <4>1
    <3>2. CASE run \notin DOMAIN traces
      BY <1>b, <2>1, <2>2, <2>3, <3>2
    <3> QED
      BY <3>1, <3>2
  <2> QED
    BY <2>3 DEF Fresh
<1>1. ASSUME NEW r \in Runners, Invoke(r) \/ WriteRecord(r) PROVE Fresh'
  <2>1. /\ UNCHANGED traces /\ \A other \in Runners \ {r} : at'[other] = at[other]
        /\ \A other \in Runners \ {r} :
             attempt'[other] = attempt[other] /\ position'[other] = position[other]
        /\ \/ attempt'[r] = attempt[r] + 1
           \/ attempt'[r] = attempt[r] /\ position'[r] = position[r] + 1
        /\ attempt[r] \in Nat /\ position[r] \in Nat
    BY <1>1 DEF Invoke, WriteRecord, Go, OnDisk, artifacts
  <2>2. \A other \in Runners \ {r} : Run(other)' = Run(other)
    BY <2>1 DEF Run, Invocation
  <2>3. \A run : run = Run(r) => Past(run)'
    <3>1. /\ Run(r).by.runner = r /\ Run(r).by.attempt = attempt[r]
          /\ Run(r).position = position[r]
      BY DEF Run, Invocation
    <3> QED
      BY <2>1, <3>1 DEF Past
  <2> QED
    BY <1>a, <2>1, <2>2, <2>3 DEF Fresh
<1>2. ASSUME NEW r \in Runners, BeginTrace(r) \/ EndTrace(r) PROVE Fresh'
  <2>1. PICK onto \in Traced : Go(r, onto) /\ \E state : Trace(r, state)
    BY <1>2 DEF BeginTrace, EndTrace, Traced
  <2>2. UNCHANGED <<attempt, position>> /\ DOMAIN traces' = DOMAIN traces \cup {Run(r)}
    BY <1>2, <2>1 DEF BeginTrace, EndTrace, Trace
  <2> QED
    BY <1>b, <2>1, <2>2 DEF Traced
<1>3. ASSUME NEW r \in Runners,
             \/ Check(r) \/ Configure(r) \/ NextCondition(r) \/ OpenWorkspace(r)
             \/ RunAgent(r) \/ AgentRaises(r) \/ Evaluate(r) \/ OpenRecord(r)
             \/ Raise(r) \/ Kill(r)
      PROVE  Fresh'
  <2>1. UNCHANGED <<traces, attempt, position>>
    BY <1>3 DEF Check, Configure, NextCondition, OpenWorkspace, RunAgent, AgentRaises,
                Evaluate, OpenRecord, Raise, Kill, artifacts
  <2>2. PICK onto : Go(r, onto) /\ (at[r] \in Traced => onto \in Traced)
    <3>1. CASE Raise(r) \/ Kill(r) \/ AgentRaises(r)
      BY <3>1 DEF Raise, Kill, AgentRaises, Unwind, Traced, Stopped
    <3>2. CASE OpenRecord(r)
      BY <3>2 DEF OpenRecord, Traced
    <3>3. CASE Check(r) \/ Configure(r) \/ NextCondition(r) \/ OpenWorkspace(r)
               \/ RunAgent(r) \/ Evaluate(r)
      <4>1. at[r] \in {"check", "configure", "next", "clone", "agent", "evaluate"}
            /\ \E onto : Go(r, onto)
        BY <3>3 DEF Check, Configure, NextCondition, OpenWorkspace, RunAgent, Evaluate
      <4> QED
        BY <4>1 DEF Traced, Stopped
    <3> QED
      BY <1>3, <3>1, <3>2, <3>3
  <2> QED
    BY <1>b, <2>1, <2>2
<1>4. CASE Straggle \/ UNCHANGED vars
  BY <1>4, <1>a, StraggleChanges DEF AllButClones, artifacts, Fresh, Run, Invocation
<1> QED
  BY <1>1, <1>2, <1>3, <1>4 DEF Next, Progress, Terminated

THEOREM FreshInvariant == Spec => []Fresh
  BY FreshInit, FreshNext, OnDiskInvariant, PTL DEF Spec

(* The part of ArtifactsKept that holds of processes that race as well.    *)
FilesKept ==
  /\ records \subseteq records'
  /\ \A run \in DOMAIN traces :
       run \in DOMAIN traces' /\ (traces[run] = "complete" => traces'[run] = "complete")

LEMMA FilesKeptNext == OnDisk /\ Fresh /\ [Next]_vars => FilesKept
<1> SUFFICES ASSUME OnDisk, Fresh, [Next]_vars PROVE FilesKept
  OBVIOUS
<1>1. records \subseteq records'
  BY RecordsGrow
<1>2. CASE UNCHANGED traces
  BY <1>1, <1>2 DEF FilesKept
<1>3. ASSUME NEW r \in Runners, BeginTrace(r) \/ EndTrace(r) PROVE FilesKept
  <2>1. CASE BeginTrace(r)
    <3>1. at[r] \notin Traced
      BY <2>1 DEF BeginTrace, Traced, Stopped
    <3>2. Run(r) \notin DOMAIN traces
      BY <3>1, BeginsNewTrace
    <3> QED
      BY <1>1, <2>1, <3>2 DEF BeginTrace, Trace, FilesKept
  <2>2. CASE EndTrace(r)
    BY <1>1, <2>2 DEF EndTrace, Trace, FilesKept
  <2> QED
    BY <1>3, <2>1, <2>2
<1> QED
  BY <1>2, <1>3, StraggleChanges
     DEF Next, Progress, Invoke, Check, Configure, NextCondition, OpenWorkspace,
     RunAgent, AgentRaises, Evaluate, OpenRecord, WriteRecord, Raise, Kill,
     Terminated, artifacts, vars, AllButClones

(* Complete traces and records stay as they are, however many processes    *)
(* have the experiment's id, and whatever each of them does.               *)
THEOREM FilesAreKept == Spec => [][FilesKept]_vars
  BY FilesKeptNext, OnDiskInvariant, FreshInvariant, PTL DEF Spec

----------------------------------------------------------------------------
(* Processes take turns: none is invoked before the last one has stopped.  *)
(* The output directory has no lock, so this is the user's doing, and what *)
(* two processes at once leave behind is the MixedArtifacts run's finding. *)
OneAtATime == \A p, q \in Runners : at[p] \notin Stopped /\ at[q] \notin Stopped => p = q

(* The invocation under way is the one config.json was written by, into a  *)
(* directory that was empty.                                               *)
Owned ==
  /\ OneInvocation
  /\ \A r \in Runners :
       /\ at[r] \in Working => config = Invocation(r)
       /\ at[r] = "configure" => OutputEmpty

LEMMA OwnedInit == Init => Owned
  BY DEF Init, Owned, OneInvocation, Working

LEMMA OwnedNext == OnDisk /\ OneAtATime /\ Owned /\ [Next]_vars => Owned'
<1> SUFFICES ASSUME OnDisk, OneAtATime, Owned, [Next]_vars PROVE Owned'
  OBVIOUS
<1>a. ASSUME NEW r \in Runners, at[r] \notin Stopped, NEW other \in Runners, other # r,
             Progress(r) \/ Kill(r)
      PROVE  at'[other] \notin Working \cup {"configure"}
  <2>1. at[other] \in Stopped
    BY <1>a DEF OneAtATime
  <2>2. at'[other] = at[other]
    BY <1>a DEF OnDisk, Progress, Check, Configure, NextCondition, OpenWorkspace,
       RunAgent, AgentRaises, Evaluate, BeginTrace, EndTrace, OpenRecord,
       WriteRecord, Raise, Kill, Go, Unwind
  <2> QED
    BY <2>1, <2>2 DEF Stopped, Working
<1>1. ASSUME NEW r \in Runners, Invoke(r) PROVE Owned'
  <2>1. /\ at'[r] = "check" /\ UNCHANGED artifacts
        /\ \A other \in Runners \ {r} :
             at'[other] = at[other] /\ attempt'[other] = attempt[other]
    BY <1>1 DEF Invoke, Go, OnDisk
  <2> QED
    BY <2>1 DEF Owned, OneInvocation, OutputEmpty, Invocation, Working, artifacts
<1>2. ASSUME NEW r \in Runners, Check(r) PROVE Owned'
  <2>1. /\ at[r] = "check" /\ UNCHANGED artifacts
        /\ at'[r] \in {"configure", "refused"} /\ (at'[r] = "configure" => OutputEmpty)
    BY <1>2 DEF Check, Go, OnDisk
  <2>2. \A other \in Runners \ {r} : at'[other] \notin Working \cup {"configure"}
    BY <1>2, <1>a, <2>1 DEF Progress, Stopped
  <2> QED
    BY <2>1, <2>2 DEF Owned, OneInvocation, OutputEmpty, Working, artifacts
<1>3. ASSUME NEW r \in Runners, Configure(r) PROVE Owned'
  <2>1. /\ at[r] = "configure" /\ UNCHANGED <<traces, records, torn, attempt>>
        /\ at'[r] = "next" /\ config' = Invocation(r)
    BY <1>3 DEF Configure, Go, OnDisk
  <2>2. \A other \in Runners \ {r} : at'[other] \notin Working \cup {"configure"}
    BY <1>3, <1>a, <2>1 DEF Progress, Stopped
  <2>3. DOMAIN traces' = {} /\ records' = {}
    BY <2>1 DEF Owned, OutputEmpty
  <2> QED
    BY <2>1, <2>2, <2>3 DEF Owned, OneInvocation, Invocation, Working
<1>4. ASSUME NEW r \in Runners,
             \/ NextCondition(r) \/ OpenWorkspace(r) \/ RunAgent(r) \/ AgentRaises(r)
             \/ Evaluate(r) \/ BeginTrace(r) \/ EndTrace(r) \/ OpenRecord(r)
             \/ WriteRecord(r) \/ Raise(r)
      PROVE  Owned'
  <2>1. at[r] \in Working /\ UNCHANGED <<config, attempt>>
    BY <1>4 DEF NextCondition, OpenWorkspace, RunAgent, AgentRaises, Evaluate, BeginTrace,
                EndTrace, OpenRecord, WriteRecord, Raise, artifacts, Working
  <2>2. at[r] \notin Stopped
    BY <2>1 DEF Working, Stopped
  <2>3. \A other \in Runners \ {r} : at'[other] \notin Working \cup {"configure"}
    BY <1>4, <1>a, <2>2 DEF Progress
  <2>4. at'[r] # "configure"
    BY <1>4 DEF NextCondition, OpenWorkspace, RunAgent, AgentRaises, Evaluate, BeginTrace,
                EndTrace, OpenRecord, WriteRecord, Raise, Unwind, Go, OnDisk
  <2>5. config' = Invocation(r) /\ Invocation(r)' = Invocation(r) /\ config = Invocation(r)
    BY <2>1 DEF Owned, Invocation
  <2>6. Run(r).by = Invocation(r)
    BY DEF Run
  <2>7. \A run \in DOMAIN traces' : run.by = config
    <3>1. DOMAIN traces' \subseteq DOMAIN traces \cup {Run(r)}
      BY <1>4 DEF NextCondition, OpenWorkspace, RunAgent, AgentRaises, Evaluate, BeginTrace,
                  EndTrace, OpenRecord, WriteRecord, Raise, Trace, artifacts
    <3> QED
      BY <2>5, <2>6, <3>1 DEF Owned, OneInvocation
  <2>8. \A record \in records' : record.run.by = config
    <3>1. CASE WriteRecord(r)
      <4>1. records' = records \cup {returned[r]} /\ returned[r].run = Run(r)
        BY <3>1 DEF WriteRecord, Recorded, OnDisk
      <4> QED
        BY <2>5, <2>6, <4>1 DEF Owned, OneInvocation
    <3>2. CASE ~WriteRecord(r)
      <4>1. records' = records
        BY <1>4, <3>2 DEF NextCondition, OpenWorkspace, RunAgent, AgentRaises, Evaluate,
                    BeginTrace, EndTrace, OpenRecord, Raise, artifacts
      <4> QED
        BY <4>1 DEF Owned, OneInvocation
    <3> QED
      BY <3>1, <3>2
  <2> QED
    BY <2>1, <2>3, <2>4, <2>5, <2>7, <2>8 DEF Owned, OneInvocation
<1>5. ASSUME NEW r \in Runners, Kill(r) PROVE Owned'
  <2>1. at[r] \notin Stopped /\ at'[r] = "killed" /\ UNCHANGED artifacts
    BY <1>5 DEF Kill, Go, OnDisk
  <2>2. \A other \in Runners \ {r} : at'[other] \notin Working \cup {"configure"}
    BY <1>5, <1>a, <2>1
  <2> QED
    BY <2>1, <2>2 DEF Owned, OneInvocation, Working, artifacts
<1>6. CASE Straggle \/ UNCHANGED vars
  BY <1>6, StraggleChanges DEF AllButClones, artifacts, Owned, OneInvocation,
              OutputEmpty, Invocation
<1> QED
  BY <1>1, <1>2, <1>3, <1>4, <1>5, <1>6 DEF Next, Progress, Terminated

LEMMA OwnedByTurns == Spec /\ []OneAtATime => []Owned
  BY OwnedInit, OwnedNext, OnDiskInvariant, PTL DEF Spec

(* While processes with one id take turns, the artifacts of two            *)
(* invocations are never mixed, whoever was killed before.                 *)
THEOREM InvocationsAreNotMixed == Spec /\ []OneAtATime => []OneInvocation
<1>1. Owned => OneInvocation
  BY DEF Owned
<1> QED
  BY <1>1, OwnedByTurns, PTL

(* And config.json is never written twice either.                          *)
THEOREM ArtifactsAreKept == Spec /\ []OneAtATime => ArtifactsKept
<1>1. Owned /\ OnDisk /\ Fresh /\ [Next]_vars =>
        [ /\ config # None => config' = config
          /\ records \subseteq records'
          /\ \A run \in DOMAIN traces :
               run \in DOMAIN traces'
                 /\ (traces[run] = "complete" => traces'[run] = "complete") ]_vars
  <2> SUFFICES ASSUME Owned, OnDisk, Fresh, [Next]_vars, config # None
               PROVE  config' = config
    BY FilesKeptNext DEF FilesKept
  <2>1. ASSUME NEW r \in Runners, Configure(r) PROVE FALSE
    BY <2>1 DEF Configure, Owned, OutputEmpty
  <2> QED
    BY <2>1, StraggleChanges
       DEF Next, Progress, Invoke, Check, NextCondition, OpenWorkspace,
       RunAgent, AgentRaises, Evaluate, BeginTrace, EndTrace, OpenRecord, WriteRecord,
       Raise, Kill, Terminated, artifacts, vars, AllButClones
<1> QED
  BY <1>1, OwnedByTurns, OnDiskInvariant, FreshInvariant, PTL DEF Spec, ArtifactsKept

(* A single process takes turns with itself, whatever became of its        *)
(* earlier invocations.                                                    *)
THEOREM OneProcessMixesNothing ==
  ASSUME \A p, q \in Runners : p = q
  PROVE  Spec => []OneInvocation /\ ArtifactsKept
<1>1. OneAtATime
  BY DEF OneAtATime
<1> QED
  BY <1>1, InvocationsAreNotMixed, ArtifactsAreKept, PTL

----------------------------------------------------------------------------
(* A report reads the directory and changes nothing an experiment does.    *)
THEOREM ReportImplementsExperiment == ReportSpec => Spec
<1>1. ReportInit => Init
  BY DEF ReportInit
<1>2. [ReportNext]_allVars => [Next]_vars
  BY DEF ReportNext, Report, BeginReport, Aggregate, ListAgain, Detail, WriteReport,
         allVars
<1> QED
  BY <1>1, <1>2, PTL DEF ReportSpec, Spec

(* The second listing finds every record the first one did.                *)
Covering ==
  /\ place \in {"idle", "aggregate", "relist", "detail", "charts"}
  /\ table \subseteq records /\ detailed \subseteq records
  /\ place = "detail" => \A record \in table : record.run \in listed
  /\ ChartsCoverTable

LEMMA CoveringNext == Covering /\ [ReportNext]_allVars => Covering'
<1> SUFFICES ASSUME Covering, [ReportNext]_allVars PROVE Covering'
  OBVIOUS
<1>1. CASE Next /\ UNCHANGED reportVars
  <2>1. records \subseteq records'
    BY <1>1, RecordsGrow
  <2> QED
    BY <1>1, <2>1 DEF Covering, ChartsCoverTable, reportVars
<1>2. CASE BeginReport \/ ListAgain
  BY <1>2 DEF BeginReport, ListAgain, List, Covering, ChartsCoverTable, vars, artifacts
<1>3. CASE Aggregate \/ Detail \/ WriteReport
  BY <1>3 DEF Aggregate, Detail, WriteReport, End, Readable, Covering,
              ChartsCoverTable, vars, artifacts
<1>4. CASE UNCHANGED allVars
  BY <1>4 DEF Covering, ChartsCoverTable, allVars, reportVars, vars, artifacts
<1> QED
  BY <1>1, <1>2, <1>3, <1>4 DEF ReportNext, Report

(* The charts of a report leave out no run of its table, whatever the      *)
(* experiment wrote between the two readings.                              *)
THEOREM ChartsLeaveOutNothing == ReportSpec => []ChartsCoverTable
<1>1. ReportInit => Covering
  BY DEF ReportInit, Covering, ChartsCoverTable
<1>2. Covering => ChartsCoverTable
  BY DEF Covering
<1> QED
  BY <1>1, <1>2, CoveringNext, PTL DEF ReportSpec

----------------------------------------------------------------------------
(* The table.  Its rows partition the records it was made of, so that its  *)
(* sample sizes add up to them, in whatever order they are added.          *)
LEMMA RowsAddUp ==
  ASSUME NEW runs, IsFiniteSet(runs)
  PROVE  MapThenSumSet(LAMBDA row : row.sample_size, Rows(runs)) = Cardinality(runs)
<1> DEFINE RowOf(record) == [key |-> KeyOf(record),
                             sample_size |-> SampleSize(runs, KeyOf(record))]
           R == Rows(runs)
           In(s) == {record \in runs : RowOf(record) \in s}
<1>1. \A record \in runs : RowOf(record) \in R
  BY DEF Rows
<1>2. \A row \in R : \E record \in runs : row = RowOf(record)
  BY DEF Rows
<1>3. IsFiniteSet(R)
  <2> DEFINE f == [record \in runs |-> RowOf(record)]
  <2>1. f \in Surjection(runs, R)
    BY <1>1, <1>2 DEF Surjection
  <2> HIDE DEF f, R
  <2> QED
    BY <2>1, FS_Surjection
<1>4. \A row \in R : row.sample_size \in Nat /\ Cardinality(In({row})) = row.sample_size
  <2> SUFFICES ASSUME NEW row \in R
               PROVE  row.sample_size \in Nat /\ Cardinality(In({row})) = row.sample_size
    OBVIOUS
  <2>1. PICK record \in runs : row = RowOf(record)
    BY <1>2
  <2>2. In({row}) = {of \in runs : KeyOf(of) = KeyOf(record)}
    BY <2>1
  <2>3. row.sample_size = Cardinality({of \in runs : KeyOf(of) = KeyOf(record)})
    BY <2>1 DEF SampleSize
  <2>4. IsFiniteSet(In({row}))
    BY FS_Subset
  <2> QED
    BY <2>2, <2>3, <2>4, FS_CardinalityType
<1>a. \A row \in R : row.sample_size \in Nat
  BY <1>4
<1> DEFINE F == [pair \in R \X Nat |-> pair[1].sample_size + pair[2]]
<1> HIDE DEF R, RowOf
<1>5. /\ Maps(F, R, Nat)
      /\ \A row \in R, n \in Nat : F[<<row, n>>] = row.sample_size + n
  <2>1. \A row \in R, n \in Nat : F[<<row, n>>] = row.sample_size + n
    OBVIOUS
  <2>2. \A row \in R, n \in Nat : row.sample_size + n \in Nat
    BY <1>a
  <2> QED
    BY <2>1, <2>2 DEF Maps
<1>6. PICK g : IsFold(g, R, [s \in SUBSET R |-> CHOOSE row \in s : TRUE], Nat, 0, F)
  <2> HIDE DEF F
  <2> QED
    BY <1>3, <1>5, SetFoldExists
<1>7. g = [s \in SUBSET R |-> IF s = {} THEN 0
                              ELSE (CHOOSE row \in s : TRUE).sample_size
                                     + g[s \ {CHOOSE row \in s : TRUE}]]
  <2>1. ASSUME NEW s \in SUBSET R, s # {}
        PROVE  g[s] = (CHOOSE row \in s : TRUE).sample_size
                        + g[s \ {CHOOSE row \in s : TRUE}]
    <3>1. /\ g[s \ {CHOOSE row \in s : TRUE}] \in Nat
          /\ g[s] = F[<<CHOOSE row \in s : TRUE, g[s \ {CHOOSE row \in s : TRUE}]>>]
      BY <1>6, <2>1 DEF IsFold
    <3> QED
      BY <1>5, <2>1, <3>1
  <2> QED
    BY <1>6, <2>1 DEF IsFold
<1>8. PICK h : /\ h = [s \in SUBSET R |-> IF s = {} THEN 0
                         ELSE (CHOOSE row \in s : TRUE).sample_size
                                + h[s \ {CHOOSE row \in s : TRUE}]]
               /\ MapThenSumSet(LAMBDA row : row.sample_size, R) = h[R]
  BY <1>7 DEF MapThenSumSet, MapThenFoldSet
<1> DEFINE T == {s \in SUBSET R : h[s] = Cardinality(In(s))}
<1>9. {} \in T
  BY <1>8, FS_EmptySet, ZenonT(60)
<1>10. ASSUME NEW s \in SUBSET R, s # {}, \A row \in s : s \ {row} \in T
       PROVE  s \in T
  <2> DEFINE row == CHOOSE row \in s : TRUE
  <2>1. row \in s /\ row \in R
    BY <1>10
  <2>2. h[s] = row.sample_size + Cardinality(In(s \ {row}))
    BY <1>8, <1>10, <2>1
  <2> HIDE DEF row
  <2>3. In(s) = In(s \ {row}) \cup In({row}) /\ In(s \ {row}) \cap In({row}) = {}
    BY <2>1
  <2>4. IsFiniteSet(In(s \ {row})) /\ IsFiniteSet(In({row}))
    BY FS_Subset
  <2>5. Cardinality(In(s)) = Cardinality(In(s \ {row})) + Cardinality(In({row}))
    <3>1. Cardinality({}) = 0
      BY FS_EmptySet
    <3> DEFINE A == In(s \ {row})
               C == In({row})
    <3>2. IsFiniteSet(A) /\ IsFiniteSet(C) /\ In(s) = A \cup C /\ A \cap C = {}
      BY <2>3, <2>4
    <3> HIDE DEF A, C
    <3>3. Cardinality(A \cup C) = Cardinality(A) + Cardinality(C) - Cardinality(A \cap C)
      BY <3>2, FS_Union
    <3>4. Cardinality(A) \in Nat /\ Cardinality(C) \in Nat
      BY <3>2, FS_CardinalityType
    <3>5. Cardinality(A \cap C) = 0
      BY <3>1, <3>2
    <3>6. Cardinality(A \cup C) = Cardinality(A) + Cardinality(C)
      BY <3>3, <3>4, <3>5
    <3> QED
      BY <3>2, <3>6 DEF A, C
  <2>6. Cardinality(In(s \ {row})) \in Nat
    BY <2>4, FS_CardinalityType
  <2> QED
    BY <1>4, <2>1, <2>2, <2>5, <2>6
<1>11. R \in T
  <2>1. \A s \in SUBSET R : s # {} /\ (\A row \in s : s \ {row} \in T) => s \in T
    BY <1>10
  <2> HIDE DEF T
  <2>2. \A s \in SUBSET R : s \in T
    BY <1>3, <1>9, <2>1, SubsetInduction
  <2> QED
    BY <2>2
<1>12. In(R) = runs
  BY <1>1
<1> QED
  BY <1>8, <1>11, <1>12 DEF R

(* Each step of the experiment writes one record at most.                  *)
LEMMA RecordsStayFinite == IsFiniteSet(records) /\ [Next]_vars => IsFiniteSet(records')
<1> SUFFICES ASSUME IsFiniteSet(records), [Next]_vars PROVE IsFiniteSet(records')
  OBVIOUS
<1>1. UNCHANGED records \/ \E r \in Runners : records' = records \cup {returned[r]}
  BY StraggleChanges
     DEF Next, Progress, Invoke, Check, Configure, NextCondition, OpenWorkspace,
         RunAgent, AgentRaises, Evaluate, BeginTrace, EndTrace, OpenRecord,
         WriteRecord, Recorded, Raise, Kill, Terminated, artifacts, vars, AllButClones
<1> QED
  BY <1>1, FS_AddElement

(* What a report has read so far is on disk, and finite.                   *)
Reading ==
  /\ Covering
  /\ IsFiniteSet(records)
  /\ reports \in 0..MaxReports
  /\ listed \subseteq DOMAIN traces

LEMMA ReadingNext ==
  OnDisk /\ Fresh /\ Typed /\ Reading /\ [ReportNext]_allVars => Reading'
<1> SUFFICES ASSUME OnDisk, Fresh, Typed, Reading, [ReportNext]_allVars PROVE Reading'
  OBVIOUS
<1>1. Covering'
  BY CoveringNext DEF Reading
<1>2. CASE Next /\ UNCHANGED reportVars
  <2>1. IsFiniteSet(records')
    BY <1>2, RecordsStayFinite DEF Reading
  <2>2. DOMAIN traces \subseteq DOMAIN traces'
    BY <1>2, FilesKeptNext DEF FilesKept
  <2> QED
    BY <1>1, <1>2, <2>1, <2>2 DEF Reading, reportVars
<1>3. CASE Report
  <2>1. UNCHANGED <<records, traces>>
    BY <1>3 DEF Report, BeginReport, Aggregate, ListAgain, Detail, WriteReport, vars,
                artifacts
  <2>2. {record.run : record \in records} \cup torn \subseteq DOMAIN traces
    BY DEF OnDisk, Whole, Typed, FilesTyped
  <2>3. listed' \subseteq DOMAIN traces
    BY <1>3, <2>2 DEF Report, BeginReport, Aggregate, ListAgain, Detail, WriteReport, List,
                      End, Reading
  <2>4. reports' \in 0..MaxReports
    BY <1>3, ReportAssumption DEF Report, BeginReport, Aggregate, ListAgain, Detail,
                                  WriteReport, Reading
  <2> QED
    BY <1>1, <2>1, <2>3, <2>4 DEF Reading
<1>4. CASE UNCHANGED allVars
  BY <1>1, <1>4 DEF Reading, allVars, reportVars, vars, artifacts
<1> QED
  BY <1>2, <1>3, <1>4 DEF ReportNext

(* A report, made at any time, counts runs that are over, each of them in  *)
(* exactly one row, and its charts leave out none of its table.            *)
THEOREM ReportsAreSound == ReportSpec => []ReportSound
<1>1. ReportInit => Reading
  <2> SUFFICES ASSUME ReportInit PROVE Reading
    OBVIOUS
  <2>1. /\ records = {} /\ reports = 0 /\ place = "idle" /\ listed = {} /\ table = {}
        /\ detailed = {}
    BY DEF ReportInit, Init
  <2> QED
    BY <2>1, FS_EmptySet, ReportAssumption DEF Reading, Covering, ChartsCoverTable
<1>2. ReportSpec => []OnDisk /\ []Fresh /\ []Typed
  BY ReportImplementsExperiment, OnDiskInvariant, FreshInvariant, TypedInvariant, PTL
<1>3. ReportSpec => []Reading
  BY <1>1, <1>2, ReadingNext, PTL DEF ReportSpec
<1>4. OnDisk /\ Reading => ReportSound
  <2> SUFFICES ASSUME OnDisk, Reading PROVE ReportSound
    OBVIOUS
  <2>1. MapThenSumSet(LAMBDA row : row.sample_size, Rows(table)) = Cardinality(table)
    <3>1. IsFiniteSet(table)
      BY FS_Subset DEF Reading, Covering
    <3> QED
      BY <3>1, RowsAddUp
  <2>2. RecordsHaveTraces
    BY DEF OnDisk, Whole, RecordsHaveTraces
  <2>3. ReportTypeOK
    BY DEF Reading, Covering, ReportTypeOK
  <2> QED
    BY <2>1, <2>2, <2>3 DEF Reading, Covering, ReportSound
<1> QED
  BY <1>2, <1>3, <1>4, PTL

----------------------------------------------------------------------------
(* Quotient and remainder of a number put together from the two.           *)
LEMMA Divided ==
  ASSUME NEW m \in Nat \ {0}, NEW q \in Nat, NEW r \in 0..(m - 1)
  PROVE  /\ (q * m + r) \div m = q /\ (q * m + r) % m = r
         /\ q * m + r \in Nat
<1> DEFINE n == q * m + r
<1>1. n \in Nat /\ n = m * q + r
  <2>1. q * m \in Nat /\ q * m = m * q
    OBVIOUS
  <2> QED
    BY <2>1
<1> HIDE DEF n
<1>2. /\ n = m * (n \div m) + (n % m) /\ n % m \in 0..(m - 1)
      /\ n \div m \in Int /\ n % m \in Int
  BY <1>1
<1> DEFINE d == n \div m
           e == n % m
<1>3. d = q
  <2>1. d \in Int /\ e \in 0..(m - 1) /\ m * q + r = m * d + e
    BY <1>1, <1>2
  <2> HIDE DEF d, e
  <2>2. ASSUME d >= q + 1 PROVE FALSE
    <3>1. m * d >= m * (q + 1)
      BY <2>1, <2>2
    <3>2. m * (q + 1) = m * q + m
      OBVIOUS
    <3>3. m * d \in Int /\ m * q \in Int
      BY <2>1
    <3> QED
      BY <2>1, <3>1, <3>2, <3>3
  <2>3. ASSUME d + 1 <= q PROVE FALSE
    <3>1. m * q >= m * (d + 1)
      BY <2>1, <2>3
    <3>2. m * (d + 1) = m * d + m
      BY <2>1
    <3>3. m * d \in Int /\ m * q \in Int
      BY <2>1
    <3> QED
      BY <2>1, <3>1, <3>2, <3>3
  <2> QED
    BY <2>1, <2>2, <2>3
<1>4. e = r
  <2>1. m * q + r = m * d + e /\ e \in Int /\ m * q \in Int
    BY <1>1, <1>2
  <2> HIDE DEF d, e
  <2> QED
    BY <1>3, <2>1
<1> QED
  BY <1>1, <1>3, <1>4 DEF n

LEMMA PutTogether ==
  ASSUME NEW m \in Nat, NEW n \in Nat \ {0}, NEW q \in 0..(m - 1), NEW r \in 0..(n - 1)
  PROVE  q * n + r \in 0..(m * n - 1)
<1>1. q * n \in Nat /\ m * n \in Nat /\ (m - 1) * n \in Int
  OBVIOUS
<1>2. q * n <= (m - 1) * n
  OBVIOUS
<1>3. (m - 1) * n = m * n - n
  OBVIOUS
<1> QED
  BY <1>1, <1>2, <1>3

LEMMA TakenApart ==
  ASSUME NEW m \in Nat, NEW n \in Nat \ {0}, NEW k \in 0..(m * n - 1)
  PROVE  \E q \in 0..(m - 1), r \in 0..(n - 1) : k = q * n + r
<1>1. k \div n \in 0..(m - 1)
  BY QuotientBelow
<1>2. k = n * (k \div n) + (k % n) /\ k % n \in 0..(n - 1)
  OBVIOUS
<1> DEFINE q == k \div n
           r == k % n
<1>3. q \in 0..(m - 1) /\ r \in 0..(n - 1) /\ k = n * q + r
  BY <1>1, <1>2
<1> HIDE DEF q, r
<1>4. n * q = q * n
  BY <1>3
<1> QED
  BY <1>3, <1>4

LEMMA ProductNat ==
  ASSUME NEW m \in Nat, NEW n \in Nat
  PROVE  m * n \in Nat
  OBVIOUS

LEMMA Regrouped ==
  ASSUME NEW j \in Nat, NEW t \in Nat, NEW m \in Nat, NEW n \in Nat
  PROVE  (j * m + t) * n = j * (m * n) + t * n
<1>1. (j * m + t) * n = (j * m) * n + t * n
  <2> DEFINE a == j * m
  <2>1. a \in Nat
    BY ProductNat
  <2> HIDE DEF a
  <2>2. (a + t) * n = a * n + t * n
    BY <2>1
  <2> QED
    BY <2>2 DEF a
<1>2. (j * m) * n = j * (m * n)
  OBVIOUS
<1> QED
  BY <1>1, <1>2

LEMMA Remainder ==
  \A m \in Nat \ {0} : \A q \in Nat, r \in 0..(m - 1) : (q * m + r) % m = r
  BY Divided

LEMMA Quotient ==
  \A m \in Nat \ {0} : \A q \in Nat, r \in 0..(m - 1) : (q * m + r) \div m = q
  BY Divided

(* Four nested loops: the number n of turns before the (j, t, c, x)-th.    *)
Looped(I, T, B, P, R, K, n, j, t, c, x) ==
  /\ I \in Nat \ {0} /\ T \in Nat \ {0} /\ B \in Nat \ {0} /\ P \in Nat \ {0}
  /\ R \in Nat \ {0} /\ R = B * P /\ K \in Nat \ {0} /\ K = T * R
  /\ j \in 0..(I - 1) /\ t \in 0..(T - 1) /\ c \in 0..(B - 1) /\ x \in 0..(P - 1)
  /\ n = j * K + (t * R + (c * P + x))
Counted(I, P, R, K, n, j, t, c, x) ==
  /\ n \in 0..(I * K - 1)
  /\ n \div K = j /\ (n % K) \div R = t
  /\ (n % R) \div P = c /\ n % P = x

LEMMA Nested ==
  ASSUME NEW I, NEW T, NEW B, NEW P, NEW R, NEW K, NEW n, NEW j, NEW t, NEW c, NEW x,
         Looped(I, T, B, P, R, K, n, j, t, c, x)
  PROVE  Counted(I, P, R, K, n, j, t, c, x)
<1> SUFFICES ASSUME I \in Nat \ {0}, T \in Nat \ {0}, B \in Nat \ {0}, P \in Nat \ {0},
                    R \in Nat \ {0}, R = B * P, K \in Nat \ {0}, K = T * R,
                    j \in 0..(I - 1), t \in 0..(T - 1), c \in 0..(B - 1), x \in 0..(P - 1),
                    n = j * K + (t * R + (c * P + x))
             PROVE  Counted(I, P, R, K, n, j, t, c, x)
  BY DEF Looped
<1>0. j \in Nat /\ t \in Nat /\ c \in Nat /\ x \in Nat
  OBVIOUS
<1> DEFINE w == c * P + x
           u == t * R + w
<1>1. w \in 0..(B * P - 1) /\ w \div P = c /\ w % P = x
  BY <1>0, PutTogether, Divided
<1>2. w \in 0..(R - 1)
  BY <1>1
<1> HIDE DEF w
<1>3. u \in 0..(T * R - 1) /\ u \div R = t
  BY <1>0, <1>2, PutTogether, Divided
<1>4. u \in 0..(K - 1)
  BY <1>3
<1>5. n = j * K + u
  BY DEF u, w
<1> HIDE DEF u
<1>6. n \in 0..(I * K - 1) /\ n \div K = j /\ n % K = u
  <2>1. j * K + u \in 0..(I * K - 1)
    BY <1>0, <1>4, PutTogether
  <2>2. (j * K + u) \div K = j /\ (j * K + u) % K = u
    <3>1. \A y \in Nat, z \in 0..(K - 1) : (y * K + z) \div K = y /\ (y * K + z) % K = z
      <4>1. \A y \in Nat, z \in 0..(K - 1) : (y * K + z) \div K = y
        BY Quotient, Zenon
      <4>2. \A y \in Nat, z \in 0..(K - 1) : (y * K + z) % K = z
        BY Remainder, Zenon
      <4> QED
        BY <4>1, <4>2, Zenon
    <3> QED
      BY <1>0, <1>4, <3>1, Zenon
  <2>3. PICK e : e = j * K + u
    OBVIOUS
  <2>4. e \in 0..(I * K - 1) /\ e \div K = j /\ e % K = u
    BY <2>1, <2>2, <2>3, Zenon
  <2>5. n = e
    BY <1>5, <2>3, Zenon
  <2> QED
    BY <2>4, <2>5, Zenon
<1> DEFINE a == j * T + t
<1>7. a \in Nat /\ n = a * R + w
  <2>1. a \in Nat
    BY <1>0, ProductNat
  <2>2. a * R = j * (T * R) + t * R
    BY <1>0, Regrouped
  <2>3. j * K \in Nat /\ t * R \in Nat /\ a * R \in Nat /\ w \in Nat
    BY <1>0, <1>2, <2>1, ProductNat
  <2> HIDE DEF a
  <2> QED
    BY <1>5, <2>1, <2>2, <2>3 DEF u
<1> HIDE DEF a
<1>8. n % R = w
  <2>1. \A y \in Nat, z \in 0..(R - 1) : (y * R + z) % R = z
    BY Remainder, Zenon
  <2> QED
    BY <1>2, <1>7, <2>1, Zenon
<1> DEFINE d == a * B + c
<1>9. d \in Nat /\ n = d * P + x
  <2>1. d \in Nat
    BY <1>0, <1>7, ProductNat
  <2>2. d * P = a * (B * P) + c * P
    BY <1>0, <1>7, Regrouped
  <2>3. a * R \in Nat /\ c * P \in Nat /\ d * P \in Nat
    BY <1>0, <1>7, <2>1, ProductNat
  <2> HIDE DEF d
  <2> QED
    BY <1>0, <1>7, <2>1, <2>2, <2>3 DEF w
<1> HIDE DEF d
<1>10. n % P = x
  <2>1. (d * P + x) % P = x
    BY <1>9, Divided, Zenon
  <2> QED
    BY <1>9, <2>1, Zenon
<1> QED
  BY <1>1, <1>3, <1>6, <1>8, <1>10 DEF Counted

(* The place of a condition in the matrix, from the places in each list.   *)
PlaceOf(i, t, b, x) ==
  (i - 1) * PerTask + (t * PerTrial + ((b - 1) * Len(Policies) + x))

LEMMA PlaceDecoded ==
  ASSUME NEW i \in DOMAIN TaskIds, NEW t \in 0..(Trials - 1), NEW b \in DOMAIN Budgets,
         NEW x \in 0..(Len(Policies) - 1)
  PROVE  LET n == PlaceOf(i, t, b, x)
         IN  /\ n \in 0..(Total - 1)
             /\ TaskAt(n) = TaskIds[i] /\ TrialAt(n) = t
             /\ BudgetAt(n) = Budgets[b] /\ IndexAt(n) = x
<1>1. /\ Len(TaskIds) \in Nat \ {0} /\ Len(Budgets) \in Nat \ {0} /\ Len(Policies) \in Nat \ {0}
      /\ PerTrial \in Nat \ {0} /\ PerTask \in Nat \ {0}
      /\ i \in 1..Len(TaskIds) /\ b \in 1..Len(Budgets)
  BY MatrixSizes
<1>2. Trials \in Nat \ {0}
  BY ExperimentAssumption
<1>3. /\ i - 1 \in 0..(Len(TaskIds) - 1) /\ b - 1 \in 0..(Len(Budgets) - 1)
      /\ 1 + (i - 1) = i /\ 1 + (b - 1) = b
  BY <1>1
<1>4. PICK n : n = PlaceOf(i, t, b, x)
  OBVIOUS
<1>5. /\ n \in 0..(Len(TaskIds) * PerTask - 1)
      /\ n \div PerTask = i - 1 /\ (n % PerTask) \div PerTrial = t
      /\ (n % PerTrial) \div Len(Policies) = b - 1 /\ n % Len(Policies) = x
  <2>1. PICK j \in 0..(Len(TaskIds) - 1), c \in 0..(Len(Budgets) - 1) : j = i - 1 /\ c = b - 1
    BY <1>3
  <2>2. n = j * PerTask + (t * PerTrial + (c * Len(Policies) + x))
    BY <1>4, <2>1 DEF PlaceOf
  <2>3. PerTrial = Len(Budgets) * Len(Policies) /\ PerTask = Trials * PerTrial
    BY DEF PerTrial, PerTask
  <2>4. /\ n \in 0..(Len(TaskIds) * PerTask - 1)
        /\ n \div PerTask = j /\ (n % PerTask) \div PerTrial = t
        /\ (n % PerTrial) \div Len(Policies) = c /\ n % Len(Policies) = x
    <3>a. PICK I, T, B, P \in Nat \ {0} :
            I = Len(TaskIds) /\ T = Trials /\ B = Len(Budgets) /\ P = Len(Policies)
      BY <1>1, <1>2
    <3>b. PICK R, K \in Nat \ {0} : R = PerTrial /\ K = PerTask
      BY <1>1
    <3>1. Looped(I, T, B, P, R, K, n, j, t, c, x)
      BY <2>2, <2>3, <3>a, <3>b DEF Looped
    <3>2. Counted(I, P, R, K, n, j, t, c, x)
      BY <3>1, Nested
    <3> QED
      BY <3>a, <3>b, <3>2 DEF Counted
  <2> QED
    BY <2>1, <2>4
<1>6. /\ n \in 0..(Total - 1)
      /\ TaskAt(n) = TaskIds[i] /\ TrialAt(n) = t
      /\ BudgetAt(n) = Budgets[b] /\ IndexAt(n) = x
  BY <1>3, <1>5 DEF TaskAt, TrialAt, BudgetAt, IndexAt, Total
<1> QED
  BY <1>4, <1>6

LEMMA PlaceEncoded ==
  ASSUME NEW n \in 0..(Total - 1)
  PROVE  \E i \in DOMAIN TaskIds, t \in 0..(Trials - 1), b \in DOMAIN Budgets,
            x \in 0..(Len(Policies) - 1) : n = PlaceOf(i, t, b, x)
<1>1. /\ Len(TaskIds) \in Nat /\ Len(Budgets) \in Nat /\ Len(Policies) \in Nat \ {0}
      /\ PerTrial \in Nat \ {0} /\ PerTask \in Nat \ {0}
      /\ DOMAIN TaskIds = 1..Len(TaskIds) /\ DOMAIN Budgets = 1..Len(Budgets)
  BY MatrixSizes
<1>0. Trials \in Nat
  BY ExperimentAssumption
<1>2. PICK q \in 0..(Len(TaskIds) - 1), u \in 0..(PerTask - 1) : n = q * PerTask + u
  <2>1. n \in 0..(Len(TaskIds) * PerTask - 1)
    BY DEF Total
  <2> QED
    BY <1>1, <2>1, TakenApart, ZenonT(60)
<1>3. PICK t \in 0..(Trials - 1), w \in 0..(PerTrial - 1) : u = t * PerTrial + w
  <2>1. u \in 0..(Trials * PerTrial - 1)
    BY DEF PerTask
  <2> QED
    BY <1>0, <1>1, <2>1, TakenApart, ZenonT(60)
<1>4. PICK c \in 0..(Len(Budgets) - 1), x \in 0..(Len(Policies) - 1) : w = c * Len(Policies) + x
  <2>1. w \in 0..(Len(Budgets) * Len(Policies) - 1)
    BY DEF PerTrial
  <2> QED
    BY <1>1, <2>1, TakenApart, ZenonT(60)
<1>5. /\ q + 1 \in DOMAIN TaskIds /\ c + 1 \in DOMAIN Budgets
      /\ (q + 1) - 1 = q /\ (c + 1) - 1 = c
  BY <1>1
<1>6. n = PlaceOf(q + 1, t, c + 1, x)
  BY <1>2, <1>3, <1>4, <1>5 DEF PlaceOf
<1> QED
  BY <1>5, <1>6

----------------------------------------------------------------------------
(* The rotation: whole turns more or less make no difference.              *)
LEMMA WholeTurns ==
  ASSUME NEW m \in Nat \ {0}, NEW z \in Nat, NEW q \in Nat
  PROVE  (z + q * m) % m = z % m
<1> DEFINE d == z \div m
           e == z % m
<1>1. d \in Nat /\ e \in 0..(m - 1) /\ z = m * d + e
  OBVIOUS
<1> HIDE DEF d, e
<1>2. m * d = d * m /\ d + q \in Nat
  BY <1>1
<1>3. (d + q) * m = d * m + q * m
  BY <1>1
<1>4. z + q * m = (d + q) * m + e
  <2>1. d * m \in Nat /\ q * m \in Nat /\ e \in Nat
    BY <1>1, ProductNat
  <2> QED
    BY <1>1, <1>2, <1>3, <2>1
<1>5. ((d + q) * m + e) % m = e
  BY <1>1, <1>2, Remainder, Zenon
<1>6. (z + q * m) % m = e
  BY <1>4, <1>5, Zenon
<1> QED
  BY <1>6 DEF e

LEMMA RemainderAdded ==
  ASSUME NEW m \in Nat \ {0}, NEW a \in Nat, NEW t \in Nat
  PROVE  (a + (t % m)) % m = (a + t) % m
<1> DEFINE d == t \div m
           e == t % m
<1>1. d \in Nat /\ e \in 0..(m - 1) /\ t = m * d + e
  OBVIOUS
<1> HIDE DEF d, e
<1>2. a + t = (a + e) + d * m /\ a + e \in Nat
  <2>1. m * d = d * m /\ d * m \in Nat /\ e \in Nat
    BY <1>1, ProductNat
  <2> QED
    BY <1>1, <2>1
<1>3. ((a + e) + d * m) % m = (a + e) % m
  BY <1>1, <1>2, WholeTurns
<1>4. (a + t) % m = (a + e) % m
  BY <1>2, <1>3, Zenon
<1> QED
  BY <1>4 DEF e

(* The trial in which a policy is d places earlier than in the t-th.       *)
Shift(t, d) ==
  IF t + d < 0 THEN t + d + Trials
  ELSE IF t + d >= Trials THEN t + d - Trials ELSE t + d

LEMMA Shifted ==
  ASSUME NEW i \in DOMAIN Policies, NEW j \in DOMAIN Policies, NEW t \in 0..(Trials - 1),
         Trials % Len(Policies) = 0
  PROVE  LET u == Shift(t, i - j)
         IN  /\ u \in 0..(Trials - 1)
             /\ (j - 1 + (u % Len(Policies))) % Len(Policies)
                  = (i - 1 + (t % Len(Policies))) % Len(Policies)
             /\ \A v \in 0..(Trials - 1) : Shift(v, i - j) = u => v = t
<1>1. PICK m \in Nat \ {0} : m = Len(Policies)
  BY MatrixSizes
<1>2. PICK T \in Nat \ {0} : T = Trials
  BY ExperimentAssumption
<1>3. PICK q \in Nat : T = q * m
  <2>1. T = m * (T \div m) + (T % m) /\ T \div m \in Nat /\ T % m = 0
    <3>1. T = m * (T \div m) + (T % m) /\ T \div m \in Nat
      OBVIOUS
    <3> QED
      BY <1>1, <1>2, <3>1
  <2> DEFINE d == T \div m
  <2>2. d \in Nat /\ T = m * d
    BY <2>1
  <2> HIDE DEF d
  <2>3. T = d * m
    BY <2>2
  <2> QED
    BY <2>2, <2>3
<1>4. m <= T
  <2>1. q >= 1
    <3>1. q # 0
      <4>1. 0 * m = 0
        OBVIOUS
      <4> QED
        BY <1>3, <4>1
    <3> QED
      BY <3>1
  <2>2. q * m >= 1 * m
    BY <2>1
  <2> QED
    BY <1>3, <2>2
<1>5. i \in 1..m /\ j \in 1..m /\ t \in 0..(T - 1)
  BY <1>1, <1>2, MatrixSizes
<1>6. PICK u : u = Shift(t, i - j)
  OBVIOUS
<1>d. PICK d \in Int : d = i - j /\ 0 - T < d /\ d < T
  BY <1>1, <1>2, <1>4, <1>5
<1>e. \A v \in 0..(T - 1) :
        /\ Shift(v, d) = IF v + d < 0 THEN v + d + T
                         ELSE IF v + d >= T THEN v + d - T ELSE v + d
        /\ Shift(v, d) \in {v + d, v + d + T, v + d - T} /\ Shift(v, d) \in 0..(T - 1)
  <2> SUFFICES ASSUME NEW v \in 0..(T - 1)
      PROVE  LET s == IF v + d < 0 THEN v + d + T
                      ELSE IF v + d >= T THEN v + d - T ELSE v + d
             IN  /\ Shift(v, d) = s /\ s \in {v + d, v + d + T, v + d - T}
                 /\ s \in 0..(T - 1)
    BY Zenon
  <2>1. Shift(v, d) = IF v + d < 0 THEN v + d + T
                      ELSE IF v + d >= T THEN v + d - T ELSE v + d
    BY <1>2, Zenon DEF Shift
  <2>2. v \in Int /\ 0 <= v /\ v < T /\ T \in Int /\ d \in Int /\ 0 - T < d /\ d < T
    BY <1>2, <1>d
  <2>3. CASE v + d < 0
    BY <2>1, <2>2, <2>3
  <2>4. CASE v + d >= T
    BY <2>1, <2>2, <2>4
  <2>5. CASE 0 <= v + d /\ v + d < T
    BY <2>1, <2>2, <2>5
  <2> QED
    BY <2>2, <2>3, <2>4, <2>5
<1>7. u \in 0..(T - 1)
  BY <1>5, <1>6, <1>d, <1>e
<1>8. ASSUME NEW v \in 0..(T - 1), Shift(v, i - j) = u PROVE v = t
  <2>1. PICK x, y \in 0..(T - 1) : x = Shift(v, d) /\ y = Shift(t, d)
    BY <1>5, <1>e
  <2>2. x = y /\ x \in {v + d, v + d + T, v + d - T} /\ y \in {t + d, t + d + T, t + d - T}
    BY <1>5, <1>6, <1>8, <1>d, <1>e, <2>1
  <2> QED
    <3>a. v \in Int /\ t \in Int /\ d \in Int /\ T \in Int /\ x \in Int
      BY <1>2, <1>5, <1>d, <1>8, <2>1
    <3>b. /\ x = v + d \/ x = v + d + T \/ x = v + d - T
          /\ x = t + d \/ x = t + d + T \/ x = t + d - T
      BY <2>2
    <3>1. v = t \/ v = t + T \/ v = t - T \/ v = t + T + T \/ v = t - T - T
      BY <3>a, <3>b
    <3>2. v \in 0..(T - 1) /\ t \in 0..(T - 1) /\ T \in Nat
      BY <1>2, <1>5, <1>8
    <3> QED
      BY <3>1, <3>2
<1>9. (j - 1 + u) % m = (i - 1 + t) % m
  <2>0. i - 1 + t \in Nat /\ j - 1 + u \in Nat
    BY <1>5, <1>7
  <2>1. PICK a, b \in Nat : a = i - 1 + t /\ b = j - 1 + u
    BY <2>0
  <2>2. \/ b = a \/ b = a + T \/ a = b + T
    <3>1. u = t + d \/ u = t + d + T \/ u = t + d - T
      BY <1>5, <1>6, <1>d, <1>e
    <3>2. PICK k, l \in Int : k = i /\ l = j
      BY <1>5
    <3>3. /\ u \in Int /\ t \in Int /\ a \in Int /\ b \in Int
          /\ d = k - l /\ a = k - 1 + t /\ b = l - 1 + u
      BY <1>5, <1>7, <1>d, <2>1, <3>2
    <3> QED
      BY <1>2, <3>1, <3>3
  <2>3. \A z \in Nat : (z + T) % m = z % m
    <3> SUFFICES ASSUME NEW z \in Nat PROVE (z + T) % m = z % m
      OBVIOUS
    <3>1. (z + q * m) % m = z % m
      BY WholeTurns
    <3> QED
      BY <1>3, <3>1, Zenon
  <2>4. a % m = b % m
    BY <2>2, <2>3, Zenon
  <2> QED
    BY <2>1, <2>4
<1>10. (j - 1 + (u % m)) % m = (i - 1 + (t % m)) % m
  <2>1. PICK a, b \in Nat : a = i - 1 /\ b = j - 1
    BY <1>5
  <2>2. u \in Nat /\ t \in Nat
    BY <1>5, <1>7
  <2>3. (b + (u % m)) % m = (b + u) % m /\ (a + (t % m)) % m = (a + t) % m
    BY <2>2, RemainderAdded
  <2> QED
    BY <1>9, <2>1, <2>3
<1> QED
  BY <1>1, <1>2, <1>6, <1>7, <1>8, <1>10

----------------------------------------------------------------------------
(* Whatever the order, each trial has each policy once.                    *)
Shuffled == order = "randomize" => shuffle \in [0..(Trials - 1) -> Orderings]

LEMMA EachPolicyOnce ==
  ASSUME Shuffled, NEW t \in 0..(Trials - 1)
  PROVE  /\ \A k \in DOMAIN Policies : \E p \in DOMAIN Policies :
              OrderedPolicies(t)[k] = Policies[p]
         /\ \A p \in DOMAIN Policies : \E k \in DOMAIN Policies :
              OrderedPolicies(t)[k] = Policies[p]
         /\ \A k, l \in DOMAIN Policies :
              OrderedPolicies(t)[k] = OrderedPolicies(t)[l] => k = l
<1> DEFINE D == DOMAIN Policies
           names == {Policies[i] : i \in D}
<1>0. \A i, j \in D : Policies[i] = Policies[j] => i = j
  BY ExperimentAssumption
<1>1. CASE order = "randomize"
  <2> DEFINE f == shuffle[t]
  <2>1. OrderedPolicies(t) = f
    BY <1>1 DEF OrderedPolicies
  <2>2. f \in [D -> names] /\ \A k, l \in D : f[k] = f[l] => k = l
    BY <1>1 DEF Shuffled, Orderings
  <2> HIDE DEF f
  <2>3. f \in Injection(D, names)
    BY <2>2 DEF Injection, IsInjective
  <2>4. IsFiniteSet(D)
    BY MatrixSizes, FS_Interval
  <2>5. IsFiniteSet(names) /\ Cardinality(names) = Cardinality(D)
    <3> DEFINE g == [i \in D |-> Policies[i]]
    <3>1. g \in [D -> names] /\ (\A k, l \in D : g[k] = g[l] => k = l)
          /\ \A x \in names : \E i \in D : g[i] = x
      BY <1>0
    <3> HIDE DEF g
    <3>2. g \in Bijection(D, names)
      <4> HIDE DEF D, names
      <4> QED
        BY <3>1 DEF Bijection, Injection, Surjection, IsInjective
    <3> QED
      BY <2>4, <3>2, FS_Bijection DEF ExistsBijection
  <2>6. f \in Surjection(D, names)
    <3> HIDE DEF D, names
    <3> QED
      BY <2>3, <2>5, FS_Injection
  <2>7. \A x \in names : \E k \in D : f[k] = x
    <3> HIDE DEF D, names
    <3> QED
      BY <2>6 DEF Surjection
  <2>8. \A k \in D : \E p \in D : f[k] = Policies[p]
    BY <2>2
  <2>9. \A p \in D : \E k \in D : f[k] = Policies[p]
    BY <2>7
  <2> QED
    BY <2>1, <2>2, <2>8, <2>9
<1>2. CASE order = "rotate"
  <2>1. PICK m \in Nat \ {0} : m = Len(Policies)
    BY MatrixSizes
  <2>2. D = 1..m
    BY <2>1, MatrixSizes
  <2>3. PICK s \in 0..(m - 1) : s = t % m
    OBVIOUS
  <2> DEFINE at0(k) == IF k + s <= m THEN k + s ELSE k + s - m
  <2>4. ASSUME NEW k \in D PROVE at0(k) \in D /\ OrderedPolicies(t)[k] = Policies[at0(k)]
    <3>1. OrderedPolicies(t)[k] = Policies[1 + ((k - 1 + s) % m)]
      BY <1>2, <2>1, <2>3 DEF OrderedPolicies
    <3>2. (k - 1 + s) % m = IF k + s <= m THEN k - 1 + s ELSE k - 1 + s - m
      <4>1. PICK z \in 0..(m - 1) : z = IF k + s <= m THEN k - 1 + s ELSE k - 1 + s - m
        BY <2>2
      <4>2. (0 * m + z) % m = z /\ (1 * m + z) % m = z
        BY Remainder
      <4>3. k - 1 + s = 0 * m + z \/ k - 1 + s = 1 * m + z
        BY <2>2, <4>1
      <4>4. (k - 1 + s) % m = z
        BY <4>2, <4>3, Zenon
      <4> QED
        BY <4>1, <4>4
    <3>3. at0(k) \in D /\ 1 + ((k - 1 + s) % m) = at0(k)
      <4>1. k \in 1..m /\ s \in 0..(m - 1) /\ m \in Nat \ {0}
        BY <2>1, <2>2, <2>3
      <4>2. at0(k) \in 1..m /\ at0(k) = 1 + (IF k + s <= m THEN k - 1 + s ELSE k - 1 + s - m)
        BY <4>1
      <4> HIDE DEF at0
      <4> QED
        BY <2>2, <3>2, <4>2, Zenon
    <3> HIDE DEF at0
    <3> QED
      BY <3>1, <3>3
  <2>5. \A k, l \in D : at0(k) = at0(l) => k = l
    BY <2>2
  <2>6. \A p \in D : \E k \in D : at0(k) = p
    <3> SUFFICES ASSUME NEW p \in D PROVE \E k \in D : at0(k) = p
      OBVIOUS
    <3>1. CASE p - s >= 1
      <4>1. p - s \in D /\ at0(p - s) = p
        BY <2>2, <3>1
      <4> QED
        BY <4>1
    <3>2. CASE p - s < 1
      <4>1. p - s + m \in D /\ at0(p - s + m) = p
        BY <2>2, <3>2
      <4> QED
        BY <4>1
    <3> QED
      BY <2>2, <3>1, <3>2
  <2> HIDE DEF at0
  <2> QED
    BY <1>0, <2>4, <2>5, <2>6
<1>3. CASE order \notin {"rotate", "randomize"}
  BY <1>0, <1>3 DEF OrderedPolicies
<1> QED
  BY <1>1, <1>2, <1>3

----------------------------------------------------------------------------
(* A record of a condition, by the condition's places in the four lists.   *)
OfPosition(record) ==
  LET n == record.run.position
  IN  /\ n \in 0..(Total - 1)
      /\ record.task = TaskAt(n) /\ record.trial = TrialAt(n) /\ record.budget = BudgetAt(n)
      /\ record.policy = PolicyAt(n) /\ record.index = IndexAt(n)

Describes(record, i, t, b, k) ==
  /\ record.run.position = PlaceOf(i, t, b, k - 1)
  /\ record.task = TaskIds[i] /\ record.trial = t /\ record.budget = Budgets[b]
  /\ record.policy = OrderedPolicies(t)[k] /\ record.index = k - 1

LEMMA PlaceDescribed ==
  ASSUME NEW record, OfPosition(record), NEW i \in DOMAIN TaskIds,
         NEW t \in 0..(Trials - 1), NEW b \in DOMAIN Budgets, NEW k \in DOMAIN Policies,
         record.run.position = PlaceOf(i, t, b, k - 1)
  PROVE  Describes(record, i, t, b, k)
<1>1. PICK x \in 0..(Len(Policies) - 1) : x = k - 1 /\ k = 1 + x
  BY MatrixSizes
<1>2. PICK n : n = PlaceOf(i, t, b, x)
  OBVIOUS
<1>3. TaskAt(n) = TaskIds[i] /\ TrialAt(n) = t /\ BudgetAt(n) = Budgets[b] /\ IndexAt(n) = x
  BY <1>2, PlaceDecoded
<1>4. record.run.position = n
  BY <1>1, <1>2
<1>5. PolicyAt(n) = OrderedPolicies(t)[k]
  BY <1>1, <1>3 DEF PolicyAt
<1> QED
  BY <1>1, <1>3, <1>4, <1>5 DEF OfPosition, Describes

LEMMA RecordDescribed ==
  ASSUME NEW record, OfPosition(record)
  PROVE  \E i \in DOMAIN TaskIds, t \in 0..(Trials - 1), b \in DOMAIN Budgets,
            k \in DOMAIN Policies : Describes(record, i, t, b, k)
<1>1. PICK n \in 0..(Total - 1) : n = record.run.position
  BY DEF OfPosition
<1>2. PICK i \in DOMAIN TaskIds, t \in 0..(Trials - 1), b \in DOMAIN Budgets,
           x \in 0..(Len(Policies) - 1) : n = PlaceOf(i, t, b, x)
  BY PlaceEncoded
<1>3. PICK k \in DOMAIN Policies : k - 1 = x
  <2>1. x + 1 \in DOMAIN Policies /\ (x + 1) - 1 = x
    BY MatrixSizes
  <2> QED
    BY <2>1
<1>4. Describes(record, i, t, b, k)
  BY <1>1, <1>2, <1>3, PlaceDescribed
<1> QED
  BY <1>4

(* One record for each condition of the matrix.                            *)
Matrix(runs) ==
  /\ \A record \in runs : OfPosition(record)
  /\ \A x, y \in runs : x.run.position = y.run.position => x = y
  /\ \A n \in 0..(Total - 1) : \E record \in runs : record.run.position = n

Distinct(list) == \A i, j \in DOMAIN list : list[i] = list[j] => i = j

LEMMA ConditionRecorded ==
  ASSUME NEW runs, Matrix(runs), NEW i \in DOMAIN TaskIds, NEW t \in 0..(Trials - 1),
         NEW b \in DOMAIN Budgets, NEW k \in DOMAIN Policies
  PROVE  \E record \in runs : Describes(record, i, t, b, k)
<1>1. PICK x \in 0..(Len(Policies) - 1) : x = k - 1
  BY MatrixSizes
<1>2. PlaceOf(i, t, b, x) \in 0..(Total - 1)
  BY PlaceDecoded
<1>3. PICK record \in runs : record.run.position = PlaceOf(i, t, b, x)
  BY <1>2 DEF Matrix
<1>4. OfPosition(record)
  BY DEF Matrix
<1>5. Describes(record, i, t, b, k)
  BY <1>1, <1>3, <1>4, PlaceDescribed
<1> QED
  BY <1>5

LEMMA SameCondition ==
  ASSUME NEW runs, Matrix(runs), Distinct(TaskIds), Distinct(Budgets),
         NEW x \in runs, NEW y \in runs, x.task = y.task, x.trial = y.trial,
         x.budget = y.budget, x.index = y.index
  PROVE  x = y
<1>1. OfPosition(x) /\ OfPosition(y)
  BY DEF Matrix
<1>2. PICK i \in DOMAIN TaskIds, t \in 0..(Trials - 1), b \in DOMAIN Budgets,
           k \in DOMAIN Policies : Describes(x, i, t, b, k)
  BY <1>1, RecordDescribed
<1>3. PICK j \in DOMAIN TaskIds, u \in 0..(Trials - 1), c \in DOMAIN Budgets,
           l \in DOMAIN Policies : Describes(y, j, u, c, l)
  BY <1>1, RecordDescribed
<1>4. TaskIds[i] = TaskIds[j] /\ t = u /\ Budgets[b] = Budgets[c] /\ k - 1 = l - 1
  BY <1>2, <1>3 DEF Describes
<1>5. i = j /\ b = c
  BY <1>4 DEF Distinct
<1>6. x.run.position = y.run.position
  BY <1>2, <1>3, <1>4, <1>5 DEF Describes
<1> QED
  BY <1>6 DEF Matrix

----------------------------------------------------------------------------
(* The records of one row: one for each trial.                             *)
Condition(i, b, p) == [task |-> TaskIds[i], budget |-> Budgets[b], policy |-> Policies[p]]
RowOf(runs, key) == {record \in runs : KeyOf(record) = key}

LEMMA KeyOfCondition ==
  ASSUME Shuffled, NEW record, OfPosition(record)
  PROVE  \E i \in DOMAIN TaskIds, b \in DOMAIN Budgets, p \in DOMAIN Policies :
           KeyOf(record) = Condition(i, b, p)
<1>1. PICK i \in DOMAIN TaskIds, t \in 0..(Trials - 1), b \in DOMAIN Budgets,
           k \in DOMAIN Policies : Describes(record, i, t, b, k)
  BY RecordDescribed
<1>2. PICK p \in DOMAIN Policies : OrderedPolicies(t)[k] = Policies[p]
  BY EachPolicyOnce
<1>3. KeyOf(record) = Condition(i, b, p)
  BY <1>1, <1>2 DEF KeyOf, Condition, Describes
<1> QED
  BY <1>3

LEMMA RowComplete ==
  ASSUME NEW runs, Matrix(runs), Shuffled, Distinct(TaskIds), Distinct(Budgets),
         NEW i \in DOMAIN TaskIds, NEW b \in DOMAIN Budgets, NEW p \in DOMAIN Policies,
         NEW row, row = RowOf(runs, Condition(i, b, p))
  PROVE  /\ {record.trial : record \in row} = 0..(Trials - 1)
         /\ Cardinality(row) = Trials
         /\ row # {}
<1> DEFINE D == DOMAIN Policies
           T == 0..(Trials - 1)
<1>0. Trials \in Nat \ {0}
  BY ExperimentAssumption
<1>1. ASSUME NEW record \in row
      PROVE  \E t \in T, k \in D :
               Describes(record, i, t, b, k) /\ OrderedPolicies(t)[k] = Policies[p]
  <2>1. record \in runs /\ KeyOf(record) = Condition(i, b, p)
    BY DEF RowOf
  <2>2. PICK j \in DOMAIN TaskIds, t \in T, c \in DOMAIN Budgets, k \in D :
          Describes(record, j, t, c, k)
    BY <2>1, RecordDescribed DEF Matrix
  <2>3. /\ TaskIds[j] = TaskIds[i] /\ Budgets[c] = Budgets[b]
        /\ OrderedPolicies(t)[k] = Policies[p]
    BY <2>1, <2>2 DEF Describes, KeyOf, Condition
  <2>4. j = i /\ c = b
    BY <2>3 DEF Distinct
  <2> QED
    BY <2>2, <2>3, <2>4
<1>2. ASSUME NEW t \in T PROVE \E record \in row : record.trial = t
  <2>1. PICK k \in D : OrderedPolicies(t)[k] = Policies[p]
    BY EachPolicyOnce
  <2>2. PICK record \in runs : Describes(record, i, t, b, k)
    BY ConditionRecorded
  <2>3. KeyOf(record) = Condition(i, b, p) /\ record.trial = t
    BY <2>1, <2>2 DEF Describes, KeyOf, Condition
  <2> QED
    BY <2>3 DEF RowOf
<1>3. ASSUME NEW x \in row, NEW y \in row, x.trial = y.trial PROVE x = y
  <2>1. PICK t \in T, k \in D :
          Describes(x, i, t, b, k) /\ OrderedPolicies(t)[k] = Policies[p]
    BY <1>1
  <2>2. PICK u \in T, l \in D :
          Describes(y, i, u, b, l) /\ OrderedPolicies(u)[l] = Policies[p]
    BY <1>1
  <2>3. t = u
    BY <1>3, <2>1, <2>2 DEF Describes
  <2>4. k = l
    <3>1. OrderedPolicies(t)[k] = OrderedPolicies(t)[l]
      BY <2>1, <2>2, <2>3
    <3>2. \A m, n \in D : OrderedPolicies(t)[m] = OrderedPolicies(t)[n] => m = n
      BY EachPolicyOnce
    <3> QED
      BY <3>1, <3>2
  <2>5. x.run.position = y.run.position
    BY <2>1, <2>2, <2>3, <2>4 DEF Describes
  <2> QED
    BY <2>5 DEF Matrix, RowOf
<1>4. \A record \in row : record.trial \in T
  BY <1>1 DEF Describes
<1> HIDE DEF T
<1>5. {record.trial : record \in row} = T
  BY <1>2, <1>4
<1>6. Cardinality(row) = Trials
  <2> DEFINE f == [record \in row |-> record.trial]
  <2>1. /\ f \in [row -> T]
        /\ \A x, y \in row : f[x] = f[y] => x = y
        /\ \A t \in T : \E record \in row : f[record] = t
    BY <1>2, <1>3, <1>4
  <2> HIDE DEF f
  <2>2. f \in Bijection(row, T)
    BY <2>1 DEF Bijection, Injection, Surjection, IsInjective
  <2>3. f \in Surjection(row, T) /\ f \in Injection(row, T)
    BY <2>2 DEF Bijection
  <2>4. IsFiniteSet(T) /\ Cardinality(T) = Trials
    BY <1>0, FS_Interval DEF T
  <2>5. IsFiniteSet(row)
    BY <2>3, <2>4, FS_Injection
  <2> QED
    BY <2>2, <2>4, <2>5, FS_Bijection DEF ExistsBijection
<1>7. row # {}
  <2>1. 0 \in T
    BY <1>0 DEF T
  <2> QED
    BY <1>2, <2>1
<1> QED
  BY <1>5, <1>6, <1>7 DEF T

(* A table of the whole matrix.                                            *)
LEMMA TableComplete ==
  ASSUME NEW runs, Matrix(runs), Shuffled, Distinct(TaskIds), Distinct(Budgets)
  PROVE  /\ Rows(runs) =
              {[key |-> [task |-> TaskIds[i], budget |-> Budgets[b], policy |-> Policies[p]],
                sample_size |-> Trials] :
                 i \in DOMAIN TaskIds, b \in DOMAIN Budgets, p \in DOMAIN Policies}
         /\ \A key \in {KeyOf(record) : record \in runs} :
              {record.trial : record \in {of \in runs : KeyOf(of) = key}} = 0..(Trials - 1)
<1> DEFINE I == DOMAIN TaskIds
           B == DOMAIN Budgets
           P == DOMAIN Policies
<1>1. ASSUME NEW record \in runs
      PROVE  \E i \in I, b \in B, p \in P : KeyOf(record) = Condition(i, b, p)
  BY KeyOfCondition DEF Matrix
<1>2. ASSUME NEW i \in I, NEW b \in B, NEW p \in P
      PROVE  /\ SampleSize(runs, Condition(i, b, p)) = Trials
             /\ \E record \in runs : KeyOf(record) = Condition(i, b, p)
             /\ {record.trial : record \in {of \in runs : KeyOf(of) = Condition(i, b, p)}}
                  = 0..(Trials - 1)
  <2>1. PICK row : row = RowOf(runs, Condition(i, b, p))
    OBVIOUS
  <2>2. /\ {record.trial : record \in row} = 0..(Trials - 1)
        /\ Cardinality(row) = Trials
        /\ row # {}
    BY <2>1, RowComplete
  <2>3. row = {of \in runs : KeyOf(of) = Condition(i, b, p)}
    BY <2>1 DEF RowOf
  <2>4. SampleSize(runs, Condition(i, b, p)) = Cardinality(row)
    BY <2>3 DEF SampleSize
  <2>5. \E record \in runs : KeyOf(record) = Condition(i, b, p)
    BY <2>2, <2>3
  <2>6. {record.trial : record \in {of \in runs : KeyOf(of) = Condition(i, b, p)}}
          = 0..(Trials - 1)
    BY <2>2, <2>3, Zenon
  <2> QED
    BY <2>2, <2>4, <2>5, <2>6
<1>3. Rows(runs) = {[key |-> Condition(i, b, p), sample_size |-> Trials] :
                      i \in I, b \in B, p \in P}
  <2>1. ASSUME NEW row \in Rows(runs)
        PROVE  \E i \in I, b \in B, p \in P :
                 row = [key |-> Condition(i, b, p), sample_size |-> Trials]
    <3>1. PICK record \in runs : row = [key |-> KeyOf(record),
                                        sample_size |-> SampleSize(runs, KeyOf(record))]
      BY DEF Rows
    <3>2. PICK i \in I, b \in B, p \in P : KeyOf(record) = Condition(i, b, p)
      BY <1>1
    <3>3. SampleSize(runs, KeyOf(record)) = Trials
      BY <1>2, <3>2
    <3> QED
      BY <3>1, <3>2, <3>3
  <2>2. ASSUME NEW i \in I, NEW b \in B, NEW p \in P
        PROVE  [key |-> Condition(i, b, p), sample_size |-> Trials] \in Rows(runs)
    <3>1. PICK record \in runs : KeyOf(record) = Condition(i, b, p)
      BY <1>2
    <3>2. SampleSize(runs, KeyOf(record)) = Trials
      BY <1>2, <3>1
    <3>3. [key |-> KeyOf(record), sample_size |-> SampleSize(runs, KeyOf(record))] \in Rows(runs)
      BY DEF Rows
    <3> QED
      BY <3>1, <3>2, <3>3
  <2> HIDE DEF I, B, P
  <2> QED
    BY <2>1, <2>2
<1>4. ASSUME NEW key \in {KeyOf(record) : record \in runs}
      PROVE  {record.trial : record \in {of \in runs : KeyOf(of) = key}} = 0..(Trials - 1)
  <2>1. PICK record \in runs : key = KeyOf(record)
    OBVIOUS
  <2>2. PICK i \in I, b \in B, p \in P : key = Condition(i, b, p)
    BY <1>1, <2>1
  <2> QED
    BY <1>2, <2>2
<1> QED
  BY <1>3, <1>4 DEF Condition

----------------------------------------------------------------------------
(* The rotation is fair: the record of a policy in one place answers one   *)
(* of the same policy in any other place, in another trial.                *)
HeldBy(runs, p, index) ==
  {record \in runs : record.policy = Policies[p] /\ record.index = index - 1}
Answers(y, x, d) ==
  y.task = x.task /\ y.budget = x.budget /\ y.trial = Shift(x.trial, d)

LEMMA HeldAsOften ==
  ASSUME NEW runs, IsFiniteSet(runs), Matrix(runs), Distinct(TaskIds), Distinct(Budgets),
         order = "rotate", Trials % Len(Policies) = 0,
         NEW p \in DOMAIN Policies, NEW i \in DOMAIN Policies, NEW j \in DOMAIN Policies
  PROVE  Cardinality(HeldBy(runs, p, i)) <= Cardinality(HeldBy(runs, p, j))
<1> DEFINE X == HeldBy(runs, p, i)
           Y == HeldBy(runs, p, j)
           T == 0..(Trials - 1)
<1>d. PICK d : d = i - j
  OBVIOUS
<1>s. ASSUME NEW t \in T
      PROVE  /\ Shift(t, d) \in T
             /\ OrderedPolicies(Shift(t, d))[j] = OrderedPolicies(t)[i]
             /\ \A v \in T : Shift(v, d) = Shift(t, d) => v = t
  <2>1. PICK u : u = Shift(t, d)
    OBVIOUS
  <2>2. /\ u \in T
        /\ (j - 1 + (u % Len(Policies))) % Len(Policies)
             = (i - 1 + (t % Len(Policies))) % Len(Policies)
        /\ \A v \in T : Shift(v, d) = u => v = t
    BY <1>d, <2>1, Shifted
  <2>3. OrderedPolicies(u)[j] = OrderedPolicies(t)[i]
    BY <2>2 DEF OrderedPolicies
  <2> QED
    BY <2>1, <2>2, <2>3
<1>1. ASSUME NEW x \in X PROVE x.trial \in T /\ \E y \in Y : Answers(y, x, d)
  <2>1. x \in runs /\ x.policy = Policies[p] /\ x.index = i - 1 /\ OfPosition(x)
    BY DEF HeldBy, Matrix
  <2>2. PICK q \in DOMAIN TaskIds, t \in T, b \in DOMAIN Budgets, k \in DOMAIN Policies :
          Describes(x, q, t, b, k)
    BY <2>1, RecordDescribed
  <2>3. k = i
    <3>1. k - 1 = i - 1
      BY <2>1, <2>2 DEF Describes
    <3> QED
      BY <3>1, MatrixSizes
  <2>4. x.task = TaskIds[q] /\ x.trial = t /\ x.budget = Budgets[b]
        /\ OrderedPolicies(t)[i] = Policies[p]
    BY <2>1, <2>2, <2>3 DEF Describes
  <2>5. PICK u \in T : u = Shift(t, d) /\ OrderedPolicies(u)[j] = Policies[p]
    BY <1>s, <2>4
  <2>6. PICK y \in runs : Describes(y, q, u, b, j)
    BY ConditionRecorded
  <2>7. y \in Y /\ Answers(y, x, d)
    BY <2>4, <2>5, <2>6 DEF Describes, HeldBy, Answers
  <2> QED
    BY <2>4, <2>7
<1> DEFINE f == [x \in X |-> CHOOSE y \in Y : Answers(y, x, d)]
<1>2. \A x \in X : f[x] \in Y /\ Answers(f[x], x, d)
  BY <1>1
<1>3. f \in [X -> Y]
  BY <1>1
<1> HIDE DEF f
<1>4. ASSUME NEW x \in X, NEW y \in X, f[x] = f[y] PROVE x = y
  <2>1. x.task = y.task /\ x.budget = y.budget /\ Shift(x.trial, d) = Shift(y.trial, d)
    BY <1>2, <1>4 DEF Answers
  <2>2. x.trial = y.trial
    BY <1>1, <1>s, <2>1
  <2>3. x \in runs /\ y \in runs /\ x.index = y.index
    BY DEF HeldBy
  <2> QED
    BY <2>1, <2>2, <2>3, SameCondition
<1>5. f \in Injection(X, Y)
  <2> HIDE DEF X, Y
  <2> QED
    BY <1>3, <1>4 DEF Injection, IsInjective
<1>6. IsFiniteSet(Y)
  BY FS_Subset DEF HeldBy
<1> HIDE DEF X, Y
<1>7. Cardinality(X) <= Cardinality(Y)
  BY <1>5, <1>6, FS_Injection
<1> QED
  BY <1>7 DEF X, Y

----------------------------------------------------------------------------
(* Records and the record being written are of their positions, and no two *)
(* are of one position of one invocation.                                  *)
Labelled ==
  /\ Shuffled
  /\ \A record \in records : OfPosition(record)
  /\ \A r \in Runners : at[r] = "recording" => OfPosition(returned[r])
  /\ \A x, y \in records : x.run.by = y.run.by /\ x.run.position = y.run.position => x = y

LEMMA LabelledInit == Init => Labelled
  BY DEF Init, Labelled, Shuffled

LEMMA LabelledNext == OnDisk /\ Typed /\ Labelled /\ [Next]_vars => Labelled'
<1> SUFFICES ASSUME OnDisk, Typed, Labelled, [Next]_vars PROVE Labelled'
  OBVIOUS
<1>1. UNCHANGED <<order, shuffle>>
  BY StraggleChanges
     DEF Next, Progress, Invoke, Check, Configure, NextCondition, OpenWorkspace,
         RunAgent, AgentRaises, Evaluate, BeginTrace, EndTrace, OpenRecord,
         WriteRecord, Raise, Kill, Terminated, vars, AllButClones
<1>2. \A n : PolicyAt(n)' = PolicyAt(n) /\ TaskAt(n)' = TaskAt(n) /\ TrialAt(n)' = TrialAt(n)
             /\ BudgetAt(n)' = BudgetAt(n) /\ IndexAt(n)' = IndexAt(n) /\ Total' = Total
  BY <1>1 DEF PolicyAt, OrderedPolicies, TaskAt, TrialAt, BudgetAt, IndexAt, Total, PerTask,
              PerTrial
<1>3. \A record : OfPosition(record)' <=> OfPosition(record)
  BY <1>2 DEF OfPosition
<1>4. Shuffled'
  BY <1>1 DEF Labelled, Shuffled
<1>5. ASSUME UNCHANGED records,
             \A r \in Runners :
               at'[r] = "recording" => at[r] = "recording" /\ returned'[r] = returned[r]
      PROVE  Labelled'
  BY <1>3, <1>4, <1>5 DEF Labelled
<1>6. ASSUME NEW r \in Runners, OpenRecord(r) PROVE Labelled'
  <2>1. /\ at[r] = "record" /\ UNCHANGED <<records, position>>
        /\ returned' = [returned EXCEPT ![r] = RunRecord(r)]
        /\ \A other \in Runners \ {r} : at'[other] = at[other]
    BY <1>6 DEF OpenRecord, Go, OnDisk
  <2>2. position[r] \in 0..(Total - 1)
    BY <2>1, MatrixSizes DEF Typed, Started, Working
  <2>3. OfPosition(RunRecord(r))
    BY <2>2 DEF OfPosition, RunRecord, Run
  <2>4. /\ returned'[r] = RunRecord(r)
        /\ \A other \in Runners \ {r} : returned'[other] = returned[other]
    BY <2>1 DEF OnDisk
  <2> QED
    BY <1>3, <1>4, <2>1, <2>3, <2>4 DEF Labelled
<1>7. ASSUME NEW r \in Runners, WriteRecord(r) PROVE Labelled'
  <2>1. /\ at[r] = "recording" /\ UNCHANGED returned
        /\ records' = records \cup {returned[r]}
        /\ at'[r] # "recording" /\ \A other \in Runners \ {r} : at'[other] = at[other]
    BY <1>7 DEF WriteRecord, Recorded, Go, OnDisk
  <2>2. returned[r].run = Run(r) /\ ~Past(Run(r))
    BY <2>1, PresentIsNotPast DEF OnDisk
  <2>3. ASSUME NEW x \in records, x.run.by = Run(r).by, x.run.position = Run(r).position
        PROVE  FALSE
    BY <2>2, <2>3 DEF OnDisk, Past
  <2>4. \A x, y \in records' :
          x.run.by = y.run.by /\ x.run.position = y.run.position => x = y
    BY <2>1, <2>2, <2>3 DEF Labelled
  <2> QED
    BY <1>3, <1>4, <2>1, <2>4 DEF Labelled
<1>8. ASSUME NEW r \in Runners,
             \/ Check(r) \/ Configure(r) \/ NextCondition(r) \/ OpenWorkspace(r)
             \/ RunAgent(r) \/ AgentRaises(r) \/ Evaluate(r) \/ BeginTrace(r) \/ EndTrace(r)
             \/ Raise(r) \/ Kill(r) \/ Invoke(r)
      PROVE  Labelled'
  <2>1. UNCHANGED <<records, returned>>
    BY <1>8 DEF Check, Configure, NextCondition, OpenWorkspace, RunAgent, AgentRaises,
                Evaluate, BeginTrace, EndTrace, Raise, Kill, Invoke, artifacts
  <2>2. PICK onto : Go(r, onto) /\ onto # "recording"
    BY <1>8 DEF Check, Configure, NextCondition, OpenWorkspace, RunAgent, AgentRaises,
                Evaluate, BeginTrace, EndTrace, Raise, Kill, Invoke, Unwind
  <2> QED
    BY <1>5, <2>1, <2>2 DEF Go, OnDisk
<1>9. CASE Straggle \/ UNCHANGED vars
  BY <1>5, <1>9, StraggleChanges DEF AllButClones, artifacts
<1> QED
  BY <1>6, <1>7, <1>8, <1>9 DEF Next, Progress, Terminated

----------------------------------------------------------------------------
(* The tasks an invocation has begun have their baselines, each its own:   *)
(* an invocation that finishes had no two tasks of one id.                 *)
BeginsAt(i) == (i - 1) * PerTask
Begun(r) == {i \in DOMAIN TaskIds :
               BeginsAt(i) < position[r] \/ (BeginsAt(i) = position[r] /\ at[r] # "next")}

HasBaselines(r) ==
  /\ at[r] \in Working =>
       /\ prepared[r] = {TaskIds[i] : i \in Begun(r)}
       /\ \A i, j \in Begun(r) : TaskIds[i] = TaskIds[j] => i = j
  /\ at[r] = "finished" => position[r] = Total /\ Distinct(TaskIds)

Baselines == \A r \in Runners : HasBaselines(r)

LEMMA Beginnings ==
  /\ \A i \in DOMAIN TaskIds : BeginsAt(i) \in 0..(Total - 1)
  /\ \A i, j \in DOMAIN TaskIds : BeginsAt(i) = BeginsAt(j) => i = j
  /\ \A n \in 0..(Total - 1) :
       IF n % PerTask = 0
       THEN \E i \in DOMAIN TaskIds : BeginsAt(i) = n /\ TaskAt(n) = TaskIds[i]
       ELSE \A i \in DOMAIN TaskIds : BeginsAt(i) # n
<1>1. PICK m, k \in Nat \ {0} : m = Len(TaskIds) /\ k = PerTask
  BY MatrixSizes
<1>2. DOMAIN TaskIds = 1..m /\ Total = m * k
  BY <1>1, MatrixSizes DEF Total
<1>3. ASSUME NEW i \in DOMAIN TaskIds
      PROVE  /\ BeginsAt(i) \in 0..(Total - 1)
             /\ BeginsAt(i) \div k = i - 1 /\ BeginsAt(i) % k = 0
  <2>1. PICK q \in 0..(m - 1) : q = i - 1
    BY <1>2
  <2>2. q * k + 0 \in 0..(m * k - 1)
    BY PutTogether
  <2>3. (q * k + 0) \div k = q /\ (q * k + 0) % k = 0
    BY Divided
  <2>4. q * k + 0 = q * k
    BY <2>1
  <2>5. BeginsAt(i) = q * k + 0
    BY <1>1, <2>1, <2>4 DEF BeginsAt
  <2> QED
    BY <1>2, <2>1, <2>2, <2>3, <2>5
<1>4. ASSUME NEW i \in DOMAIN TaskIds, NEW j \in DOMAIN TaskIds, BeginsAt(i) = BeginsAt(j)
      PROVE  i = j
  <2>1. i - 1 = j - 1
    BY <1>3, <1>4
  <2> QED
    BY <1>2, <2>1
<1>5. ASSUME NEW n \in 0..(Total - 1), n % PerTask = 0
      PROVE  \E i \in DOMAIN TaskIds : BeginsAt(i) = n /\ TaskAt(n) = TaskIds[i]
  <2>1. PICK q \in 0..(m - 1), u \in 0..(k - 1) : n = q * k + u
    BY <1>2, TakenApart
  <2>2. n \div k = q /\ n % k = u
    BY <2>1, Divided
  <2>3. u = 0 /\ n = q * k
    BY <1>1, <1>5, <2>1, <2>2
  <2>4. q + 1 \in DOMAIN TaskIds /\ (q + 1) - 1 = q /\ 1 + q = q + 1
    BY <1>2, <2>1
  <2>5. BeginsAt(q + 1) = n
    BY <1>1, <2>3, <2>4 DEF BeginsAt
  <2>6. TaskAt(n) = TaskIds[q + 1]
    BY <1>1, <2>2, <2>4 DEF TaskAt
  <2> QED
    BY <2>4, <2>5, <2>6
<1> QED
  BY <1>1, <1>3, <1>4, <1>5

LEMMA BaselinesInit == Init => Baselines
  BY DEF Init, Baselines, HasBaselines, Working

LEMMA BaselinesNext == Typed /\ Grading /\ Baselines /\ [Next]_vars => Baselines'
<1> SUFFICES ASSUME Typed, Grading, Baselines, [Next]_vars PROVE Baselines'
  OBVIOUS
<1>a. ASSUME NEW r \in Runners, at'[r] = at[r], position'[r] = position[r],
             prepared'[r] = prepared[r]
      PROVE  HasBaselines(r)'
  <2>1. Begun(r)' = Begun(r)
    BY <1>a DEF Begun, BeginsAt, PerTask, PerTrial
  <2> QED
    BY <1>a, <2>1 DEF Baselines, HasBaselines, Distinct, Total, PerTask, PerTrial
<1>b. ASSUME NEW r \in Runners, Progress(r) \/ Invoke(r) \/ Kill(r), HasBaselines(r)'
      PROVE  Baselines'
  <2>1. ASSUME NEW other \in Runners \ {r} PROVE HasBaselines(other)'
    <3>1. /\ at'[other] = at[other] /\ position'[other] = position[other]
          /\ prepared'[other] = prepared[other]
      BY <1>b DEF Typed, Progress, Invoke, Check, Configure, NextCondition, OpenWorkspace,
           RunAgent, AgentRaises, Evaluate, BeginTrace, EndTrace, OpenRecord,
           WriteRecord, Raise, Kill, Go, Unwind
    <3> QED
      BY <1>a, <3>1
  <2> QED
    BY <1>b, <2>1 DEF Baselines
<1>p. \A r \in Runners : at[r] \in Working => position[r] \in 0..(Total - 1)
  BY MatrixSizes DEF Typed, Started
<1>1. ASSUME NEW r \in Runners,
             \/ Invoke(r) \/ Check(r) \/ AgentRaises(r) \/ Raise(r) \/ Kill(r)
      PROVE  Baselines'
  <2>1. at'[r] \in {"check", "configure", "refused", "raised", "killed"}
    BY <1>1 DEF Invoke, Check, AgentRaises, Raise, Kill, Unwind, Go, Typed
  <2>2. HasBaselines(r)'
    BY <2>1 DEF HasBaselines, Working
  <2> QED
    BY <1>1, <1>b, <2>2 DEF Progress
<1>2. ASSUME NEW r \in Runners, Configure(r) PROVE Baselines'
  <2>1. /\ at[r] = "configure" /\ at'[r] = "next" /\ UNCHANGED <<position, prepared>>
    BY <1>2 DEF Configure, Go, Typed
  <2>2. position'[r] = 0 /\ prepared'[r] = {}
    BY <2>1 DEF Typed, Started, Grading, Clean
  <2>3. Begun(r)' = {}
    <3>1. \A i \in DOMAIN TaskIds : BeginsAt(i) \in Nat /\ BeginsAt(i)' = BeginsAt(i)
      BY Beginnings DEF BeginsAt, PerTask, PerTrial
    <3> QED
      BY <2>1, <2>2, <3>1 DEF Begun
  <2>4. HasBaselines(r)'
    BY <2>1, <2>2, <2>3 DEF HasBaselines
  <2> QED
    BY <1>2, <1>b, <2>4 DEF Progress
<1>3. ASSUME NEW r \in Runners, NextCondition(r) PROVE Baselines'
  <2>1. /\ at[r] = "next" /\ position'[r] = position[r] /\ position[r] \in 0..(Total - 1)
        /\ at'[r] \in {"raised", "clone"}
    BY <1>3, <1>p DEF NextCondition, Go, Typed, Working
  <2>2. CASE at'[r] = "raised"
    <3>1. HasBaselines(r)'
      BY <2>2 DEF HasBaselines, Working
    <3> QED
      BY <1>3, <1>b, <3>1 DEF Progress
  <2>3. CASE at'[r] = "clone"
    <3>1. /\ prepared[r] = {TaskIds[i] : i \in Begun(r)}
          /\ \A i, j \in Begun(r) : TaskIds[i] = TaskIds[j] => i = j
      BY <2>1 DEF Baselines, HasBaselines, Working
    <3>2. Begun(r) = {i \in DOMAIN TaskIds : BeginsAt(i) < position[r]}
      BY <2>1 DEF Begun
    <3>3. Begun(r)' = {i \in DOMAIN TaskIds :
                         BeginsAt(i) < position[r] \/ BeginsAt(i) = position[r]}
      BY <2>1, <2>3 DEF Begun, BeginsAt, PerTask, PerTrial
    <3>4. CASE position[r] % PerTask = 0
      <4>1. /\ TaskAt(position[r]) \notin prepared[r]
            /\ prepared'[r] = prepared[r] \cup {TaskAt(position[r])}
        BY <1>3, <2>3, <3>4 DEF NextCondition, Go, Typed
      <4>2. PICK k \in DOMAIN TaskIds :
              BeginsAt(k) = position[r] /\ TaskAt(position[r]) = TaskIds[k]
        BY <2>1, <3>4, Beginnings
      <4>3. Begun(r)' = Begun(r) \cup {k}
        BY <3>2, <3>3, <4>2, Beginnings
      <4>4. prepared'[r] = {TaskIds[i] : i \in Begun(r)'}
        BY <3>1, <4>1, <4>2, <4>3
      <4>5. \A i, j \in Begun(r)' : TaskIds[i] = TaskIds[j] => i = j
        BY <3>1, <4>1, <4>2, <4>3
      <4>6. HasBaselines(r)'
        BY <2>3, <4>4, <4>5 DEF HasBaselines
      <4> QED
        BY <1>3, <1>b, <4>6 DEF Progress
    <3>5. CASE position[r] % PerTask # 0
      <4>1. prepared'[r] = prepared[r]
        BY <1>3, <3>5 DEF NextCondition
      <4>2. Begun(r)' = Begun(r)
        BY <2>1, <3>2, <3>3, <3>5, Beginnings
      <4>3. HasBaselines(r)'
        BY <2>3, <3>1, <4>1, <4>2 DEF HasBaselines
      <4> QED
        BY <1>3, <1>b, <4>3 DEF Progress
    <3> QED
      BY <3>4, <3>5
  <2> QED
    BY <2>1, <2>2, <2>3
<1>4. ASSUME NEW r \in Runners,
             \/ OpenWorkspace(r) \/ RunAgent(r) \/ Evaluate(r) \/ BeginTrace(r)
             \/ EndTrace(r) \/ OpenRecord(r)
      PROVE  Baselines'
  <2>1. /\ at[r] \in Working \ {"next"} /\ at'[r] \in Working \ {"next"}
        /\ UNCHANGED <<position, prepared>>
    BY <1>4 DEF OpenWorkspace, RunAgent, Evaluate, BeginTrace, EndTrace, OpenRecord, Go,
                Typed, Working
  <2>2. Begun(r)' = Begun(r)
    BY <2>1 DEF Begun, BeginsAt, PerTask, PerTrial
  <2>3. HasBaselines(r)'
    BY <2>1, <2>2 DEF Baselines, HasBaselines, Working
  <2> QED
    BY <1>4, <1>b, <2>3 DEF Progress
<1>5. ASSUME NEW r \in Runners, WriteRecord(r) PROVE Baselines'
  <2>1. /\ at[r] = "recording" /\ position'[r] = position[r] + 1
        /\ \/ at'[r] = "finished" /\ position[r] + 1 = Total
           \/ at'[r] = "next" /\ prepared'[r] = prepared[r]
        /\ position[r] \in 0..(Total - 1)
    BY <1>5, <1>p DEF WriteRecord, LastCondition, Go, Typed, Working
  <2>2. /\ prepared[r] = {TaskIds[i] : i \in Begun(r)}
        /\ \A i, j \in Begun(r) : TaskIds[i] = TaskIds[j] => i = j
    BY <2>1 DEF Baselines, HasBaselines, Working
  <2>3. Begun(r) = {i \in DOMAIN TaskIds : BeginsAt(i) < position[r] + 1}
    BY <2>1, Beginnings DEF Begun
  <2>4. CASE at'[r] = "finished" /\ position[r] + 1 = Total
    <3>1. Begun(r) = DOMAIN TaskIds
      BY <2>3, <2>4, Beginnings, MatrixSizes
    <3>2. position'[r] = Total' /\ Distinct(TaskIds)
      BY <2>1, <2>2, <2>4, <3>1 DEF Distinct, Total, PerTask, PerTrial
    <3>3. HasBaselines(r)'
      BY <2>4, <3>2 DEF HasBaselines, Working, Distinct
    <3> QED
      BY <1>5, <1>b, <3>3 DEF Progress
  <2>5. CASE at'[r] = "next" /\ prepared'[r] = prepared[r]
    <3>1. Begun(r)' = Begun(r)
      BY <2>1, <2>3, <2>5 DEF Begun, BeginsAt, PerTask, PerTrial
    <3>2. HasBaselines(r)'
      BY <2>2, <2>5, <3>1 DEF HasBaselines
    <3> QED
      BY <1>5, <1>b, <3>2 DEF Progress
  <2> QED
    BY <2>1, <2>4, <2>5
<1>6. CASE Straggle \/ UNCHANGED vars
  BY <1>6, <1>a, StraggleChanges DEF AllButClones, Baselines
<1> QED
  BY <1>1, <1>2, <1>3, <1>4, <1>5, <1>6 DEF Next, Progress, Terminated

FinitelyMany == IsFiniteSet(records)

LEMMA RecordsFinite == Spec => []FinitelyMany
<1>1. Init => FinitelyMany
  BY FS_EmptySet DEF Init, FinitelyMany
<1>2. FinitelyMany /\ [Next]_vars => FinitelyMany'
  BY RecordsStayFinite DEF FinitelyMany
<1> QED
  BY <1>1, <1>2, PTL DEF Spec

(* When an invocation returns, every condition has its record and no more. *)
LEMMA FinishedMatrix ==
  ASSUME OnDisk, Labelled, Baselines, OneInvocation, NEW r \in Runners, at[r] = "finished"
  PROVE  Matrix(records) /\ Distinct(TaskIds)
<1>1. position[r] = Total /\ Distinct(TaskIds)
  BY DEF Baselines, HasBaselines
<1>2. \A n \in 0..(Total - 1) : \E record \in records : record.run.position = n
  <2> SUFFICES ASSUME NEW n \in 0..(Total - 1)
               PROVE  \E record \in records : record.run.position = n
    OBVIOUS
  <2>1. \A k \in 0..(position[r] - 1) :
          \E record \in records : record.run = [by |-> Invocation(r), position |-> k]
    BY DEF OnDisk
  <2>2. PICK record \in records : record.run = [by |-> Invocation(r), position |-> n]
    BY <1>1, <2>1
  <2>3. record.run.position = n
    BY <2>2
  <2> QED
    BY <2>3
<1>3. \A x, y \in records : x.run.position = y.run.position => x = y
  BY DEF Labelled, OneInvocation
<1> QED
  BY <1>1, <1>2, <1>3 DEF Labelled, Matrix

(* run() returns only with the full matrix on disk, whatever was killed or *)
(* raised before: a row for each task, budget and policy over all trials,  *)
(* and a rotation of whole turns gives each policy each place as often.    *)
(* Budgets of one name would share their rows, and nothing rejects them.   *)
THEOREM MatrixIsCompleted ==
  ASSUME Distinct(Budgets)
  PROVE  Spec /\ []OneAtATime => []MatrixComplete
<1>1. ASSUME OnDisk, Labelled, Baselines, OneInvocation, FinitelyMany
      PROVE  MatrixComplete
  <2> SUFFICES ASSUME NEW r \in Runners, at[r] = "finished"
      PROVE
        /\ Rows(records) =
             {[key |-> [task |-> TaskIds[i], budget |-> Budgets[b], policy |-> Policies[p]],
               sample_size |-> Trials] :
                i \in DOMAIN TaskIds, b \in DOMAIN Budgets, p \in DOMAIN Policies}
        /\ \A key \in {KeyOf(record) : record \in records} :
             {record.trial : record \in {of \in records : KeyOf(of) = key}} = 0..(Trials - 1)
        /\ (order = "rotate" /\ Trials % Len(Policies) = 0) =>
             \A p, i, j \in DOMAIN Policies :
               Cardinality({record \in records :
                              record.policy = Policies[p] /\ record.index = i - 1})
               = Cardinality({record \in records :
                                record.policy = Policies[p] /\ record.index = j - 1})
    BY DEF MatrixComplete
  <2>1. PICK runs : runs = records
    OBVIOUS
  <2>2. Matrix(runs) /\ Distinct(TaskIds) /\ Shuffled /\ IsFiniteSet(runs)
    BY <1>1, <2>1, FinishedMatrix DEF Labelled, FinitelyMany
  <2>3. /\ Rows(runs) =
             {[key |-> [task |-> TaskIds[i], budget |-> Budgets[b], policy |-> Policies[p]],
               sample_size |-> Trials] :
                i \in DOMAIN TaskIds, b \in DOMAIN Budgets, p \in DOMAIN Policies}
        /\ \A key \in {KeyOf(record) : record \in runs} :
             {record.trial : record \in {of \in runs : KeyOf(of) = key}} = 0..(Trials - 1)
    BY <2>2, TableComplete
  <2>4. ASSUME order = "rotate", Trials % Len(Policies) = 0, NEW p \in DOMAIN Policies,
               NEW i \in DOMAIN Policies, NEW j \in DOMAIN Policies
        PROVE  Cardinality({record \in runs :
                              record.policy = Policies[p] /\ record.index = i - 1})
               = Cardinality({record \in runs :
                                record.policy = Policies[p] /\ record.index = j - 1})
    <3>1. /\ Cardinality(HeldBy(runs, p, i)) <= Cardinality(HeldBy(runs, p, j))
          /\ Cardinality(HeldBy(runs, p, j)) <= Cardinality(HeldBy(runs, p, i))
      BY <2>2, <2>4, HeldAsOften
    <3>2. /\ Cardinality(HeldBy(runs, p, i)) \in Nat
          /\ Cardinality(HeldBy(runs, p, j)) \in Nat
      <4>1. IsFiniteSet(HeldBy(runs, p, i)) /\ IsFiniteSet(HeldBy(runs, p, j))
        BY <2>2, FS_Subset DEF HeldBy
      <4> QED
        BY <4>1, FS_CardinalityType
    <3>3. Cardinality(HeldBy(runs, p, i)) = Cardinality(HeldBy(runs, p, j))
      BY <3>1, <3>2
    <3> QED
      BY <3>3 DEF HeldBy
  <2> QED
    BY <2>1, <2>3, <2>4
<1>2. Spec => []Labelled
  BY LabelledInit, LabelledNext, OnDiskInvariant, TypedInvariant, PTL DEF Spec
<1>3. Spec => []Baselines
  BY BaselinesInit, BaselinesNext, TypedInvariant, GradingInvariant, PTL DEF Spec
<1> QED
  BY <1>1, <1>2, <1>3, OnDiskInvariant, InvocationsAreNotMixed, RecordsFinite, PTL
=============================================================================
