--------------------------- MODULE WorkspaceProofs ---------------------------
(***************************************************************************)
(* Theorems about WorkspaceAgent, for any files, tools and limits: the     *)
(* tools only decide between the outcomes the loop leaves open, and no     *)
(* change of a file is without its trace.  About AgentReport: what is      *)
(* counted from the trace of a run is what the run counted.  And about     *)
(* AgentDeadline: how much a run still does when its time is up.           *)
(***************************************************************************)
EXTENDS WorkspaceAgent, AgentReport, AgentDeadline, AgentLoopProofs, FoldTheorems

LEMMA WorkspaceStepIsLoopStep == [WorkspaceNext]_allVars => [Next]_vars
<1> SUFFICES ASSUME [WorkspaceNext]_allVars PROVE [Next]_vars
  OBVIOUS
<1>1. CASE ToolFree
  BY <1>1 DEF ToolFree, Next, Loop
<1>2. ASSUME NEW tool \in Tools, ReadOnly(tool) PROVE Next
  BY <1>2 DEF ReadOnly, Next, Loop
<1>3. CASE WriteFile
  <2>1. /\ "write_file" \in Tools
        /\ \A path \in Paths \cup {NoPath} : path \in PathsNamed("write_file")
    BY <1>3 DEF WriteFile, PathsNamed
  <2>2. (\E path \in Paths \cup {NoPath} : ExecuteTool("write_file", path)) \/ Raise
    BY <1>3 DEF WriteFile
  <2> QED BY <2>1, <2>2 DEF Next, Loop
<1>4. CASE RunCommand
  <2>1. NoPath \in PathsNamed("run_command")
    BY DEF PathsNamed
  <2> QED BY <1>4, <2>1 DEF RunCommand, Next, Loop
<1>5. CASE (TimeExpires \/ Terminated) /\ UNCHANGED fileVars
  BY <1>5 DEF Next
<1>6. CASE StragglerWrites \/ StragglerEnds \/ UNCHANGED allVars
  BY <1>6 DEF StragglerWrites, StragglerEnds, allVars
<1> QED
  BY <1>1, <1>2, <1>3, <1>4, <1>5, <1>6 DEF WorkspaceNext, AgentStep

(* With its tools the loop is the CodingAgent of AgentLoop: each of its    *)
(* behaviours is one AgentLoop allows, whatever a command leaves behind.   *)
THEOREM WorkspaceImplementsLoop == WorkspaceSpec => Spec
<1>1. WorkspaceInit => Init
  BY DEF WorkspaceInit
<1> QED BY <1>1, WorkspaceStepIsLoopStep, PTL DEF WorkspaceSpec, Spec

----------------------------------------------------------------------------
(* The paths a trace names as written.                                     *)
Named(trace) == {trace[i].path : i \in WritesIn(trace)}

LEMMA NamedAppend ==
  ASSUME NEW s \in Seq(AgentEvents), NEW e \in AgentEvents
  PROVE  Named(Append(s, e)) =
           IF e.note = "write_file" /\ e.path # NoPath
           THEN Named(s) \cup {e.path} ELSE Named(s)
<1>1. /\ DOMAIN Append(s, e) = DOMAIN s \cup {Len(s) + 1}
      /\ \A i \in DOMAIN s : Append(s, e)[i] = s[i]
      /\ Append(s, e)[Len(s) + 1] = e
      /\ Len(s) + 1 \notin DOMAIN s
  BY AppendIndices
<1>2. CASE e.note = "write_file" /\ e.path # NoPath
  <2>1. WritesIn(Append(s, e)) = WritesIn(s) \cup {Len(s) + 1}
    BY <1>1, <1>2 DEF WritesIn
  <2>2. \A i \in WritesIn(s) : Append(s, e)[i] = s[i]
    BY <1>1 DEF WritesIn
  <2> DEFINE t == Append(s, e)
  <2>3. {t[i].path : i \in WritesIn(s) \cup {Len(s) + 1}} =
          {t[i].path : i \in WritesIn(s)} \cup {t[Len(s) + 1].path}
    OBVIOUS
  <2>4. {t[i].path : i \in WritesIn(s)} = {s[i].path : i \in WritesIn(s)}
    BY <2>2
  <2> QED
    BY <1>1, <1>2, <2>1, <2>3, <2>4 DEF Named
<1>3. CASE ~(e.note = "write_file" /\ e.path # NoPath)
  <2>1. WritesIn(Append(s, e)) = WritesIn(s)
    BY <1>1, <1>3 DEF WritesIn
  <2>2. \A i \in WritesIn(s) : Append(s, e)[i] = s[i]
    BY <1>1 DEF WritesIn
  <2> QED
    BY <1>3, <2>1, <2>2 DEF Named
<1> QED
  BY <1>2, <1>3

(* An event that is no write result adds no path.                          *)
LEMMA NamedByOthers ==
  ASSUME TypeOK, NEW kind \in Kinds, NEW note \in Notes \ {"write_file"},
         NEW path \in Paths \cup {NoPath}, NEW trace \in Seq(AgentEvents)
  PROVE  /\ Named(Append(trace, Event(kind, note, path))) = Named(trace)
         /\ Append(trace, Event(kind, note, path)) \in Seq(AgentEvents)
<1>1. Event(kind, note, path) \in AgentEvents
  BY EventTyped
<1>2. Event(kind, note, path).note = note
  BY DEF Event
<1> QED
  BY <1>1, <1>2, NamedAppend, AppendTyped

LEMMA FailsUnnamed ==
  ASSUME TypeOK, NEW reason \in LimitReasons, FailLimit(reason)
  PROVE  Named(events') = Named(events)
<1>1. "status" \in Kinds /\ reason \in Notes \ {"write_file"} /\ events \in Seq(AgentEvents)
  BY DEF Kinds, Notes, LimitReasons, TypeOK
<1> QED
  BY <1>1, NamedByOthers DEF FailLimit, Emit

LEMMA PreparedUnnamed ==
  ASSUME TypeOK, NEW compaction \in Compactions
  PROVE  Named(PreparedTrace(compaction)) = Named(events)
<1>1. /\ {"compaction", "retrieval", "context_prepared"} \subseteq Kinds
      /\ {"none", "automatic", compaction} \subseteq Notes \ {"write_file"}
      /\ NoPath \in Paths \cup {NoPath}
  BY DEF Kinds, Notes, Compactions
<1>2. events \in Seq(AgentEvents)
  BY DEF TypeOK
<1>3. /\ Named(Append(events, Event("compaction", compaction, NoPath))) = Named(events)
      /\ Append(events, Event("compaction", compaction, NoPath)) \in Seq(AgentEvents)
      /\ Named(Append(events, Event("retrieval", "automatic", NoPath))) = Named(events)
      /\ Append(events, Event("retrieval", "automatic", NoPath)) \in Seq(AgentEvents)
  BY <1>1, <1>2, NamedByOthers
<1>4. \A trace \in Seq(AgentEvents) :
        Named(Append(trace, Event("context_prepared", "none", NoPath))) = Named(trace)
  BY <1>1, NamedByOthers
<1> QED
  BY <1>2, <1>3, <1>4, PreparedTraceShape

LEMMA ExecutedNamed ==
  ASSUME TypeOK, NEW tool \in Tools, NEW path \in PathsNamed(tool),
         ExecuteTool(tool, path)
  PROVE  /\ Named(events') = IF tool = "write_file" /\ path # NoPath
                             THEN Named(events) \cup {path} ELSE Named(events)
         /\ \E i \in DOMAIN events' : events'[i].note = tool /\ events'[i].path = path
<1>1. /\ tool \in Notes /\ path \in Paths \cup {NoPath}
      /\ {"retrieval", "tool_result"} \subseteq Kinds
      /\ "explicit" \in Notes \ {"write_file"} /\ NoPath \in Paths \cup {NoPath}
  BY DataAssumption DEF Notes, ToolNames, PathsNamed, Kinds
<1>2. events \in Seq(AgentEvents)
  BY DEF TypeOK
<1> DEFINE result == Event("tool_result", tool, path)
<1>3. result \in AgentEvents
  BY <1>1, EventTyped
<1>4. result.note = tool /\ result.path = path
  BY DEF Event
<1>5. PICK recovered \in Seq(AgentEvents) :
        events' = Append(recovered, result) /\ Named(recovered) = Named(events)
  <2> DEFINE after == Append(events, Event("retrieval", "explicit", NoPath))
  <2>1. events' = Append(events, result) \/ events' = Append(after, result)
    BY DEF ExecuteTool
  <2>2. Named(after) = Named(events) /\ after \in Seq(AgentEvents)
    BY <1>1, <1>2, NamedByOthers
  <2> HIDE DEF after
  <2> QED
    BY <1>2, <2>1, <2>2
<1> HIDE DEF result
<1>6. Named(events') = IF tool = "write_file" /\ path # NoPath
                       THEN Named(events) \cup {path} ELSE Named(events)
  BY <1>3, <1>4, <1>5, NamedAppend
<1>7. Len(recovered) + 1 \in DOMAIN events' /\ events'[Len(recovered) + 1] = result
  BY <1>3, <1>5, AppendIndices
<1> QED
  BY <1>4, <1>6, <1>7

(* files_modified follows the write results.                               *)
LEMMA FilesModifiedNext ==
  TypeOK /\ FilesModifiedTraced /\ [Next]_vars => FilesModifiedTraced'
<1> SUFFICES ASSUME TypeOK, FilesModifiedTraced, [Next]_vars
             PROVE  FilesModifiedTraced'
  OBVIOUS
<1>a. ASSUME filesModified' = filesModified, Named(events') = Named(events)
      PROVE  FilesModifiedTraced'
  BY <1>a DEF FilesModifiedTraced, Named
<1>b. /\ {"status", "context_failure", "inference_response"} \subseteq Kinds
      /\ {"none", "completed"} \subseteq Notes \ {"write_file"}
      /\ NoPath \in Paths \cup {NoPath} /\ events \in Seq(AgentEvents)
  BY DEF Kinds, Notes, TypeOK
<1>1. CASE Start \/ Raise \/ TimeExpires \/ UNCHANGED vars
  <2>1. UNCHANGED <<filesModified, events>>
    BY <1>1 DEF Start, Raise, TimeExpires, vars, work
  <2> QED BY <1>a, <2>1
<1>2. ASSUME NEW compaction \in Compactions, PrepareContext(compaction)
      PROVE  FilesModifiedTraced'
  BY <1>2, <1>a, PreparedUnnamed DEF PrepareContext
<1>3. ASSUME NEW compaction \in Compactions, ContextOverflow(compaction)
      PROVE  FilesModifiedTraced'
  <2>1. Named(events') = Named(events)
    BY <1>3, <1>b, NamedByOthers DEF ContextOverflow, Emit
  <2> QED BY <1>3, <1>a, <2>1 DEF ContextOverflow
<1>4. CASE BeforeModel \/ BeforeTool
  <2>1. {"wall_clock", "model_requests", "tool_calls"} \subseteq LimitReasons
    BY DEF LimitReasons
  <2>2. Named(events') = Named(events)
    BY <1>4, <2>1, FailsUnnamed DEF BeforeModel, BeforeTool
  <2> QED BY <1>4, <1>a, <2>2 DEF BeforeModel, BeforeTool
<1>5. CASE AfterModelRaises \/ StepsExhausted
  <2>1. {"generated_tokens", "steps"} \subseteq LimitReasons
    BY DEF LimitReasons
  <2>2. Named(events') = Named(events)
    BY <1>5, <2>1, FailsUnnamed DEF AfterModelRaises, StepsExhausted
  <2> QED BY <1>5, <1>a, <2>2 DEF AfterModelRaises, StepsExhausted, work
<1>6. CASE MalformedDecision \/ ChooseTool
  <2>1. Named(events') = Named(events)
    <3>1. events' = Append(events, Event("inference_response", "none", NoPath))
      BY <1>6 DEF MalformedDecision, ChooseTool, Emit
    <3> QED BY <1>b, <3>1, NamedByOthers
  <2> QED BY <1>6, <1>a, <2>1 DEF MalformedDecision, ChooseTool, Record
<1>7. CASE Finish
  <2> DEFINE responded == Append(events, Event("inference_response", "none", NoPath))
  <2>1. Named(responded) = Named(events) /\ responded \in Seq(AgentEvents)
    BY <1>b, NamedByOthers
  <2>2. events' = Append(responded, Event("status", "completed", NoPath))
    BY <1>7 DEF Finish
  <2> HIDE DEF responded
  <2>3. Named(events') = Named(events)
    BY <1>b, <2>1, <2>2, NamedByOthers
  <2> QED BY <1>7, <1>a, <2>3 DEF Finish, Record
<1>8. ASSUME NEW tool \in Tools, NEW path \in PathsNamed(tool), ExecuteTool(tool, path)
      PROVE  FilesModifiedTraced'
  <2>1. filesModified' = Modified(tool, path)
    BY <1>8 DEF ExecuteTool
  <2> QED
    BY <1>8, <2>1, ExecutedNamed DEF Modified, FilesModifiedTraced, Named
<1> QED
  BY <1>1, <1>2, <1>3, <1>4, <1>5, <1>6, <1>7, <1>8 DEF Next, Loop, Terminated

----------------------------------------------------------------------------
(* An exception ends the run, and what is in a trace stays in it.          *)
LEMMA RaisedStays == pc = "raised" /\ [Next]_vars => pc' = "raised"
<1> SUFFICES ASSUME pc = "raised", [Next]_vars PROVE pc' = "raised"
  OBVIOUS
<1> QED
  BY DEF Next, Loop, Start, PrepareContext, ContextOverflow, BeforeModel,
         AfterModelRaises, MalformedDecision, Finish, ChooseTool, Record, Answer,
         BeforeTool, ExecuteTool, StepsExhausted, Raise, TimeExpires, Terminated,
         Terminal, vars

LEMMA TracedStays ==
  ASSUME TypeOK, Fresh, [Next]_vars, NEW i \in DOMAIN events
  PROVE  i \in DOMAIN events' /\ events'[i] = events[i]
<1>1. Extends(events', events)
  BY AppendNext
<1>2. events \in Seq(AgentEvents) /\ Len(events) \in Nat /\ i \in 1..Len(events)
  BY DEF TypeOK
<1>3. TypeOK'
  BY TypeNext
<1>4. events' \in Seq(AgentEvents) /\ Len(events') \in Nat
  BY <1>3 DEF TypeOK
<1>5. Len(events') >= Len(events) /\ SubSeq(events', 1, Len(events)) = events
  BY <1>1 DEF Extends
<1>6. SubSeq(events', 1, Len(events))[i] = events'[i]
  BY <1>2, <1>4, <1>5
<1> QED
  BY <1>2, <1>4, <1>5, <1>6

(* What the explanation of the edits rests on.                             *)
Explained ==
  /\ TypeOK /\ Fresh /\ WorkspaceTypeOK /\ EditsExplained

(* A step of the loop that leaves the files and files_modified alone.      *)
LEMMA QuietStep ==
  ASSUME Explained, [Next]_vars, UNCHANGED <<fileVars, filesModified>>
  PROVE  WorkspaceTypeOK' /\ EditsExplained'
<1>1. FilesModifiedTraced'
  BY FilesModifiedNext DEF Explained, EditsExplained
<1>2. commanded' => \E i \in DOMAIN events' : events'[i].note = "run_command"
  BY TracedStays DEF Explained, EditsExplained, fileVars
<1>3. failedWrites' # {} =>
        \/ pc' = "raised"
        \/ \E i \in DOMAIN events' : events'[i].note = "write_file" /\ events'[i].path = NoPath
  BY TracedStays, RaisedStays DEF Explained, EditsExplained, fileVars
<1> QED
  BY <1>1, <1>2, <1>3 DEF Explained, WorkspaceTypeOK, EditsExplained, fileVars

(* Each write, each command and whatever a command left behind.            *)
LEMMA ExplainedNext ==
  Explained /\ [WorkspaceNext]_allVars => WorkspaceTypeOK' /\ EditsExplained'
<1> SUFFICES ASSUME Explained, [WorkspaceNext]_allVars
             PROVE  WorkspaceTypeOK' /\ EditsExplained'
  OBVIOUS
<1>a. [Next]_vars /\ TypeOK /\ Fresh /\ WorkspaceTypeOK /\ EditsExplained
  BY WorkspaceStepIsLoopStep DEF Explained
<1>b. FilesModifiedTraced'
  BY <1>a, FilesModifiedNext DEF EditsExplained
<1>c. /\ commanded => \E i \in DOMAIN events' : events'[i].note = "run_command"
      /\ failedWrites # {} =>
           \/ pc' = "raised"
           \/ \E i \in DOMAIN events' : events'[i].note = "write_file" /\ events'[i].path = NoPath
  BY <1>a, TracedStays, RaisedStays DEF EditsExplained
<1>1. CASE ToolFree
  <2>1. UNCHANGED <<fileVars, filesModified>>
    BY <1>1 DEF ToolFree, Start, PrepareContext, ContextOverflow, BeforeModel,
         AfterModelRaises, MalformedDecision, Finish, ChooseTool, Record,
         BeforeTool, StepsExhausted, Raise, work
  <2> QED BY <1>a, <2>1, QuietStep
<1>2. ASSUME NEW tool \in Tools, ReadOnly(tool)
      PROVE  WorkspaceTypeOK' /\ EditsExplained'
  <2>1. filesModified' = filesModified
    BY <1>2 DEF ReadOnly, ExecuteTool, Modified
  <2>2. UNCHANGED fileVars
    BY <1>2 DEF ReadOnly
  <2> QED BY <1>a, <2>1, <2>2, QuietStep
<1>3. CASE WriteFile
  <2>1. UNCHANGED <<commanded, straggler>> /\ "write_file" \in Tools
        /\ files \in [Paths -> Contents] /\ failedWrites \subseteq Paths
    BY <1>3, <1>a DEF WriteFile, WorkspaceTypeOK
  <2>2. ASSUME NEW path \in Paths, ExecuteTool("write_file", path), Written(path),
               UNCHANGED failedWrites
        PROVE  WorkspaceTypeOK' /\ EditsExplained'
    <3>1. filesModified' = filesModified \cup {path}
      BY <2>2, DataAssumption DEF ExecuteTool, Modified
    <3>2. files' = [files EXCEPT ![path] = "written"] /\ "written" \in Contents
      BY <2>2 DEF Written, Contents
    <3>3. WorkspaceTypeOK'
      BY <1>a, <2>1, <2>2, <3>2 DEF WorkspaceTypeOK
    <3>4. /\ files'[path] = "written" /\ path \in filesModified'
          /\ \A other \in Paths \ {path} : files'[other] = files[other]
      BY <2>1, <3>1, <3>2
    <3> QED
      BY <1>a, <1>b, <1>c, <2>1, <2>2, <3>1, <3>3, <3>4 DEF EditsExplained
  <2>3. ASSUME ExecuteTool("write_file", NoPath)
        PROVE  /\ filesModified' = filesModified
               /\ \E i \in DOMAIN events' : events'[i].note = "write_file" /\ events'[i].path = NoPath
    <3>1. filesModified' = filesModified
      BY <2>3 DEF ExecuteTool, Modified
    <3>2. NoPath \in PathsNamed("write_file")
      BY DEF PathsNamed
    <3> QED BY <1>a, <2>1, <2>3, <3>1, <3>2, ExecutedNamed
  <2>4. CASE ExecuteTool("write_file", NoPath) /\ UNCHANGED <<files, failedWrites>>
    BY <1>a, <2>1, <2>3, <2>4, QuietStep DEF fileVars
  <2>5. ASSUME NEW path \in Paths, Torn(path), filesModified' = filesModified,
               \/ pc' = "raised"
               \/ \E i \in DOMAIN events' : events'[i].note = "write_file" /\ events'[i].path = NoPath
        PROVE  WorkspaceTypeOK' /\ EditsExplained'
    <3>1. /\ files' = [files EXCEPT ![path] = "torn"] /\ "torn" \in Contents
          /\ failedWrites' = failedWrites \cup {path}
      BY <2>5 DEF Torn, Contents
    <3>2. WorkspaceTypeOK'
      BY <1>a, <2>1, <3>1 DEF WorkspaceTypeOK
    <3>3. \A other \in Paths \ {path} : files'[other] = files[other]
      BY <2>1, <3>1
    <3> QED
      BY <1>a, <1>b, <1>c, <2>1, <2>5, <3>1, <3>2, <3>3 DEF EditsExplained
  <2>6. ASSUME NEW path \in Paths, ExecuteTool("write_file", NoPath), Torn(path)
        PROVE  WorkspaceTypeOK' /\ EditsExplained'
    BY <2>3, <2>5, <2>6
  <2>7. ASSUME NEW path \in Paths, Raise, Torn(path)
        PROVE  WorkspaceTypeOK' /\ EditsExplained'
    BY <2>5, <2>7 DEF Raise, work
  <2> QED
    BY <1>3, <2>2, <2>4, <2>6, <2>7 DEF WriteFile
<1>d. ASSUME files' \in Touched
      PROVE  files' \in [Paths -> Contents]
             /\ \A path \in Paths : files'[path] \in {files[path], "command"}
  BY <1>a, <1>d DEF Touched, WorkspaceTypeOK, Contents
<1>4. CASE RunCommand
  <2>1. /\ ExecuteTool("run_command", NoPath) /\ "run_command" \in Tools
        /\ NoPath \in PathsNamed("run_command") /\ UNCHANGED failedWrites
    BY <1>4 DEF RunCommand, PathsNamed
  <2>2. /\ filesModified' = filesModified
        /\ \E i \in DOMAIN events' : events'[i].note = "run_command"
    BY <1>a, <2>1, ExecutedNamed DEF ExecuteTool, Modified
  <2>3. CASE UNCHANGED <<files, commanded, straggler>>
    BY <1>a, <2>1, <2>2, <2>3, QuietStep DEF fileVars
  <2>4. CASE files' \in Touched /\ commanded' = TRUE /\ straggler' \in {straggler, TRUE}
    <3>1. WorkspaceTypeOK'
      BY <1>a, <1>d, <2>1, <2>4 DEF WorkspaceTypeOK
    <3> QED
      BY <1>a, <1>b, <1>c, <1>d, <2>1, <2>2, <2>4, <3>1 DEF EditsExplained
  <2> QED
    BY <1>4, <2>3, <2>4 DEF RunCommand
<1>5. CASE StragglerWrites
  <2>1. /\ UNCHANGED <<vars, failedWrites, commanded, straggler>>
        /\ commanded /\ files' \in Touched
    BY <1>5, <1>a DEF StragglerWrites, WorkspaceTypeOK
  <2>2. WorkspaceTypeOK'
    BY <1>a, <1>d, <2>1 DEF WorkspaceTypeOK
  <2> QED
    BY <1>a, <1>b, <1>c, <1>d, <2>1, <2>2 DEF EditsExplained, vars
<1>6. CASE StragglerEnds
  BY <1>6, <1>a, <1>b, <1>c DEF StragglerEnds, WorkspaceTypeOK, EditsExplained, vars, work
<1>7. CASE (TimeExpires \/ Terminated) /\ UNCHANGED fileVars
  BY <1>7, <1>a, QuietStep DEF TimeExpires, Terminated, vars, work
<1>8. CASE UNCHANGED allVars
  BY <1>8, <1>a, QuietStep DEF allVars, vars, work
<1> QED
  BY <1>1, <1>2, <1>3, <1>4, <1>5, <1>6, <1>7, <1>8 DEF WorkspaceNext, AgentStep

(* A file that differs from the clone is named as modified, or a write of  *)
(* it failed and the trace or an exception says so, or a command ran and   *)
(* the trace says that - for any files, tools, commands and stragglers.    *)
THEOREM EveryEditExplained == WorkspaceSpec => []EditsExplained
<1>1. WorkspaceInit => WorkspaceTypeOK /\ EditsExplained
  <2> SUFFICES ASSUME WorkspaceInit PROVE WorkspaceTypeOK /\ EditsExplained
    OBVIOUS
  <2>1. /\ files = [path \in Paths |-> "baseline"] /\ failedWrites = {}
        /\ commanded = FALSE /\ straggler = FALSE /\ events = <<>> /\ filesModified = {}
    BY DEF WorkspaceInit, Init
  <2>2. FilesModifiedTraced
    BY <2>1 DEF FilesModifiedTraced, WritesIn
  <2>3. WorkspaceTypeOK
    BY <2>1 DEF WorkspaceTypeOK, Contents
  <2> QED
    BY <2>1, <2>2, <2>3 DEF EditsExplained
<1>2. WorkspaceSpec => []TypeOK /\ []Fresh
  BY WorkspaceImplementsLoop, TypeCorrect, FreshInvariant, PTL
<1>3. TypeOK /\ Fresh /\ WorkspaceTypeOK /\ EditsExplained /\ [WorkspaceNext]_allVars
        => WorkspaceTypeOK' /\ EditsExplained'
  BY ExplainedNext DEF Explained
<1> QED
  BY <1>1, <1>2, <1>3, PTL DEF WorkspaceSpec

----------------------------------------------------------------------------
(* The steps a prompt was measured at: those of the answers in the trace.  *)
Answers(trace) == {i \in DOMAIN trace : trace[i].kind = "inference_response"}
Prompts(trace) == {trace[i].step : i \in Answers(trace)}

(* Each answer has a step of its own: none comes after this one, and while *)
(* an answer is still to come this step has none.                          *)
Prompted ==
  /\ Prompts(events) \subseteq 0..step
  /\ pc \in {"start", "prepare", "request", "awaiting"} => step \notin Prompts(events)
  /\ IsFiniteSet(Prompts(events))
  /\ Cardinality(Prompts(events)) = Count(events, "inference_response")

LEMMA PromptsAppend ==
  ASSUME TypeOK, NEW trace \in Seq(AgentEvents), NEW kind \in Kinds, NEW note \in Notes,
         NEW path \in Paths \cup {NoPath}
  PROVE  /\ Append(trace, Event(kind, note, path)) \in Seq(AgentEvents)
         /\ Prompts(Append(trace, Event(kind, note, path))) =
              IF kind = "inference_response" THEN Prompts(trace) \cup {step}
              ELSE Prompts(trace)
<1> DEFINE e == Event(kind, note, path)
           longer == Append(trace, e)
<1>1. e \in AgentEvents /\ e.kind = kind /\ e.step = step
  BY EventTyped DEF Event
<1> HIDE DEF e
<1>2. /\ longer \in Seq(AgentEvents) /\ Len(trace) \in Nat
      /\ DOMAIN longer = DOMAIN trace \cup {Len(trace) + 1}
      /\ Len(trace) + 1 \notin DOMAIN trace
      /\ \A i \in DOMAIN trace : longer[i] = trace[i]
      /\ longer[Len(trace) + 1] = e
  BY <1>1
<1> HIDE DEF longer
<1>3. Answers(longer) = IF kind = "inference_response" THEN Answers(trace) \cup {Len(trace) + 1}
                        ELSE Answers(trace)
  BY <1>1, <1>2 DEF Answers
<1>4. \A i \in Answers(trace) : longer[i].step = trace[i].step
  BY <1>2 DEF Answers
<1>5. Prompts(longer) = IF kind = "inference_response" THEN Prompts(trace) \cup {step}
                        ELSE Prompts(trace)
  BY <1>1, <1>2, <1>3, <1>4 DEF Prompts
<1> QED
  BY <1>2, <1>5 DEF longer, e

(* Where no answer is traced, the answers and their steps stay.            *)
Unanswered ==
  /\ Prompts(events') = Prompts(events)
  /\ Count(events', "inference_response") = Count(events, "inference_response")

LEMMA FailsUnanswered ==
  ASSUME TypeOK, NEW reason \in LimitReasons, FailLimit(reason)
  PROVE  Unanswered
<1>1. events' = Append(events, Event("status", reason, NoPath))
  BY DEF FailLimit, Emit
<1>2. "status" \in Kinds /\ reason \in Notes /\ events \in Seq(AgentEvents)
  BY DEF Kinds, Notes, TypeOK
<1>3. Prompts(events') = Prompts(events)
  BY <1>1, <1>2, PromptsAppend
<1> QED
  BY <1>3, FailureCounted DEF Unanswered

LEMMA PreparesUnanswered ==
  ASSUME TypeOK, NEW compaction \in Compactions,
         PrepareContext(compaction) \/ ContextOverflow(compaction)
  PROVE  Unanswered
<1> DEFINE compacted == Append(events, Event("compaction", compaction, NoPath))
           retrieved == Append(events, Event("retrieval", "automatic", NoPath))
           prepared(trace) == Append(trace, Event("context_prepared", "none", NoPath))
<1>a. /\ events \in Seq(AgentEvents) /\ Count(events, "inference_response") \in Nat
      /\ {"compaction", "retrieval", "context_prepared", "context_failure"} \subseteq Kinds
      /\ {"automatic", "none"} \subseteq Notes /\ compaction \in Notes
  BY CountNat DEF TypeOK, Kinds, Notes, Compactions
<1>1. CASE PrepareContext(compaction)
  <2>1. events' = PreparedTrace(compaction)
    BY <1>1 DEF PrepareContext
  <2>2. \/ events' = prepared(events)
        \/ events' = prepared(compacted)
        \/ events' = prepared(retrieved)
    BY <2>1, PreparedTraceShape
  <2>3. /\ compacted \in Seq(AgentEvents) /\ Prompts(compacted) = Prompts(events)
        /\ retrieved \in Seq(AgentEvents) /\ Prompts(retrieved) = Prompts(events)
    BY <1>a, PromptsAppend
  <2>4. \A trace \in Seq(AgentEvents) : Prompts(prepared(trace)) = Prompts(trace)
    BY <1>a, PromptsAppend
  <2>5. Count(PreparedTrace(compaction), "inference_response") =
          Count(events, "inference_response")
    BY <1>a, PreparedCounted
  <2> HIDE DEF compacted, retrieved, prepared
  <2> QED
    BY <1>a, <2>1, <2>2, <2>3, <2>4, <2>5 DEF Unanswered
<1>2. CASE ContextOverflow(compaction)
  <2>1. events' = Append(events, Event("context_failure", "none", NoPath))
    BY <1>2 DEF ContextOverflow, Emit
  <2>2. Prompts(events') = Prompts(events)
    BY <1>a, <2>1, PromptsAppend
  <2>3. Count(events', "inference_response") = Count(events, "inference_response")
    BY <1>a, <2>1, EventCounted
  <2> QED
    BY <2>2, <2>3 DEF Unanswered
<1> QED
  BY <1>1, <1>2

LEMMA ExecutesUnanswered ==
  ASSUME TypeOK, NEW tool \in Tools, NEW path \in PathsNamed(tool), ExecuteTool(tool, path)
  PROVE  Unanswered
<1> DEFINE recovered == Append(events, Event("retrieval", "explicit", NoPath))
           answer(trace) == Append(trace, Event("tool_result", tool, path))
<1>a. /\ events \in Seq(AgentEvents) /\ Count(events, "inference_response") \in Nat
      /\ {"retrieval", "tool_result"} \subseteq Kinds
      /\ "explicit" \in Notes /\ tool \in Notes /\ path \in Paths \cup {NoPath}
  BY CountNat, DataAssumption DEF TypeOK, Kinds, Notes, ToolNames, PathsNamed
<1>1. events' = answer(recovered) \/ events' = answer(events)
  BY DEF ExecuteTool
<1>2. recovered \in Seq(AgentEvents) /\ Prompts(recovered) = Prompts(events)
  BY <1>a, PromptsAppend
<1>3. \A trace \in Seq(AgentEvents) : Prompts(answer(trace)) = Prompts(trace)
  BY <1>a, PromptsAppend
<1>4. Count(events', "inference_response") = Count(events, "inference_response")
  BY <1>a, ExecutedCounted
<1> HIDE DEF recovered, answer
<1> QED
  BY <1>a, <1>1, <1>2, <1>3, <1>4 DEF Unanswered

LEMMA PromptedKept ==
  ASSUME Prompted, Unanswered,
         \/ step' = step
         \/ step \in Nat /\ step' = step + 1,
         pc' \in {"start", "prepare", "request", "awaiting"} =>
           \/ step' = step /\ pc \in {"start", "prepare", "request", "awaiting"}
           \/ step \in Nat /\ step' = step + 1
  PROVE  Prompted'
<1>1. Prompts(events') \subseteq 0..step'
  BY DEF Prompted, Unanswered
<1>2. pc' \in {"start", "prepare", "request", "awaiting"} => step' \notin Prompts(events')
  BY DEF Prompted, Unanswered
<1>3. /\ IsFiniteSet(Prompts(events'))
      /\ Cardinality(Prompts(events')) = Count(events', "inference_response")
  BY DEF Prompted, Unanswered
<1> QED
  BY <1>1, <1>2, <1>3 DEF Prompted

(* An answer is the first of its step.                                     *)
LEMMA AnswerPrompted ==
  ASSUME TypeOK, Prompted, pc = "awaiting",
         NEW trace \in Seq(AgentEvents),
         trace = Append(events, Event("inference_response", "none", NoPath))
  PROVE  /\ Prompts(trace) \subseteq 0..step /\ IsFiniteSet(Prompts(trace))
         /\ Cardinality(Prompts(trace)) = Count(trace, "inference_response")
<1>1. /\ events \in Seq(AgentEvents) /\ step \in Nat
      /\ "inference_response" \in Kinds /\ "none" \in Notes
      /\ Count(events, "inference_response") \in Nat
  BY CountNat DEF TypeOK, Kinds, Notes
<1>2. /\ Prompts(trace) = Prompts(events) \cup {step}
      /\ Count(trace, "inference_response") = Count(events, "inference_response") + 1
  BY <1>1, PromptsAppend, EventCounted
<1>3. step \notin Prompts(events) /\ IsFiniteSet(Prompts(events))
  BY DEF Prompted
<1>4. /\ IsFiniteSet(Prompts(events) \cup {step})
      /\ Cardinality(Prompts(events) \cup {step}) = Cardinality(Prompts(events)) + 1
  BY <1>3, FS_AddElement
<1>5. Prompts(events) \subseteq 0..step /\ step \in 0..step
  BY <1>1 DEF Prompted
<1>6. Cardinality(Prompts(events)) = Count(events, "inference_response")
  BY DEF Prompted
<1> QED
  BY <1>2, <1>4, <1>5, <1>6

LEMMA PromptedNext == TypeOK /\ Prompted /\ [Next]_vars => Prompted'
<1> SUFFICES ASSUME TypeOK, Prompted, [Next]_vars PROVE Prompted'
  OBVIOUS
<1>a. /\ events \in Seq(AgentEvents) /\ step \in Nat
      /\ {"inference_response", "status"} \subseteq Kinds /\ {"none", "completed"} \subseteq Notes
  BY DEF TypeOK, Kinds, Notes
<1>b. {"wall_clock", "model_requests", "tool_calls", "generated_tokens", "steps"}
        \subseteq LimitReasons
  BY DEF LimitReasons
<1>c. events' = events => Unanswered
  BY DEF Unanswered
<1>1. CASE Start
  BY <1>1, <1>c, PromptedKept DEF Start
<1>2. CASE \E compaction \in Compactions :
             PrepareContext(compaction) \/ ContextOverflow(compaction)
  <2>1. Unanswered
    BY <1>2, PreparesUnanswered
  <2>2. step' = step /\ pc \in {"start", "prepare", "request", "awaiting"}
    BY <1>2 DEF PrepareContext, ContextOverflow
  <2> QED
    BY <2>1, <2>2, PromptedKept
<1>3. CASE BeforeModel \/ AfterModelRaises \/ BeforeTool \/ StepsExhausted
  <2>1. (\E reason \in LimitReasons : FailLimit(reason)) \/ events' = events
    BY <1>3, <1>b DEF BeforeModel, AfterModelRaises, BeforeTool, StepsExhausted
  <2>2. Unanswered
    BY <1>c, <2>1, FailsUnanswered
  <2>3. step' = step /\ (pc' \in {"start", "prepare", "request", "awaiting"} => pc = "request")
    BY <1>3 DEF BeforeModel, AfterModelRaises, BeforeTool, StepsExhausted, FailLimit
  <2> QED
    BY <2>2, <2>3, PromptedKept
<1>4. CASE MalformedDecision \/ ChooseTool
  <2>1. events' = Append(events, Event("inference_response", "none", NoPath))
    BY <1>4 DEF MalformedDecision, ChooseTool, Emit
  <2>2. pc = "awaiting"
    BY <1>4 DEF MalformedDecision, ChooseTool, Record, Answer
  <2>3. events' \in Seq(AgentEvents)
    BY <1>a, <2>1, PromptsAppend
  <2>4. /\ Prompts(events') \subseteq 0..step /\ IsFiniteSet(Prompts(events'))
        /\ Cardinality(Prompts(events')) = Count(events', "inference_response")
    <3>1. PICK trace \in Seq(AgentEvents) : trace = events'
      BY <2>3
    <3> QED
      BY <2>1, <2>2, <3>1, AnswerPrompted
  <2>5. \/ step' = step /\ pc' \in {"tool", "exhausted"}
        \/ step' = step + 1
    BY <1>4 DEF MalformedDecision, ChooseTool, Advance
  <2> QED
    BY <1>a, <2>4, <2>5 DEF Prompted
<1>5. CASE Finish
  <2> DEFINE answer == Append(events, Event("inference_response", "none", NoPath))
  <2>1. events' = Append(answer, Event("status", "completed", NoPath))
    BY <1>5 DEF Finish
  <2>2. pc = "awaiting" /\ pc' = "done" /\ step' = step
    BY <1>5 DEF Finish, Record, Answer
  <2>3. answer \in Seq(AgentEvents)
    BY <1>a, PromptsAppend
  <2>4. /\ Prompts(answer) \subseteq 0..step /\ IsFiniteSet(Prompts(answer))
        /\ Cardinality(Prompts(answer)) = Count(answer, "inference_response")
    BY <2>2, <2>3, AnswerPrompted
  <2> HIDE DEF answer
  <2>5. Count(answer, "inference_response") \in Nat
    BY <2>3, CountNat
  <2>6. /\ Prompts(events') = Prompts(answer)
        /\ Count(events', "inference_response") = Count(answer, "inference_response")
    BY <1>a, <2>1, <2>3, <2>5, PromptsAppend, EventCounted
  <2> QED
    BY <2>2, <2>4, <2>6 DEF Prompted
<1>6. CASE \E tool \in Tools : \E path \in PathsNamed(tool) : ExecuteTool(tool, path)
  <2>1. Unanswered
    BY <1>6, ExecutesUnanswered
  <2>2. (step' = step /\ pc' = "exhausted") \/ step' = step + 1
    BY <1>6 DEF ExecuteTool, Advance
  <2> QED
    BY <1>a, <2>1, <2>2, PromptedKept
<1>7. CASE Raise
  BY <1>7, <1>c, PromptedKept DEF Raise
<1>8. CASE TimeExpires \/ Terminated \/ UNCHANGED vars
  BY <1>8, <1>c, PromptedKept DEF TimeExpires, Terminated, vars
<1> QED
  BY <1>1, <1>2, <1>3, <1>4, <1>5, <1>6, <1>7, <1>8 DEF Next, Loop

LEMMA PromptedInvariant == Spec => []Prompted
<1>1. Init => Prompted
  <2> SUFFICES ASSUME Init PROVE Prompted
    OBVIOUS
  <2>1. Answers(events) = {}
    BY DEF Init, Answers
  <2>2. Prompts(events) = {} /\ Count(events, "inference_response") = 0
    BY <2>1, FS_EmptySet DEF Prompts, Answers, Count
  <2> QED
    BY <2>2, FS_EmptySet DEF Prompted
<1>2. Spec => []TypeOK
  BY TypeCorrect
<1> QED
  BY <1>1, <1>2, PromptedNext, PTL DEF Spec

----------------------------------------------------------------------------
(* What one event adds to the metrics.                                     *)
Metrics == [inference_requests : Nat, repository_tool_calls : Nat,
            context_window_failures : Nat, execution_failures : Nat, timeouts : Nat,
            prompt_growth_by_step : SUBSET Nat]

Unfailed(m) == m.context_window_failures = 0 /\ m.execution_failures = 0 /\ m.timeouts = 0

LEMMA EventTallied ==
  ASSUME NEW m \in Metrics, NEW e \in AgentEvents
  PROVE  LET after == Tally(m, e)
         IN  /\ after \in Metrics
             /\ after.inference_requests =
                  m.inference_requests + (IF e.kind = "inference_response" THEN 1 ELSE 0)
             /\ after.prompt_growth_by_step =
                  IF e.kind = "inference_response" THEN m.prompt_growth_by_step \cup {e.step}
                  ELSE m.prompt_growth_by_step
             /\ after.repository_tool_calls =
                  m.repository_tool_calls + (IF e.kind = "tool_result" THEN 1 ELSE 0)
             /\ after.context_window_failures =
                  m.context_window_failures + (IF e.kind = "context_failure" THEN 1 ELSE 0)
             /\ after.execution_failures =
                  m.execution_failures
                    + (IF e.kind = "status" /\ e.note # "completed" THEN 1 ELSE 0)
             /\ after.timeouts =
                  m.timeouts + (IF e.kind = "status" /\ e.note = "wall_clock" THEN 1 ELSE 0)
<1>1. e.step \in Nat
  BY LimitsAssumption DEF AgentEvents
<1>a. /\ m.inference_requests \in Nat /\ m.repository_tool_calls \in Nat
      /\ m.context_window_failures \in Nat /\ m.execution_failures \in Nat
      /\ m.timeouts \in Nat
  BY DEF Metrics
<1>2. CASE e.kind = "inference_response"
  <2>1. Tally(m, e) = [m EXCEPT !.inference_requests = @ + 1,
                                !.prompt_growth_by_step = @ \cup {e.step}]
    BY <1>2 DEF Tally
  <2>2. /\ m.inference_requests + 1 \in Nat
        /\ m.prompt_growth_by_step \cup {e.step} \in SUBSET Nat
    BY <1>1 DEF Metrics
  <2>3. Tally(m, e) \in Metrics
    BY <2>1, <2>2 DEF Metrics
  <2>4. /\ Tally(m, e).inference_requests = m.inference_requests + 1
        /\ Tally(m, e).prompt_growth_by_step = m.prompt_growth_by_step \cup {e.step}
        /\ Tally(m, e).repository_tool_calls = m.repository_tool_calls
        /\ Tally(m, e).context_window_failures = m.context_window_failures
        /\ Tally(m, e).execution_failures = m.execution_failures
        /\ Tally(m, e).timeouts = m.timeouts
    BY <2>1 DEF Metrics
  <2> QED
    BY <1>2, <1>a, <2>3, <2>4
<1>3. CASE e.kind = "context_failure"
  <2>1. Tally(m, e) = [m EXCEPT !.context_window_failures = @ + 1]
    BY <1>3 DEF Tally
  <2> QED
    BY <1>3, <2>1 DEF Metrics
<1>4. CASE e.kind = "tool_result"
  <2>1. Tally(m, e) = [m EXCEPT !.repository_tool_calls = @ + 1]
    BY <1>4 DEF Tally
  <2> QED
    BY <1>4, <2>1 DEF Metrics
<1>5. CASE e.kind = "status" /\ e.note # "completed"
  <2>1. Tally(m, e) =
          [m EXCEPT !.execution_failures = @ + 1,
                    !.timeouts = IF e.note = "wall_clock" THEN @ + 1 ELSE @]
    BY <1>5 DEF Tally
  <2> DEFINE timeouts == IF e.note = "wall_clock" THEN m.timeouts + 1 ELSE m.timeouts
  <2>2. timeouts \in Nat /\ m.execution_failures + 1 \in Nat
    BY <1>a
  <2>3. Tally(m, e) = [m EXCEPT !.execution_failures = m.execution_failures + 1,
                                !.timeouts = timeouts]
    BY <2>1 DEF Metrics
  <2> HIDE DEF timeouts
  <2>4. Tally(m, e) \in Metrics
    BY <2>2, <2>3 DEF Metrics
  <2>5. /\ Tally(m, e).inference_requests = m.inference_requests
        /\ Tally(m, e).prompt_growth_by_step = m.prompt_growth_by_step
        /\ Tally(m, e).repository_tool_calls = m.repository_tool_calls
        /\ Tally(m, e).context_window_failures = m.context_window_failures
        /\ Tally(m, e).execution_failures = m.execution_failures + 1
        /\ Tally(m, e).timeouts = timeouts
    BY <2>3 DEF Metrics
  <2> QED
    BY <1>5, <1>a, <2>4, <2>5 DEF timeouts
<1>6. CASE \/ e.kind = "status" /\ e.note = "completed"
           \/ e.kind \notin {"inference_response", "context_failure", "tool_result", "status"}
  <2>1. Tally(m, e) = m
    BY <1>6 DEF Tally
  <2> QED
    BY <1>6, <2>1 DEF Metrics
<1> QED
  BY <1>2, <1>3, <1>4, <1>5, <1>6

(* The metrics of a trace, event by event.                                 *)
Tallied(p, trace) ==
  /\ p \in [0..Len(trace) -> Metrics] /\ p[0] = RunMetrics
  /\ \A k \in 0..(Len(trace) - 1) : p[k + 1] = Tally(p[k], trace[k + 1])
  /\ p[Len(trace)] = MetricsFromEvents(trace)

LEMMA TraceTallied ==
  ASSUME NEW trace \in Seq(AgentEvents)
  PROVE  \E p : Tallied(p, trace)
<1> DEFINE n == Len(trace)
           F == [pair \in (1..n) \X Metrics |-> Tally(pair[2], trace[pair[1]])]
<1>1. n \in Nat /\ DOMAIN trace = 1..n /\ \A i \in 1..n : trace[i] \in AgentEvents
  OBVIOUS
<1>2. \A i \in 1..n, m \in Metrics : /\ F[<<i, m>>] = Tally(m, trace[i])
                                     /\ Tally(m, trace[i]) \in Metrics
  BY <1>1, EventTallied
<1> HIDE DEF F, n
<1>3. Maps(F, 1..n, Metrics)
  BY <1>2 DEF Maps
<1>4. RunMetrics \in Metrics
  BY DEF RunMetrics, Metrics
<1>5. PICK g : IsFold(g, 1..n, [s \in SUBSET (1..n) |-> Max(s)], Metrics, RunMetrics, F)
  BY <1>1, <1>3, <1>4, LeftFoldExists
<1>6. g = [s \in SUBSET (1..n) |-> IF s = {} THEN RunMetrics
                                   ELSE Tally(g[s \ {Max(s)}], trace[Max(s)])]
  <2>1. ASSUME NEW s \in SUBSET (1..n), s # {}
        PROVE  g[s] = Tally(g[s \ {Max(s)}], trace[Max(s)])
    <3>1. Max(s) \in 1..n
      BY <1>1, <2>1, MaxOfSome
    <3>2. g[s] = F[<<Max(s), g[s \ {Max(s)}]>>] /\ g[s \ {Max(s)}] \in Metrics
      BY <1>5, <2>1 DEF IsFold
    <3> QED
      BY <1>2, <3>1, <3>2
  <2> QED
    BY <1>5, <2>1 DEF IsFold
<1>7. PICK h : /\ h = [s \in SUBSET (1..n) |-> IF s = {} THEN RunMetrics
                                               ELSE Tally(h[s \ {Max(s)}], trace[Max(s)])]
               /\ MetricsFromEvents(trace) = h[1..n]
  BY <1>1, <1>6 DEF MetricsFromEvents, FoldLeft, MapThenFoldSet
<1>8. h[{}] = RunMetrics
  BY <1>7
<1>9. ASSUME NEW s \in SUBSET (1..n), s # {}, h[s \ {Max(s)}] \in Metrics
      PROVE  h[s] = F[<<Max(s), h[s \ {Max(s)}]>>]
  <2>1. Max(s) \in 1..n
    BY <1>1, <1>9, MaxOfSome
  <2> QED
    BY <1>2, <1>7, <1>9, <2>1
<1>10. PICK p : StepsTo(p, n, Metrics, RunMetrics, F, h[1..n])
  BY <1>1, <1>3, <1>4, <1>8, <1>9, LeftFoldSteps
<1>11. ASSUME NEW k \in 0..(n - 1) PROVE p[k + 1] = Tally(p[k], trace[k + 1])
  <2>1. k \in 0..n /\ k + 1 \in 1..n
    BY <1>1
  <2>2. p[k + 1] = F[<<k + 1, p[k]>>] /\ p[k] \in Metrics
    BY <1>10, <2>1 DEF Steps, StepsTo
  <2> QED
    BY <1>2, <2>1, <2>2
<1>12. p \in [0..n -> Metrics] /\ p[0] = RunMetrics /\ p[n] = MetricsFromEvents(trace)
  BY <1>7, <1>10 DEF Steps, StepsTo
<1>13. Tallied(p, trace)
  BY <1>11, <1>12 DEF Tallied, n
<1> QED
  BY <1>13

LEMMA WorkTallied ==
  ASSUME NEW trace \in Seq(AgentEvents)
  PROVE  LET m == MetricsFromEvents(trace)
         IN  /\ m.inference_requests = Count(trace, "inference_response")
             /\ m.repository_tool_calls = Count(trace, "tool_result")
             /\ m.prompt_growth_by_step = Prompts(trace)
<1> DEFINE n == Len(trace)
           Results == {i \in DOMAIN trace : trace[i].kind = "tool_result"}
           Until(k) == {trace[i].step : i \in Answers(trace) \cap (1..k)}
<1>1. PICK p : Tallied(p, trace)
  BY TraceTallied
<1>2. /\ n \in Nat /\ DOMAIN trace = 1..n /\ \A i \in 1..n : trace[i] \in AgentEvents
      /\ Answers(trace) \in SUBSET (1..n) /\ Results \in SUBSET (1..n)
      /\ \A i \in 1..n : /\ i \in Answers(trace) <=> trace[i].kind = "inference_response"
                         /\ i \in Results <=> trace[i].kind = "tool_result"
  BY DEF Answers
<1>3. /\ p \in [0..n -> Metrics] /\ p[0] = RunMetrics /\ p[n] = MetricsFromEvents(trace)
      /\ \A k \in 0..(n - 1) : p[k + 1] = Tally(p[k], trace[k + 1])
  BY <1>1 DEF Tallied
<1>4. /\ Count(trace, "inference_response") = Cardinality(Answers(trace))
      /\ Count(trace, "tool_result") = Cardinality(Results)
  BY DEF Count, Answers
<1> HIDE DEF n, Results
<1>5. PICK a : /\ a \in [0..n -> Nat] /\ a[0] = 0 /\ a[n] = Cardinality(Answers(trace))
               /\ \A k \in 0..(n - 1) :
                    a[k + 1] = a[k] + (IF k + 1 \in Answers(trace) THEN 1 ELSE 0)
  BY <1>2, CountedUpTo
<1>6. PICK r : /\ r \in [0..n -> Nat] /\ r[0] = 0 /\ r[n] = Cardinality(Results)
               /\ \A k \in 0..(n - 1) :
                    r[k + 1] = r[k] + (IF k + 1 \in Results THEN 1 ELSE 0)
  BY <1>2, CountedUpTo
<1> DEFINE T == {k \in 0..n : /\ p[k].inference_requests = a[k]
                              /\ p[k].repository_tool_calls = r[k]
                              /\ p[k].prompt_growth_by_step = Until(k)}
<1>7. 0 \in T
  <2>1. 1..0 = {}
    OBVIOUS
  <2>2. Until(0) = {}
    BY <2>1
  <2> HIDE DEF Until
  <2> QED
    BY <1>2, <1>3, <1>5, <1>6, <2>2 DEF RunMetrics
<1>8. ASSUME NEW k \in 0..(n - 1), k \in T PROVE k + 1 \in T
  <2>1. k \in 0..n /\ k + 1 \in 0..n /\ k + 1 \in 1..n
    BY <1>2
  <2>2. PICK m \in Metrics : m = p[k]
    BY <1>3, <2>1
  <2>3. PICK e \in AgentEvents : e = trace[k + 1]
    BY <1>2, <2>1
  <2>4. p[k + 1] = Tally(m, e)
    BY <1>3, <2>2, <2>3
  <2>5. Until(k + 1) = IF k + 1 \in Answers(trace) THEN Until(k) \cup {e.step} ELSE Until(k)
    <3>1. \A j : j \in 1..(k + 1) <=> j \in 1..k \/ j = k + 1
      OBVIOUS
    <3> QED
      BY <2>3, <3>1
  <2>6. /\ m.inference_requests = a[k] /\ m.repository_tool_calls = r[k]
        /\ m.prompt_growth_by_step = Until(k)
    BY <1>8, <2>2
  <2> HIDE DEF Until
  <2>7. k + 1 \in Answers(trace) <=> e.kind = "inference_response"
    BY <1>2, <2>1, <2>3
  <2>8. k + 1 \in Results <=> e.kind = "tool_result"
    BY <1>2, <2>1, <2>3
  <2>a. /\ Tally(m, e).inference_requests =
             m.inference_requests + (IF e.kind = "inference_response" THEN 1 ELSE 0)
        /\ Tally(m, e).repository_tool_calls =
             m.repository_tool_calls + (IF e.kind = "tool_result" THEN 1 ELSE 0)
        /\ Tally(m, e).prompt_growth_by_step =
             IF e.kind = "inference_response" THEN m.prompt_growth_by_step \cup {e.step}
             ELSE m.prompt_growth_by_step
    BY EventTallied
  <2>9. p[k + 1].inference_requests = a[k + 1]
    BY <1>5, <2>4, <2>6, <2>7, <2>a
  <2>10. p[k + 1].repository_tool_calls = r[k + 1]
    BY <1>6, <2>4, <2>6, <2>8, <2>a
  <2>11. p[k + 1].prompt_growth_by_step = Until(k + 1)
    BY <2>4, <2>5, <2>6, <2>7, <2>a
  <2> QED
    BY <2>1, <2>9, <2>10, <2>11
<1>9. n \in T
  <2> HIDE DEF T
  <2>1. \A k \in 0..n : k \in T
    BY <1>2, <1>7, <1>8, PrefixInduction
  <2> QED
    BY <1>2, <2>1
<1>10. Until(n) = Prompts(trace)
  <2>1. Answers(trace) \cap (1..n) = Answers(trace)
    BY <1>2
  <2> QED
    BY <2>1 DEF Prompts
<1> HIDE DEF Until
<1> QED
  BY <1>3, <1>4, <1>5, <1>6, <1>9, <1>10

(* Only the last event of a trace can count as a failure.                  *)
LEMMA FailureTallied ==
  ASSUME NEW trace \in Seq(AgentEvents),
         \A i \in DOMAIN trace : trace[i].kind \in Closing => i = Len(trace)
  PROVE  LET m == MetricsFromEvents(trace)
             last == trace[Len(trace)]
         IN  /\ OpenTrace(trace) => Unfailed(m)
             /\ trace # <<>> =>
                  /\ m.context_window_failures = IF last.kind = "context_failure" THEN 1 ELSE 0
                  /\ m.execution_failures =
                       IF last.kind = "status" /\ last.note # "completed" THEN 1 ELSE 0
                  /\ m.timeouts =
                       IF last.kind = "status" /\ last.note = "wall_clock" THEN 1 ELSE 0
<1> DEFINE n == Len(trace)
<1>1. PICK p : Tallied(p, trace)
  BY TraceTallied
<1>2. /\ n \in Nat /\ DOMAIN trace = 1..n /\ \A i \in 1..n : trace[i] \in AgentEvents
      /\ (trace # <<>> => n > 0)
  OBVIOUS
<1>3. /\ p \in [0..n -> Metrics] /\ p[0] = RunMetrics /\ p[n] = MetricsFromEvents(trace)
      /\ \A k \in 0..(n - 1) : p[k + 1] = Tally(p[k], trace[k + 1])
  BY <1>1 DEF Tallied
<1>4. ASSUME NEW k \in 0..(n - 1)
      PROVE  /\ k \in 0..n /\ k + 1 \in 1..n
             /\ p[k] \in Metrics /\ trace[k + 1] \in AgentEvents
             /\ p[k + 1] = Tally(p[k], trace[k + 1])
  BY <1>2, <1>3
<1> HIDE DEF n
<1>5. ASSUME NEW l \in Nat, l <= n, \A i \in 1..l : trace[i].kind \notin Closing
      PROVE  Unfailed(p[l])
  <2> DEFINE T == {k \in 0..l : Unfailed(p[k])}
  <2>1. 0 \in T
    BY <1>3 DEF RunMetrics, Unfailed
  <2>2. ASSUME NEW k \in 0..(l - 1), k \in T PROVE k + 1 \in T
    <3>1. k \in 0..(n - 1) /\ k + 1 \in 1..l /\ k + 1 \in 0..l
      BY <1>2, <1>5
    <3>2. PICK m \in Metrics, e \in AgentEvents :
            m = p[k] /\ e = trace[k + 1] /\ p[k + 1] = Tally(m, e)
      BY <1>4, <3>1
    <3>3. e.kind # "context_failure" /\ e.kind # "status" /\ Unfailed(m)
      BY <1>5, <2>2, <3>1, <3>2 DEF Closing
    <3>a. /\ Tally(m, e).context_window_failures =
               m.context_window_failures + (IF e.kind = "context_failure" THEN 1 ELSE 0)
          /\ Tally(m, e).execution_failures =
               m.execution_failures
                 + (IF e.kind = "status" /\ e.note # "completed" THEN 1 ELSE 0)
          /\ Tally(m, e).timeouts =
               m.timeouts + (IF e.kind = "status" /\ e.note = "wall_clock" THEN 1 ELSE 0)
      BY EventTallied
    <3>4. Unfailed(Tally(m, e))
      BY <3>3, <3>a DEF Unfailed
    <3> QED
      BY <3>1, <3>2, <3>4
  <2> HIDE DEF T
  <2>3. \A k \in 0..l : k \in T
    BY <2>1, <2>2, PrefixInduction
  <2> QED
    BY <2>3 DEF T
<1>6. OpenTrace(trace) => Unfailed(p[n])
  BY <1>2, <1>5 DEF OpenTrace
<1>7. ASSUME trace # <<>>
      PROVE  LET m == p[n]
                 last == trace[n]
             IN  /\ m.context_window_failures = IF last.kind = "context_failure" THEN 1 ELSE 0
                 /\ m.execution_failures =
                      IF last.kind = "status" /\ last.note # "completed" THEN 1 ELSE 0
                 /\ m.timeouts =
                      IF last.kind = "status" /\ last.note = "wall_clock" THEN 1 ELSE 0
  <2>1. n - 1 \in 0..(n - 1) /\ n - 1 \in Nat /\ n - 1 <= n /\ (n - 1) + 1 = n
    BY <1>2, <1>7
  <2>2. \A i \in 1..(n - 1) : trace[i].kind \notin Closing
    BY <1>2, <2>1 DEF n
  <2>3. Unfailed(p[n - 1])
    BY <1>5, <2>1, <2>2
  <2>4. PICK m \in Metrics, e \in AgentEvents :
          m = p[n - 1] /\ e = trace[n] /\ p[n] = Tally(m, e)
    BY <1>4, <2>1
  <2>5. m.context_window_failures = 0 /\ m.execution_failures = 0 /\ m.timeouts = 0
    BY <2>3, <2>4 DEF Unfailed
  <2>6. /\ Tally(m, e).context_window_failures =
             m.context_window_failures + (IF e.kind = "context_failure" THEN 1 ELSE 0)
        /\ Tally(m, e).execution_failures =
             m.execution_failures
               + (IF e.kind = "status" /\ e.note # "completed" THEN 1 ELSE 0)
        /\ Tally(m, e).timeouts =
             m.timeouts + (IF e.kind = "status" /\ e.note = "wall_clock" THEN 1 ELSE 0)
    BY EventTallied
  <2> QED
    BY <2>4, <2>5, <2>6
<1> QED
  BY <1>3, <1>6, <1>7 DEF n

(* Whatever ended a run, the metrics rebuilt from its trace are those of   *)
(* its own counters: its requests less the auxiliary ones the trace marks, *)
(* each tool call once, a prompt size for each answer, and one failure if  *)
(* it failed, a timeout only if the clock ended it.                        *)
THEOREM ReportIsTheRuns == Spec => []MetricsAgreeWithRun
<1>1. ASSUME TypeOK, WorkloadAccounted, OneVerdict, ConversationMatchesTrace, Prompted
      PROVE  MetricsAgreeWithRun
  <2> DEFINE m == MetricsFromEvents(events)
             last == events[Len(events)]
  <2>1. events \in Seq(AgentEvents)
    BY <1>1 DEF TypeOK
  <2>2. /\ m.inference_requests = Count(events, "inference_response")
        /\ m.repository_tool_calls = Count(events, "tool_result")
        /\ m.prompt_growth_by_step = Prompts(events)
    BY <2>1, WorkTallied
  <2>3. \A i \in DOMAIN events : events[i].kind \in Closing => i = Len(events) /\ pc = "done"
    BY <1>1 DEF OneVerdict, Closing
  <2>4. /\ OpenTrace(events) => Unfailed(m)
        /\ events # <<>> =>
             /\ m.context_window_failures = IF last.kind = "context_failure" THEN 1 ELSE 0
             /\ m.execution_failures =
                  IF last.kind = "status" /\ last.note # "completed" THEN 1 ELSE 0
             /\ m.timeouts = IF last.kind = "status" /\ last.note = "wall_clock" THEN 1 ELSE 0
    BY <2>1, <2>3, FailureTallied
  <2> HIDE DEF m
  <2>5. /\ m.inference_requests + AuxiliaryCount(events) = totals.requests
        /\ m.repository_tool_calls = toolCalls
        /\ Cardinality(m.prompt_growth_by_step) = m.inference_requests
    BY <1>1, <2>2 DEF WorkloadAccounted, ConversationMatchesTrace, Prompted
  <2>6. CASE pc # "done"
    <3>1. OpenTrace(events)
      BY <2>3, <2>6 DEF OpenTrace
    <3>2. failure = "none"
      BY <1>1, <2>6 DEF OneVerdict
    <3> QED
      BY <2>4, <2>5, <3>1, <3>2 DEF MetricsAgreeWithRun, Unfailed, m
  <2>7. CASE pc = "done"
    <3>1. /\ events # <<>> /\ (completed <=> failure = "none")
          /\ IF failure = "context_window" THEN last.kind = "context_failure"
             ELSE /\ last.kind = "status"
                  /\ last.note = IF completed THEN "completed" ELSE failure
      BY <1>1, <2>7 DEF OneVerdict
    <3>2. failure # "completed"
      BY <1>1 DEF TypeOK, Failures, LimitReasons
    <3> HIDE DEF last
    <3>3. /\ m.context_window_failures + m.execution_failures =
               IF failure = "none" THEN 0 ELSE 1
          /\ m.timeouts = IF failure = "wall_clock" THEN 1 ELSE 0
      BY <2>4, <3>1, <3>2
    <3> QED
      BY <2>5, <3>3 DEF MetricsAgreeWithRun, m
  <2> QED
    BY <2>6, <2>7
<1>2. Spec => []TypeOK
  BY TypeCorrect
<1> QED
  BY <1>1, <1>2, WorkloadIsAccounted, RunsEndOnce, ConversationIsTheTrace, PromptedInvariant, PTL

----------------------------------------------------------------------------
(* What a late run has still done, by the place it is at: nothing while    *)
(* the work in flight goes on, and a compaction only on the way to the     *)
(* request the clock refuses.                                              *)
Overtime ==
  /\ onTime \in [agent : Nat, auxiliary : Nat, results : Nat]
  /\ LateAnswers \in Nat /\ LateResults \in Nat /\ LateCompactions \in Nat
  /\ ~expired => onTime = Done
  /\ expired =>
       /\ pc # "start"
       /\ LateAnswers + LateResults <= 1 /\ LateCompactions <= 1
       /\ pc \in {"awaiting", "execute"} => LateAnswers = 0 /\ LateResults = 0
       /\ pc \notin {"request", "done"} => LateCompactions = 0
  /\ LateWorkBounded

(* Only the clock itself makes a run late, and it does so between steps.   *)
LEMMA LateOnce ==
  ASSUME [Next]_vars, expired' # expired
  PROVE  /\ expired' /\ UNCHANGED <<policy, pc, step, history, events, work, verdict>>
         /\ pc \notin Terminal \cup {"start"}
<1>1. CASE TimeExpires
  BY <1>1 DEF TimeExpires
<1>2. CASE Loop
  BY <1>2 DEF Loop, Start, PrepareContext, ContextOverflow, BeforeModel,
     AfterModelRaises, Record, MalformedDecision, Finish, ChooseTool, BeforeTool,
     ExecuteTool, StepsExhausted, Raise
<1>3. CASE UNCHANGED vars
  BY <1>3 DEF vars
<1> QED
  BY <1>1, <1>2, <1>3 DEF Next, Terminated

LEMMA OvertimeInit == TypeOK /\ DeadlineInit => Overtime
<1> SUFFICES ASSUME TypeOK, Init, onTime = Done PROVE Overtime
  BY DEF DeadlineInit
<1>1. /\ answered.agent = 0 /\ answered.auxiliary = 0 /\ toolCalls = 0
      /\ ~expired
  BY DEF Init
<1>2. onTime = [agent |-> 0, auxiliary |-> 0, results |-> 0]
  BY <1>1 DEF Done
<1>3. LateAnswers = 0 /\ LateResults = 0 /\ LateCompactions = 0
  BY <1>1, <1>2 DEF LateAnswers, LateResults, LateCompactions
<1> QED
  BY <1>1, <1>2, <1>3 DEF Overtime, LateWorkBounded

LEMMA OvertimeNext ==
  TypeOK /\ TypeOK' /\ Progress /\ Progress' /\ Overtime
    /\ [DeadlineNext]_<<vars, onTime>> => Overtime'
<1> SUFFICES ASSUME TypeOK, TypeOK', Progress, Progress', Overtime,
                    [DeadlineNext]_<<vars, onTime>>
             PROVE  Overtime'
  OBVIOUS
<1>a. /\ answered.agent \in Nat /\ answered.auxiliary \in Nat /\ toolCalls \in Nat
      /\ answered'.agent \in Nat /\ answered'.auxiliary \in Nat /\ toolCalls' \in Nat
      /\ answered \in ByKind /\ expired \in BOOLEAN /\ expired' \in BOOLEAN
  BY DEF TypeOK, ByKind
<1>b. /\ onTime \in [agent : Nat, auxiliary : Nat, results : Nat]
      /\ onTime.agent \in Nat /\ onTime.auxiliary \in Nat /\ onTime.results \in Nat
  BY DEF Overtime
<1>c. [Next]_vars
  BY DEF DeadlineNext, vars
<1>d. ASSUME onTime' = Done'
      PROVE  /\ onTime' \in [agent : Nat, auxiliary : Nat, results : Nat]
             /\ LateAnswers' = 0 /\ LateResults' = 0 /\ LateCompactions' = 0
  BY <1>a, <1>d DEF Done, LateAnswers, LateResults, LateCompactions
<1>e. pc' \notin {"done", "raised"} => ~completed' /\ failure' = "none"
  BY DEF Progress
<1>1. CASE ~expired'
  <2>1. ~expired
    BY <1>c, <1>1, LateOnce
  <2>2. onTime' = Done'
    <3>1. CASE DeadlineNext
      BY <1>1, <3>1 DEF DeadlineNext, Watch
    <3>2. CASE UNCHANGED <<vars, onTime>>
      BY <2>1, <3>2 DEF Overtime, Done, vars, work
    <3> QED
      BY <3>1, <3>2
  <2> QED
    BY <1>1, <1>d, <2>2 DEF Overtime, LateWorkBounded
<1>2. CASE expired' /\ ~expired
  <2>1. /\ UNCHANGED <<pc, work, verdict>> /\ pc \notin Terminal \cup {"start"}
    BY <1>c, <1>2, LateOnce
  <2>2. onTime' = onTime /\ onTime = Done /\ Done' = Done
    BY <1>2, <2>1 DEF DeadlineNext, Watch, Overtime, Done, work, vars
  <2>3. /\ onTime' \in [agent : Nat, auxiliary : Nat, results : Nat]
        /\ LateAnswers' = 0 /\ LateResults' = 0 /\ LateCompactions' = 0
    BY <1>d, <2>2
  <2>4. pc' \notin {"done", "raised", "start"} /\ ~completed' /\ failure' = "none"
    BY <1>e, <2>1 DEF Terminal
  <2> QED
    BY <2>2, <2>3, <2>4 DEF Overtime, LateWorkBounded
<1>3. CASE expired' /\ expired
  <2>a. onTime' = onTime
    BY <1>3 DEF DeadlineNext, Watch, vars
  <2>b. /\ LateAnswers' = LateAnswers + (answered'.agent - answered.agent)
        /\ LateResults' = LateResults + (toolCalls' - toolCalls)
        /\ LateCompactions' = LateCompactions + (answered'.auxiliary - answered.auxiliary)
    BY <1>a, <1>b, <2>a DEF LateAnswers, LateResults, LateCompactions
  <2>c. /\ LateAnswers \in Nat /\ LateResults \in Nat /\ LateCompactions \in Nat
        /\ LateAnswers + LateResults <= 1 /\ LateCompactions <= 1
        /\ pc # "start"
        /\ pc \in {"awaiting", "execute"} => LateAnswers = 0 /\ LateResults = 0
        /\ pc \notin {"request", "done"} => LateCompactions = 0
    BY <1>3 DEF Overtime
  <2> DEFINE L == LateAnswers'  R == LateResults'  C == LateCompactions'
  <2>d. ASSUME L \in Nat, R \in Nat, C \in Nat, L + R <= 1, C <= 1,
               pc' # "start",
               pc' \in {"awaiting", "execute"} => L = 0 /\ R = 0,
               pc' \notin {"request", "done"} => C = 0,
               LateWorkBounded'
        PROVE  Overtime'
    BY <1>3, <1>b, <2>a, <2>d DEF Overtime
  <2>e. ASSUME L + R <= 1, C <= 1, pc' \notin {"done", "raised"}
        PROVE  LateWorkBounded'
    BY <1>e, <2>e DEF LateWorkBounded
  <2>f. ASSUME UNCHANGED <<answered, toolCalls>>
        PROVE  L = LateAnswers /\ R = LateResults /\ C = LateCompactions
    BY <1>a, <2>b, <2>c, <2>f
  <2>g. ASSUME FailLimit("wall_clock"), UNCHANGED <<answered, toolCalls, completed>>,
               pc \notin {"done", "raised"}
        PROVE  Overtime'
    <3>1. pc' = "done" /\ failure' = "wall_clock" /\ ~completed'
      BY <2>g DEF FailLimit, Progress
    <3> QED
      BY <2>c, <2>d, <2>f, <2>g, <3>1 DEF LateWorkBounded
  <2> HIDE DEF L, R, C
  <2>1. CASE Start
    BY <2>1, <2>c DEF Start
  <2>2. ASSUME NEW compaction \in Compactions, PrepareContext(compaction)
        PROVE  Overtime'
    <3>1. /\ pc = "prepare" /\ pc' = "request" /\ toolCalls' = toolCalls
          /\ answered'.agent = answered.agent
          /\ answered'.auxiliary - answered.auxiliary \in {0, 1}
      BY <1>a, <2>2 DEF PrepareContext, AuxiliaryCalls, ByKind
    <3>2. L = LateAnswers /\ R = LateResults /\ C \in {0, 1}
      BY <1>a, <2>b, <2>c, <3>1 DEF L, R, C
    <3> QED
      BY <2>c, <2>d, <2>e, <3>1, <3>2
  <2>3. ASSUME NEW compaction \in Compactions, ContextOverflow(compaction)
        PROVE  Overtime'
    <3>1. /\ pc = "prepare" /\ pc' = "done" /\ toolCalls' = toolCalls
          /\ failure' = "context_window" /\ completed' = completed
          /\ answered'.agent = answered.agent
          /\ answered'.auxiliary - answered.auxiliary \in {0, 1}
      BY <1>a, <2>3 DEF ContextOverflow, AuxiliaryCalls, ByKind
    <3>2. L = LateAnswers /\ R = LateResults /\ C \in {0, 1}
      BY <1>a, <2>b, <2>c, <3>1 DEF L, R, C
    <3>3. ~completed'
      BY <3>1 DEF Progress
    <3>4. LateWorkBounded'
      BY <2>c, <3>1, <3>2, <3>3 DEF LateWorkBounded, L, R, C
    <3> QED
      BY <2>c, <2>d, <3>1, <3>2, <3>4
  <2>4. CASE BeforeModel
    BY <1>3, <2>4, <2>g DEF BeforeModel, TimeIsUp
  <2>5. ASSUME NEW tokens \in ResponseTokens, Answer(tokens), toolCalls' = toolCalls
        PROVE  L = 1 /\ R = 0 /\ C = 0
    <3>1. /\ pc = "awaiting" /\ answered'.agent = answered.agent + 1
          /\ answered'.auxiliary = answered.auxiliary
      BY <1>a, <2>5 DEF Answer, ByKind
    <3> QED
      BY <1>a, <2>b, <2>c, <2>5, <3>1 DEF L, R, C
  <2>6. CASE AfterModelRaises
    <3>1. L = 1 /\ R = 0 /\ C = 0
      BY <2>5, <2>6 DEF AfterModelRaises
    <3>2. pc' = "done" /\ failure' = "generated_tokens"
      BY <2>6 DEF AfterModelRaises, FailLimit
    <3>3. LateWorkBounded'
      BY <3>1, <3>2 DEF LateWorkBounded, L, R, C
    <3> QED
      BY <2>d, <3>1, <3>2, <3>3
  <2>7. Record => L = 1 /\ R = 0 /\ C = 0 /\ pc = "awaiting"
    BY <2>5 DEF Record, Answer
  <2>8. CASE MalformedDecision
    <3>1. L = 1 /\ R = 0 /\ C = 0 /\ pc' \in {"prepare", "exhausted"}
      BY <2>7, <2>8 DEF MalformedDecision, Advance
    <3> QED
      BY <2>d, <2>e, <3>1
  <2>9. CASE Finish
    <3>1. L = 1 /\ R = 0 /\ C = 0 /\ pc' = "done" /\ failure' = failure
          /\ pc = "awaiting"
      BY <2>7, <2>9 DEF Finish
    <3>2. failure' = "none"
      BY <3>1 DEF Progress
    <3>3. LateWorkBounded'
      BY <3>1, <3>2 DEF LateWorkBounded, L, R, C
    <3> QED
      BY <2>d, <3>1, <3>3
  <2>10. CASE ChooseTool
    <3>1. L = 1 /\ R = 0 /\ C = 0 /\ pc' = "tool"
      BY <2>7, <2>10 DEF ChooseTool
    <3> QED
      BY <2>d, <2>e, <3>1
  <2>11. CASE BeforeTool
    BY <1>3, <2>11, <2>g DEF BeforeTool, TimeIsUp
  <2>12. ASSUME NEW tool \in Tools, NEW path \in PathsNamed(tool),
                ExecuteTool(tool, path)
         PROVE  Overtime'
    <3>1. /\ pc = "execute" /\ answered' = answered /\ toolCalls' = toolCalls + 1
          /\ pc' \in {"prepare", "exhausted"}
      BY <2>12 DEF ExecuteTool, Advance
    <3>2. L = 0 /\ R = 1 /\ C = 0
      BY <1>a, <2>b, <2>c, <3>1 DEF L, R, C
    <3> QED
      BY <2>d, <2>e, <3>1, <3>2
  <2>13. CASE StepsExhausted
    <3>1. /\ pc = "exhausted" /\ pc' = "done" /\ failure' = "steps"
          /\ completed' = completed /\ UNCHANGED <<answered, toolCalls>>
      BY <2>13 DEF StepsExhausted, FailLimit, work
    <3>2. L = LateAnswers /\ R = LateResults /\ C = 0 /\ ~completed'
      BY <2>c, <2>f, <3>1 DEF Progress
    <3>3. LateWorkBounded'
      BY <2>c, <3>1, <3>2 DEF LateWorkBounded, L, R, C
    <3> QED
      BY <2>c, <2>d, <3>1, <3>2, <3>3
  <2>14. CASE Raise
    <3>1. /\ pc \in {"awaiting", "prepare", "tool", "execute"} /\ pc' = "raised"
          /\ UNCHANGED <<answered, toolCalls, completed, failure>>
      BY <2>14 DEF Raise, work, verdict
    <3>2. L = LateAnswers /\ R = LateResults /\ C = 0
          /\ ~completed' /\ failure' = "none"
      BY <2>c, <2>f, <3>1 DEF Progress
    <3>3. LateWorkBounded'
      BY <2>c, <3>1, <3>2 DEF LateWorkBounded, L, R, C
    <3> QED
      BY <2>c, <2>d, <3>1, <3>2, <3>3
  <2>15. CASE TimeExpires
    BY <1>3, <2>15 DEF TimeExpires
  <2>16. CASE UNCHANGED vars
    <3>1. UNCHANGED <<pc, answered, toolCalls, completed, failure, expired>>
      BY <2>16 DEF vars, work, verdict
    <3>2. L = LateAnswers /\ R = LateResults /\ C = LateCompactions
      BY <2>f, <3>1
    <3>3. LateWorkBounded
      BY DEF Overtime
    <3>4. LateWorkBounded'
      BY <3>1, <3>2, <3>3 DEF LateWorkBounded, L, R, C
    <3> QED
      BY <2>c, <2>d, <3>1, <3>2, <3>4
  <2> QED
    BY <1>c, <2>1, <2>2, <2>3, <2>4, <2>6, <2>8, <2>9, <2>10, <2>11, <2>12, <2>13,
       <2>14, <2>15, <2>16 DEF Next, Loop, Terminated
<1> QED
  BY <1>1, <1>2, <1>3

(* Wherever in a run the deadline passes, under every policy and limit,    *)
(* what the run still does is one answer or one tool at most, and one      *)
(* compaction at most, and how it ends says which.                         *)
THEOREM LateWorkIsBounded == DeadlineSpec => []LateWorkBounded
<1>1. DeadlineSpec => Spec
  <2>1. [DeadlineNext]_<<vars, onTime>> => [Next]_vars
    BY DEF DeadlineNext, vars
  <2>2. DeadlineInit => Init
    BY DEF DeadlineInit
  <2> QED
    BY <2>1, <2>2, PTL DEF DeadlineSpec, Spec
<1>2. DeadlineSpec => []TypeOK /\ []Progress
  BY <1>1, TypeCorrect, ProgressInvariant, PTL
<1>3. Overtime => LateWorkBounded
  BY DEF Overtime
<1> QED
  BY <1>2, <1>3, OvertimeInit, OvertimeNext, PTL DEF DeadlineSpec
============================================================================
