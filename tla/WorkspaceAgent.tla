--------------------------- MODULE WorkspaceAgent ---------------------------
(***************************************************************************)
(* The agent loop with RepositoryTools and MutationTools on the files of   *)
(* its workspace.  A write can stop half-way, a command can change any     *)
(* file, and subprocess.run kills only the process it started: what that   *)
(* process had started goes on writing beside the loop, and after it.      *)
(***************************************************************************)
EXTENDS AgentLoop

VARIABLES
  files,         \* what each file holds
  failedWrites,  \* files of write_file calls that opened them and failed
  commanded,     \* a command was started
  straggler      \* a process outlives its command

fileVars == <<files, failedWrites, commanded, straggler>>
allVars == <<vars, fileVars>>

(* As cloned, as a write_file left it, cut short, or a command's.          *)
Contents == {"baseline", "written", "torn", "command"}

----------------------------------------------------------------------------
(* list_files, read_file and search change nothing, whatever their         *)
(* arguments; nor does a retrieve.                                         *)
ReadOnly(tool) ==
  /\ tool \in Tools \ {"write_file", "run_command"}
  /\ \E path \in PathsNamed(tool) : ExecuteTool(tool, path)
  /\ UNCHANGED fileVars

Written(path) == files' = [files EXCEPT ![path] = "written"]

(* path.write_text empties the file, then writes.                          *)
Torn(path) ==
  /\ files' = [files EXCEPT ![path] = "torn"]
  /\ failedWrites' = failedWrites \cup {path}

(* A missing argument, a path outside the workspace or a file that cannot  *)
(* be opened is an error before the file is touched, an OSError of the     *)
(* write itself an error after; both become results.  Text that has no     *)
(* UTF-8 encoding raises, after the file was emptied, as does a path with  *)
(* a null byte, before it was touched.                                     *)
WriteFile ==
  /\ "write_file" \in Tools
  /\ \/ \E path \in Paths : /\ ExecuteTool("write_file", path)
                            /\ Written(path)
                            /\ UNCHANGED failedWrites
     \/ ExecuteTool("write_file", NoPath) /\ UNCHANGED <<files, failedWrites>>
     \/ \E path \in Paths : ExecuteTool("write_file", NoPath) /\ Torn(path)
     \/ \E path \in Paths : pc = "execute" /\ Raise /\ Torn(path)
  /\ UNCHANGED <<commanded, straggler>>

Touched == {[path \in Paths |-> IF path \in touched THEN "command" ELSE files[path]] :
              touched \in SUBSET Paths}

(* A command that is not allowed, cannot be started or has no directory to *)
(* work in is an error (outside the workspace it raises: see ToolFree);    *)
(* one that ran, failed, timed out or printed what cannot be decoded has   *)
(* done what it did.                                                       *)
RunCommand ==
  /\ "run_command" \in Tools
  /\ ExecuteTool("run_command", NoPath)
  /\ \/ UNCHANGED <<files, commanded, straggler>>
     \/ files' \in Touched /\ commanded' = TRUE /\ straggler' \in {straggler, TRUE}
  /\ UNCHANGED failedWrites

(* What a command left behind writes when it likes, or ends.               *)
StragglerWrites ==
  /\ straggler
  /\ files' \in Touched \ {files}
  /\ UNCHANGED <<vars, failedWrites, commanded, straggler>>

StragglerEnds ==
  /\ straggler /\ straggler' = FALSE
  /\ UNCHANGED <<vars, files, failedWrites, commanded>>

(* The steps of the loop that execute no tool, or one that raised before   *)
(* it touched a file.                                                      *)
ToolFree ==
  /\ \/ Start
     \/ \E compaction \in Compactions : PrepareContext(compaction)
     \/ \E compaction \in Compactions : ContextOverflow(compaction)
     \/ BeforeModel
     \/ AfterModelRaises \/ MalformedDecision \/ Finish \/ ChooseTool
     \/ BeforeTool \/ StepsExhausted \/ Raise
  /\ UNCHANGED fileVars

AgentStep == ToolFree \/ (\E tool \in Tools : ReadOnly(tool)) \/ WriteFile \/ RunCommand

WorkspaceInit ==
  /\ Init
  /\ files = [path \in Paths |-> "baseline"]
  /\ failedWrites = {} /\ commanded = FALSE /\ straggler = FALSE

WorkspaceNext ==
  \/ AgentStep
  \/ (TimeExpires \/ Terminated) /\ UNCHANGED fileVars
  \/ StragglerWrites \/ StragglerEnds

WorkspaceSpec == WorkspaceInit /\ [][WorkspaceNext]_allVars

(* As in AgentLoop: every await returns or raises.  Nothing is assumed of  *)
(* a process that was left behind.                                         *)
WorkspaceFairSpec == WorkspaceSpec /\ WF_allVars(AgentStep)

----------------------------------------------------------------------------
(* Type invariant of the workspace.                                        *)
WorkspaceTypeOK ==
  /\ files \in [Paths -> Contents]
  /\ failedWrites \subseteq Paths
  /\ commanded \in BOOLEAN /\ straggler \in BOOLEAN
  /\ straggler => commanded

(* files_modified is exactly what the write results of the trace name, and *)
(* a change it does not name has another trace: a file differs from the    *)
(* clone only when it is named, a write of it failed (with a result that   *)
(* says so, or an exception), or a command ran - and while none of the     *)
(* latter happened, a named file holds what was written to it.             *)
EditsExplained ==
  /\ FilesModifiedTraced
  /\ \A path \in Paths :
       /\ files[path] # "baseline" =>
            path \in filesModified \cup failedWrites \/ commanded
       /\ files[path] = "torn" => path \in failedWrites
       /\ (path \in filesModified \ failedWrites /\ ~commanded) =>
            files[path] = "written"
  /\ commanded => \E i \in DOMAIN events : events[i].note = "run_command"
  /\ failedWrites # {} =>
       \/ pc = "raised"
       \/ \E i \in DOMAIN events : events[i].note = "write_file" /\ events[i].path = NoPath
============================================================================
