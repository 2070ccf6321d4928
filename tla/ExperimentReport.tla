-------------------------- MODULE ExperimentReport --------------------------
(***************************************************************************)
(* generate_report on the output directory of an experiment, a command of  *)
(* its own that may be given at any time: the experiment may be over, have *)
(* been interrupted, or be writing its records meanwhile.  The directory   *)
(* is read twice, once for the table and once for the charts.              *)
(***************************************************************************)
EXTENDS Experiment, FiniteSetsExt

CONSTANT MaxReports  \* bound: reports begun

ASSUME ReportAssumption == MaxReports \in Nat

VARIABLES
  reports,   \* how many were begun
  place,     \* where generate_report is
  listed,    \* runs whose files sorted(glob("*.json")) found
  table,     \* the records aggregate_experiment read
  detailed   \* the records _detailed_runs read

reportVars == <<reports, place, listed, table, detailed>>
allVars == <<vars, reportVars>>

----------------------------------------------------------------------------
(* One row of the table per task, budget and policy that has a record.     *)
KeyOf(record) == [task |-> record.task, budget |-> record.budget, policy |-> record.policy]

SampleSizeConfigured(runs, key) == Trials  \* mutant: what was asked for, not what ran
SampleSize(runs, key) == Cardinality({record \in runs : KeyOf(record) = key})

Rows(runs) == {[key |-> KeyOf(record), sample_size |-> SampleSize(runs, KeyOf(record))] :
                 record \in runs}

----------------------------------------------------------------------------
ReportInit ==
  /\ Init
  /\ reports = 0 /\ place = "idle"
  /\ listed = {} /\ table = {} /\ detailed = {}

(* A file that is open and not written is in the listing too.              *)
List(from, to) ==
  /\ place = from /\ place' = to
  /\ listed' = {record.run : record \in records} \cup torn

(* The command line requires the directory.                                *)
BeginReport ==
  /\ config # None /\ reports < MaxReports
  /\ List("idle", "aggregate")
  /\ reports' = reports + 1
  /\ UNCHANGED <<vars, table, detailed>>

(* generate_report is over, with report.md or an exception.                *)
End ==
  /\ place' = "idle"
  /\ listed' = {} /\ table' = {} /\ detailed' = {}

(* json.loads raises on a record that is not written yet, or never was.    *)
Unreadable == listed \cap torn # {}
Readable == {record \in records : record.run \in listed}

(* aggregate.json and aggregate.csv.                                       *)
Aggregate ==
  /\ place = "aggregate"
  /\ \/ Unreadable /\ End
     \/ /\ ~Unreadable
        /\ place' = "relist" /\ table' = Readable /\ listed' = {}
        /\ UNCHANGED detailed
  /\ UNCHANGED <<vars, reports>>

ListAgain ==
  /\ List("relist", "detail")
  /\ UNCHANGED <<vars, reports, table, detailed>>

Detail ==
  /\ place = "detail"
  /\ \/ Unreadable /\ End
     \/ /\ ~Unreadable
        /\ place' = "charts" /\ detailed' = Readable /\ listed' = {}
        /\ UNCHANGED table
  /\ UNCHANGED <<vars, reports>>

(* Charts need matplotlib; without it there is no report.md either.        *)
WriteReport ==
  /\ place = "charts"
  /\ End
  /\ UNCHANGED <<vars, reports>>

Report == BeginReport \/ Aggregate \/ ListAgain \/ Detail \/ WriteReport

ReportNext == (Next /\ UNCHANGED reportVars) \/ Report

ReportSpec == ReportInit /\ [][ReportNext]_allVars

(* As in Experiment; a report is not obliged to go on.                     *)
ReportFairSpec == ReportSpec /\ \A r \in Runners : WF_vars(Progress(r))

----------------------------------------------------------------------------
(* Type invariant of the report.                                           *)
ReportTypeOK ==
  /\ reports \in 0..MaxReports
  /\ place \in {"idle", "aggregate", "relist", "detail", "charts"}
  /\ \A run \in listed : run \in DOMAIN traces
  /\ table \subseteq records /\ detailed \subseteq records

ChartsCoverTable == place = "charts" => table \subseteq detailed

(* Whenever it is made, a report is about runs that are over: each record  *)
(* it may count has the whole trace it points to; every record it read is  *)
(* in exactly one row; and the charts leave out no run of the table.       *)
ReportSound ==
  /\ RecordsHaveTraces
  /\ ReportTypeOK
  /\ MapThenSumSet(LAMBDA row : row.sample_size, Rows(table)) = Cardinality(table)
  /\ ChartsCoverTable

(* run() returns only with the full matrix on disk: a report made then has *)
(* one row for every task, budget and policy, over all trials, and, when   *)
(* the trials are whole turns of a rotation, every policy has been first,  *)
(* second, ... equally often.                                              *)
MatrixComplete ==
  \A r \in Runners : at[r] = "finished" =>
    /\ Rows(records) =
         {[key |-> [task |-> TaskIds[i], budget |-> Budgets[b], policy |-> Policies[p]],
           sample_size |-> Trials] :
            i \in DOMAIN TaskIds, b \in DOMAIN Budgets, p \in DOMAIN Policies}
    /\ \A key \in {KeyOf(record) : record \in records} :
         {record.trial : record \in {of \in records : KeyOf(of) = key}} = 0..(Trials - 1)
    /\ (order = "rotate" /\ Trials % Len(Policies) = 0) =>
         \A p, i, j \in DOMAIN Policies :
           LET Held(index) == Cardinality({record \in records :
                                record.policy = Policies[p] /\ record.index = index - 1})
           IN  Held(i) = Held(j)
=============================================================================
