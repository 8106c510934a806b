------------------------------- MODULE ReportAi -------------------------------
(***************************************************************************)
(* The AI explanations of a saved audit report                             *)
(* (src-tauri/src/audit_report_ai.rs): one request for each finding and    *)
(* one for an overview, within a budget the user has seen, saved one by    *)
(* one in a file beside the report.  The command takes the slot of the     *)
(* report jobs, so Cancel and Quit reach it as they reach the other jobs   *)
(* of module Jobs; the process may also die between any two statements.    *)
(*                                                                         *)
(* A generation is what was made under one version: provider, model,       *)
(* prompt and language.  The comparison of two reports has the same        *)
(* commands over its own file.                                             *)
(***************************************************************************)
EXTENDS Jobs, FiniteSets

CONSTANTS
  Findings,      \* the findings of the report, in its order: a sequence
  Versions,      \* the versions the settings can make
  FirstVersion,  \* the one they make before the first command
  Size,          \* [ToSet(Findings) \cup {Overview} -> Nat]: length of a prompt
  Budgets,       \* set of [requests, chars]: ReportAiOptions
  MaxRetries,    \* retries of one prompt
  MaxGenerating, \* model bound: commands given, when the process may die
  MaxDeaths      \* model bound: ends of the process

Overview == "overview"
All == ToSet(Findings)

ASSUME ReportAiAssumption ==
  /\ Findings \in Seq(All) /\ IsInjective(Findings)
  /\ Overview \notin All /\ None \notin Versions /\ FirstVersion \in Versions
  /\ Size \in [All \cup {Overview} -> Nat \ {0}]
  /\ Budgets \subseteq [requests : Nat \ {0}, chars : Nat]
  /\ MaxRetries \in Nat /\ MaxGenerating \in Nat /\ MaxDeaths \in Nat

VARIABLES
  \* the file: generations and annotations
  row,       \* row[v] = [status, mine, requests, tokens, pending, retry];
             \* status None: no row yet; tokens: {} when NULL, else {n};
             \* retry: a deadline of the provider is written
  explained, \* explained[v]: findings with an annotation
  overview,  \* overview[v]: an overview is saved
  newest,    \* the version with the latest updated_at
  ahead,     \* the versions whose last deadline has not come yet
  \* the interface
  preview,   \* {what the user was shown}, or {}
  \* the command
  run,       \* [at, asked, plan, requests, chars, retries, status], or NoRun
  \* history and bounds
  bill,      \* bill[v]: tokens of the answered requests
  unbilled,  \* unbilled[v]: some request has ended with unknown usage
  commands, deaths

fileVars == <<row, explained, overview, newest>>
billVars == <<bill, unbilled>>
NoRun == [at |-> None]

aiVars == <<fileVars, ahead, preview, run, billVars, commands, deaths>>
allVars == <<vars, aiVars>>

AiInit ==
  /\ Init
  /\ row = [v \in Versions |-> [status |-> None, mine |-> FALSE, requests |-> 0,
                                tokens |-> {}, pending |-> FALSE, retry |-> FALSE]]
  /\ explained = [v \in Versions |-> {}] /\ overview = [v \in Versions |-> FALSE]
  /\ newest = None /\ ahead = {} /\ preview = {} /\ run = NoRun
  /\ bill = [v \in Versions |-> 0] /\ unbilled = [v \in Versions |-> FALSE]
  /\ commands = 0 /\ deaths = 0

-----------------------------------------------------------------------------
(* prepare_ai: what a command would send.  A finding that does not fit is  *)
(* passed over for a later one.                                            *)
Cost(prompts) == FoldSeq(LAMBDA f, n : Size[f] + n, 0, prompts)

Batches(v, budget) ==
  LET Add(sofar, f) ==
        IF \/ f \in explained[v] \/ Len(sofar) >= budget.requests
           \/ Cost(sofar) + Size[f] > budget.chars
        THEN sofar ELSE Append(sofar, f)
  IN FoldLeft(Add, <<>>, Findings)

(* The overview of findings still to explain is planned with what is left. *)
OverviewPlanned(v, budget) ==
  LET batches == Batches(v, budget)
      left == budget.chars - Cost(batches)
  IN /\ ~overview[v]
     /\ All \subseteq explained[v] \cup ToSet(batches)
     /\ Len(batches) < budget.requests
     /\ left > 0 /\ (batches = <<>> => Size[Overview] <= left)

(* The digest of a preview tells apart what is planned and what is done.   *)
PrepareAi(v, budget) ==
  [version |-> v, budget |-> budget, done |-> Cardinality(explained[v]),
   prompts |-> Batches(v, budget)
                 \o IF OverviewPlanned(v, budget) THEN <<Overview>> ELSE <<>>]

-----------------------------------------------------------------------------
Generating == Up /\ run # NoRun

Version == run.asked.version
Prompt == Head(run.plan)
Budget == run.asked.budget

(* preview_audit_report_ai, under the file lock; also while a command runs. *)
Review(v, budget) ==
  /\ "ai" \in load /\ Up /\ files = None /\ preview = {}
  /\ commands = 0 => v = FirstVersion
  /\ commands < IF "crash" \in load THEN MaxGenerating ELSE 1
  /\ preview' = {PrepareAi(v, budget)}
  /\ UNCHANGED <<vars, fileVars, ahead, run, billVars, commands, deaths>>

(* The button is there when something would be sent.                       *)
BeginAi ==
  /\ Up /\ preview' = {}
  /\ \E seen \in preview :
     IF seen.prompts # <<>> /\ ~exiting /\ ~reportsClosing /\ job = None
     THEN /\ job' = "ai" /\ jobCancelled' = FALSE
          /\ run' = [at |-> "files", asked |-> seen, plan |-> <<>>, requests |-> 0,
                     chars |-> 0, retries |-> 0, status |-> "budgetLimited"]
          /\ commands' = commands + 1
     ELSE UNCHANGED <<job, jobCancelled, run, commands>>
  /\ ReportUnchanged
  /\ UNCHANGED <<reportsClosing, idle, files, sourceActive, sourceVars>>
  /\ UNCHANGED <<fileVars, ahead, billVars, deaths>>

AiEnds == DropJob /\ run' = NoRun /\ ReportUnchanged /\ UNCHANGED sourceVars
AiGoesOn(at) == run' = [run EXCEPT !.at = at] /\ UNCHANGED vars
AiStops(status) ==
  run' = [run EXCEPT !.at = "finish", !.status = status] /\ UNCHANGED vars

AiUnchanged == UNCHANGED <<ahead, preview, commands, deaths>>

(* The command writes the row of its own version.                          *)
Writes(written) == row' = [row EXCEPT ![Version] = written]

(* Fault: the settings are compared, not what was shown.                   *)
AsShownFault(prepared) == prepared.version = run.asked.version

(* The command prepares again and goes on if nothing has changed since the *)
(* preview: neither the settings nor what is saved.                        *)
AsShown(prepared) == prepared = run.asked

Prepare ==
  /\ Generating /\ run.at = "files" /\ files = None
  /\ \E v \in Versions :
       LET prepared == PrepareAi(v, Budget)
       IN IF AsShown(prepared)
          THEN run' = [run EXCEPT !.at = "open", !.plan = prepared.prompts] /\ UNCHANGED vars
          ELSE AiEnds
  /\ AiUnchanged /\ UNCHANGED <<fileVars, billVars>>

(* Fault: a generation may be taken up again at any time.                  *)
MustWaitFault(v) == FALSE

MustWait(v) == row[v].retry /\ v \in ahead

(* A process that died over a request has left its usage unknown.          *)
OpenGeneration ==
  /\ Generating /\ run.at = "open"
  /\ IF MustWait(Version)
     THEN AiEnds /\ UNCHANGED fileVars
     ELSE /\ AiGoesOn("ask")
          /\ Writes([row[Version] EXCEPT
                       !.status = "running", !.mine = TRUE, !.retry = FALSE, !.pending = FALSE,
                       !.tokens = IF row[Version].pending THEN {} ELSE row[Version].tokens])
          /\ newest' = Version
          /\ UNCHANGED <<explained, overview>>
  /\ AiUnchanged /\ UNCHANGED billVars

-----------------------------------------------------------------------------
(* request_with_budget                                                     *)

OverBudget == run.requests >= Budget.requests \/ run.chars + Size[Prompt] > Budget.chars

(* The head of the loop, or the end of the plan.  An overview of what was  *)
(* saved may be too long for any prompt.                                   *)
Ask ==
  /\ Generating /\ run.at = "ask"
  /\ \/ /\ run.plan # <<>> => Prompt = Overview
        /\ AiGoesOn("finish")
     \/ /\ run.plan # <<>> /\ (Prompt = Overview => All \subseteq explained[Version])
        /\ IF jobCancelled THEN AiStops("cancelled")
           ELSE AiGoesOn(IF OverBudget THEN "finish" ELSE "admit")
  /\ AiUnchanged /\ UNCHANGED <<fileVars, billVars>>

(* The wait for the rate limit may be cancelled.                           *)
CancelAdmission ==
  /\ Generating /\ run.at = "admit" /\ jobCancelled
  /\ AiStops("cancelled")
  /\ AiUnchanged /\ UNCHANGED <<fileVars, billVars>>

(* The attempt is counted before it is made.  A first request is told from *)
(* later ones, no more.                                                    *)
Send ==
  /\ Generating /\ run.at = "admit"
  /\ run' = [run EXCEPT !.at = "sent", !.requests = @ + 1, !.chars = @ + Size[Prompt]]
  /\ Writes([row[Version] EXCEPT
               !.requests = IF row[Version].requests = 0 THEN 1 ELSE 2, !.pending = TRUE])
  /\ AiUnchanged /\ UNCHANGED <<vars, explained, overview, newest, billVars>>

(* mark_unknown_usage                                                      *)
UsageUnknown ==
  /\ Writes([row[Version] EXCEPT !.tokens = {}, !.pending = FALSE])
  /\ unbilled' = [unbilled EXCEPT ![Version] = TRUE]
  /\ UNCHANGED <<explained, overview, newest, bill>>

CancelRequest ==
  /\ Generating /\ run.at = "sent" /\ jobCancelled
  /\ UsageUnknown /\ AiStops("cancelled")
  /\ AiUnchanged

Fail ==
  /\ Generating /\ run.at = "sent"
  /\ UsageUnknown /\ AiStops("failed")
  /\ AiUnchanged

(* Fault: what a first answer says is added like any other.                *)
TokensAfterFault(r, usage) ==
  IF r.tokens = {} THEN usage ELSE {m + n : m \in r.tokens, n \in usage}

(* NULL plus a number is NULL: one unknown request is never made up for.   *)
TokensAfter(r, usage) ==
  IF r.requests = 1 THEN usage ELSE {m + n : m \in r.tokens, n \in usage}

Complete(usage) ==
  /\ Generating /\ run.at = "sent"
  /\ Writes([row[Version] EXCEPT !.tokens = TokensAfter(row[Version], usage), !.pending = FALSE])
  /\ bill' = [bill EXCEPT ![Version] = IF usage = {} THEN @ ELSE @ + 1]
  /\ unbilled' = [unbilled EXCEPT ![Version] = @ \/ usage = {}]
  /\ AiGoesOn("parse")
  /\ AiUnchanged /\ UNCHANGED <<explained, overview, newest>>

(* HTTP 429 or 5xx: the usage, and then the deadline in a statement of its *)
(* own.                                                                    *)
Retryable ==
  /\ Generating /\ run.at = "sent"
  /\ UsageUnknown /\ AiGoesOn("retry")
  /\ AiUnchanged

RecordRetry ==
  /\ Generating /\ run.at = "retry"
  /\ Writes([row[Version] EXCEPT !.retry = TRUE]) /\ ahead' = ahead \cup {Version}
  /\ \/ AiStops("retryPending")  \* the delay is longer than two minutes
     \/ run.retries >= MaxRetries /\ AiStops("retryPending")
     \/ OverBudget /\ AiStops("retryPending")
     \/ /\ run.retries < MaxRetries /\ ~OverBudget
        /\ run' = [run EXCEPT !.at = "delay", !.retries = @ + 1] /\ UNCHANGED vars
  /\ UNCHANGED <<preview, commands, deaths, explained, overview, newest, billVars>>

(* wait_delay: a cancelled wait leaves the deadline where it is.           *)
Delay ==
  /\ Generating /\ run.at = "delay"
  /\ \/ jobCancelled /\ AiStops("cancelled") /\ UNCHANGED row
     \/ /\ Version \notin ahead
        /\ Writes([row[Version] EXCEPT !.retry = FALSE])
        /\ AiGoesOn("ask")
  /\ AiUnchanged /\ UNCHANGED <<explained, overview, newest, billVars>>

Tick(v) ==
  /\ v \in ahead
  /\ ahead' = ahead \ {v}
  /\ UNCHANGED <<vars, fileVars, preview, run, billVars, commands, deaths>>

-----------------------------------------------------------------------------
(* generate_with: what is done with an answer.                             *)

Unusable ==
  /\ Generating /\ run.at = "parse"
  /\ AiStops("failed")
  /\ AiUnchanged /\ UNCHANGED <<fileVars, billVars>>

Save ==
  /\ Generating /\ run.at = "parse"
  /\ IF jobCancelled
     THEN AiStops("cancelled") /\ UNCHANGED <<explained, overview>>
     ELSE /\ run' = [run EXCEPT !.at = "ask", !.plan = Tail(@), !.retries = 0] /\ UNCHANGED vars
          /\ IF Prompt = Overview
             THEN overview' = [overview EXCEPT ![Version] = TRUE] /\ UNCHANGED explained
             ELSE explained' = [explained EXCEPT ![Version] = @ \cup {Prompt}] /\ UNCHANGED overview
  /\ AiUnchanged /\ UNCHANGED <<row, newest, billVars>>

FinalStatus ==
  IF jobCancelled THEN "cancelled"
  ELSE IF All \subseteq explained[Version] /\ overview[Version] THEN "complete"
  ELSE run.status

Finish ==
  /\ Generating /\ run.at = "finish"
  /\ Writes([row[Version] EXCEPT !.status = FinalStatus])
  /\ AiEnds
  /\ AiUnchanged /\ UNCHANGED <<explained, overview, newest, billVars>>

-----------------------------------------------------------------------------
(* The process ends, by Quit or by itself, and a new one starts: what it   *)
(* held is gone, run_instance is another one, and a measurement that was   *)
(* cancelled and never asked for will not be (its interface is gone).      *)
ProcessEnds ==
  /\ "crash" \in load /\ deaths < MaxDeaths
  /\ deaths' = deaths + 1
  /\ lock' = None /\ crawl' = None /\ settled' = TRUE /\ stopping' = FALSE
  /\ closing' = FALSE /\ active' = None /\ stopped' = FALSE /\ early' = <<>>
  /\ measurement' = None /\ batch' = NoBatch
  /\ reportsClosing' = FALSE /\ job' = None /\ jobCancelled' = FALSE
  /\ idle' = FALSE /\ files' = None /\ sourceActive' = FALSE
  /\ quit' = None /\ exiting' = FALSE
  /\ shown' = [id |-> None, generation |-> 0, workspace |-> 0]
  /\ preparing' = [g \in Generations |-> [id |-> None, at |-> None]]
  /\ used' = used \cup {cancelled[1] : cancelled \in kept}
  /\ UNCHANGED <<load, sourceVars, kept, saved>>
  /\ run' = NoRun /\ preview' = {}
  /\ row' = [v \in Versions |-> [row[v] EXCEPT !.mine = FALSE]]
  /\ unbilled' = [v \in Versions |->
                    unbilled[v] \/ (run.at = "sent" /\ v = Version)]
  /\ UNCHANGED <<explained, overview, newest, ahead, bill, commands>>

AiStep ==
  \/ Prepare \/ OpenGeneration \/ Ask \/ CancelAdmission \/ Send
  \/ CancelRequest \/ Fail \/ (\E usage \in {{1}, {}} : Complete(usage))
  \/ Retryable \/ RecordRetry \/ Delay \/ Unusable \/ Save \/ Finish

AiNext ==
  \/ Next /\ UNCHANGED aiVars
  \/ AiStep \/ BeginAi \/ ProcessEnds
  \/ \E v \in Versions, budget \in Budgets : Review(v, budget)
  \/ \E v \in Versions : Tick(v)

(* Requests are answered or time out; deadlines pass.                      *)
AiSpec ==
  /\ AiInit /\ [][AiNext]_allVars
  /\ Fairness /\ WF_allVars(AiStep)

-----------------------------------------------------------------------------
(* read_status_row and export_generation_version: what is shown.           *)

ShownTokens(v) == IF row[v].pending THEN {} ELSE row[v].tokens

ShownStatus(v) ==
  IF row[v].status = "running" /\ ~row[v].mine THEN "interrupted" ELSE row[v].status

(* A complete generation before the latest that has something to show.     *)
Exported ==
  LET usable == {v \in Versions : explained[v] # {} \/ overview[v]}
      finished == {v \in usable : row[v].status = "complete"}
      best == IF finished # {} THEN finished ELSE usable
  IN IF best = {} THEN None
     ELSE IF newest \in best THEN newest ELSE CHOOSE v \in best : TRUE

-----------------------------------------------------------------------------
(* Properties.                                                             *)

(* What is shown of a generation is true: token counts are all that was    *)
(* spent on it, also by commands that were cancelled, failed or died over  *)
(* a request, or else they are unavailable; "complete" means that every    *)
(* finding is explained and the overview is there; "running" means that a  *)
(* command of this process is at work on it.                               *)
GenerationsTellTheTruth ==
  \A v \in Versions :
    /\ ShownTokens(v) # {} => ShownTokens(v) = {bill[v]} /\ ~unbilled[v]
    /\ ShownStatus(v) = "complete" => All \subseteq explained[v] /\ overview[v]
    /\ overview[v] => All \subseteq explained[v]
    /\ ShownStatus(v) = "running" => job = "ai" /\ run # NoRun /\ Version = v

(* Every request is one that the user was shown for this version, for a    *)
(* finding that has no explanation yet, or for the overview when all have; *)
(* within the budget, retries included; and never before the deadline that *)
(* the provider gave and that was written down, whatever ended the command *)
(* that was given it.                                                      *)
RequestsAreMeant ==
  [][Send =>
       /\ Contains(run.asked.prompts, Prompt)
       /\ IF Prompt = Overview THEN All \subseteq explained[Version] /\ ~overview[Version]
          ELSE Prompt \notin explained[Version]
       /\ run.requests < Budget.requests /\ run.chars + Size[Prompt] <= Budget.chars
       /\ Version \notin ahead]_allVars

(* Once a complete generation is what an export shows, exports go on       *)
(* showing a complete one, whatever later commands do.                     *)
CompleteStaysExported ==
  [][Exported # None /\ row[Exported].status = "complete"
       => Exported' # None /\ row'[Exported'].status = "complete"]_allVars
=============================================================================
