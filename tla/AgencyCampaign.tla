--------------------------- MODULE AgencyCampaign ---------------------------
(***************************************************************************)
(* Campaigns of calls to agencies: LoyaltyWorkflowService and              *)
(* AgencyWorkspaceService.                                                 *)
(*                                                                         *)
(* A campaign assigns each of its agencies to an operator.  The operator   *)
(* claims the assignment for a browser session, calls, and records one     *)
(* result, which completes it.  Meanwhile managers assign, reassign,       *)
(* archive, and stop the calls to an agency.                               *)
(*                                                                         *)
(* Transactions are READ COMMITTED.  Most of them lock the agency, so one  *)
(* that reads nothing before it has its locks is one step here.  The       *)
(* others have a step per read of what they do not hold: saving a result   *)
(* counts the open assignments of the whole campaign, archiving takes the  *)
(* list of assignments it then waits for, and assigning, activating and    *)
(* resuming read the campaign without a lock.  Requests refused by their   *)
(* first query change nothing and are left out.                            *)
(***************************************************************************)
EXTENDS Naturals, FiniteSets

CONSTANTS
    Agencies, Campaigns, Operators,
    Targets,             \* agencies selected for each campaign
    Workspace,           \* campaigns made by pilot(): agencyWorkspace is set,
                         \* and each agency has its open assignment in one
    Sessions, Tab,       \* browser sessions, and the operator of each
    NoSession,
    Submissions, NoForm, \* submissionIds, one for each form that is sent
    Requests, NoJob,     \* requests of more than one step
    Generations,         \* assignments of one agency in one campaign
    MaxBegun             \* operations that are begun

ASSUME ConstantsAssumption ==
    /\ Targets \in [Campaigns -> SUBSET Agencies]
    /\ Workspace \subseteq Campaigns
    /\ \A c, d \in Workspace : c # d => Targets[c] \cap Targets[d] = {}
    /\ Tab \in [Sessions -> Operators]
    /\ NoSession \notin Sessions
    /\ Generations \in Nat /\ MaxBegun \in Nat

VARIABLES
    stopped,    \* agencies with doNotCall
    campaign,   \* status of each campaign
    row,        \* the table of assignments
    task,       \* the follow-up call promised with the result of a row
    form,       \* what was filled in under a submissionId, and is sent again
    pc, job,    \* stage of a request, and what it works with
    begun

vars == <<stopped, campaign, row, task, form, pc, job, begun>>

\* An assignment is the n-th one of its agency in its campaign.
Rows == {x \in Campaigns \X Agencies \X (1..Generations) : x[2] \in Targets[x[1]]}
CampaignOf(r) == r[1]
AgencyOf(r)   == r[2]

OpenStatuses == {"PENDING", "IN_PROGRESS"}
RowStatuses  == OpenStatuses \cup {"none", "COMPLETED", "CANCELLED"}
Operating    == {"DRAFT", "ACTIVE"}
CampaignStatuses == Operating \cup {"COMPLETED", "ARCHIVED"}

Open     == {r \in Rows : row[r].status \in OpenStatuses}
OpenOf(a) == {r \in Open : AgencyOf(r) = a}
OpenIn(c) == {r \in Open : CampaignOf(r) = c}

Absent == [status |-> "none", operator |-> NoJob, session |-> NoSession,
           version |-> 0, results |-> {}]
Pending(o) == [Absent EXCEPT !.status = "PENDING", !.operator = o, !.version = 1]
Cancelled(rec) == [rec EXCEPT !.status = "CANCELLED", !.version = @ + 1]
Completed(rec, u) == [rec EXCEPT !.status = "COMPLETED", !.version = @ + 1,
                                 !.results = @ \cup {u}]

NoTask == [status |-> "none", link |-> NoJob, operator |-> NoJob]

\* The two unique indexes: one open assignment for an agency, and one that is
\* not cancelled for an agency and a campaign.
Free(c, a) ==
    /\ OpenOf(a) = {}
    /\ \A n \in 1..Generations : row[<<c, a, n>>].status \in {"none", "CANCELLED"}

\* The bound on the assignments of one agency in one campaign.
Room(c, a) == Generations > 0 /\ row[<<c, a, Generations>>].status = "none"

\* The id that the next assignment of a in c gets.
IsNext(r) ==
    /\ row[r].status = "none"
    /\ \A n \in 1..(r[3] - 1) : row[<<r[1], r[2], n>>].status # "none"

Init ==
    /\ stopped = {}
    /\ campaign \in [Campaigns -> Operating]
    /\ \A c \in Campaigns \ Workspace : campaign[c] = "DRAFT"
    /\ \E o \in Operators :
           row = [r \in Rows |-> IF CampaignOf(r) \in Workspace /\ r[3] = 1
                                 THEN Pending(o) ELSE Absent]
    /\ task = [r \in Rows |-> NoTask]
    /\ form = [u \in Submissions |-> NoForm]
    /\ pc = [q \in Requests |-> "idle"]
    /\ job = [q \in Requests |-> NoJob]
    /\ begun = 0

Goto(q, stage) == pc' = [pc EXCEPT ![q] = stage]
Begin == begun < MaxBegun /\ begun' = begun + 1
Ready(q) == pc[q] = "idle" /\ Begin
Start(q, stage, j) ==
    /\ Goto(q, stage)
    /\ job' = [job EXCEPT ![q] = j]
Answer(q, with) ==
    /\ Goto(q, with)
    /\ job' = [job EXCEPT ![q] = NoJob]

\* Locks that are kept between two steps.
AgencyHeld(a) ==
    \E q \in Requests : pc[q] = "commit" /\ AgencyOf(form[job[q].form].row) = a
CampaignHeld(c) == \E q \in Requests : pc[q] = "archiving" /\ job[q].campaign = c

----------------------------------------------------------------------------
(* createAttempt.                                                          *)

FormRecords == [row : Rows, session : Sessions \cup {NoSession}, version : Nat,
                next : {"none", "stop", "call"}]

ASSUME FormAssumption == NoForm \notin FormRecords

\* The operator of the row fills in a form: the version is one the page was
\* given at some time, and the result may be a stop of all calls, or promise
\* another one.
Forms(r) ==
    [row : {r},
     session : {s \in Sessions : Tab[s] = row[r].operator} \cup {NoSession},
     version : 1..row[r].version, next : {"none", "stop", "call"}]

\* The form is sent, for the first time or again; the assignment is read.
Submit(q, u) ==
    /\ Ready(q)
    /\ \E r \in Rows : \E f \in Forms(r) :
        /\ form[u] \in {NoForm, f}
        /\ form' = [form EXCEPT ![u] = f]
        /\ Start(q, "find", [form |-> u, state |-> row[r].status, session |-> row[r].session,
                             campaign |-> campaign[CampaignOf(r)]])
    /\ UNCHANGED <<stopped, campaign, row, task>>

FormOf(q) == form[job[q].form]
RowOf(q)  == FormOf(q).row
Recorded(q) == job[q].form \in row[RowOf(q)].results

\* Faulty on purpose: any session will do once there was a claim.
AcceptableAnySession(q) ==
    /\ job[q].campaign = "ACTIVE"
    /\ job[q].state \in OpenStatuses
    /\ CampaignOf(RowOf(q)) \in Workspace => job[q].session # NoSession

\* The checks of what was read.
Acceptable(q) ==
    /\ job[q].campaign = "ACTIVE"
    /\ job[q].state \in OpenStatuses
    /\ \/ CampaignOf(RowOf(q)) \notin Workspace /\ job[q].session = NoSession
       \/ job[q].session # NoSession /\ FormOf(q).session = job[q].session

\* A call of the workspace is led by a script, unless it only stops the calls.
NeedsScript(q) == CampaignOf(RowOf(q)) \in Workspace /\ FormOf(q).next # "stop"

Find(q) ==
    /\ pc[q] = "find"
    /\ IF ~Recorded(q) /\ Acceptable(q)
       THEN /\ Goto(q, IF NeedsScript(q) THEN "script" ELSE "record")
            /\ job' = [job EXCEPT ![q] = [form |-> @.form, last |-> FALSE]]
       ELSE Answer(q, IF Recorded(q) THEN "ok" ELSE "refused")
    /\ UNCHANGED <<stopped, campaign, row, task, form, begun>>

\* Managers approve a script for some time.  If there is none now the form is
\* not accepted, and the submission is not looked up again.
CheckScript(q) ==
    /\ pc[q] = "script"
    /\ \/ Goto(q, "record") /\ job' = job
       \/ Answer(q, "noscript")
    /\ UNCHANGED <<stopped, campaign, row, task, form, begun>>

\* Faulty on purpose: only the agency is looked at.
UnchangedAgency(q) == AgencyOf(RowOf(q)) \notin stopped

\* The agency may be called, and updateMany finds the assignment as expected.
Unchanged(q) ==
    /\ AgencyOf(RowOf(q)) \notin stopped
    /\ row[RowOf(q)].status \in OpenStatuses
    /\ row[RowOf(q)].version = FormOf(q).version

\* With the agency locked the result is written, and the open assignments that
\* remain in the campaign are counted, as far as they are committed.
Record(q) ==
    /\ pc[q] = "record" /\ ~AgencyHeld(AgencyOf(RowOf(q)))
    /\ Goto(q, IF Unchanged(q) THEN "commit" ELSE "lookup")
    /\ job' = [job EXCEPT ![q].last = OpenIn(CampaignOf(RowOf(q))) \subseteq {RowOf(q)}]
    /\ UNCHANGED <<stopped, campaign, row, task, form, begun>>

\* The last one completes the campaign, which waits for whoever archives it.
Commit(q) ==
    LET f == FormOf(q)  c == CampaignOf(f.row)  a == AgencyOf(f.row) IN
    /\ pc[q] = "commit"
    /\ job[q].last => ~CampaignHeld(c)
    /\ row' = [r \in Rows |->
           IF r = f.row
           THEN Completed(row[r], job[q].form)
           ELSE IF f.next = "stop" /\ r \in OpenOf(a) THEN Cancelled(row[r]) ELSE row[r]]
    /\ stopped' = IF f.next = "stop" THEN stopped \cup {a} ELSE stopped
    /\ task' = IF f.next = "call"
               THEN [task EXCEPT ![f.row] = [status |-> "OPEN", link |-> f.row,
                                             operator |-> row[f.row].operator]]
               ELSE task
    /\ campaign' = IF job[q].last /\ campaign[c] = "ACTIVE"
                   THEN [campaign EXCEPT ![c] = "COMPLETED"] ELSE campaign
    /\ Answer(q, "ok")
    /\ UNCHANGED <<form, begun>>

\* Faulty on purpose: a conflict is answered at once.
LookupNot(q) ==
    /\ pc[q] = "lookup"
    /\ Answer(q, "refused")
    /\ UNCHANGED <<stopped, campaign, row, task, form, begun>>

\* After a conflict the submission is looked up once more.
Lookup(q) ==
    /\ pc[q] = "lookup"
    /\ Answer(q, IF Recorded(q) THEN "ok" ELSE "refused")
    /\ UNCHANGED <<stopped, campaign, row, task, form, begun>>

\* A transaction that waits may be rolled back: its time is over, or it is
\* part of a deadlock of Commit and ArchiveCommit.
Abort(q) ==
    /\ pc[q] \in {"commit", "archiving"}
    /\ Answer(q, "failed")
    /\ UNCHANGED <<stopped, campaign, row, task, form, begun>>

----------------------------------------------------------------------------
(* archiveCampaign, activateCampaign, createAssignments.                   *)

\* The campaign is locked by its update, and the open assignments are those
\* the second update has in its snapshot.
Archive(q, c) ==
    /\ Ready(q) /\ campaign[c] # "ARCHIVED" /\ ~CampaignHeld(c)
    /\ Start(q, "archiving", [campaign |-> c, todo |-> OpenIn(c)])
    /\ UNCHANGED <<stopped, campaign, row, task, form>>

\* The update waits for the rows that others hold, and looks at them again.
ArchiveCommit(q) ==
    /\ pc[q] = "archiving"
    /\ \A r \in job[q].todo :
           ~\E p \in Requests : pc[p] = "commit" /\ RowOf(p) = r
    /\ row' = [r \in Rows |-> IF r \in job[q].todo \cap Open
                              THEN Cancelled(row[r]) ELSE row[r]]
    /\ campaign' = [campaign EXCEPT ![job[q].campaign] = "ARCHIVED"]
    /\ Answer(q, "ok")
    /\ UNCHANGED <<stopped, task, form, begun>>

\* Every target has an assignment when the campaign is activated.
Activate(q, c) ==
    /\ Ready(q) /\ campaign[c] = "DRAFT"
    /\ \A a \in Targets[c] : \E r \in Rows :
           /\ CampaignOf(r) = c /\ AgencyOf(r) = a
           /\ row[r].status \notin {"none", "CANCELLED"}
    /\ Start(q, "activating", [campaign |-> c])
    /\ UNCHANGED <<stopped, campaign, row, task, form>>

ActivateCommit(q) ==
    LET c == job[q].campaign IN
    /\ pc[q] = "activating" /\ ~CampaignHeld(c)
    /\ campaign' = IF campaign[c] = "DRAFT" THEN [campaign EXCEPT ![c] = "ACTIVE"]
                                            ELSE campaign
    /\ Answer(q, IF campaign[c] = "DRAFT" THEN "ok" ELSE "refused")
    /\ UNCHANGED <<stopped, row, task, form, begun>>

Assign(q, c, ids, o) ==
    /\ Ready(q) /\ campaign[c] \in Operating
    /\ Start(q, "assigning", [campaign |-> c, agencies |-> ids, operator |-> o])
    /\ UNCHANGED <<stopped, campaign, row, task, form>>

\* Faulty on purpose: the stops are looked at before the agencies are locked.
AssignCommitUnchecked(q) ==
    LET j == job[q] IN
    /\ pc[q] = "assigning"
    /\ \A a \in j.agencies : ~AgencyHeld(a) /\ Room(j.campaign, a)
    /\ row' = [r \in Rows |->
                  IF /\ CampaignOf(r) = j.campaign /\ AgencyOf(r) \in j.agencies
                     /\ Free(j.campaign, AgencyOf(r)) /\ IsNext(r)
                  THEN Pending(j.operator) ELSE row[r]]
    /\ Answer(q, "ok")
    /\ UNCHANGED <<stopped, campaign, task, form, begun>>

\* With the agencies locked; those that are assigned already are skipped.
AssignCommit(q) ==
    LET j == job[q]  allowed == j.agencies \cap stopped = {} IN
    /\ pc[q] = "assigning"
    /\ \A a \in j.agencies : ~AgencyHeld(a) /\ Room(j.campaign, a)
    /\ row' = [r \in Rows |->
                  IF /\ allowed
                     /\ CampaignOf(r) = j.campaign /\ AgencyOf(r) \in j.agencies
                     /\ Free(j.campaign, AgencyOf(r)) /\ IsNext(r)
                  THEN Pending(j.operator) ELSE row[r]]
    /\ Answer(q, IF allowed THEN "ok" ELSE "refused")
    /\ UNCHANGED <<stopped, campaign, task, form, begun>>

----------------------------------------------------------------------------
(* resumeTask.                                                             *)

\* The task of r is read, with its assignment and the campaign of that.
Resume(q, r) ==
    /\ Ready(q) /\ task[r].status = "OPEN"
    /\ Start(q, "resuming", [of |-> r, task |-> task[r],
                             campaign |-> campaign[CampaignOf(task[r].link)]])
    /\ UNCHANGED <<stopped, campaign, row, task, form>>

\* What is checked with the agency locked, before the insert.
Resumable(q) ==
    LET j == job[q] IN
    /\ AgencyOf(j.of) \notin stopped
    /\ OpenOf(AgencyOf(j.of)) = {}
    /\ j.campaign \notin {"ARCHIVED", "DRAFT"}

\* An assignment the operator already has for the task is returned.
Resumed(q) ==
    LET j == job[q] IN
    /\ AgencyOf(j.of) \notin stopped
    /\ j.task.link \in Open /\ row[j.task.link].operator = j.task.operator

\* The new assignment is in the campaign of the old one, which becomes active
\* whatever it is by now; a task that has changed undoes it all.
ResumeCommit(q) ==
    LET j == job[q]  c == CampaignOf(j.task.link)  a == AgencyOf(j.task.link)
        inserts == Resumable(q) /\ Free(c, a) IN
    /\ pc[q] = "resuming" /\ ~AgencyHeld(a) /\ ~CampaignHeld(c)
    /\ IF inserts /\ task[j.of] = j.task
       THEN \E r \in Rows :
               /\ CampaignOf(r) = c /\ AgencyOf(r) = a /\ IsNext(r)
               /\ row' = [row EXCEPT ![r] = Pending(j.task.operator)]
               /\ task' = [task EXCEPT ![j.of].link = r]
               /\ campaign' = [campaign EXCEPT ![c] = "ACTIVE"]
               /\ Answer(q, "ok")
       ELSE /\ UNCHANGED <<row, task, campaign>>
            /\ Answer(q, IF Resumed(q) THEN "ok"
                         ELSE IF Resumable(q) /\ ~inserts THEN "duplicate" ELSE "refused")
    /\ UNCHANGED <<stopped, form, begun>>

----------------------------------------------------------------------------
(* Actions of people that are one step.                                    *)

\* Faulty on purpose: the assignments that are open stay open.
ControlOnly(a) ==
    /\ Begin /\ ~AgencyHeld(a)
    /\ stopped' = IF a \in stopped THEN stopped \ {a} ELSE stopped \cup {a}
    /\ UNCHANGED <<campaign, row, task, form, pc, job>>

\* control: calls to the agency are stopped, or allowed again.
Control(a) ==
    /\ Begin /\ ~AgencyHeld(a)
    /\ stopped' = IF a \in stopped THEN stopped \ {a} ELSE stopped \cup {a}
    /\ row' = [r \in Rows |-> IF a \notin stopped /\ r \in OpenOf(a)
                              THEN Cancelled(row[r]) ELSE row[r]]
    /\ UNCHANGED <<campaign, task, form, pc, job>>

Claim(r, s) ==
    /\ Begin /\ r \in Open /\ Tab[s] = row[r].operator
    /\ ~AgencyHeld(AgencyOf(r)) /\ AgencyOf(r) \notin stopped
    /\ campaign[CampaignOf(r)] = "ACTIVE"
    /\ row[r].session = NoSession
    /\ row' = [row EXCEPT ![r].session = s, ![r].status = "IN_PROGRESS",
                          ![r].version = @ + 1]
    /\ UNCHANGED <<stopped, campaign, task, form, pc, job>>

\* Faulty on purpose: the old assignment is left to its operator.
ReassignBoth(r, o) ==
    /\ Begin /\ r \in Open /\ ~AgencyHeld(AgencyOf(r))
    /\ \E new \in Rows :
        /\ CampaignOf(new) = CampaignOf(r) /\ AgencyOf(new) = AgencyOf(r) /\ IsNext(new)
        /\ row' = [row EXCEPT ![new] = Pending(o)]
    /\ UNCHANGED <<stopped, campaign, task, form, pc, job>>

\* The old assignment is cancelled and its successor takes over the open tasks.
Reassign(r, o) ==
    /\ Begin /\ r \in Open /\ ~AgencyHeld(AgencyOf(r))
    /\ \E new \in Rows :
        /\ CampaignOf(new) = CampaignOf(r) /\ AgencyOf(new) = AgencyOf(r) /\ IsNext(new)
        /\ row' = [row EXCEPT ![r] = Cancelled([@ EXCEPT !.session = NoSession]),
                              ![new] = Pending(o)]
        /\ task' = [t \in Rows |->
               IF /\ task[t].status = "OPEN" /\ task[t].link = r
                  /\ task[t].operator = row[r].operator
               THEN [task[t] EXCEPT !.link = new, !.operator = o] ELSE task[t]]
    /\ UNCHANGED <<stopped, campaign, form, pc, job>>

\* updateTask: the promise was kept otherwise.
CompleteTask(r) ==
    /\ Begin /\ task[r].status = "OPEN"
    /\ task' = [task EXCEPT ![r].status = "COMPLETED"]
    /\ UNCHANGED <<stopped, campaign, row, form, pc, job>>

----------------------------------------------------------------------------
Save(q) ==
    \/ \E u \in Submissions : Submit(q, u)
    \/ Find(q) \/ CheckScript(q) \/ Record(q) \/ Commit(q) \/ Lookup(q)

Manage(q) ==
    \/ \E c \in Campaigns : Archive(q, c) \/ Activate(q, c)
    \/ \E c \in Campaigns, o \in Operators : \E ids \in SUBSET Targets[c] :
           ids # {} /\ Assign(q, c, ids, o)
    \/ ArchiveCommit(q) \/ ActivateCommit(q) \/ AssignCommit(q)

FollowUp(q) == (\E r \in Rows : Resume(q, r)) \/ ResumeCommit(q)

Next ==
    \/ \E q \in Requests : Save(q) \/ Manage(q) \/ FollowUp(q) \/ Abort(q)
    \/ \E a \in Agencies : Control(a)
    \/ \E r \in Rows : \/ \E s \in Sessions : Claim(r, s)
                       \/ \E o \in Operators : Reassign(r, o)
                       \/ CompleteTask(r)

Spec == Init /\ [][Next]_vars

----------------------------------------------------------------------------
(* Properties.                                                             *)

\* The last two conjuncts are the unique indexes: an agency is in the queue
\* once, and has one assignment that counts in a campaign.
TypeOK ==
    /\ stopped \subseteq Agencies
    /\ campaign \in [Campaigns -> CampaignStatuses]
    /\ \A r \in Rows :
           /\ row[r].status \in RowStatuses
           /\ row[r].operator \in Operators \cup {NoJob}
           /\ row[r].session \in Sessions \cup {NoSession}
           /\ row[r].results \subseteq Submissions
           /\ row[r].version = 0 <=> row[r].status = "none"
           /\ task[r].status # "none" => task[r].link \in Rows
    /\ pc \in [Requests -> {"idle", "find", "script", "record", "commit", "lookup",
                            "archiving", "activating", "assigning", "resuming",
                            "ok", "refused", "noscript", "failed", "duplicate"}]
    /\ \A r, s \in Open : AgencyOf(r) = AgencyOf(s) => r = s
    /\ \A r, s \in Rows :
           /\ CampaignOf(r) = CampaignOf(s) /\ AgencyOf(r) = AgencyOf(s)
           /\ {row[r].status, row[s].status} \cap {"none", "CANCELLED"} = {}
           => r = s

\* An agency whose calls are stopped is in nobody's queue, whatever was being
\* assigned, resumed or recorded when the stop came (control, createAttempt
\* with DO_NOT_CALL, the locks in validateTargets).
StopHolds == \A a \in stopped : OpenOf(a) = {}

\* Each call has one result, and the assignment is completed with it and stays
\* so: of two forms sent at once for one assignment one is refused, and a
\* campaign archived meanwhile does not cancel it (createAttempt,
\* archiveCampaign).
OneResult ==
    \A r \in Rows : Cardinality(row[r].results) =
                     IF row[r].status = "COMPLETED" THEN 1 ELSE 0

\* A claimed assignment is completed from the session that claimed it, one of
\* a pilot's campaign only after a claim ("saving from another session is
\* blocked", docs/agency-call-center-acceptance.md).
SessionHolds ==
    \A r \in Rows : row[r].status = "COMPLETED" =>
        /\ CampaignOf(r) \in Workspace => row[r].session # NoSession
        /\ row[r].session # NoSession =>
               \A u \in row[r].results : form[u].session = row[r].session

Saving == {"find", "script", "record", "commit", "lookup"}

\* The answer to a form is the truth about it: it is accepted only if its
\* result is recorded by then, and refused with a conflict only if it is not,
\* however often it is sent and whatever is sent at the same time ("two identical
\* requests at once could give a conflict instead of the idempotent result",
\* fixed according to docs/agency-call-center-audit-20261027.md).  For the other
\* refusal, the script that is missing, see RefusalTrue.
AnswerTrue ==
    [][\A q \in Requests :
          pc[q] \in Saving /\ pc'[q] \in {"ok", "refused"} =>
              (pc'[q] = "ok" <=> job[q].form \in row'[RowOf(q)].results)]_vars

\* The same of every refusal.  No run checks this: a copy of a form may find no
\* receipt and then no script, while the first copy is recorded in between.
RefusalTrue ==
    [][\A q \in Requests :
          pc[q] \in Saving /\ pc'[q] \in {"refused", "noscript"} =>
              job[q].form \notin row'[RowOf(q)].results]_vars

\* "A repeated call is started explicitly from the open task"
\* (docs/agency-call-center-acceptance.md): a request that passes all checks of
\* resumeTask is not stopped by a unique index.
FollowUpStarts == \A q \in Requests : pc[q] # "duplicate"

=============================================================================
