------------------------ MODULE AgencyCampaignProofs ------------------------
(***************************************************************************)
(* Proofs about AgencyCampaign, for any number of agencies, campaigns,     *)
(* operators, forms and requests.                                          *)
(***************************************************************************)
EXTENDS AgencyCampaign, FiniteSetTheorems, TLAPS

RowRecords == [status : RowStatuses, operator : Operators \cup {NoJob},
            session : Sessions \cup {NoSession}, version : Nat,
            results : SUBSET Submissions]
TaskRecords   == [status : {"none", "OPEN", "COMPLETED"}, link : Rows \cup {NoJob},
            operator : Operators \cup {NoJob}]
\* The types of the tables.
Tables ==
  /\ stopped \subseteq Agencies
  /\ row \in [Rows -> RowRecords]
  /\ task \in [Rows -> TaskRecords]
  /\ DOMAIN pc = Requests /\ DOMAIN job = Requests /\ DOMAIN form = Submissions

\* A task that was promised is linked to an assignment of the agency that was
\* called.
TaskInv ==
  \A r \in Rows : task[r].status # "none" =>
    /\ task[r].link \in Rows
    /\ AgencyOf(task[r].link) = AgencyOf(r)

\* What a request works with: its form is filled in and names an assignment, and
\* the task it resumes is one as it was in the table.
JobInv ==
  \A q \in Requests :
    /\ pc[q] \in {"find", "script", "record", "commit", "lookup"} =>
         job[q].form \in Submissions /\ form[job[q].form] \in FormRecords
    /\ pc[q] \in {"script", "record", "commit", "lookup"} =>
         job[q] \in [form : Submissions, last : BOOLEAN]
    /\ pc[q] = "assigning" => job[q].operator \in Operators
    /\ pc[q] = "resuming" =>
         /\ job[q].of \in Rows
         /\ job[q].task \in TaskRecords
         /\ job[q].task.link \in Rows
         /\ AgencyOf(job[q].task.link) = AgencyOf(job[q].of)

Typed == Tables /\ TaskInv /\ JobInv


\* The rows of the table are well formed.
LEMMA RowForms ==
  ASSUME NEW o \in Operators \cup {NoJob}
  PROVE  Absent \in RowRecords /\ Pending(o) \in RowRecords
BY DEF Absent, Pending, RowRecords, RowStatuses, OpenStatuses

LEMMA CancelledForms ==
  ASSUME NEW rec \in RowRecords
  PROVE  /\ Cancelled(rec) \in RowRecords
         /\ Cancelled(rec).status = "CANCELLED" /\ Cancelled(rec).results = rec.results
         /\ Cancelled(rec).version > rec.version
<1>1. rec.version + 1 \in Nat /\ rec.version + 1 > rec.version
  BY DEF RowRecords
<1>2. "CANCELLED" \in RowStatuses
  BY DEF RowStatuses
<1>3. ASSUME NEW v \in Nat, NEW c \in RowStatuses
      PROVE  /\ [rec EXCEPT !.status = c, !.version = v] \in RowRecords
             /\ [rec EXCEPT !.status = c, !.version = v].status = c
             /\ [rec EXCEPT !.status = c, !.version = v].results = rec.results
             /\ [rec EXCEPT !.status = c, !.version = v].version = v
  BY DEF RowRecords
<1> QED
  BY <1>1, <1>2, <1>3 DEF Cancelled

LEMMA CompletedForms ==
  ASSUME NEW rec \in RowRecords, NEW u \in Submissions
  PROVE  /\ Completed(rec, u) \in RowRecords
         /\ Completed(rec, u).status = "COMPLETED"
         /\ Completed(rec, u).results = rec.results \cup {u}
         /\ Completed(rec, u).version > rec.version
         /\ Completed(rec, u).session = rec.session
<1>1. rec.version + 1 \in Nat /\ rec.version + 1 > rec.version /\ rec.results \cup {u} \in SUBSET Submissions
  BY DEF RowRecords
<1>2. "COMPLETED" \in RowStatuses
  BY DEF RowStatuses
<1> DEFINE new(v, w) == [rec EXCEPT !.status = "COMPLETED", !.version = v, !.results = w]
<1>3. ASSUME NEW v \in Nat, NEW w \in SUBSET Submissions
      PROVE  /\ new(v, w) \in RowRecords
             /\ new(v, w).status = "COMPLETED" /\ new(v, w).results = w
             /\ new(v, w).version = v /\ new(v, w).session = rec.session
  BY <1>2 DEF RowRecords
<1> HIDE DEF new
<1>4. /\ new(rec.version + 1, rec.results \cup {u}) \in RowRecords
      /\ new(rec.version + 1, rec.results \cup {u}).status = "COMPLETED"
      /\ new(rec.version + 1, rec.results \cup {u}).results = rec.results \cup {u}
      /\ new(rec.version + 1, rec.results \cup {u}).version > rec.version
      /\ new(rec.version + 1, rec.results \cup {u}).session = rec.session
  BY <1>1, <1>3
<1> QED
  BY <1>4 DEF Completed, new

LEMMA TypedInit == Init => Typed
<1> SUFFICES ASSUME Init PROVE Typed
  OBVIOUS
<1>1. Tables
  BY RowForms DEF Init, Tables, NoTask, TaskRecords
<1>2. TaskInv
  BY DEF Init, TaskInv, NoTask
<1>3. JobInv
  BY DEF Init, JobInv
<1> QED
  BY <1>1, <1>2, <1>3 DEF Typed

\* Every step keeps the tables.
LEMMA TablesStep ==
  ASSUME Typed, [Next]_vars
  PROVE  Tables'
<1> USE ConstantsAssumption DEF Goto, Answer, Start, Ready, Begin, Typed, Tables
<1>1. ASSUME NEW q \in Requests, Save(q) \/ Manage(q) \/ FollowUp(q) \/ Abort(q)
      PROVE  Tables'
  <2>1. CASE \E u \in Submissions : Submit(q, u)
    BY <2>1 DEF Submit
  <2>2. CASE Find(q) \/ CheckScript(q)
    BY <2>2 DEF Find, CheckScript
  <2>3. CASE Record(q)
    BY <2>3 DEF Record
  <2>4. CASE Commit(q)
    <3> DEFINE f == FormOf(q)
    <3>1. f \in FormRecords /\ job[q].form \in Submissions
      BY <2>4 DEF Commit, JobInv, FormOf
    <3>2. row' \in [Rows -> RowRecords]
      <4>1. Completed(row[f.row], job[q].form) \in RowRecords
        BY <3>1, CompletedForms DEF FormRecords
      <4> QED
        BY <2>4, <3>1, <4>1, CancelledForms DEF Commit
    <3>3. task' \in [Rows -> TaskRecords]
      BY <2>4, <3>1 DEF Commit, TaskRecords, FormRecords, RowRecords
    <3>4. stopped' \subseteq Agencies
      BY <2>4, <3>1 DEF Commit, FormRecords, Rows, AgencyOf
    <3> QED
      BY <2>4, <3>2, <3>3, <3>4 DEF Commit
  <2>5. CASE Lookup(q)
    BY <2>5 DEF Lookup
  <2>6. CASE \E c \in Campaigns : Archive(q, c)
    BY <2>6 DEF Archive
  <2>7. CASE \E c \in Campaigns : Activate(q, c)
    BY <2>7 DEF Activate
  <2>8. CASE \E c \in Campaigns, o \in Operators : \E ids \in SUBSET Targets[c] :
             ids # {} /\ Assign(q, c, ids, o)
    BY <2>8 DEF Assign
  <2>9. CASE ArchiveCommit(q)
    BY <2>9, CancelledForms DEF ArchiveCommit
  <2>10. CASE ActivateCommit(q)
    BY <2>10 DEF ActivateCommit
  <2>11. CASE AssignCommit(q)
    BY <2>11, RowForms DEF AssignCommit, JobInv
  <2>12. CASE \E r \in Rows : Resume(q, r)
    BY <2>12 DEF Resume
  <2>13. CASE ResumeCommit(q)
    <3>1. job[q].task \in TaskRecords
      BY <2>13 DEF ResumeCommit, JobInv
    <3>2. row' \in [Rows -> RowRecords]
      BY <2>13, <3>1, RowForms DEF ResumeCommit, TaskRecords
    <3>3. task' \in [Rows -> TaskRecords]
      <4>1. ASSUME NEW r \in Rows, NEW t \in TaskRecords
            PROVE  [t EXCEPT !.link = r] \in TaskRecords
        BY DEF TaskRecords
      <4> QED
        <5>1. ASSUME NEW r \in Rows, task' = [task EXCEPT ![job[q].of].link = r],
                     NEW t \in Rows
              PROVE  task'[t] \in TaskRecords
          BY <4>1, <5>1
        <5>2. DOMAIN task' = Rows /\ task' = [t \in Rows |-> task'[t]]
          BY <2>13 DEF ResumeCommit
        <5>3. \A t \in Rows : task'[t] \in TaskRecords
          BY <2>13, <5>1 DEF ResumeCommit
        <5> QED
          BY <5>2, <5>3
    <3> QED
      BY <2>13, <3>2, <3>3 DEF ResumeCommit
  <2>14. CASE Abort(q)
    BY <2>14 DEF Abort
  <2> QED
    BY <1>1, <2>1, <2>2, <2>3, <2>4, <2>5, <2>6, <2>7, <2>8, <2>9, <2>10, <2>11, <2>12, <2>13, <2>14 DEF Save, Manage, FollowUp
<1>2. ASSUME NEW a \in Agencies, Control(a) PROVE Tables'
  BY <1>2, CancelledForms DEF Control
<1>3. ASSUME NEW r \in Rows, NEW s \in Sessions, Claim(r, s) PROVE Tables'
  BY <1>3 DEF Claim, RowRecords, RowStatuses, OpenStatuses
<1>4. ASSUME NEW r \in Rows, NEW o \in Operators, Reassign(r, o) PROVE Tables'
  <2>1. Cancelled([row[r] EXCEPT !.session = NoSession]) \in RowRecords
    <3>1. [row[r] EXCEPT !.session = NoSession] \in RowRecords
      BY DEF RowRecords
    <3> QED
      BY <3>1, CancelledForms
  <2>2. row' \in [Rows -> RowRecords]
    <3>1. PICK new \in Rows :
            row' = [row EXCEPT ![r] = Cancelled([row[r] EXCEPT !.session = NoSession]),
                               ![new] = Pending(o)]
      BY <1>4 DEF Reassign
    <3>2. Pending(o) \in RowRecords
      BY RowForms
    <3> HIDE DEF Pending, Cancelled, RowRecords
    <3> QED
      BY <2>1, <3>1, <3>2
  <2>3. task' \in [Rows -> TaskRecords]
    <3>1. ASSUME NEW new \in Rows, NEW t \in TaskRecords
          PROVE  [t EXCEPT !.link = new, !.operator = o] \in TaskRecords
      BY DEF TaskRecords
    <3>2. PICK new \in Rows :
            task' = [t \in Rows |->
                IF /\ task[t].status = "OPEN" /\ task[t].link = r
                   /\ task[t].operator = row[r].operator
                THEN [task[t] EXCEPT !.link = new, !.operator = o] ELSE task[t]]
      BY <1>4 DEF Reassign
    <3>3. ASSUME NEW t \in Rows PROVE task'[t] \in TaskRecords
      BY <3>1, <3>2
    <3> QED
      BY <3>2, <3>3
  <2> QED
    BY <1>4, <2>2, <2>3 DEF Reassign
<1>5. ASSUME NEW r \in Rows, CompleteTask(r) PROVE Tables'
  BY <1>5 DEF CompleteTask, TaskRecords
<1>6. CASE UNCHANGED vars
  BY <1>6 DEF vars
<1> QED
  BY <1>1, <1>2, <1>3, <1>4, <1>5, <1>6 DEF Next

\* Every step keeps the links of the tasks.
LEMMA TaskStep ==
  ASSUME Typed, [Next]_vars
  PROVE  TaskInv'
<1> USE ConstantsAssumption DEF Goto, Answer, Start, Ready, Begin, Typed, Tables, TaskInv
<1>1. ASSUME NEW q \in Requests, Save(q) \/ Manage(q) \/ FollowUp(q) \/ Abort(q)
      PROVE  TaskInv'
  <2>1. CASE \E u \in Submissions : Submit(q, u)
    BY <2>1 DEF Submit
  <2>2. CASE Find(q) \/ CheckScript(q)
    BY <2>2 DEF Find, CheckScript
  <2>3. CASE Record(q)
    BY <2>3 DEF Record
  <2>4. CASE Commit(q)
    BY <2>4 DEF Commit, JobInv, FormOf, FormRecords
  <2>5. CASE Lookup(q)
    BY <2>5 DEF Lookup
  <2>6. CASE \E c \in Campaigns : Archive(q, c)
    BY <2>6 DEF Archive
  <2>7. CASE \E c \in Campaigns : Activate(q, c)
    BY <2>7 DEF Activate
  <2>8. CASE \E c \in Campaigns, o \in Operators : \E ids \in SUBSET Targets[c] :
             ids # {} /\ Assign(q, c, ids, o)
    BY <2>8 DEF Assign
  <2>9. CASE ArchiveCommit(q)
    BY <2>9 DEF ArchiveCommit
  <2>10. CASE ActivateCommit(q)
    BY <2>10 DEF ActivateCommit
  <2>11. CASE AssignCommit(q)
    BY <2>11 DEF AssignCommit
  <2>12. CASE \E r \in Rows : Resume(q, r)
    BY <2>12 DEF Resume
  <2>13. CASE ResumeCommit(q)
    <3>1. CASE UNCHANGED task
      BY <3>1
    <3>2. ASSUME NEW r \in Rows, AgencyOf(r) = AgencyOf(job[q].task.link),
                 task' = [task EXCEPT ![job[q].of].link = r]
          PROVE  TaskInv'
      <4>1. \A t \in Rows : t # job[q].of => task'[t] = task[t]
        BY <3>2
      <4>2. task'[job[q].of].link = r /\ AgencyOf(r) = AgencyOf(job[q].of)
        BY <2>13, <3>2 DEF ResumeCommit, JobInv, TaskRecords
      <4> QED
        BY <3>2, <4>1, <4>2
    <3> QED
      BY <2>13, <3>1, <3>2 DEF ResumeCommit
  <2>14. CASE Abort(q)
    BY <2>14 DEF Abort
  <2> QED
    BY <1>1, <2>1, <2>2, <2>3, <2>4, <2>5, <2>6, <2>7, <2>8, <2>9, <2>10, <2>11, <2>12, <2>13, <2>14 DEF Save, Manage, FollowUp
<1>2. ASSUME NEW a \in Agencies, Control(a) PROVE TaskInv'
  BY <1>2 DEF Control
<1>3. ASSUME NEW r \in Rows, NEW s \in Sessions, Claim(r, s) PROVE TaskInv'
  BY <1>3 DEF Claim
<1>4. ASSUME NEW r \in Rows, NEW o \in Operators, Reassign(r, o) PROVE TaskInv'
  <2>1. PICK new \in Rows :
          /\ AgencyOf(new) = AgencyOf(r)
          /\ task' = [t \in Rows |->
                IF /\ task[t].status = "OPEN" /\ task[t].link = r
                   /\ task[t].operator = row[r].operator
                THEN [task[t] EXCEPT !.link = new, !.operator = o] ELSE task[t]]
    BY <1>4 DEF Reassign
  <2>2. ASSUME NEW t \in Rows
        PROVE  \/ task'[t] = task[t]
               \/ /\ task[t].status = "OPEN" /\ task[t].link = r
                  /\ task'[t].link = new
    BY <2>1 DEF TaskRecords
  <2> QED
    BY <2>1, <2>2
<1>5. ASSUME NEW r \in Rows, CompleteTask(r) PROVE TaskInv'
  BY <1>5 DEF CompleteTask, TaskRecords
<1>6. CASE UNCHANGED vars
  BY <1>6 DEF vars
<1> QED
  BY <1>1, <1>2, <1>3, <1>4, <1>5, <1>6 DEF Next

\* Every step keeps what the requests work with.
LEMMA JobStep ==
  ASSUME Typed, [Next]_vars
  PROVE  JobInv'
<1> USE ConstantsAssumption DEF Goto, Answer, Start, Ready, Begin, Typed, Tables, JobInv
<1>1. ASSUME NEW q \in Requests, Save(q) \/ Manage(q) \/ FollowUp(q) \/ Abort(q)
      PROVE  JobInv'
  <2>1. CASE \E u \in Submissions : Submit(q, u)
    <3>1. PICK u \in Submissions : Submit(q, u)
      BY <2>1
    <3>2. PICK r \in Rows : \E f \in Forms(r) :
            /\ form[u] \in {NoForm, f}
            /\ form' = [form EXCEPT ![u] = f]
            /\ Start(q, "find", [form |-> u, state |-> row[r].status,
                                 session |-> row[r].session,
                                 campaign |-> campaign[CampaignOf(r)]])
      BY <3>1 DEF Submit
    <3>3. Forms(r) \subseteq FormRecords
      BY DEF Forms, FormRecords, RowRecords
    <3> QED
      BY <3>2, <3>3
  <2>2. CASE Find(q)
    <3>2. CASE /\ \E p \in {"script", "record"} : pc' = [pc EXCEPT ![q] = p]
               /\ job' = [job EXCEPT ![q] = [form |-> @.form, last |-> FALSE]]
      BY <2>2, <3>2 DEF Find
    <3>3. CASE \E a \in {"ok", "refused"} : Answer(q, a)
      BY <2>2, <3>3 DEF Find
    <3> QED
      BY <2>2, <3>2, <3>3 DEF Find
  <2>3. CASE Record(q)
    BY <2>3 DEF Record
  <2>4. CASE Commit(q)
    BY <2>4 DEF Commit
  <2>5. CASE Lookup(q)
    BY <2>5 DEF Lookup
  <2>6. CASE \E c \in Campaigns : Archive(q, c)
    BY <2>6 DEF Archive
  <2>7. CASE \E c \in Campaigns : Activate(q, c)
    BY <2>7 DEF Activate
  <2>8. CASE \E c \in Campaigns, o \in Operators : \E ids \in SUBSET Targets[c] :
             ids # {} /\ Assign(q, c, ids, o)
    BY <2>8 DEF Assign
  <2>9. CASE ArchiveCommit(q)
    BY <2>9 DEF ArchiveCommit
  <2>10. CASE ActivateCommit(q)
    BY <2>10 DEF ActivateCommit
  <2>11. CASE AssignCommit(q)
    BY <2>11 DEF AssignCommit
  <2>12. CASE \E r \in Rows : Resume(q, r)
    BY <2>12 DEF Resume, TaskInv
  <2>13. CASE ResumeCommit(q)
    <3>1. PICK a \in {"ok", "duplicate", "refused"} : Answer(q, a)
      BY <2>13, Zenon DEF ResumeCommit
    <3>2. form' = form
      BY <2>13 DEF ResumeCommit
    <3> QED
      BY <3>1, <3>2
  <2>15. CASE CheckScript(q)
    <3>1. CASE pc' = [pc EXCEPT ![q] = "record"] /\ job' = job
      BY <2>15, <3>1 DEF CheckScript
    <3>2. CASE Answer(q, "noscript")
      BY <2>15, <3>2 DEF CheckScript
    <3> QED
      BY <2>15, <3>1, <3>2 DEF CheckScript
  <2>14. CASE Abort(q)
    BY <2>14 DEF Abort
  <2> QED
    BY <1>1, <2>1, <2>2, <2>3, <2>4, <2>5, <2>6, <2>7, <2>8, <2>9, <2>10, <2>11, <2>12, <2>13, <2>14, <2>15 DEF Save, Manage, FollowUp
<1>2. ASSUME NEW a \in Agencies, Control(a) PROVE JobInv'
  BY <1>2 DEF Control
<1>3. ASSUME NEW r \in Rows, NEW s \in Sessions, Claim(r, s) PROVE JobInv'
  BY <1>3 DEF Claim
<1>4. ASSUME NEW r \in Rows, NEW o \in Operators, Reassign(r, o) PROVE JobInv'
  BY <1>4 DEF Reassign
<1>5. ASSUME NEW r \in Rows, CompleteTask(r) PROVE JobInv'
  BY <1>5 DEF CompleteTask
<1>6. CASE UNCHANGED vars
  BY <1>6 DEF vars
<1> QED
  BY <1>1, <1>2, <1>3, <1>4, <1>5, <1>6 DEF Next

LEMMA AlwaysTyped == Spec => []Typed
<1>1. Typed /\ [Next]_vars => Typed'
  BY TablesStep, TaskStep, JobStep DEF Typed
<1> QED
  BY <1>1, TypedInit, PTL DEF Spec

-----------------------------------------------------------------------------
\* Every step keeps stopped agencies out of the queue.
LEMMA StopStep ==
  ASSUME Typed, StopHolds, [Next]_vars
  PROVE  StopHolds'
<1> USE ConstantsAssumption DEF Goto, Answer, Start, Ready, Begin, Typed, Tables, StopHolds, OpenOf, Open, OpenStatuses
<1>1. ASSUME NEW q \in Requests, Save(q) \/ Manage(q) \/ FollowUp(q) \/ Abort(q)
      PROVE  StopHolds'
  <2>1. CASE \E u \in Submissions : Submit(q, u)
    BY <2>1 DEF Submit
  <2>2. CASE Find(q) \/ CheckScript(q)
    BY <2>2 DEF Find, CheckScript
  <2>3. CASE Record(q)
    BY <2>3 DEF Record
  <2>4. CASE Commit(q)
    <3> DEFINE f == FormOf(q)
    <3>1. f \in FormRecords /\ job[q].form \in Submissions /\ row[f.row] \in RowRecords
      BY <2>4 DEF Commit, JobInv, FormOf, FormRecords
    <3>2. Completed(row[f.row], job[q].form).status = "COMPLETED"
      BY <3>1, CompletedForms
    <3> QED
      BY <2>4, <3>1, <3>2, CancelledForms DEF Commit, FormRecords
  <2>5. CASE Lookup(q)
    BY <2>5 DEF Lookup
  <2>6. CASE \E c \in Campaigns : Archive(q, c)
    BY <2>6 DEF Archive
  <2>7. CASE \E c \in Campaigns : Activate(q, c)
    BY <2>7 DEF Activate
  <2>8. CASE \E c \in Campaigns, o \in Operators : \E ids \in SUBSET Targets[c] :
             ids # {} /\ Assign(q, c, ids, o)
    BY <2>8 DEF Assign
  <2>9. CASE ArchiveCommit(q)
    BY <2>9, CancelledForms DEF ArchiveCommit
  <2>10. CASE ActivateCommit(q)
    BY <2>10 DEF ActivateCommit
  <2>11. CASE AssignCommit(q)
    BY <2>11 DEF AssignCommit
  <2>12. CASE \E r \in Rows : Resume(q, r)
    BY <2>12 DEF Resume
  <2>13. CASE ResumeCommit(q)
    <3>1. CASE UNCHANGED row
      BY <2>13, <3>1 DEF ResumeCommit
    <3>2. CASE ~UNCHANGED row
      <4>1. PICK r \in Rows : /\ AgencyOf(r) = AgencyOf(job[q].task.link)
                              /\ row' = [row EXCEPT ![r] = Pending(job[q].task.operator)]
        BY <2>13, <3>2 DEF ResumeCommit
      <4>2. AgencyOf(r) \notin stopped
        BY <2>13, <3>2, <4>1 DEF ResumeCommit, Resumable, JobInv
      <4> QED
        BY <2>13, <4>1, <4>2 DEF ResumeCommit
    <3> QED
      BY <3>1, <3>2
  <2>14. CASE Abort(q)
    BY <2>14 DEF Abort
  <2> QED
    BY <1>1, <2>1, <2>2, <2>3, <2>4, <2>5, <2>6, <2>7, <2>8, <2>9, <2>10, <2>11, <2>12, <2>13, <2>14 DEF Save, Manage, FollowUp
<1>2. ASSUME NEW a \in Agencies, Control(a) PROVE StopHolds'
  BY <1>2, CancelledForms DEF Control
<1>3. ASSUME NEW r \in Rows, NEW s \in Sessions, Claim(r, s) PROVE StopHolds'
  BY <1>3 DEF Claim
<1>4. ASSUME NEW r \in Rows, NEW o \in Operators, Reassign(r, o) PROVE StopHolds'
  <2>1. PICK new \in Rows :
          /\ AgencyOf(new) = AgencyOf(r)
          /\ row' = [row EXCEPT ![r] = Cancelled([@ EXCEPT !.session = NoSession]),
                                ![new] = Pending(o)]
    BY <1>4 DEF Reassign
  <2>2. \A x \in Rows \ {r, new} : row'[x] = row[x]
    BY <2>1
  <2>3. AgencyOf(r) \notin stopped /\ stopped' = stopped
    BY <1>4 DEF Reassign
  <2> QED
    BY <2>1, <2>2, <2>3
<1>5. ASSUME NEW r \in Rows, CompleteTask(r) PROVE StopHolds'
  BY <1>5 DEF CompleteTask
<1>6. CASE UNCHANGED vars
  BY <1>6 DEF vars
<1> QED
  BY <1>1, <1>2, <1>3, <1>4, <1>5, <1>6 DEF Next

\* An agency whose calls are stopped is in nobody's queue, whatever was being
\* assigned, resumed or recorded when the stop came.
THEOREM StoppedStays == Spec => []StopHolds
<1>1. Init => StopHolds
  BY DEF Init, StopHolds
<1>2. Spec => [](Typed /\ StopHolds)
  BY AlwaysTyped, StopStep, <1>1, PTL DEF Spec
<1> QED
  BY <1>2, PTL

-----------------------------------------------------------------------------
\* A completed assignment has one result and every other one has none.
ResultInv ==
  \A r \in Rows :
    IF row[r].status = "COMPLETED" THEN \E u \in Submissions : row[r].results = {u}
    ELSE row[r].results = {}

\* From the moment a result is written to its commit, the assignment is open, and
\* nobody else writes a result for its agency.
CommitInv ==
  /\ \A q \in Requests : pc[q] = "commit" => row[RowOf(q)].status \in OpenStatuses
  /\ \A p, q \in Requests :
       /\ pc[p] = "commit" /\ pc[q] = "commit" /\ AgencyOf(RowOf(p)) = AgencyOf(RowOf(q))
       => p = q

\* An assignment whose result is not committed yet does not change.
Frozen ==
  \A p \in Requests :
    pc[p] = "commit" /\ pc'[p] = "commit" => row'[RowOf(p)] = row[RowOf(p)]

\* A new assignment has no result.
LEMMA PendingForms ==
  ASSUME NEW o
  PROVE  /\ Pending(o).status = "PENDING" /\ Pending(o).results = {}
         /\ Pending(o).version = 1
BY DEF Pending, Absent

\* Every step keeps the results of the assignments.
LEMMA ResultStep ==
  ASSUME Typed, ResultInv, CommitInv, [Next]_vars
  PROVE  ResultInv'
<1> USE ConstantsAssumption DEF Goto, Answer, Start, Ready, Begin, Typed, Tables, ResultInv, OpenStatuses
<1>1. ASSUME NEW q \in Requests, Save(q) \/ Manage(q) \/ FollowUp(q) \/ Abort(q)
      PROVE  ResultInv'
  <2>1. CASE \E u \in Submissions : Submit(q, u)
    BY <2>1 DEF Submit
  <2>2. CASE Find(q) \/ CheckScript(q)
    BY <2>2 DEF Find, CheckScript
  <2>3. CASE Record(q)
    BY <2>3 DEF Record
  <2>4. CASE Commit(q)
    <3> DEFINE f == FormOf(q)
    <3>1. f \in FormRecords /\ job[q].form \in Submissions /\ row[f.row] \in RowRecords
      BY <2>4 DEF Commit, JobInv, FormOf, FormRecords
    <3>2. row[f.row].status \in OpenStatuses /\ row[f.row].results = {}
      BY <2>4, <3>1 DEF Commit, CommitInv, RowOf, FormRecords
    <3>3. Completed(row[f.row], job[q].form).results = {job[q].form}
      <4>1. Completed(row[f.row], job[q].form).results
              = row[f.row].results \cup {job[q].form}
        BY <3>1, CompletedForms
      <4> QED
        BY <3>2, <4>1
    <3>4. Completed(row[f.row], job[q].form).status = "COMPLETED"
      BY <3>1, CompletedForms
    <3> QED
      BY <2>4, <3>1, <3>3, <3>4, CancelledForms DEF Commit, Open, OpenOf
  <2>5. CASE Lookup(q)
    BY <2>5 DEF Lookup
  <2>6. CASE \E c \in Campaigns : Archive(q, c)
    BY <2>6 DEF Archive
  <2>7. CASE \E c \in Campaigns : Activate(q, c)
    BY <2>7 DEF Activate
  <2>8. CASE \E c \in Campaigns, o \in Operators : \E ids \in SUBSET Targets[c] :
             ids # {} /\ Assign(q, c, ids, o)
    BY <2>8 DEF Assign
  <2>9. CASE ArchiveCommit(q)
    BY <2>9, CancelledForms DEF ArchiveCommit, Open
  <2>10. CASE ActivateCommit(q)
    BY <2>10 DEF ActivateCommit
  <2>11. CASE AssignCommit(q)
    BY <2>11, PendingForms DEF AssignCommit
  <2>12. CASE \E r \in Rows : Resume(q, r)
    BY <2>12 DEF Resume
  <2>13. CASE ResumeCommit(q)
    <3>1. CASE UNCHANGED row
      BY <2>13, <3>1 DEF ResumeCommit
    <3>2. CASE ~UNCHANGED row
      <4>1. PICK r \in Rows : IsNext(r) /\ row' = [row EXCEPT ![r] = Pending(job[q].task.operator)]
        BY <2>13, <3>2 DEF ResumeCommit
      <4> QED
        BY <2>13, <4>1, PendingForms DEF ResumeCommit, IsNext
    <3> QED
      BY <3>1, <3>2
  <2>14. CASE Abort(q)
    BY <2>14 DEF Abort
  <2> QED
    BY <1>1, <2>1, <2>2, <2>3, <2>4, <2>5, <2>6, <2>7, <2>8, <2>9, <2>10, <2>11, <2>12, <2>13, <2>14 DEF Save, Manage, FollowUp
<1>2. ASSUME NEW a \in Agencies, Control(a) PROVE ResultInv'
  BY <1>2, CancelledForms DEF Control, Open, OpenOf
<1>3. ASSUME NEW r \in Rows, NEW s \in Sessions, Claim(r, s) PROVE ResultInv'
  BY <1>3 DEF Claim, Open, RowRecords
<1>4. ASSUME NEW r \in Rows, NEW o \in Operators, Reassign(r, o) PROVE ResultInv'
  <2> DEFINE old == [row[r] EXCEPT !.session = NoSession]
  <2>1. PICK new \in Rows :
          row' = [row EXCEPT ![r] = Cancelled(old), ![new] = Pending(o)]
    BY <1>4 DEF Reassign
  <2>2. old \in RowRecords /\ old.results = row[r].results
    BY DEF RowRecords
  <2>3. row[r].results = {} /\ Cancelled(old).results = {}
    BY <1>4, <2>2, CancelledForms DEF Reassign, Open
  <2>4. Cancelled(old).status = "CANCELLED"
    BY <2>2, CancelledForms
  <2>5. \A x \in Rows \ {r, new} : row'[x] = row[x]
    BY <2>1
  <2> HIDE DEF old
  <2>6. row'[new] = Pending(o) /\ (r # new => row'[r] = Cancelled(old))
    BY <2>1
  <2> QED
    BY <2>3, <2>4, <2>5, <2>6, PendingForms
<1>5. ASSUME NEW r \in Rows, CompleteTask(r) PROVE ResultInv'
  BY <1>5 DEF CompleteTask
<1>6. CASE UNCHANGED vars
  BY <1>6 DEF vars
<1> QED
  BY <1>1, <1>2, <1>3, <1>4, <1>5, <1>6 DEF Next

\* Every step keeps the assignments whose results are not committed yet.
LEMMA CommitStep ==
  ASSUME Typed, CommitInv, [Next]_vars
  PROVE  CommitInv' /\ Frozen
<1> DEFINE Kept == CommitInv' /\ Frozen
<1> USE ConstantsAssumption DEF Goto, Answer, Start, Ready, Begin, Typed, Tables, CommitInv, OpenStatuses, RowOf, FormOf, Frozen
<1>1. ASSUME NEW q \in Requests, Save(q) \/ Manage(q) \/ FollowUp(q) \/ Abort(q)
      PROVE  Kept
  <2>1. CASE \E u \in Submissions : Submit(q, u)
    <3>1. \A p \in Requests : pc[p] = "commit" => p # q /\ form'[job[p].form] = form[job[p].form]
      BY <2>1, FormAssumption DEF Submit, JobInv
    <3> QED
      BY <2>1, <3>1 DEF Submit
  <2>2. CASE Find(q) \/ CheckScript(q)
    BY <2>2 DEF Find, CheckScript
  <2>3. CASE Record(q)
    <3>1. job'[q].form = job[q].form
      BY <2>3 DEF Record, JobInv
    <3> QED
      BY <2>3, <3>1 DEF Record, Unchanged, AgencyHeld
  <2>4. CASE Commit(q)
    <3> DEFINE f == FormOf(q)
    <3>1. f \in FormRecords /\ job[q].form \in Submissions /\ row[f.row] \in RowRecords
      BY <2>4 DEF Commit, JobInv, FormOf, FormRecords
    <3>2. \A p \in Requests : pc'[p] = "commit" =>
             p # q /\ pc[p] = "commit" /\ job'[p] = job[p] /\ form' = form
      BY <2>4 DEF Commit
    <3>3. ASSUME NEW p \in Requests, pc'[p] = "commit"
          PROVE  row'[RowOf(p)] = row[RowOf(p)]
      <4>1. AgencyOf(RowOf(p)) # AgencyOf(f.row) /\ RowOf(p) \in Rows
        BY <2>4, <3>1, <3>2, <3>3 DEF Commit, JobInv, FormRecords
      <4> QED
        BY <2>4, <4>1 DEF Commit, Open, OpenOf
    <3> QED
      BY <3>2, <3>3
  <2>5. CASE Lookup(q)
    BY <2>5 DEF Lookup
  <2>6. CASE \E c \in Campaigns : Archive(q, c)
    BY <2>6 DEF Archive
  <2>7. CASE \E c \in Campaigns : Activate(q, c)
    BY <2>7 DEF Activate
  <2>8. CASE \E c \in Campaigns, o \in Operators : \E ids \in SUBSET Targets[c] :
             ids # {} /\ Assign(q, c, ids, o)
    BY <2>8 DEF Assign
  <2>9. CASE ArchiveCommit(q)
    <3>1. ASSUME NEW p \in Requests, pc[p] = "commit"
          PROVE  p # q /\ row'[RowOf(p)] = row[RowOf(p)]
      BY <2>9, <3>1 DEF ArchiveCommit, JobInv, FormRecords
    <3> QED
      BY <2>9, <3>1 DEF ArchiveCommit
  <2>10. CASE ActivateCommit(q)
    BY <2>10 DEF ActivateCommit
  <2>11. CASE AssignCommit(q)
    <3>1. ASSUME NEW p \in Requests, pc[p] = "commit"
          PROVE  p # q /\ row'[RowOf(p)] = row[RowOf(p)]
      BY <2>11, <3>1 DEF AssignCommit, JobInv, FormRecords, IsNext
    <3> QED
      BY <2>11, <3>1 DEF AssignCommit
  <2>12. CASE \E r \in Rows : Resume(q, r)
    BY <2>12 DEF Resume
  <2>13. CASE ResumeCommit(q)
    <3>1. ASSUME NEW p \in Requests, pc[p] = "commit"
          PROVE  p # q /\ row'[RowOf(p)] = row[RowOf(p)]
      <4>1. p # q /\ RowOf(p) \in Rows
        BY <2>13, <3>1 DEF ResumeCommit, JobInv, FormRecords
      <4>2. CASE UNCHANGED row
        BY <4>1, <4>2
      <4>3. CASE ~UNCHANGED row
        <5>1. PICK r \in Rows :
                IsNext(r) /\ row' = [row EXCEPT ![r] = Pending(job[q].task.operator)]
          BY <2>13, <4>3 DEF ResumeCommit
        <5> QED
          BY <3>1, <4>1, <5>1 DEF IsNext
      <4> QED
        BY <4>2, <4>3
    <3>2. \E a \in {"ok", "duplicate", "refused"} : Answer(q, a)
      BY <2>13, Zenon DEF ResumeCommit
    <3>3. form' = form
      BY <2>13 DEF ResumeCommit
    <3> QED
      BY <3>1, <3>2, <3>3
  <2>14. CASE Abort(q)
    BY <2>14 DEF Abort
  <2> QED
    BY <1>1, <2>1, <2>2, <2>3, <2>4, <2>5, <2>6, <2>7, <2>8, <2>9, <2>10, <2>11, <2>12, <2>13, <2>14 DEF Save, Manage, FollowUp
<1>2. ASSUME NEW a \in Agencies, Control(a) PROVE Kept
  <2>1. ASSUME NEW p \in Requests, pc[p] = "commit"
        PROVE  row'[RowOf(p)] = row[RowOf(p)]
    BY <1>2, <2>1 DEF Control, JobInv, FormRecords, AgencyHeld, Open, OpenOf
  <2> QED
    BY <1>2, <2>1 DEF Control
<1>3. ASSUME NEW r \in Rows, NEW s \in Sessions, Claim(r, s) PROVE Kept
  <2>1. ASSUME NEW p \in Requests, pc[p] = "commit"
        PROVE  row'[RowOf(p)] = row[RowOf(p)]
    BY <1>3, <2>1 DEF Claim, JobInv, FormRecords, AgencyHeld, Open
  <2> QED
    BY <1>3, <2>1 DEF Claim
<1>4. ASSUME NEW r \in Rows, NEW o \in Operators, Reassign(r, o) PROVE Kept
  <2>1. ASSUME NEW p \in Requests, pc[p] = "commit"
        PROVE  row'[RowOf(p)] = row[RowOf(p)]
    <3>1. RowOf(p) \in Rows /\ RowOf(p) # r
      BY <1>4, <2>1 DEF Reassign, JobInv, FormRecords, AgencyHeld
    <3>2. PICK new \in Rows :
            /\ IsNext(new)
            /\ row' = [row EXCEPT ![r] = Cancelled([@ EXCEPT !.session = NoSession]),
                                  ![new] = Pending(o)]
      BY <1>4 DEF Reassign
    <3>3. RowOf(p) # new
      BY <2>1, <3>2 DEF IsNext
    <3> QED
      BY <3>1, <3>2, <3>3
  <2> QED
    BY <1>4, <2>1 DEF Reassign
<1>5. ASSUME NEW r \in Rows, CompleteTask(r) PROVE Kept
  BY <1>5 DEF CompleteTask
<1>6. CASE UNCHANGED vars
  BY <1>6 DEF vars
<1> QED
  BY <1>1, <1>2, <1>3, <1>4, <1>5, <1>6 DEF Next

\* Each call has one result, and the assignment is completed with it and stays so.
THEOREM ResultsAreSingle == Spec => []OneResult
<1>1. Init => ResultInv /\ CommitInv
  BY PendingForms DEF Init, ResultInv, CommitInv, Absent
<1>2. Spec => [](ResultInv /\ CommitInv)
  BY AlwaysTyped, ResultStep, CommitStep, <1>1, PTL DEF Spec
<1>3. ResultInv => OneResult
  BY FS_EmptySet, FS_Singleton DEF ResultInv, OneResult
<1> QED
  BY <1>2, <1>3, PTL

-----------------------------------------------------------------------------
\* A row that was never used has no version, and every other one has.
VersionInv == \A r \in Rows : row[r].version = 0 <=> row[r].status = "none"

\* The two unique indexes.
IndexInv ==
  /\ \A r, s \in Open : AgencyOf(r) = AgencyOf(s) => r = s
  /\ \A r, s \in Rows :
       /\ CampaignOf(r) = CampaignOf(s) /\ AgencyOf(r) = AgencyOf(s)
       /\ {row[r].status, row[s].status} \cap {"none", "CANCELLED"} = {}
       => r = s

\* The stages, and the status of the campaigns.
StageInv ==
  /\ campaign \in [Campaigns -> CampaignStatuses]
  /\ pc \in [Requests -> {"idle", "find", "script", "record", "commit", "lookup",
                          "archiving", "activating", "assigning", "resuming",
                          "ok", "refused", "noscript", "failed", "duplicate"}]

\* Only one assignment is the next one of its agency in its campaign.
LEMMA NextIsOne ==
  ASSUME NEW r \in Rows, NEW s \in Rows, IsNext(r), IsNext(s),
         CampaignOf(r) = CampaignOf(s), AgencyOf(r) = AgencyOf(s)
  PROVE  r = s
<1>1. /\ r = <<r[1], r[2], r[3]>> /\ s = <<s[1], s[2], s[3]>>
      /\ r[3] \in 1..Generations /\ s[3] \in 1..Generations
  BY DEF Rows
<1>2. r[1] = s[1] /\ r[2] = s[2]
  BY DEF CampaignOf, AgencyOf
<1>3. ~(r[3] < s[3])
  <2>1. r[3] < s[3] => r[3] \in 1..(s[3] - 1)
    BY <1>1, ConstantsAssumption
  <2> QED
    BY <1>1, <1>2, <2>1 DEF IsNext
<1>4. ~(s[3] < r[3])
  <2>1. s[3] < r[3] => s[3] \in 1..(r[3] - 1)
    BY <1>1, ConstantsAssumption
  <2> QED
    BY <1>1, <1>2, <2>1 DEF IsNext
<1>5. r[3] = s[3]
  BY <1>1, <1>3, <1>4, ConstantsAssumption
<1> QED
  BY <1>1, <1>2, <1>5

\* Where an assignment may be inserted, none counts.
LEMMA FreeIsFree ==
  ASSUME NEW r \in Rows, Free(CampaignOf(r), AgencyOf(r))
  PROVE  row[r].status \in {"none", "CANCELLED"}
<1>1. r = <<r[1], r[2], r[3]>> /\ r[3] \in 1..Generations
  BY DEF Rows
<1> QED
  BY <1>1 DEF Free, CampaignOf, AgencyOf

\* The indexes survive where assignments only go on or end.
LEMMA FewerKeepIndex ==
  ASSUME IndexInv,
         \A r \in Rows :
            \/ row'[r] = row[r]
            \/ row'[r].status = "CANCELLED"
            \/ /\ row[r].status \in OpenStatuses
               /\ row'[r].status \in OpenStatuses \cup {"COMPLETED"}
  PROVE  IndexInv'
BY DEF IndexInv, Open, OpenStatuses

\* The indexes survive where one assignment is inserted for each agency.
LEMMA NewKeepIndex ==
  ASSUME IndexInv, NEW c,
         \A r \in Rows :
            \/ row'[r] = row[r]
            \/ /\ CampaignOf(r) = c /\ Free(c, AgencyOf(r)) /\ IsNext(r)
               /\ row'[r].status = "PENDING"
  PROVE  IndexInv'
<1> DEFINE new == {r \in Rows : row'[r] # row[r]}
<1>1. \A r \in new : CampaignOf(r) = c /\ Free(c, AgencyOf(r)) /\ IsNext(r)
  OBVIOUS
<1>2. \A r, s \in new : AgencyOf(r) = AgencyOf(s) => r = s
  BY <1>1, NextIsOne
<1>3. \A r \in new, s \in Rows \ new : AgencyOf(r) = AgencyOf(s) =>
         /\ s \notin Open
         /\ CampaignOf(s) = c => row[s].status \in {"none", "CANCELLED"}
  BY <1>1, FreeIsFree DEF Free, OpenOf
<1>4. \A r, s \in Open' : AgencyOf(r) = AgencyOf(s) => r = s
  BY <1>2, <1>3 DEF IndexInv, Open
<1>5. \A r, s \in Rows :
        /\ CampaignOf(r) = CampaignOf(s) /\ AgencyOf(r) = AgencyOf(s)
        /\ {row'[r].status, row'[s].status} \cap {"none", "CANCELLED"} = {}
        => r = s
  BY <1>1, <1>2, <1>3 DEF IndexInv
<1> QED
  BY <1>4, <1>5 DEF IndexInv

\* An assignment that changes gets a higher version and a status, and it was not
\* completed before.
Risen ==
  \A x \in Rows : row'[x] # row[x] =>
    /\ row'[x].version > row[x].version
    /\ row'[x].status # "none" /\ row[x].status # "COMPLETED"

\* No step changes a completed assignment, or keeps a version for something new.
LEMMA RowsRise ==
  ASSUME Typed, VersionInv, CommitInv, [Next]_vars
  PROVE  Risen
<1> USE ConstantsAssumption DEF Goto, Answer, Start, Ready, Begin, Typed, Tables, VersionInv, Risen
<1>1. ASSUME NEW q \in Requests, Save(q) \/ Manage(q) \/ FollowUp(q) \/ Abort(q)
      PROVE  Risen
  <2>1. CASE \E u \in Submissions : Submit(q, u)
    BY <2>1 DEF Submit
  <2>2. CASE Find(q) \/ CheckScript(q)
    BY <2>2 DEF Find, CheckScript
  <2>3. CASE Record(q)
    BY <2>3 DEF Record
  <2>4. CASE Commit(q)
    <3> DEFINE f == FormOf(q)
    <3>1. f \in FormRecords /\ job[q].form \in Submissions /\ row[f.row] \in RowRecords
      BY <2>4 DEF Commit, JobInv, FormOf, FormRecords
    <3>2. row[f.row].status \in OpenStatuses
      BY <2>4 DEF Commit, CommitInv, RowOf
    <3>3. /\ Completed(row[f.row], job[q].form).status = "COMPLETED"
          /\ Completed(row[f.row], job[q].form).version > row[f.row].version
      BY <3>1, CompletedForms
    <3>4. ASSUME NEW x \in Rows
          PROVE  \/ row'[x] = row[x]
                 \/ x = f.row /\ row'[x] = Completed(row[x], job[q].form)
                 \/ row[x].status \in OpenStatuses /\ row'[x] = Cancelled(row[x])
      BY <2>4 DEF Commit, Open, OpenOf
    <3> HIDE DEF f
    <3> QED
      BY <3>2, <3>3, <3>4, CancelledForms DEF OpenStatuses
  <2>5. CASE Lookup(q)
    BY <2>5 DEF Lookup
  <2>6. CASE \E c \in Campaigns : Archive(q, c)
    BY <2>6 DEF Archive
  <2>7. CASE \E c \in Campaigns : Activate(q, c)
    BY <2>7 DEF Activate
  <2>8. CASE \E c \in Campaigns, o \in Operators : \E ids \in SUBSET Targets[c] :
             ids # {} /\ Assign(q, c, ids, o)
    BY <2>8 DEF Assign
  <2>9. CASE ArchiveCommit(q)
    BY <2>9, CancelledForms DEF ArchiveCommit, Open, OpenStatuses
  <2>10. CASE ActivateCommit(q)
    BY <2>10 DEF ActivateCommit
  <2>11. CASE AssignCommit(q)
    BY <2>11, PendingForms DEF AssignCommit, IsNext
  <2>12. CASE \E r \in Rows : Resume(q, r)
    BY <2>12 DEF Resume
  <2>13. CASE ResumeCommit(q)
    <3>1. CASE UNCHANGED row
      BY <2>13, <3>1 DEF ResumeCommit
    <3>2. CASE ~UNCHANGED row
      <4>1. PICK r \in Rows :
              /\ IsNext(r) /\ Free(CampaignOf(r), AgencyOf(r))
              /\ row' = [row EXCEPT ![r] = Pending(job[q].task.operator)]
        BY <2>13, <3>2 DEF ResumeCommit
      <4> QED
        BY <4>1, PendingForms DEF IsNext
    <3> QED
      BY <3>1, <3>2
  <2>14. CASE Abort(q)
    BY <2>14 DEF Abort
  <2> QED
    BY <1>1, <2>1, <2>2, <2>3, <2>4, <2>5, <2>6, <2>7, <2>8, <2>9, <2>10, <2>11, <2>12, <2>13, <2>14 DEF Save, Manage, FollowUp
<1>2. ASSUME NEW a \in Agencies, Control(a) PROVE Risen
  BY <1>2, CancelledForms DEF Control, Open, OpenOf, OpenStatuses
<1>3. ASSUME NEW r \in Rows, NEW s \in Sessions, Claim(r, s) PROVE Risen
  <2>1. row[r].version + 1 > row[r].version /\ row[r].version \in Nat
    BY DEF RowRecords
  <2> QED
    BY <1>3, <2>1 DEF Claim, Open, OpenStatuses
<1>4. ASSUME NEW r \in Rows, NEW o \in Operators, Reassign(r, o) PROVE Risen
  <2> DEFINE old == [row[r] EXCEPT !.session = NoSession]
  <2>1. PICK new \in Rows :
          /\ CampaignOf(new) = CampaignOf(r) /\ AgencyOf(new) = AgencyOf(r) /\ IsNext(new)
          /\ row' = [row EXCEPT ![r] = Cancelled(old), ![new] = Pending(o)]
    BY <1>4 DEF Reassign
  <2>2. old \in RowRecords /\ old.version = row[r].version
    BY DEF RowRecords
  <2> HIDE DEF old
  <2>3. Cancelled(old).status = "CANCELLED" /\ Cancelled(old).version > row[r].version
    BY <2>2, CancelledForms
  <2>4. \A x \in Rows \ {r, new} : row'[x] = row[x]
    BY <2>1
  <2>5. row'[new] = Pending(o) /\ (r # new => row'[r] = Cancelled(old))
    BY <2>1
  <2>6. row[r].status \in OpenStatuses /\ row[new].status = "none"
    BY <1>4, <2>1 DEF Reassign, Open, IsNext
  <2> QED
    BY <2>3, <2>4, <2>5, <2>6, PendingForms DEF OpenStatuses
<1>5. ASSUME NEW r \in Rows, CompleteTask(r) PROVE Risen
  BY <1>5 DEF CompleteTask
<1>6. CASE UNCHANGED vars
  BY <1>6 DEF vars
<1> QED
  BY <1>1, <1>2, <1>3, <1>4, <1>5, <1>6 DEF Next

\* Every step keeps the versions.
LEMMA VersionStep ==
  ASSUME Typed, Typed', VersionInv, CommitInv, [Next]_vars
  PROVE  VersionInv'
<1>1. ASSUME NEW x \in Rows PROVE row[x].version \in Nat /\ row'[x].version \in Nat
  BY DEF Typed, Tables, RowRecords
<1> QED
  BY <1>1, RowsRise DEF VersionInv, Risen

\* Every step keeps the unique indexes.
LEMMA IndexStep ==
  ASSUME Typed, IndexInv, CommitInv, [Next]_vars
  PROVE  IndexInv'
<1> USE ConstantsAssumption DEF Goto, Answer, Start, Ready, Begin, Typed, Tables
<1>1. ASSUME NEW q \in Requests, Save(q) \/ Manage(q) \/ FollowUp(q) \/ Abort(q)
      PROVE  IndexInv'
  <2>1. CASE \E u \in Submissions : Submit(q, u)
    BY <2>1 DEF Submit, IndexInv, Open
  <2>2. CASE Find(q) \/ CheckScript(q)
    BY <2>2 DEF Find, CheckScript, IndexInv, Open
  <2>3. CASE Record(q)
    BY <2>3 DEF Record, IndexInv, Open
  <2>4. CASE Commit(q)
    <3> DEFINE f == FormOf(q)
    <3>1. f \in FormRecords /\ job[q].form \in Submissions /\ row[f.row] \in RowRecords
      BY <2>4 DEF Commit, JobInv, FormOf, FormRecords
    <3>2. Completed(row[f.row], job[q].form).status = "COMPLETED"
      BY <3>1, CompletedForms
    <3>3. row[f.row].status \in OpenStatuses
      BY <2>4 DEF Commit, CommitInv, RowOf
    <3>4. ASSUME NEW r \in Rows
          PROVE  \/ row'[r] = row[r]
                 \/ row'[r].status = "CANCELLED"
                 \/ r = f.row /\ row'[r].status = "COMPLETED"
      BY <2>4, <3>2, CancelledForms DEF Commit
    <3> QED
      BY <3>3, <3>4, FewerKeepIndex
  <2>5. CASE Lookup(q)
    BY <2>5 DEF Lookup, IndexInv, Open
  <2>6. CASE \E c \in Campaigns : Archive(q, c)
    BY <2>6 DEF Archive, IndexInv, Open
  <2>7. CASE \E c \in Campaigns : Activate(q, c)
    BY <2>7 DEF Activate, IndexInv, Open
  <2>8. CASE \E c \in Campaigns, o \in Operators : \E ids \in SUBSET Targets[c] :
             ids # {} /\ Assign(q, c, ids, o)
    BY <2>8 DEF Assign, IndexInv, Open
  <2>9. CASE ArchiveCommit(q)
    <3>1. \A r \in Rows : row'[r] = row[r] \/ row'[r].status = "CANCELLED"
      BY <2>9, CancelledForms DEF ArchiveCommit
    <3> QED
      BY <3>1, FewerKeepIndex
  <2>10. CASE ActivateCommit(q)
    BY <2>10 DEF ActivateCommit, IndexInv, Open
  <2>11. CASE AssignCommit(q)
    <3>1. ASSUME NEW r \in Rows
          PROVE  \/ row'[r] = row[r]
                 \/ /\ CampaignOf(r) = job[q].campaign
                    /\ Free(job[q].campaign, AgencyOf(r)) /\ IsNext(r)
                    /\ row'[r].status = "PENDING"
      BY <2>11, PendingForms DEF AssignCommit
    <3> QED
      BY <3>1, NewKeepIndex
  <2>12. CASE \E r \in Rows : Resume(q, r)
    BY <2>12 DEF Resume, IndexInv, Open
  <2>13. CASE ResumeCommit(q)
    <3>1. CASE UNCHANGED row
      BY <3>1 DEF IndexInv, Open
    <3>2. CASE ~UNCHANGED row
      <4>1. PICK r \in Rows :
              /\ IsNext(r) /\ Free(CampaignOf(r), AgencyOf(r))
              /\ row' = [row EXCEPT ![r] = Pending(job[q].task.operator)]
        BY <2>13, <3>2 DEF ResumeCommit
      <4> QED
        BY <4>1, PendingForms, NewKeepIndex
    <3> QED
      BY <3>1, <3>2
  <2>14. CASE Abort(q)
    BY <2>14 DEF Abort, IndexInv, Open
  <2> QED
    BY <1>1, <2>1, <2>2, <2>3, <2>4, <2>5, <2>6, <2>7, <2>8, <2>9, <2>10, <2>11, <2>12, <2>13, <2>14 DEF Save, Manage, FollowUp
<1>2. ASSUME NEW a \in Agencies, Control(a) PROVE IndexInv'
  <2>1. \A r \in Rows : row'[r] = row[r] \/ row'[r].status = "CANCELLED"
    BY <1>2, CancelledForms DEF Control
  <2> QED
    BY <2>1, FewerKeepIndex
<1>3. ASSUME NEW r \in Rows, NEW s \in Sessions, Claim(r, s) PROVE IndexInv'
  <2>1. /\ \A x \in Rows \ {r} : row'[x] = row[x]
        /\ row[r].status \in OpenStatuses /\ row'[r].status \in OpenStatuses
    BY <1>3 DEF Claim, Open, OpenStatuses
  <2> QED
    BY <2>1, FewerKeepIndex
<1>4. ASSUME NEW r \in Rows, NEW o \in Operators, Reassign(r, o) PROVE IndexInv'
  <2> DEFINE old == [row[r] EXCEPT !.session = NoSession]
  <2>1. PICK new \in Rows :
          /\ CampaignOf(new) = CampaignOf(r) /\ AgencyOf(new) = AgencyOf(r) /\ IsNext(new)
          /\ row' = [row EXCEPT ![r] = Cancelled(old), ![new] = Pending(o)]
    BY <1>4 DEF Reassign
  <2>2. old \in RowRecords
    BY DEF RowRecords
  <2>3. Cancelled(old).status = "CANCELLED"
    BY <2>2, CancelledForms
  <2> HIDE DEF old
  <2>4. \A x \in Rows \ {r, new} : row'[x] = row[x]
    BY <2>1
  <2>5. row'[new] = Pending(o) /\ (r # new => row'[r] = Cancelled(old))
    BY <2>1
  <2>6. r \in Open /\ r # new
    BY <1>4, <2>1 DEF Reassign, Open, OpenStatuses, IsNext
  <2>7. \A x \in Open' : x = new \/ x \in Open \ {r}
    BY <2>3, <2>4, <2>5, <2>6 DEF Open, OpenStatuses
  <2>8. \A x, y \in Open' : AgencyOf(x) = AgencyOf(y) => x = y
    BY <2>1, <2>6, <2>7 DEF IndexInv
  <2>9. \A x \in Rows \ {r, new} :
           /\ row'[x] = row[x]
           /\ CampaignOf(x) = CampaignOf(r) /\ AgencyOf(x) = AgencyOf(r) =>
                row[x].status \in {"none", "CANCELLED"}
    BY <2>4, <2>6 DEF IndexInv, Open, OpenStatuses
  <2>10. row'[r].status = "CANCELLED"
    BY <2>3, <2>5, <2>6
  <2>11. \A x, y \in Rows :
           /\ CampaignOf(x) = CampaignOf(y) /\ AgencyOf(x) = AgencyOf(y)
           /\ {row'[x].status, row'[y].status} \cap {"none", "CANCELLED"} = {}
           => x = y
    BY <2>1, <2>9, <2>10 DEF IndexInv
  <2> QED
    BY <2>8, <2>11 DEF IndexInv
<1>5. ASSUME NEW r \in Rows, CompleteTask(r) PROVE IndexInv'
  BY <1>5 DEF CompleteTask, IndexInv, Open
<1>6. CASE UNCHANGED vars
  BY <1>6 DEF vars, IndexInv, Open
<1> QED
  BY <1>1, <1>2, <1>3, <1>4, <1>5, <1>6 DEF Next

\* Every step keeps the stages.
LEMMA StageStep ==
  ASSUME Typed, StageInv, [Next]_vars
  PROVE  StageInv'
<1> USE ConstantsAssumption DEF Goto, Answer, Start, Ready, Begin, Typed, Tables, StageInv, CampaignStatuses, Operating
<1>1. ASSUME NEW q \in Requests, Save(q) \/ Manage(q) \/ FollowUp(q) \/ Abort(q)
      PROVE  StageInv'
  <2>1. CASE \E u \in Submissions : Submit(q, u)
    BY <2>1 DEF Submit
  <2>2. CASE Find(q) \/ CheckScript(q)
    BY <2>2 DEF Find, CheckScript
  <2>3. CASE Record(q)
    BY <2>3 DEF Record
  <2>4. CASE Commit(q)
    BY <2>4 DEF Commit
  <2>5. CASE Lookup(q)
    BY <2>5 DEF Lookup
  <2>6. CASE \E c \in Campaigns : Archive(q, c)
    BY <2>6 DEF Archive
  <2>7. CASE \E c \in Campaigns : Activate(q, c)
    BY <2>7 DEF Activate
  <2>8. CASE \E c \in Campaigns, o \in Operators : \E ids \in SUBSET Targets[c] :
             ids # {} /\ Assign(q, c, ids, o)
    BY <2>8 DEF Assign
  <2>9. CASE ArchiveCommit(q)
    BY <2>9 DEF ArchiveCommit
  <2>10. CASE ActivateCommit(q)
    BY <2>10 DEF ActivateCommit
  <2>11. CASE AssignCommit(q)
    BY <2>11 DEF AssignCommit
  <2>12. CASE \E r \in Rows : Resume(q, r)
    BY <2>12 DEF Resume
  <2>13. CASE ResumeCommit(q)
    <3>1. \E a \in {"ok", "duplicate", "refused"} : Answer(q, a)
      BY <2>13, Zenon DEF ResumeCommit
    <3>2. campaign' \in [Campaigns -> CampaignStatuses]
      BY <2>13 DEF ResumeCommit
    <3> QED
      BY <3>1, <3>2
  <2>14. CASE Abort(q)
    BY <2>14 DEF Abort
  <2> QED
    BY <1>1, <2>1, <2>2, <2>3, <2>4, <2>5, <2>6, <2>7, <2>8, <2>9, <2>10, <2>11, <2>12, <2>13, <2>14 DEF Save, Manage, FollowUp
<1>2. ASSUME NEW a \in Agencies, Control(a) PROVE StageInv'
  BY <1>2 DEF Control
<1>3. ASSUME NEW r \in Rows, NEW s \in Sessions, Claim(r, s) PROVE StageInv'
  BY <1>3 DEF Claim
<1>4. ASSUME NEW r \in Rows, NEW o \in Operators, Reassign(r, o) PROVE StageInv'
  BY <1>4 DEF Reassign
<1>5. ASSUME NEW r \in Rows, CompleteTask(r) PROVE StageInv'
  BY <1>5 DEF CompleteTask
<1>6. CASE UNCHANGED vars
  BY <1>6 DEF vars
<1> QED
  BY <1>1, <1>2, <1>3, <1>4, <1>5, <1>6 DEF Next

\* The type invariant, with the two unique indexes.
THEOREM TypeCorrect == Spec => []TypeOK
<1> DEFINE I == ResultInv /\ CommitInv /\ VersionInv /\ IndexInv /\ StageInv
<1>1. Init => I
  <2> SUFFICES ASSUME Init PROVE I
    OBVIOUS
  <2>1. PICK o \in Operators :
          row = [r \in Rows |-> IF CampaignOf(r) \in Workspace /\ r[3] = 1
                                THEN Pending(o) ELSE Absent]
    BY DEF Init
  <2>2. ResultInv /\ CommitInv
    BY <2>1, PendingForms DEF Init, ResultInv, CommitInv, Absent
  <2>3. VersionInv
    BY <2>1, PendingForms DEF VersionInv, Absent
  <2>4. \A r, s \in Rows :
           /\ CampaignOf(r) = CampaignOf(s) /\ AgencyOf(r) = AgencyOf(s)
           /\ row[r].status # "none" /\ row[s].status # "none"
           => r = s
    <3>1. \A r \in Rows : r = <<r[1], r[2], r[3]>>
      BY DEF Rows
    <3> QED
      BY <2>1, <3>1 DEF Absent, CampaignOf, AgencyOf
  <2>5. \A r, s \in Open : AgencyOf(r) = AgencyOf(s) => r = s
    <3>1. ASSUME NEW r \in Open PROVE CampaignOf(r) \in Workspace /\ row[r].status # "none"
      BY <2>1, <3>1 DEF Open, OpenStatuses, Absent
    <3>2. ASSUME NEW r \in Rows PROVE AgencyOf(r) \in Targets[CampaignOf(r)]
      BY DEF Rows, AgencyOf, CampaignOf
    <3>3. ASSUME NEW r \in Open, NEW s \in Open, AgencyOf(r) = AgencyOf(s)
          PROVE  CampaignOf(r) = CampaignOf(s)
      <4>1. /\ AgencyOf(r) \in Targets[CampaignOf(r)] \cap Targets[CampaignOf(s)]
            /\ CampaignOf(r) \in Workspace /\ CampaignOf(s) \in Workspace
        BY <3>1, <3>2, <3>3 DEF Open
      <4> QED
        BY <4>1, ConstantsAssumption
    <3> QED
      BY <2>4, <3>1, <3>3 DEF Open
  <2>6. StageInv
    BY DEF Init, StageInv, CampaignStatuses, Operating
  <2> QED
    BY <2>2, <2>3, <2>4, <2>5, <2>6 DEF IndexInv
<1>2. Spec => [](Typed /\ I)
  <2>1. Typed /\ Typed' /\ I /\ [Next]_vars => I'
    BY ResultStep, CommitStep, VersionStep, IndexStep, StageStep
  <2> QED
    BY AlwaysTyped, <1>1, <2>1, PTL DEF Spec
<1>3. Typed /\ I => TypeOK
  BY DEF Typed, Tables, TaskInv, VersionInv, IndexInv, StageInv, TypeOK, RowRecords
<1> QED
  BY <1>2, <1>3, PTL

-----------------------------------------------------------------------------
\* A step of a request that answers a form answers the truth.
LEMMA TruthStep ==
  ASSUME Typed, [Next]_vars
  PROVE  \A x \in Requests :
           pc[x] \in {"find", "script", "record", "commit", "lookup"} /\ pc'[x] \in {"ok", "refused"} =>
             (pc'[x] = "ok" <=> job[x].form \in row'[RowOf(x)].results)
<1> SUFFICES ASSUME NEW x \in Requests, pc[x] \in {"find", "script", "record", "commit", "lookup"},
                    pc'[x] \in {"ok", "refused"}
             PROVE  pc'[x] = "ok" <=> job[x].form \in row'[RowOf(x)].results
  OBVIOUS
<1> DEFINE Truth == pc'[x] = "ok" <=> job[x].form \in row'[RowOf(x)].results
<1> USE ConstantsAssumption DEF Goto, Answer, Start, Ready, Begin, Typed, Tables
<1>1. ASSUME NEW q \in Requests, Save(q) \/ Manage(q) \/ FollowUp(q) \/ Abort(q)
      PROVE  Truth
  <2>1. CASE \E u \in Submissions : Submit(q, u)
    BY <2>1 DEF Submit
  <2>2. CASE Find(q)
    <3>1. row' = row
      BY <2>2 DEF Find
    <3>2. x = q
      BY <2>2 DEF Find
    <3>3. CASE Recorded(q)
      BY <2>2, <3>1, <3>2, <3>3 DEF Find, Recorded
    <3>4. CASE ~Recorded(q)
      BY <2>2, <3>1, <3>2, <3>4 DEF Find, Recorded
    <3> QED
      BY <3>3, <3>4
  <2>3. CASE Record(q)
    BY <2>3 DEF Record
  <2>4. CASE Commit(q)
    <3> DEFINE f == FormOf(q)
    <3>1. f \in FormRecords /\ job[q].form \in Submissions /\ row[f.row] \in RowRecords
      BY <2>4 DEF Commit, JobInv, FormOf, FormRecords
    <3>2. x = q /\ pc'[q] = "ok"
      BY <2>4 DEF Commit
    <3>3. job[q].form \in Completed(row[f.row], job[q].form).results
      BY <3>1, CompletedForms
    <3>4. row'[f.row] = Completed(row[f.row], job[q].form)
      BY <2>4, <3>1 DEF Commit, FormRecords
    <3> QED
      BY <3>2, <3>3, <3>4 DEF RowOf
  <2>5. CASE Lookup(q)
    <3>1. row' = row /\ x = q
      BY <2>5 DEF Lookup
    <3> QED
      BY <2>5, <3>1 DEF Lookup, Recorded
  <2>6. CASE \E c \in Campaigns : Archive(q, c)
    BY <2>6 DEF Archive
  <2>7. CASE \E c \in Campaigns : Activate(q, c)
    BY <2>7 DEF Activate
  <2>8. CASE \E c \in Campaigns, o \in Operators : \E ids \in SUBSET Targets[c] :
             ids # {} /\ Assign(q, c, ids, o)
    BY <2>8 DEF Assign
  <2>9. CASE ArchiveCommit(q)
    BY <2>9 DEF ArchiveCommit
  <2>10. CASE ActivateCommit(q)
    BY <2>10 DEF ActivateCommit
  <2>11. CASE AssignCommit(q)
    BY <2>11 DEF AssignCommit
  <2>12. CASE \E r \in Rows : Resume(q, r)
    BY <2>12 DEF Resume
  <2>13. CASE ResumeCommit(q)
    <3>1. \E a \in {"ok", "duplicate", "refused"} : Answer(q, a)
      BY <2>13, Zenon DEF ResumeCommit
    <3>2. x # q
      BY <2>13 DEF ResumeCommit
    <3> QED
      BY <3>1, <3>2
  <2>15. CASE CheckScript(q)
    BY <2>15 DEF CheckScript
  <2>14. CASE Abort(q)
    BY <2>14 DEF Abort
  <2> QED
    BY <1>1, <2>1, <2>2, <2>3, <2>4, <2>5, <2>6, <2>7, <2>8, <2>9, <2>10, <2>11, <2>12, <2>13, <2>14, <2>15 DEF Save, Manage, FollowUp
<1>2. ASSUME NEW a \in Agencies, Control(a) PROVE Truth
  BY <1>2 DEF Control
<1>3. ASSUME NEW r \in Rows, NEW s \in Sessions, Claim(r, s) PROVE Truth
  BY <1>3 DEF Claim
<1>4. ASSUME NEW r \in Rows, NEW o \in Operators, Reassign(r, o) PROVE Truth
  BY <1>4 DEF Reassign
<1>5. ASSUME NEW r \in Rows, CompleteTask(r) PROVE Truth
  BY <1>5 DEF CompleteTask
<1>6. CASE UNCHANGED vars
  BY <1>6 DEF vars
<1> QED
  BY <1>1, <1>2, <1>3, <1>4, <1>5, <1>6 DEF Next

\* The answer to a form is the truth about it.
THEOREM AnswersAreTrue == Spec => AnswerTrue
<1> DEFINE A == \A q \in Requests :
          pc[q] \in {"find", "script", "record", "commit", "lookup"} /\ pc'[q] \in {"ok", "refused"} =>
              (pc'[q] = "ok" <=> job[q].form \in row'[RowOf(q)].results)
<1>1. Typed /\ [Next]_vars => A
  <2> SUFFICES ASSUME Typed, [Next]_vars PROVE A
    OBVIOUS
  <2> QED
    BY TruthStep
<1>2. Spec => [][A]_vars
  BY AlwaysTyped, <1>1, PTL DEF Spec
<1> QED
  BY <1>2, PTL DEF AnswerTrue, Saving

-----------------------------------------------------------------------------
\* A form suits its assignment: it comes from the session that claimed it, or
\* nobody had to.
Suits(f) ==
  \/ row[f.row].session = NoSession /\ CampaignOf(f.row) \notin Workspace
  \/ row[f.row].session # NoSession /\ f.session = row[f.row].session

\* What a request read of its assignment is what there is, as long as the version
\* on its form is that of the assignment.
ReadInv(q) ==
  LET f == form[job[q].form] IN
  /\ pc[q] \in {"find", "script", "record"} => f.version <= row[f.row].version
  /\ pc[q] = "find" /\ f.version = row[f.row].version =>
       row[f.row].session = job[q].session
  /\ pc[q] \in {"script", "record"} /\ f.version = row[f.row].version => Suits(f)
  /\ pc[q] = "commit" => Suits(f)

\* The form of a completed assignment suits it.
DoneInv ==
  \A r \in Rows : row[r].status = "COMPLETED" =>
    \E u \in Submissions :
      row[r].results = {u} /\ form[u] \in FormRecords /\ form[u].row = r /\ Suits(form[u])

\* Who stays where it was knows what it knew.
LEMMA ReadStays ==
  ASSUME Typed, Typed', VersionInv, CommitInv, [Next]_vars,
         NEW q \in Requests, ReadInv(q),
         pc'[q] = pc[q], job'[q] = job[q], form'[job[q].form] = form[job[q].form]
  PROVE  ReadInv(q)'
<1> DEFINE f == form[job[q].form]
<1>1. CASE pc[q] \in {"find", "script", "record"}
  <2>1. /\ f.row \in Rows /\ f.version \in Nat
        /\ row[f.row].version \in Nat /\ row'[f.row].version \in Nat
    BY <1>1 DEF Typed, Tables, JobInv, FormRecords, RowRecords
  <2>2. row'[f.row] = row[f.row] \/ row'[f.row].version > row[f.row].version
    BY <2>1, RowsRise DEF Risen
  <2> QED
    BY <1>1, <2>1, <2>2 DEF ReadInv, Suits
<1>2. CASE pc[q] = "commit"
  <2>1. row'[f.row] = row[f.row]
    BY <1>2, CommitStep DEF Frozen, RowOf, FormOf
  <2> QED
    BY <1>2, <2>1 DEF ReadInv, Suits
<1>3. CASE pc[q] \notin {"find", "script", "record", "commit"}
  BY <1>3 DEF ReadInv
<1> QED
  BY <1>1, <1>2, <1>3

\* The requests that a step does not belong to stay where they were.
LEMMA OthersStay ==
  ASSUME Typed, NEW q \in Requests, Save(q) \/ Manage(q) \/ FollowUp(q) \/ Abort(q)
  PROVE  \A p \in Requests \ {q} :
           /\ pc'[p] = pc[p] /\ job'[p] = job[p]
           /\ pc[p] \in {"find", "script", "record", "commit"} =>
                form'[job[p].form] = form[job[p].form]
<1> DEFINE Kept == \A p \in Requests \ {q} :
                     /\ pc'[p] = pc[p] /\ job'[p] = job[p]
                     /\ pc[p] \in {"find", "script", "record", "commit"} =>
                          form'[job[p].form] = form[job[p].form]
<1> USE ConstantsAssumption DEF Goto, Answer, Start, Ready, Begin, Typed, Tables
<1>1. CASE \E u \in Submissions : Submit(q, u)
  <2>1. ASSUME NEW p \in Requests, pc[p] \in {"find", "script", "record", "commit"}
        PROVE  form'[job[p].form] = form[job[p].form]
    BY <1>1, <2>1, FormAssumption DEF Submit, JobInv
  <2>2. \A p \in Requests \ {q} : pc'[p] = pc[p] /\ job'[p] = job[p]
    BY <1>1 DEF Submit
  <2> QED
    BY <2>1, <2>2
<1>2. CASE Find(q)
  <2>1. /\ \A p \in Requests \ {q} : pc'[p] = pc[p] /\ job'[p] = job[p]
        /\ form' = form
    BY <1>2 DEF Find
  <2> QED
    BY <2>1
<1>3. CASE Record(q)
  BY <1>3 DEF Record
<1>4. CASE Commit(q)
  BY <1>4 DEF Commit
<1>5. CASE Lookup(q)
  BY <1>5 DEF Lookup
<1>6. CASE \E c \in Campaigns : Archive(q, c)
  BY <1>6 DEF Archive
<1>7. CASE \E c \in Campaigns : Activate(q, c)
  BY <1>7 DEF Activate
<1>8. CASE \E c \in Campaigns, o \in Operators : \E ids \in SUBSET Targets[c] :
           ids # {} /\ Assign(q, c, ids, o)
  BY <1>8 DEF Assign
<1>9. CASE ArchiveCommit(q)
  BY <1>9 DEF ArchiveCommit
<1>10. CASE ActivateCommit(q)
  BY <1>10 DEF ActivateCommit
<1>11. CASE AssignCommit(q)
  BY <1>11 DEF AssignCommit
<1>12. CASE \E r \in Rows : Resume(q, r)
  BY <1>12 DEF Resume
<1>13. CASE ResumeCommit(q)
  <2>1. \E a \in {"ok", "duplicate", "refused"} : Answer(q, a)
    BY <1>13, Zenon DEF ResumeCommit
  <2>2. form' = form
    BY <1>13 DEF ResumeCommit
  <2> QED
    BY <2>1, <2>2
<1>15. CASE CheckScript(q)
  BY <1>15 DEF CheckScript
<1>14. CASE Abort(q)
  BY <1>14 DEF Abort
<1> QED
  BY <1>1, <1>2, <1>3, <1>4, <1>5, <1>6, <1>7, <1>8, <1>9, <1>10, <1>11, <1>12, <1>13, <1>14, <1>15 DEF Save, Manage, FollowUp

\* A step of a request leaves it with what it read.
LEMMA OwnRead ==
  ASSUME Typed, NEW q \in Requests, ReadInv(q), Save(q) \/ Manage(q) \/ FollowUp(q) \/ Abort(q)
  PROVE  ReadInv(q)'
<1> USE ConstantsAssumption DEF Goto, Answer, Start, Ready, Begin, Typed, Tables
<1>1. CASE \E u \in Submissions : Submit(q, u)
  <2>1. PICK u \in Submissions : Submit(q, u)
    BY <1>1
  <2>2. PICK r \in Rows : \E f \in Forms(r) :
          /\ form' = [form EXCEPT ![u] = f]
          /\ Start(q, "find", [form |-> u, state |-> row[r].status,
                               session |-> row[r].session,
                               campaign |-> campaign[CampaignOf(r)]])
    BY <2>1 DEF Submit
  <2>3. PICK f \in Forms(r) : form' = [form EXCEPT ![u] = f]
    BY <2>2
  <2>4. f.row = r /\ f.version \in 1..row[r].version /\ row[r].version \in Nat
    BY DEF Forms, RowRecords
  <2>5. /\ pc'[q] = "find" /\ job'[q].form = u /\ job'[q].session = row[r].session
        /\ form'[u] = f /\ row' = row
    BY <2>1, <2>2, <2>3 DEF Submit
  <2> QED
    BY <2>4, <2>5 DEF ReadInv
<1>2. CASE Find(q)
  <2>1. CASE pc'[q] \in {"script", "record"}
    <3>1. /\ pc[q] = "find" /\ row' = row /\ form' = form /\ Acceptable(q)
          /\ job'[q].form = job[q].form
      BY <1>2, <2>1 DEF Find
    <3>2. form[job[q].form] \in FormRecords
      BY <3>1 DEF JobInv
    <3> QED
      BY <2>1, <3>1, <3>2 DEF ReadInv, Suits, Acceptable, RowOf, FormOf
  <2>2. CASE pc'[q] \notin {"script", "record"}
    <3>1. pc'[q] \in {"ok", "refused"}
      BY <1>2, <2>2 DEF Find
    <3> QED
      BY <3>1 DEF ReadInv
  <2> QED
    BY <2>1, <2>2
<1>3. CASE Record(q)
  <2>1. /\ pc[q] = "record" /\ row' = row /\ form' = form
        /\ pc'[q] = IF Unchanged(q) THEN "commit" ELSE "lookup"
        /\ job'[q].form = job[q].form
    BY <1>3 DEF Record, JobInv
  <2> QED
    BY <2>1 DEF ReadInv, Suits, Unchanged, RowOf, FormOf
<1>4. CASE Commit(q)
  BY <1>4 DEF Commit, ReadInv
<1>5. CASE Lookup(q)
  BY <1>5 DEF Lookup, ReadInv
<1>6. CASE \E c \in Campaigns : Archive(q, c)
  BY <1>6 DEF Archive, ReadInv
<1>7. CASE \E c \in Campaigns : Activate(q, c)
  BY <1>7 DEF Activate, ReadInv
<1>8. CASE \E c \in Campaigns, o \in Operators : \E ids \in SUBSET Targets[c] :
           ids # {} /\ Assign(q, c, ids, o)
  BY <1>8 DEF Assign, ReadInv
<1>9. CASE ArchiveCommit(q)
  BY <1>9 DEF ArchiveCommit, ReadInv
<1>10. CASE ActivateCommit(q)
  BY <1>10 DEF ActivateCommit, ReadInv
<1>11. CASE AssignCommit(q)
  BY <1>11 DEF AssignCommit, ReadInv
<1>12. CASE \E r \in Rows : Resume(q, r)
  BY <1>12 DEF Resume, ReadInv
<1>13. CASE ResumeCommit(q)
  <2>1. \E a \in {"ok", "duplicate", "refused"} : Answer(q, a)
    BY <1>13, Zenon DEF ResumeCommit
  <2> QED
    BY <2>1 DEF ReadInv
<1>15. CASE CheckScript(q)
  BY <1>15 DEF CheckScript, ReadInv, Suits
<1>14. CASE Abort(q)
  BY <1>14 DEF Abort, ReadInv
<1> QED
  BY <1>1, <1>2, <1>3, <1>4, <1>5, <1>6, <1>7, <1>8, <1>9, <1>10, <1>11, <1>12, <1>13, <1>14, <1>15 DEF Save, Manage, FollowUp

\* Every step keeps what the requests read.
LEMMA ReadStep ==
  ASSUME Typed, Typed', VersionInv, CommitInv, \A q \in Requests : ReadInv(q), [Next]_vars
  PROVE  \A q \in Requests : ReadInv(q)'
<1>1. ASSUME NEW q \in Requests, Save(q) \/ Manage(q) \/ FollowUp(q) \/ Abort(q),
             NEW p \in Requests
      PROVE  ReadInv(p)'
  <2>1. CASE p = q
    BY <1>1, <2>1, OwnRead
  <2>2. CASE p # q /\ pc[p] \in {"find", "script", "record", "commit"}
    BY <1>1, <2>2, OthersStay, ReadStays
  <2>3. CASE p # q /\ pc[p] \notin {"find", "script", "record", "commit"}
    BY <1>1, <2>3, OthersStay DEF ReadInv
  <2> QED
    BY <2>1, <2>2, <2>3
<1>2. CASE UNCHANGED <<pc, job, form>>
  BY <1>2, ReadStays
<1> QED
  BY <1>1, <1>2 DEF Next, Control, Claim, Reassign, CompleteTask, vars

\* Every step keeps the forms of the completed assignments: a new one is completed
\* by Commit alone.
LEMMA DoneStep ==
  ASSUME Typed, VersionInv, CommitInv, ResultInv, DoneInv, \A q \in Requests : ReadInv(q),
         [Next]_vars
  PROVE  DoneInv'
<1> DEFINE New == {x \in Rows : row'[x] # row[x] /\ row'[x].status = "COMPLETED"}
<1>1. ASSUME NEW u \in Submissions, form[u] \in FormRecords PROVE form'[u] = form[u]
  BY <1>1, FormAssumption
  DEF Typed, Tables, Next, Save, Manage, FollowUp, Submit, Find, CheckScript, Record, Commit, Lookup, Archive,
      Activate, Assign, ArchiveCommit, ActivateCommit, AssignCommit, Resume, ResumeCommit,
      Abort, Control, Claim, Reassign, CompleteTask, vars
<1>2. ASSUME NEW x \in Rows, row'[x] = row[x], row[x].status = "COMPLETED"
      PROVE  \E u \in Submissions : /\ row'[x].results = {u} /\ form'[u] \in FormRecords
                                    /\ form'[u].row = x /\ Suits(form[u])'
  BY <1>1, <1>2 DEF DoneInv, Suits
<1>3. ASSUME NEW q \in Requests, Commit(q), NEW x \in New
      PROVE  \E u \in Submissions : /\ row'[x].results = {u} /\ form'[u] \in FormRecords
                                    /\ form'[u].row = x /\ Suits(form[u])'
  <2> DEFINE f == FormOf(q)
  <2>1. f \in FormRecords /\ job[q].form \in Submissions /\ row[f.row] \in RowRecords
    BY <1>3 DEF Commit, JobInv, FormOf, FormRecords, Typed, Tables
  <2>2. row[f.row].results = {}
    BY <1>3, <2>1 DEF Commit, CommitInv, ResultInv, OpenStatuses, RowOf, FormRecords
  <2>3. x = f.row /\ row'[x] = Completed(row[x], job[q].form)
    BY <1>3, <2>1, CancelledForms DEF Commit, Typed, Tables
  <2>4. /\ row'[x].results = {job[q].form} /\ row'[x].session = row[x].session
    BY <2>1, <2>2, <2>3, CompletedForms
  <2>5. Suits(f) /\ form' = form
    BY <1>3 DEF Commit, ReadInv, FormOf
  <2> QED
    BY <2>1, <2>3, <2>4, <2>5 DEF Suits, FormOf
<1>4. ASSUME \A q \in Requests : ~Commit(q) PROVE New = {}
  <2> USE ConstantsAssumption DEF Goto, Answer, Start, Ready, Begin, Typed, Tables
  <2>1. ASSUME NEW q \in Requests, Save(q) \/ Manage(q) \/ FollowUp(q) \/ Abort(q)
        PROVE  New = {}
    <3>1. CASE \E u \in Submissions : Submit(q, u)
      BY <3>1 DEF Submit
    <3>2. CASE Find(q) \/ CheckScript(q)
      BY <3>2 DEF Find, CheckScript
    <3>3. CASE Record(q)
      BY <3>3 DEF Record
    <3>4. CASE Commit(q)
      BY <1>4, <3>4
    <3>5. CASE Lookup(q)
      BY <3>5 DEF Lookup
    <3>6. CASE \E c \in Campaigns : Archive(q, c)
      BY <3>6 DEF Archive
    <3>7. CASE \E c \in Campaigns : Activate(q, c)
      BY <3>7 DEF Activate
    <3>8. CASE \E c \in Campaigns, o \in Operators : \E ids \in SUBSET Targets[c] :
               ids # {} /\ Assign(q, c, ids, o)
      BY <3>8 DEF Assign
    <3>9. CASE ArchiveCommit(q)
      BY <3>9, CancelledForms DEF ArchiveCommit
    <3>10. CASE ActivateCommit(q)
      BY <3>10 DEF ActivateCommit
    <3>11. CASE AssignCommit(q)
      BY <3>11, PendingForms DEF AssignCommit
    <3>12. CASE \E r \in Rows : Resume(q, r)
      BY <3>12 DEF Resume
    <3>13. CASE ResumeCommit(q)
      <4>1. CASE UNCHANGED row
        BY <3>13, <4>1 DEF ResumeCommit
      <4>2. CASE ~UNCHANGED row
        <5>1. PICK r \in Rows :
                /\ IsNext(r) /\ Free(CampaignOf(r), AgencyOf(r))
                /\ row' = [row EXCEPT ![r] = Pending(job[q].task.operator)]
          BY <3>13, <4>2 DEF ResumeCommit
        <5> QED
          BY <5>1, PendingForms
      <4> QED
        BY <4>1, <4>2
    <3>14. CASE Abort(q)
      BY <3>14 DEF Abort
    <3> QED
      BY <2>1, <3>1, <3>2, <3>3, <3>4, <3>5, <3>6, <3>7, <3>8, <3>9, <3>10, <3>11, <3>12, <3>13, <3>14 DEF Save, Manage, FollowUp
  <2>2. ASSUME NEW a \in Agencies, Control(a) PROVE New = {}
    BY <2>2, CancelledForms DEF Control
  <2>3. ASSUME NEW r \in Rows, NEW s \in Sessions, Claim(r, s) PROVE New = {}
    BY <2>3 DEF Claim
  <2>4. ASSUME NEW r \in Rows, NEW o \in Operators, Reassign(r, o) PROVE New = {}
    <3> DEFINE old == [row[r] EXCEPT !.session = NoSession]
    <3>1. PICK new \in Rows :
            /\ CampaignOf(new) = CampaignOf(r) /\ AgencyOf(new) = AgencyOf(r) /\ IsNext(new)
            /\ row' = [row EXCEPT ![r] = Cancelled(old), ![new] = Pending(o)]
      BY <2>4 DEF Reassign
    <3>2. old \in RowRecords /\ old.version = row[r].version
      BY DEF RowRecords
    <3> HIDE DEF old
    <3>3. Cancelled(old).status = "CANCELLED" /\ Cancelled(old).version > row[r].version
      BY <3>2, CancelledForms
    <3>4. \A x \in Rows \ {r, new} : row'[x] = row[x]
      BY <3>1
    <3>5. row'[new] = Pending(o) /\ (r # new => row'[r] = Cancelled(old))
      BY <3>1
    <3> QED
      BY <3>3, <3>4, <3>5, PendingForms
  <2>5. ASSUME NEW r \in Rows, CompleteTask(r) PROVE New = {}
    BY <2>5 DEF CompleteTask
  <2>6. CASE UNCHANGED vars
    BY <2>6 DEF vars
  <2> QED
    BY <2>1, <2>2, <2>3, <2>4, <2>5, <2>6 DEF Next
<1> QED
  <2>1. ASSUME NEW x \in Rows, row'[x].status = "COMPLETED"
        PROVE  \E u \in Submissions : /\ row'[x].results = {u} /\ form'[u] \in FormRecords
                                      /\ form'[u].row = x /\ Suits(form[u])'
    <3>1. CASE row'[x] = row[x]
      BY <1>2, <2>1, <3>1
    <3>2. CASE row'[x] # row[x]
      BY <1>3, <1>4, <2>1, <3>2
    <3> QED
      BY <3>1, <3>2
  <2> QED
    BY <2>1 DEF DoneInv

\* A claimed assignment is completed from the session that claimed it, one of a
\* pilot's campaign only after a claim.
THEOREM SessionsHold == Spec => []SessionHolds
<1> DEFINE I == ResultInv /\ CommitInv /\ VersionInv
           J == DoneInv /\ \A q \in Requests : ReadInv(q)
<1>1. Init => I /\ J
  <2> SUFFICES ASSUME Init PROVE I /\ J
    OBVIOUS
  <2>1. PICK o \in Operators :
          row = [r \in Rows |-> IF CampaignOf(r) \in Workspace /\ r[3] = 1
                                THEN Pending(o) ELSE Absent]
    BY DEF Init
  <2> QED
    BY <2>1, PendingForms
    DEF Init, ResultInv, CommitInv, VersionInv, DoneInv, ReadInv, Absent
<1>2. Typed /\ Typed' /\ I /\ J /\ [Next]_vars => (I /\ J)'
  <2> SUFFICES ASSUME Typed, Typed', I, J, [Next]_vars PROVE (I /\ J)'
    OBVIOUS
  <2>1. I'
    BY ResultStep, CommitStep, VersionStep
  <2>2. DoneInv' /\ \A q \in Requests : ReadInv(q)'
    BY DoneStep, ReadStep
  <2> QED
    BY <2>1, <2>2
<1>3. Spec => [](Typed /\ I /\ J)
  BY AlwaysTyped, <1>1, <1>2, PTL DEF Spec
<1>4. DoneInv => SessionHolds
  BY DEF DoneInv, SessionHolds, Suits
<1> QED
  BY <1>3, <1>4, PTL

=============================================================================
