------------------------------ MODULE Workflows ------------------------------
(***************************************************************************)
(* One marketing workflow: its steps, the contacts enrolled in it, the     *)
(* scheduler's tick that queues a job for every enrollment that is due,    *)
(* and the queue workers that run those jobs.  Workflows share no row, so  *)
(* one is enough.                                                          *)
(*                                                                         *)
(* Concurrency is where the code has it.  A trigger fires in a web request *)
(* and enrolls in three steps: it loads the workflow, looks for an active  *)
(* enrollment, inserts a row.  The tick loads the rows that are due and    *)
(* then queues their jobs one at a time; it excludes itself                *)
(* (withoutOverlapping), not the workers.  A job loads its row, runs the   *)
(* step, writes the row and counts the completion, each on its own; it may *)
(* die between any two of these and is then delivered again.               *)
(*                                                                         *)
(* Positions are the numbers the steps carry, with gaps where one was      *)
(* deleted.  Time is what the code asks of it: whether next_run_at has     *)
(* come.  Left to chance: whether the plan still allows an execution and   *)
(* whether a step's condition holds.                                       *)
(***************************************************************************)
EXTENDS Integers

CONSTANTS
  Contacts,        \* the contacts triggers fire for
  MaxEnrollments,  \* bound: enrollments one contact may come to have
  Triggers,        \* requests that may fire the trigger at the same time
  Jobs,            \* places in the queue
  MaxPosition,     \* bound: the largest position a step may carry
  Provided,        \* positions the workflow has steps at from the start
  Delayed,         \* positions whose step has a delay
  Deletes,         \* may steps be deleted
  Backlog,         \* may a tick find jobs of the one before still queued
  Deaths,          \* stages at which a job may die
  MaxTries,        \* deliveries of a job ($tries)
  MaxDeaths        \* bound: jobs of one enrollment that die

Enrollments == Contacts \X (1..MaxEnrollments)
Positions == 0..MaxPosition
Stages == {"queued", "loaded", "ran", "counting", "done"}

ASSUME WorkflowsAssumption ==
  /\ MaxEnrollments \in Nat
  /\ MaxPosition \in Nat
  /\ Provided \subseteq Positions
  /\ Delayed \subseteq Positions
  /\ Deletes \in BOOLEAN
  /\ Backlog \in BOOLEAN
  /\ Deaths \subseteq Stages
  /\ MaxTries \in Nat \ {0}
  /\ MaxDeaths \in Nat

VARIABLES
  wf,        \* the workflow: "active", "paused" or "gone"
  steps,     \* the positions it has a step at
  rows,      \* the enrollments' rows
  triggers,  \* per trigger, how far it has come and for whom
  due,       \* the enrollments a tick has loaded and not yet queued
  jobs,      \* the queue
  promised,  \* history: steps there at enrollment and ever since
  times,     \* history: how often an enrollment went through a position
  counted,   \* completed_count, kept apart by enrollment
  died       \* history: jobs of an enrollment that died

workflow == <<wf, steps>>
history == <<promised, times, died>>
vars == <<wf, steps, rows, triggers, due, jobs, promised, times, counted, died>>

\* A row of workflow_enrollments; "none" is not inserted yet, "gone" deleted.
Row == [ position : Positions,
         status : {"none", "active", "completed", "exited", "gone"},
         next : {"none", "later", "due"} ]

NotInserted == [position |-> 0, status |-> "none", next |-> "none"]
Gone == [position |-> 0, status |-> "gone", next |-> "none"]
Inserted == [position |-> 0, status |-> "active", next |-> "due"]

\* A job: whose it is, its delivery, the row it loaded and what it decided.
NoJob == [stage |-> "none"]
Job == [ e : Enrollments, tries : 1..MaxTries, stage : Stages, row : Row,
         goal : {"open", "next", "complete", "exit"} ]
Queued(e, n) ==
  [e |-> e, tries |-> n, stage |-> "queued", row |-> NotInserted, goal |-> "open"]

Idle == [stage |-> "idle"]
Trigger == [stage : {"loaded", "absent"}, contact : Contacts]

Init ==
  /\ wf = "paused"
  /\ steps = Provided
  /\ rows = [e \in Enrollments |-> NotInserted]
  /\ triggers = [t \in Triggers |-> Idle]
  /\ due = {}
  /\ jobs = [j \in Jobs |-> NoJob]
  /\ promised = [e \in Enrollments |-> {}]
  /\ times = [e \in Enrollments |-> [p \in Positions |-> 0]]
  /\ counted = [e \in Enrollments |-> 0]
  /\ died = [e \in Enrollments |-> 0]

Active(e) == rows[e].status = "active"
\* Fault: whether next_run_at has come is not asked.
FaultyIsDue(e) == Active(e)
IsDue(e) == Active(e) /\ rows[e].next = "due"

-----------------------------------------------------------------------------
(* A trigger: MarketingTrigger::fire and WorkflowEngine::enroll.           *)

\* The workflows listening are loaded, with the status they have now.
Fire(t, c) ==
  /\ triggers[t] = Idle
  /\ wf = "active"
  /\ triggers' = [triggers EXCEPT ![t] = [stage |-> "loaded", contact |-> c]]
  /\ UNCHANGED <<workflow, rows, due, jobs, history, counted>>

\* Fault: an enrollment that waits for its delay is not found.
FaultyEnrolled(c) == \E e \in Enrollments : e[1] = c /\ IsDue(e)
Enrolled(c) == \E e \in Enrollments : e[1] = c /\ Active(e)

\* Already in the workflow, or the plan's executions are used up.
Refuse(t) ==
  /\ triggers[t] # Idle /\ triggers[t].stage = "loaded"
  /\ triggers' = [triggers EXCEPT ![t] = Idle]
  /\ UNCHANGED <<workflow, rows, due, jobs, history, counted>>

LookUp(t) ==
  /\ triggers[t] # Idle /\ triggers[t].stage = "loaded"
  /\ ~Enrolled(triggers[t].contact)
  /\ triggers' = [triggers EXCEPT ![t].stage = "absent"]
  /\ UNCHANGED <<workflow, rows, due, jobs, history, counted>>

\* Fault: a completed enrollment is started again instead of a new one.
FaultyEnroll(t, e) ==
  /\ triggers[t] # Idle /\ triggers[t].stage = "absent"
  /\ e[1] = triggers[t].contact
  /\ wf # "gone"
  /\ rows[e].status \in {"none", "completed"}
  /\ rows' = [rows EXCEPT ![e] = Inserted]
  /\ promised' = [promised EXCEPT ![e] = steps]
  /\ triggers' = [triggers EXCEPT ![t] = Idle]
  /\ UNCHANGED <<workflow, due, jobs, times, died, counted>>

\* The workflow may have been paused since, and is enrolled in all the same.
Enroll(t, e) ==
  /\ triggers[t] # Idle /\ triggers[t].stage = "absent"
  /\ e[1] = triggers[t].contact
  /\ wf # "gone"
  /\ rows[e] = NotInserted
  /\ rows' = [rows EXCEPT ![e] = Inserted]
  /\ promised' = [promised EXCEPT ![e] = steps]
  /\ triggers' = [triggers EXCEPT ![t] = Idle]
  /\ UNCHANGED <<workflow, due, jobs, times, died, counted>>

\* The foreign key refuses a row for a workflow deleted in the meantime.
EnrollFails(t) ==
  /\ triggers[t] # Idle /\ triggers[t].stage = "absent"
  /\ wf = "gone"
  /\ triggers' = [triggers EXCEPT ![t] = Idle]
  /\ UNCHANGED <<workflow, rows, due, jobs, history, counted>>

-----------------------------------------------------------------------------
(* The scheduler: dispatchDue, and time.                                   *)

Tick ==
  /\ due = {}
  /\ Backlog \/ \A j \in Jobs : jobs[j] = NoJob
  /\ \E e \in Enrollments : IsDue(e)
  /\ due' = {e \in Enrollments : IsDue(e)}
  /\ UNCHANGED <<workflow, rows, triggers, jobs, history, counted>>

Dispatch(e, j) ==
  /\ e \in due
  /\ jobs[j] = NoJob
  /\ due' = due \ {e}
  /\ jobs' = [jobs EXCEPT ![j] = Queued(e, 1)]
  /\ UNCHANGED <<workflow, rows, triggers, history, counted>>

DelayPasses(e) ==
  /\ rows[e].next = "later"
  /\ rows' = [rows EXCEPT ![e].next = "due"]
  /\ UNCHANGED <<workflow, triggers, due, jobs, history, counted>>

-----------------------------------------------------------------------------
(* A worker: RunWorkflowStep::handle and WorkflowEngine::processEnrollment.*)

At(j, stage) == jobs[j] # NoJob /\ jobs[j].stage = stage

Load(j) ==
  LET found == rows[jobs[j].e] IN
  /\ At(j, "queued")
  /\ jobs' = [jobs EXCEPT ![j].row = found,
                          ![j].stage = IF found.status = "active"
                                       THEN "loaded" ELSE "done"]
  /\ UNCHANGED <<workflow, rows, triggers, due, history, counted>>

\* Fault: the last step but one is the end.
FaultyFollowingShort(p) ==
  IF p \in steps /\ p + 2 \in steps THEN "next" ELSE "complete"

\* What follows the step at p, of the steps as they were read.
Following(p) ==
  IF p \in steps /\ p + 1 \in steps THEN "next" ELSE "complete"

\* The step there is, executed or skipped by its condition.
Run(j) ==
  LET e == jobs[j].e
      p == jobs[j].row.position
  IN
  /\ At(j, "loaded")
  /\ wf # "gone"
  /\ jobs' = [jobs EXCEPT ![j].stage = "ran", ![j].goal = Following(p)]
  /\ times' = IF p \in steps THEN [times EXCEPT ![e][p] = @ + 1] ELSE times
  /\ UNCHANGED <<workflow, rows, triggers, due, promised, died, counted>>

\* The condition fails and says to leave, or the workflow is not there.
Leave(j) ==
  /\ At(j, "loaded")
  /\ wf # "gone" => jobs[j].row.position \in steps
  /\ jobs' = [jobs EXCEPT ![j].stage = "ran", ![j].goal = "exit"]
  /\ UNCHANGED <<workflow, rows, triggers, due, history, counted>>

\* Fault: a delay leaves no time to run at.
FaultyNextRun(p) == IF p \in Delayed THEN "none" ELSE "due"

\* delay_minutes of the step at p, counted from now.
NextRun(p) == IF p \in Delayed THEN "later" ELSE "due"

\* Faults: the pointer is incremented in the row, whatever was loaded; it is
\* not moved; the completion is not saved.
FaultyAdvancedAgain(row, copy) ==
  [row EXCEPT !.position = (@ + 1) % (MaxPosition + 1),
              !.next = NextRun(copy.position + 1)]
FaultyAdvancedStays(row, copy) == [row EXCEPT !.next = NextRun(copy.position + 1)]
FaultyCompleted(row) == row

\* The row in the database after a job that loaded copy has written its
\* goal: update saves the columns it changes and leaves the others be.
Advanced(row, copy) ==
  [row EXCEPT !.position = copy.position + 1, !.next = NextRun(copy.position + 1)]
Completed(row) == [row EXCEPT !.status = "completed", !.next = "none"]
Exited(row) == [row EXCEPT !.status = "exited", !.next = "none"]

Written(row, copy, goal) ==
  CASE goal = "next" -> Advanced(row, copy)
    [] goal = "complete" -> Completed(row)
    [] goal = "exit" -> Exited(row)

Write(j) ==
  LET e == jobs[j].e
      goal == jobs[j].goal
  IN
  /\ At(j, "ran")
  /\ rows' = IF rows[e].status = "gone" THEN rows
             ELSE [rows EXCEPT ![e] = Written(@, jobs[j].row, goal)]
  /\ jobs' = [jobs EXCEPT ![j].stage = IF goal = "complete" THEN "counting"
                                       ELSE "done"]
  /\ UNCHANGED <<workflow, triggers, due, history, counted>>

Count(j) ==
  /\ At(j, "counting")
  /\ counted' = IF wf = "gone" THEN counted
                ELSE [counted EXCEPT ![jobs[j].e] = @ + 1]
  /\ jobs' = [jobs EXCEPT ![j].stage = "done"]
  /\ UNCHANGED <<workflow, rows, triggers, due, history>>

\* The job is over and leaves the queue.
Acknowledge(j) ==
  /\ At(j, "done")
  /\ jobs' = [jobs EXCEPT ![j] = NoJob]
  /\ UNCHANGED <<workflow, rows, triggers, due, history, counted>>

\* An exception, or the worker is killed: delivered again while it has tries.
Dies(j) ==
  LET e == jobs[j].e IN
  /\ jobs[j] # NoJob /\ jobs[j].stage \in Deaths
  /\ died[e] < MaxDeaths
  /\ died' = [died EXCEPT ![e] = @ + 1]
  /\ jobs' = [jobs EXCEPT ![j] = IF @.tries < MaxTries
                                 THEN Queued(e, @.tries + 1) ELSE NoJob]
  /\ UNCHANGED <<workflow, rows, triggers, due, promised, times, counted>>

-----------------------------------------------------------------------------
(* The workflow's pages: WorkflowController.                               *)

\* max('position') + 1, where the maximum of no steps counts as 0.
NewPosition(p) ==
  /\ \A q \in steps : q < p
  /\ p = 1 \/ p - 1 \in steps

AddStep(p) ==
  /\ wf # "gone"
  /\ NewPosition(p)
  /\ steps' = steps \cup {p}
  /\ UNCHANGED <<wf, rows, triggers, due, jobs, history, counted>>

DeleteStep(p) ==
  /\ Deletes
  /\ p \in steps
  /\ steps' = steps \ {p}
  /\ promised' = [e \in Enrollments |-> promised[e] \ {p}]
  /\ UNCHANGED <<wf, rows, triggers, due, jobs, times, died, counted>>

Toggle ==
  /\ wf # "gone"
  /\ wf' = IF wf = "active" THEN "paused" ELSE "active"
  /\ UNCHANGED <<steps, rows, triggers, due, jobs, history, counted>>

\* The rows of the workflow go with it.
Destroy ==
  /\ wf # "gone"
  /\ wf' = "gone"
  /\ steps' = {}
  /\ rows' = [e \in Enrollments |->
                IF rows[e].status = "none" THEN rows[e] ELSE Gone]
  /\ promised' = [e \in Enrollments |-> {}]
  /\ UNCHANGED <<triggers, due, jobs, times, died, counted>>

-----------------------------------------------------------------------------

Enrolling(t) ==
  \/ \E c \in Contacts : Fire(t, c)
  \/ Refuse(t)
  \/ LookUp(t)
  \/ \E e \in Enrollments : Enroll(t, e)
  \/ EnrollFails(t)

Work(j) ==
  Load(j) \/ Run(j) \/ Leave(j) \/ Write(j) \/ Count(j) \/ Acknowledge(j)

Editing ==
  \/ \E p \in Positions : AddStep(p) \/ DeleteStep(p)
  \/ Toggle
  \/ Destroy

Next ==
  \/ \E t \in Triggers : Enrolling(t)
  \/ Tick
  \/ \E e \in Enrollments, j \in Jobs : Dispatch(e, j)
  \/ \E e \in Enrollments : DelayPasses(e)
  \/ \E j \in Jobs : Work(j) \/ Dies(j)
  \/ Editing

Spec == Init /\ [][Next]_vars

\* The scheduler ticks, the tick queues what it loaded, workers take jobs and
\* time passes; nothing else is promised.
Fairness ==
  /\ WF_vars(Tick)
  /\ \A e \in Enrollments : WF_vars(\E j \in Jobs : Dispatch(e, j))
  /\ \A e \in Enrollments : WF_vars(DelayPasses(e))
  /\ \A j \in Jobs : WF_vars(Work(j))

FairSpec == Spec /\ Fairness

-----------------------------------------------------------------------------
TypeOK ==
  /\ wf \in {"active", "paused", "gone"}
  /\ steps \in SUBSET Positions
  /\ rows \in [Enrollments -> Row]
  /\ triggers \in [Triggers -> Trigger \cup {Idle}]
  /\ due \in SUBSET Enrollments
  /\ jobs \in [Jobs -> Job \cup {NoJob}]
  /\ promised \in [Enrollments -> SUBSET Positions]
  /\ times \in [Enrollments -> [Positions -> Nat]]
  /\ counted \in [Enrollments -> Nat]
  /\ died \in [Enrollments -> Nat]

GoneThrough(e) == {p \in Positions : times[e][p] > 0}

\* The steps of S that nothing is missing before.
Unbroken(S) == {p \in S : 0..p \subseteq S}

(* "Steps run in order" (WorkflowEngine): whatever is retried, queued     *)
(* twice, deleted or added, an enrollment goes through a step only after  *)
(* it went through every position before it.                              *)
StepsInOrder ==
  \A e \in Enrollments, p \in Positions :
    p \in GoneThrough(e) => 0..p \subseteq GoneThrough(e)

(* complete(): a completed enrollment went through every step that was    *)
(* there when the contact entered and stayed there, up to the first gap.  *)
CompletedWhole ==
  \A e \in Enrollments :
    rows[e].status = "completed" => Unbroken(promised[e]) \subseteq GoneThrough(e)

(* next_run_at: no step is started before the delay of the step has       *)
(* passed, which only the scheduler's query looks at and no job.          *)
NotEarly ==
  \A j \in Jobs : At(j, "loaded") => jobs[j].row.next = "due"

(* RunWorkflowStep: "a retry re-runs at most the same step": a step is    *)
(* gone through once, and once more for each job that died.               *)
StepsOnce ==
  \A e \in Enrollments, p \in Positions : times[e][p] <= 1 + died[e]

(* completed_count counts an enrollment at most once, retries included.   *)
CountedOnce == \A e \in Enrollments : counted[e] <= 1

(* enroll(): "enrollment is unique per active (workflow, contact)".       *)
OneActive ==
  \A e, f \in Enrollments : Active(e) /\ Active(f) /\ e[1] = f[1] => e = f

(* An enrollment that ended stays ended, and the pointer of one that runs *)
(* never moves back, although jobs write rows they loaded earlier.        *)
NeverBack ==
  [][\A e \in Enrollments :
       Active(e)' /\ rows[e] # NotInserted =>
         Active(e) /\ rows[e].position <= rows'[e].position]_vars

(* An enrollment ends: the delays pass, the jobs get through, and a step  *)
(* that failed is tried again.                                            *)
EnrollmentsFinish == \A e \in Enrollments : Active(e) ~> ~Active(e)

(* "A contact is enrolled on a trigger, then steps run in order"          *)
(* (WorkflowEngine): a completed enrollment went through every step that  *)
(* was there when the contact entered and is still there.                 *)
EveryStepRuns ==
  \A e \in Enrollments :
    rows[e].status = "completed" => promised[e] \subseteq GoneThrough(e)

=============================================================================
