--------------------------- MODULE WorkflowsProofs ---------------------------
(***************************************************************************)
(* What the runs of Workflows show, proved for any contacts, any steps and *)
(* any number of jobs.  The first part holds in every deployment: types,   *)
(* order, and that a completed enrollment is whole.  The second takes what *)
(* the code needs and does not enforce as hypotheses of its theorems: one  *)
(* trigger at a time, or a queue that is empty when the scheduler ticks.   *)
(***************************************************************************)
EXTENDS Workflows, TLAPS

-----------------------------------------------------------------------------
(* What each step of a job does to the queue.                              *)

LEMMA JobIsThere ==
  ASSUME TypeOK, NEW j \in Jobs, jobs[j] # NoJob
  PROVE  jobs[j] \in Job
  BY DEF TypeOK

LEMMA StagesOfJobs ==
  ASSUME NEW job \in Job
  PROVE  job # NoJob /\ job.stage \in Stages /\ job.e \in Enrollments /\ job.row \in Row
  BY DEF Job, NoJob, Stages

LEMMA QueuedType ==
  ASSUME NEW e \in Enrollments, NEW n \in 1..MaxTries
  PROVE  Queued(e, n) \in Job
  <1>1. NotInserted \in Row
    BY WorkflowsAssumption DEF NotInserted, Row, Positions
  <1> QED BY <1>1 DEF Queued, Job, Stages

\* A job moves on: the same enrollment, and the other places as they were.
Moved(j, row, goal, stage) ==
  /\ jobs[j] \in Job
  /\ jobs'[j] \in Job
  /\ jobs'[j].e = jobs[j].e
  /\ jobs'[j].row = row
  /\ jobs'[j].goal = goal
  /\ jobs'[j].stage = stage
  /\ jobs' \in [Jobs -> Job \cup {NoJob}]
  /\ \A k \in Jobs \ {j} : jobs'[k] = jobs[k]

LEMMA LoadMoves ==
  ASSUME TypeOK, NEW j \in Jobs, Load(j)
  PROVE  Moved(j, rows[jobs[j].e], jobs[j].goal,
               IF rows[jobs[j].e].status = "active" THEN "loaded" ELSE "done")
  <1>1. jobs[j] \in Job
    BY JobIsThere DEF Load, At
  <1>2. rows[jobs[j].e] \in Row
    BY <1>1 DEF TypeOK, Job
  <1> DEFINE new == [jobs[j] EXCEPT
                       !.row = rows[jobs[j].e],
                       !.stage = IF rows[jobs[j].e].status = "active"
                                 THEN "loaded" ELSE "done"]
  <1>3. new \in Job
    BY <1>1, <1>2 DEF Job, Stages
  <1>4. jobs' = [jobs EXCEPT ![j] = new]
    BY <1>1 DEF Load, TypeOK, Job
  <1> QED BY <1>1, <1>3, <1>4 DEF Moved, TypeOK, Job

LEMMA RunMoves ==
  ASSUME TypeOK, NEW j \in Jobs, Run(j)
  PROVE  Moved(j, jobs[j].row, Following(jobs[j].row.position), "ran")
  <1>1. jobs[j] \in Job
    BY JobIsThere DEF Run, At
  <1> DEFINE new == [jobs[j] EXCEPT !.stage = "ran",
                                    !.goal = Following(jobs[j].row.position)]
  <1>2. Following(jobs[j].row.position) \in {"next", "complete"}
    BY DEF Following
  <1>3. new \in Job
    BY <1>1, <1>2 DEF Job, Stages
  <1>4. jobs' = [jobs EXCEPT ![j] = new]
    BY <1>1 DEF Run, TypeOK, Job
  <1> QED BY <1>1, <1>3, <1>4 DEF Moved, TypeOK, Job

LEMMA LeaveMoves ==
  ASSUME TypeOK, NEW j \in Jobs, Leave(j)
  PROVE  Moved(j, jobs[j].row, "exit", "ran")
  <1>1. jobs[j] \in Job
    BY JobIsThere DEF Leave, At
  <1> DEFINE new == [jobs[j] EXCEPT !.stage = "ran", !.goal = "exit"]
  <1>3. new \in Job
    BY <1>1 DEF Job, Stages
  <1>4. jobs' = [jobs EXCEPT ![j] = new]
    BY <1>1 DEF Leave, TypeOK, Job
  <1> QED BY <1>1, <1>3, <1>4 DEF Moved, TypeOK, Job

LEMMA WriteMoves ==
  ASSUME TypeOK, NEW j \in Jobs, Write(j)
  PROVE  Moved(j, jobs[j].row, jobs[j].goal,
               IF jobs[j].goal = "complete" THEN "counting" ELSE "done")
  <1>1. jobs[j] \in Job
    BY JobIsThere DEF Write, At
  <1> DEFINE new == [jobs[j] EXCEPT
                       !.stage = IF jobs[j].goal = "complete" THEN "counting"
                                 ELSE "done"]
  <1>3. new \in Job
    BY <1>1 DEF Job, Stages
  <1>4. jobs' = [jobs EXCEPT ![j] = new]
    BY <1>1 DEF Write, TypeOK, Job
  <1> QED BY <1>1, <1>3, <1>4 DEF Moved, TypeOK, Job

LEMMA CountMoves ==
  ASSUME TypeOK, NEW j \in Jobs, Count(j)
  PROVE  Moved(j, jobs[j].row, jobs[j].goal, "done")
  <1>1. jobs[j] \in Job
    BY JobIsThere DEF Count, At
  <1> DEFINE new == [jobs[j] EXCEPT !.stage = "done"]
  <1>3. new \in Job
    BY <1>1 DEF Job, Stages
  <1>4. jobs' = [jobs EXCEPT ![j] = new]
    BY <1>1 DEF Count, TypeOK, Job
  <1> QED BY <1>1, <1>3, <1>4 DEF Moved, TypeOK, Job

\* A place in the queue is filled, filled again or cleared.
Placed(j, job) ==
  /\ job \in Job \cup {NoJob}
  /\ jobs'[j] = job
  /\ jobs' \in [Jobs -> Job \cup {NoJob}]
  /\ \A k \in Jobs \ {j} : jobs'[k] = jobs[k]

LEMMA DispatchPlaces ==
  ASSUME TypeOK, NEW e \in Enrollments, NEW j \in Jobs, Dispatch(e, j)
  PROVE  Placed(j, Queued(e, 1)) /\ Queued(e, 1) \in Job
  <1>1. 1 \in 1..MaxTries
    BY WorkflowsAssumption
  <1>2. Queued(e, 1) \in Job
    BY <1>1, QueuedType
  <1> QED BY <1>2 DEF Placed, Dispatch, TypeOK

LEMMA AcknowledgePlaces ==
  ASSUME TypeOK, NEW j \in Jobs, Acknowledge(j)
  PROVE  Placed(j, NoJob)
  BY DEF Placed, Acknowledge, TypeOK

LEMMA DiesPlaces ==
  ASSUME TypeOK, NEW j \in Jobs, Dies(j)
  PROVE  /\ jobs[j] \in Job
         /\ \/ Placed(j, NoJob)
            \/ \E n \in 1..MaxTries : /\ Placed(j, Queued(jobs[j].e, n))
                                      /\ Queued(jobs[j].e, n) \in Job
  <1>1. jobs[j] \in Job
    BY JobIsThere DEF Dies
  <1>2. CASE jobs[j].tries < MaxTries
    <2>1. jobs[j].tries + 1 \in 1..MaxTries
      BY <1>1, <1>2, WorkflowsAssumption DEF Job
    <2>2. Queued(jobs[j].e, jobs[j].tries + 1) \in Job
      BY <1>1, <2>1, QueuedType DEF Job
    <2>3. Placed(j, Queued(jobs[j].e, jobs[j].tries + 1))
      BY <1>2, <2>2 DEF Placed, Dies, TypeOK
    <2> QED BY <1>1, <2>1, <2>2, <2>3
  <1>3. CASE ~(jobs[j].tries < MaxTries)
    BY <1>1, <1>3 DEF Placed, Dies, TypeOK
  <1> QED BY <1>2, <1>3

-----------------------------------------------------------------------------
(* Type correctness, which needs that a job decided to go on only when     *)
(* there was a next step.                                                  *)

Held ==
  \A j \in Jobs : At(j, "ran") =>
    /\ jobs[j].goal # "open"
    /\ jobs[j].goal = "next" => jobs[j].row.position + 1 \in Positions

LEMMA RowTypes == NotInserted \in Row /\ Gone \in Row /\ Inserted \in Row
  BY WorkflowsAssumption DEF NotInserted, Gone, Inserted, Row, Positions

LEMMA PositionsAreNaturals == Positions \subseteq Nat
  BY WorkflowsAssumption DEF Positions

LEMMA WrittenType ==
  ASSUME NEW row \in Row, NEW copy \in Row, NEW goal \in {"next", "complete", "exit"},
         goal = "next" => copy.position + 1 \in Positions
  PROVE  Written(row, copy, goal) \in Row
  BY DEF Written, Advanced, Completed, Exited, NextRun, Row

LEMMA WrittenFields ==
  ASSUME NEW row \in Row, NEW copy \in Row, NEW goal \in {"next", "complete", "exit"}
  PROVE  /\ Written(row, copy, goal).position =
              IF goal = "next" THEN copy.position + 1 ELSE row.position
         /\ Written(row, copy, goal).status =
              CASE goal = "next" -> row.status
                [] goal = "complete" -> "completed"
                [] goal = "exit" -> "exited"
  BY DEF Written, Advanced, Completed, Exited, NextRun, Row

LEMMA FollowingIsThere ==
  ASSUME TypeOK, NEW p \in Positions, Following(p) = "next"
  PROVE  p \in steps /\ p + 1 \in steps /\ p + 1 \in Positions
  BY DEF Following, TypeOK

LEMMA InitHeld == Init => TypeOK /\ Held
  <1> SUFFICES ASSUME Init PROVE TypeOK /\ Held
    OBVIOUS
  <1>1. TypeOK
    BY RowTypes, PositionsAreNaturals, WorkflowsAssumption DEF Init, TypeOK
  <1>2. Held
    BY DEF Init, Held, At
  <1> QED BY <1>1, <1>2

\* Held survives whatever leaves no job freshly run.
LEMMA MovedHeld ==
  ASSUME TypeOK, Held, NEW j \in Jobs, NEW row, NEW goal, NEW stage,
         Moved(j, row, goal, stage),
         stage = "ran" => /\ goal # "open"
                          /\ goal = "next" => row.position + 1 \in Positions
  PROVE  Held'
  BY DEF Held, At, Moved

LEMMA PlacedHeld ==
  ASSUME TypeOK, Held, NEW j \in Jobs, NEW job, Placed(j, job), job.stage # "ran"
  PROVE  Held'
  BY DEF Held, At, Placed

LEMMA EnrollingType ==
  ASSUME TypeOK, Held, NEW t \in Triggers, Enrolling(t)
  PROVE  TypeOK' /\ Held'
  <1>1. Held'
    BY DEF Held, At, Enrolling, Fire, Refuse, LookUp, Enroll, EnrollFails
  <1>2. CASE \E c \in Contacts : Fire(t, c)
    BY <1>1, <1>2 DEF Fire, TypeOK, Trigger, workflow, history
  <1>3. CASE Refuse(t) \/ EnrollFails(t)
    BY <1>1, <1>3 DEF Refuse, EnrollFails, TypeOK, workflow, history
  <1>4. CASE LookUp(t)
    <2>1. [triggers[t] EXCEPT !.stage = "absent"] \in Trigger
      BY <1>4 DEF LookUp, TypeOK, Trigger
    <2> QED BY <1>1, <1>4, <2>1 DEF LookUp, TypeOK, workflow, history
  <1>5. CASE \E e \in Enrollments : Enroll(t, e)
    BY <1>1, <1>5, RowTypes DEF Enroll, TypeOK, workflow
  <1> QED BY <1>1, <1>2, <1>3, <1>4, <1>5 DEF Enrolling

LEMMA SchedulingType ==
  ASSUME TypeOK, Held,
         \/ Tick
         \/ \E e \in Enrollments, j \in Jobs : Dispatch(e, j)
         \/ \E e \in Enrollments : DelayPasses(e)
  PROVE  TypeOK' /\ Held'
  <1>1. CASE Tick
    BY <1>1 DEF Tick, TypeOK, Held, At, workflow, history
  <1>2. CASE \E e \in Enrollments, j \in Jobs : Dispatch(e, j)
    <2>1. PICK e \in Enrollments, j \in Jobs : Dispatch(e, j)
      BY <1>2
    <2>2. Placed(j, Queued(e, 1)) /\ Queued(e, 1).stage # "ran"
      BY <2>1, DispatchPlaces DEF Queued
    <2>3. Held'
      BY <2>2, PlacedHeld
    <2> QED BY <2>1, <2>2, <2>3 DEF Placed, Dispatch, TypeOK, workflow, history
  <1>3. CASE \E e \in Enrollments : DelayPasses(e)
    <2>1. PICK e \in Enrollments : DelayPasses(e)
      BY <1>3
    <2>2. [rows[e] EXCEPT !.next = "due"] \in Row
      <3>1. rows[e] \in Row
        BY <2>1 DEF TypeOK
      <3> QED BY <3>1 DEF Row
    <2>3. rows' \in [Enrollments -> Row]
      BY <2>1, <2>2 DEF DelayPasses, TypeOK
    <2> QED BY <2>1, <2>3 DEF DelayPasses, TypeOK, Held, At, workflow, history
  <1> QED BY <1>1, <1>2, <1>3

LEMMA WorkType ==
  ASSUME TypeOK, Held, NEW j \in Jobs, Work(j) \/ Dies(j)
  PROVE  TypeOK' /\ Held'
  <1>1. CASE Load(j)
    <2>1. Held' /\ jobs' \in [Jobs -> Job \cup {NoJob}]
      BY <1>1, LoadMoves, MovedHeld DEF Moved
    <2> QED BY <1>1, <2>1 DEF Load, TypeOK, workflow, history
  <1>2. CASE Run(j)
    <2> DEFINE e == jobs[j].e
               p == jobs[j].row.position
    <2>1. jobs[j] \in Job /\ e \in Enrollments /\ p \in Positions
      BY <1>2, JobIsThere DEF Run, At, Job, Row
    <2>2. Following(p) # "open" /\ (Following(p) = "next" => p + 1 \in Positions)
      BY <2>1, FollowingIsThere DEF Following
    <2>3. Held' /\ jobs' \in [Jobs -> Job \cup {NoJob}]
      BY <1>2, <2>2, RunMoves, MovedHeld DEF Moved
    <2>4. times' \in [Enrollments -> [Positions -> Nat]]
      <3>1. times[e] \in [Positions -> Nat] /\ times[e][p] + 1 \in Nat
        BY <2>1 DEF TypeOK
      <3>2. [times[e] EXCEPT ![p] = @ + 1] \in [Positions -> Nat]
        BY <3>1
      <3> QED BY <1>2, <3>2 DEF Run, TypeOK
    <2> QED BY <1>2, <2>3, <2>4 DEF Run, TypeOK, workflow
  <1>3. CASE Leave(j)
    <2>1. Held' /\ jobs' \in [Jobs -> Job \cup {NoJob}]
      BY <1>3, LeaveMoves, MovedHeld DEF Moved
    <2> QED BY <1>3, <2>1 DEF Leave, TypeOK, workflow, history
  <1>4. CASE Write(j)
    <2> DEFINE e == jobs[j].e
    <2>1. Held' /\ jobs' \in [Jobs -> Job \cup {NoJob}]
      BY <1>4, WriteMoves, MovedHeld DEF Moved
    <2>2. jobs[j] \in Job /\ rows[e] \in Row /\ e \in Enrollments
      BY <1>4, JobIsThere DEF Write, At, Job, TypeOK
    <2>3. /\ jobs[j].goal \in {"next", "complete", "exit"}
          /\ jobs[j].goal = "next" => jobs[j].row.position + 1 \in Positions
      BY <1>4, <2>2 DEF Held, Write, Job
    <2>4. Written(rows[e], jobs[j].row, jobs[j].goal) \in Row
      BY <2>2, <2>3, WrittenType DEF Job
    <2>5. rows' \in [Enrollments -> Row]
      BY <1>4, <2>4 DEF Write, TypeOK
    <2> QED BY <1>4, <2>1, <2>5 DEF Write, TypeOK, workflow, history
  <1>5. CASE Count(j)
    <2>1. Held' /\ jobs' \in [Jobs -> Job \cup {NoJob}]
      BY <1>5, CountMoves, MovedHeld DEF Moved
    <2>2. counted' \in [Enrollments -> Nat]
      <3>1. jobs[j].e \in Enrollments
        BY <1>5, JobIsThere, StagesOfJobs DEF Count, At
      <3>2. counted[jobs[j].e] + 1 \in Nat
        BY <3>1 DEF TypeOK
      <3> QED BY <1>5, <3>1, <3>2 DEF Count, TypeOK
    <2> QED BY <1>5, <2>1, <2>2 DEF Count, TypeOK, workflow, history
  <1>6. CASE Acknowledge(j)
    <2>1. Held' /\ jobs' \in [Jobs -> Job \cup {NoJob}]
      BY <1>6, AcknowledgePlaces, PlacedHeld DEF Placed, NoJob
    <2> QED BY <1>6, <2>1 DEF Acknowledge, TypeOK, workflow, history
  <1>7. CASE Dies(j)
    <2>1. \E job : Placed(j, job) /\ job.stage # "ran"
      <3>1. /\ NoJob.stage # "ran"
            /\ \A n : Queued(jobs[j].e, n).stage # "ran"
        BY DEF Queued, NoJob
      <3> QED BY <1>7, <3>1, DiesPlaces
    <2>2. Held' /\ jobs' \in [Jobs -> Job \cup {NoJob}]
      BY <2>1, PlacedHeld DEF Placed
    <2>3. died' \in [Enrollments -> Nat]
      BY <1>7, DiesPlaces DEF Dies, TypeOK, Job
    <2> QED BY <1>7, <2>2, <2>3 DEF Dies, TypeOK, workflow
  <1> QED BY <1>1, <1>2, <1>3, <1>4, <1>5, <1>6, <1>7 DEF Work

LEMMA EditingType ==
  ASSUME TypeOK, Held, Editing
  PROVE  TypeOK' /\ Held'
  <1>1. Held'
    BY DEF Held, At, Editing, AddStep, DeleteStep, Toggle, Destroy
  <1>2. CASE \E p \in Positions : AddStep(p)
    BY <1>1, <1>2 DEF AddStep, TypeOK, history
  <1>3. CASE \E p \in Positions : DeleteStep(p)
    BY <1>1, <1>3 DEF DeleteStep, TypeOK
  <1>4. CASE Toggle
    BY <1>1, <1>4 DEF Toggle, TypeOK, history
  <1>5. CASE Destroy
    BY <1>1, <1>5, RowTypes DEF Destroy, TypeOK
  <1> QED BY <1>1, <1>2, <1>3, <1>4, <1>5 DEF Editing

LEMMA StepType == TypeOK /\ Held /\ [Next]_vars => TypeOK' /\ Held'
  <1> SUFFICES ASSUME TypeOK, Held, [Next]_vars PROVE TypeOK' /\ Held'
    OBVIOUS
  <1>1. CASE UNCHANGED vars
    BY <1>1 DEF vars, TypeOK, Held, At
  <1>2. CASE Next
    BY <1>2, EnrollingType, SchedulingType, WorkType, EditingType DEF Next
  <1> QED BY <1>1, <1>2

(* Every variable keeps its type in every deployment, so a pointer never   *)
(* leaves the positions and a job is never tried more than MaxTries times. *)
THEOREM TypesHold == Spec => []TypeOK
  <1>1. Init => TypeOK /\ Held
    BY InitHeld
  <1>2. (TypeOK /\ Held) /\ [Next]_vars => (TypeOK /\ Held)'
    BY StepType
  <1> QED BY <1>1, <1>2, PTL DEF Spec

THEOREM HeldHolds == Spec => [](TypeOK /\ Held)
  <1>1. Init => TypeOK /\ Held
    BY InitHeld
  <1>2. (TypeOK /\ Held) /\ [Next]_vars => (TypeOK /\ Held)'
    BY StepType
  <1> QED BY <1>1, <1>2, PTL DEF Spec

-----------------------------------------------------------------------------
(* Order.  An enrollment has gone through every position below its pointer *)
(* and below the pointer of any row a job still holds, however old; a job  *)
(* that is about to move the pointer has gone through its own as well.     *)

Passed(e, n) == \A p \in Positions : p < n => times[e][p] > 0
PassedNow(e, n) == \A p \in Positions : p < n => times'[e][p] > 0

InOrder ==
  \A e \in Enrollments : \A p, q \in Positions :
    q < p /\ times[e][p] > 0 => times[e][q] > 0

Ordered ==
  /\ InOrder
  /\ \A e \in Enrollments : Passed(e, rows[e].position)
  /\ \A j \in Jobs : jobs[j] # NoJob => Passed(jobs[j].e, jobs[j].row.position)
  /\ \A j \in Jobs : At(j, "ran") /\ jobs[j].goal = "next" =>
       Passed(jobs[j].e, jobs[j].row.position + 1)

LEMMA OrderedInOrder == TypeOK /\ Ordered => StepsInOrder
  <1> SUFFICES ASSUME Ordered, NEW e \in Enrollments, NEW p \in Positions,
                      p \in GoneThrough(e), NEW q \in 0..p
               PROVE  q \in GoneThrough(e)
    BY DEF StepsInOrder
  <1>1. q \in Positions /\ p \in Nat
    BY WorkflowsAssumption DEF Positions
  <1> QED BY <1>1 DEF Ordered, InOrder, GoneThrough

LEMMA InitOrdered == Init => Ordered
  BY PositionsAreNaturals
  DEF Init, Ordered, InOrder, Passed, NotInserted, NoJob, At

\* Nothing is forgotten: what was passed stays passed.
Remembers ==
  \A e \in Enrollments : \A p \in Positions : times[e][p] > 0 => times'[e][p] > 0

LEMMA Remembered ==
  ASSUME Remembers, NEW e \in Enrollments, NEW n, Passed(e, n)
  PROVE  PassedNow(e, n)
  BY DEF Remembers, Passed, PassedNow

LEMMA SameTimes ==
  ASSUME times' = times, Ordered
  PROVE  Remembers /\ InOrder'
  BY DEF Remembers, Ordered, InOrder

\* The rows a step leaves or writes stand where the enrollment has been.
RowsPassed == \A e \in Enrollments : PassedNow(e, rows'[e].position)

LEMMA SamePositions ==
  ASSUME Ordered, Remembers,
         \A e \in Enrollments : rows'[e].position = rows[e].position
  PROVE  RowsPassed
  BY Remembered DEF RowsPassed, Ordered

LEMMA MovedOrdered ==
  ASSUME TypeOK, Ordered, NEW j \in Jobs, NEW row, NEW goal, NEW stage,
         Moved(j, row, goal, stage), Remembers, InOrder', RowsPassed,
         PassedNow(jobs[j].e, row.position),
         stage = "ran" /\ goal = "next" => PassedNow(jobs[j].e, row.position + 1)
  PROVE  Ordered'
  <1>1. ASSUME NEW k \in Jobs, (jobs[k] # NoJob)'
        PROVE  Passed(jobs[k].e, jobs[k].row.position)'
    <2>1. CASE k = j
      BY <2>1 DEF Moved, Passed, PassedNow
    <2>2. CASE k # j
      <3>1. jobs'[k] = jobs[k] /\ jobs[k].e \in Enrollments
        BY <1>1, <2>2, JobIsThere, StagesOfJobs DEF Moved
      <3>2. Passed(jobs[k].e, jobs[k].row.position)
        BY <1>1, <3>1 DEF Ordered
      <3> QED BY <3>1, <3>2, Remembered DEF Passed, PassedNow
    <2> QED BY <2>1, <2>2
  <1>2. ASSUME NEW k \in Jobs, At(k, "ran")', (jobs[k].goal = "next")'
        PROVE  Passed(jobs[k].e, jobs[k].row.position + 1)'
    <2>1. CASE k = j
      BY <1>2, <2>1 DEF Moved, Passed, PassedNow, At
    <2>2. CASE k # j
      <3>1. jobs'[k] = jobs[k] /\ jobs[k].e \in Enrollments
        BY <1>2, <2>2, JobIsThere, StagesOfJobs DEF Moved, At
      <3>2. Passed(jobs[k].e, jobs[k].row.position + 1)
        BY <1>2, <3>1 DEF Ordered, At
      <3> QED BY <3>1, <3>2, Remembered DEF Passed, PassedNow
    <2> QED BY <2>1, <2>2
  <1> QED BY <1>1, <1>2 DEF Ordered, RowsPassed, Passed, PassedNow

LEMMA PlacedOrdered ==
  ASSUME TypeOK, Ordered, NEW j \in Jobs, NEW job, Placed(j, job), Remembers,
         InOrder', RowsPassed,
         job # NoJob => job.stage = "queued" /\ job.row = NotInserted
  PROVE  Ordered'
  <1>1. ASSUME NEW k \in Jobs, (jobs[k] # NoJob)'
        PROVE  Passed(jobs[k].e, jobs[k].row.position)'
    <2>1. CASE k = j
      <3>1. jobs'[k].row.position = 0
        BY <1>1, <2>1 DEF Placed, NotInserted
      <3> QED BY <3>1, PositionsAreNaturals DEF Passed
    <2>2. CASE k # j
      <3>1. jobs'[k] = jobs[k] /\ jobs[k].e \in Enrollments
        BY <1>1, <2>2, JobIsThere, StagesOfJobs DEF Placed
      <3>2. Passed(jobs[k].e, jobs[k].row.position)
        BY <1>1, <3>1 DEF Ordered
      <3> QED BY <3>1, <3>2, Remembered DEF Passed, PassedNow
    <2> QED BY <2>1, <2>2
  <1>2. ASSUME NEW k \in Jobs, At(k, "ran")', (jobs[k].goal = "next")'
        PROVE  Passed(jobs[k].e, jobs[k].row.position + 1)'
    <2>1. k # j
      BY <1>2 DEF Placed, At
    <2>2. jobs'[k] = jobs[k] /\ jobs[k].e \in Enrollments
      BY <1>2, <2>1, JobIsThere, StagesOfJobs DEF Placed, At
    <2>3. Passed(jobs[k].e, jobs[k].row.position + 1)
      BY <1>2, <2>2 DEF Ordered, At
    <2> QED BY <2>2, <2>3, Remembered DEF Passed, PassedNow
  <1> QED BY <1>1, <1>2 DEF Ordered, RowsPassed, Passed, PassedNow

\* Steps that leave the queue and the histories of the enrollments alone.
LEMMA QuietOrdered ==
  ASSUME Ordered, jobs' = jobs, times' = times, RowsPassed
  PROVE  Ordered'
  <1>1. \A e \in Enrollments : Passed(e, rows[e].position)'
    BY DEF RowsPassed, Passed, PassedNow
  <1> QED BY <1>1 DEF Ordered, InOrder, Passed, At

LEMMA ZeroPassed == \A e \in Enrollments : Passed(e, 0) /\ PassedNow(e, 0)
  <1>1. \A p \in Positions : ~(p < 0)
    BY WorkflowsAssumption DEF Positions
  <1> QED BY <1>1 DEF Passed, PassedNow

LEMMA EnrollingOrdered ==
  ASSUME TypeOK, Ordered, NEW t \in Triggers, Enrolling(t)
  PROVE  Ordered'
  <1>1. jobs' = jobs /\ times' = times
    BY DEF Enrolling, Fire, Refuse, LookUp, Enroll, EnrollFails, history
  <1>2. Remembers
    BY <1>1, SameTimes
  <1>3. CASE rows' = rows
    BY <1>1, <1>2, <1>3, SamePositions, QuietOrdered
  <1>4. CASE \E e \in Enrollments : Enroll(t, e)
    <2>1. PICK e \in Enrollments : Enroll(t, e)
      BY <1>4
    <2>2. rows' = [rows EXCEPT ![e] = Inserted]
      BY <2>1 DEF Enroll
    <2>3. \A f \in Enrollments : rows'[f] = rows[f] \/ rows'[f].position = 0
      BY <2>2 DEF TypeOK, Inserted
    <2>4. RowsPassed
      BY <1>2, <2>3, ZeroPassed, Remembered DEF RowsPassed, Ordered
    <2> QED BY <1>1, <2>4, QuietOrdered
  <1>5. rows' = rows \/ \E e \in Enrollments : Enroll(t, e)
    BY DEF Enrolling, Fire, Refuse, LookUp, EnrollFails
  <1> QED BY <1>3, <1>4, <1>5

LEMMA SchedulingOrdered ==
  ASSUME TypeOK, Ordered,
         \/ Tick
         \/ \E e \in Enrollments, j \in Jobs : Dispatch(e, j)
         \/ \E e \in Enrollments : DelayPasses(e)
  PROVE  Ordered'
  <1>1. times' = times
    BY DEF Tick, Dispatch, DelayPasses, history
  <1>2. Remembers /\ InOrder'
    BY <1>1, SameTimes
  <1>3. CASE Tick
    BY <1>1, <1>2, <1>3, SamePositions, QuietOrdered DEF Tick
  <1>4. CASE \E e \in Enrollments, j \in Jobs : Dispatch(e, j)
    <2>1. PICK e \in Enrollments, j \in Jobs : Dispatch(e, j)
      BY <1>4
    <2>2. RowsPassed
      BY <1>2, <2>1, SamePositions DEF Dispatch
    <2>3. Placed(j, Queued(e, 1))
      BY <2>1, DispatchPlaces
    <2>4. Queued(e, 1).stage = "queued" /\ Queued(e, 1).row = NotInserted
      BY DEF Queued
    <2> QED BY <1>2, <2>2, <2>3, <2>4, PlacedOrdered
  <1>5. CASE \E e \in Enrollments : DelayPasses(e)
    <2>1. PICK e \in Enrollments : DelayPasses(e)
      BY <1>5
    <2>2. \A f \in Enrollments : rows'[f].position = rows[f].position
      <3>1. rows[e] \in Row
        BY <2>1 DEF TypeOK
      <3> QED BY <2>1, <3>1 DEF DelayPasses, TypeOK, Row
    <2>3. jobs' = jobs
      BY <2>1 DEF DelayPasses
    <2> QED BY <1>1, <1>2, <2>2, <2>3, SamePositions, QuietOrdered
  <1> QED BY <1>3, <1>4, <1>5

LEMMA RunRemembers ==
  ASSUME TypeOK, NEW j \in Jobs, Run(j)
  PROVE  /\ jobs[j].e \in Enrollments /\ jobs[j].row.position \in Positions
         /\ Remembers
         /\ \A e \in Enrollments, p \in Positions :
              e # jobs[j].e \/ p # jobs[j].row.position => times'[e][p] = times[e][p]
         /\ jobs[j].row.position \in steps =>
              times'[jobs[j].e][jobs[j].row.position]
                = times[jobs[j].e][jobs[j].row.position] + 1
  <1> DEFINE e == jobs[j].e
             p == jobs[j].row.position
  <1>1. e \in Enrollments /\ p \in Positions
    BY JobIsThere, StagesOfJobs DEF Run, At, Row
  <1>2. times[e] \in [Positions -> Nat]
    BY <1>1 DEF TypeOK
  <1>3. \A f \in Enrollments, q \in Positions :
          f # e \/ q # p => times'[f][q] = times[f][q]
    BY <1>1, <1>2 DEF Run, TypeOK
  <1>4. p \in steps => times'[e][p] = times[e][p] + 1
    BY <1>1, <1>2 DEF Run, TypeOK
  <1>5. p \notin steps => times'[e][p] = times[e][p]
    BY DEF Run
  <1>6. times[e][p] \in Nat
    BY <1>1, <1>2
  <1>7. Remembers
    BY <1>3, <1>4, <1>5, <1>6 DEF Remembers
  <1> QED BY <1>1, <1>3, <1>4, <1>7

LEMMA RunOrdered ==
  ASSUME TypeOK, Ordered, NEW j \in Jobs, Run(j)
  PROVE  Ordered'
  <1> DEFINE e == jobs[j].e
             p == jobs[j].row.position
  <1>1. /\ e \in Enrollments /\ p \in Positions
        /\ Remembers
        /\ \A f \in Enrollments, q \in Positions :
             f # e \/ q # p => times'[f][q] = times[f][q]
        /\ p \in steps => times'[e][p] = times[e][p] + 1
    BY RunRemembers
  <1>2. Passed(e, p) /\ PassedNow(e, p)
    BY <1>1, Remembered DEF Ordered, Run, At
  <1>3. InOrder'
    <2> SUFFICES ASSUME NEW f \in Enrollments, NEW q \in Positions, NEW r \in Positions,
                        r < q, times'[f][q] > 0
                 PROVE  times'[f][r] > 0
      BY DEF InOrder
    <2>1. CASE f = e /\ q = p
      BY <1>2, <2>1 DEF PassedNow
    <2>2. CASE f # e \/ q # p
      <3>1. times[f][q] > 0
        BY <1>1, <2>2
      <3> QED BY <1>1, <3>1 DEF Ordered, InOrder, Remembers
    <2> QED BY <2>1, <2>2
  <1>4. RowsPassed
    BY <1>1, SamePositions DEF Run
  <1>5. Following(p) = "next" => PassedNow(e, p + 1)
    <2> SUFFICES ASSUME p \in steps, NEW q \in Positions, q < p + 1
                 PROVE  times'[e][q] > 0
      BY DEF Following, PassedNow
    <2>1. CASE q < p
      BY <1>2, <2>1 DEF PassedNow
    <2>2. CASE q = p
      <3>1. times[e][p] \in Nat
        BY <1>1 DEF TypeOK
      <3> QED BY <1>1, <2>2, <3>1
    <2>3. p \in Nat /\ q \in Nat
      BY <1>1, PositionsAreNaturals
    <2> QED BY <2>1, <2>2, <2>3
  <1> QED BY <1>1, <1>2, <1>3, <1>4, <1>5, RunMoves, MovedOrdered

\* What a job writes: the position it leaves the row at.
LEMMA WriteLeaves ==
  ASSUME TypeOK, Held, NEW j \in Jobs, Write(j)
  PROVE  /\ jobs[j].e \in Enrollments
         /\ jobs[j].goal \in {"next", "complete", "exit"}
         /\ \A f \in Enrollments \ {jobs[j].e} : rows'[f] = rows[f]
         /\ \/ rows'[jobs[j].e] = rows[jobs[j].e]
            \/ /\ rows[jobs[j].e].status # "gone"
               /\ rows'[jobs[j].e] = Written(rows[jobs[j].e], jobs[j].row, jobs[j].goal)
  <1>1. jobs[j] \in Job /\ jobs[j].e \in Enrollments
    BY JobIsThere, StagesOfJobs DEF Write, At
  <1>2. jobs[j].goal \in {"next", "complete", "exit"}
    BY <1>1 DEF Held, Write, Job
  <1> QED BY <1>1, <1>2 DEF Write, TypeOK

LEMMA WriteOrdered ==
  ASSUME TypeOK, Held, Ordered, NEW j \in Jobs, Write(j)
  PROVE  Ordered'
  <1> DEFINE e == jobs[j].e
  <1>1. times' = times /\ Remembers /\ InOrder'
    BY SameTimes DEF Write, history
  <1>2. e \in Enrollments /\ Passed(e, jobs[j].row.position)
    BY WriteLeaves DEF Ordered, Write, At
  <1>3. jobs[j].goal = "next" => Passed(e, jobs[j].row.position + 1)
    BY DEF Ordered, Write
  <1>4. rows[e] \in Row /\ jobs[j].row \in Row
    BY <1>2, JobIsThere, StagesOfJobs DEF TypeOK, Write, At
  <1>5. \/ rows'[e].position = rows[e].position
        \/ jobs[j].goal = "next" /\ rows'[e].position = jobs[j].row.position + 1
    BY <1>4, WriteLeaves, WrittenFields
  <1>6. RowsPassed
    <2>1. PassedNow(e, rows'[e].position)
      BY <1>1, <1>2, <1>3, <1>5, Remembered DEF Ordered
    <2>2. \A f \in Enrollments \ {e} : PassedNow(f, rows'[f].position)
      BY <1>1, WriteLeaves, Remembered DEF Ordered
    <2> QED BY <2>1, <2>2 DEF RowsPassed
  <1>7. PassedNow(e, jobs[j].row.position)
    BY <1>1, <1>2, Remembered
  <1> QED BY <1>1, <1>6, <1>7, WriteMoves, MovedOrdered

LEMMA WorkOrdered ==
  ASSUME TypeOK, Held, Ordered, NEW j \in Jobs, Work(j) \/ Dies(j)
  PROVE  Ordered'
  <1>1. CASE Run(j)
    BY <1>1, RunOrdered
  <1>2. CASE Write(j)
    BY <1>2, WriteOrdered
  <1>3. CASE Load(j) \/ Leave(j) \/ Count(j) \/ Acknowledge(j) \/ Dies(j)
    <2>1. times' = times /\ rows' = rows
      BY <1>3 DEF Load, Leave, Count, Acknowledge, Dies, history
    <2>2. Remembers /\ InOrder' /\ RowsPassed
      BY <2>1, SameTimes, SamePositions
    <2>3. CASE Load(j)
      <3>1. jobs[j].e \in Enrollments
        BY <2>3, JobIsThere, StagesOfJobs DEF Load, At
      <3>2. PassedNow(jobs[j].e, rows[jobs[j].e].position)
        BY <2>2, <3>1, Remembered DEF Ordered
      <3> QED BY <2>2, <2>3, <3>2, LoadMoves, MovedOrdered
    <2>4. CASE Leave(j) \/ Count(j)
      <3>1. jobs[j].e \in Enrollments /\ Passed(jobs[j].e, jobs[j].row.position)
        BY <2>4, JobIsThere, StagesOfJobs DEF Leave, Count, At, Ordered
      <3>2. PassedNow(jobs[j].e, jobs[j].row.position)
        BY <2>2, <3>1, Remembered
      <3> QED BY <2>2, <2>4, <3>2, LeaveMoves, CountMoves, MovedOrdered
    <2>5. CASE Acknowledge(j)
      BY <2>2, <2>5, AcknowledgePlaces, PlacedOrdered
    <2>6. CASE Dies(j)
      <3>1. \A n : /\ Queued(jobs[j].e, n).stage = "queued"
                   /\ Queued(jobs[j].e, n).row = NotInserted
        BY DEF Queued
      <3>2. \E job : /\ Placed(j, job)
                     /\ job # NoJob => job.stage = "queued" /\ job.row = NotInserted
        BY <2>6, <3>1, DiesPlaces
      <3> QED BY <2>2, <3>2, PlacedOrdered
    <2> QED BY <1>3, <2>3, <2>4, <2>5, <2>6
  <1> QED BY <1>1, <1>2, <1>3 DEF Work

LEMMA EditingOrdered ==
  ASSUME TypeOK, Ordered, Editing
  PROVE  Ordered'
  <1>1. jobs' = jobs /\ times' = times
    BY DEF Editing, AddStep, DeleteStep, Toggle, Destroy, history
  <1>2. Remembers
    BY <1>1, SameTimes
  <1>3. \A e \in Enrollments : rows'[e] = rows[e] \/ rows'[e].position = 0
    BY DEF Editing, AddStep, DeleteStep, Toggle, Destroy, Gone
  <1>4. RowsPassed
    BY <1>2, <1>3, ZeroPassed, Remembered DEF RowsPassed, Ordered
  <1> QED BY <1>1, <1>4, QuietOrdered

LEMMA StepOrdered == TypeOK /\ Held /\ Ordered /\ [Next]_vars => Ordered'
  <1> SUFFICES ASSUME TypeOK, Held, Ordered, [Next]_vars PROVE Ordered'
    OBVIOUS
  <1>1. CASE UNCHANGED vars
    BY <1>1 DEF vars, Ordered, InOrder, Passed, At
  <1>2. CASE Next
    BY <1>2, EnrollingOrdered, SchedulingOrdered, WorkOrdered, EditingOrdered DEF Next
  <1> QED BY <1>1, <1>2

(* Steps run in order, whatever is queued twice, retried, deleted or       *)
(* added: the pointer and every copy of it a job holds stand only past     *)
(* positions the enrollment went through.                                  *)
THEOREM StepsRunInOrder == Spec => []StepsInOrder
  <1>1. Init => TypeOK /\ Held /\ Ordered
    BY InitHeld, InitOrdered
  <1>2. (TypeOK /\ Held /\ Ordered) /\ [Next]_vars => (TypeOK /\ Held /\ Ordered)'
    BY StepType, StepOrdered
  <1> QED BY <1>1, <1>2, OrderedInOrder, PTL DEF Spec

-----------------------------------------------------------------------------
(* Completion.  A job belongs to an enrollment that exists, so what an     *)
(* enrollment is promised is settled before any of its jobs runs; and a    *)
(* job decides that the enrollment is complete where the steps end or have *)
(* a gap, short of which everything was gone through.                      *)

Known ==
  /\ \A j \in Jobs : jobs[j] # NoJob => rows[jobs[j].e].status # "none"
  /\ \A e \in due : rows[e].status # "none"

Whole(e) == Unbroken(promised[e]) \subseteq GoneThrough(e)

Kept ==
  /\ \A e \in Enrollments : promised[e] \subseteq steps
  /\ \A e \in Enrollments : rows[e].status = "completed" => Whole(e)
  /\ \A j \in Jobs : At(j, "ran") /\ jobs[j].goal = "complete" => Whole(jobs[j].e)

\* An inserted row is never as if it had not been.
RowsStay ==
  \A e \in Enrollments : rows[e].status # "none" => rows'[e].status # "none"

LEMMA StepRowsStay ==
  ASSUME TypeOK, Held, Next
  PROVE  RowsStay
  <1>1. ASSUME NEW t \in Triggers, Enrolling(t) PROVE RowsStay
    BY <1>1 DEF Enrolling, Fire, Refuse, LookUp, Enroll, EnrollFails, RowsStay, Inserted,
              TypeOK
  <1>2. ASSUME NEW e \in Enrollments, DelayPasses(e) PROVE RowsStay
    <2>1. rows[e] \in Row
      BY DEF TypeOK
    <2> QED BY <1>2, <2>1 DEF DelayPasses, RowsStay, TypeOK, Row
  <1>3. ASSUME NEW j \in Jobs, Write(j) PROVE RowsStay
    <2>1. jobs[j].e \in Enrollments /\ jobs[j].row \in Row /\ rows[jobs[j].e] \in Row
      BY <1>3, JobIsThere, StagesOfJobs DEF Write, At, TypeOK
    <2>2. rows[jobs[j].e].status # "none" => rows'[jobs[j].e].status # "none"
      BY <1>3, <2>1, WriteLeaves, WrittenFields
    <2> QED BY <1>3, <2>2, WriteLeaves DEF RowsStay
  <1>4. ASSUME NEW j \in Jobs, Work(j) \/ Dies(j) PROVE RowsStay
    BY <1>3, <1>4 DEF Work, Load, Run, Leave, Count, Acknowledge, Dies, RowsStay
  <1>5. Editing => RowsStay
    BY DEF Editing, AddStep, DeleteStep, Toggle, Destroy, RowsStay, Gone
  <1>6. Tick \/ (\E e \in Enrollments, j \in Jobs : Dispatch(e, j)) => RowsStay
    BY DEF Tick, Dispatch, RowsStay
  <1> QED BY <1>1, <1>2, <1>4, <1>5, <1>6 DEF Next

LEMMA InitKnown == Init => Known /\ Kept
  BY DEF Init, Known, Kept, NotInserted, NoJob, At

LEMMA StepKnown ==
  ASSUME TypeOK, Held, Known, Next
  PROVE  Known'
  <1>1. RowsStay
    BY StepRowsStay
  <1>2. ASSUME NEW j \in Jobs, NEW row, NEW goal, NEW stage, Moved(j, row, goal, stage),
               due' = due
        PROVE  Known'
    BY <1>1, <1>2, StagesOfJobs, JobIsThere DEF Known, Moved, RowsStay, TypeOK
  <1>3. ASSUME NEW j \in Jobs, NEW job, Placed(j, job), due' \subseteq due,
               job # NoJob => job.e \in Enrollments /\ rows[job.e].status # "none"
        PROVE  Known'
    BY <1>1, <1>3, StagesOfJobs, JobIsThere DEF Known, Placed, RowsStay, TypeOK
  <1>4. ASSUME jobs' = jobs,
               \A e \in due' : e \in due \/ rows[e].status # "none",
               due' \subseteq Enrollments
        PROVE  Known'
    BY <1>1, <1>4, StagesOfJobs, JobIsThere DEF Known, RowsStay
  <1>5. ASSUME NEW t \in Triggers, Enrolling(t) PROVE Known'
    BY <1>4, <1>5 DEF Enrolling, Fire, Refuse, LookUp, Enroll, EnrollFails, TypeOK
  <1>6. Tick => Known'
    BY <1>4 DEF Tick, IsDue, Active
  <1>7. ASSUME NEW e \in Enrollments, NEW j \in Jobs, Dispatch(e, j) PROVE Known'
    <2>1. Queued(e, 1).e = e /\ rows[e].status # "none"
      BY <1>7 DEF Dispatch, Known, Queued
    <2>2. Placed(j, Queued(e, 1)) /\ due' \subseteq due
      BY <1>7, DispatchPlaces DEF Dispatch
    <2> QED BY <1>3, <2>1, <2>2
  <1>8. ASSUME NEW e \in Enrollments, DelayPasses(e) PROVE Known'
    BY <1>4, <1>8 DEF DelayPasses, TypeOK
  <1>9. ASSUME NEW j \in Jobs, Work(j) \/ Dies(j) PROVE Known'
    <2>1. due' = due
      BY <1>9 DEF Work, Load, Run, Leave, Write, Count, Acknowledge, Dies
    <2>2. CASE Load(j)
      BY <1>2, <2>1, <2>2, LoadMoves
    <2>3. CASE Run(j)
      BY <1>2, <2>1, <2>3, RunMoves
    <2>4. CASE Leave(j)
      BY <1>2, <2>1, <2>4, LeaveMoves
    <2>5. CASE Write(j)
      BY <1>2, <2>1, <2>5, WriteMoves
    <2>6. CASE Count(j)
      BY <1>2, <2>1, <2>6, CountMoves
    <2>7. CASE Acknowledge(j)
      BY <1>3, <2>1, <2>7, AcknowledgePlaces
    <2>8. CASE Dies(j)
      <3>1. jobs[j] # NoJob /\ jobs[j].e \in Enrollments /\ rows[jobs[j].e].status # "none"
        BY <2>8, JobIsThere, StagesOfJobs DEF Dies, Known
      <3>2. \A n : Queued(jobs[j].e, n).e = jobs[j].e
        BY DEF Queued
      <3> QED BY <1>3, <2>1, <2>8, <3>1, <3>2, DiesPlaces
    <2> QED BY <1>9, <2>2, <2>3, <2>4, <2>5, <2>6, <2>7, <2>8 DEF Work
  <1>10. Editing => Known'
    BY <1>4 DEF Editing, AddStep, DeleteStep, Toggle, Destroy, TypeOK
  <1> QED BY <1>5, <1>6, <1>7, <1>8, <1>9, <1>10 DEF Next

WholeNow(e) == Unbroken(promised'[e]) \subseteq {p \in Positions : times'[e][p] > 0}

LEMMA WholeStays ==
  ASSUME TypeOK, Remembers, NEW e \in Enrollments, Whole(e), promised'[e] \subseteq promised[e]
  PROVE  WholeNow(e)
  BY DEF Whole, WholeNow, Unbroken, GoneThrough, Remembers, TypeOK

\* Where the steps end, or have a gap, everything before was gone through.
LEMMA RunWhole ==
  ASSUME TypeOK, Ordered, Kept, NEW j \in Jobs, Run(j),
         Following(jobs[j].row.position) = "complete"
  PROVE  WholeNow(jobs[j].e)
  <1> DEFINE e == jobs[j].e
             p == jobs[j].row.position
  <1>1. /\ e \in Enrollments /\ p \in Positions
        /\ Remembers
        /\ p \in steps => times'[e][p] = times[e][p] + 1
    BY RunRemembers
  <1>2. PassedNow(e, p)
    BY <1>1, Remembered DEF Ordered, Run, At
  <1>3. promised'[e] \subseteq steps /\ steps \subseteq Positions
    BY <1>1 DEF Kept, Run, TypeOK
  <1> SUFFICES ASSUME NEW r \in promised'[e], 0..r \subseteq promised'[e]
               PROVE  r \in Positions /\ times'[e][r] > 0
    BY DEF WholeNow, Unbroken
  <1>4. r \in steps /\ r \in Positions /\ r \in Nat /\ p \in Nat
    BY <1>1, <1>3, PositionsAreNaturals
  <1>5. 0..r \subseteq steps
    BY <1>3
  <1>6. CASE r < p
    BY <1>2, <1>4, <1>6 DEF PassedNow
  <1>7. CASE r = p
    <2>1. times[e][p] \in Nat
      BY <1>1 DEF TypeOK
    <2> QED BY <1>1, <1>4, <1>7, <2>1
  <1>8. CASE r > p
    <2>1. p \in 0..r /\ p + 1 \in 0..r
      BY <1>4, <1>8
    <2> QED BY <1>5, <2>1 DEF Following
  <1> QED BY <1>4, <1>6, <1>7, <1>8

LEMMA MovedKept ==
  ASSUME TypeOK, Kept, Remembers, promised' = promised, steps' = steps,
         NEW j \in Jobs, NEW row, NEW goal, NEW stage, Moved(j, row, goal, stage),
         stage = "ran" /\ goal = "complete" => WholeNow(jobs[j].e),
         \A e \in Enrollments : rows'[e].status = "completed" =>
           rows[e].status = "completed" \/ WholeNow(e)
  PROVE  Kept'
  <1>1. \A e \in Enrollments : Whole(e) => WholeNow(e)
    BY WholeStays
  <1>2. ASSUME NEW e \in Enrollments, (rows[e].status = "completed")'
        PROVE  Whole(e)'
    BY <1>1, <1>2 DEF Kept, Whole, WholeNow, GoneThrough
  <1>3. ASSUME NEW k \in Jobs, At(k, "ran")', (jobs[k].goal = "complete")'
        PROVE  Whole(jobs[k].e)'
    <2>1. WholeNow(jobs'[k].e)
      <3>1. CASE k = j
        BY <1>3, <3>1 DEF Moved, At
      <3>2. CASE k # j
        <4>1. jobs'[k] = jobs[k] /\ jobs[k].e \in Enrollments
          BY <1>3, <3>2, JobIsThere, StagesOfJobs DEF Moved, At
        <4> QED BY <1>1, <1>3, <4>1 DEF Kept, At
      <3> QED BY <3>1, <3>2
    <2> QED BY <2>1 DEF Whole, WholeNow, GoneThrough
  <1> QED BY <1>2, <1>3 DEF Kept

LEMMA PlacedKept ==
  ASSUME TypeOK, Kept, rows' = rows, times' = times, promised' = promised,
         steps' = steps, NEW j \in Jobs, NEW job, Placed(j, job), job.stage # "ran"
  PROVE  Kept'
  BY DEF Kept, Whole, GoneThrough, Placed, At

LEMMA QuietKept ==
  ASSUME TypeOK, Kept, jobs' = jobs, times' = times,
         \A e \in Enrollments : promised'[e] \subseteq promised[e],
         \A e \in Enrollments : promised'[e] \subseteq steps',
         \A e \in Enrollments : rows'[e].status = "completed" => rows[e].status = "completed"
  PROVE  Kept'
  <1>1. Remembers
    BY DEF Remembers
  <1>2. \A e \in Enrollments : Whole(e) => WholeNow(e)
    BY <1>1, WholeStays
  <1>3. ASSUME NEW k \in Jobs, At(k, "ran"), jobs[k].goal = "complete"
        PROVE  WholeNow(jobs[k].e)
    <2>1. jobs[k].e \in Enrollments
      BY <1>3, JobIsThere, StagesOfJobs DEF At
    <2> QED BY <1>2, <1>3, <2>1 DEF Kept
  <1> QED BY <1>2, <1>3 DEF Kept, Whole, WholeNow, GoneThrough, At

LEMMA EnrollKept ==
  ASSUME TypeOK, Known, Kept, NEW t \in Triggers, NEW e \in Enrollments, Enroll(t, e)
  PROVE  Kept'
  <1>1. /\ rows[e].status = "none" /\ rows'[e].status = "active"
        /\ \A f \in Enrollments \ {e} : rows'[f] = rows[f] /\ promised'[f] = promised[f]
        /\ promised'[e] = steps
    BY DEF Enroll, TypeOK, NotInserted, Inserted
  <1>2. \A k \in Jobs : jobs[k] # NoJob => jobs[k].e # e
    BY <1>1 DEF Known
  <1>3. \A k \in Jobs : jobs[k] # NoJob => jobs[k].e \in Enrollments
    BY JobIsThere, StagesOfJobs
  <1>4. \A f \in Enrollments \ {e} : Whole(f) => Whole(f)'
    BY <1>1 DEF Whole, GoneThrough, Enroll
  <1>5. \A f \in Enrollments : promised'[f] \subseteq steps'
    BY <1>1 DEF Kept, Enroll, workflow
  <1>6. \A f \in Enrollments : (rows[f].status = "completed")' => Whole(f)'
    BY <1>1, <1>4 DEF Kept
  <1>7. \A k \in Jobs : (At(k, "ran") /\ jobs[k].goal = "complete")' => Whole(jobs[k].e)'
    <2> SUFFICES ASSUME NEW k \in Jobs, (At(k, "ran") /\ jobs[k].goal = "complete")'
                 PROVE  Whole(jobs[k].e)'
      OBVIOUS
    <2>1. jobs' = jobs /\ At(k, "ran") /\ jobs[k].goal = "complete"
      BY DEF Enroll, At
    <2>2. jobs[k].e \in Enrollments \ {e} /\ Whole(jobs[k].e)
      BY <1>2, <1>3, <2>1 DEF Kept, At
    <2>3. /\ promised'[jobs[k].e] = promised[jobs[k].e]
          /\ times' = times
      BY <1>1, <2>2 DEF Enroll
    <2> QED BY <2>1, <2>2, <2>3 DEF Whole, GoneThrough
  <1> QED BY <1>5, <1>6, <1>7 DEF Kept

LEMMA WorkKept ==
  ASSUME TypeOK, Held, Ordered, Kept, NEW j \in Jobs, Work(j) \/ Dies(j)
  PROVE  Kept'
  <1>1. promised' = promised /\ steps' = steps
    BY DEF Work, Load, Run, Leave, Write, Count, Acknowledge, Dies, workflow, history
  <1>2. CASE Run(j)
    <2>1. Remembers /\ rows' = rows
      BY <1>2, RunRemembers DEF Run
    <2> QED BY <1>1, <1>2, <2>1, RunMoves, RunWhole, MovedKept
  <1>3. CASE Write(j)
    <2>1. Remembers
      BY <1>3 DEF Write, history, Remembers
    <2>2. \A e \in Enrollments : Whole(e) => WholeNow(e)
      BY <1>1, <2>1, WholeStays
    <2>3. \A e \in Enrollments : rows'[e].status = "completed" =>
            rows[e].status = "completed" \/ WholeNow(e)
      <3>1. jobs[j].e \in Enrollments /\ jobs[j].row \in Row /\ rows[jobs[j].e] \in Row
        BY <1>3, JobIsThere, StagesOfJobs DEF Write, At, TypeOK
      <3>2. jobs[j].goal = "complete" => WholeNow(jobs[j].e)
        BY <1>3, <2>2, <3>1 DEF Kept, Write
      <3>3. rows'[jobs[j].e].status = "completed" =>
              rows[jobs[j].e].status = "completed" \/ WholeNow(jobs[j].e)
        BY <1>3, <3>1, <3>2, WriteLeaves, WrittenFields
      <3> QED BY <1>3, <3>3, WriteLeaves
    <2> QED BY <1>1, <1>3, <2>1, <2>3, WriteMoves, MovedKept
  <1>4. CASE Load(j) \/ Leave(j) \/ Count(j)
    <2>1. Remembers /\ rows' = rows
      BY <1>4 DEF Load, Leave, Count, history, Remembers
    <2> QED BY <1>1, <1>4, <2>1, LoadMoves, LeaveMoves, CountMoves, MovedKept
  <1>5. CASE Acknowledge(j)
    <2>1. rows' = rows /\ times' = times /\ NoJob.stage # "ran"
      BY <1>5 DEF Acknowledge, history, NoJob
    <2> QED BY <1>1, <1>5, <2>1, AcknowledgePlaces, PlacedKept
  <1>6. CASE Dies(j)
    <2>1. rows' = rows /\ times' = times /\ NoJob.stage # "ran"
      BY <1>6 DEF Dies, NoJob
    <2>2. \A n : Queued(jobs[j].e, n).stage # "ran"
      BY DEF Queued
    <2> QED BY <1>1, <1>6, <2>1, <2>2, DiesPlaces, PlacedKept
  <1> QED BY <1>2, <1>3, <1>4, <1>5, <1>6 DEF Work

LEMMA StepKept ==
  ASSUME TypeOK, Held, Ordered, Known, Kept, Next
  PROVE  Kept'
  <1>1. ASSUME NEW t \in Triggers, Enrolling(t) PROVE Kept'
    <2>1. CASE \E e \in Enrollments : Enroll(t, e)
      BY <2>1, EnrollKept
    <2>2. CASE ~\E e \in Enrollments : Enroll(t, e)
      BY <1>1, <2>2, QuietKept
      DEF Enrolling, Fire, Refuse, LookUp, EnrollFails, workflow, history, Kept
    <2> QED BY <2>1, <2>2
  <1>2. Tick => Kept'
    BY QuietKept DEF Tick, workflow, history, Kept
  <1>3. ASSUME NEW e \in Enrollments, NEW j \in Jobs, Dispatch(e, j) PROVE Kept'
    <2>1. Queued(e, 1).stage # "ran"
      BY DEF Queued
    <2> QED BY <1>3, <2>1, DispatchPlaces, PlacedKept DEF Dispatch, workflow, history
  <1>4. ASSUME NEW e \in Enrollments, DelayPasses(e) PROVE Kept'
    <2>1. rows[e] \in Row
      BY DEF TypeOK
    <2>2. \A f \in Enrollments : rows'[f].status = rows[f].status
      BY <1>4, <2>1 DEF DelayPasses, TypeOK, Row
    <2> QED BY <1>4, <2>2, QuietKept DEF DelayPasses, workflow, history, Kept
  <1>5. ASSUME NEW j \in Jobs, Work(j) \/ Dies(j) PROVE Kept'
    BY <1>5, WorkKept
  <1>6. Editing => Kept'
    <2>1. ASSUME NEW p \in Positions, AddStep(p) PROVE Kept'
      BY <2>1, QuietKept DEF AddStep, history, Kept
    <2>2. ASSUME NEW p \in Positions, DeleteStep(p) PROVE Kept'
      BY <2>2, QuietKept DEF DeleteStep, Kept
    <2>3. Toggle => Kept'
      BY QuietKept DEF Toggle, history, Kept
    <2>4. Destroy => Kept'
      BY QuietKept DEF Destroy, Gone
    <2> QED BY <2>1, <2>2, <2>3, <2>4 DEF Editing
  <1> QED BY <1>1, <1>2, <1>3, <1>4, <1>5, <1>6 DEF Next

\* What holds of a workflow in every deployment.
Sound == TypeOK /\ Held /\ Ordered /\ Known /\ Kept

LEMMA InitSound == Init => Sound
  BY InitHeld, InitOrdered, InitKnown DEF Sound

LEMMA StepSound == Sound /\ [Next]_vars => Sound'
  <1> SUFFICES ASSUME Sound, [Next]_vars PROVE Sound'
    OBVIOUS
  <1>1. TypeOK' /\ Held' /\ Ordered'
    BY StepType, StepOrdered DEF Sound
  <1>2. Known' /\ Kept'
    <2>1. CASE Next
      BY <2>1, StepKnown, StepKept DEF Sound
    <2>2. CASE UNCHANGED vars
      BY <2>2 DEF vars, Sound, Known, Kept, Whole, GoneThrough, At
    <2> QED BY <2>1, <2>2
  <1> QED BY <1>1, <1>2 DEF Sound

(* A completed enrollment is whole, in every deployment: it went through   *)
(* every step it was promised and not robbed of, up to the first gap.      *)
THEOREM CompletionIsWhole == Spec => []CompletedWhole
  <1>1. Sound => CompletedWhole
    BY DEF Sound, Kept, Whole, CompletedWhole
  <1> QED BY <1>1, InitSound, StepSound, PTL DEF Spec

-----------------------------------------------------------------------------
(* One request at a time.  Between the look-up and the insert nothing else *)
(* makes an enrollment active, so the look-up still holds.                 *)

OneTrigger == \A t, u \in Triggers : t = u

Single ==
  /\ OneActive
  /\ \A t \in Triggers : triggers[t] # Idle /\ triggers[t].stage = "absent" =>
       ~Enrolled(triggers[t].contact)

LEMMA InitSingle == Init => Single
  BY DEF Init, Single, OneActive, Active, NotInserted

\* Only an insert makes an enrollment active.
LEMMA NoneRevived ==
  ASSUME TypeOK, Held, Next,
         ~\E t \in Triggers, e \in Enrollments : Enroll(t, e)
  PROVE  \A e \in Enrollments : Active(e)' => Active(e)
  <1>1. ASSUME NEW t \in Triggers, Enrolling(t) PROVE rows' = rows
    BY <1>1 DEF Enrolling, Fire, Refuse, LookUp, EnrollFails
  <1>2. ASSUME NEW e \in Enrollments, DelayPasses(e)
        PROVE  \A f \in Enrollments : Active(f)' => Active(f)
    <2>1. rows[e] \in Row
      BY DEF TypeOK
    <2> QED BY <1>2, <2>1 DEF DelayPasses, Active, TypeOK, Row
  <1>3. ASSUME NEW j \in Jobs, Write(j)
        PROVE  \A f \in Enrollments : Active(f)' => Active(f)
    <2>1. jobs[j].e \in Enrollments /\ jobs[j].row \in Row /\ rows[jobs[j].e] \in Row
      BY <1>3, JobIsThere, StagesOfJobs DEF Write, At, TypeOK
    <2>2. rows'[jobs[j].e].status = "active" => rows[jobs[j].e].status = "active"
      BY <1>3, <2>1, WriteLeaves, WrittenFields
    <2>3. \A f \in Enrollments \ {jobs[j].e} : rows'[f] = rows[f]
      BY <1>3, WriteLeaves
    <2> QED BY <2>2, <2>3 DEF Active
  <1>4. ASSUME NEW j \in Jobs, Work(j) \/ Dies(j)
        PROVE  \A f \in Enrollments : Active(f)' => Active(f)
    BY <1>3, <1>4 DEF Work, Load, Run, Leave, Count, Acknowledge, Dies, Active
  <1>5. Editing => \A f \in Enrollments : Active(f)' => Active(f)
    BY DEF Editing, AddStep, DeleteStep, Toggle, Destroy, Active, Gone
  <1>6. Tick \/ (\E e \in Enrollments, j \in Jobs : Dispatch(e, j)) => rows' = rows
    BY DEF Tick, Dispatch
  <1> QED BY <1>1, <1>2, <1>4, <1>5, <1>6 DEF Next, Active

LEMMA QuietSingle ==
  ASSUME Single, triggers' = triggers,
         \A e \in Enrollments : Active(e)' => Active(e)
  PROVE  Single'
  BY DEF Single, OneActive, Enrolled

LEMMA EnrollingSingle ==
  ASSUME TypeOK, OneTrigger, Single, NEW t \in Triggers, Enrolling(t)
  PROVE  Single'
  <1>1. CASE \E c \in Contacts : Fire(t, c)
    BY <1>1 DEF Fire, Single, OneActive, Enrolled, Active, TypeOK
  <1>2. CASE Refuse(t) \/ EnrollFails(t)
    BY <1>2 DEF Refuse, EnrollFails, Single, OneActive, Enrolled, Active, TypeOK
  <1>3. CASE LookUp(t)
    <2>1. triggers[t] \in Trigger
      BY <1>3 DEF LookUp, TypeOK
    <2>2. triggers'[t].contact = triggers[t].contact
      BY <1>3, <2>1 DEF LookUp, TypeOK, Trigger
    <2>3. \A c : Enrolled(c)' <=> Enrolled(c)
      BY <1>3 DEF LookUp, Enrolled, Active
    <2>4. ~Enrolled(triggers'[t].contact)
      BY <1>3, <2>2 DEF LookUp
    <2>5. OneActive'
      BY <1>3 DEF LookUp, Single, OneActive, Active
    <2>6. \A u \in Triggers : u = t
      BY DEF OneTrigger
    <2> QED BY <2>3, <2>4, <2>5, <2>6 DEF Single, Enrolled, Active
  <1>4. CASE \E e \in Enrollments : Enroll(t, e)
    <2>1. PICK e \in Enrollments : Enroll(t, e)
      BY <1>4
    <2>2. ~Enrolled(e[1])
      BY <2>1 DEF Enroll, Single
    <2>3. \A f \in Enrollments \ {e} : rows'[f] = rows[f]
      BY <2>1 DEF Enroll, TypeOK
    <2>4. OneActive'
      BY <2>2, <2>3 DEF Single, OneActive, Enrolled, Active
    <2>5. triggers'[t] = Idle /\ \A u \in Triggers : u = t
      BY <2>1 DEF Enroll, TypeOK, OneTrigger
    <2> QED BY <2>4, <2>5 DEF Single
  <1> QED BY <1>1, <1>2, <1>3, <1>4 DEF Enrolling

LEMMA StepSingle ==
  ASSUME TypeOK, Held, OneTrigger, Single, [Next]_vars
  PROVE  Single'
  <1>1. CASE \E t \in Triggers : Enrolling(t)
    BY <1>1, EnrollingSingle
  <1>2. CASE Next /\ ~\E t \in Triggers : Enrolling(t)
    <2>1. triggers' = triggers
      BY <1>2 DEF Next, Tick, Dispatch, DelayPasses, Work, Load, Run, Leave, Write, Count,
                  Acknowledge, Dies, Editing, AddStep, DeleteStep, Toggle, Destroy
    <2>2. \A e \in Enrollments : Active(e)' => Active(e)
      BY <1>2, NoneRevived DEF Enrolling
    <2> QED BY <2>1, <2>2, QuietSingle
  <1>3. CASE UNCHANGED vars
    BY <1>3, QuietSingle DEF vars, Active
  <1> QED BY <1>1, <1>2, <1>3

(* Where triggers fire one after the other, a contact is never in the      *)
(* workflow twice at the same time: enroll's look-up is all there is to    *)
(* see to it.                                                              *)
THEOREM EnrolledOnce ==
  ASSUME OneTrigger
  PROVE  Spec => []OneActive
  <1>1. Init => TypeOK /\ Held /\ Single
    BY InitHeld, InitSingle
  <1>2. (TypeOK /\ Held /\ Single) /\ [Next]_vars => (TypeOK /\ Held /\ Single)'
    BY StepType, StepSingle
  <1>3. Single => OneActive
    BY DEF Single
  <1> QED BY <1>1, <1>2, <1>3, PTL DEF Spec

-----------------------------------------------------------------------------
(* A queue that is empty when the scheduler ticks.  Then an enrollment has *)
(* one job at most, the row that job holds is the row in the database, up  *)
(* to the time of the next run, and a step that was gone through and whose *)
(* job did not get to write is paid for by a death.                        *)

Drained == ~Backlog

Alone ==
  /\ \A j, k \in Jobs :
       jobs[j] # NoJob /\ jobs[k] # NoJob /\ jobs[j].e = jobs[k].e => j = k
  /\ \A j \in Jobs : jobs[j] # NoJob => jobs[j].e \notin due

Fresh ==
  \A j \in Jobs : At(j, "loaded") \/ At(j, "ran") =>
    \/ rows[jobs[j].e].status = "gone"
    \/ /\ rows[jobs[j].e].status = "active"
       /\ rows[jobs[j].e].position = jobs[j].row.position

\* A job of e has gone through the step and not written the row yet.
Running(e) == \E j \in Jobs : At(j, "ran") /\ jobs[j].e = e

Once ==
  /\ StepsOnce
  /\ \A e \in Enrollments : rows[e].status = "none" =>
       \A p \in Positions : times[e][p] = 0
  /\ \A e \in Enrollments : Active(e) =>
       \A p \in Positions : p > rows[e].position => times[e][p] = 0
  /\ \A e \in Enrollments : Active(e) /\ ~Running(e) =>
       times[e][rows[e].position] <= died[e]
  /\ \A e \in Enrollments : rows[e].status = "gone" => wf = "gone"

Uncounted ==
  /\ CountedOnce
  /\ \A e \in Enrollments : rows[e].status \in {"none", "active"} => counted[e] = 0
  /\ \A j \in Jobs : At(j, "loaded") \/ At(j, "ran") \/ At(j, "counting") =>
       counted[jobs[j].e] = 0
  /\ \A j \in Jobs : At(j, "counting") => ~Active(jobs[j].e)

\* No worker is killed between a job's last write and its acknowledgement.
Acknowledged == "done" \notin Deaths

OnTime(e) == Active(e) => rows[e].next = "due"

Punctual ==
  /\ \A e \in due : OnTime(e)
  /\ \A j \in Jobs : At(j, "queued") \/ At(j, "loaded") \/ At(j, "ran") =>
       OnTime(jobs[j].e)
  /\ \A j \in Jobs : At(j, "loaded") => jobs[j].row.next = "due"

LEMMA InitDrained ==
  ASSUME Init
  PROVE  Alone /\ Fresh /\ Once /\ Uncounted /\ Punctual
  <1>1. Alone /\ Fresh
    BY DEF Init, Alone, Fresh, At, NoJob
  <1>2. Once
    BY DEF Init, Once, StepsOnce, Active, NotInserted
  <1>3. Uncounted
    BY DEF Init, Uncounted, CountedOnce, At, NoJob
  <1>4. Punctual
    BY DEF Init, Punctual, At, NoJob
  <1> QED BY <1>1, <1>2, <1>3, <1>4

LEMMA MovedAlone ==
  ASSUME TypeOK, Alone, NEW j \in Jobs, NEW row, NEW goal, NEW stage,
         Moved(j, row, goal, stage), due' = due
  PROVE  Alone'
  <1>1. jobs[j] # NoJob
    BY StagesOfJobs DEF Moved
  <1> QED BY <1>1 DEF Alone, Moved

LEMMA PlacedAlone ==
  ASSUME TypeOK, Alone, NEW j \in Jobs, NEW job, Placed(j, job), due' \subseteq due,
         job # NoJob => \/ jobs[j] # NoJob /\ job.e = jobs[j].e
                        \/ /\ \A k \in Jobs : jobs[k] # NoJob => jobs[k].e # job.e
                           /\ job.e \notin due'
  PROVE  Alone'
  BY DEF Alone, Placed

LEMMA StepAlone ==
  ASSUME TypeOK, Drained, Alone, [Next]_vars
  PROVE  Alone'
  <1>1. ASSUME NEW t \in Triggers, Enrolling(t) PROVE Alone'
    BY <1>1 DEF Enrolling, Fire, Refuse, LookUp, Enroll, EnrollFails, Alone
  <1>2. Tick => Alone'
    BY DEF Tick, Drained, Alone
  <1>3. ASSUME NEW e \in Enrollments, NEW j \in Jobs, Dispatch(e, j) PROVE Alone'
    <2>1. Queued(e, 1).e = e
      BY DEF Queued
    <2>2. e \in due /\ due' = due \ {e}
      BY <1>3 DEF Dispatch
    <2>3. \A k \in Jobs : jobs[k] # NoJob => jobs[k].e # e
      BY <2>2 DEF Alone
    <2> QED BY <1>3, <2>1, <2>2, <2>3, DispatchPlaces, PlacedAlone
  <1>4. ASSUME NEW e \in Enrollments, DelayPasses(e) PROVE Alone'
    BY <1>4 DEF DelayPasses, Alone
  <1>5. ASSUME NEW j \in Jobs, Work(j) \/ Dies(j) PROVE Alone'
    <2>1. due' = due
      BY <1>5 DEF Work, Load, Run, Leave, Write, Count, Acknowledge, Dies
    <2>2. CASE Load(j)
      BY <2>1, <2>2, LoadMoves, MovedAlone
    <2>3. CASE Run(j)
      BY <2>1, <2>3, RunMoves, MovedAlone
    <2>4. CASE Leave(j)
      BY <2>1, <2>4, LeaveMoves, MovedAlone
    <2>5. CASE Write(j)
      BY <2>1, <2>5, WriteMoves, MovedAlone
    <2>6. CASE Count(j)
      BY <2>1, <2>6, CountMoves, MovedAlone
    <2>7. CASE Acknowledge(j)
      BY <2>1, <2>7, AcknowledgePlaces, PlacedAlone
    <2>8. CASE Dies(j)
      <3>1. jobs[j] # NoJob /\ \A n : Queued(jobs[j].e, n).e = jobs[j].e
        BY <2>8 DEF Dies, Queued
      <3> QED BY <2>1, <2>8, <3>1, DiesPlaces, PlacedAlone
    <2> QED BY <1>5, <2>2, <2>3, <2>4, <2>5, <2>6, <2>7, <2>8 DEF Work
  <1>6. Editing => Alone'
    BY DEF Editing, AddStep, DeleteStep, Toggle, Destroy, Alone
  <1>7. UNCHANGED vars => Alone'
    BY DEF vars, Alone
  <1> QED BY <1>1, <1>2, <1>3, <1>4, <1>5, <1>6, <1>7 DEF Next

-----------------------------------------------------------------------------
(* The row a job holds.                                                    *)

\* A step that touches the rows only as Fresh does not mind.
Undisturbed(e) ==
  \/ rows'[e].status = "gone"
  \/ rows'[e].status = rows[e].status /\ rows'[e].position = rows[e].position

LEMMA MovedFresh ==
  ASSUME TypeOK, Alone, Fresh, NEW j \in Jobs, NEW row, NEW goal, NEW stage,
         Moved(j, row, goal, stage),
         \A f \in Enrollments \ {jobs[j].e} : rows'[f] = rows[f],
         stage \in {"loaded", "ran"} =>
           \/ rows'[jobs[j].e].status = "gone"
           \/ /\ rows'[jobs[j].e].status = "active"
              /\ rows'[jobs[j].e].position = row.position
  PROVE  Fresh'
  <1> SUFFICES ASSUME NEW k \in Jobs, (At(k, "loaded") \/ At(k, "ran"))'
               PROVE  (\/ rows[jobs[k].e].status = "gone"
                       \/ /\ rows[jobs[k].e].status = "active"
                          /\ rows[jobs[k].e].position = jobs[k].row.position)'
    BY DEF Fresh
  <1>1. CASE k = j
    BY <1>1 DEF Moved, At
  <1>2. CASE k # j
    <2>1. jobs'[k] = jobs[k] /\ jobs[k] # NoJob /\ jobs[j] # NoJob
      BY <1>2, StagesOfJobs DEF Moved, At
    <2>2. jobs[k].e \in Enrollments \ {jobs[j].e}
      BY <1>2, <2>1, JobIsThere, StagesOfJobs DEF Alone
    <2> QED BY <2>1, <2>2 DEF Fresh, At
  <1> QED BY <1>1, <1>2

LEMMA PlacedFresh ==
  ASSUME Fresh, rows' = rows, NEW j \in Jobs, NEW job, Placed(j, job),
         job.stage \notin {"loaded", "ran"}
  PROVE  Fresh'
  BY DEF Fresh, Placed, At

LEMMA QuietFresh ==
  ASSUME TypeOK, Fresh, jobs' = jobs,
         \A k \in Jobs : jobs[k] # NoJob => Undisturbed(jobs[k].e)
  PROVE  Fresh'
  BY DEF Fresh, At, Undisturbed

LEMMA StepFresh ==
  ASSUME TypeOK, Held, Known, Alone, Fresh, [Next]_vars
  PROVE  Fresh'
  <1>1. ASSUME NEW t \in Triggers, Enrolling(t) PROVE Fresh'
    <2>1. CASE \E e \in Enrollments : Enroll(t, e)
      <3>1. PICK e \in Enrollments : Enroll(t, e)
        BY <2>1
      <3>2. \A k \in Jobs : jobs[k] # NoJob => jobs[k].e # e /\ jobs[k].e \in Enrollments
        BY <3>1, JobIsThere, StagesOfJobs DEF Known, Enroll, NotInserted
      <3>3. \A k \in Jobs : jobs[k] # NoJob => Undisturbed(jobs[k].e)
        BY <3>1, <3>2 DEF Enroll, TypeOK, Undisturbed
      <3> QED BY <3>1, <3>3, QuietFresh DEF Enroll
    <2>2. CASE ~\E e \in Enrollments : Enroll(t, e)
      BY <1>1, <2>2, QuietFresh
      DEF Enrolling, Fire, Refuse, LookUp, EnrollFails, Undisturbed
    <2> QED BY <2>1, <2>2
  <1>2. Tick => Fresh'
    BY QuietFresh DEF Tick, Undisturbed
  <1>3. ASSUME NEW e \in Enrollments, NEW j \in Jobs, Dispatch(e, j) PROVE Fresh'
    <2>1. Queued(e, 1).stage \notin {"loaded", "ran"}
      BY DEF Queued
    <2> QED BY <1>3, <2>1, DispatchPlaces, PlacedFresh DEF Dispatch
  <1>4. ASSUME NEW e \in Enrollments, DelayPasses(e) PROVE Fresh'
    <2>1. rows[e] \in Row
      BY DEF TypeOK
    <2>2. \A f \in Enrollments : Undisturbed(f)
      BY <1>4, <2>1 DEF DelayPasses, TypeOK, Row, Undisturbed
    <2>3. \A k \in Jobs : jobs[k] # NoJob => jobs[k].e \in Enrollments
      BY JobIsThere, StagesOfJobs
    <2> QED BY <1>4, <2>2, <2>3, QuietFresh DEF DelayPasses
  <1>5. ASSUME NEW j \in Jobs, Work(j) \/ Dies(j) PROVE Fresh'
    <2>1. CASE Load(j)
      BY <2>1, LoadMoves, MovedFresh DEF Load
    <2>2. CASE Run(j)
      BY <2>2, RunMoves, MovedFresh DEF Run, Fresh
    <2>3. CASE Leave(j)
      BY <2>3, LeaveMoves, MovedFresh DEF Leave, Fresh
    <2>4. CASE Write(j)
      <3>1. (IF jobs[j].goal = "complete" THEN "counting" ELSE "done")
              \notin {"loaded", "ran"}
        OBVIOUS
      <3> QED BY <2>4, <3>1, WriteLeaves, WriteMoves, MovedFresh
    <2>5. CASE Count(j)
      BY <2>5, CountMoves, MovedFresh DEF Count
    <2>6. CASE Acknowledge(j)
      <3>1. NoJob.stage \notin {"loaded", "ran"}
        BY DEF NoJob
      <3> QED BY <2>6, <3>1, AcknowledgePlaces, PlacedFresh DEF Acknowledge
    <2>7. CASE Dies(j)
      <3>1. /\ NoJob.stage \notin {"loaded", "ran"}
            /\ \A n : Queued(jobs[j].e, n).stage \notin {"loaded", "ran"}
        BY DEF NoJob, Queued
      <3> QED BY <2>7, <3>1, DiesPlaces, PlacedFresh DEF Dies
    <2> QED BY <1>5, <2>1, <2>2, <2>3, <2>4, <2>5, <2>6, <2>7 DEF Work
  <1>6. Editing => Fresh'
    <2>1. \A k \in Jobs : jobs[k] # NoJob =>
            jobs[k].e \in Enrollments /\ rows[jobs[k].e].status # "none"
      BY JobIsThere, StagesOfJobs DEF Known
    <2>2. Destroy => Fresh'
      BY <2>1, QuietFresh DEF Destroy, Undisturbed, Gone
    <2>3. ASSUME NEW p \in Positions, AddStep(p) \/ DeleteStep(p) \/ Toggle PROVE Fresh'
      BY <2>3, QuietFresh DEF AddStep, DeleteStep, Toggle, Undisturbed
    <2>4. Toggle => Fresh'
      BY QuietFresh DEF Toggle, Undisturbed
    <2> QED BY <2>2, <2>3, <2>4 DEF Editing
  <1>7. UNCHANGED vars => Fresh'
    BY DEF vars, Fresh, At
  <1> QED BY <1>1, <1>2, <1>3, <1>4, <1>5, <1>6, <1>7 DEF Next

-----------------------------------------------------------------------------
(* How often a step is gone through.                                       *)

LEMMA QuietOnce ==
  ASSUME TypeOK, Once, times' = times, died' = died,
         \A e \in Enrollments : rows'[e].status = "none" => rows[e].status = "none",
         \A e \in Enrollments : rows'[e].status = "active" =>
           /\ Active(e)
           /\ rows'[e].position = rows[e].position
           /\ Running(e) => Running(e)',
         \A e \in Enrollments : rows'[e].status = "gone" => wf' = "gone"
  PROVE  Once'
  BY DEF Once, StepsOnce, Active

LEMMA MovedRunning ==
  ASSUME NEW j \in Jobs, NEW row, NEW goal, NEW stage, Moved(j, row, goal, stage),
         ~At(j, "ran")
  PROVE  \A e \in Enrollments : Running(e) => Running(e)'
  <1> SUFFICES ASSUME NEW e \in Enrollments, NEW k \in Jobs, At(k, "ran"), jobs[k].e = e
               PROVE  Running(e)'
    BY DEF Running
  <1>1. k # j
    OBVIOUS
  <1>2. jobs'[k] = jobs[k]
    BY <1>1 DEF Moved
  <1> QED BY <1>2 DEF Running, At

LEMMA PlacedRunning ==
  ASSUME NEW j \in Jobs, NEW job, Placed(j, job), ~At(j, "ran")
  PROVE  \A e \in Enrollments : Running(e) => Running(e)'
  <1> SUFFICES ASSUME NEW e \in Enrollments, NEW k \in Jobs, At(k, "ran"), jobs[k].e = e
               PROVE  Running(e)'
    BY DEF Running
  <1>1. k # j
    OBVIOUS
  <1>2. jobs'[k] = jobs[k]
    BY <1>1 DEF Placed
  <1> QED BY <1>2 DEF Running, At

LEMMA EnrollOnce ==
  ASSUME TypeOK, Known, Once, NEW t \in Triggers, NEW e \in Enrollments, Enroll(t, e)
  PROVE  Once'
  <1>1. /\ rows[e].status = "none"
        /\ rows'[e].status = "active" /\ rows'[e].position = 0
        /\ \A f \in Enrollments \ {e} : rows'[f] = rows[f]
    BY DEF Enroll, TypeOK, NotInserted, Inserted
  <1>2. times' = times /\ died' = died /\ jobs' = jobs /\ wf' = wf
    BY DEF Enroll, workflow
  <1>3. \A p \in Positions : times[e][p] = 0
    BY <1>1 DEF Once
  <1>4. 0 \in Positions /\ died[e] \in Nat
    BY WorkflowsAssumption DEF Positions, TypeOK
  <1>5. \A f \in Enrollments : Running(f)' <=> Running(f)
    BY <1>2 DEF Running, At
  <1>6. StepsOnce'
    BY <1>2 DEF Once, StepsOnce
  <1>7. \A f \in Enrollments : (rows[f].status = "none")' =>
          \A p \in Positions : times'[f][p] = 0
    BY <1>1, <1>2 DEF Once
  <1>8. \A f \in Enrollments : Active(f)' =>
          \A p \in Positions : p > rows'[f].position => times'[f][p] = 0
    BY <1>1, <1>2, <1>3 DEF Once, Active
  <1>9. \A f \in Enrollments : Active(f)' /\ ~Running(f)' =>
          times'[f][rows'[f].position] <= died'[f]
    BY <1>1, <1>2, <1>3, <1>4, <1>5 DEF Once, Active
  <1>10. \A f \in Enrollments : rows'[f].status = "gone" => wf' = "gone"
    BY <1>1, <1>2 DEF Once
  <1> QED BY <1>6, <1>7, <1>8, <1>9, <1>10 DEF Once

LEMMA RunOnce ==
  ASSUME TypeOK, Known, Alone, Fresh, Once, NEW j \in Jobs, Run(j)
  PROVE  Once'
  <1> DEFINE e == jobs[j].e
             p == jobs[j].row.position
  <1>1. /\ e \in Enrollments /\ p \in Positions
        /\ \A f \in Enrollments, q \in Positions :
             f # e \/ q # p => times'[f][q] = times[f][q]
        /\ p \in steps => times'[e][p] = times[e][p] + 1
    BY RunRemembers
  <1>2. rows' = rows /\ died' = died /\ wf' = wf /\ wf # "gone"
    BY DEF Run, workflow
  <1>3. rows[e].status = "active" /\ rows[e].position = p
    BY <1>1, <1>2 DEF Run, Fresh, Once
  <1>4. ~Running(e)
    <2>1. \A k \in Jobs : At(k, "ran") => jobs[k].e # e
      BY DEF Alone, Run, At
    <2> QED BY <2>1 DEF Running
  <1>5. times[e][p] <= died[e] /\ times[e][p] \in Nat /\ died[e] \in Nat
    BY <1>1, <1>3, <1>4 DEF Once, Active, TypeOK
  <1>6. times'[e][p] <= 1 + died[e]
    <2>1. p \notin steps => times'[e][p] = times[e][p]
      BY DEF Run
    <2> QED BY <1>1, <1>5, <2>1
  <1>7. \A f \in Enrollments : Running(f) => Running(f)'
    BY RunMoves, MovedRunning DEF Run, At
  <1>8. \A f \in Enrollments : f = e => Running(f)'
    <2>1. At(j, "ran")' /\ jobs'[j].e = e
      BY RunMoves, StagesOfJobs DEF Moved, At
    <2> QED BY <2>1 DEF Running
  <1>9. StepsOnce'
    BY <1>1, <1>2, <1>6 DEF Once, StepsOnce
  <1>10. \A f \in Enrollments : (rows[f].status = "none")' =>
           \A q \in Positions : times'[f][q] = 0
    BY <1>1, <1>2, <1>3 DEF Once
  <1>11. \A f \in Enrollments : Active(f)' =>
           \A q \in Positions : q > rows'[f].position => times'[f][q] = 0
    <2> SUFFICES ASSUME NEW f \in Enrollments, Active(f), NEW q \in Positions,
                        q > rows[f].position
                 PROVE  times'[f][q] = 0
      BY <1>2 DEF Active
    <2>1. f # e \/ q # p
      BY <1>1, <1>3, PositionsAreNaturals
    <2> QED BY <1>1, <2>1 DEF Once
  <1>12. \A f \in Enrollments : Active(f)' /\ ~Running(f)' =>
           times'[f][rows'[f].position] <= died'[f]
    <2> SUFFICES ASSUME NEW f \in Enrollments, Active(f), ~Running(f), f # e
                 PROVE  times'[f][rows[f].position] <= died[f]
      <3>1. \A f \in Enrollments : ~Running(f)' => ~Running(f) /\ f # e
        BY <1>7, <1>8
      <3>2. \A f \in Enrollments : Active(f)' <=> Active(f)
        BY <1>2 DEF Active
      <3> QED BY <1>2, <3>1, <3>2
    <2>1. rows[f].position \in Positions
      BY DEF TypeOK, Row
    <2> QED BY <1>1, <2>1 DEF Once
  <1> QED BY <1>2, <1>9, <1>10, <1>11, <1>12 DEF Once

LEMMA WriteOnce ==
  ASSUME TypeOK, Held, Known, Alone, Fresh, Once, NEW j \in Jobs, Write(j)
  PROVE  Once'
  <1> DEFINE e == jobs[j].e
             p == jobs[j].row.position
  <1>1. /\ e \in Enrollments /\ jobs[j].row \in Row /\ rows[e] \in Row
        /\ p \in Positions /\ p \in Nat
    BY JobIsThere, StagesOfJobs, PositionsAreNaturals DEF Write, At, TypeOK, Row
  <1>2. times' = times /\ died' = died /\ wf' = wf
    BY DEF Write, history, workflow
  <1>3. /\ jobs[j].goal \in {"next", "complete", "exit"}
        /\ \A f \in Enrollments \ {e} : rows'[f] = rows[f]
    BY WriteLeaves
  <1>4. \A f \in Enrollments \ {e} : Running(f) => Running(f)'
    <2> SUFFICES ASSUME NEW f \in Enrollments \ {e}, NEW k \in Jobs, At(k, "ran"),
                        jobs[k].e = f
                 PROVE  Running(f)'
      BY DEF Running
    <2>1. jobs'[k] = jobs[k]
      BY WriteMoves DEF Moved
    <2> QED BY <2>1 DEF Running, At
  <1>5. \/ rows'[e] = rows[e] /\ rows[e].status = "gone"
        \/ /\ rows[e].status = "active" /\ rows[e].position = p
           /\ rows'[e] = Written(rows[e], jobs[j].row, jobs[j].goal)
    <2>1. \/ rows[e].status = "gone"
          \/ rows[e].status = "active" /\ rows[e].position = p
      BY DEF Write, Fresh
    <2>2. rows[e].status = "gone" => rows'[e] = rows[e]
      BY DEF Write
    <2> QED BY <2>1, <2>2, WriteLeaves, <1>1 DEF Write, TypeOK
  <1>6. CASE rows[e].status = "gone" \/ jobs[j].goal # "next"
    <2>1. rows'[e].status \notin {"none", "active"}
      BY <1>1, <1>3, <1>5, <1>6, WrittenFields
    <2>2. rows'[e].status = "gone" => rows[e].status = "gone"
      BY <1>1, <1>3, <1>5, <1>6, WrittenFields
    <2> QED BY <1>1, <1>2, <1>3, <1>4, <2>1, <2>2, QuietOnce DEF Active, Once
  <1>7. CASE rows[e].status # "gone" /\ jobs[j].goal = "next"
    <2>1. /\ rows[e].status = "active" /\ rows[e].position = p
          /\ rows'[e].status = "active" /\ rows'[e].position = p + 1
      BY <1>1, <1>3, <1>5, <1>7, WrittenFields
    <2>2. p + 1 \in Positions
      BY <1>7 DEF Held, Write
    <2>3. \A q \in Positions : q > p => times[e][q] = 0
      BY <1>1, <2>1 DEF Once, Active
    <2>4. died[e] \in Nat /\ times[e][p + 1] = 0
      BY <1>1, <2>2, <2>3 DEF TypeOK
    <2>5. StepsOnce'
      BY <1>2 DEF Once, StepsOnce
    <2>6. \A f \in Enrollments : (rows[f].status = "none")' =>
            \A q \in Positions : times'[f][q] = 0
      BY <1>2, <1>3, <2>1 DEF Once
    <2>7. \A q \in Positions : q > p + 1 => times[e][q] = 0
      BY <1>1, <2>3, PositionsAreNaturals
    <2>8. \A f \in Enrollments : Active(f)' =>
            \A q \in Positions : q > rows'[f].position => times'[f][q] = 0
      BY <1>2, <1>3, <2>1, <2>7 DEF Once, Active
    <2>9. \A f \in Enrollments : Active(f)' /\ ~Running(f)' =>
            times'[f][rows'[f].position] <= died'[f]
      <3> SUFFICES ASSUME NEW f \in Enrollments, Active(f)', ~Running(f)'
                   PROVE  times[f][rows'[f].position] <= died[f]
        BY <1>2
      <3>1. CASE f = e
        BY <2>1, <2>4, <3>1
      <3>2. CASE f # e
        BY <1>3, <1>4, <3>2 DEF Once, Active
      <3> QED BY <3>1, <3>2
    <2>10. \A f \in Enrollments : rows'[f].status = "gone" => wf' = "gone"
      BY <1>2, <1>3, <2>1 DEF Once
    <2> QED BY <2>5, <2>6, <2>8, <2>9, <2>10 DEF Once
  <1> QED BY <1>6, <1>7

LEMMA DiesOnce ==
  ASSUME TypeOK, Once, NEW j \in Jobs, Dies(j)
  PROVE  Once'
  <1> DEFINE e == jobs[j].e
  <1>1. e \in Enrollments /\ jobs[j] # NoJob
    BY JobIsThere, StagesOfJobs DEF Dies
  <1>2. /\ times' = times /\ rows' = rows /\ wf' = wf
        /\ died[e] \in Nat /\ died'[e] = died[e] + 1
        /\ \A f \in Enrollments \ {e} : died'[f] = died[f]
    BY <1>1 DEF Dies, TypeOK, workflow
  <1>3. StepsOnce'
    <2> SUFFICES ASSUME NEW f \in Enrollments, NEW p \in Positions
                 PROVE  times[f][p] <= 1 + died'[f]
      BY <1>2 DEF StepsOnce
    <2>1. times[f][p] \in Nat /\ times[f][p] <= 1 + died[f] /\ died[f] \in Nat
      BY DEF Once, StepsOnce, TypeOK
    <2> QED BY <1>2, <2>1
  <1>4. \A f \in Enrollments : Active(f) /\ ~Running(f)' =>
          times[f][rows[f].position] <= died'[f]
    <2> SUFFICES ASSUME NEW f \in Enrollments, Active(f), ~Running(f)'
                 PROVE  times[f][rows[f].position] <= died'[f]
      OBVIOUS
    <2>1. rows[f].position \in Positions
      BY DEF TypeOK, Row
    <2>2. CASE f = e
      <3>1. times[e][rows[e].position] <= 1 + died[e]
        BY <1>1, <2>1, <2>2 DEF Once, StepsOnce
      <3> QED BY <1>2, <2>2, <3>1
    <2>3. CASE f # e
      <3>1. ~Running(f)
        <4> SUFFICES ASSUME NEW k \in Jobs, At(k, "ran"), jobs[k].e = f
                     PROVE  FALSE
          BY DEF Running
        <4>1. jobs'[k] = jobs[k]
          BY <2>3, DiesPlaces DEF Placed
        <4> QED BY <4>1 DEF Running, At
      <3> QED BY <1>2, <2>3, <3>1 DEF Once
    <2> QED BY <2>2, <2>3
  <1>5. \A f \in Enrollments : Active(f)' <=> Active(f)
    BY <1>2 DEF Active
  <1>6. \A f \in Enrollments : Active(f)' =>
          \A q \in Positions : q > rows'[f].position => times'[f][q] = 0
    BY <1>2, <1>5 DEF Once
  <1>7. /\ \A f \in Enrollments : (rows[f].status = "none")' =>
             \A q \in Positions : times'[f][q] = 0
        /\ \A f \in Enrollments : rows'[f].status = "gone" => wf' = "gone"
    BY <1>2 DEF Once
  <1>8. \A f \in Enrollments : Active(f)' /\ ~Running(f)' =>
          times'[f][rows'[f].position] <= died'[f]
    BY <1>2, <1>4, <1>5
  <1> QED BY <1>3, <1>6, <1>7, <1>8 DEF Once

LEMMA StepOnce ==
  ASSUME TypeOK, Held, Known, Alone, Fresh, Once, [Next]_vars
  PROVE  Once'
  <1>1. ASSUME times' = times, died' = died, rows' = rows, wf' = wf,
               \A e \in Enrollments : Running(e) => Running(e)'
        PROVE  Once'
    BY <1>1, QuietOnce DEF Active, Once
  <1>2. ASSUME jobs' = jobs PROVE \A e \in Enrollments : Running(e) => Running(e)'
    BY <1>2 DEF Running, At
  <1>3. ASSUME NEW t \in Triggers, Enrolling(t) PROVE Once'
    <2>1. CASE \E e \in Enrollments : Enroll(t, e)
      BY <2>1, EnrollOnce
    <2>2. CASE ~\E e \in Enrollments : Enroll(t, e)
      BY <1>1, <1>2, <1>3, <2>2
      DEF Enrolling, Fire, Refuse, LookUp, EnrollFails, workflow, history
    <2> QED BY <2>1, <2>2
  <1>4. Tick => Once'
    BY <1>1, <1>2 DEF Tick, workflow, history
  <1>5. ASSUME NEW e \in Enrollments, NEW j \in Jobs, Dispatch(e, j) PROVE Once'
    <2>1. \A f \in Enrollments : Running(f) => Running(f)'
      BY <1>5, DispatchPlaces, PlacedRunning DEF Dispatch, At
    <2> QED BY <1>1, <1>5, <2>1 DEF Dispatch, workflow, history
  <1>6. ASSUME NEW e \in Enrollments, DelayPasses(e) PROVE Once'
    <2>1. rows[e] \in Row
      BY DEF TypeOK
    <2>2. \A f \in Enrollments : /\ rows'[f].status = rows[f].status
                                 /\ rows'[f].position = rows[f].position
      BY <1>6, <2>1 DEF DelayPasses, TypeOK, Row
    <2> QED BY <1>2, <1>6, <2>2, QuietOnce DEF DelayPasses, workflow, history, Active, Once
  <1>7. ASSUME NEW j \in Jobs, Work(j) \/ Dies(j) PROVE Once'
    <2>1. CASE Run(j)
      BY <2>1, RunOnce
    <2>2. CASE Write(j)
      BY <2>2, WriteOnce
    <2>3. CASE Dies(j)
      BY <2>3, DiesOnce
    <2>4. CASE Load(j) \/ Leave(j) \/ Count(j) \/ Acknowledge(j)
      <3>1. ~At(j, "ran")
        BY <2>4 DEF Load, Leave, Count, Acknowledge, At
      <3>2. \A e \in Enrollments : Running(e) => Running(e)'
        BY <2>4, <3>1, LoadMoves, LeaveMoves, CountMoves, AcknowledgePlaces,
           MovedRunning, PlacedRunning
      <3> QED BY <1>1, <2>4, <3>2 DEF Load, Leave, Count, Acknowledge, workflow, history
    <2> QED BY <1>7, <2>1, <2>2, <2>3, <2>4 DEF Work
  <1>8. Editing => Once'
    <2>1. ASSUME NEW p \in Positions, AddStep(p) PROVE Once'
      BY <1>1, <1>2, <2>1 DEF AddStep, history
    <2>2. ASSUME NEW p \in Positions, DeleteStep(p) PROVE Once'
      BY <1>1, <1>2, <2>2 DEF DeleteStep
    <2>3. Toggle => Once'
      <3>1. Toggle => \A e \in Enrollments : rows'[e].status = "gone" => wf' = "gone"
        BY DEF Toggle, Once
      <3> QED BY <1>2, <3>1, QuietOnce DEF Toggle, history, Active
    <2>4. Destroy => Once'
      BY <1>2, QuietOnce DEF Destroy, Gone, Active
    <2> QED BY <2>1, <2>2, <2>3, <2>4 DEF Editing
  <1>9. UNCHANGED vars => Once'
    BY <1>1, <1>2 DEF vars
  <1> QED BY <1>3, <1>4, <1>5, <1>6, <1>7, <1>8, <1>9 DEF Next

-----------------------------------------------------------------------------
(* How often an enrollment is counted as completed.                        *)

LEMMA QuietUncounted ==
  ASSUME Uncounted, jobs' = jobs, counted' = counted,
         \A e \in Enrollments : rows'[e].status \in {"none", "active"} =>
           rows[e].status \in {"none", "active"},
         \A j \in Jobs : jobs[j] # NoJob /\ rows'[jobs[j].e].status = "active" =>
           rows[jobs[j].e].status = "active"
  PROVE  Uncounted'
  BY DEF Uncounted, CountedOnce, At, Active

LEMMA MovedUncounted ==
  ASSUME TypeOK, Alone, Uncounted, NEW j \in Jobs, NEW row, NEW goal, NEW stage,
         Moved(j, row, goal, stage),
         \A f \in Enrollments \ {jobs[j].e} :
           rows'[f] = rows[f] /\ counted'[f] = counted[f],
         counted'[jobs[j].e] <= 1,
         rows'[jobs[j].e].status \in {"none", "active"} => counted'[jobs[j].e] = 0,
         stage \in {"loaded", "ran", "counting"} => counted'[jobs[j].e] = 0,
         stage = "counting" => rows'[jobs[j].e].status # "active"
  PROVE  Uncounted'
  <1>1. jobs[j] # NoJob /\ jobs[j].e \in Enrollments
    BY StagesOfJobs DEF Moved
  <1>2. \A k \in Jobs \ {j} : jobs[k] # NoJob =>
          jobs'[k] = jobs[k] /\ jobs[k].e \in Enrollments \ {jobs[j].e}
    BY <1>1, JobIsThere, StagesOfJobs DEF Moved, Alone
  <1>3. CountedOnce'
    BY <1>1 DEF Uncounted, CountedOnce
  <1>4. \A f \in Enrollments : (rows[f].status \in {"none", "active"} => counted[f] = 0)'
    BY <1>1 DEF Uncounted
  <1>5. ASSUME NEW k \in Jobs, (At(k, "loaded") \/ At(k, "ran") \/ At(k, "counting"))'
        PROVE  counted'[jobs'[k].e] = 0
    <2>1. CASE k = j
      BY <1>5, <2>1 DEF Moved, At
    <2>2. CASE k # j
      <3>1. jobs'[k] = jobs[k] /\ jobs[k] # NoJob
        BY <1>5, <2>2 DEF Moved, At
      <3> QED BY <1>2, <1>5, <2>2, <3>1 DEF Uncounted, At
    <2> QED BY <2>1, <2>2
  <1>6. ASSUME NEW k \in Jobs, At(k, "counting")'
        PROVE  rows'[jobs'[k].e].status # "active"
    <2>1. CASE k = j
      BY <1>6, <2>1 DEF Moved, At
    <2>2. CASE k # j
      <3>1. jobs'[k] = jobs[k] /\ jobs[k] # NoJob
        BY <1>6, <2>2 DEF Moved, At
      <3> QED BY <1>2, <1>6, <2>2, <3>1 DEF Uncounted, At, Active
    <2> QED BY <2>1, <2>2
  <1> QED BY <1>3, <1>4, <1>5, <1>6 DEF Uncounted, Active

LEMMA PlacedUncounted ==
  ASSUME Uncounted, rows' = rows, counted' = counted, NEW j \in Jobs, NEW job,
         Placed(j, job), job.stage \notin {"loaded", "ran", "counting"}
  PROVE  Uncounted'
  BY DEF Uncounted, CountedOnce, Placed, At, Active

LEMMA WorkUncounted ==
  ASSUME TypeOK, Held, Known, Alone, Fresh, Uncounted, NEW j \in Jobs, Work(j) \/ Dies(j)
  PROVE  Uncounted'
  <1> DEFINE e == jobs[j].e
  <1>1. jobs[j] # NoJob /\ e \in Enrollments /\ rows[e].status # "none"
    BY JobIsThere, StagesOfJobs
    DEF Work, Load, Run, Leave, Write, Count, Acknowledge, Dies, At, Known
  <1>2. counted[e] <= 1 /\ counted[e] \in Nat
    BY <1>1 DEF Uncounted, CountedOnce, TypeOK
  <1>3. CASE Load(j)
    <2>1. rows[e].status = "active" => counted[e] = 0
      BY <1>1 DEF Uncounted
    <2> QED BY <1>1, <1>2, <1>3, <2>1, LoadMoves, MovedUncounted DEF Load, Uncounted
  <1>4. CASE Run(j)
    <2>1. counted[e] = 0
      BY <1>4 DEF Run, Uncounted
    <2> QED BY <1>2, <1>4, <2>1, RunMoves, MovedUncounted DEF Run
  <1>5. CASE Leave(j)
    <2>1. counted[e] = 0
      BY <1>5 DEF Leave, Uncounted
    <2> QED BY <1>2, <1>5, <2>1, LeaveMoves, MovedUncounted DEF Leave
  <1>6. CASE Write(j)
    <2>1. counted[e] = 0 /\ counted' = counted
      BY <1>6 DEF Write, Uncounted
    <2>2. jobs[j].row \in Row /\ rows[e] \in Row
      BY <1>1, JobIsThere, StagesOfJobs DEF TypeOK
    <2>3. jobs[j].goal = "complete" => rows'[e].status # "active"
      <3>1. rows[e].status = "gone" => rows'[e] = rows[e]
        BY <1>6 DEF Write
      <3>2. rows[e].status # "gone" =>
              rows'[e] = Written(rows[e], jobs[j].row, jobs[j].goal)
        BY <1>1, <1>6 DEF Write, TypeOK
      <3> QED BY <1>6, <2>2, <3>1, <3>2, WriteLeaves, WrittenFields
    <2>4. \A f \in Enrollments \ {e} : rows'[f] = rows[f]
      BY <1>6, WriteLeaves
    <2> QED BY <1>2, <1>6, <2>1, <2>3, <2>4, WriteMoves, MovedUncounted
  <1>7. CASE Count(j)
    <2>1. counted[e] = 0 /\ ~Active(e) /\ rows' = rows
      BY <1>7 DEF Count, Uncounted
    <2>2. /\ counted'[e] <= 1
          /\ \A f \in Enrollments \ {e} : counted'[f] = counted[f]
      BY <1>1, <1>7, <2>1 DEF Count, TypeOK
    <2> QED BY <1>1, <1>7, <2>1, <2>2, CountMoves, MovedUncounted DEF Active
  <1>8. CASE Acknowledge(j)
    <2>1. NoJob.stage \notin {"loaded", "ran", "counting"}
      BY DEF NoJob
    <2> QED BY <1>8, <2>1, AcknowledgePlaces, PlacedUncounted DEF Acknowledge
  <1>9. CASE Dies(j)
    <2>1. /\ NoJob.stage \notin {"loaded", "ran", "counting"}
          /\ \A n : Queued(jobs[j].e, n).stage \notin {"loaded", "ran", "counting"}
      BY DEF NoJob, Queued
    <2> QED BY <1>9, <2>1, DiesPlaces, PlacedUncounted DEF Dies
  <1> QED BY <1>3, <1>4, <1>5, <1>6, <1>7, <1>8, <1>9 DEF Work

LEMMA StepUncounted ==
  ASSUME TypeOK, Held, Known, Alone, Fresh, Uncounted, [Next]_vars
  PROVE  Uncounted'
  <1>1. ASSUME jobs' = jobs, counted' = counted, rows' = rows PROVE Uncounted'
    BY <1>1, QuietUncounted
  <1>2. ASSUME NEW t \in Triggers, Enrolling(t) PROVE Uncounted'
    <2>1. CASE \E e \in Enrollments : Enroll(t, e)
      <3>1. PICK e \in Enrollments : Enroll(t, e)
        BY <2>1
      <3>2. /\ rows[e].status = "none"
            /\ \A f \in Enrollments \ {e} : rows'[f] = rows[f]
        BY <3>1 DEF Enroll, TypeOK, NotInserted
      <3>3. \A k \in Jobs : jobs[k] # NoJob => jobs[k].e \in Enrollments \ {e}
        BY <3>2, JobIsThere, StagesOfJobs DEF Known
      <3> QED BY <3>1, <3>2, <3>3, QuietUncounted DEF Enroll
    <2>2. CASE ~\E e \in Enrollments : Enroll(t, e)
      BY <1>1, <1>2, <2>2 DEF Enrolling, Fire, Refuse, LookUp, EnrollFails
    <2> QED BY <2>1, <2>2
  <1>3. Tick => Uncounted'
    BY <1>1 DEF Tick
  <1>4. ASSUME NEW e \in Enrollments, NEW j \in Jobs, Dispatch(e, j) PROVE Uncounted'
    <2>1. Queued(e, 1).stage \notin {"loaded", "ran", "counting"}
      BY DEF Queued
    <2> QED BY <1>4, <2>1, DispatchPlaces, PlacedUncounted DEF Dispatch
  <1>5. \A k \in Jobs : jobs[k] # NoJob => jobs[k].e \in Enrollments
    BY JobIsThere, StagesOfJobs
  <1>6. ASSUME NEW e \in Enrollments, DelayPasses(e) PROVE Uncounted'
    <2>1. rows[e] \in Row
      BY DEF TypeOK
    <2>2. \A f \in Enrollments : rows'[f].status = rows[f].status
      BY <1>6, <2>1 DEF DelayPasses, TypeOK, Row
    <2> QED BY <1>5, <1>6, <2>2, QuietUncounted DEF DelayPasses
  <1>7. ASSUME NEW j \in Jobs, Work(j) \/ Dies(j) PROVE Uncounted'
    BY <1>7, WorkUncounted
  <1>8. Editing => Uncounted'
    <2>1. Destroy => Uncounted'
      BY <1>5, QuietUncounted DEF Destroy, Gone
    <2>2. (\E p \in Positions : AddStep(p) \/ DeleteStep(p)) \/ Toggle => Uncounted'
      BY <1>1 DEF AddStep, DeleteStep, Toggle
    <2> QED BY <2>1, <2>2 DEF Editing
  <1>9. UNCHANGED vars => Uncounted'
    BY <1>1 DEF vars
  <1> QED BY <1>2, <1>3, <1>4, <1>6, <1>7, <1>8, <1>9 DEF Next

-----------------------------------------------------------------------------
(* When a step may start.                                                  *)

LEMMA MovedPunctual ==
  ASSUME TypeOK, Alone, Punctual, NEW j \in Jobs, NEW row, NEW goal, NEW stage,
         Moved(j, row, goal, stage), due' = due,
         \A f \in Enrollments \ {jobs[j].e} : rows'[f] = rows[f],
         stage # "queued",
         stage \in {"loaded", "ran"} => rows' = rows /\ OnTime(jobs[j].e),
         stage = "loaded" => row.next = "due"
  PROVE  Punctual'
  <1>1. jobs[j] # NoJob /\ jobs[j].e \in Enrollments /\ jobs[j].e \notin due
    BY StagesOfJobs DEF Moved, Alone
  <1>2. \A k \in Jobs \ {j} : jobs[k] # NoJob =>
          jobs'[k] = jobs[k] /\ jobs[k].e \in Enrollments \ {jobs[j].e}
    BY <1>1, JobIsThere, StagesOfJobs DEF Moved, Alone
  <1>3. \A e \in due' : OnTime(e)'
    BY <1>1 DEF Punctual, OnTime, Active, TypeOK
  <1>4. ASSUME NEW k \in Jobs, (At(k, "queued") \/ At(k, "loaded") \/ At(k, "ran"))'
        PROVE  OnTime(jobs[k].e)'
    <2>1. CASE k = j
      <3>1. stage \in {"loaded", "ran"} /\ jobs'[k].e = jobs[j].e
        BY <1>4, <2>1 DEF Moved, At
      <3> QED BY <3>1 DEF OnTime, Active
    <2>2. CASE k # j
      <3>1. jobs'[k] = jobs[k] /\ jobs[k] # NoJob
        BY <1>4, <2>2 DEF Moved, At
      <3>2. rows'[jobs[k].e] = rows[jobs[k].e] /\ OnTime(jobs[k].e)
        BY <1>2, <1>4, <2>2, <3>1 DEF Punctual, At
      <3> QED BY <3>1, <3>2 DEF OnTime, Active
    <2> QED BY <2>1, <2>2
  <1>5. ASSUME NEW k \in Jobs, At(k, "loaded")' PROVE jobs'[k].row.next = "due"
    <2>1. CASE k = j
      BY <1>5, <2>1 DEF Moved, At
    <2>2. CASE k # j
      BY <1>5, <2>2 DEF Moved, At, Punctual
    <2> QED BY <2>1, <2>2
  <1> QED BY <1>3, <1>4, <1>5 DEF Punctual

LEMMA PlacedPunctual ==
  ASSUME Punctual, rows' = rows, NEW j \in Jobs, NEW job, Placed(j, job), due' \subseteq due,
         job # NoJob => job.stage = "queued" /\ OnTime(job.e)
  PROVE  Punctual'
  BY DEF Punctual, Placed, At, OnTime, Active, NoJob

LEMMA QuietPunctual ==
  ASSUME TypeOK, Punctual, jobs' = jobs,
         \A e \in due' : e \in due \/ OnTime(e),
         \A e \in Enrollments : OnTime(e) =>
           (rows'[e].status = "active" => rows'[e].next = "due"),
         due' \subseteq Enrollments
  PROVE  Punctual'
  <1>1. \A k \in Jobs : jobs[k] # NoJob => jobs[k].e \in Enrollments
    BY JobIsThere, StagesOfJobs
  <1> QED BY <1>1 DEF Punctual, At, OnTime, Active

LEMMA WorkPunctual ==
  ASSUME TypeOK, Held, Acknowledged, Known, Alone, Fresh, Uncounted, Punctual,
         NEW j \in Jobs, Work(j) \/ Dies(j)
  PROVE  Punctual'
  <1> DEFINE e == jobs[j].e
  <1>1. due' = due
    BY DEF Work, Load, Run, Leave, Write, Count, Acknowledge, Dies
  <1>2. CASE Load(j)
    <2>1. OnTime(e) /\ rows' = rows
      BY <1>2 DEF Load, Punctual
    <2>2. rows[e].status = "active" => rows[e].next = "due"
      BY <2>1 DEF OnTime, Active
    <2> QED BY <1>1, <1>2, <2>1, <2>2, LoadMoves, MovedPunctual
  <1>3. CASE Run(j)
    <2>1. OnTime(e) /\ rows' = rows
      BY <1>3 DEF Run, Punctual
    <2> QED BY <1>1, <1>3, <2>1, RunMoves, MovedPunctual
  <1>4. CASE Leave(j)
    <2>1. OnTime(e) /\ rows' = rows
      BY <1>4 DEF Leave, Punctual
    <2> QED BY <1>1, <1>4, <2>1, LeaveMoves, MovedPunctual
  <1>5. CASE Write(j)
    <2>1. (IF jobs[j].goal = "complete" THEN "counting" ELSE "done")
            \notin {"queued", "loaded", "ran"}
      OBVIOUS
    <2>2. \A f \in Enrollments \ {e} : rows'[f] = rows[f]
      BY <1>5, WriteLeaves
    <2> QED BY <1>1, <1>5, <2>1, <2>2, WriteMoves, MovedPunctual
  <1>6. CASE Count(j)
    BY <1>1, <1>6, CountMoves, MovedPunctual DEF Count
  <1>7. CASE Acknowledge(j)
    BY <1>1, <1>7, AcknowledgePlaces, PlacedPunctual DEF Acknowledge
  <1>8. CASE Dies(j)
    <2>1. \A n : Queued(e, n).stage = "queued" /\ Queued(e, n).e = e
      BY DEF Queued
    <2>2. OnTime(e)
      <3>1. jobs[j] \in Job /\ jobs[j].stage # "done"
        BY <1>8, DiesPlaces DEF Dies, Acknowledged
      <3>2. At(j, "queued") \/ At(j, "loaded") \/ At(j, "ran") \/ At(j, "counting")
        BY <1>8, <3>1 DEF Dies, At, Job, Stages
      <3> QED BY <3>2 DEF Punctual, Uncounted, OnTime
    <2> QED BY <1>1, <1>8, <2>1, <2>2, DiesPlaces, PlacedPunctual DEF Dies
  <1> QED BY <1>2, <1>3, <1>4, <1>5, <1>6, <1>7, <1>8 DEF Work

LEMMA StepPunctual ==
  ASSUME TypeOK, Held, Acknowledged, Known, Alone, Fresh, Uncounted, Punctual, [Next]_vars
  PROVE  Punctual'
  <1>1. ASSUME jobs' = jobs, rows' = rows, due' = due PROVE Punctual'
    BY <1>1, QuietPunctual DEF OnTime, Active, TypeOK
  <1>2. ASSUME NEW t \in Triggers, Enrolling(t) PROVE Punctual'
    <2>1. CASE \E e \in Enrollments : Enroll(t, e)
      <3>1. PICK e \in Enrollments : Enroll(t, e)
        BY <2>1
      <3>2. rows'[e].next = "due" /\ \A f \in Enrollments \ {e} : rows'[f] = rows[f]
        BY <3>1 DEF Enroll, TypeOK, Inserted
      <3> QED BY <3>1, <3>2, QuietPunctual DEF Enroll, OnTime, Active, TypeOK
    <2>2. CASE ~\E e \in Enrollments : Enroll(t, e)
      BY <1>1, <1>2, <2>2 DEF Enrolling, Fire, Refuse, LookUp, EnrollFails
    <2> QED BY <2>1, <2>2
  <1>3. Tick => Punctual'
    BY QuietPunctual DEF Tick, IsDue, OnTime, Active
  <1>4. ASSUME NEW e \in Enrollments, NEW j \in Jobs, Dispatch(e, j) PROVE Punctual'
    <2>1. Queued(e, 1).stage = "queued" /\ Queued(e, 1).e = e /\ OnTime(e)
      BY <1>4 DEF Queued, Dispatch, Punctual
    <2> QED BY <1>4, <2>1, DispatchPlaces, PlacedPunctual DEF Dispatch
  <1>5. ASSUME NEW e \in Enrollments, DelayPasses(e) PROVE Punctual'
    <2>1. rows[e] \in Row
      BY DEF TypeOK
    <2>2. rows'[e].next = "due" /\ \A f \in Enrollments \ {e} : rows'[f] = rows[f]
      BY <1>5, <2>1 DEF DelayPasses, TypeOK, Row
    <2> QED BY <1>5, <2>2, QuietPunctual DEF DelayPasses, OnTime, Active, TypeOK
  <1>6. ASSUME NEW j \in Jobs, Work(j) \/ Dies(j) PROVE Punctual'
    BY <1>6, WorkPunctual
  <1>7. Editing => Punctual'
    <2>1. Destroy => Punctual'
      BY QuietPunctual DEF Destroy, Gone, OnTime, Active, TypeOK
    <2>2. (\E p \in Positions : AddStep(p) \/ DeleteStep(p)) \/ Toggle => Punctual'
      BY <1>1 DEF AddStep, DeleteStep, Toggle
    <2> QED BY <2>1, <2>2 DEF Editing
  <1>8. UNCHANGED vars => Punctual'
    BY <1>1 DEF vars
  <1> QED BY <1>2, <1>3, <1>4, <1>5, <1>6, <1>7, <1>8 DEF Next

-----------------------------------------------------------------------------
(* The theorems about a drained queue.                                     *)

Exclusive == TypeOK /\ Held /\ Known /\ Alone /\ Fresh

LEMMA InitExclusive == Init => Exclusive
  BY InitHeld, InitKnown, InitDrained DEF Exclusive

LEMMA StepExclusive ==
  ASSUME Drained
  PROVE  Exclusive /\ [Next]_vars => Exclusive'
  <1> SUFFICES ASSUME Exclusive, [Next]_vars PROVE Exclusive'
    OBVIOUS
  <1>1. TypeOK' /\ Held'
    BY StepType DEF Exclusive
  <1>2. Known'
    <2>1. CASE Next
      BY <2>1, StepKnown DEF Exclusive
    <2>2. CASE UNCHANGED vars
      BY <2>2 DEF vars, Exclusive, Known
    <2> QED BY <2>1, <2>2
  <1>3. Alone' /\ Fresh'
    BY StepAlone, StepFresh DEF Exclusive
  <1> QED BY <1>1, <1>2, <1>3 DEF Exclusive

(* RunWorkflowStep's "a retry re-runs at most the same step", for a queue  *)
(* that is empty when the scheduler ticks: no step is gone through more    *)
(* often than once and once again for each job of the enrollment that      *)
(* died, wherever jobs die and however many tries they have.               *)
THEOREM StepsRunOnce ==
  ASSUME Drained
  PROVE  Spec => []StepsOnce
  <1>1. Init => Exclusive /\ Once
    BY InitExclusive, InitDrained
  <1>2. (Exclusive /\ Once) /\ [Next]_vars => (Exclusive /\ Once)'
    BY StepExclusive, StepOnce DEF Exclusive
  <1>3. Once => StepsOnce
    BY DEF Once
  <1> QED BY <1>1, <1>2, <1>3, PTL DEF Spec

(* There, an enrollment adds at most one to the workflow's completed_count.*)
THEOREM CompletionCountedOnce ==
  ASSUME Drained
  PROVE  Spec => []CountedOnce
  <1>1. Init => Exclusive /\ Uncounted
    BY InitExclusive, InitDrained
  <1>2. (Exclusive /\ Uncounted) /\ [Next]_vars => (Exclusive /\ Uncounted)'
    BY StepExclusive, StepUncounted DEF Exclusive
  <1>3. Uncounted => CountedOnce
    BY DEF Uncounted
  <1> QED BY <1>1, <1>2, <1>3, PTL DEF Spec

(* There, and if no worker is killed between a job's last write and its    *)
(* acknowledgement, no step starts before its delay has passed, although   *)
(* no job looks at next_run_at.                                            *)
THEOREM DelaysPass ==
  ASSUME Drained, Acknowledged
  PROVE  Spec => []NotEarly
  <1>1. Init => Exclusive /\ Uncounted /\ Punctual
    BY InitExclusive, InitDrained
  <1>2. (Exclusive /\ Uncounted /\ Punctual) /\ [Next]_vars
          => (Exclusive /\ Uncounted /\ Punctual)'
    BY StepExclusive, StepUncounted, StepPunctual DEF Exclusive
  <1>3. Punctual => NotEarly
    BY DEF Punctual, NotEarly
  <1> QED BY <1>1, <1>2, <1>3, PTL DEF Spec

(* There, an enrollment that ended stays ended and the pointer of one that *)
(* runs never moves back: the row a job writes to is the row it loaded.    *)
THEOREM PointerAdvances ==
  ASSUME Drained
  PROVE  Spec => NeverBack
  <1> DEFINE Forward == \A e \in Enrollments :
               Active(e)' /\ rows[e] # NotInserted =>
                 Active(e) /\ rows[e].position <= rows'[e].position
  <1>1. Init => Exclusive
    BY InitExclusive
  <1>2. Exclusive /\ [Next]_vars => Exclusive'
    BY StepExclusive
  <1>3. Exclusive /\ [Next]_vars => [Forward]_vars
    <2> SUFFICES ASSUME Exclusive, Next PROVE Forward
      OBVIOUS
    <2>1. \A e \in Enrollments : rows[e] \in Row /\ rows[e].position \in Nat
      BY PositionsAreNaturals DEF Exclusive, TypeOK, Row
    <2>2. ASSUME \A e \in Enrollments :
                   /\ rows'[e].status = "active" => rows[e].status = "active"
                   /\ rows'[e].position = rows[e].position \/ rows'[e].status # "active"
          PROVE  Forward
      BY <2>1, <2>2 DEF Active
    <2>3. ASSUME NEW t \in Triggers, Enrolling(t) PROVE Forward
      <3>1. CASE \E e \in Enrollments : Enroll(t, e)
        BY <2>1, <3>1 DEF Enroll, Exclusive, TypeOK, Active
      <3>2. CASE ~\E e \in Enrollments : Enroll(t, e)
        BY <2>2, <2>3, <3>2 DEF Enrolling, Fire, Refuse, LookUp, EnrollFails
      <3> QED BY <3>1, <3>2
    <2>4. ASSUME NEW e \in Enrollments, DelayPasses(e) PROVE Forward
      <3>1. \A f \in Enrollments : /\ rows'[f].status = rows[f].status
                                   /\ rows'[f].position = rows[f].position
        BY <2>1, <2>4 DEF DelayPasses, Exclusive, TypeOK, Row
      <3> QED BY <2>2, <3>1
    <2>5. ASSUME NEW j \in Jobs, Write(j) PROVE Forward
      <3> DEFINE e == jobs[j].e
      <3>1. e \in Enrollments /\ jobs[j].row \in Row /\ jobs[j].row.position \in Nat
        BY <2>5, JobIsThere, StagesOfJobs, PositionsAreNaturals
        DEF Write, At, Exclusive, Row
      <3>2. \/ rows[e].status = "gone" /\ rows'[e] = rows[e]
            \/ /\ rows[e].status = "active" /\ rows[e].position = jobs[j].row.position
               /\ rows'[e] = Written(rows[e], jobs[j].row, jobs[j].goal)
        <4>1. \/ rows[e].status = "gone"
              \/ rows[e].status = "active" /\ rows[e].position = jobs[j].row.position
          BY <2>5 DEF Write, Exclusive, Fresh
        <4>2. rows[e].status = "gone" => rows'[e] = rows[e]
          BY <2>5 DEF Write
        <4>3. rows[e].status # "gone" =>
                rows'[e] = Written(rows[e], jobs[j].row, jobs[j].goal)
          BY <2>5, <3>1 DEF Write, Exclusive, TypeOK
        <4> QED BY <4>1, <4>2, <4>3
      <3>3. /\ jobs[j].goal \in {"next", "complete", "exit"}
            /\ \A f \in Enrollments \ {e} : rows'[f] = rows[f]
        BY <2>5, WriteLeaves DEF Exclusive
      <3>4. rows'[e].status = "active" =>
              rows[e].status = "active" /\ rows[e].position <= rows'[e].position
        BY <2>1, <3>1, <3>2, <3>3, WrittenFields
      <3> QED BY <2>1, <3>3, <3>4 DEF Active
    <2>6. ASSUME NEW j \in Jobs, Work(j) \/ Dies(j) PROVE Forward
      BY <2>2, <2>5, <2>6 DEF Work, Load, Run, Leave, Count, Acknowledge, Dies
    <2>7. Editing => Forward
      BY <2>2 DEF Editing, AddStep, DeleteStep, Toggle, Destroy, Gone
    <2>8. Tick \/ (\E e \in Enrollments, j \in Jobs : Dispatch(e, j)) => Forward
      BY <2>2 DEF Tick, Dispatch
    <2> QED BY <2>3, <2>4, <2>6, <2>7, <2>8 DEF Next
  <1> QED BY <1>1, <1>2, <1>3, PTL DEF Spec, NeverBack

=============================================================================
