# A TLA+ verification of the Agentic Registrar backend

The repository is the backend of a university registrar: FastAPI services over
PostgreSQL (async SQLAlchemy), with LLM agents that advise and officers who
decide.  This directory holds TLA+ models of the services that change rows, TLC
configurations that check them on small instances, and theorems that the TLAPS
proof system checks for every instance.  `PROJECT.json` is the index: which
definition models which lines, what each run checks, which mutation of the code
each property detects, where the code disagrees with its documents, and which
hazards the properties are for.

Contents: 1 the system · 2 how requests are modelled · 3 the modules · 4 the
runs · 5 fairness · 6 the proofs · 7 what the models reach and no property
excludes · 8 what is not modelled · 9 the plan.

## 1. The system

All paths are under `src/app/`.  Every component keeps its state in PostgreSQL
tables, except PayMock (a map in the process).  Components call each other
in-process, within one database session per HTTP request; the only event bus
is in-process and synchronous.

| Component | State it keeps | Operations | What must be right |
|---|---|---|---|
| Grading (instructor), `modules/course/grading/service.py` | breakdown with components, batch per section and term, component scores, `Grade` rows, agent reviews | upsert breakdown, open batch, save or delete scores, submit, justify, reopen, rerun | what is official is what was scored; the log of reviews follows the iterations; a breakdown stays locked once scored |
| Grading (department head), `grading/dh_service.py` | the same rows, authorisation decisions | authorise, reject, rerun | nothing official without a recorded decision behind an agent review of that iteration |
| Letter scale, `modules/grading/letter_scale.py` | none | cut-offs, points | every total has exactly one letter |
| Academic standing, `modules/course/standing/service.py` | standing row per student and term, its history, decision fields | compute (agent), authorise, authorise in batch, override | a decided row is never recomputed; a held row needs a reason; history tells the row |
| Standing rules, `standing/rules.py` | none | first-match list of Article 91 | better grades never give the heavier verdict; each dismissal has its ground |
| Registration, `modules/course/service.py`, `agents/curriculum_compliance_agent.py`, `services/pay_mock.py` | registration per student and term, its courses, status history, payment reference; payment flags in the process | create a draft, add, remove, register, submit, initiate and complete payment, form, override of a prerequisite | REGISTERED only with valid load, prerequisites and payment; one registration per term; final stays final |
| Add/drop, `AddDropService`, `agents/enrollment_adjustment_agent.py` | batches and their items, links, schedule additions | submit, approve, override, reject, accept a section | what was judged is what is applied |
| Grading monitor, `grading/agents/`, `grading/tools/` | none | compile evidence, ask the language model, fall back | the evidence is about the Grade rows a decision moves |
| Scheduling and instructors, `SchedulingService`, `InstructorService`, `agents/academic_scheduling_agent.py` | sections, class slots, conflicts, instructor assignments | allocate, generate, reassign a class, assign and unassign an instructor | no clash of cohort, room or instructor; hours are placed or reported; cohorts balanced |
| Records and transcript, `grading/transcript_service.py`, `records/service.py`, `repository.py` | none | transcript, grade report, academic history | three averages of one ledger that agree |
| Undergraduate admission, `modules/undergraduate/service.py` | application, status history, payments, term | submit, pay, correct, resolve, rerun, manual transition | nobody past the fee without paying or an officer |
| Testing centre and bus, `modules/testing_center/`, `core/event_bus.py` | `UATRecord` | callback, mailed form | one test per application, a score that stands |
| Ranking and review, `modules/undergraduate/ranking/` | ranking rows, cut-offs, decisions | run, decide, decide in batch | one decision per application; an admission within capacity |
| Enrolment and onboarding, `undergraduate/enrollment/`, `OnboardingService` | enrolment rows, university ids, students, users | run | each admitted student once, with an id of their own |
| Advisory, `AdvisoryService`, `agents/academic_advisory_agent.py` | recommendation rows with their review | evaluate, consult in three modes, close a review | every course still open is offered once; advice stays within the rules; a review stands |
| Exception queue, `exception_queue/service.py` | none (reads) | list | shows what waits for an officer |
| Authentication, programmes, documents, mail, logging, LLM client, OCR, seeds and migrations | users, look-up tables, files | - | outside this development, see 8 |

How they interact: an official grade is what Grading produces, what Standing
consumes (ledger), and what a prerequisite should be judged by.  A registration
gives Grading its rosters (links and schedule additions) and Add/drop its
starting point; Scheduling pins the registered to sections and gives add/drop
its timetable.  The advisor and the documents read the ledger and the
registrations.  Admission ends where enrolment creates the student that
registers.

What is hard here:

* **Overlapping requests.**  No row has a version column and no query locks
  (`SELECT ... FOR UPDATE` does not occur).  Each request checks a status, awaits
  (other reads, an LLM of seconds), and then writes.  Nearly every guard of the
  code is a check of something that may have changed since.
- **Partial writes.**  The ORM sends only the attributes that differ from the
  loaded object, so two overlapping writers leave a row that is neither's.
* **Commits in the middle.**  A first registration commits an empty draft before
  it goes on; a ranking run commits per applicant.
* **Failure and restart.**  A failed request rolls back its rows, but not the
  payment flags, the mails or what it committed already.
* **Redelivery and double clicks.**  Payment callbacks, test results, "register"
  and "pay" buttons have no idempotency key beyond the status check.
* **Long legal sequences.**  Submit, flag, justify, reject, reopen, resubmit must
  keep three logs and a status consistent.

## 2. How requests are modelled

A request is served by a slot (`Sessions`, `Handlers` or `Slots`).  It has an action for
each stretch of code between two points where others can intervene:

* *Load*: the rows the guards look at, with the guards' early returns.  A request
  that is refused at once changes nothing and is not an action.
* *Read* / *Compute* / *Check*: further reads.  SQLAlchemy's identity map keeps
  the objects already loaded as they were, so only rows not yet loaded are read
  from the current state.
* *Flush*, when the code writes and then awaits: the rows are locked (another
  request that writes them has to wait), not yet visible.
* *Commit*: the rows written.  An attribute is written iff it differs from the
  loaded one (operator `Orm`; in `Registration` the status path plays this part).
* *Abort* / *RequestFails*: any await may raise; what is not committed is gone.

One slot gives a serial system.  The properties that the code only keeps when
requests of the same entity do not overlap are checked with one slot (in
`grade`, `standing` and `admission`: while requests take turns), and section 7 lists
what happens to them with two.  A property in turns therefore says nothing about the races that hazards name at
the same rows; the notes of these hazards say so.  What the code keeps under any overlap is checked with two slots and
proved for any number.

Data is abstracted to what the properties tell apart: a student's scores are one
weighted total, times and user ids are "set or not", an LLM's verdict is any
of its possible outcomes, a failed LLM is the fallback the calling agent takes.

Pages and listings have no state.  They are operators over the rows, in `...Views`
modules beside the model that writes these, and the properties compare
pages with each other and with what the next write will do: a queue with the
verdict behind its entry, a packet with the Grade rows a decision moves, a
dashboard with the courses that are billed.

## 3. The modules

| Module | Models | Uses |
|---|---|---|
| `LetterScale` | letters, cut-offs, points (hundredths) | - |
| `GradeBatch` | both grading services over one course and term | `LetterScale`, refines `OfficialRecord` |
| `OfficialRecord` | abstract: official letters and the officer's log | - |
| `GradeViews` | batch view, queue and packet of the department head, exceptions | `GradeBatch` |
| `GradeTurns` | the same while requests about disjoint, stable rosters take turns | `GradeViews` |
| `GradeEvidence` | outcomes of a submission, the evidence of the grading monitor | `LetterScale` |
| `GradeClass` | one submitted class while its roster moves | `GradeEvidence` |
| `StandingRules` | GPAs (ten-thousandths), the input built from the ledger, Article 91 as a function | `LetterScale` |
| `Standing` | the standing service and its agent for one student over several terms | `Ledger`, refines `StandingRecord` |
| `StandingRecord` | abstract: official standing and the decision log | - |
| `StandingViews` | roster preview, listings, the student's pages, the filing slip | `Standing` |
| `StandingTurns` | the same while requests take turns | `StandingViews` |
| `Records` | transcript, grade report, academic history | `StandingRules` |
| `Ledger` | the official letters of a student, and what rules and documents may make of any of them | `Records` |
| `Advisory` | the rule engine, the three consultations, the reviews | `Ledger` |
| `AdvisoryTurns` | the same next to the writers of what it reads, and while all take turns | `Advisory` |
| `Registration` | registration, compliance checks, payment flags | - |
| `RegistrationViews` | course page, home page, invoice | `Registration` |
| `AddDrop` | add/drop batches of one student, the course picker, the sections they choose | - |
| `Scheduling` | sections, timetables, instructor assignments of one term | - |
| `SchedulingViews` | the overview, section lists, an instructor's week, open conflicts | `Scheduling` |
| `SchedulingTurns` | the same while requests take turns | `SchedulingViews` |
| `Admission` | one application from submission to enrolment, testing centre, officer review | refines `AdmissionRecord` |
| `AdmissionViews` | the application with its test, the officers' queues, the pages of a flag and a correction | `Admission` |
| `AdmissionRecord` | abstract: one decision, one enrolment | - |
| `AdmissionTurns` | the same while requests take turns | `AdmissionViews` |
| `Ranking` | ranking runs over the applicants of one term | - |
| `RankingViews` | the published ranking and its summary | `Ranking` |
| `Enrollment` | decisions, enrolment runs, university ids and onboarding | `Ranking` |
| `MC...` | constants and bounds of the runs | the modules named |
| `...Proofs` | theorems and proofs | the module named, TLAPS |
| `SumLemmas` | sums over finite sets of any size | TLAPS |

**GradeBatch.**  `breakdown`, `batch`, `scores` are the rows of each section,
`grades` the `Grade` row of each student, `reviews` and `decisions` the two append-only
tables, `roster` what `derive_roster` would return now.  `SubmitLoad`,
`SubmitCompute`, `SubmitFlush`, `SubmitCommit` are the four stretches of
`submit_batch`: status and breakdown check; completeness and the new Grade rows;
the flush that locks them; verdict, review, batch status.  `JustifyX`, `ReopenX`, `RerunX`,
`UpsertX`, `DeleteAllX` follow the service's methods, `AuthoriseLoad`, `RejectLoad`,
`DHRerunX` and `DecideCommit` those of the department head.
`RosterChange` stands for registration and add/drop.  `Replies` is what an answer, a refusal or a failure
of the language model leaves as a verdict.

**GradeEvidence, GradeClass.**  A class is a record (roster, who came by add/drop, score cells, whose float total falls short of
its exact value).  `compute_outcomes` is what a submission stores; `compile_context` what the monitor compiles from the class as
it is when it runs: statistics, histogram, outliers, clusters, missing cells.  A total is an exact number of parts of a percent
(`Unit` of them; the maximum of every component divides it, weights are whole percents), as the code divides before it weighs; a mean
stays a sum, a z-score is squared, and the square root is never taken.  In `GradeClass` the submission has stored its outcomes and
locked the cells, and `leave` and `join` are what registration and add/drop make of the derived roster until the monitor looks.

**StandingRules** and **Standing**.  `EvaluateStatus` is the ordered rule list; the
averages are computed from the ledger the way `_build_compute_input` does.  In `Standing`, `ledger`
holds the authorised letters, `standing` the row of each term, `history` its events.
`ComputeLoad`, `ComputeRead`, `ComputePrior`, `ComputeCommit` are the awaits of
`compute_term_standing`: existing rows; grades and the all-graded gate; the prior
standing; agent, row and event.  `clock` keeps the order of `computed_at`, which the
code uses to find the prior status; `propose_standing` is the agent, with the explanation it stores.  What a student reads beside an official status is the
reason of the last decision that was given one, an override or an authorisation (`worded`), and else the explanation of the proposal.

**Records**, **Ledger** and **Advisory**.  The documents are operators over a ledger; `Ledger` declares the one that `Standing` and `Advisory` share.  `evaluate_plan` is the rule engine.  A consultation reads the
registration (`consult_pre_registration`, `consult_registration_plan`, `consult_add_drop`), the ledger (`resolve_academic_history`)
and the earlier attempts (`ask_consult`) one after the other (READ COMMITTED); then the language model answers with a risk and
a set of codes, some of which no catalog has, and `store_consultation` keeps what the rules allow, or `llm_unavailable` stores
nothing.  Officers close a review in two steps, `CloseLoad` with its check and `CloseCommit`.  `AdvisoryTurns` adds those who write what a
consultation reads: `publish_grade`, `edit_draft`, `finalise_registration` and `apply_add_drop` are the commits of the modules above,
cut down to the ledger and the links of the open term.  `serial` says whether they, the consultations and the reviews take turns.

**Registration.**  `status`, `courses`, `history`, `reference` are the rows of each term;
`paid` is PayMock's map; `granted` the overrides; `windowOpen` the term's window.
A register request goes through
`BeginRegister`, `CreateDraft` (which commits), `ReadLinks`, the flush, `Check`,
`CommitSubmission`.  The flush sends its statements row by row, the inserts in the order of a set, which is any, then the deletes by key
(`NextRows`, `FlushLink`); each row waits for a transaction that has deleted it or is inserting it too (`FlushWaits`), an insert may be refused
by the unique constraint (`FlushRefused`), and of transactions that wait for each other in a ring PostgreSQL fails one (`DeadlockVictim`). `SubmitPath` gives the chain of transitions `submit` makes for each outcome
of the checks, with a history row for each.  `Restart` empties `paid` and drops all requests.

**AddDrop.**  `links` are the rows of `registration_courses` (absent, active, dropped), `additions` the
slots chosen from other sections, `batches` the batches with their items, `timetable` the class slots
of the term.  `SubmitLoad` reads what the verdict rests on (links, overrides, completed courses) and
`SubmitCommit` judges it, with the sections offered then; `DecideLoad` loads a batch for approval, override
or rejection, `ApplyBatch` and `RejectBatch` commit it; `AcceptLoad` checks the chosen section against the
effective schedule and `AcceptCommit` adds its slots.  Applying writes only links that differ from
the loaded ones (`Linked`).  The deadline comes with the request, so it may be met or missed at will.
`GenerateSchedule` replaces every slot, and the additions that name them go too.  `Picker` is the page that says which courses
can be added or dropped now, with a mark on a listed course of which a request is in flight; `PickerHonest` compares it with what a submission would be told
and with what a decision does.

**Scheduling.**  `pin`, `enrolled`, `classes`, `conflicts`, `assignments` are the rows; rows have identities (`run` tells the
generation that inserted a class), because a request deletes the rows it loaded and leaves what others have inserted since.
`AllocateLoad` and `AllocateCommit` split registered students into cohorts; `GenerateLoad` (sections and class slots), `GenerateWipe` (the slots
deleted, which waits for another transaction that has deleted one of them, and only then the OPEN conflicts selected), `GenerateRead` (the conflicts
deleted, the instructors read), the placement (`Place`, `EndAttempt`, which may restart with another order, up to `MaxRetries`) and `GenerateCommit` are
`generate_timetable`.  The placement awaits nothing: its steps are atomic to the other requests of the process
and cut up only to keep the choice of a slot readable.  `ReassignLoad`, `AssignLoad` and their commits are the two ways to bind an
instructor, `Unassign` the deletion, `ReferenceSection` a grade batch or an addition that keeps a section from being deleted.

**Admission.**  `app` is the row, `history` its status history, `tests` the UAT records,
`decision` the registrar's decision, `ranked` the score of the last ranking row,
`enrolled` the enrolment row.  `Allowed` is `ALLOWED_TRANSITIONS`; a request's way through it is a
path, each step checked against the *loaded* status.  `IntakePath` and
`CredentialPath` are what the two agents behind a payment do.  `UATFlush` and `UATCommit` are
separate because the bus handler runs between the flush and the commit.

**Ranking** and **Enrollment** take the cohort where `Admission` takes one application.  `status`, `uat`,
`results` and `cutoff` are the rows; `ranker` is what a ranking request remembers: the applicants
it loaded, its number, the scores and seats merged from earlier rows, and the `plan`, its rows in the order of the
ranking.  `RunLoad`, `RunNumber`, `RunMerge`, `RunAssign` are the stretches up to the first write,
`RunPersist` one `change_status` (which commits the rows added up to there), `RunFinish` the last commit.
`Allocation` is the greedy pass of the first run, `Reaches` the floors of later ones.  Equal scores keep the order of a
query without ORDER BY, so `Ranked` is the set of orders the sort can leave.
`ChangeStatus` is the officers' transition by hand along `ALLOWED_TRANSITIONS`, which writes a status and nothing that belongs to it; `ByHand` are the
applications it is used on, so that the properties can say what holds of the others.  `enroller` is an enrolment request with its list; `EnrollStudent` and `OnboardCommit` are the two commits it makes for each
applicant, `EnrollFailsFor` a constraint violation, after which the session is `poisoned`.  `clock` counts transaction starts,
because `created_at` is one and the next university id follows the row created last.

## 4. The runs

Deadlock checking is off where the system rests when every bound is reached or
everything is decided; the two registration runs that end in a quiet system keep
it on.

| Run | Instance | Shows |
|---|---|---|
| `grade` | 1 section, 2 symmetric slots; behaviours in which requests take turns (2 students, totals {35, 92}, stable roster, 2 breakdown versions, 3 iterations, 3 reviews, 2 decisions) and behaviours in which they overlap (one student who leaves and returns, 2 iterations, 2 reviews, 1 decision) | in turns: grades are official iff the batch is authorised, with the letter of their scores, and the packet shows what a decision moves; status follows the last review and decision, and the queue says so; locks; official grades do not change; always: a review behind each decision, refinement of `OfficialRecord`, in which no decision changes a letter |
| `records` | `rules`: all ledgers of 2 terms, 4 courses, marks of four kinds, and every prior status; `advice`, in turns and overlapping: 2 (overlapping: 1) official grades in three courses, a draft or final registration of 2 courses, 2 answers of the language model, 1 recommendation row, 2 officers; `class`: every class of up to 3 students of six kinds, classes of 4 to 9 of three kinds, one who leaves and one who joins | of every ledger: monotone verdicts, also on later terms; grounds for dismissal; averages of transcript, report and advisor; the question to the model leaves out no course the ledger still has open, whatever is graded, dropped or decided between its reads, and in turns offers just these; advice within the rules and reviews that stand, in turns; the evidence about the stored rows |
| `standing` | 2 terms of one course, 2 symmetric slots; behaviours in which requests take turns (marks A, C-, I, 3 events per term) and behaviours in which they overlap (mark C-, 2 events) | in turns: history replays to the row, the gate holds, decided rows are skipped, preview, listings and pages agree with the rows, the stored explanation with the verdict; always: grounded history, refinement of `StandingRecord` |
| `standing_prior` (violated) | the same, one slot | the prior status may come from a *later* term |
| `registration_lanes` | 1 term, 3 courses (12, 6, 5 credits; one requires another), a slot for the student and one for callbacks, failures, restarts, 5 history rows, 2 references | history chains to the status, which the pages show with the courses; what is billed and REGISTERED is paid, complete and within 12..22 credits, and the invoice is its sum; final is final |
| `registration_double_click` | two register slots and a form slot, 2 courses without prerequisites (so no overrides), 4 history rows, fairness | one registration created once; every request is answered, also where two flushes wait for each other |
| `add_drop` | 3 courses (12, 5, 6 credits), 2 sections, 2 timetables, a slot that submits and a slot for everything else, 3 items in 2 batches | items share the fate of their batch; no denied batch applied without a justification; chosen classes are of active courses; a batch applied to the links it was judged on leaves 12..22 credits; clashes only from a course put back; the picker offers what would pass, and a decision changes no listed course without its mark |
| `add_drop_two_officers` (violated) | 1 batch of 1 item, one slot approves, one rejects | a rejected batch whose items are applied |
| `admission` | 2 symmetric slots; behaviours in which requests take turns (scores {60, 90}, three verdicts, 2 references, 13 history rows) and behaviours in which they overlap (score 90, ADMIT and REJECT, 1 reference, 8 rows) | in turns: history replays, decisions stand, one test, the officers' and the applicant's pages show the note and the reasons that count; always: inductive invariant, payment gate, refinement of `AdmissionRecord` |
| `enrollment` | 4 applicants (two of whom may tie), 2 programs of one place wanted in different orders, a stream of one place, test scores {60, 80}; behaviours of ranking alone, up to 3 runs that stop anywhere, and behaviours that go on with 2 applicants, 2 ranking runs, decisions, 2 overlapping enrolment runs and officers' onboarding, no run beginning after 4 transactions; and behaviours with one enrolment request in which an officer moves one of the two by hand, 3 transactions | seats stand; nobody is passed over for a lower score; the first run fits; the published list and summary agree with the stored cut-offs; cut-offs stand; the program enrolled in is the one ranked into, for whoever was not moved by hand before any ranking; application, enrolment and student agree, but for the status of who was moved by hand |
| `scheduling` | 2 departments with 3 courses (3, 1, 1 hours), 3 rooms, 5 students, 2 instructors, a week of 2 days of 2 hours, 1 restart of the search; turns: up to 3 generations or allocations of the first department, 2 of each of both; overlapping: 2 slots, one department, 3 runs, 2 assignments or a reassignment; and overlapping generations of two sections whose courses share one instructor, so that not everything fits (`Crowd`) | always: no clash of room or cohort, the hours of what was generated last placed or an open conflict the department head sees, cohorts balanced and shown as stored; in turns: the same of each generation that stands, instructors booked once, one assignment per course, one generation of a section at a time |
| `enrollment_counter` (violated) | the same, 4 transactions | after two overlapping enrolment runs the row created last does not carry the highest number |

Why these bounds: the counters only bound how long a history TLC follows.  A full
grading cycle is submit, flag, justify, reject, reopen, submit, authorise: 3 iterations
and 3 reviews include it.  The longest simple way through the
admission graph to ENROLLED writes 9 history rows, and 13 leave room for a
correction loop and a resolution.  A standing needs a proposal, a decision and
one more event to go wrong.  Two slots are the
smallest overlap; the theorems carry the same invariants to any number.  Two
students are enough for "one student's row against another's" as no guard compares three.
The credit values 12, 6, 5 put a load on the lower end (12), below it,
inside and above 22 (23); 22 itself is covered by the theorems, which hold for any credits; 12, 5 and 6 in `add_drop` do the same for adds and drops, and its hours
let the other section's class meet either of the first two courses.  Two batches are the least that can
be judged on the same links.  Two places that three applicants want in different orders are the least in which a greedy pass
can go wrong; the third run is the first that could confuse the earliest floors with the latest.
Three students and a room for two are the least that must be split, a fourth who registers late the least that unbalances a
cohort; a course of three hours on two days needs a session of two, and four blocks leave a week that may not be solvable.
Eight students are the first class in which a z-score can pass the threshold of an outlier (proved); the run has nine.  A point
of its second component is 7.5 percent, and one kind of student has 32.5.

## 5. Fairness

* `registration_double_click`: weak fairness on `Continue(h)`: the event loop runs
  every coroutine that can run, and PostgreSQL aborts a transaction of a deadlock.  A link row may be free, taken and free again, as other requests come
  and go, so a statement that waits for one has strong fairness (`FlushLink` or `FlushRefused`): the lock manager queues it and wakes it when the row is
  free, before those that come later.

No other property needs fairness.

## 6. The proofs

Eight modules of theorems.  Assumptions: the named ASSUMEs of the modules (ranges of the constants,
distinct model values), evaluated by TLC in the runs.  The bounds are arbitrary
naturals in the proofs, so no theorem depends on the values of section 4.

* **`GradeBatchProofs`**: `Invariant` (`Spec => []IInv`), `TypeCorrect`, `AgentFirst`,
  `Refinement`.  That no decision precedes a review is not inductive: an officer's request
  holds a *loaded* batch row.  `IInv` adds that whatever status a session has loaded,
  and whatever it is going to write, has a review of that section behind it; as reviews are only
  appended this survives any interleaving.  The refinement then goes action by action: only a commit
  of a decision makes a letter official, or takes that away; it appends to the log in the same step and changes no letter.
  In turns (`GradeTurns`): `Officially`, `Workflow`, `Locked`.  Their invariant `Turns` says of the rows that an official
  letter belongs to an authorised batch of the one section its student is in, and of the sessions that what the single busy one
  has loaded is still what is stored.  The pages list a log in an order, so they rest on lemmas about that order.
  Of a submitted class (`GradeClass`): `Evidence` (`EvidenceSound`), for any components, scores, float errors below a part and roster moves.
  The invariant `ClassInv` says only that the stored rows are the outcomes of full, locked cells; all the rest follows from the cells.
  The cut-off table becomes a ladder (`LetterIsRung`), which no higher number descends (`RungsAscend`), so an error costs one letter at most
  (`WithinOne`).  Histogram, pass count and clusters count the same students class by class (`Histogram`, `ClustersCount`); the class total is added up
  by student and by component (`ComponentsMakeUp`, from `SumSwap`), which needs that the clamp at 100 never cuts (`FullScore`).
  That an outlier needs a class of eight is Samuelson's inequality (`Deviation`): for the others, the mean inequality, summed from a square
  that is not negative (`SquareExpands`), and a polynomial identity for the one (`Farthest`).  The code's doubles enter as `short` alone:
  a sum may fall short by less than a part; that its mean and deviation, which the library computes, are those of the exact numbers is assumed.
* **`StandingProofs`**: `Invariant`, `Grounded`, `Refinement`.  `IInv` says that rows and loaded
  rows carry statuses some event of the history has set, and that a row a session saw missing
  can be inserted only while it is missing.
  In turns (`StandingTurns`): `RecordsInTurn`, `DecidedStays`, from `InTurn`: a row replays its history, and
  the row a session has loaded is the stored one.
  Of the ledger, whatever it holds: `BetterGrades`, `Dismissals`, `Documents` (the properties of `Ledger`, for any courses, credits and number
  of terms; the last one needs that there is a term).  `BetterRecordNeverHurts` is the rule list alone, for any averages; `BetterGrades` adds that a better letter lowers
  no sum and rounding keeps the order.  `Documents` splits the advisor's one sum over all
  grades into the sums of the terms (`SumPairs`) and bounds what rounding each term first may lose.
  Of the advisor, who reads the same ledger (`AdvisoryTurns`): `Choices` (`ChoicesComplete`) compares the lists with the ledger and the registration of the moment, not with what was
  read.  With `ReviewsStand` and `AdviceStands` it rests on `Advised` (`AInv`): what a consultation has read as passed or failed is so still (`WasRead`), because
  official letters only come, so no course that is still open was taken for done; and while sessions take turns
  what was read is what the ledger and the registration hold (`StillRead`), and a review that was loaded open is open (`StillOpen`).  That no verdict but one of high
  risk waits for an officer (`Escalated`) holds under any overlap, and makes the two queues, of which one asks for the risk, the same.
* **`SumLemmas`**: the fold of the model is a recursion over sets, so these are inductions over the subsets of a finite set, which the
  provers follow as an argument about the smallest subset that goes wrong (`Shrinking`): a sum does not depend on the order (`SumRemove`), is
  monotone (`SumMonotone`), splits over disjoint sets (`SumUnion`) and over pairs (`SumPairs`), is the same by rows and by columns (`SumSwap`), and counts a set by its classes (`SumFibres`).
* **`RegistrationProofs`**: `TypeCorrect`; `OneRegistration` (any number of first
  submissions: the unique constraint on student and term decides); `PaymentGate`
  (`RegisteredSettled` where one slot edits and submits: the hypothesis is in the
  theorem's statement, as two such slots do violate it).  With `OneDesk`, one slot for edits and submissions and one for callbacks and forms, which
  interleave with each other: `FinalStays` (`FinalLocks`), `ShownAsRecorded` (`HistoryShown`) and `CurriculumGate` (`BilledCompliant`).
  Their invariant `DeskInv` says that the status a slot has read is the one it will write over: the other slot cannot move
  it in between, since a payment only moves PAYMENT_HOLD and an edit only an open registration.  What `OneDesk` excludes is
  the redelivered callback that overlaps the first.  `CurriculumGate` needs a fee per credit above zero, as a bill of nothing says nothing about its courses.
* **`AddDropProofs`**: `Invariant`; `Justified` (`OverrideJustified`, any number of slots of any
  kind).  The status a request loaded may be gone when it commits, so `IInv` speaks of the agent's verdict, which never
  changes: whoever is approving holds a batch with a positive one.  `ChosenStayActive`
  (`AdditionsActive`) where at most one slot takes decisions and choices of sections (`TakeTurns` in the
  statement: two such slots do violate it); its invariant adds that the course of an accepting request is still active.
  `FateShared` and `PickerIsHonest` need that officers decide one at a time (`OfficersTakeTurns`), the second because a batch that one officer applies must
  still be in the queue the picker marks its courses by.  `ClashesFromAdd` needs that everything but the submissions takes turns (`OneOffice`), and that the timetables of the student's own section
  have no clash (`HomeFits`), which is what `TimetableSound` promises of a generated timetable.
  `LoadStaysKept` (`LoadKept`, `OfficersTakeTurns` again): a verdict speaks of the load the agent saw (`baseline`), so a batch applied to that baseline
  ends with the load it was approved for.  The agent subtracts and adds hours where the commit rewrites links; that both come to the same is
  that the load of disjoint sets of courses adds up (`SumLemmas`).
* **`AdmissionProofs`**: `Invariant`, `PaymentGated`, `Refinement`.  `IInv` says that what a session remembers - a paid flag, a status past the fee, a missing decision -
  is either still true or protected by the constraint its write will meet.
  In turns (`AdmissionTurns`): `AgreeInTurn`, from `InTurn`: the history chains to the status, tests and corrections fit it, the decision row
  goes with a status from which no way leads back to the checks (`Past`), and what a session has loaded is what is stored.
* **`EnrollmentProofs`**, of `Ranking` and `Enrollment`: `Invariant`, `SeatsStand`, `EnrolledInRankedProgram`, `OneIdentity`, for any cohort, any number
  of enrolment requests and ranking runs one at a time (`OneRanker` in the statements: two overlapping ones do
  violate them).  An application has rows exactly from the commit that takes it out of the test; every row of a plan
  is for such a newcomer or repeats a seat some row already gives.  So a row that appears while an enrolment run is
  reading agrees with the one it read.  `RankInv` holds the first part and `EnrollInv` the second.  An application moved on by hand (`ByHand`) may leave
  the test without a row and be enrolled without a program (`Unranked`, `RankedAs`): `EnrolledInRankedProgram` and `OneIdentity` say what is left of the
  agreement for it, and all of it for everybody else, in the same behaviours.
  `PublishedCutoffStands` (`CutoffStands`, `OneRanker` again): however many runs follow and wherever
  they stop.  The invariant `CutoffInv` says that a published cut-off is the lowest score of *all* rows that give the program away, not only of
  the run that published it.  A run numbers itself above all rows, so its floor is attained by some row and is not below the cut-off;
  its plan repeats every row that exists, with its score, and adds nobody below the cut-off; so the lowest score of the plan is the
  cut-off again.  This needs that an order of the sort leaves nobody out, and that an applicant's rows agree on the score.
  `FairlyPublished` (`PublishedFairly`), from `FairInv`: the floor of a seat is what the earliest run that gave it away asked for (`FirstRows`,
  `FloorsHold`), and whoever wanted the seat in vain was outdone by every row of that run (`Denied`); the plan being written has the same
  for its own rows (`PlanFloors`, `PlanDenied`, `PlanFits`).  What the greedy first run computes (`AllocationFits`, `AllocationFair`) is
  an induction over the applicants, which the provers follow as an argument about the first position that goes wrong.
  The theorem assumes places in every seat: a seat without any never gets a floor, and a re-run then gives it to anyone (section 7).
* **`SchedulingProofs`**: `Invariant`; `Sound` (`TimetableSound`), for any departments, rooms, students and any number of requests that
  overlap or fail.  The greedy search is the heart: `IInv` says that no two placements of an attempt clash, which each placement keeps as it looks at
  all earlier ones (`Feasible`), and that the best attempt kept so far is such a set too.  At the commit the rows of the generation are that set.
  Classes of another generation, which an overlapping commit leaves standing, may share a room (hence "of one generation" in
  `RoomsFree`); a cohort's hour is then kept single by the unique constraint on section, day and start.
  In turns (`SchedulingTurns`): `OnceInTurns`, from `Turns`: what a request has loaded still holds when it commits, but for assignments
  that are deleted meanwhile, which never makes an instructor teach more.  It also has that a commit leaves no rows of an earlier timetable.
  `NothingUnseen` (`CompleteOrSeen`), of the generation a department made last under any overlap, and of each that stands while requests take turns; from
  `Exhaustive` (`FInv`): of the sessions a generation owes, each is to be placed,
  placed or left over at every step of the search and in the best attempt it keeps, so a course of which nothing is left has all of its sessions among the
  rows; that their hours are then exactly the credit hours counts rows by a bijection with the hours of the sessions (`PlacedFull`, `GeneratedRows`).  What is last at a commit is the
  committing generation itself, whatever it has deleted (`LatestFull`); an earlier one may have lost its conflicts (section 7).  In turns a
  generation deletes classes and conflicts of all others or of none (`EveryFull`).
  `CohortsStayBalanced` (`CohortsBalanced`), under any overlap, has three parts.  `Shares` is the arithmetic of the split: its k classes of the numbers
  1..N have `N \div k` elements or one more, and the largest room takes them.  `Ranks` carries it to the students, as counting who registered before is
  a bijection with 1..N.  `Cohorts` (`CInv`) carries it through time: two allocations that overlap cannot both stand, because every cohort with
  sections has a section A, whose code the second insert would repeat; so a commit finds none of its department that it does not delete.
  The pages need in addition that classes are finitely many and each of an instructor or of nobody (`Counted`), and that a set is counted class by class (`SumFibres`).

The theorems about turns are about `TurnsSpec`, the specification the runs check: they take the discipline as
an assumption on the schedule, never as a property of the code.

Only model-checked: liveness (`Answered`; there is no liveness in these provers).

## 7. What the models reach and no property excludes

The models were also explored with overlapping requests for the properties checked in turns.
Each of these is an execution of the model, or a definition of it, at the lines the hazards of
`PROJECT.json` or the map name.  Three contradict a text of the repository and are runs
(`standing_prior`, `add_drop_two_officers`, `enrollment_counter`).  Four more are texts that say something else than the code does and the
properties state (*Where texts differ*).  For most of the others nothing in
the repository says what should happen, and where a docstring says more than the code does it is named here.

*Where texts differ.*  In each case the property states what the code does, and the text is a finding of `PROJECT.json`.
`TurnsWorkflow` has a submission that the language model does not answer go to AI_UNAVAILABLE, as `grading/service.py:971-976`, `router.py:399` and the tests
have it; `grading/service.py:960-961` and `grading_monitor_agent.py:60-62` say "PENDING" leaves the batch SUBMITTED.
`EvidenceSound` lets a stored total that was rounded up to a cut-off carry the letter below it, while `letter_scale.py:25-26` calls the cut-offs
inclusive; and it counts as passed who has 50 or more, which `statistics.py:30-31` equates with "letter D or better", although a D begins at 40.
`HistoryGrounded` has PROPOSED on the first event of a row only, as `standing/service.py:872-882` and a test have it; `standing/models.py:204` has the agent write
PROPOSED for a re-computed proposal too, and `:208` has RE_COMPUTED for a run on an *authorised* standing, which the code skips (`TurnsSkipDecided`).

*Grading.*  A rerun that loaded the batch before an authorisation turns AUTHORISED into
FLAGGED or AI_UNAVAILABLE.  Of two overlapping submissions with an authorisation in
between, the second replaces the letter of an official grade.  Two sections that
teach one student write the same Grade row, and the second submission takes the
first one's official grade back.  A breakdown is replaced after its lock, or scores after their
submission, by a request that loaded before.  A student who leaves the roster is
authorised without being in the packet the officer sees, which is rebuilt from the roster of the moment.
Among fewer than eight students no
score can be an outlier.  Batches in AI_UNAVAILABLE wait in the department head's queue but not in the queue of exceptions.

*Standing.*  An authorisation replaces a concurrent override.  A compute that started before
a decision rewrites the proposal of the decided row.  A row that becomes held meanwhile is
authorised without a reason.  In a first semester 91.7.3 matches before the 91.5
warning and 91.7.5, which are unreachable there.  The preview looks at other rows than the computation: a prior row may be undecided and
is the last by the date of the term, where `compute_term_standing` takes the decided row computed last; its first-semester flag counts
later terms too; a course dropped and added again is not ungraded in it, while the computation waits for its grade.
The queue of exceptions says "Incomplete / NG mark" also of a row that is held because no grade counts.

*Documents and advice.*  The transcript divides by the hours of I and NG courses too, so it is below the standing's average
for a student who has one, and a ledger of NG only is 0.0 in one document and none in the other.  The grade report shows the averages
stored with the standing beside today's lines.  A HIGH risk from a consultation never reaches the officers' queue: only `evaluate` sets
`requires_officer_review`.  `evaluate` trusts the average and the completed courses the caller states.  The rule engine recommends
courses of the next semester, in the half of the year the consultation calls the wrong one.  A course with an I or NG is
offered as not yet attempted; what the model recommends may already be on the plan; a course
both added and dropped in one question is on the effective plan and on offer.  Two overlapping closes replace the reviewer.

*Registration.*  Two register requests finalise courses no check has seen.  Two submissions break the
chain of the history.  A redelivered callback that overlaps the first reopens a
REGISTERED registration.  A restart loses payments, and a rolled-back callback leaves
the course marked as paid and the registration on hold.  A
payment is remembered per student and course, so it also pays for a retake in a later term.
Registration never hands the completed courses to the check (`router.py:297`), so a passed prerequisite needs a department head's
override as much as a missing one (`course-management-usecase-plan.md:44` has the agent verify completion).  The course page hides an existing registration
when its term is closed before it starts.  The invoice follows the live courses and asks a paid student to pay, which
`/payment/initiate` then refuses.

*Add/drop.*  Two batches, each within 22 credits, are applied one after the other to a load
above it, as nothing looks at a verdict again.  A section accepted while the course is dropped leaves classes of a dropped
course.  A course dropped and put back can meet a class chosen in between.  A second section accepted for
a course stays beside the first, although the option check treats the old slots as replaced (comment at
`agents/academic_scheduling_agent.py:914`).  An overlapping approval turns REJECTED into APPLIED.  A request to add a course that the
picker does not list (never taken up, and denied by the agent or off the timetable since) is marked nowhere on it, and an override can still add that course.  Neither
payment (commented out) nor section capacity is checked or updated.

*Scheduling.*  The search books an instructor for the classes of its own department only, while the docstring speaks of the whole term
(`academic_scheduling_agent.py:41`, `:134`): one who teaches for two departments can have two classes at once.  Allocation is called
idempotent (`:22`) and wipes and rebuilds: a student may land in another section, and once a section is referenced it cannot be deleted and every later
allocation fails.  Overlapping assignments of one course leave two rows; a reassignment beside a generation, and two generations of one
department that overlap, book an instructor or a room twice.  Two such generations can also both stay: the second commit wipes the rows it
has loaded, not those the first inserted meanwhile, and only the unique constraint on section, day and start can stop it, so the weekly hours of a
course can double.  And where the first left an hour unplaced, the second can keep its classes and delete its conflicts: it selects the slots, deletes
them, which may wait for the first to commit, and then selects whatever OPEN conflicts there are.  The timetable of the first then stands incomplete and nothing says so,
beside "Re-runs are idempotent" (`academic_scheduling_agent.py:384-385`, `service.py:1660`).

*Admission.*  Two ranking runs turn DECIDED back into PENDING_REVIEW, which nothing can leave
again, since the decision row refuses another.  Overlapping
deliveries replace a score that was ranked already.  Two re-runs give two tests.
REJECT_NOW rejects over a decision to admit.  APPROVE_AND_CONTINUE and manual transitions
move the status without the rows (test, payment, decision) that belong to it.

*Ranking.*  A re-run looks at floors only, so it fills a program beyond its capacity.  A seat nobody got
has no floor: after a first run that stopped early, or for a program with capacity 0, the next run
gives it to everybody who asks.  The published list is that of the latest number from the first row a run writes, so a run that
is going on or has crashed is already the "authoritative" one.  Two overlapping runs take the same number and may give an applicant two seats.

*Enrolment.*  Two overlapping enrolment runs can leave the highest university id on a row that was not created last; every later run then
begins with a number that is taken, its first insert fails, the session is unusable for the rest, and nobody can be enrolled
until the table is corrected by hand.  One constraint violation fails all later students of its run, although
the comment at `enrollment/router.py:203` says it does not.  A crash between the two commits leaves an enrolled applicant
without a student row, which only the onboarding endpoint repairs.  An officer who onboards an applicant the run
is at makes the run's session unusable in the same way.  An admitted applicant without a seat is enrolled without a program,
and so is one whom an officer moved past the ranking by hand.  The transition by hand (`undergraduate/service.py:274-300`) writes ENROLLED without an enrolment
row and DECIDED without a decision, after which neither the enrolment run nor the review takes the application up again.  A ranking run that had
loaded an applicant before an officer moved them on writes PENDING_REVIEW over the later status.

## 8. What is not modelled

Authentication (each action is given to the role that may call it); look-up tables (programmes, the ministry's record, classrooms);
uploads and their OCR, which nothing modelled reads (`credential_verification_agent.py`, which would, is called by nothing);
creating an instructor's account; the filing slip's layout, sorting, paging and counters of listings; the content of documents, mails, narratives and
logs; the language model beyond what its callers make of an answer, a refusal or a failure; migrations and seeds.  In
`GradeBatch` the roster is an input.  In `Registration`, dropped links do not occur, as only
add/drop creates them; `RegistrationViews` has one term in its runs, so that the step from one semester to the next is not exercised; `AddDrop` starts from a final registration and takes the sections of the student's department only.  In `Admission` a ranking or enrolment run is what it
does to one application; scores, capacities and university ids are in `Ranking` and `Enrollment`, where in turn
the testing centre and the officer's review are single steps.  Decisions and transitions by hand are single steps in `Enrollment`, whose overlaps are in
`Admission`; applicants without a ministry record do not occur there.  In `Registration` a link row is known by its course: a delete that waited for a row
deleted and inserted again by others hits the new row, where the code deletes by the old row's id, which no row has any more, and goes on.  A deadlock over rows of
other tables than the links is broken by the server as well; it appears as a failing request.

## 9. The plan

Order of work; all is done but, of 8, the review router's batches.

1. `GradeBatch` - the only producer of official grades.
2. `StandingRules`, `Standing` - the consumer with the heaviest consequences.
3. `Registration` - money and finality.
4. `Admission` - the longest state graph and the most actors.
5. `AddDrop` - a verdict that is applied later.
6. `Ranking`, `Enrollment` - the cohort: allocation, re-runs, university ids, onboarding.
7. `Scheduling` - allocation, timetable search, instructor assignment.
8. `Records`, `Advisory`, `GradeEvidence` and the views - those who read what the others write; the review router's batch
   decisions (one failing item and the rest of the batch).
9. `EnrollmentProofs`, its part on rankings - published cut-offs, and that nobody is passed over.
10. The properties of requests in turn as theorems: `GradeTurns`, `StandingTurns`, `AdmissionTurns`, `SchedulingTurns`, and
    registration and add/drop under a slot for each desk.
11. Loads, hours and cohorts as sums and counts: `LoadStaysKept`, `NothingUnseen`, `CohortsStayBalanced`.
12. The advisor next to the writers of what it reads: `Choices`, `ReviewsStand`, `AdviceStands`.
13. The evidence for any class: exact totals in `GradeEvidence`, the moving roster in `GradeClass`, `Evidence`.
