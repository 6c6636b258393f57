------------------------------ MODULE Learning -------------------------------
(***************************************************************************)
(* Learning from an Agent's work: the policy row, the workers that check   *)
(* its sources under a lease, the reserved window and the checkpoints of   *)
(* the model calls made for it, and the committed revisions, while the     *)
(* owner saves settings or selects revisions and workers stall or crash.   *)
(* A record of a source is its number; a window is one page of one source. *)
(* Stage 1 stands for the analysis and its review, stage 2 for research.   *)
(* next_check_at is left out: a released policy may be claimed at any time *)
(* after; so are the trace cases, but for the reading they start over.     *)
(***************************************************************************)
EXTENDS Integers, FiniteSets, Sequences, FiniteSetsExt

CONSTANTS
    Learners,           \* learning jobs of all gateway processes
    LearningSources,    \* the feedback and the native sources, in reading order
    MaxRecords,         \* bound on records of a source
    MaxGeneration,      \* bound on saved settings and selections
    MaxLearningFaults   \* bound on crashes, stalls, failed reads and lost answers

VARIABLES
    written,      \* source -> number of records it holds
    policy,       \* the experience_policy row; since (history): when reading last started over
    window,       \* the experience_window_checkpoint row of the generation
    stages,       \* stage -> its experience_stage_checkpoint row
    learner,      \* job -> what it is doing
    revisions,    \* the experience_revision rows, in order
    unanswered,   \* history: stage -> dispatched calls without a stored answer
    learningFaults

learningVars == <<written, policy, window, stages, learner, revisions, unanswered, learningFaults>>

Stages == {1, 2}
MaxStageAttempts == 3
NoWindow == [source |-> 0]
NoStage == [state |-> "none", attempts |-> 0, by |-> 0]
NoCheckpoints == [i \in Stages |-> NoStage]
NoCalls == [i \in Stages |-> 0]
IdleLearner == [at |-> "idle"]

ExperienceTypeOK ==
    /\ written \in [LearningSources -> 0 .. MaxRecords]
    /\ policy.enabled \in BOOLEAN /\ policy.generation \in 1 .. MaxGeneration
    /\ policy.token \in {0} \cup Learners /\ policy.live \in BOOLEAN
    /\ policy.cursor \in [LearningSources -> 0 .. MaxRecords]
    /\ policy.active \in 0 .. Len(revisions)
    /\ policy.traces \in BOOLEAN /\ policy.since \in 1 .. policy.generation
    /\ \A i \in Stages : /\ stages[i].state \in {"none", "running", "completed", "retryable", "uncertain"}
                         /\ stages[i].attempts \in 0 .. MaxStageAttempts
    /\ \A w \in Learners : learner[w].at \in {"idle", "reading", "staging", "calling", "saving", "ended"}

NothingRead == [s \in LearningSources |-> 0]

ExperienceInit ==
    /\ written = [s \in LearningSources |-> 0]
    /\ policy = [enabled |-> TRUE, generation |-> 1, token |-> 0, live |-> FALSE,
                 cursor |-> NothingRead, active |-> 0, traces |-> FALSE, since |-> 1]
    /\ window = NoWindow /\ stages = NoCheckpoints
    /\ learner = [w \in Learners |-> IdleLearner]
    /\ revisions = <<>>
    /\ unanswered = NoCalls /\ learningFaults = 0

\* The condition of every statement of a claim: its generation, its token, a live lease.
Current(w) ==
    /\ policy.enabled /\ policy.generation = learner[w].generation
    /\ policy.token = w /\ policy.live

Ends(w) == learner' = [learner EXCEPT ![w] = [at |-> "ended"]]

-----------------------------------------------------------------------------
(* The sources and time.                                                   *)

\* external: work of the Agent or feedback in a conversation adds a record.
RecordWritten(s) ==
    /\ written[s] < MaxRecords
    /\ written' = [written EXCEPT ![s] = @ + 1]
    /\ UNCHANGED <<policy, window, stages, learner, revisions, unanswered, learningFaults>>

\* The lease of a job that ended without releasing it runs out.
LearningLeaseEnds ==
    /\ policy.token # 0 /\ policy.live /\ learner[policy.token].at = "idle"
    /\ policy' = [policy EXCEPT !.live = FALSE]
    /\ UNCHANGED <<written, window, stages, learner, revisions, unanswered, learningFaults>>

\* external: a job is held up for longer than its lease, or its process ends.
LearnerStalls(w) ==
    /\ learner[w].at \notin {"idle", "ended"} /\ learningFaults < MaxLearningFaults
    /\ policy.token = w /\ policy.live
    /\ policy' = [policy EXCEPT !.live = FALSE]
    /\ learningFaults' = learningFaults + 1
    /\ UNCHANGED <<written, window, stages, learner, revisions, unanswered>>

LearnerCrash(w) ==
    /\ learner[w].at # "idle" /\ learningFaults < MaxLearningFaults
    /\ learner' = [learner EXCEPT ![w] = IdleLearner]
    /\ learningFaults' = learningFaults + 1
    /\ UNCHANGED <<written, policy, window, stages, revisions, unanswered>>

-----------------------------------------------------------------------------
(* One check.                                                              *)

claim_experience(w) ==
    /\ learner[w].at = "idle"
    /\ policy.enabled /\ (policy.token = 0 \/ ~policy.live)
    /\ policy' = [policy EXCEPT !.token = w, !.live = TRUE]
    /\ learner' = [learner EXCEPT ![w] = [at |-> "reading", generation |-> policy.generation,
                       cursor |-> policy.cursor]]
    /\ UNCHANGED <<written, window, stages, revisions, unanswered, learningFaults>>

\* The sources with records after the claim's cursor, as the job reads them.
Unread(w) == {s \in LearningSources : written[s] > learner[w].cursor[s]}

\* The page of the first such source; the cursor it leads to; whether more is left anywhere.
NextWindow(w) ==
    LET s == CHOOSE s \in Unread(w) : \A t \in Unread(w) : s <= t
        from == learner[w].cursor[s]
    IN  [source |-> s, from |-> from, upto |-> from + 1,
         cursor |-> [learner[w].cursor EXCEPT ![s] = from + 1],
         more |-> written[s] > from + 1 \/ Unread(w) # {s}]

\* A window reserved by an earlier check of this generation is taken up again.
experience_window(w) ==
    /\ window' = IF window # NoWindow THEN window ELSE NextWindow(w)
    /\ learner' = [learner EXCEPT ![w] = [at |-> "staging", generation |-> learner[w].generation,
                       window |-> window', stage |-> 1, pending |-> FALSE]]

\* review, up to the reserved window: sources are read, or one is busy or out of reach.
review(w) ==
    /\ learner[w].at = "reading"
    /\ \/ /\ learningFaults < MaxLearningFaults
          /\ learningFaults' = learningFaults + 1
          /\ Ends(w) /\ UNCHANGED window
       \/ /\ IF Current(w) /\ (window # NoWindow \/ Unread(w) # {})
             THEN experience_window(w)
             ELSE Ends(w) /\ UNCHANGED window
          /\ UNCHANGED learningFaults
    /\ UNCHANGED <<written, policy, stages, revisions, unanswered>>

MayDispatch(row) ==
    row.state = "none" \/ (row.state = "retryable" /\ row.attempts < MaxStageAttempts)

begin_experience_stage(w) ==
    LET i == learner[w].stage
        row == stages[i]
    IN  /\ learner[w].at = "staging"
        /\ IF ~Current(w) THEN Ends(w) /\ UNCHANGED <<stages, unanswered>>
           ELSE IF row.state = "completed"
           THEN /\ learner' = [learner EXCEPT ![w].stage = IF i = 1 THEN 2 ELSE 1,
                                              ![w].at = IF i = 1 THEN "staging" ELSE "saving"]
                /\ UNCHANGED <<stages, unanswered>>
           ELSE IF MayDispatch(row)
           THEN /\ stages' = [stages EXCEPT ![i] = [state |-> "running", attempts |-> row.attempts + 1, by |-> w]]
                /\ unanswered' = [unanswered EXCEPT ![i] = @ + 1]
                /\ learner' = [learner EXCEPT ![w].at = "calling"]
           ELSE /\ stages' = [stages EXCEPT ![i].state = IF @ = "running" THEN "uncertain" ELSE @]
                /\ IF i = 1 THEN Ends(w)
                   ELSE learner' = [learner EXCEPT ![w].at = "saving", ![w].pending = TRUE]
                /\ UNCHANGED unanswered
        /\ UNCHANGED <<written, policy, window, revisions, learningFaults>>

\* The answer is stored only if the row is still the claim's.
finish_experience_stage(w) ==
    /\ Current(w)
    /\ stages[learner[w].stage].state = "running" /\ stages[learner[w].stage].by = w

\* The call returns with a result, with an observed refusal, or with an error that may have been
\* charged. A failed analysis ends the check; failed research leaves the report pending.
call(w, outcome) ==
    LET i == learner[w].stage
        stored == finish_experience_stage(w)
    IN  /\ learner[w].at = "calling"
        /\ outcome = "uncertain" => learningFaults < MaxLearningFaults
        /\ learningFaults' = IF outcome = "uncertain" THEN learningFaults + 1 ELSE learningFaults
        /\ stages' = IF stored THEN [stages EXCEPT ![i].state = outcome] ELSE stages
        /\ unanswered' = IF stored /\ outcome # "uncertain" THEN [unanswered EXCEPT ![i] = @ - 1]
                         ELSE unanswered
        /\ IF stored /\ outcome = "completed"
           THEN learner' = [learner EXCEPT ![w].stage = IF i = 1 THEN 2 ELSE 1,
                                           ![w].at = IF i = 1 THEN "staging" ELSE "saving"]
           ELSE IF stored /\ i = 2
           THEN learner' = [learner EXCEPT ![w].at = "saving", ![w].pending = TRUE]
           ELSE Ends(w)
        /\ UNCHANGED <<written, policy, window, revisions>>

\* process_claim: a renewal that finds the lease gone drops the work under way.
renew_experience(w) ==
    /\ learner[w].at \in {"reading", "staging", "calling", "saving"} /\ ~Current(w)
    /\ Ends(w)
    /\ UNCHANGED <<written, policy, window, stages, revisions, unanswered, learningFaults>>

activate_revision(rows, id) ==
    [i \in DOMAIN rows |->
        IF i = id THEN [rows[i] EXCEPT !.disposition = "active"]
        ELSE IF rows[i].disposition = "active" THEN [rows[i] EXCEPT !.disposition = "superseded"]
        ELSE rows[i]]

\* Wrong version: the result is stored whoever holds the lease by now.
SavesAnyway(w) == policy.enabled

\* What the row lock of the commit asks for: the token and the lease, not the generation.
MaySave(w) == policy.enabled /\ policy.token = w /\ policy.live

\* A final report moves the cursor, drops the window and may take effect, all with its row. A
\* pending one is stored under a digest of its own, without a checkpoint: its row is left out.
save_experience_candidate(w, passed) ==
    LET read == learner[w].window
        row == [generation |-> policy.generation, readAt |-> learner[w].generation,
                source |-> read.source, from |-> read.from, upto |-> read.upto,
                passed |-> passed, disposition |-> "candidate"]
        same == {i \in DOMAIN revisions : revisions[i].generation = row.generation
                     /\ revisions[i].source = row.source /\ revisions[i].from = row.from}
        activates == passed /\ ~read.more
        rows == Append(revisions, row)
    IN  /\ learner[w].at = "saving"
        /\ Ends(w)
        /\ IF MaySave(w) /\ ~learner[w].pending /\ same = {}
           THEN /\ revisions' = IF activates THEN activate_revision(rows, Len(rows)) ELSE rows
                /\ policy' = [policy EXCEPT !.cursor = read.cursor,
                                            !.active = IF activates THEN Len(rows) ELSE @]
                /\ window' = NoWindow /\ stages' = NoCheckpoints /\ unanswered' = NoCalls
           ELSE UNCHANGED <<revisions, policy, window, stages, unanswered>>
        /\ UNCHANGED <<written, learningFaults>>

\* finish_check: the lease is given back only if it is still this job's.
release_experience(w) ==
    /\ learner[w].at = "ended"
    /\ learner' = [learner EXCEPT ![w] = IdleLearner]
    /\ policy' = IF policy.token = w THEN [policy EXCEPT !.token = 0, !.live = FALSE]
                 ELSE policy
    /\ UNCHANGED <<written, window, stages, revisions, unanswered, learningFaults>>

-----------------------------------------------------------------------------
(* The owner.                                                              *)

NewGeneration(row) == [row EXCEPT !.generation = row.generation + 1, !.token = 0, !.live = FALSE]

\* The trigger of the policy table drops what an older generation reserved.
ClearCheckpoints ==
    /\ window' = NoWindow /\ stages' = NoCheckpoints /\ unanswered' = NoCalls

\* Reading starts over from the first record of every source.
StartsOver(row) == [row EXCEPT !.cursor = NothingRead, !.since = row.generation]

\* Turning trace cases on starts the reading over.
configure_experience(on, traces) ==
    /\ policy.generation < MaxGeneration
    /\ LET row == [NewGeneration(policy) EXCEPT !.enabled = on, !.traces = traces]
       IN  policy' = IF traces /\ ~policy.traces THEN StartsOver(row) ELSE row
    /\ ClearCheckpoints
    /\ UNCHANGED <<written, learner, revisions, learningFaults>>

\* So does the choice of another builder for decision programs.
configure_decisions(other) ==
    /\ policy.generation < MaxGeneration
    /\ policy' = IF other THEN StartsOver(NewGeneration(policy)) ELSE NewGeneration(policy)
    /\ ClearCheckpoints
    /\ UNCHANGED <<written, learner, revisions, learningFaults>>

\* id = 0: back to no learned instruction.
select_experience_revision(id) ==
    /\ policy.generation < MaxGeneration
    /\ id \in {0} \cup {i \in DOMAIN revisions : revisions[i].passed}
    /\ policy' = [NewGeneration(policy) EXCEPT !.active = id]
    /\ revisions' = activate_revision(revisions, id)
    /\ ClearCheckpoints
    /\ UNCHANGED <<written, learner, learningFaults>>

LearnerStep(w) ==
    \/ claim_experience(w) \/ review(w) \/ begin_experience_stage(w) \/ renew_experience(w)
    \/ \E o \in {"completed", "retryable", "uncertain"} : call(w, o)
    \/ \E passed \in BOOLEAN : save_experience_candidate(w, passed)
    \/ release_experience(w)

ExperienceNext ==
    \/ \E s \in LearningSources : RecordWritten(s)
    \/ LearningLeaseEnds
    \/ \E w \in Learners : LearnerStep(w) \/ LearnerStalls(w) \/ LearnerCrash(w)
    \/ \E on, traces \in BOOLEAN : configure_experience(on, traces)
    \/ \E other \in BOOLEAN : configure_decisions(other)
    \/ \E id \in 0 .. Len(revisions) : select_experience_revision(id)

-----------------------------------------------------------------------------
(* Properties.                                                             *)

\* An interrupted model call is not silently made again: at any time a stage of a window has at
\* most one dispatched call without a stored answer.
NotChargedAgain == \A i \in Stages : unanswered[i] <= 1

\* Every record up to the cursor is in exactly one window committed since the reading last started
\* over, and no record after it is: a cursor moves only with the report that read up to it,
\* whichever jobs lost their lease, or were reading from the old cursor, meanwhile.
ReadOnce ==
    \A s \in LearningSources, k \in 1 .. MaxRecords :
        Cardinality({i \in DOMAIN revisions :
            /\ revisions[i].source = s /\ revisions[i].generation >= policy.since
            /\ revisions[i].from < k /\ k <= revisions[i].upto}) = (IF k <= policy.cursor[s] THEN 1 ELSE 0)

\* A report is committed only under the settings its sources were read under, although the commit
\* compares the lease token and not the generation.
CommittedUnderItsSettings ==
    \A i \in DOMAIN revisions : revisions[i].readAt = revisions[i].generation

\* The revision the policy points at is the one marked active, and it passed its review.
ActiveAgrees ==
    \A i \in DOMAIN revisions :
        /\ revisions[i].disposition = "active" <=> i = policy.active
        /\ i = policy.active => revisions[i].passed

\* What only the owner can clear: learning turned off, or a model call that needs consent again.
AwaitsOwner ==
    \/ ~policy.enabled
    \/ \E i \in Stages : stages[i].state = "uncertain"
    \/ \E i \in Stages : stages[i].state = "retryable" /\ stages[i].attempts = MaxStageAttempts

\* Every record is learned from in the end, or the policy waits for its owner.
RecordsAreLearned ==
    \A s \in LearningSources, k \in 1 .. MaxRecords :
        (written[s] >= k) ~> (policy.cursor[s] >= k \/ AwaitsOwner)

-----------------------------------------------------------------------------
(***************************************************************************)
(* What one learning check concludes about a problem of an Agent: the      *)
(* windows read from the native transcript, the analyst's report and its   *)
(* verification against the records, the research and review that may put  *)
(* new guidance in force, and the recurrences that count against guidance. *)
(* A record is named by its offset, its place in the transcript. The       *)
(* analyst's answers are free choices. One problem key; guidance takes     *)
(* effect without measurement.                                             *)
(***************************************************************************)

CONSTANTS
    MaxTurns,      \* bound on turns of the Agent
    WindowSize,    \* records of a window (MAX_WINDOW_BYTES)
    MaxGuidance    \* bound on revisions

VARIABLES
    transcript,    \* the native records
    position,      \* the committed cursor
    inForce,       \* the active revision, 0 for none
    guidanceCount, \* revisions so far
    problem,       \* the experience_problem row and its observations
    recurrence     \* history: the last reported recurrence that counts

analysisVars == <<transcript, position, inForce, guidanceCount, problem, recurrence>>

NoRevision == 0
NoReference == 0
Refs == 1 .. (3 * MaxTurns)
NoRecurrence == [revision |-> NoRevision]
Unobserved == [prompt |-> NoRevision, episodes |-> {}]

AnalysisTypeOK ==
    /\ \A i \in DOMAIN transcript : transcript[i].kind \in {"user", "work"}
    /\ position \in 0 .. Len(transcript)
    /\ inForce \in 0 .. guidanceCount /\ guidanceCount \in 0 .. MaxGuidance
    /\ problem.prompt \in 0 .. guidanceCount /\ problem.episodes \subseteq Refs

AnalysisInit ==
    /\ transcript = <<>> /\ position = 0
    /\ inForce = NoRevision /\ guidanceCount = 0
    /\ problem = Unobserved
    /\ recurrence = NoRecurrence

\* A turn of three records: the user record carries the marker of the revision in force.
experience_for_turn ==
    /\ Len(transcript) < 3 * MaxTurns
    /\ transcript' = transcript \o <<[kind |-> "user", revision |-> inForce]>>
                        \o [i \in 1 .. 2 |-> [kind |-> "work", revision |-> NoRevision]]
    /\ UNCHANGED <<position, inForce, guidanceCount, problem, recurrence>>

-----------------------------------------------------------------------------
(* The window and the references a report may cite.                        *)

WindowEnd == IF position + WindowSize < Len(transcript) THEN position + WindowSize ELSE Len(transcript)

read_window == (position + 1) .. WindowEnd

more == WindowEnd < Len(transcript)

\* Earlier records of the session are recovered and verified on request.
references_before == 1 .. position

known_reference(ref) == ref \in read_window \cup references_before

IsMarker(ref, revision) ==
    transcript[ref].kind = "user" /\ transcript[ref].revision = revision

applied_before_failure(ref, revision, evidence) ==
    /\ ref \in read_window /\ IsMarker(ref, revision)
    /\ \E e \in evidence \cap read_window : e > ref

historical_applied_before_failure(ref, revision, evidence) ==
    /\ ref \in references_before /\ IsMarker(ref, revision)
    /\ evidence \cap read_window # {}

-----------------------------------------------------------------------------
(* The report.                                                             *)

\* A report names the objective's opener, evidence, and perhaps the record that shows the guidance
\* was given. Any other report is refused by verified, so these are the ones enumerated.
Reports ==
    {[observed |-> FALSE]} \cup
    {[observed |-> TRUE, episode |-> e, evidence |-> {a, b}, marker |-> m] :
        e, b \in read_window \cup references_before, a \in read_window,
        m \in {NoReference} \cup read_window \cup references_before}

Applied(r) ==
    /\ r.marker # NoReference /\ inForce # NoRevision
    /\ \/ applied_before_failure(r.marker, inForce, r.evidence)
       \/ historical_applied_before_failure(r.marker, inForce, r.evidence)

verified(r) ==
    r.observed =>
        /\ known_reference(r.episode)
        /\ \A ref \in r.evidence : known_reference(ref)
        /\ r.evidence \cap read_window # {}
        /\ r.marker = NoReference \/ Applied(r)

repeated_after_prompt(r) ==
    /\ r.observed /\ r.marker # NoReference
    /\ problem.prompt = inForce
    /\ problem.episodes # {} /\ r.episode \notin problem.episodes

\* A problem observed earlier that no guidance addresses is taken up at the end of the source.
PendingProblem(r) ==
    ~more /\ ~r.observed /\ problem.prompt = NoRevision /\ problem.episodes # {}

\* The problem is in this report, by itself or taken up.
Concerned(r) == r.observed \/ PendingProblem(r)

\* What is proposed: nothing before the end of the source or when research did not finish; after
\* research, what the adaptation returns; the current text when a recurrence counts.
Proposes(r, researched, adapted) ==
    /\ ~more
    /\ Concerned(r) => researched
    /\ adapted \/ repeated_after_prompt(r)

Intervention(old, new) == IF old # NoRevision THEN old ELSE new

\* analyze_window and the commit. A pending report stores its observation and keeps the window.
analyze_window(r) ==
    /\ position < Len(transcript) /\ verified(r)
    /\ \E researched, adapted, addressed, passed \in BOOLEAN :
         LET proposes == Proposes(r, researched, adapted)
             pending == ~more /\ Concerned(r) /\ ~researched
             activates == proposes /\ passed /\ guidanceCount < MaxGuidance
             id == guidanceCount + 1
             sets == activates /\ addressed /\ Concerned(r)
         IN  /\ researched => ~more /\ Concerned(r)
             /\ adapted => ~more
             /\ addressed => adapted /\ researched
             /\ passed => proposes
             /\ problem' = IF ~Concerned(r) THEN problem
                    ELSE [prompt |-> Intervention(problem.prompt, IF sets THEN id ELSE NoRevision),
                          episodes |-> problem.episodes \cup (IF r.observed THEN {r.episode} ELSE {})]
             /\ guidanceCount' = IF activates THEN id ELSE guidanceCount
             /\ inForce' = IF activates THEN id ELSE inForce
             /\ position' = IF pending THEN position ELSE WindowEnd
    /\ recurrence' = IF repeated_after_prompt(r)
                     THEN [revision |-> inForce, last |-> Max(r.evidence),
                           independent |-> problem.episodes # {} /\ r.episode \notin problem.episodes]
                     ELSE recurrence
    /\ UNCHANGED transcript

\* The owner selects another revision, or none.
Select(rev) ==
    /\ rev # inForce
    /\ inForce' = rev
    /\ UNCHANGED <<transcript, position, guidanceCount, problem, recurrence>>

AnalysisNext ==
    \/ experience_for_turn
    \/ \E r \in Reports : analyze_window(r)
    \/ \E rev \in 0 .. guidanceCount : Select(rev)

-----------------------------------------------------------------------------
(* Properties.                                                             *)

\* Whatever the analyst reports and wherever windows end, a recurrence counts against guidance
\* only if the guidance that addressed the problem was given before a cited record, in an
\* objective not observed before.
RecurrenceIsEarned ==
    recurrence # NoRecurrence =>
        /\ recurrence.revision = problem.prompt
        /\ recurrence.independent
        /\ \E m \in 1 .. (recurrence.last - 1) : IsMarker(m, recurrence.revision)

\* The first guidance that addressed a problem stays the intervention its recurrences are held
\* against, however often later reports address it again.
InterventionStays ==
    [][problem.prompt # NoRevision => problem'.prompt = problem.prompt]_analysisVars
=============================================================================
