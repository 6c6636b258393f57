--------------------------- MODULE DecisionPrograms ---------------------------
(***************************************************************************)
(* Finite decision programs: a learning job builds one from the training   *)
(* cases of a suite, tries it once on every case, and commits the report   *)
(* with its revision; the owner selects a validated program; an Agent's    *)
(* turn is first put to the selected program and only goes to the native   *)
(* Agent, with the answers it has not seen, when the program abstains.     *)
(* Meanwhile settings, selection and cases change, jobs stall and end, and *)
(* the provider answers under whatever model version it runs. One binding, *)
(* whose turns run one at a time; builder and judge keep their accounts,   *)
(* so a trial's context is its settings. Turns may be completed under all  *)
(* settings. A job that takes no further step stands for one that crashed. *)
(***************************************************************************)
EXTENDS Integers, Sequences, FiniteSets

CONSTANTS
    Builders,          \* claims of the policy by learning jobs, each used once
    Versions,          \* model versions the provider may answer under
    SuiteSize,         \* cases of a suite
    TrialBudget,       \* trials of one suite (4 in the code)
    HistoryLimit,      \* the Agent's messages read for the history (1024 in the code)
    MaxSettings,       \* bound on saved settings
    MaxCorpora,        \* bound on suites: corrections of cases
    MaxAgentMessages   \* bound on the messages of the Agent

VARIABLES
    decisionPolicy,   \* the experience_policy row
    trials,           \* suite, generation -> state and holder of its experience_decision_trial row
    corpus,           \* the current cases
    builder,          \* claim -> what its job is doing
    programs,         \* the committed experience_revision rows with a validated program, in order
    asking,           \* the turn, or the operator, that has the program answer
    history,          \* the Agent's messages in the conversation, since its last own one
    unseen,           \* history: finite answers no finished native turn was given
    tried             \* history: suite, generation -> case -> times it was put to a program

decisionVars == <<decisionPolicy, trials, corpus, builder, programs, asking, history, unseen, tried>>

Confidences == {1, 2}
Generations == 1 .. MaxSettings
Corpora == 1 .. MaxCorpora
OpenStates == {"reserved", "generating", "evaluating"}
NoReport == [status |-> "none"]
NoTrial == [state |-> "none", by |-> 0, report |-> NoReport]
IdleAsker == [at |-> "idle"]

DecisionTypeOK ==
    /\ decisionPolicy \in [enabled : BOOLEAN, confidence : {0} \cup Confidences, generation : Generations,
                           token : {0} \cup Builders, live : BOOLEAN, active : 0 .. Len(programs)]
    /\ \A k \in Corpora \X Generations : /\ trials[k].state \in {"none", "completed", "uncertain"} \cup OpenStates
                                          /\ trials[k].by \in {0} \cup Builders
    /\ \A w \in Builders : builder[w].at \in {"idle", "claimed", "reserved", "generating", "evaluating", "saving", "ended"}
    /\ \A i \in DOMAIN programs : programs[i].status \in {"validated", "evidence_changed"}
    /\ asking.at \in {"idle", "asked", "published", "reading", "native"}
    /\ \A i \in DOMAIN history : history[i] \in {"native", "decision"}

DecisionInit ==
    /\ decisionPolicy = [enabled |-> TRUE, confidence |-> 1, generation |-> 1, token |-> 0, live |-> FALSE, active |-> 0]
    /\ trials = [k \in Corpora \X Generations |-> NoTrial]
    /\ corpus = 1
    /\ builder = [w \in Builders |-> [at |-> "idle"]]
    /\ programs = <<>>
    /\ asking = IdleAsker
    /\ history = <<>> /\ unseen = 0
    /\ tried = [k \in Corpora \X Generations |-> [c \in 1 .. SuiteSize |-> 0]]

turnVars == <<asking, history, unseen>>

-----------------------------------------------------------------------------
(* A trial.                                                                *)

decision_claim_current(w) ==
    /\ decisionPolicy.enabled /\ decisionPolicy.confidence # 0
    /\ decisionPolicy.generation = builder[w].generation
    /\ decisionPolicy.token = w /\ decisionPolicy.live

\* The learning job has claimed the policy and analysed its window, which may have
\* corrected a case: the suite of the trial is the corrected one.
BuilderClaims(w) ==
    /\ builder[w].at = "idle" /\ \A v \in Builders : v < w => builder[v].at # "idle"
    /\ decisionPolicy.enabled /\ decisionPolicy.confidence # 0
    /\ decisionPolicy.token = 0 \/ ~decisionPolicy.live
    /\ decisionPolicy' = [decisionPolicy EXCEPT !.token = w, !.live = TRUE]
    /\ \E suite \in {corpus, corpus + 1} \cap Corpora :
         builder' = [builder EXCEPT ![w] = [at |-> "claimed", generation |-> decisionPolicy.generation,
                                            confidence |-> decisionPolicy.confidence, corpus |-> suite]]
    /\ UNCHANGED <<trials, corpus, programs, tried>> /\ UNCHANGED turnVars

\* external: a job is held up for longer than its lease.
BuilderStalls ==
    /\ decisionPolicy.token # 0 /\ decisionPolicy.live
    /\ decisionPolicy' = [decisionPolicy EXCEPT !.live = FALSE]
    /\ UNCHANGED <<trials, corpus, builder, programs, tried>> /\ UNCHANGED turnVars

Key(w) == <<builder[w].corpus, builder[w].generation>>
NewState(k, state) == trials' = [trials EXCEPT ![k].state = state]
Builder(w, at) == builder' = [builder EXCEPT ![w].at = at]

\* What the job commits with its revision.
Saves(w, report) == builder' = [builder EXCEPT ![w] = [at |-> "saving", generation |-> @.generation,
                                                       corpus |-> @.corpus, report |-> report]]

\* A trial is never taken over, whatever became of its job.
Existing(k) == trials[k].state # "none"

\* A trial another job left open becomes uncertain; the report of a completed one is
\* recovered. A suite has a bounded number of trials over all settings.
reserve_decision_program_trial(w) ==
    LET k == Key(w)
        rows == {g \in Generations : Existing(<<k[1], g>>)} IN
    /\ builder[w].at = "claimed"
    /\ \/ /\ ~decision_claim_current(w) \/ (~Existing(k) /\ Cardinality(rows) >= TrialBudget)
          /\ Saves(w, NoReport) /\ UNCHANGED trials
       \/ /\ decision_claim_current(w) /\ Existing(k)
          /\ Saves(w, trials[k].report)
          /\ IF trials[k].state \in OpenStates THEN NewState(k, "uncertain") ELSE UNCHANGED trials
       \/ /\ decision_claim_current(w) /\ ~Existing(k) /\ Cardinality(rows) < TrialBudget
          /\ trials' = [trials EXCEPT ![k] = [NoTrial EXCEPT !.state = "reserved", !.by = w]]
          /\ Builder(w, "reserved")
    /\ UNCHANGED <<decisionPolicy, corpus, programs, tried>> /\ UNCHANGED turnVars

\* A trial moves on only under the claim that holds it.
MayUpdate(w) == decision_claim_current(w) /\ trials[Key(w)].by = w /\ trials[Key(w)].state \in OpenStates

\* Otherwise the job gives the program up.
update_decision_program_trial(w, state, at) ==
    IF MayUpdate(w) THEN NewState(Key(w), state) /\ Builder(w, at)
    ELSE Saves(w, NoReport) /\ UNCHANGED trials

generate(w) ==
    /\ builder[w].at = "reserved"
    /\ update_decision_program_trial(w, "generating", "generating")
    /\ UNCHANGED <<decisionPolicy, corpus, programs, tried>> /\ UNCHANGED turnVars

\* Generation fails, finds nothing suitable, or returns a program to be tried.
generated(w) ==
    /\ builder[w].at = "generating"
    /\ \/ MayUpdate(w) /\ (\E state \in {"uncertain", "completed"} : NewState(Key(w), state)) /\ Saves(w, NoReport)
       \/ ~MayUpdate(w) /\ Saves(w, NoReport) /\ UNCHANGED trials
       \/ /\ MayUpdate(w) /\ NewState(Key(w), "evaluating")
          /\ builder' = [builder EXCEPT ![w] = [at |-> "evaluating", generation |-> @.generation, corpus |-> @.corpus,
                            confidence |-> @.confidence, case |-> 1, full |-> TRUE, resolved |-> 0, versions |-> {}]]
    /\ UNCHANGED <<decisionPolicy, corpus, programs, tried>> /\ UNCHANGED turnVars

\* One case: the claim is still in force, the program answers under some version of the
\* model, and its answer scores fully or not. A failed call or judge ends the trial.
evaluate(w) ==
    /\ builder[w].at = "evaluating" /\ builder[w].case <= SuiteSize
    /\ \/ ~decision_claim_current(w) /\ Saves(w, NoReport) /\ UNCHANGED tried
       \/ /\ decision_claim_current(w)
          /\ tried' = [tried EXCEPT ![Key(w)][builder[w].case] = @ + 1]
          /\ \/ /\ builder[w].full
                /\ \E version \in Versions :
                  builder' = [builder EXCEPT ![w].case = @ + 1, ![w].versions = @ \cup {version},
                                             ![w].resolved = IF @ = 0 THEN version ELSE @]
             \/ \E next \in {builder[w].case + 1, SuiteSize + 1} :
                  builder' = [builder EXCEPT ![w].case = next, ![w].full = FALSE, ![w].resolved = 0, ![w].versions = {}]
    /\ UNCHANGED <<decisionPolicy, trials, corpus, programs>> /\ UNCHANGED turnVars

\* Every case scored fully under the version of the first.
Passed(b) == b.full /\ b.versions = {b.resolved}

finish(w) ==
    LET b == builder[w]
        report == IF ~Passed(b) THEN NoReport
                  ELSE [status |-> "validated", corpus |-> b.corpus, confidence |-> b.confidence,
                        resolved |-> b.resolved, versions |-> b.versions] IN
    /\ b.at = "evaluating" /\ b.case > SuiteSize
    /\ IF MayUpdate(w)
       THEN /\ trials' = [trials EXCEPT ![Key(w)].state = "completed", ![Key(w)].report = report]
            /\ Saves(w, report)
       ELSE Saves(w, NoReport) /\ UNCHANGED trials
    /\ UNCHANGED <<decisionPolicy, corpus, programs, tried>> /\ UNCHANGED turnVars

\* The revision is committed under the claim. Corrections invalidate the programs that
\* were tried on the cases as they were, and deselect them.
Corrected(suite) == [i \in DOMAIN programs |->
    IF programs[i].status = "validated" /\ programs[i].corpus # suite
    THEN [programs[i] EXCEPT !.status = "evidence_changed"] ELSE programs[i]]

save_experience_candidate(w) ==
    LET b == builder[w]
        earlier == Corrected(b.corpus)
        active == decisionPolicy.active IN
    /\ b.at = "saving"
    /\ IF decisionPolicy.enabled /\ decisionPolicy.generation = b.generation /\ decisionPolicy.token = w /\ decisionPolicy.live
       THEN /\ corpus' = b.corpus
            /\ programs' = IF b.report.status = "none" THEN earlier ELSE Append(earlier, b.report)
            /\ decisionPolicy' = [decisionPolicy EXCEPT !.token = 0, !.live = FALSE,
                 !.active = IF active # 0 /\ earlier[active].status = "evidence_changed" THEN 0 ELSE active]
       ELSE UNCHANGED <<corpus, programs, decisionPolicy>>
    /\ builder' = [builder EXCEPT ![w] = [at |-> "ended"]]
    /\ UNCHANGED <<trials, tried>> /\ UNCHANGED turnVars

-----------------------------------------------------------------------------
(* The owner.                                                              *)

\* Wrong version: saving the settings leaves the selection as it is.
ConfiguresKeepingSelection(confidence) ==
    decisionPolicy' = [decisionPolicy EXCEPT !.confidence = confidence, !.generation = @ + 1, !.token = 0, !.live = FALSE]

Configures(confidence) ==
    decisionPolicy' = [decisionPolicy EXCEPT !.confidence = confidence, !.active = 0, !.generation = @ + 1,
                                             !.token = 0, !.live = FALSE]

configure_decisions ==
    /\ decisionPolicy.generation < MaxSettings
    /\ \E confidence \in {0} \cup Confidences : Configures(confidence)
    /\ UNCHANGED <<trials, corpus, builder, programs, tried>> /\ UNCHANGED turnVars

\* Learning is switched on or off.
configure_learning ==
    /\ decisionPolicy.generation < MaxSettings
    /\ decisionPolicy' = [decisionPolicy EXCEPT !.enabled = ~@, !.generation = @ + 1, !.token = 0, !.live = FALSE]
    /\ UNCHANGED <<trials, corpus, builder, programs, tried>> /\ UNCHANGED turnVars

Selectable(i) ==
    /\ decisionPolicy.confidence # 0
    /\ programs[i].status = "validated" /\ programs[i].confidence >= decisionPolicy.confidence

select_decision_program ==
    /\ \E i \in {0} \cup {j \in DOMAIN programs : Selectable(j)} :
         /\ i # decisionPolicy.active
         /\ decisionPolicy' = [decisionPolicy EXCEPT !.active = i]
    /\ UNCHANGED <<trials, corpus, builder, programs, tried>> /\ UNCHANGED turnVars

-----------------------------------------------------------------------------
(* Turns of the Agent and executions by an operator.                       *)

\* The selected program, or 0.
decision_for_turn ==
    LET i == decisionPolicy.active IN
    IF decisionPolicy.enabled /\ decisionPolicy.confidence # 0 /\ i # 0 /\ programs[i].status = "validated" THEN i ELSE 0

Native == [at |-> "reading"]

assist_turn(a) ==
    /\ asking.at = "idle" /\ decision_for_turn # 0
    /\ a = "turn" => Len(history) < MaxAgentMessages
    /\ asking' = [at |-> "asked", by |-> a, program |-> decision_for_turn]
    /\ UNCHANGED <<decisionPolicy, trials, corpus, builder, programs, tried, history, unseen>>

\* Without a program, and when it gives no answer within 5 s, the turn goes to the Agent.
native_turn ==
    /\ \/ asking.at = "idle" /\ decision_for_turn = 0
       \/ asking.at = "asked" /\ asking.by = "turn"
    /\ asking' = Native
    /\ UNCHANGED <<decisionPolicy, trials, corpus, builder, programs, tried, history, unseen>>

StillSelected(i) == decision_for_turn = i

\* The answer, if any, is published if the program is still the selected one and was answered
\* under the version it was tried with.
answered ==
    /\ asking.at = "asked"
    /\ \E version \in Versions :
         LET i == asking.program
             publish == StillSelected(i) /\ version = programs[i].resolved IN
         /\ asking' = CASE publish -> [at |-> "published", program |-> i, version |-> version]
                        [] ~publish /\ asking.by = "turn" -> Native
                        [] OTHER -> IdleAsker
         /\ IF publish /\ asking.by = "turn" THEN history' = Append(history, "decision") /\ unseen' = unseen + 1
            ELSE UNCHANGED <<history, unseen>>
    /\ UNCHANGED <<decisionPolicy, trials, corpus, builder, programs, tried>>

ask_again ==
    /\ asking.at = "published" /\ asking' = IdleAsker
    /\ UNCHANGED <<decisionPolicy, trials, corpus, builder, programs, tried, history, unseen>>

\* Answers since the Agent last spoke itself, as far back as its messages are read.
Recent == SubSeq(history, IF Len(history) > HistoryLimit + 1 THEN Len(history) - HistoryLimit ELSE 1, Len(history))
Spoken == {i \in DOMAIN Recent : Recent[i] = "native"}
Pending == Len(Recent) - (IF Spoken = {} THEN 0 ELSE CHOOSE i \in Spoken : \A j \in Spoken : j <= i)

HistoryFits == Pending = 0 \/ Spoken # {} \/ Len(Recent) <= HistoryLimit

\* A history that does not fit ends the turn.
decision_conversation_context ==
    /\ asking.at = "reading"
    /\ asking' = IF HistoryFits THEN [at |-> "native", given |-> Pending] ELSE IdleAsker
    /\ UNCHANGED <<decisionPolicy, trials, corpus, builder, programs, tried, history, unseen>>

\* external: the Agent replies to the turn, or the turn fails. Messages before a reply
\* of its own are never read again.
AgentReplies ==
    /\ asking.at = "native" /\ asking' = IdleAsker
    /\ \/ history' = <<"native">> /\ unseen' = 0
       \/ UNCHANGED <<history, unseen>>
    /\ UNCHANGED <<decisionPolicy, trials, corpus, builder, programs, tried>>

-----------------------------------------------------------------------------
DecisionNext ==
    \/ \E w \in Builders : \/ BuilderClaims(w) \/ reserve_decision_program_trial(w) \/ generate(w) \/ generated(w)
                           \/ evaluate(w) \/ finish(w) \/ save_experience_candidate(w)
    \/ BuilderStalls \/ configure_decisions \/ configure_learning \/ select_decision_program
    \/ \E a \in {"turn", "operator"} : assist_turn(a)
    \/ answered \/ ask_again \/ native_turn \/ decision_conversation_context \/ AgentReplies

-----------------------------------------------------------------------------
(* Properties.                                                             *)

\* A case is put to the program of a configuration once, whatever becomes of the job
\* that tries it, and at most TrialBudget configurations are tried on a suite: held-out
\* cases do not turn into a search.
TriedOnce ==
    /\ \A k \in DOMAIN tried : \A c \in 1 .. SuiteSize : tried[k][c] <= 1
    /\ \A suite \in Corpora : Cardinality({g \in Generations : \E c \in 1 .. SuiteSize : tried[<<suite, g>>][c] > 0}) <= TrialBudget

\* A published answer comes from a program all of whose cases were answered under the
\* very version of the model that gave the answer.
AnswersAreTested == asking.at = "published" => programs[asking.program].versions = {asking.version}

\* When an answer is published its program is the selected one, learning is on, it was
\* tried at no lower confidence than the settings ask for, and on the cases as they are.
PublishedAsSelected ==
    [][asking'.at = "published" /\ asking.at # "published" =>
        LET p == programs[asking'.program] IN
        /\ decisionPolicy.enabled /\ decisionPolicy.active = asking'.program
        /\ p.status = "validated" /\ p.corpus = corpus
        /\ decisionPolicy.confidence # 0 /\ p.confidence >= decisionPolicy.confidence]_decisionVars

\* A native turn is given every finite answer that no finished native turn was given;
\* when they are too many the turn is refused, never shortened.
AnswersReachTheAgent == asking.at = "native" => asking.given = unseen
=============================================================================
