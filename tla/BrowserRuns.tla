----------------------------- MODULE BrowserRuns -----------------------------
(***************************************************************************)
(* Automatic browser work: a request is matched against the owner's        *)
(* standing permission, admitted as a run, dispatched once to the device,  *)
(* carried out there step by step in a browser session of its own, and its *)
(* receipt is delivered to the Agent. Meanwhile permission is changed, the *)
(* run is stopped, the authorization ends (120 s), the receipt expires     *)
(* (150 s), requests are repeated, and gateway, link and device fail. All  *)
(* runs are of one learned workflow of one binding whose account stays the *)
(* same. The two generations of a permission, always compared together,    *)
(* are one number. A handler, task or message without a next step stands   *)
(* for one whose process or connection ended.                              *)
(***************************************************************************)
EXTENDS Integers, FiniteSets

CONSTANTS
    BrowserIds,            \* run ids chosen by the Agent
    BrowserCalls,          \* requests made to the gateways
    WorkflowSteps,         \* steps of the workflow
    MaxPermissionChanges,  \* bound on changes of permission or learning
    MaxBrowserFaults       \* bound on failures of the link, the device and the worker

VARIABLES
    standing,      \* browser_automation and experience_policy: on, learning, generation
    runs,          \* run id -> its browser_workflow_run row
    browserCall,   \* request -> where its handler is
    dispatches,      \* run -> the spawned task that waits for the device
    stops,         \* cancellations on their way to the device
    deviceRun,     \* run -> its entry in RUNS on the device
    session,       \* run -> the browser session working on it
    mutations,     \* history: run -> step -> commands sent to the browser
    stopped,       \* history: cancellations this device process has taken
    completion,    \* the completion worker: the receipt it is delivering
    told,          \* the Agent's commands: run -> outcome in its receipt
    browserFaults

browserVars == <<standing, runs, browserCall, dispatches, stops, deviceRun, session, mutations, stopped,
                 completion, told, browserFaults>>

Steps == 1 .. WorkflowSteps
NoRun == [status |-> "none"]
NoSession == [at |-> "none", step |-> 0]
IdleCall == [at |-> "idle"]
AnsweredCall == [at |-> "answered"]
Ready == standing.on /\ standing.learning
BrowserFault == browserFaults < MaxBrowserFaults /\ browserFaults' = browserFaults + 1

\* What a receipt shows.
Outcome(r) == IF runs[r].status = "running" /\ runs[r].time = "expired" THEN "outcome_unconfirmed" ELSE runs[r].status

BrowserTypeOK ==
    /\ standing \in [on : BOOLEAN, learning : BOOLEAN, generation : 0 .. MaxPermissionChanges]
    /\ \A r \in BrowserIds : runs[r] = NoRun \/
         runs[r] \in [status : {"running", "finished", "cancelled"}, matched : BOOLEAN, claimed : BOOLEAN,
                      time : {"authorized", "ended", "expired"}, notified : BOOLEAN,
                      generation : 0 .. MaxPermissionChanges, overtaken : BOOLEAN]
    /\ \A c \in BrowserCalls : browserCall[c].at \in {"idle", "matching", "admitted", "answered"}
    /\ dispatches \in [BrowserIds -> {"none", "calling", "sent", "failed", "matched", "unmatched", "over"}]
    /\ deviceRun \in [BrowserIds -> {"none", "admitted", "cancelled"}]
    /\ \A r \in BrowserIds : session[r].at \in
         {"none", "deciding", "invoking", "verifying", "closed"}
    /\ completion \in {0} \cup BrowserIds
    /\ told \in [BrowserIds -> {"none", "finished", "cancelled", "outcome_unconfirmed"}]

BrowserInit ==
    /\ standing = [on |-> TRUE, learning |-> TRUE, generation |-> 0]
    /\ runs = [r \in BrowserIds |-> NoRun]
    /\ browserCall = [c \in BrowserCalls |-> IdleCall]
    /\ dispatches = [r \in BrowserIds |-> "none"]
    /\ stops = {} /\ stopped = {}
    /\ deviceRun = [r \in BrowserIds |-> "none"]
    /\ session = [r \in BrowserIds |-> NoSession]
    /\ mutations = [r \in BrowserIds |-> [i \in Steps |-> 0]]
    /\ completion = 0
    /\ told = [r \in BrowserIds |-> "none"]
    /\ browserFaults = 0

----------------------------------------------------------------------------
\* The request handler.

\* Wrong version: only a run that is still working stands in the way of another.
SuspendedWhileRunning == \E r \in BrowserIds : runs[r].status = "running" /\ runs[r].time /= "expired"

\* A run of the workflow that is under way, failed or has an uncertain outcome.
Suspended == \E r \in BrowserIds : runs[r] /= NoRun /\ ~(runs[r].status = "finished" /\ runs[r].matched)

\* An existing run is answered as it is; otherwise permission is read, the workflow is
\* looked up in the catalog, and the provider is asked whether the task fits the scope.
\* Requests are numbered in the order they are made.
browser_run(c, r) ==
    /\ browserCall[c].at = "idle" /\ \A d \in BrowserCalls : d < c => browserCall[d].at /= "idle"
    /\ runs[r] = NoRun /\ Ready /\ ~Suspended
    /\ browserCall' = [browserCall EXCEPT ![c] = [at |-> "matching", run |-> r, generation |-> standing.generation,
                                                   overtaken |-> FALSE]]
    /\ UNCHANGED <<standing, runs, dispatches, stops, deviceRun, session, mutations, stopped, completion, told, browserFaults>>

\* The permission a request was matched, or a run was admitted, under is still in force.
StillPermitted(generation) == Ready /\ standing.generation = generation

\* A repeated request that was admitted meanwhile, a changed permission and a
\* suspended workflow end the request; so does a task that does not fit the scope.
admit_automatic_browser(c) ==
    LET r == browserCall[c].run IN
    /\ browserCall[c].at = "matching"
    /\ \/ /\ runs[r] = NoRun /\ StillPermitted(browserCall[c].generation) /\ ~Suspended
          /\ runs' = [runs EXCEPT ![r] = [status |-> "running", matched |-> FALSE, claimed |-> FALSE,
                                          time |-> "authorized", notified |-> FALSE, generation |-> standing.generation,
                                          overtaken |-> browserCall[c].overtaken]]
          /\ browserCall' = [browserCall EXCEPT ![c] = [at |-> "admitted", run |-> r]]
       \/ browserCall' = [browserCall EXCEPT ![c] = AnsweredCall] /\ UNCHANGED runs
    /\ UNCHANGED <<standing, dispatches, stops, deviceRun, session, mutations, stopped, completion, told, browserFaults>>

claim_browser_dispatch(c) ==
    LET r == browserCall[c].run
        row == runs[r] IN
    /\ browserCall[c].at = "admitted"
    /\ IF ~row.claimed /\ row.status = "running" /\ row.time = "authorized" /\ StillPermitted(row.generation)
       THEN runs' = [runs EXCEPT ![r].claimed = TRUE] /\ dispatches' = [dispatches EXCEPT ![r] = "calling"]
       ELSE UNCHANGED <<runs, dispatches>>
    /\ browserCall' = [browserCall EXCEPT ![c] = AnsweredCall]
    /\ UNCHANGED <<standing, stops, deviceRun, session, mutations, stopped, completion, told, browserFaults>>

\* The spawned task sends the request over the link.
launch(r) ==
    /\ dispatches[r] = "calling"
    /\ dispatches' = [dispatches EXCEPT ![r] = "sent"]
    /\ UNCHANGED <<standing, runs, browserCall, stops, deviceRun, session, mutations, stopped, completion, told, browserFaults>>

\* The link fails before or after the request arrived.
BrowserLinkFails(r) ==
    /\ dispatches[r] \in {"sent", "over"} /\ BrowserFault
    /\ dispatches' = [dispatches EXCEPT ![r] = "failed"]
    /\ UNCHANGED <<standing, runs, browserCall, stops, deviceRun, session, mutations, stopped, completion, told>>

Stored(r) == runs[r].status = "running" /\ runs[r].time /= "expired"

\* The answer is stored unless the run was stopped or its receipt expired.
finish_browser_workflow(r) ==
    /\ dispatches[r] \in {"failed", "matched", "unmatched"}
    /\ runs' = IF Stored(r)
               THEN [runs EXCEPT ![r].status = "finished", ![r].matched = (dispatches[r] = "matched")] ELSE runs
    /\ dispatches' = [dispatches EXCEPT ![r] = "none"]
    /\ UNCHANGED <<standing, browserCall, stops, deviceRun, session, mutations, stopped, completion, told, browserFaults>>

----------------------------------------------------------------------------
\* The owner.

\* history: requests and undispatched runs that a change of permission overtakes.
OvertakenCalls == [c \in BrowserCalls |->
    IF browserCall[c].at = "matching" THEN [browserCall[c] EXCEPT !.overtaken = TRUE] ELSE browserCall[c]]
OvertakenRuns(rows) == [r \in BrowserIds |->
    IF rows[r] /= NoRun /\ ~rows[r].claimed THEN [rows[r] EXCEPT !.overtaken = TRUE] ELSE rows[r]]

\* Permission is saved or taken away: what is under way is cancelled and the device told.
configure_browser_automation ==
    /\ standing.generation < MaxPermissionChanges
    /\ \E on \in BOOLEAN :
         /\ on => standing.learning
         /\ standing' = [standing EXCEPT !.on = on, !.generation = @ + 1]
    /\ LET running == {r \in BrowserIds : runs[r].status = "running"} IN
       /\ runs' = OvertakenRuns([r \in BrowserIds |->
                     IF r \in running THEN [runs[r] EXCEPT !.status = "cancelled"] ELSE runs[r]])
       /\ stops' = stops \cup {r \in running : runs[r].time /= "expired"}
    /\ browserCall' = OvertakenCalls
    /\ UNCHANGED <<dispatches, deviceRun, session, mutations, stopped, completion, told, browserFaults>>

\* Learning or its decision settings are saved: admitted runs are not cancelled.
configure_browser_learning ==
    /\ standing.generation < MaxPermissionChanges
    /\ \E on \in BOOLEAN : standing' = [standing EXCEPT !.learning = on, !.generation = @ + 1]
    /\ runs' = OvertakenRuns(runs)
    /\ browserCall' = OvertakenCalls
    /\ UNCHANGED <<dispatches, stops, deviceRun, session, mutations, stopped, completion, told, browserFaults>>

cancel_browser_workflow(r) ==
    /\ runs[r].status = "running"
    /\ runs' = [runs EXCEPT ![r].status = "cancelled"]
    /\ stops' = IF runs[r].time = "expired" THEN stops ELSE stops \cup {r}
    /\ UNCHANGED <<standing, browserCall, dispatches, deviceRun, session, mutations, stopped, completion, told, browserFaults>>

\* Time passes for a run. The device's timer ends the work before the receipt expires;
\* its entry, kept five minutes, and a cancellation still on its way have no effect then.
BrowserTime(r) ==
    /\ runs[r] /= NoRun
    /\ \/ /\ runs[r].time = "authorized" /\ runs' = [runs EXCEPT ![r].time = "ended"]
          /\ UNCHANGED <<stops, deviceRun, stopped>>
       \/ /\ runs[r].time = "ended" /\ session[r].at \in {"none", "closed"}
          /\ runs' = [runs EXCEPT ![r].time = "expired"]
          /\ deviceRun' = [deviceRun EXCEPT ![r] = "none"]
          /\ stopped' = stopped \ {r} /\ stops' = stops \ {r}
    /\ UNCHANGED <<standing, browserCall, dispatches, session, mutations, completion, told, browserFaults>>

----------------------------------------------------------------------------
\* The device.

\* The signal of a run, or the tombstone of one that has not come yet.
CancelEntry(entry) == "cancelled"

cancel(r) ==
    /\ r \in stops /\ stops' = stops \ {r}
    /\ deviceRun' = [deviceRun EXCEPT ![r] = CancelEntry(@)]
    /\ stopped' = stopped \cup {r}
    /\ UNCHANGED <<standing, runs, browserCall, dispatches, session, mutations, completion, told, browserFaults>>

\* A request that is too late, was seen before or was cancelled is refused.
admitted(r) ==
    /\ dispatches[r] = "sent"
    /\ IF runs[r].time = "authorized" /\ deviceRun[r] = "none"
       THEN /\ deviceRun' = [deviceRun EXCEPT ![r] = "admitted"]
            /\ session' = [session EXCEPT ![r] = [at |-> "deciding", step |-> 1, stopped |-> r \in stopped]]
            /\ dispatches' = [dispatches EXCEPT ![r] = "over"]
       ELSE dispatches' = [dispatches EXCEPT ![r] = "unmatched"] /\ UNCHANGED <<deviceRun, session>>
    /\ UNCHANGED <<standing, runs, browserCall, stops, mutations, stopped, completion, told, browserFaults>>

\* The authorization ended or the run was cancelled: its future is dropped.
Dropped(r) == deviceRun[r] /= "admitted" \/ runs[r].time /= "authorized"
At(r, at) == session' = [session EXCEPT ![r].at = at]

\* The page is looked at once more and, if it is still the one observed, sent one
\* command, which is never repeated.
apply(r) ==
    /\ session[r].at = "deciding" /\ At(r, "invoking")
    /\ mutations' = [mutations EXCEPT ![r][session[r].step] = @ + 1]

\* A step observes the page, has a target chosen among the approved ones and acts on it.
run_steps(r) ==
    /\ ~Dropped(r)
    /\ \/ apply(r)
       \/ /\ session[r].at = "invoking" /\ UNCHANGED mutations
          /\ session' = [session EXCEPT ![r] =
               IF @.step < WorkflowSteps THEN [@ EXCEPT !.at = "deciding", !.step = @ + 1] ELSE [@ EXCEPT !.at = "verifying"]]
    /\ UNCHANGED <<standing, runs, browserCall, dispatches, stops, deviceRun, stopped, completion, told, browserFaults>>

\* The workflow ends, and its session with it: the last page shows the expected text; or
\* it does not, a page was out of scope, a target absent or ambiguous, a decision handed
\* back, the page changed during inference, or a command failed, having acted or not.
close_session(r) ==
    /\ session[r].at \notin {"none", "closed"}
    /\ \E text \in BOOLEAN :
         /\ text => session[r].at = "verifying" /\ ~Dropped(r)
         /\ dispatches' = IF dispatches[r] /= "over" THEN dispatches
                        ELSE [dispatches EXCEPT ![r] = IF text THEN "matched" ELSE "unmatched"]
    /\ At(r, "closed")
    /\ UNCHANGED <<standing, runs, browserCall, stops, deviceRun, mutations, stopped, completion, told, browserFaults>>

\* The device process ends: its entries and sessions are gone, and what was on the link.
DeviceRestarts ==
    /\ BrowserFault
    /\ deviceRun' = [r \in BrowserIds |-> "none"] /\ stopped' = {}
    /\ session' = [r \in BrowserIds |-> IF session[r].at = "none" THEN NoSession ELSE [session[r] EXCEPT !.at = "closed"]]
    /\ dispatches' = [r \in BrowserIds |-> IF dispatches[r] \in {"sent", "over"} THEN "failed" ELSE dispatches[r]]
    /\ UNCHANGED <<standing, runs, browserCall, stops, mutations, completion, told>>

----------------------------------------------------------------------------
\* The completion worker.

Due(r) == runs[r] /= NoRun /\ ~runs[r].notified /\ (runs[r].status /= "running" \/ runs[r].time = "expired")

\* The Agent is told under the run's own message id, unless permission is gone.
deliver(r) ==
    /\ completion = 0 /\ Due(r)
    /\ completion' = r
    /\ told' = IF Ready /\ told[r] = "none" THEN [told EXCEPT ![r] = Outcome(r)] ELSE told
    /\ UNCHANGED <<standing, runs, browserCall, dispatches, stops, deviceRun, session, mutations, stopped, browserFaults>>

mark_browser_notified ==
    /\ completion /= 0
    /\ runs' = [runs EXCEPT ![completion].notified = TRUE]
    /\ completion' = 0
    /\ UNCHANGED <<standing, browserCall, dispatches, stops, deviceRun, session, mutations, stopped, told, browserFaults>>

CompletionCrashes ==
    /\ completion /= 0 /\ completion' = 0 /\ BrowserFault
    /\ UNCHANGED <<standing, runs, browserCall, dispatches, stops, deviceRun, session, mutations, stopped, told>>

----------------------------------------------------------------------------
CompletionStep == mark_browser_notified \/ \E r \in BrowserIds : deliver(r)

BrowserNext ==
    \/ \E c \in BrowserCalls : \/ admit_automatic_browser(c) \/ claim_browser_dispatch(c)
                               \/ \E r \in BrowserIds : browser_run(c, r)
    \/ \E r \in BrowserIds : \/ launch(r) \/ BrowserLinkFails(r) \/ finish_browser_workflow(r)
                             \/ cancel_browser_workflow(r) \/ BrowserTime(r) \/ cancel(r) \/ admitted(r)
                             \/ run_steps(r) \/ close_session(r)
    \/ configure_browser_automation \/ configure_browser_learning \/ DeviceRestarts
    \/ CompletionStep \/ CompletionCrashes

----------------------------------------------------------------------------
\* Properties.

\* No step of a workflow is sent to the browser twice: not by a repeated request, not by
\* another run id while an earlier run failed or its outcome is unknown ("do not repeat
\* uncertain actions"), whatever crashes, expires or is stopped in between.
NeverRepeated ==
    /\ \A r \in BrowserIds, i \in Steps : mutations[r][i] <= 1
    /\ \A q, r \in BrowserIds : q /= r /\ mutations[q][1] > 0 /\ mutations[r][1] > 0 =>
         \E s \in {q, r} : runs[s].status = "finished" /\ runs[s].matched

\* A run whose cancellation the device took before the request itself never opens a browser.
StoppedBeforeStart == \A r \in BrowserIds : session[r].at /= "none" => ~session[r].stopped

\* A run is dispatched under the permission its request was matched under: had it been
\* changed in between, back and forth or not, nothing is sent.
DispatchedAsMatched == \A r \in BrowserIds : runs[r] /= NoRun /\ runs[r].claimed => ~runs[r].overtaken

\* What the Agent was told stays true: a receipt without a confirmed outcome is never
\* followed by a finished one, and a finished run is not reported as anything else.
ReceiptIsFinal == \A r \in BrowserIds :
    /\ told[r] = "outcome_unconfirmed" => runs[r].status \in {"running", "cancelled"}
    /\ told[r] \in {"finished", "cancelled"} => runs[r].status = told[r]

\* Every admitted run comes to an end the completion worker handles, also when its
\* gateway, its link or its device is gone.
ReceiptsAreDelivered == \A r \in BrowserIds : runs[r] /= NoRun ~> runs[r] /= NoRun /\ runs[r].notified
=============================================================================
