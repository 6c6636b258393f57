---------------------------- MODULE PipelineSteps ---------------------------
(* One transaction of the store, and one step of the pipeline, for any      *)
(* number of commands, sessions, agents, hosts, leases, faults and crashes. *)
(*                                                                          *)
(* First the theorems about SessionStore.  They rest on one observation     *)
(* about single transactions, StepShape: a transaction either leaves a      *)
(* command's lease as it is (or clears it), or issues a new one whose       *)
(* attempt and epoch are both the newest of the store and of the session.   *)
(*                                                                          *)
(* Then what a step of the pipeline does to the tables, what to the memory  *)
(* of the loops, and what both mean for one command.                        *)
EXTENDS Pipeline, TLAPS

\* The lease of command c is kept or cleared.
Keeps(c) ==
    /\ cmd'[c].attempt \in {0, cmd[c].attempt}
    /\ cmd'[c].epoch \in {0, cmd[c].epoch}
    /\ cmd'[c].attempt # 0 => cmd'[c].epoch = cmd[c].epoch

\* Command c is leased by this step.
Leases(c) ==
    /\ cmd'[c].attempt = lease + 1
    /\ lease' = lease + 1
    /\ cmd'[c].epoch = session[SessionOf[c]].epoch + 1
    /\ session'[SessionOf[c]].epoch = session[SessionOf[c]].epoch + 1

StepShape ==
    /\ \A c \in Commands : Keeps(c) \/ Leases(c)
    /\ \A s \in Sessions : session'[s].epoch >= session[s].epoch
    /\ lease' >= lease

StoreInv == StoreTypeOK /\ EpochsIssued /\ LeaseOrder

USE CommandsAssumption, KeysAssumption, BoundsAssumption

\* Zenon proves a leaf that does not ask for another prover.
USE ZenonT(30)

-----------------------------------------------------------------------------
(* Rows: what a changed status, attempt or heartbeat leaves of a row.      *)
LEMMA StatusRow ==
    ASSUME NEW q \in CommandRow, NEW st \in CommandStatus
    PROVE  /\ [q EXCEPT !.status = st] \in CommandRow
           /\ [q EXCEPT !.status = st].attempt = q.attempt
           /\ [q EXCEPT !.status = st].epoch = q.epoch
  BY DEF CommandRow

LEMMA CommandChange ==
    ASSUME StoreTypeOK, NEW c \in Commands, NEW r \in CommandRow,
           r.attempt \in {0, cmd[c].attempt}, r.epoch = cmd[c].epoch,
           cmd' = [cmd EXCEPT ![c] = r]
    PROVE  cmd' \in [Commands -> CommandRow] /\ \A d \in Commands : Keeps(d)
  <1>1. cmd \in [Commands -> CommandRow]
    BY DEF StoreTypeOK
  <1>2. cmd' \in [Commands -> CommandRow]
    BY <1>1
  <1>3. ASSUME NEW d \in Commands PROVE Keeps(d)
    <2>1. cmd'[d] = IF d = c THEN r ELSE cmd[d]
      BY <1>1
    <2> QED BY <2>1 DEF Keeps
  <1> QED BY <1>2, <1>3

LEMMA SessionChange ==
    ASSUME StoreTypeOK, NEW s \in Sessions, NEW r \in SessionRow,
           r.epoch = session[s].epoch, session' = [session EXCEPT ![s] = r]
    PROVE  /\ session' \in [Sessions -> SessionRow]
           /\ \A q \in Sessions : session'[q].epoch = session[q].epoch
  <1>1. session \in [Sessions -> SessionRow]
    BY DEF StoreTypeOK
  <1> QED BY <1>1

(* Closing a command keeps the tables well typed and every lease as it is. *)
LEMMA FinishShape ==
    ASSUME StoreTypeOK, NEW c \in Commands, NEW clear \in BOOLEAN,
           NEW st \in CommandStatus, Finish(c, st, clear)
    PROVE  /\ cmd' \in [Commands -> CommandRow]
           /\ session' \in [Sessions -> SessionRow]
           /\ \A d \in Commands : Keeps(d)
           /\ \A s \in Sessions : session'[s].epoch = session[s].epoch
  <1>1. cmd' \in [Commands -> CommandRow] /\ \A d \in Commands : Keeps(d)
    <2> DEFINE a == IF clear THEN 0 ELSE cmd[c].attempt
               r == [cmd[c] EXCEPT !.status = st, !.attempt = a]
    <2>1. cmd[c] \in CommandRow /\ a \in Nat /\ a \in {0, cmd[c].attempt}
      BY DEF StoreTypeOK, CommandRow
    <2>2. cmd' = [cmd EXCEPT ![c] = r]
      BY DEF Finish
    <2> HIDE DEF a
    <2>3. r = [cmd[c] EXCEPT !.status = st, !.attempt = a]
      OBVIOUS
    <2> HIDE DEF r
    <2>4. r \in CommandRow /\ r.attempt = a /\ r.epoch = cmd[c].epoch
      BY <2>1, <2>3 DEF CommandRow
    <2> QED BY <2>1, <2>2, <2>4, CommandChange
  <1>2. session' \in [Sessions -> SessionRow]
        /\ \A s \in Sessions : session'[s].epoch = session[s].epoch
    <2> DEFINE r == [session[SessionOf[c]] EXCEPT !.status = "idle", !.beat = "null"]
    <2>1. SessionOf[c] \in Sessions /\ session[SessionOf[c]] \in SessionRow
      BY DEF StoreTypeOK
    <2>2. session' = session \/ session' = [session EXCEPT ![SessionOf[c]] = r]
      BY DEF Finish, ReleasedSession
    <2>5. r = [session[SessionOf[c]] EXCEPT !.status = "idle", !.beat = "null"]
      OBVIOUS
    <2> HIDE DEF r
    <2>3. r \in SessionRow /\ r.epoch = session[SessionOf[c]].epoch
      BY <2>1, <2>5 DEF SessionRow
    <2>4. CASE session' = session
      BY <2>4 DEF StoreTypeOK
    <2> QED BY <2>1, <2>2, <2>3, <2>4, SessionChange
  <1> QED BY <1>1, <1>2

(* A lease transaction over the batch B.                                   *)
LEMMA LeaseShape ==
    ASSUME StoreTypeOK, NEW B \in SUBSET Commands, LeaseRows(B)
    PROVE  /\ cmd' \in [Commands -> CommandRow]
           /\ session' \in [Sessions -> SessionRow]
           /\ lease' \in Nat
           /\ StepShape
  <1>1. ASSUME NEW s \in Sessions
        PROVE  session'[s] \in SessionRow /\ session'[s].epoch >= session[s].epoch
    <2> DEFINE new == [epoch |-> session[s].epoch + 1, status |-> "active", beat |-> "fresh"]
    <2>1. session[s] \in SessionRow
      BY DEF StoreTypeOK
    <2>2. session'[s] = IF \E c \in B : SessionOf[c] = s THEN new ELSE session[s]
      BY DEF LeaseRows
    <2>3. new \in SessionRow /\ new.epoch >= session[s].epoch
      BY <2>1, SMT DEF SessionRow
    <2> HIDE DEF new
    <2> QED BY <2>1, <2>2, <2>3, SMT DEF SessionRow
  <1>2. session' \in [Sessions -> SessionRow]
    BY <1>1 DEF LeaseRows
  <1>3. ASSUME NEW c \in Commands
        PROVE  cmd'[c] \in CommandRow /\ (Keeps(c) \/ Leases(c))
    <2>1. cmd[c] \in CommandRow /\ session[SessionOf[c]].epoch \in Nat /\ lease \in Nat
      BY DEF StoreTypeOK, SessionRow
    <2>2. CASE c \in B
      <3>1. cmd'[c] = [cmd[c] EXCEPT !.status = "leased", !.attempt = lease + 1,
                                    !.epoch = session[SessionOf[c]].epoch + 1,
                                    !.count = @ + 1]
        BY <2>2 DEF LeaseRows
      <3>2. session'[SessionOf[c]].epoch = session[SessionOf[c]].epoch + 1
        BY <2>2 DEF LeaseRows
      <3>3. cmd'[c] \in CommandRow
        <4>1. cmd'[c] = [status |-> "leased", attempt |-> lease + 1,
                         epoch |-> session[SessionOf[c]].epoch + 1,
                         count |-> cmd[c].count + 1, max |-> cmd[c].max,
                         host |-> cmd[c].host]
          BY <2>1, <3>1 DEF CommandRow
        <4>2. "leased" \in CommandStatus
          BY DEF CommandStatus, Open, Active
        <4> QED BY <2>1, <4>1, <4>2, SMT DEF CommandRow
      <3>4. Leases(c)
        BY <2>1, <3>1, <3>2 DEF Leases, LeaseRows, CommandRow
      <3> QED BY <3>3, <3>4
    <2>3. CASE c \notin B
      BY <2>1, <2>3 DEF LeaseRows, CommandRow, Keeps
    <2> QED BY <2>2, <2>3
  <1>4. cmd' \in [Commands -> CommandRow]
    BY <1>3 DEF LeaseRows
  <1>5. lease' \in Nat /\ lease' >= lease
    <2>1. lease' = lease + 1 /\ lease \in Nat
      BY DEF LeaseRows, StoreTypeOK
    <2> QED BY <2>1, SMT
  <1> QED BY <1>1, <1>2, <1>3, <1>4, <1>5 DEF StepShape

(* Fencing the sessions of a set of commands (device removal, move).       *)
LEMMA FencedShape ==
    ASSUME StoreTypeOK, NEW S \in SUBSET Commands, session' = FencedSessions(S)
    PROVE  /\ session' \in [Sessions -> SessionRow]
           /\ \A s \in Sessions : session'[s].epoch >= session[s].epoch
  <1>1. ASSUME NEW s \in Sessions
        PROVE  session'[s] \in SessionRow /\ session'[s].epoch >= session[s].epoch
    <2> DEFINE new == [epoch |-> session[s].epoch + 1, status |-> "idle", beat |-> "null"]
    <2>1. session[s] \in SessionRow
      BY DEF StoreTypeOK
    <2>2. session'[s] = IF \E c \in S : SessionOf[c] = s THEN new ELSE session[s]
      BY DEF FencedSessions
    <2>3. new \in SessionRow /\ new.epoch >= session[s].epoch
      BY <2>1, SMT DEF SessionRow
    <2> HIDE DEF new
    <2> QED BY <2>1, <2>2, <2>3, SMT DEF SessionRow
  <1>2. session' \in [Sessions -> SessionRow]
    BY <1>1 DEF FencedSessions
  <1> QED BY <1>1, <1>2

(* Every transaction keeps the rows well typed and has the step shape.     *)
LEMMA SessionSteps ==
    ASSUME StoreTypeOK, NEW s \in Sessions, NEW e \in Nat,
           upsert_session(s) \/ Age(s) \/ update_session_heartbeat_for_epoch(s, e)
    PROVE  StoreTypeOK' /\ StepShape
  <1>1. /\ session' \in [Sessions -> SessionRow]
        /\ \A r \in Sessions : session'[r].epoch = session[r].epoch
        /\ UNCHANGED <<cmd, letters, replied, lease, binding, disabled, revoked, removal>>
    <2>1. /\ \/ session' = [session EXCEPT ![s].status = "idle"]
             \/ session' = [session EXCEPT ![s].beat = "fresh"]
             \/ session' = [session EXCEPT ![s].beat = "stale"]
          /\ UNCHANGED <<cmd, letters, replied, lease, binding, disabled, revoked, removal>>
      BY DEF upsert_session, Age, update_session_heartbeat_for_epoch, Placement
    <2>2. session[s] \in SessionRow
      BY DEF StoreTypeOK
    <2>3. ASSUME NEW r, r \in {[session[s] EXCEPT !.status = "idle"],
                              [session[s] EXCEPT !.beat = "fresh"],
                              [session[s] EXCEPT !.beat = "stale"]}
          PROVE  r \in SessionRow /\ r.epoch = session[s].epoch
      BY <2>2, <2>3 DEF SessionRow
    <2>4. \E r \in {[session[s] EXCEPT !.status = "idle"],
                    [session[s] EXCEPT !.beat = "fresh"],
                    [session[s] EXCEPT !.beat = "stale"]} : session' = [session EXCEPT ![s] = r]
      BY <2>1
    <2> QED BY <2>1, <2>3, <2>4, SessionChange
  <1>2. \A c \in Commands : Keeps(c)
    BY <1>1 DEF Keeps, StoreTypeOK
  <1>3. \A r \in Sessions : session'[r].epoch >= session[r].epoch
    BY <1>1, SMT DEF StoreTypeOK, SessionRow
  <1> QED BY <1>1, <1>2, <1>3, SMT DEF StoreTypeOK, StepShape

LEMMA FencedSteps ==
    ASSUME StoreTypeOK, NEW c \in Commands, NEW a \in Attempts, FencedWrite(c, a)
    PROVE  StoreTypeOK' /\ StepShape
  <1>0. {"started", "heartbeating", "retry_scheduled", "committed", "dead_letter",
         "succeeded", "pending"} \subseteq CommandStatus
    BY DEF CommandStatus, Open, Active, Terminal
  <1>1. CASE insert_reply_event(c, a)
    <2>1. UNCHANGED <<session, cmd, lease>> /\ StoreTypeOK'
      BY <1>1 DEF insert_reply_event, StoreTypeOK, Placement
    <2> QED BY <2>1, SMT DEF StepShape, Keeps, StoreTypeOK, SessionRow, CommandRow
  <1> DEFINE Rest == /\ letters' \in [Commands -> Nat]
                     /\ UNCHANGED <<replied, lease, binding, disabled, revoked, removal>>
  <1>2. ASSUME NEW st \in CommandStatus, cmd' = [cmd EXCEPT ![c].status = st],
               UNCHANGED session, Rest
        PROVE  StoreTypeOK' /\ StepShape
    <2>1. cmd' \in [Commands -> CommandRow] /\ \A d \in Commands : Keeps(d)
      <3>1. cmd[c] \in CommandRow
        BY DEF StoreTypeOK
      <3> QED BY <1>2, <3>1, StatusRow, CommandChange
    <2> QED BY <1>2, <2>1, SMT DEF StoreTypeOK, StepShape, SessionRow
  <1>3. ASSUME NEW st \in CommandStatus, NEW clear \in BOOLEAN, Finish(c, st, clear), Rest
        PROVE  StoreTypeOK' /\ StepShape
    BY <1>3, FinishShape, SMT DEF StoreTypeOK, StepShape, SessionRow
  <1>4. WriteLetter(c) => letters' \in [Commands -> Nat]
    BY SMT DEF WriteLetter, StoreTypeOK
  <1>5. CASE \E st \in {"started", "heartbeating", "retry_scheduled"} :
               update_command_status_for_attempt(c, a, st)
    BY <1>0, <1>2, <1>3, <1>5 DEF update_command_status_for_attempt, Placement, StoreTypeOK
  <1>6. CASE mark_command_succeeded_for_attempt(c, a)
    BY <1>0, <1>2, <1>6 DEF mark_command_succeeded_for_attempt, Placement, StoreTypeOK
  <1>7. CASE mark_command_committed_for_attempt(c, a)
    BY <1>0, <1>3, <1>7 DEF mark_command_committed_for_attempt, Placement, StoreTypeOK
  <1>8. CASE dead_letter_command_for_attempt(c, a)
    BY <1>0, <1>3, <1>4, <1>8 DEF dead_letter_command_for_attempt, Placement, StoreTypeOK
  <1> QED BY <1>1, <1>5, <1>6, <1>7, <1>8 DEF FencedWrite

LEMMA LetterShape ==
    ASSUME StoreTypeOK, NEW c \in Commands, insert_dead_letter(c)
    PROVE  StoreTypeOK' /\ StepShape
<1>1. StoreTypeOK' /\ UNCHANGED <<session, cmd, lease>>
  BY SMT DEF insert_dead_letter, WriteLetter, StoreTypeOK, Placement
<1> QED
  BY <1>1, SMT DEF StepShape, Keeps, StoreTypeOK, SessionRow, CommandRow

(* The transactions that start, requeue or administratively close work.    *)
LEMMA SchedulerSteps ==
    ASSUME StoreTypeOK, NEW c \in Commands, insert_command(c) \/ SchedulerWrite(c)
    PROVE  StoreTypeOK' /\ StepShape
  <1>0. {"pending", "dead_letter"} \subseteq CommandStatus
    BY DEF CommandStatus, Open, Terminal
  <1>1. CASE insert_command(c)
    <2>1. binding[AgentOfCommand(c)] \in Hosts \cup {Local}
      BY DEF StoreTypeOK, AgentOfCommand
    <2> DEFINE h == binding[AgentOfCommand(c)]
    <2>2. cmd' = [cmd EXCEPT ![c].status = "pending", ![c].host = h]
          /\ UNCHANGED <<session, letters, replied, lease, binding, disabled, revoked, removal>>
      BY <1>1 DEF insert_command, Placement
    <2> HIDE DEF h
    <2>3. ASSUME NEW d \in Commands PROVE cmd'[d] \in CommandRow /\ Keeps(d)
      <3>1. cmd[d] \in CommandRow /\ h \in Hosts \cup {Local}
        BY <2>1 DEF StoreTypeOK, h
      <3>2. d # c => cmd'[d] = cmd[d]
        BY <2>2 DEF StoreTypeOK
      <3>3. d = c => cmd'[d] = [status |-> "pending", attempt |-> cmd[d].attempt,
                                epoch |-> cmd[d].epoch, count |-> cmd[d].count,
                                max |-> cmd[d].max, host |-> h]
        BY <2>2, <3>1 DEF StoreTypeOK, CommandRow
      <3> QED BY <1>0, <3>1, <3>2, <3>3, SMT DEF CommandRow, Keeps
    <2>4. cmd' \in [Commands -> CommandRow]
      BY <2>2, <2>3 DEF StoreTypeOK
    <2> QED BY <2>2, <2>3, <2>4, SMT DEF StoreTypeOK, StepShape, SessionRow
  <1>2. CASE ResetToPending(c)
    <2>1. cmd' = [cmd EXCEPT ![c].status = "pending"]
          /\ UNCHANGED <<session, letters, replied, lease, binding, disabled, revoked, removal>>
      BY <1>2 DEF ResetToPending, Placement
    <2>2. cmd' \in [Commands -> CommandRow] /\ \A d \in Commands : Keeps(d)
      <3>1. cmd[c] \in CommandRow
        BY DEF StoreTypeOK
      <3> QED BY <1>0, <2>1, <3>1, StatusRow, CommandChange
    <2> QED BY <2>1, <2>2, SMT DEF StoreTypeOK, StepShape, SessionRow
  <1>3. CASE DeadLetterUnfenced(c)
    <2>1. Finish(c, "dead_letter", FALSE)
          /\ UNCHANGED <<letters, replied, lease, binding, disabled, revoked, removal>>
      BY <1>3 DEF DeadLetterUnfenced, Placement
    <2>2. /\ cmd' \in [Commands -> CommandRow]
          /\ session' \in [Sessions -> SessionRow]
          /\ \A d \in Commands : Keeps(d)
          /\ \A s \in Sessions : session'[s].epoch = session[s].epoch
      BY <1>0, <2>1, FinishShape
    <2> QED BY <2>1, <2>2, SMT DEF StoreTypeOK, StepShape, SessionRow
  <1>4. CASE insert_dead_letter(c)
    BY <1>4, LetterShape
  <1> QED BY <1>1, <1>2, <1>3, <1>4 DEF SchedulerWrite

LEMMA ExpirySteps ==
    ASSUME StoreTypeOK, NEW c \in Commands, NEW e \in Nat, handle_lease_expiry(c, e)
    PROVE  StoreTypeOK' /\ StepShape
  <1>1. session' \in [Sessions -> SessionRow]
        /\ \A s \in Sessions : session'[s].epoch >= session[s].epoch
    <2>1. session' = ExpiredSession(SessionOf[c], e)
      BY DEF handle_lease_expiry, Expires
    <2> QED BY <2>1, SMT DEF ExpiredSession, StoreTypeOK, SessionRow
  <1>2. /\ \/ cmd' = [cmd EXCEPT ![c].status = "dead_letter", ![c].attempt = 0]
           \/ cmd' = [cmd EXCEPT ![c].status = "retry_scheduled", ![c].attempt = 0]
        /\ letters' \in [Commands -> Nat]
        /\ UNCHANGED <<replied, lease, binding, disabled, revoked, removal>>
    BY SMT DEF handle_lease_expiry, Expires, WriteLetter, StoreTypeOK, Placement
  <1>3. {"dead_letter", "retry_scheduled"} \subseteq CommandStatus
    BY DEF CommandStatus, Open, Terminal
  <1>4. cmd' \in [Commands -> CommandRow] /\ \A d \in Commands : Keeps(d)
    <2>1. ASSUME NEW st \in CommandStatus,
                 cmd' = [cmd EXCEPT ![c].status = st, ![c].attempt = 0]
          PROVE  cmd' \in [Commands -> CommandRow] /\ \A d \in Commands : Keeps(d)
      <3>1. cmd[c] \in CommandRow
        BY DEF StoreTypeOK
      <3> DEFINE r == [cmd[c] EXCEPT !.status = st, !.attempt = 0]
      <3>2. r = [cmd[c] EXCEPT !.status = st, !.attempt = 0]
        OBVIOUS
      <3>3. cmd' = [cmd EXCEPT ![c] = r]
        BY <2>1
      <3> HIDE DEF r
      <3>4. r \in CommandRow /\ r.attempt = 0 /\ r.epoch = cmd[c].epoch
        BY <3>1, <3>2 DEF CommandRow
      <3> QED BY <3>3, <3>4, CommandChange
    <2> QED BY <1>2, <1>3, <2>1
  <1> QED BY <1>1, <1>2, <1>4, SMT DEF StoreTypeOK, StepShape

LEMMA BatchSteps ==
    ASSUME StoreTypeOK, NEW B \in SUBSET Commands,
           \/ assign_batch_leases(B) \/ dead_letter_stale_pending_commands(B)
           \/ \E h \in Hosts, c \in Commands : claim_runtime_host_command(h, c)
    PROVE  StoreTypeOK' /\ StepShape
  <1>1. ASSUME NEW C \in SUBSET Commands, LeaseRows(C),
               UNCHANGED <<letters, replied, binding, disabled, revoked, removal>>
        PROVE  StoreTypeOK' /\ StepShape
    BY <1>1, LeaseShape DEF StoreTypeOK
  <1>2. CASE assign_batch_leases(B)
    BY <1>1, <1>2 DEF assign_batch_leases, Placement
  <1>3. CASE \E h \in Hosts, c \in Commands : claim_runtime_host_command(h, c)
    <2>1. PICK c \in Commands : LeaseRows({c})
                 /\ UNCHANGED <<letters, replied, binding, disabled, revoked, removal>>
      BY <1>3 DEF claim_runtime_host_command, Placement
    <2> QED BY <1>1, <2>1
  <1>4. CASE dead_letter_stale_pending_commands(B)
    <2>1. UNCHANGED <<session, letters, replied, lease, binding, disabled, revoked, removal>>
      BY <1>4 DEF dead_letter_stale_pending_commands, Placement
    <2>2. ASSUME NEW d \in Commands PROVE cmd'[d] \in CommandRow /\ Keeps(d)
      <3>1. cmd[d] \in CommandRow /\ "dead_letter" \in CommandStatus
        BY DEF StoreTypeOK, CommandStatus, Terminal
      <3>2. cmd'[d] = IF d \in B THEN [cmd[d] EXCEPT !.status = "dead_letter"] ELSE cmd[d]
        BY <1>4 DEF dead_letter_stale_pending_commands
      <3> QED BY <3>1, <3>2 DEF CommandRow, Keeps
    <2>3. cmd' \in [Commands -> CommandRow]
      BY <1>4, <2>2 DEF dead_letter_stale_pending_commands
    <2> QED BY <2>1, <2>2, <2>3, SMT DEF StoreTypeOK, StepShape, SessionRow
  <1> QED BY <1>2, <1>3, <1>4

LEMMA HostSteps ==
    ASSUME StoreTypeOK, NEW h \in Hosts, NEW c \in Commands, NEW a \in Attempts,
           HostWrite(h, c, a)
    PROVE  StoreTypeOK' /\ StepShape
  <1>0. {"heartbeating", "retry_scheduled", "committed", "dead_letter"} \subseteq CommandStatus
    BY DEF CommandStatus, Open, Active, Terminal
  <1>1. CASE heartbeat_runtime_host_command(h, c, a)
    <2>1. UNCHANGED <<letters, replied, lease, binding, disabled, revoked, removal>>
      BY <1>1 DEF heartbeat_runtime_host_command, Placement
    <2>2. cmd' = [cmd EXCEPT ![c].status = "heartbeating"]
          /\ session' \in {session, [session EXCEPT ![SessionOf[c]].beat = "fresh"]}
      BY <1>1 DEF heartbeat_runtime_host_command
    <2>3. cmd' \in [Commands -> CommandRow] /\ \A d \in Commands : Keeps(d)
      <3>1. cmd[c] \in CommandRow
        BY DEF StoreTypeOK
      <3> QED BY <1>0, <2>2, <3>1, StatusRow, CommandChange
    <2>4. session' \in [Sessions -> SessionRow]
          /\ \A s \in Sessions : session'[s].epoch = session[s].epoch
      <3>1. CASE session' = session
        BY <3>1 DEF StoreTypeOK
      <3>2. CASE session' = [session EXCEPT ![SessionOf[c]].beat = "fresh"]
        <4>1. SessionOf[c] \in Sessions /\ session[SessionOf[c]] \in SessionRow
          BY DEF StoreTypeOK
        <4> DEFINE r == [session[SessionOf[c]] EXCEPT !.beat = "fresh"]
        <4>2. r = [session[SessionOf[c]] EXCEPT !.beat = "fresh"]
              /\ session' = [session EXCEPT ![SessionOf[c]] = r]
          BY <3>2
        <4> HIDE DEF r
        <4>3. r \in SessionRow /\ r.epoch = session[SessionOf[c]].epoch
          BY <4>1, <4>2 DEF SessionRow
        <4> QED BY <4>1, <4>2, <4>3, SessionChange
      <3> QED BY <2>2, <3>1, <3>2
    <2> QED BY <2>1, <2>3, <2>4, SMT DEF StoreTypeOK, StepShape, SessionRow
  <1>2. ASSUME NEW st \in CommandStatus, Finish(c, st, TRUE),
               letters' \in [Commands -> Nat], replied' \subseteq Commands,
               UNCHANGED <<lease, binding, disabled, revoked, removal>>
        PROVE  StoreTypeOK' /\ StepShape
    <2>1. /\ cmd' \in [Commands -> CommandRow]
          /\ session' \in [Sessions -> SessionRow]
          /\ \A d \in Commands : Keeps(d)
          /\ \A s \in Sessions : session'[s].epoch = session[s].epoch
      BY <1>2, FinishShape
    <2> QED BY <1>2, <2>1, SMT DEF StoreTypeOK, StepShape, SessionRow
  <1>3. CASE FailRuntimeHostCommand(h, c, a)
    <2>1. /\ \/ Finish(c, "dead_letter", TRUE) /\ WriteLetter(c)
             \/ Finish(c, "retry_scheduled", TRUE) /\ UNCHANGED letters
          /\ UNCHANGED <<replied, lease, binding, disabled, revoked, removal>>
      BY <1>3 DEF FailRuntimeHostCommand, Placement
    <2>2. WriteLetter(c) => letters' \in [Commands -> Nat]
      BY SMT DEF WriteLetter, StoreTypeOK
    <2>3. letters' \in [Commands -> Nat] /\ replied' \subseteq Commands
      BY <2>1, <2>2 DEF StoreTypeOK
    <2> QED BY <1>0, <1>2, <2>1, <2>3
  <1>4. CASE \E empty \in BOOLEAN : CompleteRuntimeHostCommand(h, c, a, empty)
    <2>1. /\ Finish(c, "committed", TRUE)
          /\ letters' \in [Commands -> Nat] /\ replied' \subseteq Commands
          /\ UNCHANGED <<lease, binding, disabled, revoked, removal>>
      BY <1>4 DEF CompleteRuntimeHostCommand, Placement, StoreTypeOK
    <2> QED BY <1>0, <1>2, <2>1
  <1> QED BY <1>1, <1>3, <1>4 DEF HostWrite

LEMMA RetirementSteps ==
    ASSUME StoreTypeOK, NEW g \in Agents,
           request_account_retirement(g) \/ finish_account_retirement(g)
    PROVE  StoreTypeOK' /\ StepShape
  <1>1. /\ UNCHANGED <<session, letters, replied, lease, binding, revoked>>
        /\ disabled' \subseteq Agents
        /\ removal' \in [Agents -> {"none", "requested", "completed"}]
    BY DEF request_account_retirement, finish_account_retirement, StoreTypeOK
  <1>2. ASSUME NEW d \in Commands PROVE cmd'[d] \in CommandRow /\ Keeps(d)
    <2> DEFINE raised == IF cmd[d].count > 1 THEN cmd[d].count ELSE 1
    <2>1. cmd[d] \in CommandRow /\ "dead_letter" \in CommandStatus /\ raised \in Nat
      BY DEF StoreTypeOK, CommandStatus, Terminal, CommandRow
    <2>2. \/ cmd'[d] = cmd[d]
          \/ cmd'[d] = [cmd[d] EXCEPT !.status = "dead_letter"]
          \/ cmd'[d] = [cmd[d] EXCEPT !.max = raised]
      BY DEF request_account_retirement, finish_account_retirement
    <2> HIDE DEF raised
    <2> QED BY <2>1, <2>2 DEF CommandRow, Keeps
  <1>3. cmd' \in [Commands -> CommandRow]
    BY <1>2 DEF request_account_retirement, finish_account_retirement, StoreTypeOK
  <1> QED BY <1>1, <1>2, <1>3, SMT DEF StoreTypeOK, StepShape, SessionRow

(* The fields of a command row that is closed or requeued.                 *)
LEMMA ResetRow ==
    ASSUME NEW r \in CommandRow
    PROVE  /\ [r EXCEPT !.status = "dead_letter", !.attempt = 0, !.epoch = 0]
                = [status |-> "dead_letter", attempt |-> 0, epoch |-> 0,
                   count |-> r.count, max |-> r.max, host |-> r.host]
           /\ \A h : [r EXCEPT !.status = "pending", !.attempt = 0, !.epoch = 0, !.host = h]
                = [status |-> "pending", attempt |-> 0, epoch |-> 0,
                   count |-> r.count, max |-> r.max, host |-> h]
  <1>1. ASSUME NEW q, q = [r EXCEPT !.status = "dead_letter", !.attempt = 0, !.epoch = 0]
        PROVE  q = [status |-> "dead_letter", attempt |-> 0, epoch |-> 0,
                    count |-> r.count, max |-> r.max, host |-> r.host]
    BY <1>1 DEF CommandRow
  <1>2. ASSUME NEW h, NEW q,
               q = [r EXCEPT !.status = "pending", !.attempt = 0, !.epoch = 0, !.host = h]
        PROVE  q = [status |-> "pending", attempt |-> 0, epoch |-> 0,
                    count |-> r.count, max |-> r.max, host |-> h]
    BY <1>2 DEF CommandRow
  <1> QED BY <1>1, <1>2

LEMMA PlacementSteps ==
    ASSUME StoreTypeOK,
           \/ \E h \in Hosts : RevokeRuntimeHost(h)
           \/ \E g \in Agents, h \in Hosts \cup {Local} : assign_binding_host(g, h)
    PROVE  StoreTypeOK' /\ StepShape
  <1>1. ASSUME NEW S \in SUBSET Commands, NEW st \in {"dead_letter", "pending"},
               NEW hh \in [Commands -> Hosts \cup {Local}],
               session' = FencedSessions(S),
               cmd' = [c \in Commands |->
                   IF c \in S
                   THEN [status |-> st, attempt |-> 0, epoch |-> 0, count |-> cmd[c].count,
                         max |-> cmd[c].max, host |-> hh[c]]
                   ELSE cmd[c]],
               UNCHANGED <<letters, replied, lease>>
        PROVE  /\ StepShape
               /\ cmd' \in [Commands -> CommandRow]
               /\ session' \in [Sessions -> SessionRow]
    <2>1. /\ session' \in [Sessions -> SessionRow]
          /\ \A s \in Sessions : session'[s].epoch >= session[s].epoch
      BY <1>1, FencedShape
    <2>2. ASSUME NEW d \in Commands PROVE cmd'[d] \in CommandRow /\ Keeps(d)
      <3>1. cmd[d] \in CommandRow /\ st \in CommandStatus
        BY DEF StoreTypeOK, CommandStatus, Terminal, Open
      <3>2. CASE d \in S
        BY <1>1, <3>1, <3>2 DEF CommandRow, Keeps
      <3>3. CASE d \notin S
        BY <1>1, <3>1, <3>3 DEF CommandRow, Keeps
      <3> QED BY <3>2, <3>3
    <2>3. cmd' \in [Commands -> CommandRow]
      BY <1>1, <2>2
    <2>4. lease' >= lease
      BY <1>1, SMT DEF StoreTypeOK
    <2> QED BY <2>1, <2>2, <2>3, <2>4 DEF StepShape
  <1>2. ASSUME NEW h \in Hosts, RevokeRuntimeHost(h)
        PROVE  StoreTypeOK' /\ StepShape
    <2> DEFINE S == {c \in Commands : cmd[c].host = h /\ cmd[c].status \in Open}
               hh == [c \in Commands |-> cmd[c].host]
    <2>1. /\ session' = FencedSessions(S)
          /\ UNCHANGED <<letters, replied, lease, binding, removal>>
          /\ revoked' \subseteq Hosts
          /\ disabled' \subseteq Agents
      BY <1>2 DEF RevokeRuntimeHost, StoreTypeOK
    <2>2. cmd' = [c \in Commands |->
               IF c \in S
               THEN [cmd[c] EXCEPT !.status = "dead_letter", !.attempt = 0, !.epoch = 0]
               ELSE cmd[c]]
      BY <1>2 DEF RevokeRuntimeHost
    <2>3. ASSUME NEW c \in Commands
          PROVE  [cmd[c] EXCEPT !.status = "dead_letter", !.attempt = 0, !.epoch = 0]
                   = [status |-> "dead_letter", attempt |-> 0, epoch |-> 0,
                      count |-> cmd[c].count, max |-> cmd[c].max, host |-> hh[c]]
      <3>1. cmd[c] \in CommandRow
        BY DEF StoreTypeOK
      <3> QED BY <3>1, ResetRow
    <2>4. hh \in [Commands -> Hosts \cup {Local}] /\ S \in SUBSET Commands
      BY DEF StoreTypeOK, CommandRow
    <2> HIDE DEF S, hh
    <2>5. cmd' = [c \in Commands |->
               IF c \in S
               THEN [status |-> "dead_letter", attempt |-> 0, epoch |-> 0,
                     count |-> cmd[c].count, max |-> cmd[c].max, host |-> hh[c]]
               ELSE cmd[c]]
      BY <2>2, <2>3
    <2>6. StepShape /\ cmd' \in [Commands -> CommandRow] /\ session' \in [Sessions -> SessionRow]
      BY <1>1, <2>1, <2>4, <2>5
    <2> QED BY <2>1, <2>6 DEF StoreTypeOK
  <1>3. ASSUME NEW g \in Agents, NEW h \in Hosts \cup {Local}, assign_binding_host(g, h)
        PROVE  StoreTypeOK' /\ StepShape
    <2> DEFINE S == {c \in CommandsOfAgent(g) : cmd[c].status \in Open}
               hh == [c \in Commands |-> h]
    <2>1. /\ session' = FencedSessions(S)
          /\ UNCHANGED <<letters, replied, lease, revoked, removal>>
          /\ binding' \in [Agents -> Hosts \cup {Local}]
          /\ disabled' \subseteq Agents
      BY <1>3 DEF assign_binding_host, StoreTypeOK
    <2>2. cmd' = [c \in Commands |->
               IF c \in S
               THEN [cmd[c] EXCEPT !.status = "pending", !.attempt = 0, !.epoch = 0, !.host = h]
               ELSE cmd[c]]
      BY <1>3 DEF assign_binding_host
    <2>3. ASSUME NEW c \in Commands
          PROVE  [cmd[c] EXCEPT !.status = "pending", !.attempt = 0, !.epoch = 0, !.host = h]
                   = [status |-> "pending", attempt |-> 0, epoch |-> 0,
                      count |-> cmd[c].count, max |-> cmd[c].max, host |-> hh[c]]
      <3>1. cmd[c] \in CommandRow
        BY DEF StoreTypeOK
      <3> QED BY <3>1, ResetRow
    <2>4. hh \in [Commands -> Hosts \cup {Local}] /\ S \in SUBSET Commands
      BY DEF CommandsOfAgent
    <2> HIDE DEF S, hh
    <2>5. cmd' = [c \in Commands |->
               IF c \in S
               THEN [status |-> "pending", attempt |-> 0, epoch |-> 0,
                     count |-> cmd[c].count, max |-> cmd[c].max, host |-> hh[c]]
               ELSE cmd[c]]
      BY <2>2, <2>3
    <2>6. StepShape /\ cmd' \in [Commands -> CommandRow] /\ session' \in [Sessions -> SessionRow]
      BY <1>1, <2>1, <2>4, <2>5
    <2> QED BY <2>1, <2>6 DEF StoreTypeOK
  <1> QED BY <1>2, <1>3

(* Every transaction, and every stuttering step, is one of the above.      *)
LEMMA EveryStep ==
    ASSUME StoreTypeOK, [StoreNext]_storeVars
    PROVE  StoreTypeOK' /\ StepShape
  <1>1. CASE UNCHANGED storeVars
    BY <1>1, SMT DEF storeVars, StoreTypeOK, StepShape, Keeps, SessionRow, CommandRow
  <1>2. Epochs \subseteq Nat
    BY SMT DEF Epochs, StoreTypeOK, SessionRow
  <1>3. CASE \E s \in Sessions : upsert_session(s) \/ Age(s)
    BY <1>3, SessionSteps
  <1>4. CASE \E s \in Sessions, e \in Epochs : update_session_heartbeat_for_epoch(s, e)
    BY <1>2, <1>4, SessionSteps
  <1>5. CASE \E c \in Commands : insert_command(c) \/ SchedulerWrite(c)
    BY <1>5, SchedulerSteps
  <1>6. CASE \E c \in Commands, a \in Attempts : FencedWrite(c, a)
    BY <1>6, FencedSteps
  <1>7. CASE \E c \in Commands, e \in Epochs : handle_lease_expiry(c, e)
    BY <1>2, <1>7, ExpirySteps
  <1>8. CASE \E B \in SUBSET Commands :
               assign_batch_leases(B) \/ dead_letter_stale_pending_commands(B)
    BY <1>8, BatchSteps
  <1>9. CASE \E h \in Hosts, c \in Commands : claim_runtime_host_command(h, c)
    <2>1. {} \in SUBSET Commands
      OBVIOUS
    <2> QED BY <1>9, <2>1, BatchSteps
  <1>10. CASE \E h \in Hosts, c \in Commands, a \in Attempts : HostWrite(h, c, a)
    BY <1>10, HostSteps
  <1>11. CASE \E g \in Agents : AdminWrite(g)
    BY <1>11, RetirementSteps, PlacementSteps DEF AdminWrite
  <1>12. CASE \E h \in Hosts : RevokeRuntimeHost(h)
    BY <1>12, PlacementSteps
  <1> QED BY <1>1, <1>3, <1>4, <1>5, <1>6, <1>7, <1>8, <1>9, <1>10, <1>11, <1>12 DEF StoreNext

-----------------------------------------------------------------------------
LEMMA InitInv == StoreInit => StoreInv
  BY SMT DEF StoreInit, StoreInv, StoreTypeOK, EpochsIssued, LeaseOrder, SessionRow, CommandRow,
         NoCommand, CommandStatus, Open, Active, Terminal

(* What the shape of a step says of a command that still holds an attempt  *)
(* after it: the lease is an old one, kept whole, or the newest of all.    *)
LEMMA HeldLease ==
    ASSUME StoreTypeOK, EpochsIssued, StepShape, StoreTypeOK',
           NEW c \in Commands, cmd'[c].attempt # 0
    PROVE  \/ /\ cmd'[c].attempt = cmd[c].attempt /\ cmd'[c].epoch = cmd[c].epoch
              /\ cmd[c].attempt <= lease /\ cmd[c].epoch <= session[SessionOf[c]].epoch
           \/ /\ cmd'[c].attempt = lease + 1 /\ lease' = lease + 1
              /\ cmd'[c].epoch = session[SessionOf[c]].epoch + 1
              /\ session'[SessionOf[c]].epoch = session[SessionOf[c]].epoch + 1
  BY DEF StepShape, Keeps, Leases, EpochsIssued

LEMMA ShapeKeepsInv ==
    ASSUME StoreInv, StoreTypeOK', StepShape
    PROVE  StoreInv'
  <1>0. StoreTypeOK /\ EpochsIssued /\ LeaseOrder
    BY DEF StoreInv
  <1>1. StoreTypeOK' /\ StepShape
    OBVIOUS
  <1>2. EpochsIssued'
    <2> SUFFICES ASSUME NEW c \in Commands
                 PROVE  cmd'[c].epoch <= session'[SessionOf[c]].epoch /\ cmd'[c].attempt <= lease'
      BY DEF EpochsIssued
    <2>1. /\ cmd[c].epoch <= session[SessionOf[c]].epoch /\ cmd[c].attempt <= lease
          /\ session'[SessionOf[c]].epoch >= session[SessionOf[c]].epoch /\ lease' >= lease
          /\ {cmd[c].epoch, cmd[c].attempt, session[SessionOf[c]].epoch, lease,
              session'[SessionOf[c]].epoch, lease'} \subseteq Nat
      BY <1>0, <1>1, SMT DEF EpochsIssued, StepShape, StoreTypeOK, SessionRow, CommandRow
    <2>2. CASE Keeps(c)
      BY <2>1, <2>2, SMT DEF Keeps
    <2>3. CASE Leases(c)
      BY <2>1, <2>3, SMT DEF Leases
    <2> QED BY <1>1, <2>2, <2>3 DEF StepShape
  <1>3. LeaseOrder'
    <2> SUFFICES ASSUME NEW c \in Commands, NEW d \in Commands, SessionOf[c] = SessionOf[d],
                        cmd'[c].attempt # 0, cmd'[d].attempt # 0
                 PROVE  cmd'[c].attempt < cmd'[d].attempt <=> cmd'[c].epoch < cmd'[d].epoch
      BY DEF LeaseOrder
    <2>1. SessionOf[c] \in Sessions /\ lease \in Nat /\ session[SessionOf[c]].epoch \in Nat
          /\ {cmd[c].epoch, cmd[c].attempt, cmd[d].epoch, cmd[d].attempt} \subseteq Nat
      BY <1>0, SMT DEF StoreTypeOK, SessionRow, CommandRow
    <2>2. cmd[c].attempt # 0 /\ cmd[d].attempt # 0
          => (cmd[c].attempt < cmd[d].attempt <=> cmd[c].epoch < cmd[d].epoch)
      BY <1>0 DEF LeaseOrder
    <2>3. \/ /\ cmd'[c].attempt = cmd[c].attempt /\ cmd'[c].epoch = cmd[c].epoch
             /\ cmd[c].attempt <= lease /\ cmd[c].epoch <= session[SessionOf[c]].epoch
          \/ /\ cmd'[c].attempt = lease + 1
             /\ cmd'[c].epoch = session[SessionOf[c]].epoch + 1
      BY <1>0, <1>1, HeldLease
    <2>4. \/ /\ cmd'[d].attempt = cmd[d].attempt /\ cmd'[d].epoch = cmd[d].epoch
             /\ cmd[d].attempt <= lease /\ cmd[d].epoch <= session[SessionOf[c]].epoch
          \/ /\ cmd'[d].attempt = lease + 1
             /\ cmd'[d].epoch = session[SessionOf[c]].epoch + 1
      BY <1>0, <1>1, HeldLease
    <2> QED BY <2>1, <2>2, <2>3, <2>4, SMT
  <1> QED BY <1>1, <1>2, <1>3 DEF StoreInv

LEMMA NextInv == StoreInv /\ [StoreNext]_storeVars => StoreInv'
  <1>1. StoreInv => StoreTypeOK
    BY DEF StoreInv
  <1> QED BY <1>1, EveryStep, ShapeKeepsInv

(* The tables stay well typed, every held epoch and attempt was issued,    *)
(* and attempts and epochs are issued in one order, under any sequence of  *)
(* store calls (store.rs, every transaction).                              *)
THEOREM StoreInvariant == StoreSpec => []StoreInv
  BY InitInv, NextInv, PTL DEF StoreSpec

(* Type correctness of every table under every transaction of store.rs.    *)
THEOREM StoreTypeCorrect == StoreSpec => []StoreTypeOK
  <1>1. StoreInv => StoreTypeOK
    BY DEF StoreInv
  <1> QED BY <1>1, StoreInvariant, PTL

(* The session epoch is a fencing token: among the commands of a session   *)
(* that hold an attempt, attempt order and epoch order agree.              *)
THEOREM LeasesOrdered == StoreSpec => []LeaseOrder
  <1>1. StoreInv => LeaseOrder
    BY DEF StoreInv
  <1> QED BY <1>1, StoreInvariant, PTL

(* The attempt/epoch guards of store.rs never accept the writes of two     *)
(* batches of one session at once.                                         *)
THEOREM SingleOwner == StoreSpec => []OneOwnerPerSession
  <1>1. StoreInv => OneOwnerPerSession
    <2> SUFFICES ASSUME StoreInv, NEW c \in Commands, NEW d \in Commands,
                        SessionOf[c] = SessionOf[d],
                        Accepts(c, cmd[c].attempt), Accepts(d, cmd[d].attempt)
                 PROVE  cmd[c].attempt = cmd[d].attempt
      BY DEF OneOwnerPerSession
    <2>1. cmd[c].attempt # 0 /\ cmd[d].attempt # 0 /\ cmd[c].epoch = cmd[d].epoch
      BY DEF Accepts
    <2>2. /\ cmd[c].attempt < cmd[d].attempt <=> cmd[c].epoch < cmd[d].epoch
          /\ cmd[d].attempt < cmd[c].attempt <=> cmd[d].epoch < cmd[c].epoch
      BY <2>1 DEF StoreInv, LeaseOrder
    <2>3. {cmd[c].epoch, cmd[c].attempt, cmd[d].epoch, cmd[d].attempt} \subseteq Nat
      BY DEF StoreInv, StoreTypeOK, CommandRow
    <2> QED BY <2>1, <2>2, <2>3, SMT
  <1> QED BY <1>1, StoreInvariant, PTL

(* Once the guards of store.rs refuse an attempt that was issued, no later *)
(* sequence of calls makes them accept it again: a fenced executor stays   *)
(* fenced through retries, moves, expiry and new leases.                   *)
THEOREM FencedForever == StoreSpec => RevokedStaysRevoked
  <1>1. StoreInv /\ [StoreNext]_storeVars
        => \A c \in Commands, a \in Attempts : ~Accepts(c, a) => ~Accepts(c, a)'
    <2> SUFFICES ASSUME StoreInv, [StoreNext]_storeVars, NEW c \in Commands,
                        NEW a \in Attempts, Accepts(c, a)'
                 PROVE  Accepts(c, a)
      OBVIOUS
    <2>0. StoreTypeOK /\ EpochsIssued
      BY DEF StoreInv
    <2>1. StoreTypeOK' /\ StepShape
      BY <2>0, EveryStep
    <2>2. /\ a # 0 /\ cmd'[c].attempt = a
          /\ cmd'[c].epoch = session'[SessionOf[c]].epoch
      BY DEF Accepts
    <2>3. a \in Nat /\ lease \in Nat /\ a <= lease
      BY <2>0, SMT DEF Attempts, StoreTypeOK
    <2>4. /\ cmd'[c].attempt = cmd[c].attempt /\ cmd'[c].epoch = cmd[c].epoch
          /\ cmd[c].epoch <= session[SessionOf[c]].epoch
      <3>1. cmd'[c].attempt # lease + 1
        BY <2>2, <2>3, SMT
      <3> QED
        BY <2>0, <2>1, <2>2, <3>1, HeldLease
    <2>5. /\ session'[SessionOf[c]].epoch >= session[SessionOf[c]].epoch
          /\ {cmd[c].epoch, session[SessionOf[c]].epoch} \subseteq Nat
      BY <2>0, <2>1, SMT DEF StepShape, StoreTypeOK, SessionRow, CommandRow
    <2> QED BY <2>2, <2>4, <2>5, SMT DEF Accepts
  <1> QED BY <1>1, StoreInvariant, PTL DEF StoreSpec, RevokedStaysRevoked

-----------------------------------------------------------------------------
(* The steps of the pipeline.                                               *)

USE PipelineAssumption

\* Every set of commands has an oldest one.
Oldest == \A S \in SUBSET Commands : S # {} => Min(S) \in S

\* The early phases of a task, and the commands it has not settled yet.
Early == {"starting", "validate", "cli"}

Unsettled(t) ==
    IF t.phase \in Early THEN t.members ELSE IF t.phase = "settle" THEN t.todo ELSE {}

TaskShape(t) ==
    t = [phase |-> t.phase, members |-> t.members, epoch |-> t.epoch, beats |-> t.beats,
         left |-> t.left, first |-> t.first, outcome |-> t.outcome, todo |-> t.todo,
         closable |-> t.closable]

TaskOK(t) ==
    /\ TaskShape(t)
    /\ t.phase \in TaskPhases /\ t.outcome \in Outcomes
    /\ t.members \subseteq Commands
    /\ t.todo \subseteq t.members /\ t.closable \subseteq t.members
    /\ t.left \subseteq DOMAIN t.beats
    /\ t.phase # "none" => t.members # {}
    /\ t.phase = "settle" => t.todo # {}
    /\ t.phase \in Early => t.todo = {} /\ t.closable = {}

TasksOK ==
    /\ task = [a \in 1 .. MaxLease |-> task[a]]
    /\ \A a \in 1 .. MaxLease : TaskOK(task[a])

Result == [attempt : 1 .. MaxLease, primary : Commands, outcome : Outcomes,
           closable : SUBSET Commands]

WriterRow == [phase : {"idle", "dedup", "insert", "commit"}, attempt : 0 .. MaxLease,
              todo : SUBSET Commands, primary : Commands \cup {0}]

RetrierRow == [phase : {"idle", "exhausted", "reset"}, todo : SUBSET Commands,
               letter : SUBSET Commands]

WriterOK ==
    /\ writer \in WriterRow
    /\ writer.phase # "idle" =>
           writer.primary \in Commands /\ writer.attempt # 0 /\ writer.todo # {}

MemoryOK ==
    /\ found \subseteq Commands
    /\ TasksOK
    /\ channel \in Seq(Result) /\ Len(channel) <= ChannelSize
    /\ WriterOK
    /\ monitor \subseteq [command : Commands, epoch : Nat]
    /\ retrier \in RetrierRow
    /\ answered \subseteq Commands
    /\ crashes \in 0 .. MaxCrashes /\ faults \in 0 .. MaxFaults

-----------------------------------------------------------------------------
(* Rows of the command table.                                               *)

\* Command c gets status st and attempt at, and keeps the rest.
Sets(c, st, at) ==
    /\ cmd'[c].status = st /\ cmd'[c].attempt = at
    /\ cmd'[c].epoch = cmd[c].epoch /\ cmd'[c].count = cmd[c].count
    /\ cmd'[c].max = cmd[c].max

Only(c, st, at) ==
    /\ Sets(c, st, at)
    /\ \A d \in Commands \ {c} : cmd'[d] = cmd[d]

LEMMA StatusOnly ==
    ASSUME StoreTypeOK, NEW c \in Commands, NEW st, cmd' = [cmd EXCEPT ![c].status = st]
    PROVE  Only(c, st, cmd[c].attempt)
  BY SMT DEF StoreTypeOK, CommandRow, Only, Sets

LEMMA AttemptOnly ==
    ASSUME StoreTypeOK, NEW c \in Commands, NEW st, NEW at,
           cmd' = [cmd EXCEPT ![c].status = st, ![c].attempt = at]
    PROVE  Only(c, st, at)
  BY SMT DEF StoreTypeOK, CommandRow, Only, Sets

LEMMA FinishOnly ==
    ASSUME StoreTypeOK, NEW c \in Commands, NEW st, NEW clear, Finish(c, st, clear)
    PROVE  Only(c, st, IF clear THEN 0 ELSE cmd[c].attempt)
<1>1. cmd' = [cmd EXCEPT ![c].status = st, ![c].attempt = IF clear THEN 0 ELSE cmd[c].attempt]
  BY DEF Finish, StoreTypeOK
<1> QED
  BY <1>1, AttemptOnly

LEMMA LetterOnly ==
    ASSUME StoreTypeOK, NEW c \in Commands, WriteLetter(c)
    PROVE  /\ letters'[c] = letters[c] + 1
           /\ \A d \in Commands \ {c} : letters'[d] = letters[d]
  BY DEF StoreTypeOK, WriteLetter

-----------------------------------------------------------------------------
(* Rows of the loops' memory.                                               *)

LEMMA NoTaskOK == TaskOK(NoTask) /\ Unsettled(NoTask) = {}
  BY DEF TaskOK, TaskShape, NoTask, TaskPhases, Outcomes, Early, Unsettled

-----------------------------------------------------------------------------
(* How a task changes.                                                      *)

TaskSame(a) == task'[a] = task[a]
TaskGone(a) == task'[a] = NoTask

\* It gets on, or its heartbeat does, before the execution ends.
TaskRuns(a) ==
    /\ task[a].phase \in Early /\ task'[a].phase \in Early
    /\ task'[a].members = task[a].members

\* Its execution ends with an outcome.
TaskEnded(a) ==
    /\ task[a].phase \in Early /\ task'[a].phase = "settle"
    /\ task'[a].members = task[a].members /\ task'[a].todo = task[a].members
    /\ task'[a].closable = {} /\ task'[a].outcome \in Outcomes \ {"none"}

\* One of its rows is settled; c becomes closable only when it succeeded.
TaskSettles(a) ==
    /\ task[a].phase = "settle"
    /\ task'[a].members = task[a].members /\ task'[a].outcome = task[a].outcome
    /\ \E c \in task[a].todo :
           /\ task'[a].todo = task[a].todo \ {c}
           /\ task'[a].phase = IF task[a].todo = {c} THEN "send" ELSE "settle"
           /\ \/ task'[a].closable = task[a].closable
              \/ /\ task'[a].closable = task[a].closable \cup {c}
                 /\ mark_command_succeeded_for_attempt(c, a)
           /\ /\ faults' = faults /\ task[a].outcome \in {"ok", "empty"}
              /\ c = Primary(task[a].members)
              => mark_command_succeeded_for_attempt(c, a)

TaskMoved(a) == TaskSame(a) \/ TaskGone(a) \/ TaskRuns(a) \/ TaskEnded(a) \/ TaskSettles(a)

\* A batch of the last find is leased, under the next attempt number.
TaskBegins(a) ==
    /\ lease < MaxLease /\ a = lease + 1
    /\ \E g \in Agents :
           /\ task'[a].members = {c \in found : AgentOfCommand(c) = g}
           /\ task'[a].phase = "starting"
           /\ assign_batch_leases(task'[a].members)
           /\ found' = found \ task'[a].members

\* Only task a moves, and all stay well formed.
MovesTask(a) ==
    /\ TasksOK' /\ TaskMoved(a)
    /\ \A b \in 1 .. MaxLease : b # a => TaskSame(b)

-----------------------------------------------------------------------------
(* What a step writes to the tables, with what the writer knows.            *)

SessionWrite(s) ==
    upsert_session(s) \/ Age(s) \/ update_session_heartbeat_for_epoch(s, session[s].epoch)

LeaseWrite(g) ==
    LET B == {c \in found : AgentOfCommand(c) = g}
    IN  assign_batch_leases(B) /\ found' = found \ B

MarkWrite(a, c) ==
    /\ c \in Unsettled(task[a]) /\ task[a].phase \in Early
    /\ \E st \in {"started", "heartbeating"} : update_command_status_for_attempt(c, a, st)

SettleWrite(a, c) ==
    /\ task[a].phase = "settle" /\ c \in task[a].todo /\ c \notin Unsettled(task'[a])
    /\ \/ /\ task[a].outcome \in {"ok", "empty"}
          /\ mark_command_succeeded_for_attempt(c, a)
       \/ /\ task[a].outcome = "retriable" /\ cmd[c].count < MaxAttempts
          /\ update_command_status_for_attempt(c, a, "retry_scheduled")
       \/ /\ task[a].outcome \in {"retriable", "fatal"}
          /\ dead_letter_command_for_attempt(c, a)

ReplyWrite ==
    /\ writer.phase = "insert" /\ writer'.phase # "insert"
    /\ insert_reply_event(writer.primary, writer.attempt)

CommitWrite(c) ==
    /\ writer.phase = "commit" /\ c \in writer.todo
    /\ mark_command_committed_for_attempt(c, writer.attempt)

ExpiryWrite(r) ==
    r \in monitor /\ handle_lease_expiry(r.command, r.epoch) /\ monitor' = monitor \ {r}

ExhaustedWrite(c) ==
    /\ retrier.phase = "exhausted" /\ c \in retrier.todo /\ retrier.letter = {}
    /\ retrier'.todo \subseteq retrier.todo \ {c} /\ retrier'.letter \subseteq {c}
    /\ DeadLetterUnfenced(c)

LetterWrite(c) ==
    /\ retrier.phase = "exhausted" /\ c \in retrier.letter
    /\ retrier'.todo \subseteq retrier.todo /\ retrier'.letter = {}
    /\ insert_dead_letter(c)

ResetWrite(c) ==
    /\ retrier.phase = "reset" /\ c \in retrier.todo
    /\ retrier'.todo \subseteq retrier.todo \ {c} /\ retrier'.letter = {}
    /\ ResetToPending(c)

TaskWrite(a) ==
    \/ UNCHANGED storeVars
    \/ \E s \in Sessions : SessionWrite(s)
    \/ \E c \in Commands : MarkWrite(a, c) \/ SettleWrite(a, c)

Writes ==
    \/ UNCHANGED storeVars
    \/ \E s \in Sessions : SessionWrite(s)
    \/ \E g \in Agents : \/ LeaseWrite(g)
                         \/ request_account_retirement(g) \/ finish_account_retirement(g)
    \/ \E a \in 1 .. MaxLease, c \in Commands : MarkWrite(a, c) \/ SettleWrite(a, c)
    \/ ReplyWrite
    \/ \E r \in monitor : ExpiryWrite(r)
    \/ \E c \in Commands : \/ insert_command(c) \/ CommitWrite(c) \/ ExhaustedWrite(c)
                           \/ LetterWrite(c) \/ ResetWrite(c)
    \/ \E S \in SUBSET Commands : dead_letter_stale_pending_commands(S)

-----------------------------------------------------------------------------
(* The steps of a task.                                                     *)

LEMMA PrimaryOfTask ==
    ASSUME Oldest, NEW t, TaskOK(t), t.phase # "none"
    PROVE  Primary(t.members) \in t.members /\ Primary(t.members) \in Commands
  BY DEF Oldest, TaskOK, Primary

-----------------------------------------------------------------------------
(* The steps of the other loops.                                            *)

AllTasksMove ==
    TasksOK' /\ \A a \in 1 .. MaxLease : TaskMoved(a) \/ TaskBegins(a)

LEMMA WriterRows ==
    /\ NoResult \in WriterRow /\ NoResult.phase = "idle"
    /\ \A w \in WriterRow, p \in {"dedup", "insert", "commit"} :
           LET u == [w EXCEPT !.phase = p]
           IN  /\ u \in WriterRow /\ u.phase = p /\ u.primary = w.primary
               /\ u.attempt = w.attempt /\ u.todo = w.todo
    /\ \A w \in WriterRow, T \in SUBSET Commands :
           LET u == [w EXCEPT !.todo = T]
           IN  /\ u \in WriterRow /\ u.phase = w.phase /\ u.primary = w.primary
               /\ u.attempt = w.attempt /\ u.todo = T
  BY SMT DEF WriterRow, NoResult

\* The result the writer receives, and what it makes of it.
LEMMA ReceivedResult ==
    ASSUME MemoryOK, WriterReceive
    PROVE  /\ channel # <<>> /\ Head(channel) \in Result /\ Tail(channel) \in Seq(Result)
           /\ channel' = Tail(channel) /\ Len(channel') <= ChannelSize
           /\ Len(channel') = Len(channel) - 1
           /\ \A i \in 1 .. Len(channel') : channel'[i] = channel[i + 1]
           /\ Head(channel) = channel[1]
<1>1. channel \in Seq(Result) /\ channel # <<>> /\ Len(channel) <= ChannelSize
  BY DEF MemoryOK, WriterReceive
<1>2. channel' = Tail(channel)
  BY DEF WriterReceive
<1>3. /\ Head(channel) \in Result /\ Tail(channel) \in Seq(Result) /\ Head(channel) = channel[1]
      /\ Len(Tail(channel)) = Len(channel) - 1 /\ Len(channel) \in Nat
      /\ \A i \in 1 .. Len(Tail(channel)) : Tail(channel)[i] = channel[i + 1]
  BY <1>1, SMT
<1> QED
  BY <1>1, <1>2, <1>3, SMT

\* The writer takes a result up that the fence still accepts.
WriterTakes ==
    LET r == Head(channel)
    IN  /\ writer.phase = "idle" /\ channel # <<>> /\ channel' = Tail(channel)
        /\ r.outcome \in {"ok", "empty"} /\ Accepts(r.primary, r.attempt)
        /\ writer'.phase = IF r.outcome = "empty" THEN "commit" ELSE "dedup"
        /\ writer'.attempt = r.attempt /\ writer'.primary = r.primary
        /\ writer'.todo = {r.primary} \cup r.closable
        /\ answered' = IF r.outcome = "empty" THEN answered \cup writer'.todo ELSE answered
        /\ UNCHANGED storeVars

\* It finds the reply, or writes it, or finds that it has to.
WriterAdvances ==
    /\ writer'.attempt = writer.attempt /\ writer'.primary = writer.primary
    /\ writer'.todo = writer.todo
    /\ \/ /\ writer.phase = "dedup" /\ writer'.phase = "insert"
          /\ UNCHANGED <<storeVars, answered>>
       \/ /\ writer.phase = "dedup" /\ writer'.phase = "commit" /\ writer.primary \in replied
          /\ UNCHANGED <<storeVars, answered>>
       \/ /\ writer.phase = "insert" /\ writer'.phase = "commit" /\ writer.primary \in replied
          /\ Accepts(writer.primary, writer.attempt)
          /\ UNCHANGED <<storeVars, answered>>
       \/ /\ writer.phase = "insert" /\ writer'.phase = "commit"
          /\ insert_reply_event(writer.primary, writer.attempt)
          /\ answered' = answered \cup writer.todo

WriterCommits ==
    /\ writer.phase = "commit" /\ writer'.phase = "commit"
    /\ writer'.attempt = writer.attempt /\ writer'.primary = writer.primary
    /\ writer'.todo \subseteq writer.todo /\ answered' = answered

\* It drops the result, or its last row is done.
WriterStops ==
    /\ writer' = NoResult
    /\ \/ answered' = answered
       \/ /\ writer.phase = "insert" /\ insert_reply_event(writer.primary, writer.attempt)
          /\ answered' = answered \cup writer.todo

WriterMoved ==
    \/ writer' = writer /\ answered' = answered
    \/ WriterStops \/ WriterTakes \/ WriterAdvances \/ WriterCommits

WriterWrites == UNCHANGED storeVars \/ ReplyWrite \/ \E c \in Commands : CommitWrite(c)

\* The scheduler reads rows that wait for a retry.
RetrierReads ==
    /\ retrier.phase = "idle" /\ retrier'.letter = {} /\ UNCHANGED storeVars
    /\ \/ retrier'.phase = "exhausted" /\ retrier'.todo \subseteq RetryScheduled(TRUE)
       \/ retrier'.phase = "reset" /\ retrier'.todo \subseteq RetryScheduled(FALSE)

\* It writes one of them back, and owes a letter for what it made dead.
RetrierWorks ==
    /\ retrier.phase # "idle" /\ retrier'.phase \in {retrier.phase, "idle"}
    /\ \/ /\ retrier'.todo \subseteq retrier.todo /\ retrier'.letter = {}
       \/ \E c \in retrier.todo :
              /\ retrier.phase = "exhausted" /\ DeadLetterUnfenced(c)
              /\ retrier'.letter = {c} /\ retrier'.todo = retrier.todo \ {c}

RetrierMoved ==
    \/ retrier' = retrier
    \/ retrier' = NoRetries
    \/ RetrierReads \/ RetrierWorks

RetrierWrites ==
    \/ UNCHANGED storeVars
    \/ \E c \in Commands : ExhaustedWrite(c) \/ LetterWrite(c) \/ ResetWrite(c)

-----------------------------------------------------------------------------
(* Every step.                                                              *)

FoundMoved == found' \subseteq found \/ FindPending

ChannelMoved ==
    \/ channel' = channel \/ channel' = <<>>
    \/ WriterReceive \/ \E a \in 1 .. MaxLease : SendResult(a)

MonitorMoved == monitor' = monitor \/ Crash \/ MonitorStep

MemoryMoves ==
    /\ AllTasksMove /\ FoundMoved /\ ChannelMoved /\ WriterMoved /\ MonitorMoved /\ RetrierMoved

-----------------------------------------------------------------------------
(* The transactions as changes of rows.                                     *)

Untouched(c) == cmd'[c] = cmd[c] /\ letters'[c] = letters[c]
SameLetters == \A d \in Commands : letters'[d] = letters[d]

NewLetter(c) ==
    letters'[c] = letters[c] + 1 /\ \A d \in Commands \ {c} : letters'[d] = letters[d]

LEMMA FencedChange ==
    ASSUME StoreTypeOK, NEW c \in Commands, NEW a
    PROVE  /\ \A st \in CommandStatus : update_command_status_for_attempt(c, a, st) =>
                  Accepts(c, a) /\ Only(c, st, cmd[c].attempt) /\ SameLetters
           /\ mark_command_succeeded_for_attempt(c, a) =>
                  /\ Accepts(c, a) /\ cmd[c].status \in Active
                  /\ Only(c, "succeeded", cmd[c].attempt) /\ SameLetters
           /\ mark_command_committed_for_attempt(c, a) =>
                  Accepts(c, a) /\ Only(c, "committed", 0) /\ SameLetters
           /\ dead_letter_command_for_attempt(c, a) =>
                  Accepts(c, a) /\ Only(c, "dead_letter", 0) /\ NewLetter(c)
           /\ insert_reply_event(c, a) => \A d \in Commands : Untouched(d)
<1>1. ASSUME NEW st \in CommandStatus, update_command_status_for_attempt(c, a, st)
      PROVE  Accepts(c, a) /\ Only(c, st, cmd[c].attempt) /\ SameLetters
  <2>1. Accepts(c, a) /\ UNCHANGED letters
    BY <1>1 DEF update_command_status_for_attempt
  <2>2. Finish(c, st, FALSE) \/ cmd' = [cmd EXCEPT ![c].status = st]
    BY <1>1 DEF update_command_status_for_attempt
  <2> QED
    BY <2>1, <2>2, FinishOnly, StatusOnly DEF SameLetters
<1>2. ASSUME mark_command_succeeded_for_attempt(c, a)
      PROVE  /\ Accepts(c, a) /\ cmd[c].status \in Active
             /\ Only(c, "succeeded", cmd[c].attempt) /\ SameLetters
  <2>1. /\ Accepts(c, a) /\ cmd[c].status \in Active /\ UNCHANGED letters
        /\ cmd' = [cmd EXCEPT ![c].status = "succeeded"]
    BY <1>2 DEF mark_command_succeeded_for_attempt
  <2> QED
    BY <2>1, StatusOnly DEF SameLetters
<1>3. ASSUME mark_command_committed_for_attempt(c, a)
      PROVE  Accepts(c, a) /\ Only(c, "committed", 0) /\ SameLetters
  <2>1. Accepts(c, a) /\ UNCHANGED letters /\ Finish(c, "committed", TRUE)
    BY <1>3 DEF mark_command_committed_for_attempt
  <2>2. Only(c, "committed", IF TRUE THEN 0 ELSE cmd[c].attempt)
    BY <2>1, FinishOnly
  <2> QED
    BY <2>1, <2>2 DEF SameLetters
<1>4. ASSUME dead_letter_command_for_attempt(c, a)
      PROVE  Accepts(c, a) /\ Only(c, "dead_letter", 0) /\ NewLetter(c)
  <2>1. Accepts(c, a) /\ WriteLetter(c) /\ Finish(c, "dead_letter", TRUE)
    BY <1>4 DEF dead_letter_command_for_attempt
  <2>2. Only(c, "dead_letter", IF TRUE THEN 0 ELSE cmd[c].attempt)
    BY <2>1, FinishOnly
  <2> QED
    BY <2>1, <2>2, LetterOnly DEF NewLetter
<1>5. insert_reply_event(c, a) => \A d \in Commands : Untouched(d)
  BY DEF insert_reply_event, Untouched
<1> QED
  BY <1>1, <1>2, <1>3, <1>4, <1>5

LEMMA ExpiryChange ==
    ASSUME StoreTypeOK, NEW c \in Commands, NEW e, handle_lease_expiry(c, e)
    PROVE  /\ cmd[c].epoch = e /\ cmd[c].status \in Active
           /\ \/ cmd[c].count >= cmd[c].max /\ Only(c, "dead_letter", 0) /\ NewLetter(c)
              \/ cmd[c].count < cmd[c].max /\ Only(c, "retry_scheduled", 0) /\ SameLetters
<1>1. /\ cmd[c].epoch = e /\ cmd[c].status \in Active
      /\ \/ /\ cmd[c].count >= cmd[c].max /\ WriteLetter(c)
            /\ cmd' = [cmd EXCEPT ![c].status = "dead_letter", ![c].attempt = 0]
         \/ /\ ~(cmd[c].count >= cmd[c].max) /\ UNCHANGED letters
            /\ cmd' = [cmd EXCEPT ![c].status = "retry_scheduled", ![c].attempt = 0]
  BY DEF handle_lease_expiry, Expires, is_exhausted
<1>2. cmd[c].count \in Nat /\ cmd[c].max \in Nat
  BY DEF StoreTypeOK, CommandRow
<1>3. CASE /\ cmd[c].count >= cmd[c].max /\ WriteLetter(c)
           /\ cmd' = [cmd EXCEPT ![c].status = "dead_letter", ![c].attempt = 0]
  <2>1. Only(c, "dead_letter", 0) /\ NewLetter(c)
    BY <1>3, AttemptOnly, LetterOnly DEF NewLetter
  <2> QED
    BY <1>1, <1>3, <2>1
<1>4. CASE /\ ~(cmd[c].count >= cmd[c].max) /\ UNCHANGED letters
           /\ cmd' = [cmd EXCEPT ![c].status = "retry_scheduled", ![c].attempt = 0]
  <2>1. Only(c, "retry_scheduled", 0) /\ SameLetters
    BY <1>4, AttemptOnly DEF SameLetters
  <2> QED
    BY <1>1, <1>2, <1>4, <2>1, SMT
<1> QED
  BY <1>1, <1>3, <1>4

LEMMA SchedulerChange ==
    ASSUME StoreTypeOK, NEW c \in Commands
    PROVE  /\ ResetToPending(c) => Only(c, "pending", cmd[c].attempt) /\ SameLetters
           /\ DeadLetterUnfenced(c) => Only(c, "dead_letter", cmd[c].attempt) /\ SameLetters
           /\ insert_dead_letter(c) => (\A d \in Commands : cmd'[d] = cmd[d]) /\ NewLetter(c)
           /\ insert_command(c) =>
                  /\ cmd[c].status = "absent"
                  /\ Only(c, "pending", cmd[c].attempt) /\ SameLetters
<1>1. ASSUME ResetToPending(c)
      PROVE  Only(c, "pending", cmd[c].attempt) /\ SameLetters
  BY <1>1, StatusOnly DEF ResetToPending, SameLetters
<1>2. ASSUME DeadLetterUnfenced(c)
      PROVE  Only(c, "dead_letter", cmd[c].attempt) /\ SameLetters
  <2>1. Finish(c, "dead_letter", FALSE) /\ UNCHANGED letters
    BY <1>2 DEF DeadLetterUnfenced
  <2>2. Only(c, "dead_letter", IF FALSE THEN 0 ELSE cmd[c].attempt)
    BY <2>1, FinishOnly
  <2> QED
    BY <2>1, <2>2 DEF SameLetters
<1>3. ASSUME insert_dead_letter(c)
      PROVE  (\A d \in Commands : cmd'[d] = cmd[d]) /\ NewLetter(c)
  BY <1>3, LetterOnly DEF insert_dead_letter, NewLetter
<1>4. ASSUME insert_command(c)
      PROVE  /\ cmd[c].status = "absent"
             /\ Only(c, "pending", cmd[c].attempt) /\ SameLetters
  <2> DEFINE h == binding[AgentOfCommand(c)]
  <2>1. /\ cmd[c].status = "absent" /\ UNCHANGED letters
        /\ cmd' = [cmd EXCEPT ![c].status = "pending", ![c].host = h]
    BY <1>4 DEF insert_command
  <2> HIDE DEF h
  <2>2. Only(c, "pending", cmd[c].attempt)
    BY <2>1, SMT DEF Only, Sets, StoreTypeOK, CommandRow
  <2> QED
    BY <2>1, <2>2 DEF SameLetters
<1> QED
  BY <1>1, <1>2, <1>3, <1>4

LeasedNow(c) ==
    /\ cmd[c].status = "pending" /\ cmd'[c].status = "leased" /\ lease' = lease + 1
    /\ cmd'[c].attempt = lease + 1 /\ cmd'[c].epoch = session[SessionOf[c]].epoch + 1
    /\ cmd'[c].count = cmd[c].count + 1 /\ cmd'[c].max = cmd[c].max
    /\ letters'[c] = letters[c]

LEMMA LeaseChange ==
    ASSUME StoreTypeOK, NEW B \in SUBSET Commands, assign_batch_leases(B)
    PROVE  /\ \A c \in B : LeasedNow(c)
           /\ \A c \in Commands \ B : Untouched(c)
           /\ \A s \in Sessions : session'[s] =
                  IF \E c \in B : SessionOf[c] = s
                  THEN [epoch |-> session[s].epoch + 1, status |-> "active", beat |-> "fresh"]
                  ELSE session[s]
<1>1. /\ \A c \in B : cmd[c].status = "pending"
      /\ UNCHANGED letters /\ LeaseRows(B)
  BY DEF assign_batch_leases, BatchIsPending
<1>2. ASSUME NEW c \in B PROVE LeasedNow(c)
  <2> DEFINE e == session[SessionOf[c]].epoch + 1
             l == lease + 1
  <2>1. cmd'[c] = [cmd[c] EXCEPT !.status = "leased", !.attempt = l, !.epoch = e,
                                 !.count = cmd[c].count + 1] /\ lease' = l
    BY <1>1 DEF LeaseRows
  <2> HIDE DEF e, l
  <2>2. /\ cmd'[c].status = "leased" /\ cmd'[c].attempt = l /\ cmd'[c].epoch = e
        /\ cmd'[c].count = cmd[c].count + 1 /\ cmd'[c].max = cmd[c].max
    BY <2>1, SMT DEF StoreTypeOK, CommandRow
  <2> QED
    BY <1>1, <2>1, <2>2 DEF LeasedNow, e, l
<1>3. ASSUME NEW c \in Commands \ B PROVE Untouched(c)
  BY <1>1, <1>3 DEF LeaseRows, Untouched
<1>4. ASSUME NEW s \in Sessions
      PROVE  session'[s] =
                  IF \E c \in B : SessionOf[c] = s
                  THEN [epoch |-> session[s].epoch + 1, status |-> "active", beat |-> "fresh"]
                  ELSE session[s]
  BY <1>1 DEF LeaseRows
<1> QED
  BY <1>2, <1>3, <1>4

\* The account of g is retired: what waits is dead, what runs is not retried.
Retired(c) ==
    /\ AgentOfCommand(c) \in Accounted /\ letters'[c] = letters[c]
    /\ \/ /\ cmd[c].status \in {"pending", "retry_scheduled"}
          /\ Sets(c, "dead_letter", cmd[c].attempt)
       \/ /\ cmd[c].status \in Active
          /\ cmd'[c].status = cmd[c].status /\ cmd'[c].attempt = cmd[c].attempt
          /\ cmd'[c].epoch = cmd[c].epoch /\ cmd'[c].count = cmd[c].count
          /\ cmd'[c].max = IF cmd[c].count > 1 THEN cmd[c].count ELSE 1

-----------------------------------------------------------------------------
(* What a step changes in the command table, and on whose behalf.           *)

Kept(c, st) == Sets(c, st, cmd[c].attempt) /\ letters'[c] = letters[c]
Released(c, st) == Sets(c, st, 0) /\ letters'[c] = letters[c]
Buried(c) == Sets(c, "dead_letter", 0) /\ letters'[c] = letters[c] + 1
Arrives(c) == cmd[c].status = "absent" /\ Kept(c, "pending")

Marked(c, a) ==
    /\ Accepts(c, a) /\ c \in Unsettled(task[a]) /\ task[a].phase \in Early
    /\ \E st \in {"started", "heartbeating"} : Kept(c, st)

SettledNow(c, a) ==
    /\ Accepts(c, a) /\ task[a].phase = "settle" /\ c \in task[a].todo
    /\ c \notin Unsettled(task'[a])
    /\ \/ /\ task[a].outcome \in {"ok", "empty"}
          /\ cmd[c].status \in Active /\ Kept(c, "succeeded")
       \/ /\ task[a].outcome = "retriable" /\ cmd[c].count < MaxAttempts
          /\ Kept(c, "retry_scheduled")
       \/ task[a].outcome \in {"retriable", "fatal"} /\ Buried(c)

CommittedNow(c) ==
    /\ Accepts(c, writer.attempt) /\ writer.phase = "commit" /\ c \in writer.todo
    /\ Released(c, "committed")

ExpiredNow(c) ==
    /\ cmd[c].status \in Active
    /\ \/ cmd[c].count >= cmd[c].max /\ Buried(c)
       \/ cmd[c].count < cmd[c].max /\ Released(c, "retry_scheduled")

ResetNow(c) ==
    /\ retrier.phase = "reset" /\ c \in retrier.todo
    /\ retrier'.todo \subseteq retrier.todo \ {c} /\ retrier'.letter = {}
    /\ Kept(c, "pending")

GivenUpNow(c) ==
    /\ retrier.phase = "exhausted" /\ c \in retrier.todo
    /\ retrier'.todo \subseteq retrier.todo \ {c} /\ retrier'.letter \subseteq {c}
    /\ Kept(c, "dead_letter")

LetteredNow(c) ==
    /\ retrier.phase = "exhausted" /\ c \in retrier.letter
    /\ retrier'.todo \subseteq retrier.todo /\ retrier'.letter = {}
    /\ cmd'[c] = cmd[c] /\ letters'[c] = letters[c] + 1

OneChange(c) ==
    \/ Arrives(c)
    \/ \E a \in 1 .. MaxLease : Marked(c, a) \/ SettledNow(c, a)
    \/ CommittedNow(c) \/ ExpiredNow(c) \/ ResetNow(c) \/ GivenUpNow(c) \/ LetteredNow(c)

Swept(c) == cmd[c].status = "pending" /\ Kept(c, "dead_letter")
FoundOf(g) == {c \in found : AgentOfCommand(c) = g}

TableChanges ==
    \/ \A c \in Commands : Untouched(c)
    \/ \E c \in Commands : OneChange(c) /\ \A d \in Commands \ {c} : Untouched(d)
    \/ \E g \in Agents : /\ found' = found \ FoundOf(g)
                         /\ \A c \in FoundOf(g) : LeasedNow(c)
                         /\ \A c \in Commands \ FoundOf(g) : Untouched(c)
    \/ \E S \in SUBSET Commands : /\ \A c \in S : Swept(c)
                                  /\ \A c \in Commands \ S : Untouched(c)
    \/ \A c \in Commands : Untouched(c) \/ Retired(c)

-----------------------------------------------------------------------------
(* Every write is a transaction of the store.  The one reservation is the   *)
(* letter the retry scheduler writes by itself, which SessionStore bounds.  *)

LettersLeft == \A c \in retrier.letter : letters[c] < MaxLetters

-----------------------------------------------------------------------------
(* The core invariant: what a loop holds in memory is still true of the     *)
(* tables as long as the fence accepts it.                                  *)
Live == Active \cup {"succeeded"}
Answerable == {"succeeded", "committed"}
Waiting == {"retry_scheduled", "dead_letter"}

\* While the command holds attempt a, its status is in S.
Holds(c, a, S) == cmd[c].attempt = a => cmd[c].status \in S

\* What a task has not settled yet still runs; what succeeded stays so.
TaskSafe(a) ==
    /\ task[a].phase # "none" => a <= lease
    /\ \A c \in Unsettled(task[a]) : Holds(c, a, Active)
    /\ task[a].phase \in {"settle", "send"} =>
           /\ \A c \in task[a].closable : cmd[c].status \in Answerable
           /\ task[a].outcome \in {"ok", "empty"} =>
                  \A c \in task[a].members : Holds(c, a, Live)

\* A result in flight outlives its task.
ResultSafe(r) ==
    /\ r.attempt <= lease /\ task[r.attempt].phase = "none"
    /\ r.outcome \in {"ok", "empty"} => Holds(r.primary, r.attempt, Live)
    /\ \A c \in r.closable : cmd[c].status \in Answerable

ChannelSafe == \A i \in 1 .. Len(channel) : ResultSafe(channel[i])

WriterSafe ==
    writer.phase # "idle" =>
        /\ writer.attempt <= lease /\ task[writer.attempt].phase = "none"
        /\ Holds(writer.primary, writer.attempt, Live)
        /\ \A c \in writer.todo \ {writer.primary} : cmd[c].status \in Answerable

\* What the retry scheduler read is still waiting, or was given up since.
RetrierSafe ==
    /\ \A c \in retrier.todo : cmd[c].status \in Waiting
    /\ \A c \in retrier.letter : cmd[c].status = "dead_letter" /\ c \notin retrier.todo

\* A committed command holds no attempt.
ClosedFree == \A c \in Commands : cmd[c].status = "committed" => cmd[c].attempt = 0

Core ==
    /\ Oldest /\ StoreInv /\ MemoryOK
    /\ \A a \in 1 .. MaxLease : TaskSafe(a)
    /\ ChannelSafe /\ WriterSafe /\ RetrierSafe /\ ClosedFree

-----------------------------------------------------------------------------
(* One step in the life of a command.                                       *)

Idles(c) ==
    /\ cmd'[c].status = cmd[c].status /\ cmd'[c].attempt = cmd[c].attempt
    /\ cmd'[c].epoch = cmd[c].epoch /\ cmd'[c].count = cmd[c].count
    /\ Untouched(c) \/ LetteredNow(c) \/ (Retired(c) /\ cmd[c].status \in Active)

Starts(c) ==
    /\ LeasedNow(c) /\ c \in found
    /\ \A d \in Commands : AgentOfCommand(d) = AgentOfCommand(c) => d \notin found'

Runs(c) == cmd[c].status \in Active /\ \E st \in Active : Kept(c, st)

Succeeds(c) ==
    /\ cmd[c].status \in Active /\ Kept(c, "succeeded")
    /\ \E a \in 1 .. MaxLease :
           /\ cmd[c].attempt = a /\ task[a].phase = "settle" /\ c \notin Unsettled(task'[a])
           /\ task[a].outcome \in {"ok", "empty"}

FailsOnce(c) ==
    /\ cmd[c].status \in Active /\ Kept(c, "retry_scheduled") /\ cmd[c].count < MaxAttempts
    /\ \E a \in 1 .. MaxLease :
           /\ cmd[c].attempt = a /\ task[a].phase = "settle" /\ c \notin Unsettled(task'[a])
           /\ task[a].outcome = "retriable"

IsLost(c) ==
    /\ cmd[c].status \in Active
    /\ \/ Buried(c)
       \/ Released(c, "retry_scheduled") /\ cmd[c].count < cmd[c].max

Commits(c) ==
    /\ cmd[c].status \in Live /\ Released(c, "committed")
    /\ writer.phase = "commit" /\ c \in writer.todo

Requeues(c) == cmd[c].status \in Waiting /\ ResetNow(c)
GivesUp(c) == cmd[c].status \in Waiting /\ GivenUpNow(c)

Drops(c) ==
    /\ cmd[c].status \in {"pending", "retry_scheduled"} /\ Kept(c, "dead_letter")
    /\ Swept(c) \/ Retired(c)

LifeStep(c) ==
    \/ Idles(c) \/ Arrives(c) \/ Starts(c) \/ Runs(c) \/ Succeeds(c) \/ FailsOnce(c)
    \/ IsLost(c) \/ Commits(c) \/ Requeues(c) \/ GivesUp(c) \/ Drops(c)

LEMMA EveryLifeStep ==
    ASSUME Core, TableChanges, NEW c \in Commands
    PROVE  LifeStep(c)
<1>0. StoreTypeOK /\ MemoryOK
  BY DEF Core, StoreInv
<1>1. Untouched(c) => Idles(c)
  BY DEF Untouched, Idles
<1>2. ASSUME OneChange(c) PROVE LifeStep(c)
  <2>1. CASE Arrives(c)
    BY <2>1 DEF LifeStep
  <2>2. ASSUME NEW a \in 1 .. MaxLease, Marked(c, a) \/ SettledNow(c, a)
        PROVE  LifeStep(c)
    <3>1. cmd[c].attempt = a /\ c \in Unsettled(task[a])
      BY <2>2 DEF Marked, SettledNow, Accepts, Unsettled, Early
    <3>2. cmd[c].status \in Active
      BY <3>1 DEF Core, TaskSafe, Holds
    <3>3. CASE Marked(c, a)
      <4>1. PICK st \in Active : Kept(c, st)
        BY <3>3 DEF Marked, Active
      <4> QED
        BY <3>2, <4>1 DEF LifeStep, Runs
    <3>4. CASE SettledNow(c, a)
      BY <3>1, <3>2, <3>4 DEF SettledNow, LifeStep, Succeeds, FailsOnce, IsLost
    <3> QED
      BY <2>2, <3>3, <3>4
  <2>3. CASE CommittedNow(c)
    <3>1. /\ writer.phase = "commit" /\ c \in writer.todo /\ cmd[c].attempt = writer.attempt
          /\ writer.attempt # 0 /\ Released(c, "committed")
      BY <2>3 DEF CommittedNow, Accepts
    <3>2. cmd[c].status \in Live
      <4>1. CASE c = writer.primary
        BY <3>1, <4>1 DEF Core, WriterSafe, Holds
      <4>2. CASE c # writer.primary
        <5>1. cmd[c].status \in Answerable
          BY <3>1, <4>2 DEF Core, WriterSafe
        <5>2. cmd[c].status # "committed"
          BY <3>1 DEF Core, ClosedFree
        <5> QED
          BY <5>1, <5>2 DEF Answerable, Live
      <4> QED
        BY <4>1, <4>2
    <3> QED
      BY <3>1, <3>2 DEF LifeStep, Commits
  <2>4. CASE ExpiredNow(c)
    BY <2>4 DEF ExpiredNow, LifeStep, IsLost
  <2>5. CASE ResetNow(c)
    BY <2>5 DEF ResetNow, LifeStep, Requeues, Core, RetrierSafe
  <2>6. CASE GivenUpNow(c)
    BY <2>6 DEF GivenUpNow, LifeStep, GivesUp, Core, RetrierSafe
  <2>7. CASE LetteredNow(c)
    BY <2>7 DEF LetteredNow, LifeStep, Idles
  <2> QED
    BY <1>2, <2>1, <2>2, <2>3, <2>4, <2>5, <2>6, <2>7 DEF OneChange
<1>3. ASSUME NEW g \in Agents, found' = found \ FoundOf(g), c \in FoundOf(g), LeasedNow(c)
      PROVE  LifeStep(c)
  BY <1>3 DEF LifeStep, Starts, FoundOf
<1>4. Swept(c) => LifeStep(c)
  BY DEF Swept, LifeStep, Drops
<1>5. Retired(c) => LifeStep(c)
  BY DEF Retired, LifeStep, Drops, Idles, Kept
<1> QED
  BY <1>1, <1>2, <1>3, <1>4, <1>5 DEF TableChanges, LifeStep

-----------------------------------------------------------------------------
(* The core is inductive.                                                   *)

Steps == Writes /\ TableChanges /\ MemoryMoves /\ MemoryOK' /\ StoreInv' /\ StepShape

\* The result of task a, sent by this step.
Sent(a, r) ==
    /\ task[a].phase = "send" /\ r.attempt = a /\ r.primary = Primary(task[a].members)
    /\ r.outcome = task[a].outcome /\ r.closable = task[a].closable
    /\ UNCHANGED storeVars /\ writer' = writer /\ task'[a].phase = "none"

LEMMA SentResult ==
    ASSUME MemoryOK, NEW a \in 1 .. MaxLease, SendResult(a)
    PROVE  /\ Len(channel') = Len(channel) + 1 /\ Len(channel) \in Nat
           /\ \A i \in 1 .. Len(channel) : channel'[i] = channel[i]
           /\ Sent(a, channel'[Len(channel) + 1])
<1> DEFINE r == [attempt |-> a, primary |-> Primary(task[a].members),
                 outcome |-> task[a].outcome, closable |-> task[a].closable]
<1>1. channel' = Append(channel, r) /\ channel \in Seq(Result)
  BY DEF SendResult, MemoryOK
<1>2. /\ r.attempt = a /\ r.primary = Primary(task[a].members)
      /\ r.outcome = task[a].outcome /\ r.closable = task[a].closable
  OBVIOUS
<1>3. task'[a].phase = "none"
  BY DEF SendResult, TaskEnds, TaskIs, MemoryOK, TasksOK, NoTask
<1> HIDE DEF r
<1>4. /\ Len(channel') = Len(channel) + 1 /\ Len(channel) \in Nat
      /\ \A i \in 1 .. Len(channel) : channel'[i] = channel[i]
      /\ channel'[Len(channel) + 1] = r
  BY <1>1, SMT
<1> QED
  BY <1>2, <1>3, <1>4 DEF SendResult, Sent

\* A result in the channel was there before, or is just sent.
LEMMA ChannelOrigin ==
    ASSUME MemoryOK, ChannelMoved, NEW i \in 1 .. Len(channel')
    PROVE  \/ \E j \in 1 .. Len(channel) : channel'[i] = channel[j]
           \/ \E a \in 1 .. MaxLease : Sent(a, channel'[i])
<1>0. Len(channel) \in Nat
  BY SMT DEF MemoryOK
<1>1. CASE channel' = channel \/ channel' = <<>>
  BY <1>1, SMT
<1>2. CASE WriterReceive
  <2>1. Len(channel') = Len(channel) - 1 /\ channel'[i] = channel[i + 1]
    BY <1>2, ReceivedResult
  <2>2. i + 1 \in 1 .. Len(channel)
    BY <1>0, <2>1, SMT
  <2> QED
    BY <2>1, <2>2
<1>3. ASSUME NEW a \in 1 .. MaxLease, SendResult(a)
      PROVE  \/ \E j \in 1 .. Len(channel) : channel'[i] = channel[j]
             \/ Sent(a, channel'[i])
  <2>1. /\ Len(channel') = Len(channel) + 1
        /\ \A j \in 1 .. Len(channel) : channel'[j] = channel[j]
        /\ Sent(a, channel'[Len(channel) + 1])
    BY <1>3, SentResult
  <2>2. i \in 1 .. Len(channel) \/ i = Len(channel) + 1
    BY <1>0, <2>1, SMTT(30)
  <2> QED
    BY <2>1, <2>2
<1> QED
  BY <1>1, <1>2, <1>3 DEF ChannelMoved

LEMMA ChannelRows ==
    ASSUME MemoryOK, NEW i \in 1 .. Len(channel)
    PROVE  /\ channel[i] \in Result /\ channel[i].attempt \in 1 .. MaxLease
           /\ channel[i].primary \in Commands /\ channel[i].closable \subseteq Commands
<1>1. channel[i] \in Result
  BY SMTT(30) DEF MemoryOK
<1> QED
  BY <1>1 DEF Result

\* What waits, waits on or is given up, unless the scheduler requeues it.
LEMMA WaitsOn ==
    ASSUME Core, Steps, NEW c \in Commands
    PROVE  /\ cmd[c].status \in Waiting => cmd'[c].status \in Waiting \/ ResetNow(c)
           /\ cmd[c].status = "dead_letter" => cmd'[c].status = "dead_letter" \/ ResetNow(c)
           /\ cmd'[c].status = "committed" =>
                  cmd'[c].attempt = 0
<1>0. LifeStep(c) /\ ClosedFree
  BY EveryLifeStep DEF Steps, Core
<1>1. CASE Idles(c) \/ Arrives(c) \/ Starts(c) \/ Runs(c)
  BY <1>0, <1>1 DEF Idles, Arrives, Starts, LeasedNow, Runs, Kept, Sets, Waiting, Active,
                    ClosedFree
<1>2. CASE Succeeds(c) \/ FailsOnce(c) \/ IsLost(c) \/ Commits(c)
  BY <1>2 DEF Succeeds, FailsOnce, IsLost, Commits, Kept, Released, Buried, Sets, Waiting,
              Active, Live
<1>3. CASE Requeues(c) \/ GivesUp(c) \/ Drops(c)
  BY <1>3 DEF Requeues, GivesUp, Drops, ResetNow, GivenUpNow, Kept, Sets, Waiting
<1> QED
  BY <1>0, <1>1, <1>2, <1>3 DEF LifeStep

\* What the scheduler holds comes from what it held, or is read just now.
LEMMA RetrierOrigin ==
    ASSUME Core, Steps
    PROVE  /\ retrier.todo \subseteq Commands /\ retrier.letter \subseteq Commands
           /\ \A c \in retrier'.letter :
                  \/ c \in retrier.letter /\ retrier' = retrier
                  \/ /\ c \in retrier.todo /\ c \notin retrier'.todo
                     /\ retrier.phase = "exhausted" /\ cmd'[c].status = "dead_letter"
           /\ \A c \in retrier'.todo :
                  \/ c \in retrier.todo /\ retrier'.phase = retrier.phase
                  \/ c \in retrier.todo /\ retrier'.phase = "idle"
                  \/ /\ cmd[c].status = "retry_scheduled" /\ UNCHANGED storeVars
                     /\ retrier'.phase = "reset" => ~is_exhausted(cmd[c].count, cmd[c].max)
<1>0. RetrierMoved /\ retrier \in RetrierRow /\ StoreTypeOK
  BY DEF Core, Steps, MemoryMoves, MemoryOK, StoreInv
<1>1. retrier.todo \subseteq Commands /\ retrier.letter \subseteq Commands
  BY <1>0 DEF RetrierRow
<1>2. CASE retrier' = retrier
  BY <1>1, <1>2
<1>3. CASE retrier' = NoRetries
  BY <1>1, <1>3 DEF NoRetries
<1>4. CASE RetrierReads
  <2>1. RetryScheduled(TRUE) \subseteq {c \in Commands : cmd[c].status = "retry_scheduled"}
    BY DEF RetryScheduled
  <2>2. RetryScheduled(FALSE) \subseteq {c \in Commands :
            cmd[c].status = "retry_scheduled" /\ is_exhausted(cmd[c].count, cmd[c].max) = FALSE}
    BY DEF RetryScheduled
  <2> QED
    BY <1>1, <1>4, <2>1, <2>2 DEF RetrierReads
<1>5. CASE RetrierWorks
  <2>1. CASE retrier'.todo \subseteq retrier.todo /\ retrier'.letter = {}
    BY <1>1, <1>5, <2>1 DEF RetrierWorks
  <2>2. ASSUME NEW c \in retrier.todo, retrier.phase = "exhausted", DeadLetterUnfenced(c),
               retrier'.letter = {c}, retrier'.todo = retrier.todo \ {c}
        PROVE  cmd'[c].status = "dead_letter"
    BY <1>0, <1>1, <2>2, SchedulerChange DEF Only, Sets
  <2> QED
    BY <1>1, <1>5, <2>1, <2>2 DEF RetrierWorks
<1> QED
  BY <1>0, <1>2, <1>3, <1>4, <1>5 DEF RetrierMoved

-----------------------------------------------------------------------------
(* One batch per agent, and no lapping.                                     *)

\* A command comes to block its agent only when it is started.
LEMMA BlocksOn ==
    ASSUME Core, Steps, NEW c \in Commands
    PROVE  /\ cmd'[c].status \in BlockingStatus => cmd[c].status \in BlockingStatus \/ Starts(c)
           /\ cmd'[c].status \in Active =>
                  \/ Starts(c)
                  \/ /\ cmd[c].status \in Active /\ cmd'[c].attempt = cmd[c].attempt
                     /\ cmd'[c].epoch = cmd[c].epoch
           /\ cmd[c].status = "pending" /\ cmd'[c].status = "leased" => Starts(c)
<1>0. LifeStep(c)
  BY EveryLifeStep DEF Steps
<1>1. CASE Idles(c) \/ Arrives(c) \/ Runs(c)
  BY <1>1 DEF Idles, Arrives, Runs, Kept, Sets, BlockingStatus, Active
<1>2. CASE Succeeds(c) \/ FailsOnce(c) \/ IsLost(c) \/ Commits(c)
  BY <1>2 DEF Succeeds, FailsOnce, IsLost, Commits, Kept, Released, Buried, Sets,
              BlockingStatus, Active
<1>3. CASE Requeues(c) \/ GivesUp(c) \/ Drops(c)
  BY <1>3 DEF Requeues, GivesUp, Drops, ResetNow, GivenUpNow, Kept, Sets, BlockingStatus,
              Active
<1> QED
  BY <1>0, <1>1, <1>2, <1>3 DEF LifeStep
=============================================================================
