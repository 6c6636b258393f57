-------------------------- MODULE ComponentProofs ---------------------------
(* What four components guarantee for any number of workers, requests and   *)
(* objects: the log of turns, the attachment store, the messages of a group *)
(* and the tool journal.                                                    *)
EXTENDS Journals, Attachments, Conversations, FiniteSetTheorems, TLAPS

\* Zenon proves a leaf that does not ask for another prover.
USE ZenonT(30)

-----------------------------------------------------------------------------
(* The log of turns.                                                       *)

TurnWalSpec == TurnWalInit /\ [][TurnWalNext]_walVars

Ended(t, a) == <<t, a, "finished">> \in wal \/ <<t, a, "failed">> \in wal
Incomplete(t, a) == <<t, a, "start">> \in wal /\ ~Ended(t, a)

(* What is open in the log was logged since the process began or is still in *)
(* the way of the scan, unless the scan met an error.                        *)
WalInv ==
    /\ TurnWalTypeOK
    /\ ~scanErrors => \A t \in WalTurns, a \in WalAttempts :
          Incomplete(t, a) /\ FileOf(t) \in WalFiles =>
              <<t, a>> \in started \/ <<t, a>> \in found \/ FileOf(t) \in scanQueue

\* A row that is written opens at most the attempt log_turn_start is called for.
LEMMA WalInsert ==
    ASSUME WalInv, NEW t \in WalTurns, NEW a \in WalAttempts, NEW e \in EventTypes, Insert(t, a, e),
           NEW u \in WalTurns, NEW b \in WalAttempts, Incomplete(u, b)'
    PROVE  Incomplete(u, b) \/ (e = "start" /\ u = t /\ b = a)
<1>1. wal' = wal \cup {<<t, a, e>>}
  BY DEF Insert
<1> QED
  BY <1>1, SMTT(30) DEF Incomplete, Ended, EventTypes

\* log_turn_start opens an attempt of this process.
LEMMA WalStart ==
    ASSUME WalInv, NEW t \in WalTurns, NEW a \in WalAttempts, log_turn_start(t, a)
    PROVE  WalInv'
<1>1. /\ started' = started \cup {<<t, a>>} /\ Insert(t, a, "start")
      /\ scanQueue' = scanQueue /\ found' = found /\ scanErrors' = scanErrors
  BY DEF log_turn_start
<1>2. TurnWalTypeOK'
  BY <1>1, SMTT(30) DEF Insert, WalInv, TurnWalTypeOK, Rows_, EventTypes
<1>3. \A u \in WalTurns, b \in WalAttempts :
          Incomplete(u, b)' => Incomplete(u, b) \/ <<u, b>> \in started'
  BY <1>1, WalInsert DEF EventTypes
<1>4. \A u \in WalTurns : FileOf(u)' = FileOf(u)
  BY DEF FileOf
<1> QED
  BY <1>1, <1>2, <1>3, <1>4 DEF WalInv

\* log_turn_finished and log_turn_failed open nothing.
LEMMA WalEnd ==
    ASSUME WalInv, NEW t \in WalTurns, NEW a \in WalAttempts, NEW e \in {"finished", "failed"},
           log_turn_end(t, a, e)
    PROVE  WalInv'
<1>1. /\ Insert(t, a, e) /\ e \in EventTypes /\ e # "start"
      /\ started' = started /\ scanQueue' = scanQueue /\ found' = found /\ scanErrors' = scanErrors
  BY DEF log_turn_end, EventTypes
<1>2. TurnWalTypeOK'
  BY <1>1, SMTT(30) DEF Insert, WalInv, TurnWalTypeOK, Rows_
<1>3. \A u \in WalTurns, b \in WalAttempts : Incomplete(u, b)' => Incomplete(u, b)
  BY <1>1, WalInsert
<1>4. \A u \in WalTurns : FileOf(u)' = FileOf(u)
  BY DEF FileOf
<1> QED
  BY <1>1, <1>2, <1>3, <1>4 DEF WalInv

\* cleanup deletes whole turns, so it leaves no start whose end it took.
LEMMA WalCleanup == ASSUME WalInv, cleanup PROVE WalInv'
<1>1. /\ wal' = wal \ CleanedRows /\ oldRows' = oldRows \ CleanedRows
      /\ started' = started /\ scanQueue' = scanQueue /\ found' = found /\ scanErrors' = scanErrors
  BY DEF cleanup
<1>2. TurnWalTypeOK'
  BY <1>1 DEF WalInv, TurnWalTypeOK
<1>3. ASSUME NEW u \in WalTurns, NEW b \in WalAttempts, Incomplete(u, b)'
      PROVE  Incomplete(u, b)
  <2>1. ASSUME NEW e \in {"finished", "failed"}, <<u, b, e>> \in CleanedRows
        PROVE  <<u, b, "start">> \in wal => <<u, b, "start">> \in CleanedRows
    BY <2>1, SMTT(30) DEF CleanedRows
  <2> QED
    BY <1>1, <1>3, <2>1 DEF Incomplete, Ended
<1>4. \A u \in WalTurns : FileOf(u)' = FileOf(u)
  BY DEF FileOf
<1> QED
  BY <1>1, <1>2, <1>3, <1>4 DEF WalInv

\* The scan of one file finds what is incomplete there, or records an error.
LEMMA WalScan == ASSUME WalInv, NEW f \in WalFiles, ScanFile(f) PROVE WalInv'
<1>1. /\ wal' = wal /\ oldRows' = oldRows /\ started' = started
      /\ f \in scanQueue /\ scanQueue' = scanQueue \ {f} /\ found = {}
      /\ \/ found' = find_incomplete_turns(f) /\ scanErrors' = scanErrors
         \/ found' = found /\ scanErrors' = TRUE
  BY DEF ScanFile
<1>2. \A u \in WalTurns, b \in WalAttempts : <<u, b>> \in find_incomplete_turns(f) <=>
          FileOf(u) = f /\ Incomplete(u, b)
  BY DEF find_incomplete_turns, Incomplete, Ended
<1>3. TurnWalTypeOK'
  BY <1>1 DEF WalInv, TurnWalTypeOK, find_incomplete_turns
<1>4. \A u \in WalTurns, b \in WalAttempts : Incomplete(u, b)' <=> Incomplete(u, b)
  BY <1>1 DEF Ended, Incomplete
<1>5. ~scanErrors' => \A u \in WalTurns, b \in WalAttempts :
          Incomplete(u, b)' /\ FileOf(u) \in WalFiles =>
              <<u, b>> \in started' \/ <<u, b>> \in found' \/ FileOf(u) \in scanQueue'
  BY <1>1, <1>2, <1>4, SMTT(30) DEF WalInv
<1> QED
  BY <1>3, <1>5 DEF WalInv, FileOf

\* A found turn is marked failed, or the scan has met an error.
LEMMA WalMark ==
    ASSUME WalInv, NEW t \in WalTurns, NEW a \in WalAttempts, MarkFailed(<<t, a>>)
    PROVE  WalInv'
<1>1. /\ started' = started /\ scanQueue' = scanQueue /\ found' = found \ {<<t, a>>}
      /\ \/ /\ wal' = wal \cup {<<t, a, "failed">>} /\ oldRows' = oldRows \ {<<t, a, "failed">>}
            /\ scanErrors' = scanErrors
         \/ wal' = wal /\ oldRows' = oldRows /\ scanErrors' = TRUE
  BY DEF MarkFailed, Insert
<1>2. TurnWalTypeOK'
  BY <1>1, SMTT(30) DEF WalInv, TurnWalTypeOK, Rows_, EventTypes
<1>3. ~scanErrors' => \A u \in WalTurns, b \in WalAttempts :
          Incomplete(u, b)' => Incomplete(u, b) /\ ~(u = t /\ b = a)
  BY <1>1, SMTT(30) DEF Incomplete, Ended
<1>4. ~scanErrors' => \A u \in WalTurns, b \in WalAttempts :
          Incomplete(u, b)' /\ FileOf(u) \in WalFiles =>
              <<u, b>> \in started' \/ <<u, b>> \in found' \/ FileOf(u) \in scanQueue'
  BY <1>1, <1>3, SMTT(30) DEF WalInv
<1> QED
  BY <1>2, <1>4 DEF WalInv, FileOf

\* Every step of the turn log keeps WalInv.
LEMMA WalNext == WalInv /\ [TurnWalNext]_walVars => WalInv'
<1> SUFFICES ASSUME WalInv, [TurnWalNext]_walVars PROVE WalInv'
  OBVIOUS
<1>1. CASE Ages
  BY <1>1 DEF Ages, WalInv, TurnWalTypeOK, Ended, Incomplete, FileOf
<1>2. CASE UNCHANGED walVars
  BY <1>2 DEF walVars, WalInv, TurnWalTypeOK, Ended, Incomplete, FileOf
<1>3. CASE WalCrash
  BY <1>3 DEF WalCrash, WalInv, TurnWalTypeOK, Ended, Incomplete, FileOf
<1>4. CASE ScanBreaks
  BY <1>4 DEF ScanBreaks, WalInv, TurnWalTypeOK
<1> QED
  BY <1>1, <1>2, <1>3, <1>4, WalStart, WalEnd, WalCleanup, WalScan, WalMark DEF TurnWalNext

(* RecoveryIsComplete: after a recovery without error no attempt of an     *)
(* earlier process is open in the log, for any number of turns, attempts   *)
(* and database files, whatever was logged and cleaned up before, however  *)
(* many recoveries crashed or failed.                                      *)
THEOREM TurnLogRecovers == TurnWalSpec => []RecoveryIsComplete
<1>1. TurnWalInit => WalInv
  BY DEF TurnWalInit, WalInv, TurnWalTypeOK, Ended, Incomplete
<1>2. ASSUME WalInv, ~Scanning, ~scanErrors, NEW f \in WalFiles, NEW x \in find_incomplete_turns(f)
      PROVE  x \in started
  <2>1. PICK t \in WalTurns, a \in WalAttempts : x = <<t, a>>
    BY <1>2, SMTT(30) DEF find_incomplete_turns
  <2>2. FileOf(t) = f /\ Incomplete(t, a)
    BY <1>2, <2>1 DEF find_incomplete_turns, Incomplete, Ended
  <2> QED
    BY <1>2, <2>1, <2>2 DEF WalInv, Scanning
<1>3. WalInv => RecoveryIsComplete
  BY <1>2 DEF RecoveryIsComplete
<1> QED
  BY <1>1, <1>3, WalNext, PTL DEF TurnWalSpec

-----------------------------------------------------------------------------
(* Attachments.                                                            *)

AttachmentsSpec == AttachmentsInit /\ [][AttachmentsNext]_attVars

AttOps == {"none", "insert", "unlink", "commit", "send", "read"}
AttCallRow == [op : AttOps, att : AttIds \cup {0}, who : People \cup {0},
               conv : AttConversations \cup {0}]
Carried(a) == \E r \in references : r.att = a

AttTypes ==
    /\ bytes \subseteq issued /\ issued \subseteq AttIds
    /\ attRow \in [AttIds -> People \cup {NoOwner}]
    /\ references \subseteq [att : AttIds, conv : AttConversations, by : People]
    /\ attCall \in [AttCalls -> AttCallRow]
    /\ attLock \in [AttIds -> AttCalls \cup {NoAttCall}]

(* What a request found before its last step still holds: the attachment    *)
(* that an upload inserts is its own, a delete and a send hold the lock,    *)
(* and nothing refers to what is being deleted.                             *)
RequestHolds(c) ==
    LET q == attCall[c] IN
    /\ q.op # "none" => q.att \in issued /\ q.who \in People
    /\ q.op = "insert" => /\ q.att \in bytes /\ attRow[q.att] = NoOwner /\ ~Carried(q.att)
                          /\ \A d \in AttCalls \ {c} :
                                attCall[d].op = "insert" => attCall[d].att # q.att
    /\ q.op \in {"unlink", "commit", "send"} => attLock[q.att] = c
    /\ q.op \in {"unlink", "commit"} => attRow[q.att] = q.who /\ ~Carried(q.att)
    /\ q.op = "commit" => q.att \notin bytes
    /\ q.op = "send" => /\ attRow[q.att] # NoOwner /\ q.conv \in AttConversations
                        /\ attRow[q.att] = q.who \/ q.who \in AttHumans \/ Carried(q.att)

Commits(a) == \E c \in AttCalls : attCall[c].att = a /\ attCall[c].op = "commit"

\* A row has its file except between the unlink and the commit of a delete, or after a
\* delete that failed there or an insert whose answer was lost;
\* a file once missing on a read does not come back.
AttInv ==
    /\ AttTypes
    /\ \A c \in AttCalls : RequestHolds(c)
    /\ \A a \in AttIds : attRow[a] # NoOwner =>
          a \in issued /\ (a \in bytes \/ a \in unlinked \/ Commits(a))
    /\ NoOrphanBytes /\ AgentsPassOnWhatTheySaw
    /\ \A r \in references : attRow[r.att] # NoOwner
    /\ failedReads \subseteq issued /\ failedReads \cap bytes = {}

\* A request that moves on leaves the other requests where they are.
LEMMA RequestMoves ==
    ASSUME AttTypes, NEW c \in AttCalls, NEW r \in AttCallRow,
           attCall' = [attCall EXCEPT ![c] = r]
    PROVE  /\ attCall' \in [AttCalls -> AttCallRow] /\ attCall'[c] = r
           /\ \A d \in AttCalls \ {c} : attCall'[d] = attCall[d]
  BY DEF AttTypes

\* The rows that requests are set to are requests.
LEMMA RequestRows ==
    ASSUME NEW a \in AttIds, NEW who \in People, NEW k \in AttConversations \cup {0}
    PROVE  /\ Waiting \in AttCallRow /\ Waiting.op = "none"
           /\ \A op \in AttOps : [op |-> op, att |-> a, who |-> who, conv |-> k] \in AttCallRow
  BY DEF AttCallRow, AttOps, Waiting

\* A request that ends waits for nothing.
LEMMA RequestEnds ==
    ASSUME AttTypes, NEW c \in AttCalls, Finishes(c)
    PROVE  /\ attCall' \in [AttCalls -> AttCallRow] /\ attCall'[c].op = "none"
           /\ \A d \in AttCalls \ {c} : attCall'[d] = attCall[d]
<1>1. Waiting \in AttCallRow /\ Waiting.op = "none"
  BY DEF AttCallRow, AttOps, Waiting
<1> QED
  BY <1>1, RequestMoves DEF Finishes

\* Unlocking releases only what the request holds.
LEMMA UnlockEffect ==
    ASSUME AttTypes, NEW c \in AttCalls, Unlock(c)
    PROVE  /\ attLock' \in [AttIds -> AttCalls \cup {NoAttCall}]
           /\ \A a \in AttIds : attLock[a] # c => attLock'[a] = attLock[a]
  BY DEF AttTypes, Unlock

\* An upload writes the file under a fresh id, before its row.
LEMMA PutStep ==
    ASSUME AttInv, NEW c \in AttCalls, NEW a \in AttIds, NEW who \in People, put(c, a, who)
    PROVE  AttInv'
<1> DEFINE r == [op |-> "insert", att |-> a, who |-> who, conv |-> 0]
<1>1. /\ a \notin issued /\ issued' = issued \cup {a} /\ bytes' = bytes \cup {a}
      /\ attCall' = [attCall EXCEPT ![c] = r]
      /\ UNCHANGED <<attRow, references, attLock, unlinked, littered, failedReads>>
      /\ attCall[c].op = "none"
  BY DEF put, Free_, Op
<1>2. r \in AttCallRow
  BY RequestRows DEF AttOps
<1>3. /\ attCall' \in [AttCalls -> AttCallRow] /\ attCall'[c] = r
      /\ \A d \in AttCalls \ {c} : attCall'[d] = attCall[d]
  BY <1>1, <1>2, RequestMoves DEF AttInv
<1>4. AttTypes'
  BY <1>1, <1>3 DEF AttInv, AttTypes
<1>5. attRow[a] = NoOwner /\ ~Carried(a) /\ a \notin failedReads
  BY <1>1 DEF AttInv, Carried, AttTypes
<1>6. \A b \in AttIds : (Carried(b)' <=> Carried(b)) /\ (Commits(b)' <=> Commits(b))
  BY <1>1, <1>3 DEF Carried, Commits
<1>7. RequestHolds(c)'
  BY <1>1, <1>3, <1>5, <1>6, SMTT(30) DEF RequestHolds, AttInv
<1>8. ASSUME NEW d \in AttCalls \ {c} PROVE RequestHolds(d)'
  BY <1>1, <1>3, <1>6, SMTT(30) DEF RequestHolds, AttInv, AttTypes
<1>9. NoOrphanBytes' /\ AgentsPassOnWhatTheySaw'
  BY <1>1, <1>3, SMTT(30) DEF AttInv, NoOrphanBytes, Op, AgentsPassOnWhatTheySaw
<1> QED
  BY <1>1, <1>4, <1>5, <1>6, <1>7, <1>8, <1>9 DEF AttInv

\* An upload ends with the row inserted, or with the file removed or recorded as left.
LEMMA PutEnds ==
    ASSUME AttInv, NEW c \in AttCalls, put_inserts(c) \/ put_cleans_up(c) \/ put_ends_early(c)
    PROVE  AttInv'
<1> DEFINE a == attCall[c].att
<1>1. /\ attCall[c].op = "insert" /\ a \in issued /\ a \in bytes /\ attRow[a] = NoOwner
      /\ attCall[c].who \in People /\ ~Carried(a) /\ a \in AttIds
      /\ \A d \in AttCalls \ {c} : attCall[d].op = "insert" => attCall[d].att # a
  BY DEF put_inserts, put_cleans_up, put_ends_early, Op, AttInv, RequestHolds, AttTypes
<1>2. /\ attCall' \in [AttCalls -> AttCallRow] /\ attCall'[c].op = "none"
      /\ \A d \in AttCalls \ {c} : attCall'[d] = attCall[d]
  BY RequestEnds DEF AttInv, put_inserts, put_cleans_up, put_ends_early
<1>3. /\ UNCHANGED <<references, attLock, issued, failedReads>>
      /\ \/ attRow' = [attRow EXCEPT ![a] = attCall[c].who] /\ UNCHANGED <<bytes, littered, unlinked>>
         \/ bytes' = bytes \ {a} /\ UNCHANGED <<attRow, littered, unlinked>>
         \/ /\ bytes' = bytes \ {a} /\ attRow' = [attRow EXCEPT ![a] = attCall[c].who]
            /\ unlinked' = unlinked \cup {a} /\ UNCHANGED littered
         \/ littered' = littered \cup {a} /\ UNCHANGED <<attRow, bytes, unlinked>>
  BY DEF put_inserts, put_cleans_up, put_ends_early, Cleaned
<1>4. /\ \A b \in AttIds \ {a} : attRow'[b] = attRow[b] /\ (b \in bytes' <=> b \in bytes)
      /\ \/ attRow'[a] = attCall[c].who
         \/ attRow'[a] = NoOwner /\ (a \notin bytes' \/ a \in littered')
      /\ littered \subseteq littered' /\ bytes' \subseteq bytes
  BY <1>1, <1>3 DEF AttInv, AttTypes
<1>4a. /\ unlinked \subseteq unlinked'
       /\ attRow'[a] # NoOwner => a \in bytes' \/ a \in unlinked'
  BY <1>1, <1>3 DEF AttInv, AttTypes
<1> HIDE DEF a
<1>5. AttTypes'
  BY <1>1, <1>2, <1>3 DEF AttInv, AttTypes
<1>6. \A b \in AttIds : (Carried(b)' <=> Carried(b)) /\ (Commits(b)' <=> Commits(b))
  BY <1>1, <1>2, <1>3 DEF Carried, Commits
<1>7. RequestHolds(c)'
  BY <1>2 DEF RequestHolds
<1>8. ASSUME NEW d \in AttCalls \ {c} PROVE RequestHolds(d)'
  <2>1. RequestHolds(d) /\ attCall'[d] = attCall[d]
    BY <1>2 DEF AttInv
  <2>2. CASE attCall[d].op \in {"none", "read"}
    BY <1>3, <2>1, <2>2 DEF RequestHolds
  <2>3. CASE attCall[d].op \in {"insert", "unlink", "commit", "send"}
    <3>1. attCall[d].att \in AttIds /\ attCall[d].att # a
      BY <1>1, <2>1, <2>3, AttAssumption DEF RequestHolds, AttInv, AttTypes
    <3> QED
      BY <1>2, <1>3, <1>4, <1>6, <2>1, <2>3, <3>1, SMTT(30) DEF RequestHolds
  <2> QED
    BY <2>2, <2>3 DEF AttInv, AttTypes, AttCallRow, AttOps
<1>9. NoOrphanBytes'
  <2>1. ASSUME NEW b \in bytes', b # a
        PROVE  attRow'[b] # NoOwner \/ b \in littered'
                  \/ \E d \in AttCalls : attCall'[d].att = b /\ attCall'[d].op = "insert"
    <3>1. b \in bytes /\ b \in AttIds /\ attRow'[b] = attRow[b]
      BY <1>4, <2>1 DEF AttInv, AttTypes
    <3> QED
      BY <1>2, <1>4, <2>1, <3>1, SMTT(30) DEF AttInv, NoOrphanBytes, Op, a
  <2>2. a \in bytes' => attRow'[a] # NoOwner \/ a \in littered'
    BY <1>1, <1>4, AttAssumption
  <2> QED
    BY <2>1, <2>2 DEF NoOrphanBytes, Op
<1>10. AgentsPassOnWhatTheySaw' /\ \A r \in references' : attRow'[r.att] # NoOwner
  <2>1. \A r \in references : r.att \in AttIds \ {a}
    BY <1>1 DEF AttInv, AttTypes, Carried
  <2> QED
    BY <1>3, <1>4, <2>1, SMTT(30) DEF AttInv, AgentsPassOnWhatTheySaw
<1>11. \A b \in AttIds : attRow'[b] # NoOwner =>
          b \in issued' /\ (b \in bytes' \/ b \in unlinked' \/ Commits(b)')
  <2>1. ASSUME NEW b \in AttIds, b # a, attRow'[b] # NoOwner
        PROVE  b \in issued' /\ (b \in bytes' \/ b \in unlinked' \/ Commits(b)')
    BY <1>3, <1>4, <1>6, <1>4a, <2>1 DEF AttInv
  <2> QED
    BY <1>1, <1>3, <1>4a, <2>1
<1> QED
  BY <1>3, <1>4, <1>5, <1>7, <1>8, <1>9, <1>10, <1>11 DEF AttInv

\* A step of one request that leaves the attachments as they are.
LEMMA QuietStep ==
    ASSUME AttInv, NEW c \in AttCalls, attCall[c].op # "insert", attCall[c].op # "commit",
           attCall' \in [AttCalls -> AttCallRow],
           \A d \in AttCalls \ {c} : attCall'[d] = attCall[d],
           attCall'[c].op \notin {"insert", "commit"},
           UNCHANGED <<bytes, attRow, references, issued, unlinked, littered>>,
           attLock' \in [AttIds -> AttCalls \cup {NoAttCall}],
           \A a \in AttIds : attLock[a] \notin {c, NoAttCall} => attLock'[a] = attLock[a],
           failedReads' \subseteq issued, failedReads' \cap bytes = {},
           RequestHolds(c)'
    PROVE  AttInv'
<1>1. AttTypes'
  BY DEF AttInv, AttTypes
<1>2. \A b \in AttIds : (Carried(b)' <=> Carried(b)) /\ (Commits(b)' <=> Commits(b))
  BY DEF Carried, Commits
<1>3. ASSUME NEW d \in AttCalls \ {c} PROVE RequestHolds(d)'
  <2>1. RequestHolds(d) /\ attCall'[d] = attCall[d] /\ d # NoAttCall
    BY AttAssumption DEF AttInv
  <2>2. attCall[d].op # "none" => attCall[d].att \in AttIds
    BY <2>1 DEF RequestHolds, AttInv, AttTypes
  <2>3. attCall[d].op \in {"unlink", "commit", "send"} => attLock'[attCall[d].att] = d
    BY <2>1, <2>2 DEF RequestHolds
  <2>4. attCall[d].op # "none" => (Carried(attCall[d].att)' <=> Carried(attCall[d].att))
    BY <1>2, <2>2
  <2> QED
    BY <2>1, <2>2, <2>3, <2>4 DEF RequestHolds
<1>4. NoOrphanBytes' /\ AgentsPassOnWhatTheySaw'
  BY SMTT(30) DEF AttInv, NoOrphanBytes, Op, AgentsPassOnWhatTheySaw
<1> QED
  BY <1>1, <1>2, <1>3, <1>4 DEF AttInv

\* A delete, a download or a message with an attachment begins.
LEMMA RequestBegins ==
    ASSUME AttInv, NEW c \in AttCalls, NEW a \in AttIds, NEW who \in People,
           \/ delete(c, a, who) \/ get(c, a, who)
           \/ \E k \in AttConversations : send_with_attachment(c, a, who, k)
    PROVE  AttInv'
<1> DEFINE Begun(op, k) ==
          /\ attCall' = [attCall EXCEPT ![c] = [op |-> op, att |-> a, who |-> who, conv |-> k]]
          /\ op = "unlink" => attRow[a] = who /\ ~Carried(a)
          /\ attRow[a] # NoOwner
          /\ op = "send" => /\ k \in AttConversations
                            /\ attRow[a] = who \/ who \in AttHumans \/ Carried(a)
          /\ \/ op = "read" /\ attLock' = attLock
             \/ attLock[a] = NoAttCall /\ attLock' = [attLock EXCEPT ![a] = c]
<1>1. PICK op \in {"unlink", "read", "send"}, k \in AttConversations \cup {0} : Begun(op, k)
  <2>1. CASE delete(c, a, who)
    <3>1. Begun("unlink", 0)
      BY <2>1, AttAssumption DEF delete, Deletable, Carried
    <3> QED
      BY <3>1
  <2>2. CASE get(c, a, who)
    <3>1. Begun("read", 0)
      BY <2>2 DEF get, get_allowed
    <3> QED
      BY <3>1
  <2>3. ASSUME NEW k \in AttConversations, send_with_attachment(c, a, who, k)
        PROVE  Begun("send", k)
    BY <2>3 DEF send_with_attachment, send_locks, can_reuse_attachment, SharedWith, Carried
  <2> QED
    BY <2>1, <2>2, <2>3
<1>2. /\ attCall[c].op = "none"
      /\ UNCHANGED <<bytes, attRow, references, issued, unlinked, littered, failedReads>>
  BY DEF delete, get, send_with_attachment, Free_, Op
<1>3. [op |-> op, att |-> a, who |-> who, conv |-> k] \in AttCallRow
  BY RequestRows DEF AttOps
<1>4. /\ attCall' \in [AttCalls -> AttCallRow]
      /\ attCall'[c].op = op /\ attCall'[c].att = a /\ attCall'[c].who = who
      /\ attCall'[c].conv = k
      /\ \A d \in AttCalls \ {c} : attCall'[d] = attCall[d]
  BY <1>1, <1>3, RequestMoves DEF AttInv
<1>5. /\ attLock' \in [AttIds -> AttCalls \cup {NoAttCall}]
      /\ op # "read" => attLock'[a] = c
      /\ \A b \in AttIds : attLock[b] \notin {c, NoAttCall} => attLock'[b] = attLock[b]
  BY <1>1, SMTT(30) DEF AttInv, AttTypes
<1>6. a \in issued /\ (Carried(a)' <=> Carried(a))
  BY <1>1, <1>2 DEF AttInv, Carried
<1>7. RequestHolds(c)'
  BY <1>1, <1>2, <1>4, <1>5, <1>6 DEF RequestHolds
<1>8. failedReads' \subseteq issued /\ failedReads' \cap bytes = {}
  BY <1>2 DEF AttInv
<1> QED
  BY <1>2, <1>4, <1>5, <1>7, <1>8, QuietStep

\* A request that ends without a write.
LEMMA QuietEnds ==
    ASSUME AttInv, NEW c \in AttCalls,
           send_fails(c) \/ get_reads(c) \/ (delete_ends_early(c) /\ Op(c, "unlink"))
    PROVE  AttInv'
<1>1. /\ attCall' \in [AttCalls -> AttCallRow] /\ attCall'[c].op = "none"
      /\ \A d \in AttCalls \ {c} : attCall'[d] = attCall[d]
  BY RequestEnds DEF AttInv, send_fails, get_reads, delete_ends_early
<1>2. /\ attCall[c].op \in {"unlink", "send", "read"}
      /\ UNCHANGED <<bytes, attRow, references, issued, unlinked, littered>>
      /\ Unlock(c) \/ attLock' = attLock
      /\ \/ failedReads' = failedReads
         \/ /\ attCall[c].att \in issued \ bytes
            /\ failedReads' = failedReads \cup {attCall[c].att}
  BY DEF send_fails, get_reads, delete_ends_early, Op, AttInv, RequestHolds
<1>3. /\ attLock' \in [AttIds -> AttCalls \cup {NoAttCall}]
      /\ \A a \in AttIds : attLock[a] # c => attLock'[a] = attLock[a]
  BY <1>2, UnlockEffect DEF AttInv, AttTypes
<1>4. failedReads' \subseteq issued /\ failedReads' \cap bytes = {}
  BY <1>2 DEF AttInv
<1>5. RequestHolds(c)'
  BY <1>1 DEF RequestHolds
<1> QED
  BY <1>1, <1>2, <1>3, <1>4, <1>5, QuietStep

(* The steps of a delete that remove the file, then the row, or leave the   *)
(* row without its file.                                                    *)
LEMMA DeleteStep ==
    ASSUME AttInv, NEW c \in AttCalls,
           \/ delete_unlinks(c) \/ delete_commits(c)
           \/ delete_ends_early(c) /\ Op(c, "commit")
    PROVE  AttInv'
<1>0. PICK a : a = attCall[c].att
  OBVIOUS
<1>1. /\ attCall[c].op \in {"unlink", "commit"} /\ a \in issued /\ a \in AttIds
      /\ attCall[c].who \in People /\ attRow[a] = attCall[c].who /\ ~Carried(a) /\ attLock[a] = c
      /\ attRow[a] # NoOwner /\ (attCall[c].op = "commit" => a \notin bytes)
      /\ attCall[c] \in AttCallRow
  BY <1>0, AttAssumption, SMTT(30) DEF delete_unlinks, delete_commits, delete_ends_early, Op, AttInv,
         RequestHolds, AttTypes
<1>2. /\ UNCHANGED <<references, issued, littered, failedReads>>
      /\ \/ /\ attCall' = [attCall EXCEPT ![c] = [attCall[c] EXCEPT !.op = "commit"]]
            /\ bytes' = bytes \ {a} /\ UNCHANGED <<attRow, attLock, unlinked>>
         \/ /\ attCall[c].op = "commit" /\ Finishes(c) /\ Unlock(c) /\ bytes' = bytes
            /\ \/ attRow' = [attRow EXCEPT ![a] = NoOwner] /\ unlinked' = unlinked \ {a}
               \/ attRow' = attRow /\ unlinked' = unlinked \cup {a}
  BY <1>0 DEF delete_unlinks, delete_commits, delete_ends_early, Op, Goes, AttInv, AttTypes
<1>3. LET r == [attCall[c] EXCEPT !.op = "commit"] IN
          r \in AttCallRow /\ r.op = "commit" /\ r.att = a /\ r.who = attCall[c].who
  BY <1>0, <1>1 DEF AttCallRow, AttOps
<1>4. /\ attCall' \in [AttCalls -> AttCallRow]
      /\ \A d \in AttCalls \ {c} : attCall'[d] = attCall[d]
      /\ \/ /\ attCall'[c].op = "commit" /\ attCall'[c].att = a /\ attCall'[c].who = attCall[c].who
            /\ bytes' = bytes \ {a} /\ UNCHANGED <<attRow, attLock, unlinked>>
         \/ attCall'[c].op = "none" /\ Unlock(c) /\ bytes' = bytes \ {a}
            /\ \/ attRow' = [attRow EXCEPT ![a] = NoOwner] /\ unlinked' = unlinked \ {a}
               \/ attRow' = attRow /\ unlinked' = unlinked \cup {a}
  <2>1. ASSUME attCall' = [attCall EXCEPT ![c] = [attCall[c] EXCEPT !.op = "commit"]]
        PROVE  /\ attCall' \in [AttCalls -> AttCallRow]
               /\ \A d \in AttCalls \ {c} : attCall'[d] = attCall[d]
               /\ attCall'[c].op = "commit" /\ attCall'[c].att = a
               /\ attCall'[c].who = attCall[c].who
    BY <1>3, <2>1, RequestMoves DEF AttInv
  <2>2. ASSUME Finishes(c)
        PROVE  /\ attCall' \in [AttCalls -> AttCallRow] /\ attCall'[c].op = "none"
               /\ \A d \in AttCalls \ {c} : attCall'[d] = attCall[d]
    BY <2>2, RequestEnds DEF AttInv
  <2>3. attCall[c].op = "commit" => bytes = bytes \ {a}
    BY <1>1
  <2> QED
    BY <1>2, <2>1, <2>2, <2>3
<1>5. /\ attLock' \in [AttIds -> AttCalls \cup {NoAttCall}]
      /\ \A b \in AttIds : attLock[b] # c => attLock'[b] = attLock[b]
  BY <1>4, UnlockEffect DEF AttInv, AttTypes
<1>6. AttTypes'
  BY <1>2, <1>4, <1>5 DEF AttInv, AttTypes
<1>7. /\ \A b \in AttIds \ {a} : /\ attRow'[b] = attRow[b] /\ (b \in bytes' <=> b \in bytes)
                                 /\ b \in unlinked' <=> b \in unlinked
      /\ bytes' = bytes \ {a}
      /\ \A b \in AttIds : Carried(b)' <=> Carried(b)
  BY <1>1, <1>2, <1>4 DEF Carried, AttInv, AttTypes
<1>8. RequestHolds(c)'
  BY <1>1, <1>2, <1>4, <1>7, SMTT(30) DEF RequestHolds, AttInv
<1>9. ASSUME NEW d \in AttCalls \ {c} PROVE RequestHolds(d)'
  <2>1. RequestHolds(d) /\ attCall'[d] = attCall[d]
    BY <1>4 DEF AttInv
  <2>2. CASE attCall[d].op \in {"none", "read"}
    BY <1>2, <2>1, <2>2 DEF RequestHolds
  <2>3. CASE attCall[d].op \in {"insert", "unlink", "commit", "send"}
    <3>1. attCall[d].att \in AttIds /\ attCall[d].att # a
      BY <1>1, <2>1, <2>3 DEF RequestHolds, AttInv, AttTypes
    <3> QED
      BY <1>2, <1>4, <1>5, <1>7, <2>1, <2>3, <3>1, SMTT(30) DEF RequestHolds
  <2> QED
    BY <2>2, <2>3 DEF AttInv, AttTypes, AttCallRow, AttOps
<1>10. NoOrphanBytes'
  <2>1. ASSUME NEW b \in bytes'
        PROVE  attRow'[b] # NoOwner \/ b \in littered'
                  \/ \E d \in AttCalls : attCall'[d].att = b /\ attCall'[d].op = "insert"
    <3>1. b \in bytes /\ b \in AttIds \ {a} /\ attRow'[b] = attRow[b]
      BY <1>7, <2>1 DEF AttInv, AttTypes
    <3> QED
      BY <1>1, <1>2, <1>4, <3>1, SMTT(30) DEF AttInv, NoOrphanBytes, Op
  <2> QED
    BY <2>1 DEF NoOrphanBytes, Op
<1>11. AgentsPassOnWhatTheySaw' /\ \A r \in references' : attRow'[r.att] # NoOwner
  <2>1. \A r \in references : r.att \in AttIds \ {a}
    BY <1>1 DEF AttInv, AttTypes, Carried
  <2> QED
    BY <1>2, <1>7, <2>1, SMTT(30) DEF AttInv, AgentsPassOnWhatTheySaw
<1>12. \A b \in AttIds : attRow'[b] # NoOwner =>
          b \in issued' /\ (b \in bytes' \/ b \in unlinked' \/ Commits(b)')
  <2>1. ASSUME NEW b \in AttIds, b # a, attRow'[b] # NoOwner
        PROVE  b \in issued' /\ (b \in bytes' \/ b \in unlinked' \/ Commits(b)')
    <3>1. Commits(b) => Commits(b)'
      BY <1>0, <1>1, <1>4, <2>1 DEF Commits
    <3> QED
      BY <1>2, <1>7, <2>1, <3>1 DEF AttInv
  <2>2. attRow'[a] # NoOwner => a \in unlinked' \/ Commits(a)'
    <3>1. CASE attCall'[c].op = "commit" /\ attCall'[c].att = a
      BY <3>1 DEF Commits
    <3>2. CASE attRow' = [attRow EXCEPT ![a] = NoOwner] \/ unlinked' = unlinked \cup {a}
      BY <1>1, <3>2 DEF AttInv, AttTypes
    <3> QED
      BY <1>4, <3>1, <3>2
  <2> QED
    BY <1>1, <1>2, <2>1, <2>2, Zenon
<1>13. failedReads' \subseteq issued' /\ failedReads' \cap bytes' = {}
  BY <1>2, <1>7 DEF AttInv
<1> QED
  BY <1>6, <1>8, <1>9, <1>10, <1>11, <1>12, <1>13 DEF AttInv

\* The message transaction refers to the attachment it has locked.
LEMMA SendStep ==
    ASSUME AttInv, NEW c \in AttCalls, send_commits(c)
    PROVE  AttInv'
<1>0. PICK a, who, k : a = attCall[c].att /\ who = attCall[c].who /\ k = attCall[c].conv
  OBVIOUS
<1>1. /\ attCall[c].op = "send" /\ a \in AttIds /\ who \in People /\ k \in AttConversations
      /\ attRow[a] # NoOwner /\ attLock[a] = c
      /\ attRow[a] = who \/ who \in AttHumans \/ Carried(a)
  BY <1>0 DEF send_commits, Op, AttInv, RequestHolds, AttTypes
<1>2. /\ attCall' \in [AttCalls -> AttCallRow] /\ attCall'[c].op = "none"
      /\ \A d \in AttCalls \ {c} : attCall'[d] = attCall[d]
  BY RequestEnds DEF AttInv, send_commits
<1>3. /\ attLock' \in [AttIds -> AttCalls \cup {NoAttCall}]
      /\ \A b \in AttIds : attLock[b] # c => attLock'[b] = attLock[b]
  BY UnlockEffect DEF AttInv, send_commits
<1> DEFINE m == [att |-> a, conv |-> k, by |-> who]
<1>4. /\ references' = references \cup {m}
      /\ UNCHANGED <<bytes, attRow, issued, unlinked, littered, failedReads>>
  BY <1>0 DEF send_commits
<1>5. AttTypes'
  BY <1>1, <1>2, <1>3, <1>4, SMTT(30) DEF AttInv, AttTypes
<1>6. \A b \in AttIds : Commits(b)' <=> Commits(b)
  BY <1>1, <1>2 DEF Commits
<1>7. RequestHolds(c)'
  BY <1>2 DEF RequestHolds
<1>8. ASSUME NEW d \in AttCalls \ {c} PROVE RequestHolds(d)'
  <2>1. RequestHolds(d) /\ attCall'[d] = attCall[d]
    BY <1>2 DEF AttInv
  <2>2. CASE attCall[d].op \in {"none", "read"}
    BY <1>4, <2>1, <2>2 DEF RequestHolds
  <2>3. CASE attCall[d].op \in {"insert", "unlink", "commit", "send"}
    <3>1. attCall[d].att \in AttIds /\ attCall[d].att # a
      BY <1>1, <2>1, <2>3 DEF RequestHolds, AttInv, AttTypes
    <3>2. Carried(attCall[d].att)' <=> Carried(attCall[d].att)
      BY <1>4, <2>1, <3>1, SMTT(30) DEF Carried
    <3> QED
      BY <1>2, <1>3, <1>4, <2>1, <2>3, <3>1, <3>2 DEF RequestHolds
  <2> QED
    BY <2>2, <2>3 DEF AttInv, AttTypes, AttCallRow, AttOps
<1>9. NoOrphanBytes'
  BY <1>1, <1>2, <1>4, SMTT(30) DEF AttInv, NoOrphanBytes, Op
<1>10. AgentsPassOnWhatTheySaw'
  <2>1. \E q \in references' : q.att = a /\ (q.by = attRow[a] \/ q.by \in AttHumans)
    <3>1. CASE attRow[a] = who \/ who \in AttHumans
      <4>1. m \in references' /\ m.att = a /\ m.by = who
        BY <1>4
      <4> QED
        BY <3>1, <4>1
    <3>2. CASE Carried(a)
      BY <1>4, <3>2 DEF Carried, AttInv, AgentsPassOnWhatTheySaw
    <3> QED
      BY <1>1, <3>1, <3>2
  <2> QED
    BY <1>4, <2>1, SMTT(30) DEF AttInv, AgentsPassOnWhatTheySaw
<1>11. \A r \in references' : attRow'[r.att] # NoOwner
  BY <1>1, <1>4, SMTT(30) DEF AttInv
<1> QED
  BY <1>4, <1>5, <1>6, <1>7, <1>8, <1>9, <1>10, <1>11 DEF AttInv

\* Every step of the attachment store keeps AttInv.
LEMMA AttNext == AttInv /\ [AttachmentsNext]_attVars => AttInv'
<1> SUFFICES ASSUME AttInv, [AttachmentsNext]_attVars PROVE AttInv'
  OBVIOUS
<1>1. ASSUME UNCHANGED <<bytes, attRow, references, attCall, attLock, issued, unlinked,
                         littered, failedReads>>
      PROVE  AttInv'
  <2>1. AttTypes'
    BY <1>1 DEF AttInv, AttTypes
  <2>2. ASSUME NEW c \in AttCalls PROVE RequestHolds(c)'
    BY <1>1 DEF AttInv, RequestHolds, Carried
  <2>3. NoOrphanBytes' /\ AgentsPassOnWhatTheySaw'
    BY <1>1, SMTT(30) DEF AttInv, NoOrphanBytes, Op, AgentsPassOnWhatTheySaw
  <2>4. \A a \in AttIds : Commits(a)' <=> Commits(a)
    BY <1>1 DEF Commits
  <2> QED
    BY <1>1, <2>1, <2>2, <2>3, <2>4 DEF AttInv
<1>2. CASE UNCHANGED attVars
  BY <1>1, <1>2 DEF attVars
<1>3. ASSUME NEW k \in AttConversations, NEW who \in AttAgents, MembershipChanges(k, who)
      PROVE  AttInv'
  BY <1>1, <1>3 DEF MembershipChanges
<1>4. ASSUME NEW c \in AttCalls, CallBegins(c) PROVE AttInv'
  BY <1>4, PutStep, RequestBegins DEF CallBegins
<1>5. ASSUME NEW c \in AttCalls, CallGoesOn(c) PROVE AttInv'
  <2>1. delete_ends_early(c) => Op(c, "unlink") \/ Op(c, "commit")
    BY DEF delete_ends_early
  <2> QED
    BY <1>5, <2>1, PutEnds, QuietEnds, DeleteStep, SendStep DEF CallGoesOn
<1> QED
  BY <1>2, <1>3, <1>4, <1>5 DEF AttachmentsNext

(* ReferencedBytesExist, NoOrphanBytes, AgentsPassOnWhatTheySaw and         *)
(* ReadableIsRead: file and row stay together through uploads, deletes,     *)
(* messages and downloads of any number of requests, and an agent passes on *)
(* only what reached it.                                                    *)
THEOREM AttachmentsStayWhole ==
    AttachmentsSpec => [](/\ ReferencedBytesExist /\ NoOrphanBytes
                          /\ AgentsPassOnWhatTheySaw /\ ReadableIsRead)
<1>1. AttachmentsInit => AttInv
  <2> SUFFICES ASSUME AttachmentsInit PROVE AttInv
    OBVIOUS
  <2>1. Waiting \in AttCallRow /\ Waiting.op = "none"
    BY DEF AttCallRow, AttOps, Waiting
  <2>2. AttTypes
    BY <2>1 DEF AttachmentsInit, AttTypes, NoOwner, NoAttCall
  <2>3. \A c \in AttCalls : RequestHolds(c)
    BY <2>1 DEF AttachmentsInit, RequestHolds
  <2> QED
    BY <2>2, <2>3 DEF AttachmentsInit, AttInv, NoOrphanBytes, AgentsPassOnWhatTheySaw
<1>2. ASSUME AttInv, NEW r \in references
      PROVE  /\ attRow[r.att] # NoOwner /\ (r.att \in bytes \/ r.att \in unlinked)
             /\ r.att \in failedReads => r.att \in unlinked
  <2>1. r.att \in AttIds /\ attRow[r.att] # NoOwner
    BY <1>2 DEF AttInv, AttTypes
  <2>2. ~Commits(r.att)
    BY <1>2, <2>1 DEF AttInv, Commits, RequestHolds, Carried
  <2> QED
    BY <1>2, <2>1, <2>2 DEF AttInv
<1>3. AttInv => /\ ReferencedBytesExist /\ NoOrphanBytes
                /\ AgentsPassOnWhatTheySaw /\ ReadableIsRead
  BY <1>2 DEF AttInv, ReferencedBytesExist, ReadableIsRead
<1> QED
  BY <1>1, <1>3, AttNext, PTL DEF AttachmentsSpec

-----------------------------------------------------------------------------
(* The messages of a group.                                                *)

MessagesSpec == MessagesInit /\ [][MessagesNext]_msgVars

EventRow == [sender : MsgPrincipals, key : MsgKeys \cup {0}, thread : BOOLEAN,
             broadcast : BOOLEAN, reply : Nat, via : {"api", "outbox"}, member : BOOLEAN]
RequestRow == [key : MsgKeys, thread : BOOLEAN, broadcast : BOOLEAN,
               reply : Nat \cup {MaxEvents}]
SendAt == {"join", "dedup", "append", "post"}
SendRow == [at : SendAt, p : MsgPrincipals, r : RequestRow]

\* The timeline messages of a log after one of them.
After(log, m) == {i \in DOMAIN log : i > m /\ ~MessagesQuiet(log[i])}

\* A counter that was n when the log ended at m counts what came since.
Badge(log, count, n, m) ==
    /\ n \in Nat /\ m \in Nat /\ m <= Len(log)
    /\ count - n = Cardinality(After(log, m))

\* What a call under way carries; a view keeps a badge it will write later,
\* which must still be exact then.
MsgCallOK(c) ==
    /\ call[c].at \in SendAt =>
           call[c] \in SendRow /\ (~call[c].r.thread => call[c].r.reply \in Nat)
    /\ call[c].at = "view" =>
           call[c].p \in MsgPrincipals /\ Badge(events, total, call[c].total, call[c].upto)

LogTypes ==
    /\ events \in Seq(EventRow) /\ activeMembers \subseteq MsgPrincipals
    /\ total \in Nat /\ seen \in [MsgPrincipals -> Nat] /\ mark \in [MsgPrincipals -> Nat]

(* The badge is exact for everyone who was ever a member: a removed agent   *)
(* keeps its counters and may come back.                                    *)
LogInv ==
    /\ LogTypes /\ OneMessagePerKey /\ ThreadsAreFlat /\ GroupSendsAreByMembers
    /\ \A p \in MsgPrincipals : Badge(events, total, seen[p], mark[p])

MsgInv == LogInv /\ DOMAIN call = Calls /\ \A c \in Calls : MsgCallOK(c)

\* A step after which every counter that was exact still is.
BadgesKept == \A n, m : Badge(events, total, n, m) => Badge(events', total', n, m)

\* A step that touches neither the events nor the counters keeps LogInv.
LEMMA QuietLog ==
    ASSUME LogInv, UNCHANGED <<events, total, seen, mark>>, activeMembers' \subseteq MsgPrincipals
    PROVE  LogInv' /\ BadgesKept
  BY DEF LogInv, LogTypes, OneMessagePerKey, ThreadsAreFlat, GroupSendsAreByMembers, BadgesKept

\* What is unread is finite, and the next event is not in it.
LEMMA UnreadIsFinite ==
    ASSUME LogInv, NEW m
    PROVE  IsFiniteSet(After(events, m)) /\ Len(events) + 1 \notin After(events, m)
<1>1. DOMAIN events = 1 .. Len(events) /\ Len(events) \in Nat
  BY SMTT(30) DEF LogInv, LogTypes
<1>2. IsFiniteSet(1 .. Len(events)) /\ After(events, m) \subseteq 1 .. Len(events)
  BY <1>1, FS_Interval, SMTT(30) DEF After
<1> QED
  BY <1>1, <1>2, FS_Subset, SMTT(30)

\* Who has seen all there is has nothing unread.
LEMMA NothingUnread ==
    ASSUME NEW log \in Seq(EventRow), NEW count \in Nat
    PROVE  Badge(log, count, count, Len(log))
<1>1. DOMAIN log = 1 .. Len(log) /\ Len(log) \in Nat
  BY SMTT(30)
<1>2. After(log, Len(log)) = {}
  BY <1>1, SMTT(30) DEF After
<1> QED
  BY <1>1, <1>2, FS_EmptySet, SMTT(30) DEF Badge

\* What an appended event must be for the log to stay in order.
Fits(e) ==
    /\ e \in EventRow
    /\ e.key # 0 => \A i \in DOMAIN events : events[i].key # e.key
    /\ IsReply(e) => e.reply \in DOMAIN events /\ ~IsReply(events[e.reply])
    /\ e.via = "outbox" => e.member

\* One appended event that fits keeps the log typed, keyed once and flat.
LEMMA AppendedLog ==
    ASSUME LogInv, NEW e, Fits(e), events' = Append(events, e),
           activeMembers' = activeMembers
    PROVE  /\ events' \in Seq(EventRow)
           /\ DOMAIN events' = DOMAIN events \cup {Len(events) + 1}
           /\ DOMAIN events = 1 .. Len(events) /\ Len(events) \in Nat
           /\ \A i \in DOMAIN events : events'[i] = events[i]
           /\ events'[Len(events) + 1] = e
           /\ OneMessagePerKey' /\ ThreadsAreFlat' /\ GroupSendsAreByMembers'
<1>1. /\ events' \in Seq(EventRow) /\ events \in Seq(EventRow)
      /\ Len(events) \in Nat /\ Len(events') = Len(events) + 1
  BY SMTT(30) DEF LogInv, LogTypes, Fits
<1>2. DOMAIN events = 1 .. Len(events) /\ DOMAIN events' = 1 .. Len(events) + 1
  BY <1>1, SMTT(30)
<1>3. DOMAIN events' = DOMAIN events \cup {Len(events) + 1}
  BY <1>1, <1>2, SMTT(30)
<1>4. \A i \in DOMAIN events : events'[i] = events[i] /\ events[i] \in EventRow
  BY <1>1, SMTT(30)
<1>5. events'[Len(events) + 1] = e
  BY <1>1, SMTT(30)
<1>6. OneMessagePerKey'
  BY <1>3, <1>4, <1>5, SMTT(30) DEF LogInv, OneMessagePerKey, Fits
<1>7. ThreadsAreFlat'
  <2>1. ASSUME NEW i \in DOMAIN events, IsReply(events[i])
        PROVE  events[i].reply \in DOMAIN events /\ events[i].reply < i
    <3>1. events[i].reply \in Nat /\ events[i].reply # 0 /\ events[i].reply < i
      BY <1>4, <2>1 DEF LogInv, ThreadsAreFlat, IsReply, EventRow
    <3> QED
      BY <1>1, <1>2, <3>1, SMTT(30)
  <2>2. ASSUME NEW i \in DOMAIN events, IsReply(events'[i])
        PROVE  events'[i].reply < i /\ ~IsReply(events'[events'[i].reply])
    BY <1>4, <2>1, <2>2 DEF LogInv, ThreadsAreFlat
  <2>3. IsReply(e) => e.reply < Len(events) + 1 /\ ~IsReply(events'[e.reply])
    BY <1>1, <1>2, <1>4, SMTT(30) DEF Fits
  <2> QED
    BY <1>3, <1>5, <2>2, <2>3 DEF ThreadsAreFlat
<1>8. GroupSendsAreByMembers'
  BY <1>3, <1>4, <1>5 DEF LogInv, GroupSendsAreByMembers, Fits
<1> QED
  BY <1>1, <1>2, <1>3, <1>4, <1>5, <1>6, <1>7, <1>8

\* insert_conversation_event appends and counts in one transaction.
LEMMA InsertKeepsLog ==
    ASSUME LogInv, NEW p \in MsgPrincipals, NEW r, NEW root, NEW via,
           insert_conversation_event(p, r, root, via), activeMembers' = activeMembers,
           Fits([sender |-> p, key |-> r.key, thread |-> r.thread, broadcast |-> r.broadcast,
                 reply |-> root, via |-> via, member |-> p \in activeMembers])
    PROVE  LogInv' /\ BadgesKept
<1>1. PICK e : e = [sender |-> p, key |-> r.key, thread |-> r.thread,
                    broadcast |-> r.broadcast, reply |-> root, via |-> via,
                    member |-> p \in activeMembers]
  OBVIOUS
<1> DEFINE n == Len(events) + 1
<1>2. /\ Fits(e) /\ e.sender = p /\ events' = Append(events, e)
      /\ publish_conversation_message(e)
      /\ mark' = IF MessagesQuiet(e) \/ p \notin activeMembers THEN mark ELSE [mark EXCEPT ![p] = n]
  BY <1>1 DEF insert_conversation_event
<1>3. /\ events' \in Seq(EventRow) /\ DOMAIN events' = DOMAIN events \cup {n}
      /\ DOMAIN events = 1 .. Len(events) /\ Len(events) \in Nat
      /\ \A i \in DOMAIN events : events'[i] = events[i]
      /\ events'[n] = e
      /\ OneMessagePerKey' /\ ThreadsAreFlat' /\ GroupSendsAreByMembers'
  BY <1>2, AppendedLog
<1>4. /\ total' \in Nat /\ seen' \in [MsgPrincipals -> Nat] /\ mark' \in [MsgPrincipals -> Nat]
  BY <1>2, <1>3, SMTT(30) DEF LogInv, LogTypes, publish_conversation_message
<1>5. Len(events') = n /\ LogTypes'
  <2>1. Len(events') = n
    BY <1>2, SMTT(30) DEF LogInv, LogTypes, Fits
  <2> HIDE DEF n
  <2> QED
    BY <1>3, <1>4, <2>1 DEF LogInv, LogTypes
<1>6. ASSUME NEW k, NEW m, Badge(events, total, k, m) PROVE Badge(events', total', k, m)
  <2>0. /\ k \in Nat /\ m \in Nat /\ m <= Len(events) /\ total \in Nat
        /\ total - k = Cardinality(After(events, m)) /\ n \in Nat /\ n > m /\ m <= n
    <3>1. /\ k \in Nat /\ m \in Nat /\ m <= Len(events) /\ total \in Nat
          /\ total - k = Cardinality(After(events, m))
      BY <1>6 DEF Badge, LogInv, LogTypes
    <3> QED
      BY <1>3, <3>1, SMTT(30)
  <2>1. CASE MessagesQuiet(e)
    <3>1. After(events', m) = After(events, m) /\ total' = total
      BY <1>2, <1>3, <2>1 DEF After, publish_conversation_message
    <3> HIDE DEF n
    <3> QED
      BY <1>5, <2>0, <3>1 DEF Badge
  <2>2. CASE ~MessagesQuiet(e)
    <3>1. total' = total + 1
      BY <1>2, <2>2 DEF publish_conversation_message
    <3>2. After(events', m) = After(events, m) \cup {n}
      <4>1. ASSUME NEW i \in DOMAIN events PROVE i \in After(events', m) <=> i \in After(events, m)
        BY <1>3 DEF After
      <4>2. n \in After(events', m)
        BY <1>3, <2>0, <2>2 DEF After
      <4>3. /\ After(events, m) \subseteq DOMAIN events
            /\ After(events', m) \subseteq DOMAIN events \cup {n}
        BY <1>3 DEF After
      <4> HIDE DEF n
      <4> QED
        BY <4>1, <4>2, <4>3
    <3>3. /\ Cardinality(After(events', m)) = Cardinality(After(events, m)) + 1
          /\ Cardinality(After(events, m)) \in Nat
      BY <3>2, UnreadIsFinite, FS_AddElement, FS_CardinalityType
    <3>4. total' - k = Cardinality(After(events', m))
      BY <2>0, <3>1, <3>3, SMTT(30)
    <3> HIDE DEF n
    <3> QED
      BY <1>5, <2>0, <3>4 DEF Badge
  <2> QED
    BY <2>1, <2>2
<1>7. ASSUME NEW q \in MsgPrincipals PROVE Badge(events', total', seen'[q], mark'[q])
  <2>1. CASE ~MessagesQuiet(e) /\ q = p /\ p \in activeMembers
    <3>1. total' = total + 1 /\ seen'[q] = total + 1 /\ mark'[q] = n
      BY <1>2, <2>1 DEF LogInv, LogTypes, publish_conversation_message
    <3> QED
      BY <1>3, <1>4, <1>5, <3>1, NothingUnread
  <2>2. CASE MessagesQuiet(e) \/ ~(q = p /\ p \in activeMembers)
    <3>1. seen'[q] = seen[q] /\ mark'[q] = mark[q]
      BY <1>2, <2>2 DEF LogInv, LogTypes, publish_conversation_message
    <3> QED
      BY <1>6, <3>1 DEF LogInv
  <2> QED
    BY <2>1, <2>2
<1> QED
  BY <1>3, <1>5, <1>6, <1>7 DEF LogInv, BadgesKept

\* A view writes what it read, which the messages sent since keep exact.
LEMMA ViewedLog ==
    ASSUME MsgInv, NEW c \in Calls, UpdateViewed(c)
    PROVE  LogInv' /\ BadgesKept
<1>1. PICK p \in MsgPrincipals, k \in Nat, m \in Nat :
          p = call[c].p /\ k = call[c].total /\ m = call[c].upto /\ Badge(events, total, k, m)
  BY DEF UpdateViewed, MsgInv, MsgCallOK, Badge
<1>2. /\ UNCHANGED <<activeMembers, events, total>>
      /\ seen' = [seen EXCEPT ![p] = k] /\ mark' = [mark EXCEPT ![p] = m]
  BY <1>1 DEF UpdateViewed
<1>4. LogTypes'
  BY <1>2 DEF MsgInv, LogInv, LogTypes
<1>5. OneMessagePerKey' /\ ThreadsAreFlat' /\ GroupSendsAreByMembers' /\ BadgesKept
  BY <1>2 DEF MsgInv, LogInv, OneMessagePerKey, ThreadsAreFlat, GroupSendsAreByMembers, BadgesKept
<1>6. ASSUME NEW q \in MsgPrincipals PROVE Badge(events, total, seen'[q], mark'[q])
  <2>1. CASE q = p
    BY <1>1, <1>2, <2>1 DEF MsgInv, LogInv, LogTypes
  <2>2. CASE q # p
    BY <1>2, <2>2 DEF MsgInv, LogInv, LogTypes
  <2> QED
    BY <2>1, <2>2
<1> QED
  BY <1>2, <1>4, <1>5, <1>6 DEF LogInv

\* A threaded reply names a message that is not one, or none.
LEMMA RootIsFlat ==
    ASSUME LogInv, NEW id,
           NEW root, root = canonicalize_thread_root_in_tx(id)
    PROVE  /\ root \in Nat
           /\ root # 0 => root \in DOMAIN events /\ ~IsReply(events[root])
<1>1. /\ DOMAIN events = 1 .. Len(events) /\ Len(events) \in Nat
      /\ \A i \in DOMAIN events : events[i] \in EventRow
  BY SMTT(30) DEF LogInv, LogTypes
<1>2. CASE id \notin DOMAIN events
  BY <1>2 DEF canonicalize_thread_root_in_tx
<1>3. CASE id \in DOMAIN events /\ ~IsReply(events[id])
  BY <1>1, <1>3, SMTT(30) DEF canonicalize_thread_root_in_tx
<1>4. CASE id \in DOMAIN events /\ IsReply(events[id])
  <2>1. /\ root = events[id].reply /\ root \in Nat /\ root # 0 /\ root < id
        /\ ~IsReply(events[root])
    BY <1>1, <1>4 DEF canonicalize_thread_root_in_tx, LogInv, ThreadsAreFlat, IsReply, EventRow
  <2> QED
    BY <1>1, <1>4, <2>1, SMTT(30)
<1> QED
  BY <1>2, <1>3, <1>4

\* What a send appends after its checks fits the log.
LEMMA AppendFits ==
    ASSUME LogInv, NEW p \in MsgPrincipals, NEW r \in [key : MsgKeys \cup {0},
               thread : BOOLEAN, broadcast : BOOLEAN, reply : Nat \cup {MaxEvents}],
           NEW via \in {"api", "outbox"}, NEW root,
           \/ r.thread /\ root # 0 /\ root = canonicalize_thread_root_in_tx(r.reply)
           \/ ~r.thread /\ root = r.reply /\ r.reply \in Nat,
           r.key # 0 => \A i \in DOMAIN events : events[i].key # r.key,
           via = "outbox" => p \in activeMembers
    PROVE  Fits([sender |-> p, key |-> r.key, thread |-> r.thread, broadcast |-> r.broadcast,
                 reply |-> root, via |-> via, member |-> p \in activeMembers])
<1>1. /\ root \in Nat
      /\ r.thread /\ root # 0 => root \in DOMAIN events /\ ~IsReply(events[root])
  BY RootIsFlat
<1>2. PICK m \in BOOLEAN : m = (p \in activeMembers)
  <2>1. (p \in activeMembers) \in BOOLEAN
    BY SMT
  <2> QED
    BY <2>1, Zenon
<1>3. PICK e : e = [sender |-> p, key |-> r.key, thread |-> r.thread,
                    broadcast |-> r.broadcast, reply |-> root, via |-> via, member |-> m]
  OBVIOUS
<1>4. /\ e \in EventRow /\ e.key = r.key /\ e.thread = r.thread /\ e.reply = root
      /\ e.via = via /\ e.member = m
  BY <1>1, <1>2, <1>3 DEF EventRow
<1>5. Fits(e)
  BY <1>1, <1>2, <1>4 DEF Fits, IsReply
<1> QED
  BY <1>2, <1>3, <1>5

\* A call that moves on leaves the other calls as they are.
LEMMA CallMovesOn ==
    ASSUME DOMAIN call = Calls, \A c \in Calls : MsgCallOK(c), BadgesKept, NEW c \in Calls, NEW x,
           call' = [call EXCEPT ![c] = x],
           x.at \in SendAt => x \in SendRow /\ (~x.r.thread => x.r.reply \in Nat),
           x.at = "view" => x.p \in MsgPrincipals /\ Badge(events', total', x.total, x.upto)
    PROVE  DOMAIN call' = Calls /\ \A d \in Calls : MsgCallOK(d)'
<1>1. DOMAIN call' = Calls /\ call'[c] = x /\ \A d \in Calls \ {c} : call'[d] = call[d]
  OBVIOUS
<1>2. MsgCallOK(c)'
  BY <1>1 DEF MsgCallOK
<1>3. ASSUME NEW d \in Calls \ {c} PROVE MsgCallOK(d)'
  BY <1>1 DEF MsgCallOK, BadgesKept
<1> QED
  BY <1>1, <1>2, <1>3

\* A call that ends is neither a send nor a view.
LEMMA CallIsDone ==
    ASSUME DOMAIN call = Calls, \A c \in Calls : MsgCallOK(c), BadgesKept, NEW c \in Calls, Done(c)
    PROVE  DOMAIN call' = Calls /\ \A d \in Calls : MsgCallOK(d)'
<1>1. NoCall.at \notin SendAt /\ NoCall.at # "view"
  BY DEF NoCall, SendAt
<1> QED
  BY <1>1, CallMovesOn DEF Done

\* A send that goes on keeps its request.
LEMMA SendGoesOn ==
    ASSUME DOMAIN call = Calls, \A c \in Calls : MsgCallOK(c), BadgesKept, NEW c \in Calls,
           call[c].at \in SendAt, NEW at \in SendAt, call' = [call EXCEPT ![c].at = at]
    PROVE  DOMAIN call' = Calls /\ \A d \in Calls : MsgCallOK(d)'
<1>1. call[c] \in SendRow /\ (~call[c].r.thread => call[c].r.reply \in Nat)
  BY DEF MsgCallOK
<1>2. LET x == [call[c] EXCEPT !.at = at] IN x \in SendRow /\ x.r = call[c].r /\ x.at # "view"
  BY <1>1 DEF SendRow, SendAt
<1>3. call' = [call EXCEPT ![c] = [call[c] EXCEPT !.at = at]]
  OBVIOUS
<1> QED
  BY <1>1, <1>2, <1>3, CallMovesOn

\* Record sets grow with the sets of their fields.
LEMMA WiderRow ==
    ASSUME NEW K, NEW T, NEW B, NEW R, NEW U, NEW C, NEW S, T \subseteq U, B \subseteq C,
           R \subseteq S
    PROVE  [key : K, thread : T, broadcast : B, reply : R]
             \subseteq [key : K, thread : U, broadcast : C, reply : S]
  BY Zenon

\* The requests of clients are typed.
LEMMA RequestsAreRows ==
    ASSUME LogInv, NEW r \in Requests
    PROVE  r \in RequestRow /\ (~r.thread => r.reply \in Nat)
<1> DEFINE N == Nat \cup {MaxEvents}
           D == DOMAIN events \cup {MaxEvents}
<1>1. /\ D \subseteq N /\ {0, 1} \subseteq N /\ {0, 1} \subseteq Nat
      /\ {FALSE} \subseteq BOOLEAN /\ {TRUE} \subseteq BOOLEAN /\ BOOLEAN \subseteq BOOLEAN
  BY SMTT(30) DEF LogInv, LogTypes
<1>2. CASE r \in [key : MsgKeys, thread : {FALSE}, broadcast : {FALSE}, reply : {0, 1}]
  <2>1. r \in RequestRow
    BY <1>1, <1>2, WiderRow, Zenon DEF RequestRow
  <2>2. r.reply \in {0, 1}
    BY <1>2, Zenon
  <2> QED
    BY <1>1, <2>1, <2>2
<1>3. CASE r \in [key : MsgKeys, thread : {TRUE}, broadcast : BOOLEAN, reply : D]
  <2>1. r \in RequestRow
    BY <1>1, <1>3, WiderRow, Zenon DEF RequestRow
  <2>2. r.thread = TRUE
    BY <1>3
  <2> QED
    BY <2>1, <2>2
<1> QED
  BY <1>2, <1>3 DEF Requests

\* A send that begins writes nothing.
LEMMA SendStarts ==
    ASSUME MsgInv, NEW c \in Calls, NEW p \in MsgPrincipals, NEW r \in Requests,
           send_message(c, p, r) \/ send_to_group(c, p, r)
    PROVE  MsgInv'
<1>1. PICK at \in SendAt : call' = [call EXCEPT ![c] = [at |-> at, p |-> p, r |-> r]]
  BY DEF send_message, send_to_group, SendAt
<1>2. UNCHANGED <<activeMembers, events, total, seen, mark>>
  BY DEF send_message, send_to_group
<1>3. r \in RequestRow /\ (~r.thread => r.reply \in Nat)
  BY RequestsAreRows DEF MsgInv
<1>4. LET x == [at |-> at, p |-> p, r |-> r]
      IN  x \in SendRow /\ x.r = r /\ x.at # "view"
  BY <1>3 DEF SendRow, SendAt
<1>6. LogInv' /\ BadgesKept
  BY <1>2, QuietLog DEF MsgInv, LogInv, LogTypes
<1>5. DOMAIN call' = Calls /\ \A d \in Calls : MsgCallOK(d)'
  BY <1>1, <1>3, <1>4, <1>6, CallMovesOn DEF MsgInv
<1> QED
  BY <1>5, <1>6 DEF MsgInv

\* The transaction of a send keeps MsgInv.
LEMMA SendAppends ==
    ASSUME MsgInv, NEW c \in Calls, AppendMessage(c) \/ PostToGroup(c)
    PROVE  MsgInv'
<1>1. /\ Done(c) /\ activeMembers' = activeMembers /\ call[c].at \in SendAt
  BY DEF AppendMessage, PostToGroup, SendAt
<1>2. LogInv' /\ BadgesKept => MsgInv'
  BY <1>1, CallIsDone DEF MsgInv
<1>0. PICK p \in MsgPrincipals, r \in RequestRow :
          p = call[c].p /\ r = call[c].r /\ (~r.thread => r.reply \in Nat)
  BY <1>1 DEF MsgInv, MsgCallOK, SendRow
<1>3. PICK root : root = Root(r)
  OBVIOUS
<1>4. LogInv
  BY DEF MsgInv
<1>5. ~(r.thread /\ root = 0) =>
          \/ r.thread /\ root # 0 /\ root = canonicalize_thread_root_in_tx(r.reply)
          \/ ~r.thread /\ root = r.reply /\ r.reply \in Nat
  BY <1>0, <1>3 DEF Root, RequestRow
<1>6. CASE UNCHANGED <<events, total, seen, mark>>
  BY <1>1, <1>2, <1>4, <1>6, QuietLog DEF LogInv, LogTypes
<1>7. ASSUME ~(r.thread /\ root = 0), \A i \in DOMAIN events : events[i].key # r.key,
             insert_conversation_event(p, r, root, "api")
      PROVE  MsgInv'
  <2>1. r \in [key : MsgKeys \cup {0}, thread : BOOLEAN, broadcast : BOOLEAN,
               reply : Nat \cup {MaxEvents}]
    BY DEF RequestRow
  <2>2. Fits([sender |-> p, key |-> r.key, thread |-> r.thread, broadcast |-> r.broadcast,
              reply |-> root, via |-> "api", member |-> p \in activeMembers])
    BY <1>4, <1>5, <1>7, <2>1, AppendFits
  <2> QED
    BY <1>1, <1>2, <1>4, <1>7, <2>2, InsertKeepsLog
<1>8. ASSUME p \in activeMembers, ~(r.thread /\ root = 0),
             insert_conversation_event(p, [r EXCEPT !.key = 0], root, "outbox")
      PROVE  MsgInv'
  <2>1. PICK s : s = [r EXCEPT !.key = 0]
    OBVIOUS
  <2>2. /\ s \in [key : MsgKeys \cup {0}, thread : BOOLEAN, broadcast : BOOLEAN,
                  reply : Nat \cup {MaxEvents}]
        /\ s.key = 0 /\ s.thread = r.thread /\ s.reply = r.reply
    BY <2>1 DEF RequestRow
  <2>3. Fits([sender |-> p, key |-> s.key, thread |-> s.thread, broadcast |-> s.broadcast,
              reply |-> root, via |-> "outbox", member |-> p \in activeMembers])
    BY <1>4, <1>5, <1>8, <2>2, AppendFits
  <2> QED
    BY <1>1, <1>2, <1>4, <1>8, <2>1, <2>3, InsertKeepsLog
<1> QED
  BY <1>0, <1>3, <1>6, <1>7, <1>8 DEF AppendMessage, PostToGroup

\* Every step of senders, members and viewers keeps MsgInv.
LEMMA MsgNext == MsgInv /\ [MessagesNext]_msgVars => MsgInv'
<1> SUFFICES ASSUME MsgInv, [MessagesNext]_msgVars PROVE MsgInv'
  OBVIOUS
<1>0. /\ LogInv /\ DOMAIN call = Calls /\ (\A c \in Calls : MsgCallOK(c))
      /\ activeMembers \subseteq MsgPrincipals
  BY DEF MsgInv, LogInv, LogTypes
<1>1. ASSUME UNCHANGED <<events, total, seen, mark>>, activeMembers' \subseteq MsgPrincipals,
             BadgesKept => DOMAIN call' = Calls /\ \A d \in Calls : MsgCallOK(d)'
      PROVE  MsgInv'
  BY <1>0, <1>1, QuietLog DEF MsgInv
<1>2. call' = call /\ BadgesKept => DOMAIN call' = Calls /\ \A d \in Calls : MsgCallOK(d)'
  BY <1>0 DEF MsgCallOK, BadgesKept
<1>3. CASE UNCHANGED msgVars
  BY <1>0, <1>1, <1>2, <1>3 DEF msgVars
<1>4. ASSUME NEW c \in Calls, NEW r \in Requests, NEW p \in MsgPrincipals,
             send_message(c, p, r) \/ send_to_group(c, p, r)
      PROVE  MsgInv'
  BY <1>4, SendStarts
<1>5. ASSUME NEW c \in Calls, AutoJoin(c) PROVE MsgInv'
  <2>1. /\ activeMembers' = activeMembers \cup {call[c].p} /\ call[c].at \in SendAt
        /\ call' = [call EXCEPT ![c].at = "dedup"] /\ "dedup" \in SendAt
        /\ UNCHANGED <<events, total, seen, mark>>
    BY <1>5 DEF AutoJoin, SendAt
  <2>2. call[c].p \in MsgPrincipals
    BY <1>0, <2>1 DEF MsgCallOK, SendRow
  <2> QED
    BY <1>0, <1>1, <2>1, <2>2, SendGoesOn
<1>6. ASSUME NEW c \in Calls, find_event_by_client_msg_id(c) PROVE MsgInv'
  <2>1. /\ call[c].at \in SendAt /\ UNCHANGED <<activeMembers, events, total, seen, mark>>
        /\ Done(c) \/ call' = [call EXCEPT ![c].at = "append"]
        /\ "append" \in SendAt
    BY <1>6 DEF find_event_by_client_msg_id, SendAt
  <2> QED
    BY <1>0, <1>1, <2>1, SendGoesOn, CallIsDone
<1>7. ASSUME NEW c \in Calls, AppendMessage(c) \/ PostToGroup(c) PROVE MsgInv'
  BY <1>7, SendAppends
<1>8. ASSUME NEW c \in Calls, UpsertReceipt(c) PROVE MsgInv'
  BY <1>0, <1>1, <1>8, CallIsDone DEF UpsertReceipt
<1>9. ASSUME NEW p \in MsgPrincipals, remove_group_member(p) \/ add_group_members(p)
      PROVE  MsgInv'
  BY <1>0, <1>1, <1>2, <1>9 DEF remove_group_member, add_group_members
<1>10. ASSUME NEW c \in Calls, NEW p \in MsgHumans, mark_conversation_viewed(c, p)
       PROVE  MsgInv'
  <2>1. /\ UNCHANGED <<activeMembers, events, total, seen, mark>>
        /\ call' = [call EXCEPT ![c] = [at |-> "view", p |-> p, total |-> total,
                                        upto |-> Len(events)]]
    BY <1>10 DEF mark_conversation_viewed
  <2>2. Badge(events', total', total, Len(events))
    BY <1>0, <2>1, NothingUnread DEF LogInv, LogTypes
  <2>3. LET x == [at |-> "view", p |-> p, total |-> total, upto |-> Len(events)]
        IN  x.at \notin SendAt /\ x.p \in MsgPrincipals /\ x.total = total /\ x.upto = Len(events)
    BY DEF SendAt, MsgPrincipals
  <2> QED
    BY <1>0, <1>1, <2>1, <2>2, <2>3, CallMovesOn
<1>12. ASSUME NEW c \in Calls, UpdateViewed(c) PROVE MsgInv'
  <2>1. LogInv' /\ BadgesKept
    BY <1>12, ViewedLog
  <2> QED
    BY <1>0, <1>12, <2>1, CallIsDone DEF UpdateViewed, MsgInv
<1>11. ASSUME NEW c \in Calls, NEW p \in MsgHumans, NEW id \in MsgIds,
              mark_thread_viewed(c, p, id)
       PROVE  MsgInv'
  <2>1. PICK root : call' = [call EXCEPT ![c] = [at |-> "receipt", p |-> p, root |-> root]]
    BY <1>11 DEF mark_thread_viewed
  <2>2. [at |-> "receipt", p |-> p, root |-> root].at \notin SendAt \cup {"view"}
    BY DEF SendAt
  <2>3. UNCHANGED <<activeMembers, events, total, seen, mark>>
    BY <1>11 DEF mark_thread_viewed
  <2> QED
    BY <1>0, <1>1, <2>1, <2>2, <2>3, CallMovesOn
<1> QED
  BY <1>3, <1>4, <1>5, <1>6, <1>7, <1>8, <1>9, <1>10, <1>11, <1>12 DEF MessagesNext

(* OneMessagePerKey, ThreadsAreFlat, UnreadIsExact and                      *)
(* GroupSendsAreByMembers: for any number of principals, keys, overlapping  *)
(* sends, removals, returns and views, retries add one message, threads     *)
(* keep one level, a badge counts what was written since what the last      *)
(* write of its counter covers, though messages were sent while that view   *)
(* was under way, and an agent writes to a group only as a member.          *)
THEOREM MessagesInOrder ==
    MessagesSpec => [](/\ OneMessagePerKey /\ ThreadsAreFlat
                       /\ UnreadIsExact /\ GroupSendsAreByMembers)
<1>1. MessagesInit => MsgInv
  <2> SUFFICES ASSUME MessagesInit PROVE MsgInv
    OBVIOUS
  <2>1. /\ events = <<>> /\ DOMAIN events = {} /\ events \in Seq(EventRow) /\ Len(events) = 0
    BY SMTT(30) DEF MessagesInit
  <2>2. LogTypes
    BY <2>1, SMTT(30) DEF MessagesInit, LogTypes
  <2>4. \A p \in MsgPrincipals : Badge(events, total, seen[p], mark[p])
    <3>1. \A p \in MsgPrincipals : total = 0 /\ seen[p] = 0 /\ mark[p] = 0
      BY DEF MessagesInit
    <3> QED
      BY <2>1, <2>2, <3>1, NothingUnread DEF LogTypes
  <2>5. DOMAIN call = Calls /\ \A c \in Calls : MsgCallOK(c)
    BY DEF MessagesInit, MsgCallOK, NoCall, SendAt
  <2>6. OneMessagePerKey /\ ThreadsAreFlat /\ GroupSendsAreByMembers
    BY <2>1 DEF OneMessagePerKey, ThreadsAreFlat, GroupSendsAreByMembers
  <2> QED
    BY <2>2, <2>4, <2>5, <2>6 DEF MsgInv, LogInv
<1>2. MsgInv => /\ OneMessagePerKey /\ ThreadsAreFlat /\ UnreadIsExact /\ GroupSendsAreByMembers
  BY DEF MsgInv, LogInv, LogTypes, UnreadIsExact, Badge, After
<1> QED
  BY <1>1, <1>2, MsgNext, PTL DEF MessagesSpec

-----------------------------------------------------------------------------
(* The tool journal.                                                        *)

ToolEffectsSpec == ToolEffectsInit /\ [][ToolEffectsNext]_toolVars

CallerAt == {"away", "inserting", "claiming", "raced", "running", "succeeded", "failed"}
CallerRow == [at : CallerAt, output : Nat]
EffectRow == [status : EffectStatus, output : Nat]

ToolTypes ==
    /\ effect \in EffectRow /\ caller \in [ToolCallers -> CallerRow]
    /\ toolRuns \in Nat

\* A caller who has claimed the effect and not yet recorded what came of it.
Busy(w) == caller[w].at \in {"running", "succeeded", "failed"}

\* The row leaves "pending" once, so there is one execution, of one caller,
\* and what is answered is its output.
ToolInv ==
    /\ ToolTypes
    /\ effect.status \in {"absent", "pending"} => toolRuns = 0
    /\ effect.status \in {"executing", "succeeded", "failed"} => toolRuns = 1
    /\ \A w \in ToolCallers : Busy(w) => effect.status = "executing"
    /\ \A v, w \in ToolCallers : Busy(v) /\ Busy(w) => v = w
    /\ \A w \in ToolCallers : caller[w].at = "succeeded" => caller[w].output = 1
    /\ effect.status = "succeeded" => effect.output = 1
    /\ toolAnswers \subseteq {1}

\* What a step does to its caller, the journal and the answers.
Caller(w, at) ==
    /\ caller' \in [ToolCallers -> CallerRow] /\ caller'[w].at = at
    /\ at = "succeeded" => caller'[w].output = toolRuns
    /\ \A v \in ToolCallers \ {w} : caller'[v] = caller[v]

Same == effect' = effect /\ toolRuns' = toolRuns

ToolStep(w) ==
    \/ Same /\ \E at \in {"away", "inserting", "claiming", "raced"} : Caller(w, at)
            /\ \/ toolAnswers' = toolAnswers
               \/ effect.status = "succeeded" /\ toolAnswers' = toolAnswers \cup {effect.output}
    \/ effect.status = "absent" /\ effect' = [status |-> "pending", output |-> NoOutput]
       /\ Caller(w, "claiming") /\ UNCHANGED <<toolAnswers, toolRuns>>
    \/ effect.status = "pending" /\ effect' = [effect EXCEPT !.status = "executing"]
       /\ Caller(w, "running") /\ toolRuns' = toolRuns + 1 /\ toolAnswers' = toolAnswers
    \/ caller[w].at = "running" /\ Same /\ toolAnswers' = toolAnswers
       /\ (Caller(w, "succeeded") \/ Caller(w, "failed"))
    \/ caller[w].at = "succeeded" /\ Caller(w, "away") /\ toolRuns' = toolRuns
       /\ effect' = [status |-> "succeeded", output |-> caller[w].output]
       /\ toolAnswers' = toolAnswers \cup {caller[w].output}
    \/ caller[w].at = "failed" /\ Caller(w, "away") /\ toolRuns' = toolRuns
       /\ effect' = [status |-> "failed", output |-> caller[w].output]
       /\ toolAnswers' = toolAnswers

\* How each assignment to a caller changes its place and its output.
LEMMA CallerMoves ==
    ASSUME ToolTypes, NEW w \in ToolCallers
    PROVE  /\ \A at \in CallerAt \ {"succeeded"} : At_(w, at) => Caller(w, at)
           /\ caller' = [caller EXCEPT ![w] = Away] => Caller(w, "away")
           /\ caller' = [caller EXCEPT ![w] = [at |-> "succeeded", output |-> toolRuns]]
                  => Caller(w, "succeeded")
<1>1. ASSUME NEW r \in CallerRow, caller' = [caller EXCEPT ![w] = r]
      PROVE  /\ caller' \in [ToolCallers -> CallerRow] /\ caller'[w] = r
             /\ \A v \in ToolCallers \ {w} : caller'[v] = caller[v]
  BY <1>1 DEF ToolTypes
<1>2. ASSUME NEW at \in CallerAt \ {"succeeded"}, At_(w, at) PROVE Caller(w, at)
  <2>1. [caller[w] EXCEPT !.at = at] \in CallerRow /\ [caller[w] EXCEPT !.at = at].at = at
    BY DEF ToolTypes, CallerRow
  <2> QED
    BY <1>1, <1>2, <2>1 DEF At_, Caller
<1>3. Away \in CallerRow /\ Away.at = "away"
  BY DEF Away, NoOutput, CallerRow, CallerAt
<1>4. ASSUME caller' = [caller EXCEPT ![w] = [at |-> "succeeded", output |-> toolRuns]]
      PROVE  Caller(w, "succeeded")
  <2>1. [at |-> "succeeded", output |-> toolRuns] \in CallerRow
    BY DEF ToolTypes, CallerRow, CallerAt
  <2> QED
    BY <1>1, <1>4, <2>1 DEF Caller
<1> QED
  BY <1>1, <1>2, <1>3, <1>4 DEF Caller

\* Every step of a caller is one of the kinds that ToolStep lists.
LEMMA EveryToolStep ==
    ASSUME ToolTypes, NEW w \in ToolCallers, CallerStep(w) \/ CallerFails(w)
    PROVE  ToolStep(w)
<1>0. {"away", "inserting", "claiming", "raced", "running", "failed"}
          \subseteq CallerAt \ {"succeeded"}
  BY DEF CallerAt
<1>1. CASE get_effect(w)
  <2>1. Same
    BY <1>1 DEF get_effect, Same
  <2>2. \/ At_(w, "inserting") /\ toolAnswers' = toolAnswers
        \/ effect.status = "succeeded" /\ Answered(w, effect.output)
        \/ Refuse(w)
        \/ At_(w, "claiming") /\ toolAnswers' = toolAnswers
    BY <1>1 DEF get_effect
  <2> QED
    BY <1>0, <2>1, <2>2, CallerMoves DEF Answered, Refuse, ToolStep
<1>2. CASE insert_effect(w)
  BY <1>0, <1>2, CallerMoves DEF insert_effect, ToolStep, Same
<1>3. CASE claim_effect(w)
  BY <1>0, <1>3, CallerMoves DEF claim_effect, Claimable, ToolStep, Same
<1>4. CASE handle_race_on_insert(w)
  BY <1>0, <1>4, CallerMoves DEF handle_race_on_insert, Answered, Refuse, ToolStep, Same
<1>5. CASE ToolExecutes(w)
  BY <1>0, <1>5, CallerMoves DEF ToolExecutes, ToolStep, Same
<1>6. CASE RecordSuccess(w)
  BY <1>0, <1>6, CallerMoves DEF RecordSuccess, Recorded, Answered, ToolStep
<1>7. CASE RecordFailure(w)
  BY <1>0, <1>7, CallerMoves DEF RecordFailure, Recorded, Refuse, ToolStep
<1>8. CASE CallerFails(w)
  BY <1>0, <1>8, CallerMoves DEF CallerFails, Refuse, ToolStep, Same
<1> QED
  BY <1>1, <1>2, <1>3, <1>4, <1>5, <1>6, <1>7, <1>8 DEF CallerStep

\* Each kind of step keeps ToolInv.
LEMMA ToolStepInv ==
    ASSUME ToolInv, NEW w \in ToolCallers, ToolStep(w)
    PROVE  ToolInv'
<1>0. /\ effect \in EffectRow /\ caller \in [ToolCallers -> CallerRow] /\ toolRuns \in Nat
      /\ effect.output \in Nat /\ caller[w].output \in Nat
  BY DEF ToolInv, ToolTypes, EffectRow, CallerRow
<1>1. ASSUME NEW at \in {"away", "inserting", "claiming", "raced"}, Same, Caller(w, at),
             \/ toolAnswers' = toolAnswers
             \/ effect.status = "succeeded" /\ toolAnswers' = toolAnswers \cup {effect.output}
      PROVE  ToolInv'
  <2>1. ToolTypes'
    BY <1>0, <1>1 DEF ToolTypes, Same, Caller
  <2> QED
    BY <1>1, <2>1 DEF ToolInv, Busy, Same, Caller
<1>2. ASSUME effect.status = "absent", effect' = [status |-> "pending", output |-> NoOutput],
             Caller(w, "claiming"), UNCHANGED <<toolAnswers, toolRuns>>
      PROVE  ToolInv'
  <2>1. ToolTypes' /\ effect'.status = "pending"
    BY <1>0, <1>2 DEF ToolTypes, Caller, EffectRow, EffectStatus, NoOutput
  <2> QED
    BY <1>2, <2>1 DEF ToolInv, Busy, Caller
<1>3. ASSUME effect.status = "pending", effect' = [effect EXCEPT !.status = "executing"],
             Caller(w, "running"), toolRuns' = toolRuns + 1, toolAnswers' = toolAnswers
      PROVE  ToolInv'
  <2>1. ToolTypes' /\ effect'.status = "executing"
    BY <1>0, <1>3, SMTT(30) DEF ToolTypes, Caller, EffectRow, EffectStatus
  <2>2. toolRuns = 0 /\ toolRuns' = 1
    BY <1>3, SMTT(30) DEF ToolInv
  <2>3. \A v \in ToolCallers : ~Busy(v)
    BY <1>3 DEF ToolInv
  <2> QED
    BY <1>3, <2>1, <2>2, <2>3 DEF ToolInv, Busy, Caller
<1>4. ASSUME caller[w].at = "running", Same, toolAnswers' = toolAnswers,
             Caller(w, "succeeded") \/ Caller(w, "failed")
      PROVE  ToolInv'
  <2>1. ToolTypes' /\ Busy(w) /\ effect.status = "executing" /\ toolRuns = 1
    BY <1>0, <1>4 DEF ToolInv, ToolTypes, Same, Caller, Busy
  <2>2. \A v \in ToolCallers \ {w} : ~Busy(v) /\ ~Busy(v)'
    BY <1>4, <2>1 DEF ToolInv, Busy, Caller
  <2> QED
    BY <1>4, <2>1, <2>2 DEF ToolInv, Busy, Same, Caller
<1>5. ASSUME NEW st \in {"succeeded", "failed"}, caller[w].at = st, Caller(w, "away"),
             toolRuns' = toolRuns, effect' = [status |-> st, output |-> caller[w].output],
             \/ toolAnswers' = toolAnswers
             \/ st = "succeeded" /\ toolAnswers' = toolAnswers \cup {caller[w].output}
      PROVE  ToolInv'
  <2>1. /\ ToolTypes' /\ Busy(w) /\ effect'.status = st /\ effect'.output = caller[w].output
        /\ toolRuns = 1
    BY <1>0, <1>5 DEF ToolInv, ToolTypes, Caller, Busy, EffectRow, EffectStatus
  <2>2. \A v \in ToolCallers : ~Busy(v)'
    BY <1>5, <2>1 DEF ToolInv, Busy, Caller
  <2> QED
    BY <1>5, <2>1, <2>2 DEF ToolInv, Busy
<1> QED
  BY <1>1, <1>2, <1>3, <1>4, <1>5 DEF ToolStep

\* Every step of the tool journal keeps ToolInv.
LEMMA ToolNextInv == ToolInv /\ [ToolEffectsNext]_toolVars => ToolInv'
<1> SUFFICES ASSUME ToolInv, [ToolEffectsNext]_toolVars PROVE ToolInv'
  OBVIOUS
<1>1. CASE EffectAges \/ UNCHANGED toolVars
  BY <1>1 DEF EffectAges, toolVars, ToolInv, ToolTypes, Busy
<1>2. ASSUME NEW w \in ToolCallers, CallerStep(w) \/ CallerFails(w) PROVE ToolInv'
  BY <1>2, EveryToolStep, ToolStepInv DEF ToolInv
<1> QED
  BY <1>1, <1>2 DEF ToolEffectsNext

(* ToolRunsOnce and CallersAgree: however many workers repeat a tool call,  *)
(* race for its journal row and disappear, the tool is run by one of them   *)
(* and all that are answered get the output of that run.                    *)
THEOREM ToolCallIsOnce == ToolEffectsSpec => [](ToolRunsOnce /\ CallersAgree)
<1>1. ToolEffectsInit => ToolInv
  BY SMTT(30) DEF ToolEffectsInit, ToolInv, ToolTypes, Busy, NoEffect, Away, NoOutput, EffectRow,
         EffectStatus, CallerRow, CallerAt
<1>2. ASSUME ToolInv PROVE ToolRunsOnce
  <2> DEFINE R == {w \in ToolCallers : caller[w].at = "running"}
  <2>1. ASSUME NEW v \in R PROVE R = {v}
    BY <1>2 DEF ToolInv, Busy
  <2>2. R = {} \/ \E v \in R : R = {v}
    BY <2>1
  <2>3. Cardinality(R) <= 1
    BY <2>2, FS_EmptySet, FS_Singleton, SMTT(30)
  <2>4. effect.status = "succeeded" => \A w \in ToolCallers : caller[w].at # "running"
    BY <1>2 DEF ToolInv, Busy
  <2> QED
    BY <2>3, <2>4 DEF ToolRunsOnce
<1>3. ASSUME ToolInv PROVE CallersAgree
  <2>1. toolAnswers = {} \/ toolAnswers = {1}
    BY <1>3 DEF ToolInv
  <2>2. Cardinality(toolAnswers) <= 1
    BY <2>1, FS_EmptySet, FS_Singleton, SMTT(30)
  <2> QED
    BY <2>1, <2>2, SMTT(30) DEF CallersAgree, NoOutput
<1> QED
  BY <1>1, <1>2, <1>3, ToolNextInv, PTL DEF ToolEffectsSpec
=============================================================================
