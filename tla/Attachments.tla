---------------------------- MODULE Attachments -----------------------------
(***************************************************************************)
(* Attachments: bytes in a file and a row in the database, after the       *)
(* gateway's attachments.rs and the attachment part of send_message.  The  *)
(* file and the row change in separate steps; delete and send_message      *)
(* exclude each other by an advisory lock on the attachment id, upload and *)
(* download take no lock.                                                  *)
(***************************************************************************)
EXTENDS Naturals, FiniteSets

CONSTANTS
    AttHumans, AttAgents,   \* principals
    AttIds,                 \* attachment ids, one per upload
    AttConversations,       \* conversations
    AttCalls,               \* requests under way at a time
    MaxReferences,          \* bound: messages with an attachment
    MaxMembershipChanges,   \* bound: members added or removed
    MaxAttFaults            \* bound: failed statements, failed file operations, crashes

VARIABLES
    bytes,       \* attachments whose file exists
    attRow,      \* attachment -> owner of its row, NoOwner without
    references,  \* set of [att, conv, by]: messages that carry an attachment
    convMembers, \* conversation -> its members
    attCall,     \* request -> what it does and where it is
    attLock,     \* attachment -> request holding its advisory lock, NoAttCall
    memberChanges,
    attFaults,
    issued,      \* ids already given to an upload
    unlinked,    \* history: attachments whose file was removed and whose row stayed
    littered,    \* history: attachments whose upload ended between file and row
    failedReads  \* history: downloads that passed the checks and found no file

attVars == <<bytes, attRow, references, convMembers, attCall, attLock, memberChanges,
             attFaults, issued, unlinked, littered, failedReads>>

People == AttHumans \cup AttAgents
NoOwner == 0
NoAttCall == 0

\* No principal and no request is taken for the absence of one.
ASSUME AttAssumption == NoOwner \notin People /\ NoAttCall \notin AttCalls

Waiting == [op |-> "none", att |-> 0, who |-> 0, conv |-> 0]
Op(c, op) == attCall[c].op = op
Goes(c, op) == attCall' = [attCall EXCEPT ![c].op = op]
Finishes(c) == attCall' = [attCall EXCEPT ![c] = Waiting]
Unlock(c) == attLock' = [a \in AttIds |-> IF attLock[a] = c THEN NoAttCall ELSE attLock[a]]
AttFault == attFaults < MaxAttFaults /\ attFaults' = attFaults + 1

\* The requests are interchangeable: the first free one starts.
Free_(c) == Op(c, "none") /\ \A d \in AttCalls : d < c => ~Op(d, "none")

\* A member of a conversation with a message that carries the attachment.
SharedWith(a, who) ==
    \E r \in references : r.att = a /\ who \in convMembers[r.conv]

---------------------------------------------------------------------------
(* Upload *)

\* The bytes are validated and written under a new id.
put(c, a, who) ==
    /\ Free_(c)
    /\ a \notin issued /\ issued' = issued \cup {a}
    /\ bytes' = bytes \cup {a}
    /\ attCall' = [attCall EXCEPT ![c] = [op |-> "insert", att |-> a, who |-> who, conv |-> 0]]
    /\ UNCHANGED <<attRow, references, convMembers, attLock, memberChanges, attFaults,
                   unlinked, littered, failedReads>>

put_inserts(c) ==
    /\ Op(c, "insert")
    /\ attRow' = [attRow EXCEPT ![attCall[c].att] = attCall[c].who]
    /\ Finishes(c)
    /\ UNCHANGED <<bytes, references, convMembers, attLock, memberChanges, attFaults,
                   issued, unlinked, littered, failedReads>>

Cleaned(a) == bytes \ {a}

\* The insert failed, or its answer was lost after it was applied: the file is
\* removed again, and the row that was written stays.
put_cleans_up(c) ==
    /\ Op(c, "insert") /\ AttFault
    /\ bytes' = Cleaned(attCall[c].att)
    /\ \/ UNCHANGED <<attRow, unlinked>>
       \/ /\ attRow' = [attRow EXCEPT ![attCall[c].att] = attCall[c].who]
          /\ unlinked' = unlinked \cup {attCall[c].att}
    /\ Finishes(c)
    /\ UNCHANGED <<references, convMembers, attLock, memberChanges, issued, littered, failedReads>>

\* No connection is left after the write, the cleanup fails or the gateway stops.
put_ends_early(c) ==
    /\ Op(c, "insert") /\ AttFault
    /\ littered' = littered \cup {attCall[c].att}
    /\ Finishes(c)
    /\ UNCHANGED <<bytes, attRow, references, convMembers, attLock, memberChanges,
                   issued, unlinked, failedReads>>

---------------------------------------------------------------------------
(* Delete: one transaction under the lock of the attachment *)

Deletable(a, who) == attRow[a] = who /\ \A r \in references : r.att # a

delete(c, a, who) ==
    /\ Free_(c)
    /\ attLock[a] = NoAttCall
    /\ Deletable(a, who)
    /\ attLock' = [attLock EXCEPT ![a] = c]
    /\ attCall' = [attCall EXCEPT ![c] = [op |-> "unlink", att |-> a, who |-> who, conv |-> 0]]
    /\ UNCHANGED <<bytes, attRow, references, convMembers, memberChanges, attFaults,
                   issued, unlinked, littered, failedReads>>

\* A file that is already gone counts as removed.
delete_unlinks(c) ==
    /\ Op(c, "unlink")
    /\ bytes' = bytes \ {attCall[c].att}
    /\ Goes(c, "commit")
    /\ UNCHANGED <<attRow, references, convMembers, attLock, memberChanges, attFaults,
                   issued, unlinked, littered, failedReads>>

delete_commits(c) ==
    /\ Op(c, "commit")
    /\ attRow' = [attRow EXCEPT ![attCall[c].att] = NoOwner]
    /\ Unlock(c) /\ Finishes(c)
    /\ unlinked' = unlinked \ {attCall[c].att}
    /\ UNCHANGED <<bytes, references, convMembers, memberChanges, attFaults, issued, littered,
                   failedReads>>

\* The file cannot be removed, or the transaction ends before its commit: the
\* row stays, and after the removal it stays without its bytes.
delete_ends_early(c) ==
    /\ Op(c, "unlink") \/ Op(c, "commit")
    /\ AttFault
    /\ unlinked' = IF Op(c, "commit") THEN unlinked \cup {attCall[c].att} ELSE unlinked
    /\ Unlock(c) /\ Finishes(c)
    /\ UNCHANGED <<bytes, attRow, references, convMembers, memberChanges, issued, littered,
                   failedReads>>

---------------------------------------------------------------------------
(* A message that carries the attachment *)

send_locks(c, a) == attLock[a] = NoAttCall /\ attLock' = [attLock EXCEPT ![a] = c]

\* The owner, a human, or a principal it was shared with.
can_reuse_attachment(a, who) ==
    \/ attRow[a] = who
    \/ who \in AttHumans
    \/ SharedWith(a, who)

send_with_attachment(c, a, who, k) ==
    /\ Free_(c)
    /\ Cardinality(references) < MaxReferences
    /\ who \in convMembers[k]
    /\ send_locks(c, a)
    /\ attRow[a] # NoOwner
    /\ can_reuse_attachment(a, who)
    /\ attCall' = [attCall EXCEPT ![c] = [op |-> "send", att |-> a, who |-> who, conv |-> k]]
    /\ UNCHANGED <<bytes, attRow, references, convMembers, memberChanges, attFaults,
                   issued, unlinked, littered, failedReads>>

send_commits(c) ==
    LET s == attCall[c] IN
    /\ Op(c, "send")
    /\ references' = references \cup {[att |-> s.att, conv |-> s.conv, by |-> s.who]}
    /\ Unlock(c) /\ Finishes(c)
    /\ UNCHANGED <<bytes, attRow, convMembers, memberChanges, attFaults, issued, unlinked, littered,
                   failedReads>>

send_fails(c) ==
    /\ Op(c, "send") /\ AttFault
    /\ Unlock(c) /\ Finishes(c)
    /\ UNCHANGED <<bytes, attRow, references, convMembers, memberChanges, issued, unlinked, littered,
                   failedReads>>

---------------------------------------------------------------------------
(* Download *)

get_allowed(a, who) == attRow[a] # NoOwner /\ (attRow[a] = who \/ SharedWith(a, who))

get(c, a, who) ==
    /\ Free_(c)
    /\ get_allowed(a, who)
    /\ attCall' = [attCall EXCEPT ![c] = [op |-> "read", att |-> a, who |-> who, conv |-> 0]]
    /\ UNCHANGED <<bytes, attRow, references, convMembers, attLock, memberChanges, attFaults,
                   issued, unlinked, littered, failedReads>>

get_reads(c) ==
    /\ Op(c, "read")
    /\ failedReads' = IF attCall[c].att \in bytes THEN failedReads
                      ELSE failedReads \cup {attCall[c].att}
    /\ Finishes(c)
    /\ UNCHANGED <<bytes, attRow, references, convMembers, attLock, memberChanges, attFaults,
                   issued, unlinked, littered>>

---------------------------------------------------------------------------
\* external: members join and leave conversations.
MembershipChanges(k, who) ==
    /\ memberChanges < MaxMembershipChanges /\ memberChanges' = memberChanges + 1
    /\ convMembers' = [convMembers EXCEPT ![k] =
         IF who \in @ THEN @ \ {who} ELSE @ \cup {who}]
    /\ UNCHANGED <<bytes, attRow, references, attCall, attLock, attFaults, issued, unlinked, littered,
                   failedReads>>

AttachmentsInit ==
    /\ bytes = {}
    /\ attRow = [a \in AttIds |-> NoOwner]
    /\ references = {}
    /\ convMembers \in [AttConversations -> {AttHumans \cup S : S \in SUBSET AttAgents}]
    /\ attCall = [c \in AttCalls |-> Waiting]
    /\ attLock = [a \in AttIds |-> NoAttCall]
    /\ memberChanges = 0
    /\ attFaults = 0
    /\ issued = {} /\ unlinked = {} /\ littered = {} /\ failedReads = {}

CallBegins(c) ==
    \E a \in AttIds, who \in People :
        \/ put(c, a, who)
        \/ delete(c, a, who)
        \/ get(c, a, who)
        \/ \E k \in AttConversations : send_with_attachment(c, a, who, k)

CallGoesOn(c) ==
    \/ put_inserts(c) \/ put_cleans_up(c) \/ put_ends_early(c)
    \/ delete_unlinks(c) \/ delete_commits(c) \/ delete_ends_early(c)
    \/ send_commits(c) \/ send_fails(c)
    \/ get_reads(c)

AttachmentsNext ==
    \/ \E c \in AttCalls : CallBegins(c) \/ CallGoesOn(c)
    \/ \E k \in AttConversations, who \in AttAgents : MembershipChanges(k, who)

---------------------------------------------------------------------------
AttachmentsTypeOK ==
    /\ bytes \subseteq AttIds
    /\ attRow \in [AttIds -> People \cup {NoOwner}]
    /\ references \subseteq [att : AttIds, conv : AttConversations, by : People]
    /\ attLock \in [AttIds -> AttCalls \cup {NoAttCall}]

\* An attachment a message carries can be read: its row and its bytes exist,
\* unless a delete ended after it removed the bytes and left the row behind, or
\* the answer to the insert was lost and its upload removed them.
ReferencedBytesExist ==
    \A r \in references : attRow[r.att] # NoOwner /\ (r.att \in bytes \/ r.att \in unlinked)

\* Bytes without a row belong to an upload under way, or to one that ended
\* early: a failed insert leaves no file.
NoOrphanBytes ==
    \A a \in bytes : attRow[a] # NoOwner \/ a \in littered
                     \/ \E c \in AttCalls : attCall[c].att = a /\ Op(c, "insert")

\* Knowing an attachment's id is not enough for an agent: an attachment that
\* agents passed on was first shared by its owner or by a human.
AgentsPassOnWhatTheySaw ==
    \A r \in references :
        \E q \in references : q.att = r.att /\ (q.by = attRow[q.att] \/ q.by \in AttHumans)

\* A download that passed its checks only fails to find the file of a deleted
\* attachment: it reads the bytes of one that messages carry.
ReadableIsRead ==
    \A r \in references : r.att \in failedReads => r.att \in unlinked
=============================================================================
