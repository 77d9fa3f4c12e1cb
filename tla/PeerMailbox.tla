----------------------------- MODULE PeerMailbox -----------------------------
(***************************************************************************)
(* The local peer mailbox (peer_mailbox.py), the MCP servers that open it  *)
(* (peer_mcp.py) and the owner's commands (peer_cli.py).                   *)
(*                                                                         *)
(* Every server process is one instance: it opens the database, announces  *)
(* itself with a presence row that lapses unless it is renewed, and reads  *)
(* and acknowledges only while it is the only live instance of its peer.   *)
(* Each method is one BEGIN IMMEDIATE transaction, so a step; what a       *)
(* method refuses changes nothing, and is a step only where the answer     *)
(* says that no message was accepted.                                      *)
(***************************************************************************)
EXTENDS Naturals, FiniteSets

CONSTANTS Peer,        \* enrolled identities
          Scope,       \* owner, account and project of a peer
          Instance,    \* server processes, each started once
          PeerOf,      \* the peer whose credential file it serves
          Label,       \* session and thread labels
          Delivery,    \* delivery IDs callers choose
          Legacy,      \* IDs pruned before tombstones had a recipient
          Command,     \* enroll commands; each makes a token of its own
          MaxPending,  \* 100 unread messages of a recipient
          MaxRetained, \* 1000 acknowledged messages kept for it
          None

ASSUME MailboxAssumption ==
    /\ PeerOf \in [Instance -> Peer]
    /\ Legacy \subseteq Delivery
    /\ MaxPending \in Nat /\ MaxRetained \in Nat
    /\ IsFiniteSet(Delivery)
    /\ None \notin Label \cup Instance \cup Command
    /\ None \notin (Peer \X Command) \cup (Instance \X (Label \cup {None}))

VARIABLES
    file,      \* the credential file of a peer: the token in it
    token,     \* peers.token_hash
    command,   \* the peer and token of an enroll command that has published
    process,   \* instances: not started, serving, or gone
    label,     \* the labels an instance was bound to
    fresh,     \* its presence row has not lapsed
    message,   \* peer_messages
    tombstone, \* peer_delivery_tombstones
    presented, \* peer_presentations: instance and label
    accepted,  \* history: how often a delivery was accepted
    reader,    \* history: the last instance a message was returned to
    acker,     \* history: the instance that acknowledged it
    misled     \* history: deliveries that had been accepted when a caller
               \* was told that no message was

enrollment == <<file, token, command>>
presence   == <<process, label, fresh>>
mail       == <<message, tombstone, presented>>
history    == <<accepted, reader, acker, misled>>
vars       == <<file, token, command, process, label, fresh, message,
                tombstone, presented, accepted, reader, acker, misled>>

Key     == Peer \X Delivery
Pin     == Label \cup {None}
Message == [pin : Pin, acked : BOOLEAN]
ASSUME NoneAssumption == None \notin Message

TypeOK ==
    /\ file \in [Peer -> Command \cup {None}]
    /\ token \in [Peer -> Command \cup {None}]
    /\ command \in [Command -> (Peer \X Command) \cup {None}]
    /\ process \in [Instance -> {"new", "serving", "gone"}]
    /\ label \in [Instance -> Pin]
    /\ fresh \in [Instance -> BOOLEAN]
    /\ message \in [Key -> Message \cup {None}]
    /\ tombstone \subseteq Key
    /\ presented \in [Key -> (Instance \X Pin) \cup {None}]
    /\ accepted \in [Key -> Nat]
    /\ reader \in [Key -> Instance \cup {None}]
    /\ acker \in [Key -> Instance \cup {None}]
    /\ misled \subseteq Key

Init ==
    /\ file = [p \in Peer |-> None]
    /\ token = [p \in Peer |-> None]
    /\ command = [c \in Command |-> None]
    /\ process = [i \in Instance |-> "new"]
    /\ label = [i \in Instance |-> None]
    /\ fresh = [i \in Instance |-> FALSE]
    /\ message = [k \in Key |-> None]
    /\ tombstone = {}
    /\ presented = [k \in Key |-> None]
    /\ accepted = [k \in Key |-> 0]
    /\ reader = [k \in Key |-> None]
    /\ acker = [k \in Key |-> None]
    /\ misled = {}

(***************************************************************************)
(* enroll: the credential file is published first, then the row.  A        *)
(* command that dies in between is made good by running another.           *)
(***************************************************************************)
\* Mutant: the file is replaced instead of linked.
ReplaceCredential(c, p) ==
    /\ command[c] = None
    /\ file' = [file EXCEPT ![p] = c]
    /\ command' = [command EXCEPT ![c] = <<p, c>>]
    /\ UNCHANGED <<token, presence, mail, history>>
\* _publish_credential: a link never replaces the token that is there
PublishCredential(c, p) ==
    /\ command[c] = None
    /\ file' = [file EXCEPT ![p] = IF @ = None THEN c ELSE @]
    /\ command' = [command EXCEPT ![c] = <<p, file'[p]>>]
    /\ UNCHANGED <<token, presence, mail, history>>

EnrollPeer(c, p, t) ==
    /\ command[c] = <<p, t>>
    /\ token[p] = None
    /\ \A q \in Peer : token[q] # t
    /\ token' = [token EXCEPT ![p] = t]
    /\ UNCHANGED <<file, command, presence, mail, history>>

(***************************************************************************)
(* Instances.  A process that dies leaves its presence row behind.         *)
(***************************************************************************)
Serving(i) == process[i] = "serving"

\* _serve: the credential is read, the labels are bound, presence begins
Serve(i, l) ==
    /\ process[i] = "new"
    /\ token[PeerOf[i]] # None /\ file[PeerOf[i]] = token[PeerOf[i]]
    /\ process' = [process EXCEPT ![i] = "serving"]
    /\ label' = [label EXCEPT ![i] = l]
    /\ fresh' = [fresh EXCEPT ![i] = TRUE]
    /\ UNCHANGED <<enrollment, mail, history>>

Heartbeat(i) ==
    /\ Serving(i) /\ ~fresh[i]
    /\ fresh' = [fresh EXCEPT ![i] = TRUE]
    /\ UNCHANGED <<enrollment, process, label, mail, history>>

\* 60 s without a renewal, of a process that is stopped, slow, or dead
Lapse(i) ==
    /\ fresh[i]
    /\ fresh' = [fresh EXCEPT ![i] = FALSE]
    /\ UNCHANGED <<enrollment, process, label, mail, history>>

Disconnect(i) ==
    /\ Serving(i)
    /\ process' = [process EXCEPT ![i] = "gone"]
    /\ fresh' = [fresh EXCEPT ![i] = FALSE]
    /\ UNCHANGED <<enrollment, label, mail, history>>

Crash(i) ==
    /\ Serving(i)
    /\ process' = [process EXCEPT ![i] = "gone"]
    /\ UNCHANGED <<enrollment, label, fresh, mail, history>>

(***************************************************************************)
(* Who is live: a fresh row whose process is there.  The operating system  *)
(* may decline to say (Unsure), and then everything is refused.            *)
(***************************************************************************)
Rows(p) == {i \in Instance : PeerOf[i] = p /\ fresh[i]}
Live(p) == {i \in Rows(p) : Serving(i)}
Unsure(p) == Rows(p) # {}
Sole(p, i) == Live(p) = {i}

(***************************************************************************)
(* send, by the peer of a serving instance.                                *)
(***************************************************************************)
Pending(p) == {d \in Delivery : message[<<p, d>>] # None /\ ~message[<<p, d>>].acked}
Used(p, d) == \/ message[<<p, d>>] # None
              \/ <<p, d>> \in tombstone
              \/ d \in Legacy
MaySend(i, p) == Serving(i) /\ Scope[PeerOf[i]] = Scope[p] /\ token[p] # None
Fits(i, pin) == pin = None \/ label[i] = pin

Send(i, p, d, pin) ==
    /\ MaySend(i, p)
    /\ ~Used(p, d)
    /\ \E j \in Instance : Sole(p, j) /\ Fits(j, pin)
    /\ Cardinality(Pending(p)) < MaxPending
    /\ message' = [message EXCEPT ![<<p, d>>] =
                     [pin |-> pin, acked |-> FALSE]]
    /\ accepted' = [accepted EXCEPT ![<<p, d>>] = @ + 1]
    /\ UNCHANGED <<enrollment, presence, tombstone, presented, reader, acker, misled>>

Deny(p, d) ==
    /\ misled' = IF accepted[<<p, d>>] > 0 THEN misled \cup {<<p, d>>} ELSE misled
    /\ UNCHANGED <<enrollment, presence, mail, accepted, reader, acker>>

\* Mutant: presence is looked at before the ID.
DenyFirst(i, p, d, pin) ==
    /\ MaySend(i, p)
    /\ \/ Unsure(p)
       \/ ~\E j \in Instance : Sole(p, j) /\ Fits(j, pin)
       \/ Cardinality(Pending(p)) >= MaxPending
    /\ Deny(p, d)
\* PeerOffline and MailboxFull: "no message was accepted"
SendDenied(i, p, d, pin) ==
    /\ MaySend(i, p)
    /\ ~Used(p, d)
    /\ \/ Unsure(p)
       \/ ~\E j \in Instance : Sole(p, j) /\ Fits(j, pin)
       \/ Cardinality(Pending(p)) >= MaxPending
    /\ Deny(p, d)

(***************************************************************************)
(* inbox and wait, acknowledge.  What is returned is presented, whether or *)
(* not the reply arrives; a limit returns only some of it.                 *)
(***************************************************************************)
Visible(i) == {d \in Pending(PeerOf[i]) : Fits(i, message[<<PeerOf[i], d>>].pin)}

Inbox(i, D) ==
    /\ Sole(PeerOf[i], i)
    /\ D \subseteq Visible(i) /\ D # {}
    /\ presented' = [k \in Key |-> IF k \in {PeerOf[i]} \X D
                                   THEN <<i, label[i]>> ELSE presented[k]]
    /\ reader' = [k \in Key |-> IF k \in {PeerOf[i]} \X D THEN i ELSE reader[k]]
    /\ UNCHANGED <<enrollment, presence, message, tombstone, accepted, acker, misled>>

(***************************************************************************)
(* The end of acknowledge: all but the MaxRetained messages with the       *)
(* latest wall-clock times of acknowledgement go, their IDs stay.  The     *)
(* clock may have been set back, so that any of them may be the latest.    *)
(***************************************************************************)
\* Mutant: the pruning forgets that unread messages are not history.
Stored(p) == {d \in Delivery : message[<<p, d>>] # None}
Acked(p) == {d \in Delivery : message[<<p, d>>] # None /\ message[<<p, d>>].acked}

\* Mutant: the IDs of pruned messages are not kept.
PruneForgetting(p, d, keep) ==
    /\ keep \subseteq Acked(p) \cup {d}
    /\ Cardinality(keep) <= MaxRetained
    /\ keep # Acked(p) \cup {d} => Cardinality(keep) = MaxRetained
    /\ message' = [k \in Key |->
         IF k \in {p} \X ((Acked(p) \cup {d}) \ keep) THEN None
         ELSE IF k = <<p, d>> THEN [message[k] EXCEPT !.acked = TRUE] ELSE message[k]]
    /\ UNCHANGED tombstone
Prune(p, d, keep) ==
    /\ keep \subseteq Acked(p) \cup {d}
    /\ Cardinality(keep) <= MaxRetained
    /\ keep # Acked(p) \cup {d} => Cardinality(keep) = MaxRetained
    /\ message' = [k \in Key |->
         IF k \in {p} \X ((Acked(p) \cup {d}) \ keep) THEN None
         ELSE IF k = <<p, d>> THEN [message[k] EXCEPT !.acked = TRUE] ELSE message[k]]
    /\ tombstone' = tombstone \cup ({p} \X ((Acked(p) \cup {d}) \ keep))

\* Mutant: a message is acknowledged by whoever is current.
AckUnseen(i, d, keep) ==
    /\ Sole(PeerOf[i], i)
    /\ d \in Visible(i)
    /\ Prune(PeerOf[i], d, keep)
    /\ presented' = [presented EXCEPT ![<<PeerOf[i], d>>] = None]
    /\ acker' = [acker EXCEPT ![<<PeerOf[i], d>>] = i]
    /\ UNCHANGED <<enrollment, presence, accepted, reader, misled>>
Acknowledge(i, d, keep) ==
    /\ Sole(PeerOf[i], i)
    /\ d \in Visible(i)
    /\ presented[<<PeerOf[i], d>>] = <<i, label[i]>>
    /\ Prune(PeerOf[i], d, keep)
    /\ presented' = [presented EXCEPT ![<<PeerOf[i], d>>] = None]
    /\ acker' = [acker EXCEPT ![<<PeerOf[i], d>>] = i]
    /\ UNCHANGED <<enrollment, presence, accepted, reader, misled>>

Next ==
    \/ \E c \in Command, p \in Peer : PublishCredential(c, p)
    \/ \E c, t \in Command, p \in Peer : EnrollPeer(c, p, t)
    \/ \E i \in Instance, l \in Pin : Serve(i, l)
    \/ \E i \in Instance : Heartbeat(i) \/ Lapse(i) \/ Disconnect(i) \/ Crash(i)
    \/ \E i \in Instance, p \in Peer, d \in Delivery, pin \in Pin :
          \/ Send(i, p, d, pin)
          \/ SendDenied(i, p, d, pin)
    \/ \E i \in Instance, D \in SUBSET Delivery : Inbox(i, D)
    \/ \E i \in Instance, d \in Delivery, keep \in SUBSET Delivery :
          Acknowledge(i, d, keep)

Spec == Init /\ [][Next]_vars

(***************************************************************************)
(* Properties.                                                             *)
(***************************************************************************)
\* A delivery ID is accepted at most once per recipient, over every retry,
\* pruning and change of the instance that serves the recipient ("Accept text
\* once per delivery ID, including after history pruning", send).
MailAcceptedOnce == \A k \in Key : accepted[k] <= 1

\* A message is acknowledged by the instance it was returned to last: never by
\* a replaced instance, nor by its replacement before that has read it, even
\* when presence lapses and comes back (acknowledge).
AckedByReader == \A k \in Key : acker[k] # None => acker[k] = reader[k]

\* Who is told that no message was accepted may send to somebody else: the ID
\* had not been accepted before, though the caller may not have seen the reply
\* (send, PeerOffline and MailboxFull).
MailDenialHonest == misled = {}

\* An accepted message stays in the mailbox until an instance it was returned
\* to has acknowledged it; afterwards its ID stays taken.
NothingLost ==
    \A k \in Key : accepted[k] > 0 =>
       \/ message[k] # None /\ (message[k].acked => acker[k] # None)
       \/ k \in tombstone /\ acker[k] # None

\* The credential file an enrolled peer is served with is the one its row was
\* enrolled with, whatever enroll commands race, die or are run again
\* (peer_cli.py _publish_credential).
CredentialOpens == \A p \in Peer : token[p] # None => file[p] = token[p]
==============================================================================
