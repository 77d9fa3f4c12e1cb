------------------------------ MODULE DeviceSave ------------------------------
(***************************************************************************)
(* subchat_save_file (subchat_device_save.py with its adapters): a file of *)
(* a Chat answer is brought to a selected device by SaveRunners, which may *)
(* die, lose their lease, or be replaced at any point, through the uploads *)
(* of that device (Uploads).                                               *)
(*                                                                         *)
(* One save is modelled, from the claim of its ID; its journal row is      *)
(* shared by runners of several processes, so that every transaction of    *)
(* the journal and every await of the runner is a step.  A call to the     *)
(* device is carried out at most once, possibly when its caller is gone;   *)
(* its reply tells the runner nothing.  A chunk carries one block.         *)
(***************************************************************************)
EXTENDS Uploads

CONSTANTS Save,    \* the transfer of the save
          Target,  \* its destination
          Runner

\* a file that can be saved fits into what a device reserves for uploads
ASSUME SaveAssumption ==
    /\ Save \in Transfer /\ Target \in Path
    /\ \A c \in Content : Len(c) <= MaxBytes

VARIABLES
    stage,    \* subchat_device_saves.stage, "none" before the claim
    pending,  \* target_operation_id: a write without a known outcome
    source,   \* bytes_total and sha256 of the verified source
    steps,    \* subchat_device_save_steps.state
    lease,    \* holder of the lease
    spool,    \* the private copy of the source
    run,      \* the runners
    wire,     \* writes under way to the device
    sent      \* history: how often a write was sent

journal == <<stage, pending, source, steps, lease>>
saveVars == <<stage, pending, source, steps, lease, spool, run, wire, sent>>

Offset == 0..MaxBytes
Begun == <<"begin", 0>>
Committed == <<"commit", 0>>
Writes == {Begun, Committed} \cup ({"chunk"} \X Offset)
\* what the device has received once the write took effect
End(w) == IF w[1] = "chunk" THEN w[2] + 1 ELSE 0

Stage == {"none", "claimed", "source_verified", "uploading", "commit_unknown",
          "completed"}
\* upload_status as the runner sees it
Seen == [state : {"receiving", "complete", "unknown", "over"}, received : Offset]
Idle == [phase |-> "idle", stage |-> "none", pending |-> None, content |-> None,
         seen |-> None, write |-> None]
RunPhase == {"idle", "claimed", "leased", "downloading", "downloaded", "spooled",
             "verified", "beginning", "asking", "allowed", "observed", "writing",
             "dispatched", "cleared", "calling"}

\* the marker is not data
ASSUME MarkerAssumption == None \notin Writes \cup Content \cup Seen \cup Runner

SaveTypeOK ==
    /\ stage \in Stage
    /\ pending \in Writes \cup {None}
    /\ source \in Content \cup {None}
    /\ steps \in [Writes -> {"absent", "unknown", "verified"}]
    /\ lease \in Runner \cup {None}
    /\ spool \in Content \cup {None}
    /\ run \in [Runner -> [phase : RunPhase, stage : Stage,
                           pending : Writes \cup {None}, content : Content \cup {None},
                           seen : Seen \cup {None}, write : Writes \cup {None}]]
    /\ wire \subseteq Writes \X Content
    /\ sent \in [Writes -> Nat]
    /\ (stage \in {"none", "claimed"}) = (source = None)
    /\ (stage = "commit_unknown") => pending = Committed

SaveInit ==
    /\ Init
    /\ stage = "none" /\ pending = None /\ source = None /\ lease = None
    /\ steps = [w \in Writes |-> "absent"]
    /\ spool = None
    /\ run = [r \in Runner |-> Idle]
    /\ wire = {}
    /\ sent = [w \in Writes |-> 0]

Is(r, p) == run[r].phase = p
Goto(r, p) == run' = [run EXCEPT ![r].phase = p]

(***************************************************************************)
(* advance, up to the lease.                                               *)
(***************************************************************************)
ClaimSave(r) ==
    /\ Is(r, "idle")
    /\ stage' = IF stage = "none" THEN "claimed" ELSE stage
    /\ Goto(r, "claimed")
    /\ UNCHANGED <<pending, source, steps, lease, spool, wire, sent>>

AcquireLease(r) ==
    /\ Is(r, "claimed")
    /\ lease = None
    /\ lease' = r
    /\ Goto(r, "leased")
    /\ UNCHANGED <<stage, pending, source, steps, spool, wire, sent>>

\* every 10 s, and also when it lapsed and nobody else holds it now
RefreshLease(r) ==
    /\ run[r].phase \notin {"idle", "claimed"}
    /\ lease = None
    /\ lease' = r
    /\ UNCHANGED <<stage, pending, source, steps, spool, run, wire, sent>>

\* 30 s without a refresh: the process, its machine or the loop stood still
LapseLease ==
    /\ lease # None
    /\ lease' = None
    /\ UNCHANGED <<stage, pending, source, steps, spool, run, wire, sent>>

(***************************************************************************)
(* _advance_locked: what is to be done next by the row as it is read here. *)
(***************************************************************************)
NextPhase ==
    IF stage = "claimed" THEN "downloading"
    ELSE IF stage = "source_verified" THEN "beginning" ELSE "asking"
Snapshot(r, c) ==
    run' = [run EXCEPT ![r] = [Idle EXCEPT !.phase = NextPhase, !.stage = stage,
                                           !.pending = pending, !.content = c]]

ReadRow(r) ==
    /\ Is(r, "leased")
    /\ stage # "completed"
    /\ stage # "claimed" => spool = source       \* _read_spool
    /\ Snapshot(r, IF stage = "claimed" THEN None ELSE source)
    /\ UNCHANGED <<journal, spool, wire, sent>>

\* _source: the last part arrived
Download(r) ==
    /\ Is(r, "downloading")
    /\ \E c \in Content :
          run' = [run EXCEPT ![r].phase = "downloaded", ![r].content = c]
    /\ UNCHANGED <<journal, spool, wire, sent>>

WriteSpool(r) ==
    /\ Is(r, "downloaded")
    /\ spool' = run[r].content
    /\ Goto(r, "spooled")
    /\ UNCHANGED <<journal, wire, sent>>

VerifiedSource(r) ==
    /\ Is(r, "spooled")
    /\ stage = "claimed"
    /\ stage' = "source_verified"
    /\ source' = run[r].content
    /\ Goto(r, "verified")
    /\ UNCHANGED <<pending, steps, lease, spool, wire, sent>>

ReadRowAgain(r) ==
    /\ Is(r, "verified")
    /\ stage # "completed"
    /\ Snapshot(r, run[r].content)
    /\ UNCHANGED <<journal, spool, wire, sent>>

(***************************************************************************)
(* Writes to the device: dispatched, then authorized, then called.         *)
(***************************************************************************)
\* Mutant: a write that was recorded before is recorded once more.
DispatchAgain(r, w, from, to) ==
    /\ stage \in from
    /\ stage' = to
    /\ pending' = w
    /\ steps' = [steps EXCEPT ![w] = "unknown"]
    /\ run' = [run EXCEPT ![r] = [@ EXCEPT !.phase = "dispatched", !.write = w]]
    /\ UNCHANGED <<source, lease, spool, wire, sent>>
\* dispatched: the write is recorded; its ID is unique
Dispatch(r, w, from, to) ==
    /\ stage \in from
    /\ pending = None
    /\ steps[w] = "absent"
    /\ stage' = to
    /\ pending' = w
    /\ steps' = [steps EXCEPT ![w] = "unknown"]
    /\ run' = [run EXCEPT ![r] = [@ EXCEPT !.phase = "dispatched", !.write = w]]
    /\ UNCHANGED <<source, lease, spool, wire, sent>>

DispatchBegin(r) ==
    /\ Is(r, "beginning")
    /\ Dispatch(r, Begun, {"source_verified", "uploading"}, "uploading")

Rest(r) == run[r].seen.received < Len(run[r].content)
DispatchChunk(r) ==
    /\ Is(r, "writing") /\ Rest(r)
    /\ Dispatch(r, <<"chunk", run[r].seen.received>>,
                {"source_verified", "uploading"}, "uploading")

DispatchCommit(r) ==
    /\ Is(r, "writing") /\ ~Rest(r)
    /\ Dispatch(r, Committed, {"uploading"}, "commit_unknown")

\* _authorized: the lease is looked at before the grant and the route are
Authorize(r) ==
    /\ Is(r, "dispatched")
    /\ lease = r
    /\ Goto(r, "cleared")
    /\ UNCHANGED <<journal, spool, wire, sent>>

Send(r) ==
    /\ Is(r, "cleared")
    /\ wire' = wire \cup {<<run[r].write, run[r].content>>}
    /\ sent' = [sent EXCEPT ![run[r].write] = @ + 1]
    /\ Goto(r, "calling")
    /\ UNCHANGED <<journal, spool>>

\* The end of advance, with or without a result: a refusal, an error, the
\* reply of a write, or death; the lease is released or left to lapse.
Return(r) ==
    /\ ~Is(r, "idle")
    /\ run' = [run EXCEPT ![r] = Idle]
    /\ lease' \in {lease, IF lease = r THEN None ELSE lease}
    /\ UNCHANGED <<stage, pending, source, steps, spool, wire, sent>>

(***************************************************************************)
(* The status of the upload decides what an uncertain write has done.      *)
(***************************************************************************)
AuthorizeStatus(r) ==
    /\ Is(r, "asking")
    /\ lease = r
    /\ Goto(r, "allowed")
    /\ UNCHANGED <<journal, spool, wire, sent>>

PublicState == CASE row[Save].state = "publishing" -> "unknown"
                 [] row[Save].state \in {"aborted", "discarded"} -> "over"
                 [] OTHER -> row[Save].state
\* _describe; the received length stays when the chunks go
Received == IF row[Save].state \in {"receiving", "aborted", "discarded"}
            THEN Len(row[Save].chunks) ELSE Size(Save)
\* a missing upload and a status that fails look alike
Observe(r) ==
    /\ Is(r, "allowed")
    /\ \E o \in {None} \cup
          (IF Known(Save) /\ row[Save].content = run[r].content
           THEN {[state |-> PublicState, received |-> Received]} ELSE {}) :
          run' = [run EXCEPT ![r].phase = "observed", ![r].seen = o]
    /\ UNCHANGED <<journal, spool, wire, sent>>

\* nothing was uncertain when the row was read
NothingPending(r) ==
    /\ Is(r, "observed") /\ run[r].stage = "uploading" /\ run[r].pending = None
    /\ run[r].seen # None /\ run[r].seen.state = "receiving"
    /\ Goto(r, "writing")
    /\ UNCHANGED <<journal, spool, wire, sent>>

TookEffect(o, w) == o.received >= End(w)
\* reconciled, of a begin or a chunk
Reconcile(r) ==
    /\ Is(r, "observed") /\ run[r].stage = "uploading" /\ run[r].pending # None
    /\ run[r].seen # None /\ run[r].seen.state = "receiving"
    /\ TookEffect(run[r].seen, run[r].pending)
    /\ stage = "uploading" /\ pending = run[r].pending
    /\ pending' = None
    /\ steps' = [steps EXCEPT ![pending] = "verified"]
    /\ Goto(r, "writing")
    /\ UNCHANGED <<stage, source, lease, spool, wire, sent>>

\* Mutant: an uncertain publication is taken for a finished one.
CompleteOrUnknown == {"complete", "unknown"}
Published == {"complete"}
\* reconciled, of the commit
ReconcileCommit(r) ==
    /\ Is(r, "observed") /\ run[r].stage = "commit_unknown"
    /\ run[r].seen # None /\ run[r].seen.state \in Published
    /\ stage = "commit_unknown" /\ pending = run[r].pending
    /\ stage' = "completed"
    /\ steps' = [steps EXCEPT ![pending] = "verified"]
    /\ run' = [run EXCEPT ![r] = Idle]
    /\ lease' \in {lease, IF lease = r THEN None ELSE lease}
    /\ UNCHANGED <<pending, source, spool, wire, sent>>

(***************************************************************************)
(* The device: a write arrives once or never, and may be refused.          *)
(***************************************************************************)
Arrive(m) == m \in wire /\ wire' = wire \ {m} /\ UNCHANGED <<journal, spool, run, sent>>

Effect(w, c) ==
    \/ w = Begun /\ Begin(Save, Target, c)
    \/ w[1] = "chunk" /\ w[2] = Len(row[Save].chunks) /\ Chunk(Save, c[w[2] + 1])
    \/ w = Committed /\ CommitStart(Save)

Serve(m) ==
    /\ Arrive(m)
    /\ m[1] # Begun => Known(Save)
    /\ Effect(m[1], m[2])

Refuse(m) == Arrive(m) /\ UNCHANGED <<row, task, disk, links>>

\* the rest of commit, its errors, and the device's crashes
Commit ==
    \/ NameStaging(Save)
    \/ OpenStaging(Save)
    \/ WriteStaging(Save)
    \/ SaveIntent(Save)
    \/ ParentStays(Save)
    \/ Link(Save)
    \/ VerifyPublication(Save)
    \/ Finish(Save)
    \/ Stop(Save)

\* the owner of the device, who sees every transfer (transfer_admin.py)
Owner ==
    \/ Abort(Save)
    \/ ConfirmCheck(Save)
    \/ ConfirmSave(Save)
    \/ Discard(Save)

Advance(r) ==
    \/ ClaimSave(r)
    \/ AcquireLease(r)
    \/ RefreshLease(r)
    \/ ReadRow(r)
    \/ Download(r)
    \/ WriteSpool(r)
    \/ VerifiedSource(r)
    \/ ReadRowAgain(r)
    \/ DispatchBegin(r)
    \/ DispatchChunk(r)
    \/ DispatchCommit(r)
    \/ Authorize(r)
    \/ Send(r)
    \/ AuthorizeStatus(r)
    \/ Observe(r)
    \/ NothingPending(r)
    \/ Reconcile(r)
    \/ ReconcileCommit(r)
    \/ Return(r)

SaveNext ==
    \/ ((\E r \in Runner : Advance(r)) \/ LapseLease) /\ UNCHANGED vars
    \/ (\E m \in wire : Serve(m) \/ Refuse(m)) /\ Witness
    \/ (Commit \/ Owner \/ FileSystem) /\ Witness /\ UNCHANGED saveVars

SaveSpec == SaveInit /\ [][SaveNext]_<<vars, saveVars>>

(***************************************************************************)
(* Properties.                                                             *)
(***************************************************************************)
\* A write is sent to the device at most once, whatever crashes, lost
\* replies, lapsed leases and runners that took over do; the write that is
\* under way is the one the journal calls uncertain.
WrittenOnce ==
    /\ \A w \in Writes : sent[w] <= 1
    /\ \A m \in wire : m[1] = pending

\* What the journal calls verified has taken effect on the device, even if
\* the call that did it was never answered.
VerifiedTookEffect ==
    \A w \in Writes : steps[w] = "verified" =>
       /\ Known(Save) /\ row[Save].content = source
       /\ w[1] = "chunk" /\ In(Save, "receiving") => Len(row[Save].chunks) >= End(w)
       /\ w = Committed => In(Save, "complete")

\* A save that is completed belongs to an upload of the verified source to its
\* destination that stood there while it was uncertain, and of which the
\* device published one copy at most.
SavedIsPublished ==
    stage = "completed" =>
       /\ In(Save, "complete") /\ Save \in stood
       /\ row[Save].content = source /\ row[Save].path = Target
       /\ links[Save] <= 1
==============================================================================
