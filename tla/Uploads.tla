------------------------------- MODULE Uploads -------------------------------
(***************************************************************************)
(* Uploads (uploads.py): the registry of staged uploads of one agent, the  *)
(* files they stage and publish, and the file system around them.          *)
(*                                                                         *)
(* The content of an upload is a sequence of blocks, its length and digest *)
(* are the content itself.  All destinations lie in directories reached by *)
(* one path; "current" is the directory that path leads to now.  Publishing*)
(* walks through the phases of commit between its durable writes and its   *)
(* system calls; the ProcessLocks of the transfer and of the destination   *)
(* are held from the first phase to the last and freed when a process dies.*)
(***************************************************************************)
EXTENDS Naturals, Sequences, FiniteSets, FiniteSetsExt

CONSTANTS Transfer,    \* transfer IDs of the callers
          Path,        \* destination names
          Dir,         \* directories the parent path may lead to
          Block,       \* what one chunk can hold
          Content,     \* contents an upload may declare
          MaxUploads,  \* 8 active uploads
          MaxBytes,    \* 4 GiB reserved by active uploads
          MaxTries,    \* bound on the staging names of one upload
          None,        \* no row, no file, nobody
          Other        \* content no upload declares

ASSUME UploadAssumption ==
    /\ Content \subseteq Seq(Block) /\ Other \notin Content
    /\ IsFiniteSet(Transfer) /\ None \notin Transfer
    /\ None \notin (Content \cup {Other}) \X (Transfer \cup {None})
    /\ MaxUploads \in Nat /\ MaxBytes \in Nat /\ MaxTries \in Nat

VARIABLES
    row,      \* the uploads and upload_parents tables
    task,     \* where the call that holds a transfer's lock is
    current,  \* the directory the parent path leads to
    file,     \* the destinations: content and the transfer that made the file
    staging,  \* staging files on disk, numbered per upload
    altered,  \* staging files somebody replaced
    moved,    \* history: the parent path was made to lead elsewhere
    links,    \* history: files an upload created at a destination
    stood     \* history: uploads whose content stood at their destination
              \* while their publication was uncertain

disk == <<current, moved, file, staging, altered>>
vars == <<row, task, current, file, staging, altered, moved, links, stood>>

State == {"receiving", "publishing", "complete", "aborted", "discarded"}
Row == [state : State, path : Path, parent : Dir, content : Content,
        chunks : Seq(Block), temporary : 0..MaxTries]
ASSUME RowAssumption == None \notin Row
Phase == {"none", "opened", "naming", "staging", "staged", "publishing",
          "linking", "linked", "checked", "confirming"}
File == (Content \cup {Other}) \X (Transfer \cup {None})
Name(t) == <<t, row[t].temporary>>

TypeOK ==
    /\ row \in [Transfer -> Row \cup {None}]
    /\ task \in [Transfer -> Phase]
    /\ current \in Dir
    /\ file \in [Dir \X Path -> File \cup {None}]
    /\ staging \subseteq Transfer \X (1..MaxTries)
    /\ altered \subseteq staging
    /\ moved \in BOOLEAN
    /\ links \in [Transfer -> Nat]
    /\ stood \subseteq Transfer

Init ==
    /\ row = [t \in Transfer |-> None]
    /\ task = [t \in Transfer |-> "none"]
    /\ current \in Dir
    /\ file = [w \in Dir \X Path |-> None]
    /\ staging = {} /\ altered = {} /\ moved = FALSE
    /\ links = [t \in Transfer |-> 0]
    /\ stood = {}

Known(t) == row[t] # None
In(t, s) == Known(t) /\ row[t].state = s
Free(t)  == task[t] = "none"
At(t)    == <<row[t].parent, row[t].path>>
\* _parent_path_matches
SameParent(t) == current = row[t].parent

\* a staging file is created, removed or kept; what was replaced goes with it
Staged(s) == staging' = s /\ altered' = altered \cap s
SetState(t, s) == row' = [row EXCEPT ![t].state = s]
\* the end of an upload frees the chunks it has stored
Settle(t, s)   == row' = [row EXCEPT ![t].state = s, ![t].chunks = << >>]
Step(t, p)     == task' = [task EXCEPT ![t] = p]

(***************************************************************************)
(* begin, chunk, abort: one transaction each, under the transfer's lock.   *)
(* Repeating a call, and every refusal, changes nothing.                   *)
(***************************************************************************)
\* Mutant: what is being published is not counted as active.
ReceivingOnly == {t \in Transfer : In(t, "receiving")}
Active == {t \in Transfer : In(t, "receiving") \/ In(t, "publishing")}
Size(t) == Len(row[t].content)
Reservation(A) == MapThenSumSet(Size, A)

Begin(t, p, c) ==
    /\ ~Known(t)
    /\ file[<<current, p>>] = None
    /\ \A u \in Active : row[u].path # p
    /\ Cardinality(Active) < MaxUploads
    /\ Reservation(Active) + Len(c) <= MaxBytes
    /\ row' = [row EXCEPT ![t] =
                 [state |-> "receiving", path |-> p, parent |-> current,
                  content |-> c, chunks |-> << >>, temporary |-> 0]]
    /\ UNCHANGED <<task, disk, links>>

\* the next block, at the offset received so far
Chunk(t, b) ==
    /\ In(t, "receiving") /\ Free(t)
    /\ Len(row[t].chunks) < Size(t)
    /\ row' = [row EXCEPT ![t].chunks = Append(@, b)]
    /\ UNCHANGED <<task, disk, links>>

Abort(t) ==
    /\ In(t, "receiving") /\ Free(t)
    /\ Settle(t, "aborted")
    /\ UNCHANGED <<task, disk, links>>

(***************************************************************************)
(* commit.                                                                 *)
(***************************************************************************)
Complete(t) == Len(row[t].chunks) = Size(t)

\* the parent directory is pinned, and the destination is looked for in it
CommitStart(t) ==
    /\ In(t, "receiving") /\ Free(t)
    /\ Complete(t)
    /\ SameParent(t)
    /\ file[At(t)] = None
    /\ Step(t, "opened")
    /\ UNCHANGED <<row, disk, links>>

\* Mutant: a staging file that was left behind is forgotten.
NothingToLose(t) == TRUE
\* looked for by its path
StagingGone(t) == Name(t) \notin staging \/ ~SameParent(t)

\* the new staging name is saved before there is a file
NameStaging(t) ==
    /\ task[t] = "opened"
    /\ StagingGone(t)
    /\ row[t].temporary < MaxTries
    /\ row' = [row EXCEPT ![t].temporary = @ + 1]
    /\ Step(t, "naming")
    /\ UNCHANGED <<disk, links>>

OpenStaging(t) ==
    /\ task[t] = "naming"
    /\ Staged(staging \cup {Name(t)})
    /\ Step(t, "staging")
    /\ UNCHANGED <<row, current, moved, file, links>>

\* all chunks are written, their digest is right, the file is synced
WriteStaging(t) ==
    /\ task[t] = "staging"
    /\ row[t].chunks = row[t].content
    /\ Step(t, "staged")
    /\ UNCHANGED <<row, disk, links>>

\* Mutant: the intent to publish is not saved.
ForgetIntent(t) ==
    /\ task[t] = "staged"
    /\ Step(t, "publishing")
    /\ UNCHANGED <<row, disk, links>>
SaveIntent(t) ==
    /\ task[t] = "staged"
    /\ SetState(t, "publishing")
    /\ Step(t, "publishing")
    /\ UNCHANGED <<disk, links>>

ParentStays(t) ==
    /\ task[t] = "publishing"
    /\ SameParent(t)
    /\ Step(t, "linking")
    /\ UNCHANGED <<row, disk, links>>

\* os.link in the pinned directory: exclusive, and of whatever has the
\* staging name now
Link(t) ==
    /\ task[t] = "linking"
    /\ file[At(t)] = None /\ Name(t) \in staging
    /\ file' = [file EXCEPT ![At(t)] =
                  IF Name(t) \in altered THEN <<Other, t>> ELSE <<row[t].content, t>>]
    /\ links' = [links EXCEPT ![t] = @ + 1]
    /\ Step(t, "linked")
    /\ UNCHANGED <<row, current, moved, staging, altered>>

\* Mutant: the published file is not looked at again.
TrustLink(t) ==
    /\ task[t] = "linked"
    /\ SameParent(t)
    /\ Step(t, "checked")
    /\ UNCHANGED <<row, disk, links>>
\* _verify_posix_publication: the verified object, with the declared content
VerifyPublication(t) ==
    /\ task[t] = "linked"
    /\ file[At(t)] = <<row[t].content, t>>
    /\ SameParent(t)
    /\ Step(t, "checked")
    /\ UNCHANGED <<row, disk, links>>

\* the staging file may stay behind
Finish(t) ==
    /\ task[t] = "checked"
    /\ Settle(t, "complete")
    /\ \E s \in {staging, staging \ {Name(t)}} : Staged(s)
    /\ Step(t, "none")
    /\ UNCHANGED <<current, moved, file, links>>

\* A check fails, a system call fails, or the process dies: the clean-up
\* removes the staging file or does not get to it.
Stop(t) ==
    /\ ~Free(t)
    /\ \E s \in {staging, staging \ {Name(t)}} :
          /\ task[t] \in {"opened", "naming", "confirming"} => s = staging
          /\ Staged(s)
    /\ Step(t, "none")
    /\ UNCHANGED <<row, current, moved, file, links>>

(***************************************************************************)
(* resolve, of an upload whose publication is uncertain.                   *)
(***************************************************************************)
Matches(t) == file[At(t)] \in {row[t].content} \X (Transfer \cup {None})

ConfirmCheck(t) ==
    /\ In(t, "publishing") /\ Free(t)
    /\ SameParent(t)
    /\ Matches(t)
    /\ Step(t, "confirming")
    /\ UNCHANGED <<row, disk, links>>

ConfirmSave(t) ==
    /\ task[t] = "confirming"
    /\ Settle(t, "complete")
    /\ Step(t, "none")
    /\ UNCHANGED <<disk, links>>

Discard(t) ==
    /\ In(t, "publishing") /\ Free(t)
    /\ Settle(t, "discarded")
    /\ UNCHANGED <<task, disk, links>>

(***************************************************************************)
(* The file system: the agent's own file tools, which take the lock of the *)
(* destination, and everybody else, who does not.                          *)
(***************************************************************************)
Locked(p) == \E t \in Transfer : ~Free(t) /\ row[t].path = p

WriteFile(p) ==
    /\ ~Locked(p)
    /\ file' = [file EXCEPT ![<<current, p>>] = <<Other, None>>]
    /\ UNCHANGED <<row, task, current, moved, staging, altered, links>>

CreateFile(p, c) ==
    /\ file[<<current, p>>] = None
    /\ file' = [file EXCEPT ![<<current, p>>] = <<c, None>>]
    /\ UNCHANGED <<row, task, current, moved, staging, altered, links>>

RemoveFile(p) ==
    /\ file[<<current, p>>] # None
    /\ file' = [file EXCEPT ![<<current, p>>] = None]
    /\ UNCHANGED <<row, task, current, moved, staging, altered, links>>

MoveParent(d) ==
    /\ d # current
    /\ current' = d
    /\ moved' = TRUE
    /\ UNCHANGED <<row, task, file, staging, altered, links>>

ReplaceStaging(t) ==
    /\ task[t] \in {"staged", "publishing", "linking"}
    /\ Name(t) \in staging
    /\ altered' = altered \cup {Name(t)}
    /\ UNCHANGED <<row, task, current, moved, file, staging, links>>

RemoveStaging(n) ==
    /\ n \in staging
    /\ Staged(staging \ {n})
    /\ UNCHANGED <<row, task, current, moved, file, links>>

Call(t) ==
    \/ \E p \in Path, c \in Content : Begin(t, p, c)
    \/ \E b \in Block : Chunk(t, b)
    \/ Abort(t)
    \/ CommitStart(t)
    \/ NameStaging(t)
    \/ OpenStaging(t)
    \/ WriteStaging(t)
    \/ SaveIntent(t)
    \/ ParentStays(t)
    \/ Link(t)
    \/ VerifyPublication(t)
    \/ Finish(t)
    \/ Stop(t)
    \/ ConfirmCheck(t)
    \/ ConfirmSave(t)
    \/ Discard(t)

FileSystem ==
    \/ \E p \in Path : WriteFile(p) \/ RemoveFile(p)
    \/ \E p \in Path, c \in Content : CreateFile(p, c)
    \/ \E d \in Dir : MoveParent(d)
    \/ \E t \in Transfer : ReplaceStaging(t)
    \/ \E n \in staging : RemoveStaging(n)

\* history
Stands(t) == In(t, "publishing") /\ Matches(t)
Witness == stood' = stood \cup {t \in Transfer : Stands(t)'}

Next == ((\E t \in Transfer : Call(t)) \/ FileSystem) /\ Witness

Spec == Init /\ [][Next]_vars

(***************************************************************************)
(* Properties.                                                             *)
(***************************************************************************)
\* One upload creates at most one file, whatever crashes, errors, retries of
\* commit and removals of the file do, and only where begin saw its
\* destination, wherever the path leads later.
PublishedOnce ==
    \A t \in Transfer :
       /\ links[t] <= 1
       /\ \A w \in Dir \X Path :
             file[w] \in {<<c, t>> : c \in Content \cup {Other}} => w = At(t)

\* An upload is reported complete (publication_verified) only if its content
\* stood at its own destination while the publication was uncertain.
CompleteStood == \A t \in Transfer : In(t, "complete") => t \in stood

\* upload_status names every staging file left on the disk, so long as the
\* parent path leads where it did.
StagingKnown == moved \/ \A n \in staging : n = Name(n[1])

\* Two active uploads never have the same destination, and there are never
\* more of them than the limit: an upload whose publication is uncertain keeps
\* its reservation until it is resolved.
Unsettled == {t \in Transfer : In(t, "receiving") \/ In(t, "publishing")}
Reserved ==
    /\ \A t, u \in Unsettled : row[t].path = row[u].path => t = u
    /\ Cardinality(Unsettled) <= MaxUploads
==============================================================================
