----------------------------- MODULE LibraryUpload -----------------------------
(***************************************************************************)
(* Uploads of local files to the Library of a Chat account: the ledger     *)
(* (subchat_upload_state.py), the upload through the browser               *)
(* (subchat_library_upload.py) and its batches (subchat_library_batch.py,  *)
(* subchat_library_mcp.py).                                                *)
(*                                                                         *)
(* The owner prepares an operation ID for the bytes at a path.  A call     *)
(* pins the bytes of its files in memory, opens a page, claims one file    *)
(* and gives it to the page, whose requests it only watches.  Every ledger *)
(* method is one transaction; a call may fail or die between any two.      *)
(*                                                                         *)
(* Left out: the one owner and account of a database, file names, and the  *)
(* claims of single stages, which nothing calls.                           *)
(***************************************************************************)
EXTENDS Naturals, Sequences, FiniteSets

CONSTANTS Ops,     \* operation IDs
          Paths,   \* source paths
          Content, \* what they may hold
          Calls,   \* calls under way, in any process
          Batches, \* sequences of different IDs
          NoBytes

VARIABLES
    source,   \* the content of a path
    row,      \* the row of an ID
    uploader, \* calls: stage, files left, path, pinned bytes, by MCP or command
    library,  \* the provider: "absent", "created", "ready"
    given     \* history: how often, and which, bytes were given for an ID

libraryVars == <<source, row, uploader, library, given>>

NoRow == [content |-> NoBytes, path |-> "none", approved |-> FALSE, claimed |-> FALSE,
          file |-> FALSE, stage |-> "unknown"]
Idle == [stage |-> "idle", todo |-> <<>>, path |-> "none",
         bytes |-> [o \in Ops |-> NoBytes], mcp |-> FALSE]

LibraryInit ==
    /\ source \in [Paths -> Content]
    /\ row = [o \in Ops |-> NoRow]
    /\ uploader = [k \in Calls |-> Idle]
    /\ library = [o \in Ops |-> "absent"]
    /\ given = [o \in Ops |-> <<0, {}>>]

Fits(r, c) == r.content \in {NoBytes, c}

Edit(p, c) ==
    /\ source[p] # c
    /\ source' = [source EXCEPT ![p] = c]
    /\ UNCHANGED <<row, uploader, library, given>>

\* prepare_local_upload: reserve, and authorize_mcp_upload for 15 minutes.
Prepare(o, p) ==
    /\ Fits(row[o], source[p]) /\ ~ row[o].claimed
    /\ row' = [row EXCEPT ![o] = [row[o] EXCEPT !.content = source[p], !.path = p,
                                                !.approved = TRUE]]
    /\ UNCHANGED <<source, uploader, library, given>>

Lapse(o) ==
    /\ row[o].approved
    /\ row' = [row EXCEPT ![o].approved = FALSE]
    /\ UNCHANGED <<source, uploader, library, given>>

Approves(o, p) == row[o].approved /\ row[o].path = p

\* _prepared_payloads, or its equal for one file: the bytes of what is unclaimed.
Pin(k, b, p) ==
    LET files == {b[i] : i \in 1 .. Len(b)}
    IN  /\ uploader[k] = Idle
        /\ \A o \in files : \/ row[o].claimed
                            \/ Approves(o, p) /\ Fits(row[o], source[p])
        /\ uploader' = [uploader EXCEPT ![k] =
             [stage |-> "pinned", todo |-> b, path |-> p, mcp |-> TRUE,
              bytes |-> [o \in Ops |-> IF o \in files /\ ~ row[o].claimed
                                       THEN source[p] ELSE NoBytes]]]
        /\ UNCHANGED <<source, row, library, given>>

\* The owner's command uploads one file, prepared or not.
Command(k, o, p) ==
    /\ uploader[k] = Idle
    /\ row[o].claimed \/ Fits(row[o], source[p])
    /\ uploader' = [uploader EXCEPT ![k] =
         [stage |-> "pinned", todo |-> <<o>>, path |-> p, mcp |-> FALSE,
          bytes |-> [x \in Ops |-> IF x = o /\ ~ row[o].claimed THEN source[p] ELSE NoBytes]]]
    /\ row' = IF row[o].claimed THEN row ELSE [row EXCEPT ![o].content = source[p]]
    /\ UNCHANGED <<source, library, given>>

\* Mutant: what the call saw when it pinned its bytes is still true.
StillUnclaimed(k, o) == TRUE

\* claim_ui_batch looks again.
Unclaimed(k, o) == ~ row[o].claimed

\* The page of the next file is open, and the file claimed, or it was before.
Claim(k) ==
    LET o == Head(uploader[k].todo)
    IN  /\ uploader[k].stage = "pinned" /\ uploader[k].bytes[o] # NoBytes
        /\ uploader[k].mcp => Approves(o, uploader[k].path)
        /\ row' = [row EXCEPT ![o].claimed = TRUE]
        /\ uploader' = [uploader EXCEPT ![k].stage =
                          IF Unclaimed(k, o) THEN "claimed" ELSE "seen"]
        /\ UNCHANGED <<source, library, given>>

\* set_input_files
Give(k) ==
    LET o == Head(uploader[k].todo)
    IN  /\ uploader[k].stage = "claimed"
        /\ given' = [given EXCEPT ![o] = <<@[1] + 1, @[2] \cup {uploader[k].bytes[o]}>>]
        /\ uploader' = [uploader EXCEPT ![k].stage = "given"]
        /\ UNCHANGED <<source, row, library>>

\* The page uploads on its own: the provider creates the file, and makes it ready.
Provide(o) ==
    /\ given[o][1] > 0 /\ library[o] # "ready"
    /\ library' = [library EXCEPT ![o] = IF @ = "absent" THEN "created" ELSE "ready"]
    /\ UNCHANGED <<source, row, uploader, given>>

\* checkpoint_file_id; the bytes and their processing are confirmed after it.
Watch(k) ==
    LET o == Head(uploader[k].todo)
    IN  /\ \/ /\ uploader[k].stage = "given" /\ library[o] # "absent"
              /\ row' = [row EXCEPT ![o].file = TRUE]
              /\ uploader' = [uploader EXCEPT ![k].stage = "created"]
           \/ /\ uploader[k].stage \in {"created", "put"}
              /\ LET to == IF uploader[k].stage = "created" THEN "put" ELSE "processed"
                 IN  /\ row' = [row EXCEPT ![o].stage = IF @ = "ready" THEN @ ELSE to]
                     /\ uploader' = [uploader EXCEPT ![k].stage =
                                       IF to = "put" THEN to ELSE "seen"]
        /\ UNCHANGED <<source, library, given>>

\* Search results name the exact file, or not yet; the next file waits for it.
Observe(k) ==
    LET o == Head(uploader[k].todo)
        found == row[o].file /\ library[o] = "ready"
        rest == Tail(uploader[k].todo)
    IN  /\ \/ uploader[k].stage = "seen"
           \/ uploader[k].stage = "pinned" /\ uploader[k].bytes[o] = NoBytes
        /\ \E r \in {row[o], [row[o] EXCEPT !.stage = IF found THEN "ready" ELSE @]} :
             /\ row' = [row EXCEPT ![o] = r]
             /\ uploader' = [uploader EXCEPT ![k] =
                  IF r.stage = "ready" /\ rest # <<>>
                  THEN [@ EXCEPT !.stage = "pinned", !.todo = rest] ELSE Idle]
        /\ UNCHANGED <<source, library, given>>

\* Also status_local_upload.
Reconcile(o) ==
    /\ row[o].file /\ row[o].stage # "ready" /\ library[o] = "ready"
    /\ row' = [row EXCEPT ![o].stage = "ready"]
    /\ UNCHANGED <<source, uploader, library, given>>

\* An error, a lost response, a cancellation, or the end of the process.
Fail(k) ==
    /\ uploader[k] # Idle
    /\ uploader' = [uploader EXCEPT ![k] = Idle]
    /\ UNCHANGED <<source, row, library, given>>

LibraryNext ==
    \/ \E p \in Paths, c \in Content : Edit(p, c)
    \/ \E o \in Ops : Lapse(o) \/ Provide(o) \/ Reconcile(o) \/ \E p \in Paths : Prepare(o, p)
    \/ \E k \in Calls :
         \/ \E p \in Paths : (\E b \in Batches : Pin(k, b, p)) \/ \E o \in Ops : Command(k, o, p)
         \/ Claim(k) \/ Give(k) \/ Watch(k) \/ Observe(k) \/ Fail(k)

LibrarySpec == LibraryInit /\ [][LibraryNext]_libraryVars

---------------------------------------------------------------------------

\* The bytes of an operation ID are given to the browser at most once, over
\* every call, batch and command, and they are the bytes it was reserved for
\* though the source may be edited at any time; what the ledger calls ready
\* is in the Library.
UploadedOnce ==
    \A o \in Ops : /\ given[o][1] <= 1
                   /\ given[o][2] \subseteq {row[o].content}
                   /\ row[o].stage = "ready" => library[o] = "ready"
=============================================================================
