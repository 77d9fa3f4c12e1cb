---------------------------- MODULE MCDeviceSave -----------------------------
(***************************************************************************)
(* Files between a Chat account and devices: saves of files of answers to  *)
(* a device (DeviceSave), and uploads of local files to the Library        *)
(* (LibraryUpload).  They share no state: one behaviour runs one of them,  *)
(* the other stays in its initial state.                                   *)
(***************************************************************************)
EXTENDS DeviceSave, TLC
CONSTANTS
    \* the uploads to the Library
    LibraryOps, LibraryPaths, LibraryBytes, LibraryCalls, Batches, NoBytes,
    \* members of the sets of the instance that is checked
    t1, a, d1, r1, r2, b1, b2
ASSUME LibraryAssumption ==
    /\ LibraryBytes # {} /\ NoBytes \notin LibraryBytes
    /\ Batches \subseteq Seq(LibraryOps) \ {<<>>}
Transfers == {t1}
Paths == {a}
Dirs == {d1}
Runners == {r1, r2}
\* The calls that upload to the Library have the names of the runners of saves.
\* the source may have changed between two downloads
Blocks == {b1, b2}
Contents == {<<b1>>, <<b2, b1>>}
Symmetric == Permutations(Runners)

VARIABLES part, local, reserved, uploader, library, given

\* Two operation IDs, one or both uploaded by a call.
OneOrBoth == {<<1>>, <<1, 2>>}
Library == INSTANCE LibraryUpload
    WITH source <- local, row <- reserved, Ops <- LibraryOps, Paths <- LibraryPaths,
         Content <- LibraryBytes, Calls <- LibraryCalls
libraryVars == <<local, reserved, uploader, library, given>>

FilesInit ==
    /\ part \in {"saves", "library"}
    /\ SaveInit
    /\ Library!LibraryInit
    \* the part at rest needs one initial state
    /\ part # "library" => local = [p \in LibraryPaths |-> CHOOSE c \in LibraryBytes : TRUE]

FilesNext ==
    /\ UNCHANGED part
    /\ \/ part = "saves" /\ SaveNext /\ UNCHANGED libraryVars
       \/ part = "library" /\ Library!LibraryNext /\ UNCHANGED <<vars, saveVars>>

FilesSpec == FilesInit /\ [][FilesNext]_<<part, vars, saveVars, libraryVars>>

\* No write of a save is sent to its device twice and what its journal calls saved has
\* been published; no prepared file is given to the browser twice, whatever was retried
\* (see DeviceSave, LibraryUpload).
TransferredOnce == WrittenOnce /\ SavedIsPublished /\ Library!UploadedOnce
==============================================================================
