----------------------------- MODULE MCUploads -------------------------------
(***************************************************************************)
(* Files of this computer: uploads into them (Uploads), the file tools     *)
(* (FileTools), and the workbooks inside them.  One behaviour runs one of  *)
(* the three, the others stay in their initial states.                     *)
(***************************************************************************)
EXTENDS Uploads, TLC
CONSTANTS t1, t2, a, d1, d2, b1, b2
\* two callers that want the same destination, and a parent path that may
\* lead to another directory and back
Transfers == {t1, t2}
Paths == {a}
Dirs == {d1, d2}
\* either upload may be sent the other's block
Blocks == {b1, b2}
Contents == {<<b1>>, <<b2>>}
Symmetric == Permutations(Transfers) \cup Permutations(Dirs) \cup Permutations(Blocks)

\* Two calls on a file that has two names, beside a symbolic link to another.
Names == {"f", "alias", "link"}
Resolved == [n \in Names |-> IF n = "link" THEN "g" ELSE "f"]

\* Workbooks with one or two cells in the first sheet: plain and rich strings, shared
\* or not, at two addresses; sheets that share a name or a part; tables of strings
\* that differ.  Columns have names of up to three letters of an alphabet of two.
Texts == {"x", "y"}
Addresses == [letters : {<<0>>, <<1>>}, row : {1}]
Plain == [at : Addresses, type : {"n", "inlineStr"}, text : {"x"}, index : {0}, plain : {TRUE}]
Cells == Plain
    \cup [at : Addresses, type : {"s"}, text : {"x"}, index : 0..2, plain : BOOLEAN]
    \cup [at : Addresses, type : {"inlineStr"}, text : {"y"}, index : {0}, plain : BOOLEAN]
StringTables ==
    {<<[text |-> "x", plain |-> TRUE], [text |-> "y", plain |-> FALSE]>>,
     <<[text |-> "y", plain |-> TRUE], [text |-> "x", plain |-> TRUE]>>}
Named(name, part) == [name |-> name, part |-> part]
Workbooks ==
    [sheets : {<<Named("s", 1)>>, <<Named("s", 1), Named("t", 2)>>,
               <<Named("s", 1), Named("t", 1)>>, <<Named("s", 1), Named("s", 2)>>},
     cells : {<<first, <<other>>>> : first \in UNION {[1..k -> Cells] : k \in {1, 2}},
                                     other \in Plain},
     tables : UNION {[1..k -> StringTables] : k \in 0..2},
     fixed : {FALSE}]
RowTexts == {<<r>> : r \in [1..7 -> {"x", None}]} \cup {<<r, q>> : r, q \in [1..2 -> Texts \cup {None}]}

VARIABLES part, content, saved, locked, call, load, changes, displaced, book, edited, made
toolVars == <<content, saved, locked, call, load, changes, displaced>>
bookVars == <<book, edited, made>>
Tools == INSTANCE FileTools
    WITH file <- content, PathName <- Names, Real <- Resolved, Links <- {"link"}, ToolCall <- Transfers, Line <- Blocks,
         MaxLines <- 2, Outside <- 1, Books <- Workbooks, Rows <- RowTexts, Text <- Texts,
         SizeOf <- [t \in Texts |-> IF t = "x" THEN 1 ELSE 5],
         Letters <- 2, MaxColumn <- 7, PageSize <- 4

PartInit ==
    /\ part \in {"uploads", "tools", "books"}
    /\ Init
    /\ Tools!FilesInit /\ content["g"] = None /\ (part # "tools" => content["f"] = None)
    /\ Tools!BooksInit /\ (part # "books" => book = None)

\* The parent path leads elsewhere, or a staging file is replaced, not both.
OneIntrusion == ~ moved \/ altered = {}

PartNext ==
    /\ UNCHANGED part
    /\ \/ part = "uploads" /\ Next /\ OneIntrusion' /\ UNCHANGED <<toolVars, bookVars>>
       \/ part = "tools" /\ Tools!FilesNext /\ UNCHANGED <<vars, bookVars>>
       \/ part = "books" /\ Tools!BooksNext /\ UNCHANGED <<vars, toolVars>>
       \* the calls and the edit of a behaviour come to an end
       \/ part \in {"tools", "books"} /\ UNCHANGED <<vars, toolVars, bookVars>>

PartSpec == PartInit /\ [][PartNext]_<<part, vars, toolVars, bookVars>>

\* Files, and the workbooks in them, change as the callers of the tools were told (see
\* FileTools): no update is lost, what was replaced is kept, an edit changes one thing.
FilesKept ==
    /\ Tools!NoLostUpdate /\ Tools!BackedUp /\ Tools!EditsFromRead
    /\ Tools!WholeDownload /\ Tools!HashesHonest
    /\ Tools!EditExact /\ Tools!CreatedReads /\ Tools!PagesCover
==============================================================================
