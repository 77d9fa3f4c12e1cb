------------------------------- MODULE FileTools -------------------------------
(***************************************************************************)
(* The file tools: conditional writes, edits and restores of files that    *)
(* other programs change as well, downloads page by page, moves; and what  *)
(* the document tools read, create and change inside a workbook.           *)
(*                                                                         *)
(* The content of a file is a sequence of lines, its hash the content      *)
(* itself.  A tool call reads, locks, checks, saves a backup and replaces  *)
(* the file in steps of their own; the agent may die between any two.      *)
(***************************************************************************)
EXTENDS Naturals, Sequences, FiniteSets, SequencesExt, FiniteSetsExt

CONSTANTS
    PathName,   \* paths that callers name; a file's own path is one of them
    Real,       \* Real[n]: the path that n resolves to
    Links,      \* the names that are themselves symbolic links
    ToolCall,   \* tool calls that change files
    Line, MaxLines,
    Outside,    \* how often other programs change a file
    Books,      \* workbooks that other programs made
    Rows,       \* rows of texts that callers make workbooks of
    Text,       \* what cells say
    SizeOf,     \* how long an entry of that text is
    Letters,    \* letters of a column's name (26)
    MaxColumn,  \* columns of a worksheet (16384)
    PageSize,   \* bytes of a page of entries (512000)
    None

VARIABLES
    file,       \* of each path: its content, or None
    saved,      \* of each content: its backup is "none", "torn" or "whole"
    locked,     \* of each lock: the call that holds it, or None
    call,       \* of each call: where it is, and what it works with
    load,       \* a download: the read under way, and what the client has so far
    changes,    \* what other programs have changed so far
    displaced,  \* history: the contents that tools replaced
    book,       \* a workbook
    edited,     \* the edit it has had, or None
    made        \* the rows it was created from, or None

fileVars == <<file, saved, locked, call, load, changes, displaced>>

Contents == UNION {[1..k -> Line] : k \in 0..MaxLines}
Files == {Real[n] : n \in PathName}
Locks == PathName \cup Files

NewCall == [at |-> "new", name |-> None, mode |-> "none", data |-> <<>>, expected |-> None,
            source |-> None, original |-> None, late |-> FALSE]
\* got: the blocks read so far; node: the content of the opened file; was: at its opening
NoRead == [f |-> None, node |-> None, was |-> None, got |-> <<>>, changed |-> FALSE]
NoLoad == [read |-> NoRead, digest |-> None, parts |-> <<>>, done |-> FALSE]

FilesInit ==
    /\ file \in [Files -> {None} \cup {<<l>> : l \in Line}]
    /\ saved = [c \in Contents |-> "none"]
    /\ locked = [n \in Locks |-> None]
    /\ call = [c \in ToolCall |-> NewCall]
    /\ load = NoLoad
    /\ changes = 0
    /\ displaced = {}

\* file_mutation_lock: one lock for all the names of a file.
AsNamed(n) == n

LockName(n) == Real[n]

Target(c) == Real[call[c].name]

\* A path was given another content: an open read of it finds that out in the end,
\* and reads what was written if the file was not replaced but written in place.
Seen(f, new, inPlace) ==
    LET r == load.read IN
    IF r.f # f THEN load
    ELSE [load EXCEPT !.read = [r EXCEPT !.changed = TRUE,
                                         !.node = IF inPlace THEN new ELSE @]]
Put(f, new, inPlace) == file' = [file EXCEPT ![f] = new] /\ load' = Seen(f, new, inPlace)

-----------------------------------------------------------------------------
(***************************************************************************)
(* Conditional writes.                                                     *)
(***************************************************************************)
Queue(c, n, mode, data, expected, source) ==
    call' = [call EXCEPT ![c] = [NewCall EXCEPT !.at = "queued", !.name = n, !.mode = mode,
                 !.data = data, !.expected = expected, !.source = source]]

Fresh(c) == call[c].at = "new" /\ UNCHANGED <<file, saved, locked, load, changes, displaced>>

\* None, or the hash of what the file holds, held, or will hold
Expectable(n) == {None, file[Real[n]]} \cup {<<l>> : l \in Line}

Write(c) ==
    /\ Fresh(c)
    /\ \E n \in PathName, mode \in {"create", "replace", "append"}, l \in Line : \E e \in Expectable(n) :
         /\ mode = "create" => e = None     \* it is refused otherwise
         /\ Queue(c, n, mode, <<l>>, e, None)

\* edit reads the file before it is locked, and gives its own expectation on.
Substituted(s, old, new) == [i \in DOMAIN s |-> IF s[i] = old THEN new ELSE s[i]]

Edit(c) ==
    /\ Fresh(c)
    /\ \E n \in PathName, old, new \in Line :
         /\ file[Real[n]] # None
         /\ old \in Range(file[Real[n]])
         /\ Queue(c, n, "replace", Substituted(file[Real[n]], old, new), file[Real[n]],
                  [content |-> file[Real[n]], old |-> old, new |-> new])

\* restore: a backup is only used if its content has its name.
Restorable(b) == saved[b] = "whole"

Restore(c) ==
    /\ Fresh(c)
    /\ \E n \in PathName, b \in Contents : \E e \in Expectable(n) :
         /\ Restorable(b)
         /\ Queue(c, n, IF e = None THEN "create" ELSE "replace", b, e, None)

Goes(c, at) == call' = [call EXCEPT ![c].at = at]
Ends(c) ==
    /\ call' = [call EXCEPT ![c] = [NewCall EXCEPT !.at = "over"]]
    /\ locked' = [n \in Locks |-> IF locked[n] = c THEN None ELSE locked[n]]

\* A lock that stays busy, a full disk: an operating-system error anywhere before the
\* file is replaced.  A backup that was begun stays as it is.
Fails(c) ==
    /\ call[c].at \in {"queued", "save", "saving", "compare", "publish"}
    /\ Ends(c)
    /\ UNCHANGED <<file, saved, load, changes, displaced>>

Result(c) ==
    LET now == file[Target(c)]
    IN IF call[c].mode = "append" /\ now # None THEN now \o call[c].data ELSE call[c].data

Accepted(c) ==
    LET now == file[Target(c)] IN
    /\ call[c].name \notin Links
    /\ now # None => call[c].mode # "create"
    /\ call[c].expected = now
    /\ Len(Result(c)) <= MaxLines

\* The checks are made under the lock.
Lock(c) ==
    /\ call[c].at = "queued"
    /\ locked[LockName(call[c].name)] = None
    /\ \/ /\ Accepted(c)
          /\ locked' = [locked EXCEPT ![LockName(call[c].name)] = c]
          /\ call' = [call EXCEPT ![c] = [NewCall EXCEPT
                 !.at = IF file[Target(c)] = None THEN "publish" ELSE "save",
                 !.name = Target(c), !.data = Result(c), !.source = call[c].source,
                 !.original = file[Target(c)]]]
       \/ ~Accepted(c) /\ Ends(c)
    /\ UNCHANGED <<file, saved, load, changes, displaced>>

\* Backups are named by their content and shared by all files.
SaveBackup(c) ==
    LET old == call[c].original IN
    /\ call[c].at = "save"
    /\ \/ /\ saved[old] = "none"
          /\ saved' = [saved EXCEPT ![old] = "torn"]
          /\ Goes(c, "saving") /\ UNCHANGED locked
       \/ saved[old] = "whole" /\ Goes(c, "compare") /\ UNCHANGED <<saved, locked>>
       \/ saved[old] = "torn" /\ Ends(c) /\ UNCHANGED saved
    /\ UNCHANGED <<file, load, changes, displaced>>

BackupSaved(c) ==
    /\ call[c].at = "saving"
    /\ saved' = [saved EXCEPT ![call[c].original] = "whole"]
    /\ Goes(c, "compare")
    /\ UNCHANGED <<file, locked, load, changes, displaced>>

\* The new content has been staged in a file of its own, beside the target.
Compare(c) ==
    /\ call[c].at = "compare"
    /\ \/ file[call[c].name] = call[c].original /\ Goes(c, "swap") /\ UNCHANGED locked
       \/ file[call[c].name] # call[c].original /\ Ends(c)
    /\ UNCHANGED <<file, saved, load, changes, displaced>>

Swap(c) ==
    /\ call[c].at = "swap"
    /\ Put(call[c].name, call[c].data, FALSE)
    /\ displaced' = displaced \cup (IF call[c].late THEN {} ELSE {call[c].original})
    /\ Ends(c)
    /\ UNCHANGED <<saved, changes>>

\* os.link never replaces a file that came into being meanwhile; removing the staged
\* name after it may fail.
Publish(c) ==
    /\ call[c].at = "publish"
    /\ \/ /\ file[call[c].name] = None
          /\ Put(call[c].name, call[c].data, FALSE)
          /\ Ends(c)
       \/ file[call[c].name] # None /\ Ends(c) /\ UNCHANGED <<file, load>>
    /\ UNCHANGED <<saved, changes, displaced>>

\* The agent dies: locks are released, backups stay as they are.
Dies ==
    /\ \E c \in ToolCall : call[c].at \notin {"new", "over"}
    /\ call' = [c \in ToolCall |-> IF call[c].at \in {"new", "over"} THEN call[c]
                               ELSE [NewCall EXCEPT !.at = "over"]]
    /\ locked' = [n \in Locks |-> None]
    /\ load' = [load EXCEPT !.read = NoRead]
    /\ UNCHANGED <<file, saved, changes, displaced>>

-----------------------------------------------------------------------------
(***************************************************************************)
(* Other programs, and move, take no lock.                                 *)
(***************************************************************************)
Late(fs) ==
    call' = [c \in ToolCall |-> IF call[c].at = "swap" /\ call[c].name \in fs
                            THEN [call[c] EXCEPT !.late = TRUE] ELSE call[c]]

OtherProgram(f) ==
    /\ changes < Outside
    /\ changes' = changes + 1
    /\ \E new \in {None} \cup Contents, inPlace \in BOOLEAN :
         /\ new # file[f] /\ (inPlace => new # None /\ file[f] # None)
         /\ Put(f, new, inPlace)
    /\ Late({f})
    /\ UNCHANGED <<saved, locked, displaced>>

Move(f, g) ==
    /\ changes < Outside
    /\ changes' = changes + 1
    /\ file[f] # None /\ file[g] = None
    /\ file' = [file EXCEPT ![g] = file[f], ![f] = None]
    /\ load' = Seen(f, None, FALSE)
    /\ Late({f, g})
    /\ UNCHANGED <<saved, locked, displaced>>

-----------------------------------------------------------------------------
(***************************************************************************)
(* A download by pages of one line, each a read of the whole file that     *)
(* names the hash of the first.                                            *)
(***************************************************************************)
OnlyLoad == UNCHANGED <<file, saved, locked, call, changes, displaced>>

OpenFile(f) ==
    /\ load.read = NoRead /\ ~load.done /\ file[f] # None
    /\ load' = [load EXCEPT !.read = [NoRead EXCEPT !.f = f, !.node = file[f], !.was = file[f]]]
    /\ OnlyLoad

ReadBlock ==
    LET r == load.read IN
    /\ r # NoRead /\ Len(r.got) < Len(r.node)
    /\ load' = [load EXCEPT !.read.got = Append(@, r.node[Len(r.got) + 1])]
    /\ OnlyLoad

\* Neither the opened file nor the path has changed since the opening.
Steady(r) == ~r.changed /\ Len(r.got) = Len(r.was)

PageRead ==
    LET r == load.read
        at == Len(load.parts)
    IN  /\ r # NoRead /\ Len(r.got) >= Len(r.node)
        /\ IF Steady(r) /\ load.digest \in {None, r.got} /\ at <= Len(r.got)
           THEN load' = [NoLoad EXCEPT !.digest = r.got,
                             !.parts = IF at < Len(r.got) THEN Append(load.parts, r.got[at + 1])
                                                   ELSE load.parts,
                             !.done = at + 1 >= Len(r.got)]
           ELSE load' \in {NoLoad, [load EXCEPT !.read = NoRead]}   \* restart, or try again
        /\ OnlyLoad

-----------------------------------------------------------------------------
CallStep(c) ==
    \/ Write(c) \/ Edit(c) \/ Restore(c)
    \/ Lock(c) \/ Fails(c) \/ SaveBackup(c) \/ BackupSaved(c)
    \/ Compare(c) \/ Swap(c) \/ Publish(c)

FilesNext ==
    \/ \E c \in ToolCall : CallStep(c)
    \/ Dies
    \/ \E f \in Files : OtherProgram(f) \/ OpenFile(f)
    \/ \E f, g \in Files : Move(f, g)
    \/ ReadBlock \/ PageRead

FilesSpec == FilesInit /\ [][FilesNext]_fileVars

-----------------------------------------------------------------------------
\* A tool that is about to replace a file replaces what it was told to expect, whatever
\* other tools do under any of the file's names; only another program, or a move, may
\* come between its last look and the replacement.
NoLostUpdate ==
    \A c \in ToolCall : call[c].at = "swap" /\ ~call[c].late =>
        file[call[c].name] = call[c].original

\* What a tool replaced can be restored.
BackedUp == \A old \in displaced : Restorable(old)

\* An edit replaces the content it was computed from.
EditsFromRead ==
    \A c \in ToolCall : call[c].at \in {"save", "saving", "compare", "swap"} =>
        \/ call[c].source = None
        \/ /\ call[c].source.content = call[c].original
           /\ call[c].data = Substituted(call[c].original, call[c].source.old,
                                         call[c].source.new)

\* A finished download is one content of the file, not a mixture, and has its hash.
WholeDownload == load.done => load.parts = load.digest
\* Every hash given out is that of a content the file had when it was opened.
HashesHonest ==
    LET r == load.read IN
    r # NoRead /\ Len(r.got) >= Len(r.node) /\ Steady(r) => r.got = r.was

FilesKept == NoLostUpdate /\ BackedUp /\ EditsFromRead /\ WholeDownload /\ HashesHonest

-----------------------------------------------------------------------------
(***************************************************************************)
(* Workbooks: an order of sheets, each a name and a part of the package;   *)
(* the cells of each part; tables of shared strings.  A cell is addressed  *)
(* by the letters of its column, counted from 0, and its row.              *)
(***************************************************************************)
bookVars == <<book, edited, made>>

\* column_name, and its inverse in cell_position
ColumnName[i \in 0..MaxColumn] ==
    IF i = 0 THEN <<>>
    ELSE Append(ColumnName[(i - 1) \div Letters], (i - 1) % Letters)
ColumnIndex(letters) == FoldLeft(LAMBDA sum, l : sum * Letters + l + 1, 0, letters)
Position(at) == <<at.row, ColumnIndex(at.letters)>>

\* cell_bounds: a rectangle, or everything
Within(position, bounds) ==
    bounds = None \/ \A i \in {1, 2} : bounds[1][i] <= position[i] /\ position[i] <= bounds[2][i]

\* create_workbook(s): a cell for each value, in the order of the rows.
CreatedCells(rows) ==
    FlattenSeq([r \in DOMAIN rows |->
        SelectSeq([i \in DOMAIN rows[r] |->
                       [at |-> [letters |-> ColumnName[i], row |-> r], type |-> "inlineStr",
                        text |-> rows[r][i], index |-> 0, plain |-> TRUE]],
                  LAMBDA cell : cell.text # None)])

Created(sheets) ==
    [sheets |-> [i \in DOMAIN sheets |-> [name |-> sheets[i].name, part |-> i]],
     cells |-> [i \in DOMAIN sheets |-> CreatedCells(sheets[i].rows)],
     tables |-> <<>>, fixed |-> FALSE]

\* read_document: the first sheet, or the last of a name; the last table of strings.
Selected(b, section) ==
    Max({i \in DOMAIN b.sheets : IF section = None THEN i = 1 ELSE b.sheets[i].name = section})

Shared(b) == IF b.tables = <<>> THEN <<>> ELSE Last(b.tables)

\* None: the whole reading is refused.
CellValue(b, cell) ==
    IF cell.type # "s" THEN cell.text
    ELSE IF cell.index < Len(Shared(b)) THEN Shared(b)[cell.index + 1].text ELSE None

Entries(b, section, bounds) ==
    LET cells == b.cells[b.sheets[Selected(b, section)].part]
        within == SelectSeq(cells, LAMBDA cell : Within(Position(cell.at), bounds))
    IN [i \in DOMAIN within |->
            [position |-> Position(within[i].at), value |-> CellValue(b, within[i])]]

\* A page has at least one entry, and no more bytes than the limit if it has two.
Page(entries, offset, limit) ==
    LET wanted == SubSeq(entries, offset + 1, IF offset + limit < Len(entries)
                                              THEN offset + limit ELSE Len(entries))
        bytes(k) == FoldLeft(LAMBDA sum, e : sum + SizeOf[e.value], 0, SubSeq(wanted, 1, k))
    IN SubSeq(wanted, 1, Max({0} \cup {k \in DOMAIN wanted :
                                          \A j \in 2..k : bytes(j) <= PageSize}))

\* edit_spreadsheet_cell: everything that is not one plain string is refused.
NamedSheets(b, section) == {i \in DOMAIN b.sheets : b.sheets[i].name = section}
SharesPart(b, i) == {j \in DOMAIN b.sheets : b.sheets[j].part = b.sheets[i].part}
CellsAt(cells, position) == {k \in DOMAIN cells : Position(cells[k].at) = position}

PlainText(b, cell) ==
    IF cell.type = "inlineStr" /\ cell.plain THEN cell.text
    ELSE IF /\ cell.type = "s" /\ cell.plain
            /\ Len(b.tables) = 1 /\ cell.index < Len(b.tables[1])
            /\ b.tables[1][cell.index + 1].plain
         THEN b.tables[1][cell.index + 1].text
    ELSE None

EditCell(section, position, old, new) ==
    \E i \in DOMAIN book.sheets :
        LET part == book.sheets[i].part
            cells == book.cells[part]
        IN  /\ ~book.fixed /\ old # new
            /\ NamedSheets(book, section) = {i}
            /\ SharesPart(book, i) = {i}
            /\ \E k \in DOMAIN cells :
                 /\ CellsAt(cells, position) = {k}
                 /\ PlainText(book, cells[k]) = old
                 /\ book' = [book EXCEPT !.cells[part][k] =
                        [@ EXCEPT !.type = "inlineStr", !.text = new, !.index = 0]]

BooksInit ==
    /\ book \in Books \cup {None}
    /\ edited = None /\ made = None

CreateBook ==
    /\ book = None
    /\ \E rows \in Rows :
         /\ made' = <<[name |-> "s", rows |-> rows], [name |-> "t", rows |-> <<rows[1]>>]>>
         /\ book' = Created(made')
    /\ UNCHANGED edited

EditBook ==
    /\ book # None /\ edited = None
    /\ \E section \in {book.sheets[i].name : i \in DOMAIN book.sheets}, old, new \in Text :
         \E cell \in UNION {Range(book.cells[p]) : p \in DOMAIN book.cells} :
             /\ EditCell(section, Position(cell.at), old, new)
             /\ edited' = [before |-> book, section |-> section,
                           position |-> Position(cell.at), old |-> old, new |-> new]
    /\ made' = None

BooksNext == CreateBook \/ EditBook
BooksSpec == BooksInit /\ [][BooksNext]_bookVars

-----------------------------------------------------------------------------
\* An edit changes what a reader is shown in one cell of one sheet, where the reader was
\* shown the old text, and nothing else.
EditExact ==
    edited # None => \A i \in DOMAIN book.sheets :
        LET name == book.sheets[i].name
            was == Entries(edited.before, name, None)
        IN  /\ name = edited.section => \A k \in DOMAIN was :
                   was[k].position = edited.position => was[k].value = edited.old
            /\ Entries(book, name, None) =
               [k \in DOMAIN was |->
                   IF name = edited.section /\ was[k].position = edited.position
                   THEN [was[k] EXCEPT !.value = edited.new] ELSE was[k]]

\* Every value of a created workbook is read back at its row and column, and no other.
CreatedReads ==
    made # None => \A i \in DOMAIN made :
        LET given == {rc \in (1..Len(made[i].rows)) \X (1..MaxColumn) :
                          /\ rc[2] \in DOMAIN made[i].rows[rc[1]]
                          /\ made[i].rows[rc[1]][rc[2]] # None}
        IN  /\ \A rc \in given :
                 Entries(book, made[i].name, <<rc, rc>>) =
                     <<[position |-> rc, value |-> made[i].rows[rc[1]][rc[2]]]>>
            /\ Len(Entries(book, made[i].name, None)) = Cardinality(given)

\* Following next_offset shows every entry once, in order, whatever the limit.
PagesCover ==
    book # None =>
        LET all == Entries(book, None, None)
            followed(limit) ==
                LET from[offset \in 0..Len(all)] ==
                        LET page == Page(all, offset, limit)
                        IN IF page = <<>> THEN <<>> ELSE page \o from[offset + Len(page)]
                IN from[0]
        IN (\A k \in DOMAIN all : all[k].value # None) =>
               \A limit \in {1, 2, 3} : followed(limit) = all

BooksRead == EditExact /\ CreatedReads /\ PagesCover
==============================================================================
