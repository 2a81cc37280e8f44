------------------------------ MODULE Catalog ------------------------------
(***************************************************************************)
(* SmManager (src/src/system/sm_manager.cpp) with the file tables of       *)
(* DiskManager and the file operations of RmManager and IxManager: CREATE  *)
(* and DROP of tables and indexes, the metadata file, and the start of the *)
(* server on what a stop or a kill has left.                               *)
(*                                                                         *)
(* DDL statements, and the row count every INSERT writes, run one at a     *)
(* time under meta_mutex_.  A statement is the list of what it still has   *)
(* to do, and the server can be killed between any two steps.              *)
(***************************************************************************)
EXTENDS Integers, Sequences, FiniteSets

CONSTANTS Table,
          Index,            \* lists of columns, the same for all tables
          MaxStatements,    \* bound: statements that change the catalogue
          MaxStops,         \* bound: stops and kills of the server
          MaxSplits         \* bound: new pages of indexes

ASSUME BoundAssumption == {MaxStatements, MaxStops, MaxSplits} \subseteq Nat
ASSUME TableAssumption == IsFiniteSet(Table) /\ IsFiniteSet(Index)

VARIABLES
    disk,       \* the files of the directory; the metadata file, which may be torn
    db,         \* db_.tabs_: the tables, with the indexes of each
    ihs,        \* the indexes that have a handle (fhs_ follows the tables)
    fd,         \* path2fd_ and fd2path_: the open files, with their descriptors
    pageno,     \* fd2pageno_: the next page number of an index, by descriptor
    todo,       \* what the statement that holds meta_mutex_ has left to do
    server,     \* "up", "down" or "refused": start-up ended with an error
    ghost       \* statements, stops, new pages; indexes refused, stray, reopened

vars == <<disk, db, ihs, fd, pageno, todo, server, ghost>>

Members(seq) == {seq[k] : k \in DOMAIN seq}

\* File names.  Different indexes have different names here; in the code the names
\* of the table and the columns are joined by "_".
Of(t) == <<t>>
On(t, i) == <<t, i>>
TableNames == {Of(t) : t \in Table}
IndexNames == {On(t, i) : t \in Table, i \in Index}
Names == TableNames \cup IndexNames

Fds == 0..Cardinality(Names)

\* The files of a catalogue.
IxFiles(cat) == {f \in IndexNames : f[1] \in DOMAIN cat /\ f[2] \in Members(cat[f[1]])}
FilesOf(cat) == {f \in TableNames : f[1] \in DOMAIN cat} \cup IxFiles(cat)

InitialPages == 3           \* IX_INIT_NUM_PAGES

\* create_db: the directory, an empty catalogue.
Init ==
    /\ disk = [file |-> {}, meta |-> <<>>, torn |-> FALSE, pages |-> <<>>]
    /\ db = <<>>
    /\ ihs = {}
    /\ fd = <<>>
    /\ pageno = [f \in Fds |-> 0]
    /\ todo = <<>>
    /\ server = "up"
    /\ ghost = [statements |-> 0, stops |-> 0, splits |-> 0, busy |-> FALSE,
                refused |-> {}, strays |-> {}, reopened |-> {}]

-----------------------------------------------------------------------------
(***************************************************************************)
(* DiskManager.                                                            *)
(***************************************************************************)
is_file(f) == f \in disk.file
IsOpen(f) == f \in DOMAIN fd

Unused(open) == {n \in Fds : \A g \in DOMAIN open : open[g] # n}
LowestFd(open) == CHOOSE n \in Unused(open) : \A m \in Unused(open) : n <= m

\* The function f with value v at x.
With(f, x, v) == [y \in DOMAIN f \cup {x} |-> IF y = x THEN v ELSE f[y]]

open_file(open, f) == With(open, f, LowestFd(open))
close_file(open, f) == [g \in DOMAIN open \ {f} |-> open[g]]

\* destroy_file refuses a file that is open or missing.
CanDestroy(f) == is_file(f) /\ ~IsOpen(f)

-----------------------------------------------------------------------------
(***************************************************************************)
(* The statements.                                                         *)
(***************************************************************************)
Free == todo = <<>> /\ server = "up"
Meta == <<>>                \* DB_META_NAME
Flush == <<<<"truncate", Meta>>, <<"write", Meta>>>>

Start(steps) ==
    /\ Free
    /\ ghost.statements < MaxStatements
    /\ todo' = steps
    /\ ghost' = [ghost EXCEPT !.statements = @ + 1]
    /\ UNCHANGED <<disk, db, ihs, fd, pageno, server>>

create_table(t) ==
    /\ t \notin DOMAIN db
    /\ Start(<<<<"create", Of(t)>>, <<"enter", Of(t)>>>> \o Flush)

\* Each file is closed and destroyed before the next.
CloseAndDestroy(files) ==
    [k \in 1..(2 * Len(files)) |->
        <<IF k % 2 = 1 THEN "close" ELSE "destroy", files[(k + 1) \div 2]>>]

\* Mutant: the indexes stay.
drop_table_only(t) ==
    /\ t \in DOMAIN db
    /\ Start(CloseAndDestroy(<<Of(t)>>) \o <<<<"erase", Of(t)>>>> \o Flush)

\* Every index is closed and destroyed, then the table.
drop_table(t) ==
    /\ t \in DOMAIN db
    /\ LET files == Append([k \in 1..Len(db[t]) |-> On(t, db[t][k])], Of(t))
       IN  Start(CloseAndDestroy(files) \o <<<<"erase", Of(t)>>>> \o Flush)

create_index(t, i) ==
    /\ t \in DOMAIN db
    /\ i \notin Members(db[t])
    /\ On(t, i) \notin ihs
    /\ Start(<<<<"create_index", On(t, i)>>, <<"fill", On(t, i)>>>> \o Flush)

\* Mutant: the index stays in the catalogue.
drop_index_remembered(t, i) ==
    /\ t \in DOMAIN db
    /\ i \in Members(db[t])
    /\ Start(CloseAndDestroy(<<On(t, i)>>) \o Flush)

drop_index(t, i) ==
    /\ t \in DOMAIN db
    /\ i \in Members(db[t])
    /\ Start(CloseAndDestroy(<<On(t, i)>>) \o <<<<"forget", On(t, i)>>>> \o Flush)

\* run_mutli_query: the statements with a DDLPlan.
run_mutli_query ==
    \E t \in Table :
        \/ create_table(t) \/ drop_table(t)
        \/ \E i \in Index : create_index(t, i) \/ drop_index(t, i)

\* InsertExecutor writes the row count of its table.
update_table_row_count(t) ==
    /\ t \in DOMAIN db
    /\ Start(Flush)

-----------------------------------------------------------------------------
(***************************************************************************)
(* Their steps.  A step that throws ends the statement.                    *)
(***************************************************************************)
At(name) == server = "up" /\ todo # <<>> /\ Head(todo)[1] = name
File == Head(todo)[2]       \* what the next step is about
Done == todo' = Tail(todo)
Throw == todo' = <<>>

\* RmManager::create_file.
CreateFile ==
    /\ At("create")
    /\ IF is_file(File) THEN Throw /\ UNCHANGED disk
       ELSE /\ Done
            /\ disk' = [disk EXCEPT !.file = @ \cup {File}]
    /\ UNCHANGED <<db, ihs, fd, pageno, server, ghost>>

Enter ==
    /\ At("enter")
    /\ Done
    /\ db' = With(db, File[1], <<>>)
    /\ fd' = open_file(fd, File)
    /\ UNCHANGED <<disk, ihs, pageno, server, ghost>>

(***************************************************************************)
(* IxManager::create_index opens the file, writes its first pages, sets    *)
(* the page number of the descriptor and closes it; open_index opens it    *)
(* again, and the handle takes the number that the descriptor has now.     *)
(* Between the two, accept and the streams to output.txt in other threads  *)
(* may have taken the descriptor: n is any that is unused.                 *)
(***************************************************************************)
\* Mutant: the handle is made without the metadata, as open_db makes it.
IndexPagenoBare(n) == [pageno EXCEPT ![LowestFd(fd)] = InitialPages - 1]

IndexPageno(n) ==
    LET written == [pageno EXCEPT ![LowestFd(fd)] = InitialPages - 1]
    IN  [written EXCEPT ![n] = @ + 1]

MakeIndex(n) ==
    /\ Done
    /\ disk' = [disk EXCEPT !.file = @ \cup {File},
                            !.pages = With(@, File, 0..(InitialPages - 1))]
    /\ db' = [db EXCEPT ![File[1]] = Append(@, File[2])]
    /\ ihs' = ihs \cup {File}
    /\ fd' = With(fd, File, n)
    /\ pageno' = IndexPageno(n)
    /\ ghost' = [ghost EXCEPT !.reopened =
                    IF n = LowestFd(fd) THEN @ \ {File} ELSE @ \cup {File}]

\* The columns are too long together (InvalidColLengthError): the file has been
\* made and opened by then, and stays.
LeaveStray ==
    /\ Throw
    /\ disk' = [disk EXCEPT !.file = @ \cup {File}, !.pages = With(@, File, {})]
    /\ fd' = open_file(fd, File)
    /\ ghost' = [ghost EXCEPT !.strays = @ \cup {File}]
    /\ UNCHANGED <<db, ihs, pageno>>

CreateIndexFile ==
    /\ At("create_index")
    /\ \/ is_file(File) /\ Throw /\ UNCHANGED <<disk, db, ihs, fd, pageno, ghost>>
       \/ ~is_file(File) /\ LeaveStray
       \/ ~is_file(File) /\ \E n \in Unused(fd) : MakeIndex(n)
    /\ UNCHANGED server

\* The rows of the table are entered.  Two rows with one key: the handle is
\* forgotten with the file open, so the file cannot be destroyed, and that error
\* leaves the catalogue with the index.
Fill ==
    /\ At("fill")
    /\ \/ Done /\ UNCHANGED <<ihs, ghost>>
       \/ /\ Throw
          /\ ihs' = ihs \ {File}
          /\ ghost' = [ghost EXCEPT !.refused = @ \cup {File}]
    /\ UNCHANGED <<disk, db, fd, pageno, server>>

\* An index is closed when it has a handle.
CloseFile ==
    /\ At("close")
    /\ Done
    /\ fd' = IF File \in TableNames \cup ihs THEN close_file(fd, File) ELSE fd
    /\ ihs' = ihs \ {File}
    /\ UNCHANGED <<disk, db, pageno, server, ghost>>

\* IxManager::destroy_index does not mind a file that is missing.
DestroyFile ==
    /\ At("destroy")
    /\ \/ CanDestroy(File) /\ Done /\ disk' = [disk EXCEPT !.file = @ \ {File}]
       \/ ~is_file(File) /\ File \in IndexNames /\ Done /\ UNCHANGED disk
       \/ ~CanDestroy(File) /\ (is_file(File) \/ File \in TableNames) /\ Throw /\ UNCHANGED disk
    /\ UNCHANGED <<db, ihs, fd, pageno, server, ghost>>

Erase ==
    /\ At("erase")
    /\ Done
    /\ db' = [t \in DOMAIN db \ {File[1]} |-> db[t]]
    /\ UNCHANGED <<disk, ihs, fd, pageno, server, ghost>>

\* The sequence without its k-th element.
Without(seq, k) == [j \in 1..(Len(seq) - 1) |-> IF j < k THEN seq[j] ELSE seq[j + 1]]

Forget ==
    /\ At("forget")
    /\ Done
    /\ \E k \in DOMAIN db[File[1]] :
           /\ db[File[1]][k] = File[2]
           /\ db' = [db EXCEPT ![File[1]] = Without(@, k)]
    /\ UNCHANGED <<disk, ihs, fd, pageno, server, ghost>>

\* flush_meta: opening the file empties it, closing it writes the catalogue.
Truncate ==
    /\ At("truncate")
    /\ Done
    /\ disk' = [disk EXCEPT !.torn = TRUE]
    /\ UNCHANGED <<db, ihs, fd, pageno, server, ghost>>

WriteMeta ==
    /\ At("write")
    /\ Done
    /\ disk' = [disk EXCEPT !.meta = db, !.torn = FALSE]
    /\ UNCHANGED <<db, ihs, fd, pageno, server, ghost>>

\* create_node, when an entry splits a node of an index.
Split(f) ==
    /\ Free
    /\ ghost.splits < MaxSplits
    /\ pageno' = [pageno EXCEPT ![fd[f]] = @ + 1]
    /\ disk' = [disk EXCEPT !.pages[f] = @ \cup {pageno[fd[f]]}]
    /\ ghost' = [ghost EXCEPT !.splits = @ + 1]
    /\ UNCHANGED <<db, ihs, fd, todo, server>>

-----------------------------------------------------------------------------
(***************************************************************************)
(* Stop and start.                                                         *)
(***************************************************************************)
Halt(busy) ==
    /\ server' = "down"
    /\ db' = <<>> /\ ihs' = {} /\ fd' = <<>> /\ todo' = <<>>
    /\ pageno' = [f \in Fds |-> 0]
    /\ ghost' = [ghost EXCEPT !.stops = @ + 1, !.busy = @ \/ busy]
    /\ UNCHANGED disk

\* close_db, which does not write the metadata.
close_db ==
    /\ Free
    /\ ghost.stops < MaxStops
    /\ Halt(FALSE)

Kill ==
    /\ server = "up"
    /\ ghost.stops < MaxStops
    /\ Halt(todo # <<>>)

\* open_db: every file of the catalogue is opened.  Nothing sets the page numbers
\* of indexes.
open_db ==
    LET files == FilesOf(disk.meta) IN
    /\ server = "down"
    /\ IF disk.torn \/ ~(files \subseteq disk.file)
       THEN /\ server' = "refused"
            /\ UNCHANGED <<db, ihs, fd, ghost>>
       ELSE /\ server' = "up"
            /\ db' = disk.meta
            /\ ihs' = IxFiles(disk.meta)
            /\ fd' = CHOOSE open \in [files -> Fds] : \A f, g \in files : open[f] = open[g] => f = g
            /\ ghost' = [ghost EXCEPT !.reopened = IxFiles(disk.meta)]
    /\ UNCHANGED <<disk, pageno, todo>>

Next ==
    \/ run_mutli_query
    \/ \E t \in Table : update_table_row_count(t)
    \/ CreateFile \/ Enter \/ CreateIndexFile \/ Fill \/ CloseFile \/ DestroyFile
    \/ Erase \/ Forget \/ Truncate \/ WriteMeta
    \/ \E f \in ihs : Split(f)
    \/ close_db \/ Kill \/ open_db

Spec == Init /\ [][Next]_vars

-----------------------------------------------------------------------------
(***************************************************************************)
(* Properties.                                                             *)
(***************************************************************************)
\* Type invariant; no descriptor is given to two files.
CatalogTypeOK ==
    /\ \A f \in DOMAIN fd : fd[f] \in Fds
    /\ \A f, g \in DOMAIN fd : fd[f] = fd[g] => f = g
    /\ DOMAIN fd \subseteq disk.file
    /\ ihs \subseteq DOMAIN fd
    /\ server \in {"up", "down", "refused"}

\* An index of the table was refused.
Refused(t) == \E i \in Index : On(t, i) \in ghost.refused

\* Between two statements every table and every index of the catalogue has an open
\* file, and an index its handle, without which no INSERT into the table succeeds.
\* The exceptions are the tables with an index that was refused.
CatalogueUsable ==
    Free => \A f \in FilesOf(db) :
                ~Refused(f[1]) => f \in DOMAIN fd /\ (f \in IndexNames => f \in ihs)

\* Between two statements the metadata file is the catalogue, except for refused
\* indexes and what depends on them.
MetaCurrent ==
    Free /\ ghost.refused = {} => ~disk.torn /\ disk.meta = db

\* A server that was stopped or killed between two statements starts again.
StartsAgain ==
    server = "refused" => ghost.busy \/ ghost.refused # {}

\* A file that the catalogue does not know, for which CREATE fails for ever, is
\* only left by a kill in the middle of a statement, or by a CREATE INDEX whose
\* columns are too long; and that one is never lost, nor ever catalogued.
NoOrphans ==
    Free /\ ~ghost.busy /\ ghost.refused = {} =>
        /\ disk.file = FilesOf(db) \cup ghost.strays
        /\ FilesOf(db) \cap ghost.strays = {}

\* Catalogue, handles and descriptors fit together between any two statements.
CatalogInv == CatalogTypeOK /\ CatalogueUsable

\* So do the catalogue and the directory, and a restart finds it so.
DirectoryInv == MetaCurrent /\ NoOrphans /\ StartsAgain

\* The next page number of an index is not that of a page it has, unless the index
\* was opened at the start, or CREATE INDEX opened it by another descriptor than it
\* wrote it by.
PagesNew == \A f \in ihs \ ghost.reopened : pageno[fd[f]] \notin disk.pages[f]
=============================================================================
