--------------------------- MODULE CatalogProofs ---------------------------
(***************************************************************************)
(* Proofs about Catalog: the catalogue, the handles, the directory and the *)
(* metadata file agree between statements, whatever statements there were  *)
(* and wherever the server was killed.                                     *)
(*                                                                         *)
(* The invariant reads off the list of steps that a statement has left     *)
(* what is true in the middle of it: the last steps write the metadata,    *)
(* the one before them changes the catalogue or has just done so, and      *)
(* before that the files of a DROP are closed and destroyed.               *)
(***************************************************************************)
EXTENDS Catalog, FiniteSetTheorems, SequenceTheorems, WellFoundedInduction, TLAPS

\* Tables, with the indexes of each, none twice.
IsCatalogue(cat) ==
    /\ cat = [t \in DOMAIN cat |-> cat[t]] /\ DOMAIN cat \subseteq Table
    /\ \A t \in DOMAIN cat : /\ cat[t] \in Seq(Index)
                             /\ \A j, k \in DOMAIN cat[t] : cat[t][j] = cat[t][k] => j = k

Ghosts == [statements : Nat, stops : Nat, splits : Nat, busy : BOOLEAN,
           refused : SUBSET IndexNames, strays : SUBSET IndexNames, reopened : SUBSET IndexNames]

Changes == {"enter", "fill", "erase", "forget"}
FileOps == Changes \cup {"create", "create_index", "close", "destroy"}
MetaOps == {"truncate", "write"}
Ops == FileOps \cup MetaOps
Steps == (FileOps \X Names) \cup (MetaOps \X {Meta})

IsDisk(d) ==
    /\ d = [file |-> d.file, meta |-> d.meta, torn |-> d.torn, pages |-> d.pages]
    /\ d.file \subseteq Names /\ d.torn \in BOOLEAN /\ IsCatalogue(d.meta)
    /\ d.pages = [f \in DOMAIN d.pages |-> d.pages[f]]
    /\ \A f \in d.file \cap IndexNames : f \in DOMAIN d.pages
    /\ \A f \in DOMAIN d.pages : d.pages[f] \subseteq Nat

Types ==
    /\ IsDisk(disk) /\ IsCatalogue(db)
    /\ fd = [f \in DOMAIN fd |-> fd[f]] /\ pageno \in [Fds -> Nat]
    /\ ihs \subseteq IndexNames
    /\ todo \in Seq(Steps)
    /\ ghost \in Ghosts
    /\ CatalogTypeOK

\* A server that is not up has nothing in memory.
Empty == server # "up" => todo = <<>> /\ db = <<>> /\ fd = <<>> /\ ihs = {}

-----------------------------------------------------------------------------
(***************************************************************************)
(* The list of steps.                                                      *)
(***************************************************************************)
\* The steps of a statement come in this order, and none twice.
Ordered(s) ==
    LET n == Len(s) IN
    /\ \A j, k \in 1..n : s[j] = s[k] => j = k
    /\ \A k \in 1..n :
        /\ s[k][1] = "write" <=> k = n
        /\ s[k][1] = "truncate" <=> k = n - 1
        /\ s[k][1] \in Changes <=> k = n - 2
        /\ s[k][1] = "create" => k = n - 3 /\ s[k + 1] = <<"enter", s[k][2]>>
        /\ s[k][1] = "create_index" => k = n - 3 /\ s[k + 1] = <<"fill", s[k][2]>>
        /\ s[k][1] = "close" => k < n - 3 /\ s[k + 1] = <<"destroy", s[k][2]>>
        /\ s[k][1] \in {"close", "destroy"} => s[n - 2][1] \in {"erase", "forget"}

\* The step that changes the catalogue, or follows the change.
Change(s) == s[Len(s) - 2]
Changing(s, op) == Len(s) >= 3 /\ Change(s)[1] = op

Pending(s, op) == {f \in Names : \E k \in 1..Len(s) : s[k] = <<op, f>>}

\* The files that the statement takes away.
Doomed(s, f) ==
    \/ Changing(s, "erase") /\ f[1] = Change(s)[2][1]
    \/ Changing(s, "forget") /\ f = Change(s)[2]

\* What a statement is about.
Meant(s, cat) ==
    /\ Changing(s, "enter") => Change(s)[2] \in TableNames /\ Change(s)[2][1] \notin DOMAIN cat
    /\ Changing(s, "fill") =>
           /\ Change(s)[2] \in IndexNames /\ Change(s)[2][1] \in DOMAIN cat
           /\ Pending(s, "create_index") # {} <=> Change(s)[2][2] \notin Members(cat[Change(s)[2][1]])
    /\ Changing(s, "erase") => Change(s)[2] \in TableNames /\ Change(s)[2][1] \in DOMAIN cat
    /\ Changing(s, "forget") => Change(s)[2] \in IxFiles(cat)
    /\ \A f \in Pending(s, "close") \cup Pending(s, "destroy") : f \in FilesOf(cat) /\ Doomed(s, f)

-----------------------------------------------------------------------------
(***************************************************************************)
(* Files.                                                                  *)
(***************************************************************************)
\* A file that is open belongs to the catalogue, and is not one that was destroyed;
\* or a CREATE INDEX with too long columns has left it.
OpenKnown ==
    \A f \in DOMAIN fd \ ghost.strays :
        f \in FilesOf(db) /\ (Doomed(todo, f) => f \in Pending(todo, "destroy"))

\* The files of the catalogue are there and open, those of a DROP until their turn.
FilesRight ==
    \A f \in FilesOf(db) : ~Refused(f[1]) =>
        /\ f \in disk.file <=> (Doomed(todo, f) => f \in Pending(todo, "destroy"))
        /\ f \in DOMAIN fd <=> (Doomed(todo, f) => f \in Pending(todo, "close"))
        /\ f \in IndexNames /\ f \in DOMAIN fd => f \in ihs

\* CREATE TABLE makes the file before the entry.
Made ==
    todo # <<>> /\ todo[1][1] = "enter" => todo[1][2] \in disk.file

Known ==
    server = "up" /\ ~ghost.busy /\ ghost.refused = {} =>
        \A f \in disk.file : \/ f \in FilesOf(db) \cup ghost.strays
                             \/ todo # <<>> /\ todo[1] = <<"enter", f>>

\* Only the steps of flush_meta, or those just before, find the file out of date.
MetaFollows ==
    server = "up" /\ ghost.refused = {} =>
        /\ disk.torn => Len(todo) = 1
        /\ disk.meta # db => Len(todo) \in 1..3 /\ todo[1][1] \in {"fill", "truncate", "write"}

\* What a stop between two statements leaves.
Startable ==
    /\ server = "down" /\ ~ghost.busy /\ ghost.refused = {} =>
           /\ ~disk.torn /\ FilesOf(disk.meta) \subseteq disk.file
           /\ disk.file \subseteq FilesOf(disk.meta) \cup ghost.strays
    /\ StartsAgain

\* All pages of an index are below its next page number.
PagesBelow ==
    \A f \in ihs \ ghost.reopened : \A n \in disk.pages[f] : n < pageno[fd[f]]

Inv ==
    /\ Types /\ Empty /\ Ordered(todo) /\ Meant(todo, db)
    /\ OpenKnown /\ FilesRight /\ Made /\ Known /\ MetaFollows /\ Startable /\ PagesBelow

-----------------------------------------------------------------------------
(***************************************************************************)
(* File names and catalogues.                                              *)
(***************************************************************************)
LEMMA NameFacts ==
    /\ \A f \in TableNames : f[1] \in Table /\ f = Of(f[1])
    /\ \A f \in IndexNames : f[1] \in Table /\ f[2] \in Index /\ f = On(f[1], f[2])
    /\ \A t \in Table : Of(t) \in TableNames /\ Of(t)[1] = t
    /\ \A t \in Table, i \in Index : On(t, i) \in IndexNames /\ On(t, i)[1] = t /\ On(t, i)[2] = i
    /\ TableNames \cap IndexNames = {} /\ Meta \notin Names
<1>1. \A t \in Table, i \in Index : Len(Of(t)) = 1 /\ Len(On(t, i)) = 2
  BY DEF Of, On
<1>2. \A f \in TableNames : f[1] \in Table /\ f = Of(f[1])
  BY DEF TableNames, Of
<1>3. \A f \in IndexNames : f[1] \in Table /\ f[2] \in Index /\ f = On(f[1], f[2])
  BY DEF IndexNames, On
<1>4. \A t \in Table : Of(t) \in TableNames /\ Of(t)[1] = t
  BY DEF TableNames, Of
<1>5. \A t \in Table, i \in Index : On(t, i) \in IndexNames /\ On(t, i)[1] = t /\ On(t, i)[2] = i
  BY DEF IndexNames, On
<1>6. TableNames \cap IndexNames = {} /\ Meta \notin Names
  <2>1. \A f \in TableNames : Len(f) = 1
    BY <1>1 DEF TableNames, Of
  <2>2. \A f \in IndexNames : Len(f) = 2
    BY <1>1 DEF IndexNames, On
  <2>3. Len(Meta) = 0
    BY DEF Meta
  <2> QED BY <2>1, <2>2, <2>3 DEF Names
<1> QED BY <1>2, <1>3, <1>4, <1>5, <1>6

\* A table is entered.
LEMMA EnterFiles ==
    ASSUME NEW c, IsCatalogue(c), NEW t \in Table, t \notin DOMAIN c
    PROVE  /\ IsCatalogue(With(c, t, <<>>)) /\ FilesOf(With(c, t, <<>>)) = FilesOf(c) \cup {Of(t)}
           /\ DOMAIN With(c, t, <<>>) = DOMAIN c \cup {t}
<1> DEFINE d == With(c, t, <<>>)
<1>1. /\ DOMAIN d = DOMAIN c \cup {t} /\ d[t] = <<>> /\ \A u \in DOMAIN c : d[u] = c[u]
      /\ d = [u \in DOMAIN d |-> d[u]]
  BY DEF With
<1>2. <<>> \in Seq(Index) /\ DOMAIN <<>> = {} /\ Members(<<>>) = {}
  BY DEF Members
<1> HIDE DEF d
<1>3. IsCatalogue(d)
  BY <1>1, <1>2 DEF IsCatalogue
<1>4. IxFiles(d) = IxFiles(c)
  BY <1>1, <1>2 DEF IxFiles
<1>5. {f \in TableNames : f[1] \in DOMAIN d} = {f \in TableNames : f[1] \in DOMAIN c} \cup {Of(t)}
  BY <1>1, NameFacts
<1> QED BY <1>1, <1>3, <1>4, <1>5 DEF FilesOf, d

\* A table is erased.
LEMMA EraseFiles ==
    ASSUME NEW c, IsCatalogue(c), NEW t, NEW d, d = [u \in DOMAIN c \ {t} |-> c[u]]
    PROVE  IsCatalogue(d) /\ FilesOf(d) = {f \in FilesOf(c) : f[1] # t}
<1>1. DOMAIN d = DOMAIN c \ {t} /\ (\A u \in DOMAIN d : d[u] = c[u]) /\ d = [u \in DOMAIN d |-> d[u]]
  OBVIOUS
<1>2. IsCatalogue(d)
  BY <1>1 DEF IsCatalogue
<1>3. IxFiles(d) = {f \in IxFiles(c) : f[1] # t}
  BY <1>1 DEF IxFiles
<1> QED BY <1>1, <1>2, <1>3 DEF FilesOf

\* An index is appended.
LEMMA AppendFiles ==
    ASSUME NEW c, IsCatalogue(c), NEW t \in DOMAIN c, NEW i \in Index, i \notin Members(c[t]),
           NEW d, d = [c EXCEPT ![t] = Append(@, i)]
    PROVE  /\ IsCatalogue(d) /\ FilesOf(d) = FilesOf(c) \cup {On(t, i)} /\ DOMAIN d = DOMAIN c
           /\ i \in Members(d[t])
<1>1. t \in Table /\ c[t] \in Seq(Index) /\ \A j, k \in DOMAIN c[t] : c[t][j] = c[t][k] => j = k
  BY DEF IsCatalogue
<1>2. /\ DOMAIN d = DOMAIN c /\ d[t] = Append(c[t], i) /\ \A u \in DOMAIN c \ {t} : d[u] = c[u]
      /\ d = [u \in DOMAIN d |-> d[u]]
  BY DEF IsCatalogue
<1>3. /\ d[t] \in Seq(Index) /\ Len(c[t]) \in Nat /\ DOMAIN c[t] = 1..Len(c[t])
      /\ DOMAIN d[t] = 1..(Len(c[t]) + 1) /\ d[t][Len(c[t]) + 1] = i
      /\ \A k \in DOMAIN c[t] : d[t][k] = c[t][k]
  BY <1>1, <1>2
<1>4. \A j, k \in DOMAIN d[t] : d[t][j] = d[t][k] => j = k
  BY <1>1, <1>3 DEF Members
<1>5. Members(d[t]) = Members(c[t]) \cup {i}
  BY <1>3 DEF Members
<1>6. IsCatalogue(d)
  BY <1>2, <1>3, <1>4 DEF IsCatalogue
<1>7. \A f \in IndexNames : f \in IxFiles(d) <=> f \in IxFiles(c) \/ f = On(t, i)
  <2> SUFFICES ASSUME NEW f \in IndexNames
               PROVE  f \in IxFiles(d) <=> f \in IxFiles(c) \/ f = On(t, i)
    OBVIOUS
  <2>1. f = On(t, i) <=> f[1] = t /\ f[2] = i
    BY <1>1, NameFacts
  <2>2. CASE f[1] = t
    BY <2>1, <2>2, <1>2, <1>5 DEF IxFiles
  <2>3. CASE f[1] # t
    BY <2>1, <2>3, <1>2 DEF IxFiles
  <2> QED BY <2>2, <2>3
<1>8. IxFiles(d) = IxFiles(c) \cup {On(t, i)}
  BY <1>1, <1>7, NameFacts DEF IxFiles
<1> QED BY <1>2, <1>5, <1>6, <1>8 DEF FilesOf

\* An index is forgotten.
Loses(c, t, n, d) ==
    IsCatalogue(c) /\ t \in DOMAIN c /\ n \in DOMAIN c[t] /\ d = [c EXCEPT ![t] = Without(@, n)]

LEMMA ForgetFiles ==
    ASSUME NEW c, NEW t, NEW n, NEW d, Loses(c, t, n, d)
    PROVE  IsCatalogue(d) /\ FilesOf(d) = FilesOf(c) \ {On(t, c[t][n])}
<1> SUFFICES ASSUME IsCatalogue(c), t \in DOMAIN c, n \in DOMAIN c[t], d = [c EXCEPT ![t] = Without(@, n)]
             PROVE  IsCatalogue(d) /\ FilesOf(d) = FilesOf(c) \ {On(t, c[t][n])}
  BY DEF Loses
<1> DEFINE i == c[t][n]
           m == Len(c[t]) - 1
<1>1. /\ t \in Table /\ c[t] \in Seq(Index) /\ \A j, k \in DOMAIN c[t] : c[t][j] = c[t][k] => j = k
      /\ m \in Nat /\ DOMAIN c[t] = 1..(m + 1) /\ n \in 1..(m + 1) /\ i \in Index
  BY DEF IsCatalogue
<1>2. /\ DOMAIN d = DOMAIN c /\ d[t] = Without(c[t], n) /\ \A u \in DOMAIN c \ {t} : d[u] = c[u]
      /\ d = [u \in DOMAIN d |-> d[u]]
  BY DEF IsCatalogue
<1>3. /\ d[t] = [j \in 1..m |-> IF j < n THEN c[t][j] ELSE c[t][j + 1]]
  BY <1>2 DEF Without
<1> HIDE DEF m
<1>4. d[t] \in Seq(Index) /\ DOMAIN d[t] = 1..m
  <2>1. \A j \in 1..m : d[t][j] \in Index
    <3> SUFFICES ASSUME NEW j \in 1..m PROVE d[t][j] \in Index
      OBVIOUS
    <3>1. j \in DOMAIN c[t] /\ j + 1 \in DOMAIN c[t]
      BY <1>1
    <3>2. c[t][j] \in Index /\ c[t][j + 1] \in Index
      BY <1>1, <3>1
    <3> QED BY <3>2, <1>3
  <2>2. d[t] \in [1..m -> Index]
    BY <2>1, <1>3
  <2> QED BY <2>2, <1>1
<1>5. \A j, k \in 1..m : d[t][j] = d[t][k] => j = k
  BY <1>1, <1>3
<1>6. Members(d[t]) = Members(c[t]) \ {i}
  <2>1. \A x \in Members(d[t]) : x \in Members(c[t]) /\ x # i
    <3> SUFFICES ASSUME NEW j \in 1..m PROVE d[t][j] \in Members(c[t]) /\ d[t][j] # i
      BY <1>4 DEF Members
    <3>1. CASE j < n
      BY <3>1, <1>1, <1>3 DEF Members
    <3>2. CASE ~(j < n)
      <4>1. j + 1 \in DOMAIN c[t] /\ j + 1 # n /\ d[t][j] = c[t][j + 1]
        BY <3>2, <1>1, <1>3
      <4> QED BY <4>1, <1>1 DEF Members
    <3> QED BY <3>1, <3>2
  <2>2. \A x \in Members(c[t]) : x # i => x \in Members(d[t])
    <3> SUFFICES ASSUME NEW j \in 1..(m + 1), c[t][j] # i PROVE c[t][j] \in Members(d[t])
      BY <1>1 DEF Members
    <3>1. CASE j < n
      <4>1. j \in 1..m /\ d[t][j] = c[t][j]
        BY <3>1, <1>1, <1>3
      <4> QED BY <4>1, <1>4 DEF Members
    <3>2. CASE ~(j < n)
      <4>1. j - 1 \in 1..m /\ ~(j - 1 < n) /\ (j - 1) + 1 = j
        BY <3>2, <1>1
      <4>2. d[t][j - 1] = c[t][j]
        BY <4>1, <1>3
      <4> QED BY <4>1, <4>2, <1>4 DEF Members
    <3> QED BY <3>1, <3>2
  <2> QED BY <2>1, <2>2
<1> HIDE DEF i
<1>7. IsCatalogue(d)
  BY <1>1, <1>2, <1>4, <1>5 DEF IsCatalogue
<1>8. \A f \in IndexNames : f \in IxFiles(d) <=> f \in IxFiles(c) /\ f # On(t, i)
  <2> SUFFICES ASSUME NEW f \in IndexNames
               PROVE  f \in IxFiles(d) <=> f \in IxFiles(c) /\ f # On(t, i)
    OBVIOUS
  <2>1. f = On(t, i) <=> f[1] = t /\ f[2] = i
    BY <1>1, NameFacts
  <2>2. CASE f[1] = t
    BY <2>1, <2>2, <1>2, <1>6 DEF IxFiles
  <2>3. CASE f[1] # t
    BY <2>1, <2>3, <1>2 DEF IxFiles
  <2> QED BY <2>2, <2>3
<1>9. FilesOf(d) = FilesOf(c) \ {On(t, i)}
  <2>1. IxFiles(d) = IxFiles(c) \ {On(t, i)}
    BY <1>8 DEF IxFiles
  <2>2. On(t, i) \notin TableNames
    BY <1>1, NameFacts
  <2> QED BY <1>2, <2>1, <2>2 DEF FilesOf
<1> QED BY <1>7, <1>9 DEF i

-----------------------------------------------------------------------------
(***************************************************************************)
(* Lists of steps.                                                         *)
(***************************************************************************)
LEMMA StepFacts ==
    ASSUME NEW s \in Seq(Steps)
    PROVE  /\ Len(s) \in Nat /\ DOMAIN s = 1..Len(s)
           /\ \A k \in 1..Len(s) : s[k] \in Steps /\ s[k] = <<s[k][1], s[k][2]>> /\ s[k][1] \in Ops
           /\ s # <<>> => Len(s) >= 1 /\ Head(s) = s[1]
<1>1. Len(s) \in Nat /\ DOMAIN s = 1..Len(s) /\ \A k \in 1..Len(s) : s[k] \in Steps
  OBVIOUS
<1>2. \A x \in Steps : x = <<x[1], x[2]>> /\ x[1] \in Ops
  BY DEF Steps, Ops
<1>3. s # <<>> => Len(s) >= 1 /\ Head(s) = s[1]
  OBVIOUS
<1> QED BY <1>1, <1>2, <1>3

\* Nothing is changed, closed or destroyed by the last two steps.
LEMMA ShortFacts ==
    ASSUME NEW s \in Seq(Steps), Ordered(s), Len(s) <= 2
    PROVE  /\ \A op : ~Changing(s, op)
           /\ \A f : ~Doomed(s, f)
           /\ Pending(s, "close") = {} /\ Pending(s, "destroy") = {} /\ Pending(s, "create_index") = {}
           /\ \A cat : Meant(s, cat)
<1>0. Len(s) \in Nat /\ ~(Len(s) >= 3)
  BY StepFacts
<1>1. \A op : ~Changing(s, op)
  BY <1>0 DEF Changing
<1>2. \A k \in 1..Len(s) : s[k][1] \in {"write", "truncate"}
  <2> SUFFICES ASSUME NEW k \in 1..Len(s) PROVE s[k][1] \in {"write", "truncate"}
    OBVIOUS
  <2>1. k = Len(s) \/ k = Len(s) - 1
    BY <1>0
  <2> QED BY <2>1 DEF Ordered
<1>3. Pending(s, "close") = {} /\ Pending(s, "destroy") = {} /\ Pending(s, "create_index") = {}
  <2>1. \A op, f : \A k \in 1..Len(s) : s[k] = <<op, f>> => op \in {"write", "truncate"}
    BY <1>2
  <2> QED BY <2>1 DEF Pending
<1>4. \A f : ~Doomed(s, f)
  BY <1>1 DEF Doomed
<1> QED BY <1>1, <1>3, <1>4 DEF Meant

LEMMA EmptyList == <<>> \in Seq(Steps) /\ Ordered(<<>>) /\ Len(<<>>) = 0
<1>1. <<>> \in Seq(Steps) /\ Len(<<>>) = 0
  OBVIOUS
<1> QED BY <1>1 DEF Ordered

\* What the first step says of the others.
LEMMA HeadFacts ==
    ASSUME NEW s \in Seq(Steps), Ordered(s), s # <<>>
    PROVE  /\ Head(s) = <<Head(s)[1], Head(s)[2]>> /\ Head(s) = s[1]
           /\ Head(s)[1] = "write" => Len(s) = 1
           /\ Head(s)[1] = "truncate" => Len(s) = 2
           /\ Head(s)[1] \in Changes <=> Len(s) = 3
           /\ Head(s)[1] \in Changes => Change(s) = Head(s) /\ Changing(s, Head(s)[1])
           /\ Head(s)[1] = "create" => Len(s) = 4 /\ Change(s) = <<"enter", Head(s)[2]>>
           /\ Head(s)[1] = "create_index" => Len(s) = 4 /\ Change(s) = <<"fill", Head(s)[2]>>
           /\ Head(s)[1] \in {"close", "destroy"} =>
                  Len(s) > 3 /\ (Changing(s, "erase") \/ Changing(s, "forget"))
<1>1. PICK n : n = Len(s)
  OBVIOUS
<1>2. PICK h : h = Head(s)
  OBVIOUS
<1>3. n \in Nat /\ n >= 1 /\ h = s[1] /\ h = <<h[1], h[2]>>
  BY <1>1, <1>2, StepFacts
<1>4. /\ h[1] = "write" <=> 1 = n
      /\ h[1] = "truncate" <=> 1 = n - 1
      /\ h[1] \in Changes <=> 1 = n - 2
      /\ h[1] = "create" => 1 = n - 3 /\ s[2] = <<"enter", h[2]>>
      /\ h[1] = "create_index" => 1 = n - 3 /\ s[2] = <<"fill", h[2]>>
      /\ h[1] \in {"close", "destroy"} => s[n - 2][1] \in {"erase", "forget"}
  <2>1. 1 \in 1..n /\ 1 + 1 = 2
    BY <1>3
  <2> QED BY <2>1, <1>1, <1>2, <1>3 DEF Ordered
<1>5. Change(s) = s[n - 2] /\ \A op : Changing(s, op) <=> n >= 3 /\ s[n - 2][1] = op
  BY <1>1 DEF Change, Changing
<1>6. h[1] \in Changes => n = 3 /\ n - 2 = 1
  BY <1>3, <1>4
<1>7. h[1] \in {"create", "create_index"} => n = 4 /\ n - 2 = 2
  BY <1>3, <1>4
<1>8. h[1] \in {"close", "destroy"} => n > 3
  <2> SUFFICES ASSUME h[1] \in {"close", "destroy"} PROVE n > 3
    OBVIOUS
  <2>1. n # 1 /\ n - 1 # 1 /\ n - 2 # 1
    BY <1>4 DEF Changes
  <2> QED BY <2>1, <1>3
<1>9. h[1] \in Changes <=> n = 3
  BY <1>3, <1>4
<1>10. /\ h[1] = "write" => n = 1
       /\ h[1] = "truncate" => n = 2
  BY <1>3, <1>4
<1>11. h[1] \in Changes => Change(s) = h /\ Changing(s, h[1])
  BY <1>3, <1>5, <1>6
<1>12. /\ h[1] = "create" => n = 4 /\ Change(s) = <<"enter", h[2]>>
       /\ h[1] = "create_index" => n = 4 /\ Change(s) = <<"fill", h[2]>>
  BY <1>4, <1>5, <1>7
<1>13. h[1] \in {"close", "destroy"} => n > 3 /\ (Changing(s, "erase") \/ Changing(s, "forget"))
  <2>1. h[1] \in {"close", "destroy"} => n >= 3
    BY <1>3, <1>8
  <2> QED BY <2>1, <1>4, <1>5, <1>8
<1> QED BY <1>1, <1>2, <1>3, <1>9, <1>10, <1>11, <1>12, <1>13

\* What is closed or destroyed is so before the change.
LEMMA PendingFacts ==
    ASSUME NEW s \in Seq(Steps), Ordered(s),
           Len(s) = 3 \/ (Len(s) = 4 /\ Head(s)[1] \in {"create", "create_index"})
    PROVE  Pending(s, "close") = {} /\ Pending(s, "destroy") = {}
<1>1. Len(s) \in Nat /\ s # <<>> /\ Head(s) = s[1]
  <2>1. s # <<>>
    BY EmptyList
  <2> QED BY <2>1, StepFacts
<1>2. ASSUME NEW k \in 1..Len(s) PROVE s[k][1] \notin {"close", "destroy"}
  <2>1. CASE k > Len(s) - 3
    <3>1. k = Len(s) \/ k = Len(s) - 1 \/ k = Len(s) - 2
      BY <2>1, <1>1
    <3>2. s[k][1] = "write" \/ s[k][1] = "truncate" \/ s[k][1] \in Changes
      BY <3>1 DEF Ordered
    <3> QED BY <3>2 DEF Changes
  <2>2. CASE ~(k > Len(s) - 3)
    <3>1. PICK n : n = Len(s)
      OBVIOUS
    <3>2. n = 3 \/ n = 4
      BY <3>1
    <3>3. k = 1 /\ n = 4
      BY <2>2, <3>1, <3>2
    <3> QED BY <3>1, <3>3, <1>1
  <2> QED BY <2>1, <2>2
<1>3. \A op, f : \A k \in 1..Len(s) : s[k] = <<op, f>> => op \notin {"close", "destroy"}
  BY <1>2
<1> QED BY <1>3 DEF Pending

\* The first step is done.
LEMMA TailFacts ==
    ASSUME NEW s \in Seq(Steps), Ordered(s), s # <<>>, NEW r, r = Tail(s)
    PROVE  /\ r \in Seq(Steps) /\ Ordered(r) /\ Len(r) = Len(s) - 1
           /\ \A k \in 1..Len(r) : r[k] = s[k + 1]
           /\ \A op, f : f \in Pending(r, op) <=> f \in Pending(s, op) /\ <<op, f>> # Head(s)
           /\ \A op : Changing(r, op) <=> Changing(s, op) /\ Head(s)[1] \notin Changes
           /\ Head(s)[1] \notin Changes /\ Len(s) >= 3 => Change(r) = Change(s)
           /\ \A f : Doomed(r, f) <=> Doomed(s, f) /\ Head(s)[1] \notin Changes
<1>1. /\ Len(s) \in Nat /\ Len(s) >= 1 /\ Head(s) = s[1]
      /\ r \in Seq(Steps) /\ Len(r) = Len(s) - 1 /\ \A k \in 1..Len(r) : r[k] = s[k + 1]
  BY StepFacts
<1>2. \A k \in 1..Len(r) : k \in 1..Len(s) /\ k + 1 \in 1..Len(s)
  BY <1>1
<1>3. Ordered(r)
  <2>1. ASSUME NEW j \in 1..Len(r), NEW k \in 1..Len(r), r[j] = r[k] PROVE j = k
    <3>1. s[j + 1] = s[k + 1] /\ j + 1 \in 1..Len(s) /\ k + 1 \in 1..Len(s)
      BY <2>1, <1>1, <1>2
    <3>2. j + 1 = k + 1
      BY <3>1 DEF Ordered
    <3> QED BY <3>2
  <2>2. ASSUME NEW k \in 1..Len(r)
        PROVE  /\ r[k][1] = "write" <=> k = Len(r)
               /\ r[k][1] = "truncate" <=> k = Len(r) - 1
               /\ r[k][1] \in Changes <=> k = Len(r) - 2
               /\ r[k][1] = "create" => k = Len(r) - 3 /\ r[k + 1] = <<"enter", r[k][2]>>
               /\ r[k][1] = "create_index" => k = Len(r) - 3 /\ r[k + 1] = <<"fill", r[k][2]>>
               /\ r[k][1] = "close" => k < Len(r) - 3 /\ r[k + 1] = <<"destroy", r[k][2]>>
               /\ r[k][1] \in {"close", "destroy"} => r[Len(r) - 2][1] \in {"erase", "forget"}
    <3> DEFINE q == k + 1
    <3>1. q \in 1..Len(s) /\ r[k] = s[q] /\ k \in Nat /\ q = k + 1 /\ Len(r) = Len(s) - 1
      BY <1>1, <1>2
    <3> HIDE DEF q
    <3>2. /\ s[q][1] = "write" <=> q = Len(s)
          /\ s[q][1] = "truncate" <=> q = Len(s) - 1
          /\ s[q][1] \in Changes <=> q = Len(s) - 2
          /\ s[q][1] = "create" => q = Len(s) - 3 /\ s[q + 1] = <<"enter", s[q][2]>>
          /\ s[q][1] = "create_index" => q = Len(s) - 3 /\ s[q + 1] = <<"fill", s[q][2]>>
          /\ s[q][1] = "close" => q < Len(s) - 3 /\ s[q + 1] = <<"destroy", s[q][2]>>
          /\ s[q][1] \in {"close", "destroy"} => s[Len(s) - 2][1] \in {"erase", "forget"}
      BY <3>1 DEF Ordered
    <3>3. k + 1 <= Len(r) => r[k + 1] = s[q + 1]
      BY <3>1, <1>1
    <3>4. s[q][1] \in {"close", "destroy"} => r[Len(r) - 2] = s[Len(s) - 2]
      <4> SUFFICES ASSUME s[q][1] \in {"close", "destroy"} PROVE r[Len(r) - 2] = s[Len(s) - 2]
        OBVIOUS
      <4>1. q # Len(s) /\ q # Len(s) - 1 /\ q # Len(s) - 2
        BY <3>2 DEF Changes
      <4>2. Len(r) - 2 \in 1..Len(r) /\ (Len(r) - 2) + 1 = Len(s) - 2
        <5>1. PICK n \in Nat : n = Len(s)
          BY <1>1
        <5>2. q \in 1..n /\ q # n /\ q # n - 1 /\ q # n - 2
          BY <5>1, <4>1, <3>1
        <5>3. n > 3
          BY <5>2
        <5>4. PICK m : m = Len(r)
          OBVIOUS
        <5>5. m = n - 1
          BY <5>1, <5>4, <1>1
        <5>6. m - 2 \in 1..m /\ (m - 2) + 1 = n - 2
          BY <5>3, <5>5
        <5> QED BY <5>1, <5>4, <5>6
      <4> QED BY <4>2, <1>1
    <3> QED BY <3>1, <3>2, <3>3, <3>4, <1>1
  <2> QED BY <2>1, <2>2 DEF Ordered
<1>4. ASSUME NEW op, NEW f PROVE f \in Pending(r, op) <=> f \in Pending(s, op) /\ <<op, f>> # Head(s)
  <2>1. ASSUME f \in Pending(r, op) PROVE f \in Pending(s, op) /\ <<op, f>> # Head(s)
    <3>1. PICK k \in 1..Len(r) : r[k] = <<op, f>>
      BY <2>1 DEF Pending
    <3>2. k + 1 \in 1..Len(s) /\ s[k + 1] = <<op, f>> /\ 1 \in 1..Len(s) /\ k + 1 # 1
      BY <3>1, <1>1, <1>2
    <3>3. s[k + 1] # s[1]
      BY <3>2 DEF Ordered
    <3> QED BY <2>1, <3>2, <3>3, <1>1 DEF Pending
  <2>2. ASSUME f \in Pending(s, op), <<op, f>> # Head(s) PROVE f \in Pending(r, op)
    <3>1. PICK k \in 1..Len(s) : s[k] = <<op, f>>
      BY <2>2 DEF Pending
    <3>2. k # 1
      BY <2>2, <3>1, <1>1
    <3>3. k - 1 \in 1..Len(r) /\ (k - 1) + 1 = k
      BY <3>2, <1>1
    <3>4. r[k - 1] = <<op, f>>
      BY <3>1, <3>3, <1>1
    <3> QED BY <2>2, <3>3, <3>4 DEF Pending
  <2> QED BY <2>1, <2>2
<1>5. Head(s)[1] \in Changes <=> Len(s) = 3
  BY HeadFacts
<1>6. Head(s)[1] \notin Changes /\ Len(s) >= 3 => Change(r) = Change(s)
  <2> SUFFICES ASSUME Len(s) > 3 PROVE Change(r) = Change(s)
    BY <1>1, <1>5
  <2>1. Len(r) - 2 \in 1..Len(r) /\ (Len(r) - 2) + 1 = Len(s) - 2
    BY <1>1
  <2> QED BY <2>1, <1>1 DEF Change
<1>7. \A op : Changing(r, op) <=> Changing(s, op) /\ Head(s)[1] \notin Changes
  <2>1. CASE Len(s) <= 3
    <3>1. ~(Len(r) >= 3) /\ (Len(s) >= 3 => Len(s) = 3)
      BY <2>1, <1>1
    <3> QED BY <3>1, <1>5 DEF Changing
  <2>2. CASE ~(Len(s) <= 3)
    <3>1. Len(r) >= 3 /\ Len(s) >= 3 /\ Len(s) # 3
      BY <2>2, <1>1
    <3> QED BY <3>1, <1>5, <1>6 DEF Changing
  <2> QED BY <2>1, <2>2
<1>8. \A f : Doomed(r, f) <=> Doomed(s, f) /\ Head(s)[1] \notin Changes
  <2>1. CASE Head(s)[1] \in Changes
    BY <2>1, <1>7 DEF Doomed
  <2>2. CASE Head(s)[1] \notin Changes
    <3>1. \A op : Changing(s, op) => Len(s) >= 3
      BY DEF Changing
    <3> QED BY <2>2, <3>1, <1>6, <1>7 DEF Doomed
  <2> QED BY <2>1, <2>2
<1> QED BY <1>1, <1>3, <1>4, <1>6, <1>7, <1>8

-----------------------------------------------------------------------------
(***************************************************************************)
(* Descriptors.                                                            *)
(***************************************************************************)
LEMMA NamesFinite == IsFiniteSet(Names)
<1>1. IsFiniteSet(TableNames)
  <2> DEFINE f == [t \in Table |-> Of(t)]
  <2>1. f \in Surjection(Table, TableNames)
    BY DEF Surjection, TableNames
  <2> HIDE DEF f
  <2> QED BY <2>1, TableAssumption, FS_Surjection
<1>2. IsFiniteSet(IndexNames)
  <2> DEFINE f == [x \in Table \X Index |-> On(x[1], x[2])]
  <2>1. f \in [Table \X Index -> IndexNames]
    BY DEF IndexNames
  <2>2. \A g \in IndexNames : \E x \in Table \X Index : f[x] = g
    <3> SUFFICES ASSUME NEW t \in Table, NEW i \in Index
                 PROVE  \E x \in Table \X Index : f[x] = On(t, i)
      BY DEF IndexNames
    <3>1. <<t, i>> \in Table \X Index /\ f[<<t, i>>] = On(t, i)
      OBVIOUS
    <3> QED BY <3>1
  <2> HIDE DEF f
  <2>3. f \in Surjection(Table \X Index, IndexNames)
    BY <2>1, <2>2 DEF Surjection
  <2>4. IsFiniteSet(Table \X Index)
    BY TableAssumption, FS_Product
  <2> QED BY <2>3, <2>4, FS_Surjection
<1> QED BY <1>1, <1>2, FS_Union DEF Names

LEMMA FdsFacts ==
    /\ Cardinality(Names) \in Nat /\ Fds \subseteq Nat
    /\ IsFiniteSet(Fds) /\ Cardinality(Fds) = Cardinality(Names) + 1
<1>1. Cardinality(Names) \in Nat
  BY NamesFinite, FS_CardinalityType
<1>2. IsFiniteSet(0..Cardinality(Names)) /\
      Cardinality(0..Cardinality(Names)) = IF 0 > Cardinality(Names) THEN 0 ELSE Cardinality(Names) - 0 + 1
  BY <1>1, FS_Interval
<1> QED BY <1>1, <1>2 DEF Fds

\* There is a least descriptor that is not used.
LEMMA FreeFd ==
    ASSUME NEW open, DOMAIN open \subseteq Names
    PROVE  LowestFd(open) \in Unused(open)
<1> DEFINE unused == Unused(open)
<1>1. unused # {}
  <2> SUFFICES ASSUME \A n \in Fds : \E g \in DOMAIN open : open[g] = n PROVE FALSE
    BY DEF Unused
  <2> DEFINE h == [n \in Fds |-> CHOOSE g \in DOMAIN open : open[g] = n]
  <2>1. \A n \in Fds : h[n] \in DOMAIN open /\ open[h[n]] = n
    OBVIOUS
  <2>2. h \in [Fds -> Names]
    BY <2>1
  <2> HIDE DEF h
  <2>3. Cardinality(Names) < Cardinality(Fds)
    BY FdsFacts
  <2>4. IsFiniteSet(Names) /\ IsFiniteSet(Fds)
    BY NamesFinite, FdsFacts
  <2>5. \E x, y \in Fds : x # y /\ h[x] = h[y]
    BY <2>2, <2>3, <2>4, FS_PigeonHole
  <2> QED BY <2>1, <2>5
<1>2. \E n \in unused : \A m \in unused : n <= m
  <2> DEFINE Less == {x \in Nat \X Nat : x[1] < x[2]}
  <2>1. IsWellFoundedOn(Less, Nat)
    BY NatLessThanWellFounded DEF OpToRel
  <2>2. unused \subseteq Nat
    BY FdsFacts DEF Unused
  <2>3. \A m, n \in Nat : m < n => <<m, n>> \in Less
    OBVIOUS
  <2> HIDE DEF unused, Less
  <2>4. \E n \in unused : \A m \in unused : ~(<<m, n>> \in Less)
    BY <2>1, <2>2, <1>1, WFMin
  <2>5. PICK n \in unused : \A m \in unused : ~(<<m, n>> \in Less)
    BY <2>4
  <2>6. ASSUME NEW m \in unused PROVE n <= m
    <3>1. m \in Nat /\ n \in Nat
      BY <2>2
    <3>2. ~(m < n)
      BY <2>3, <2>5, <3>1
    <3> QED BY <3>1, <3>2
  <2> QED BY <2>6
<1>3. LowestFd(open) \in unused
  BY <1>2 DEF LowestFd
<1> QED BY <1>3

\* Open files, with different descriptors.
AreOpen(open) ==
    /\ open = [f \in DOMAIN open |-> open[f]] /\ DOMAIN open \subseteq Names
    /\ \A f, g \in DOMAIN open : open[f] = open[g] => f = g
    /\ \A f \in DOMAIN open : open[f] \in Fds

OneMore(open, f, n, new) ==
    /\ AreOpen(new) /\ DOMAIN new = DOMAIN open \cup {f}
    /\ new[f] = n /\ n \in Fds
    /\ \A g \in DOMAIN open : new[g] = open[g] /\ new[g] # n

\* A file is opened, by any descriptor that is not used.
LEMMA OpenFacts ==
    ASSUME NEW open, AreOpen(open), NEW f \in Names, f \notin DOMAIN open, NEW n \in Unused(open)
    PROVE  OneMore(open, f, n, With(open, f, n))
<1> DEFINE new == With(open, f, n)
<1>1. n \in Fds /\ \A g \in DOMAIN open : open[g] # n
  BY DEF Unused
<1>2. new = [g \in DOMAIN open \cup {f} |-> IF g = f THEN n ELSE open[g]]
  BY DEF With
<1> HIDE DEF new
<1>3. /\ new = [g \in DOMAIN new |-> new[g]] /\ DOMAIN new = DOMAIN open \cup {f} /\ new[f] = n
      /\ \A g \in DOMAIN open : new[g] = open[g]
  BY <1>2
<1>4. AreOpen(new)
  BY <1>1, <1>3 DEF AreOpen
<1>5. OneMore(open, f, n, new)
  BY <1>1, <1>3, <1>4 DEF OneMore
<1> QED BY <1>5 DEF new

\* By the least one.
LEMMA OpenLeast ==
    ASSUME NEW open, AreOpen(open), NEW f \in Names, f \notin DOMAIN open
    PROVE  OneMore(open, f, LowestFd(open), open_file(open, f))
<1>1. LowestFd(open) \in Unused(open)
  BY FreeFd DEF AreOpen
<1> QED BY <1>1, OpenFacts DEF open_file

\* The files of a catalogue can be opened.
LEMMA OpenAll ==
    ASSUME NEW files, files \subseteq Names, NEW open,
           open = CHOOSE o \in [files -> Fds] : \A f, g \in files : o[f] = o[g] => f = g
    PROVE  open \in [files -> Fds] /\ \A f, g \in files : open[f] = open[g] => f = g
<1> DEFINE N == Cardinality(Names)
<1>1. N \in Nat /\ ExistsBijection(1..N, Names)
  BY NamesFinite, FS_CardinalityType
<1>2. PICK b : b \in Bijection(1..N, Names)
  BY <1>1 DEF ExistsBijection
<1>3. b \in [1..N -> Names] /\ \A f \in Names : \E k \in 1..N : b[k] = f
  BY <1>2 DEF Bijection, Surjection
<1> DEFINE o == [f \in files |-> CHOOSE k \in 1..N : b[k] = f]
<1>4. \A f \in files : o[f] \in 1..N /\ b[o[f]] = f
  BY <1>3
<1>5. 1..N \subseteq Fds
  BY <1>1 DEF Fds
<1>6. o \in [files -> Fds] /\ \A f, g \in files : o[f] = o[g] => f = g
  BY <1>4, <1>5
<1> HIDE DEF o
<1>7. \E x \in [files -> Fds] : \A f, g \in files : x[f] = x[g] => f = g
  BY <1>6
<1> QED BY <1>7

-----------------------------------------------------------------------------
(***************************************************************************)
(* The lists that statements start with.                                   *)
(***************************************************************************)
LEMMA FlushList ==
    ASSUME NEW s, s = Flush
    PROVE  s \in Seq(Steps) /\ Ordered(s) /\ Len(s) = 2
<1>1. /\ Len(s) = 2 /\ s[1] = <<"truncate", Meta>> /\ s[2] = <<"write", Meta>>
      /\ s \in Seq(Steps)
  BY DEF Flush, Steps, MetaOps
<1>2. \A k \in 1..2 : k = 1 \/ k = 2
  OBVIOUS
<1>3. /\ \A j, k \in 1..2 : s[j] = s[k] => j = k
      /\ \A k \in 1..2 : /\ s[k][1] = "write" <=> k = 2
                         /\ s[k][1] = "truncate" <=> k = 2 - 1
                         /\ s[k][1] \notin Changes /\ k # 2 - 2
                         /\ s[k][1] \notin {"create", "create_index", "close", "destroy"}
  BY <1>1, <1>2 DEF Changes
<1> QED BY <1>1, <1>3 DEF Ordered

CreateShape(s, x, y) ==
    /\ Len(s) = 4 /\ s[1] = x /\ s[2] = y /\ s[3] = <<"truncate", Meta>> /\ s[4] = <<"write", Meta>>
    /\ s \in Seq(Steps)

LEMMA CreateHasShape ==
    ASSUME NEW x \in Steps, NEW y \in Steps
    PROVE  CreateShape(<<x, y>> \o Flush, x, y)
<1>0. PICK s : s = <<x, y>> \o Flush
  OBVIOUS
<1>1. /\ Len(s) = 4 /\ s[1] = x /\ s[2] = y
      /\ s[3] = <<"truncate", Meta>> /\ s[4] = <<"write", Meta>>
  BY <1>0 DEF Flush
<1>2. Flush \in Seq(Steps) /\ <<x, y>> \in Seq(Steps)
  BY FlushList
<1>3. s \in Seq(Steps)
  BY <1>0, <1>2
<1>4. CreateShape(s, x, y)
  BY <1>1, <1>3 DEF CreateShape
<1> QED BY <1>0, <1>4

CreateOps(a, b) == (a = "create" /\ b = "enter") \/ (a = "create_index" /\ b = "fill")

CreateOrder(s, a, b, f) ==
    /\ s \in Seq(Steps) /\ Ordered(s) /\ s[1][1] = a /\ Change(s) = <<b, f>>
    /\ \A op : Changing(s, op) <=> op = b
    /\ Pending(s, "close") = {} /\ Pending(s, "destroy") = {}
    /\ Pending(s, "create_index") = IF a = "create_index" THEN {f} ELSE {}

\* CREATE TABLE and CREATE INDEX.
LEMMA CreateList ==
    ASSUME NEW f \in Names, NEW a, NEW b, CreateOps(a, b), NEW s, CreateShape(s, <<a, f>>, <<b, f>>)
    PROVE  CreateOrder(s, a, b, f)
<1>0. (a = "create" /\ b = "enter") \/ (a = "create_index" /\ b = "fill")
  BY DEF CreateOps
<1>1. /\ Len(s) = 4 /\ s[1] = <<a, f>> /\ s[2] = <<b, f>>
      /\ s[3] = <<"truncate", Meta>> /\ s[4] = <<"write", Meta>>
  BY DEF CreateShape
<1>2. s \in Seq(Steps)
  BY DEF CreateShape
<1>3. \A k \in 1..4 : k = 1 \/ k = 2 \/ k = 3 \/ k = 4
  OBVIOUS
<1>4. /\ \A j, k \in 1..4 : s[j] = s[k] => j = k
      /\ \A k \in 1..4 : /\ s[k][1] = "write" <=> k = 4
                         /\ s[k][1] = "truncate" <=> k = 3
                         /\ s[k][1] \in Changes <=> k = 2
                         /\ s[k][1] = "create" => k = 1 /\ s[2] = <<"enter", s[k][2]>>
                         /\ s[k][1] = "create_index" => k = 1 /\ s[2] = <<"fill", s[k][2]>>
                         /\ s[k][1] \notin {"close", "destroy"}
  <2>1. s[1] # s[2] /\ s[1] # s[3] /\ s[1] # s[4] /\ s[2] # s[3] /\ s[2] # s[4] /\ s[3] # s[4]
    BY <1>0, <1>1
  <2>2. s[1][1] = a /\ s[1][2] = f /\ s[2][1] = b /\ s[3][1] = "truncate" /\ s[4][1] = "write"
    BY <1>1
  <2>3. \A j, k \in 1..4 : s[j] = s[k] => j = k
    BY <2>1, <1>3
  <2>4. ASSUME NEW k \in 1..4
        PROVE  /\ s[k][1] = "write" <=> k = 4
               /\ s[k][1] = "truncate" <=> k = 3
               /\ s[k][1] \in Changes <=> k = 2
               /\ s[k][1] = "create" => k = 1 /\ s[2] = <<"enter", s[k][2]>>
               /\ s[k][1] = "create_index" => k = 1 /\ s[2] = <<"fill", s[k][2]>>
               /\ s[k][1] \notin {"close", "destroy"}
    <3>1. CASE k = 1
      BY <3>1, <2>2, <1>0, <1>1 DEF Changes
    <3>2. CASE k = 2
      BY <3>2, <2>2, <1>0, <1>1 DEF Changes
    <3>3. CASE k = 3
      BY <3>3, <2>2 DEF Changes
    <3>4. CASE k = 4
      BY <3>4, <2>2 DEF Changes
    <3> QED BY <1>3, <3>1, <3>2, <3>3, <3>4
  <2> QED BY <2>3, <2>4
<1>5. Ordered(s)
  <2>1. 4 - 1 = 3 /\ 4 - 2 = 2 /\ 4 - 3 = 1 /\ 1 + 1 = 2
    OBVIOUS
  <2> QED BY <2>1, <1>1, <1>4 DEF Ordered
<1>6. Change(s) = <<b, f>> /\ \A op : Changing(s, op) <=> op = b
  <2>1. Len(s) - 2 = 2 /\ Len(s) >= 3
    BY <1>1
  <2> QED BY <2>1, <1>1 DEF Change, Changing
<1>7. Pending(s, "close") = {} /\ Pending(s, "destroy") = {}
  <2>1. s # <<>> /\ Head(s) = s[1]
    BY <1>1, <1>2, StepFacts
  <2>2. Head(s)[1] = a
    BY <2>1, <1>1
  <2>3. Head(s)[1] \in {"create", "create_index"}
    BY <2>2, <1>0
  <2> QED BY <2>3, <1>1, <1>2, <1>5, PendingFacts
<1>8. Pending(s, "create_index") = IF a = "create_index" THEN {f} ELSE {}
  <2>1. ASSUME NEW g, NEW k \in 1..4
        PROVE  s[k] = <<"create_index", g>> <=> k = 1 /\ a = "create_index" /\ g = f
    <3>1. s[k] = <<"create_index", g>> => s[k][1] = "create_index"
      OBVIOUS
    <3>2. s[k] = <<"create_index", g>> => k = 1
      BY <3>1, <1>4
    <3>3. s[1] = <<"create_index", g>> <=> a = "create_index" /\ g = f
      BY <1>1
    <3> QED BY <3>2, <3>3
  <2>2. \A g : (\E k \in 1..4 : s[k] = <<"create_index", g>>) <=> a = "create_index" /\ g = f
    <3>1. 1 \in 1..4
      OBVIOUS
    <3> QED BY <2>1, <3>1
  <2>3. \A g : g \in Pending(s, "create_index") <=> a = "create_index" /\ g = f
    BY <2>2, <1>1 DEF Pending
  <2> QED BY <2>3
<1>9. s[1][1] = a
  BY <1>1
<1> QED BY <1>2, <1>5, <1>6, <1>7, <1>8, <1>9 DEF CreateOrder

\* A list that closes and destroys m files, each before the next.
DropShape(s, m, files, op, f) ==
    LET n == Len(s) IN
    /\ s \in Seq(Steps) /\ n = 2 * m + 3
    /\ \A k \in 1..(2 * m) : \E j \in 1..m : k = 2 * j - 1 \/ k = 2 * j
    /\ \A j \in 1..m : /\ 2 * j - 1 \in 1..(2 * m) /\ s[2 * j - 1] = <<"close", files[j]>>
                       /\ 2 * j \in 1..(2 * m) /\ s[2 * j] = <<"destroy", files[j]>>
    /\ s[n - 2] = <<op, f>> /\ s[n - 1] = <<"truncate", Meta>> /\ s[n] = <<"write", Meta>>

LEMMA Halves ==
    ASSUME NEW m \in Nat
    PROVE  /\ \A k \in 1..(2 * m) : /\ (k + 1) \div 2 \in 1..m
                                    /\ k = 2 * ((k + 1) \div 2) - 1 \/ k = 2 * ((k + 1) \div 2)
           /\ \A j \in 1..m : /\ 2 * j - 1 \in 1..(2 * m) /\ (2 * j - 1) % 2 = 1
                              /\ ((2 * j - 1) + 1) \div 2 = j
                              /\ 2 * j \in 1..(2 * m) /\ (2 * j) % 2 = 0 /\ (2 * j + 1) \div 2 = j
<1>1. \A k \in 1..(2 * m) : /\ (k + 1) \div 2 \in 1..m
                            /\ k = 2 * ((k + 1) \div 2) - 1 \/ k = 2 * ((k + 1) \div 2)
  OBVIOUS
<1>2. \A j \in 1..m : 2 * j - 1 \in 1..(2 * m) /\ 2 * j \in 1..(2 * m)
  OBVIOUS
<1>3. \A j \in 1..m : (2 * j - 1) % 2 = 1 /\ (2 * j) % 2 = 0
  OBVIOUS
<1>4. \A j \in 1..m : ((2 * j - 1) + 1) \div 2 = j /\ (2 * j + 1) \div 2 = j
  OBVIOUS
<1> QED BY <1>1, <1>2, <1>3, <1>4

\* The list c of p steps, and three more.
Longer(s, c, p, x, y, z) ==
    /\ s \in Seq(Steps) /\ Len(s) = p + 3 /\ \A k \in 1..p : s[k] = c[k]
    /\ s[p + 1] = x /\ s[p + 2] = y /\ s[p + 3] = z

LEMMA ThreeMore ==
    ASSUME NEW c \in Seq(Steps), NEW p \in Nat, Len(c) = p,
           NEW x \in Steps, NEW y \in Steps, NEW z \in Steps
    PROVE  Longer(c \o <<x>> \o <<y, z>>, c, p, x, y, z)
<1>0. PICK s : s = c \o <<x>> \o <<y, z>>
  OBVIOUS
<1>1. PICK u : u = <<x>>
  OBVIOUS
<1>2. PICK v : v = <<y, z>>
  OBVIOUS
<1>3. u \in Seq(Steps) /\ Len(u) = 1 /\ u[1] = x /\ v \in Seq(Steps) /\ Len(v) = 2 /\ v[1] = y /\ v[2] = z
  BY <1>1, <1>2
<1>4. PICK d : d = c \o u
  OBVIOUS
<1>5. s = d \o v
  BY <1>0, <1>1, <1>2, <1>4
<1>6. d \in Seq(Steps) /\ Len(d) = p + 1 /\ (\A k \in 1..p : d[k] = c[k]) /\ d[p + 1] = x
  <2>1. /\ c \o u \in Seq(Steps) /\ Len(c \o u) = Len(c) + Len(u)
        /\ \A i \in 1..(Len(c) + Len(u)) : (c \o u)[i] = IF i <= Len(c) THEN c[i] ELSE u[i - Len(c)]
    BY <1>3, ConcatProperties
  <2>2. d \in Seq(Steps) /\ Len(d) = p + 1 /\ \A i \in 1..(p + 1) : d[i] = IF i <= p THEN c[i] ELSE u[i - p]
    BY <2>1, <1>3, <1>4
  <2>3. p + 1 \in 1..(p + 1) /\ ~(p + 1 <= p) /\ (p + 1) - p = 1 /\ \A k \in 1..p : k \in 1..(p + 1) /\ k <= p
    OBVIOUS
  <2> QED BY <2>2, <2>3, <1>3
<1>7. s \in Seq(Steps) /\ Len(s) = p + 3 /\ (\A k \in 1..(p + 1) : s[k] = d[k]) /\ s[p + 2] = y /\ s[p + 3] = z
  <2>1. /\ d \o v \in Seq(Steps) /\ Len(d \o v) = Len(d) + Len(v)
        /\ \A i \in 1..(Len(d) + Len(v)) : (d \o v)[i] = IF i <= Len(d) THEN d[i] ELSE v[i - Len(d)]
    BY <1>3, <1>6, ConcatProperties
  <2>2. PICK q \in Nat : q = p + 1
    OBVIOUS
  <2>3. s \in Seq(Steps) /\ Len(s) = q + 2 /\ \A i \in 1..(q + 2) : s[i] = IF i <= q THEN d[i] ELSE v[i - q]
    BY <2>1, <2>2, <1>3, <1>5, <1>6
  <2>4. /\ q + 1 \in 1..(q + 2) /\ ~(q + 1 <= q) /\ (q + 1) - q = 1
        /\ q + 2 \in 1..(q + 2) /\ ~(q + 2 <= q) /\ (q + 2) - q = 2
        /\ \A k \in 1..q : k \in 1..(q + 2) /\ k <= q
    OBVIOUS
  <2>5. s[q + 1] = y /\ s[q + 2] = z /\ \A k \in 1..q : s[k] = d[k]
    BY <2>3, <2>4, <1>3
  <2>6. q + 1 = p + 2 /\ q + 2 = p + 3
    BY <2>2
  <2> QED BY <2>2, <2>3, <2>5, <2>6
<1>8. \A k \in 1..p : k \in 1..(p + 1)
  OBVIOUS
<1>9. p + 1 \in 1..(p + 1)
  OBVIOUS
<1>10. Longer(s, c, p, x, y, z)
  BY <1>6, <1>7, <1>8, <1>9 DEF Longer
<1> QED BY <1>0, <1>10

LEMMA DropHasShape ==
    ASSUME NEW m \in Nat, NEW files \in [1..m -> Names],
           NEW op \in {"erase", "forget"}, NEW f \in Names
    PROVE  DropShape(CloseAndDestroy(files) \o <<<<op, f>>>> \o Flush, m, files, op, f)
<1>0. PICK s : s = CloseAndDestroy(files) \o <<<<op, f>>>> \o Flush
  OBVIOUS
<1>1. PICK c : c = CloseAndDestroy(files)
  OBVIOUS
<1>2. PICK p : p = 2 * m
  OBVIOUS
<1>3. Len(files) = m
  OBVIOUS
<1>4. /\ c = [k \in 1..p |-> <<IF k % 2 = 1 THEN "close" ELSE "destroy", files[(k + 1) \div 2]>>]
      /\ p \in Nat
  BY <1>1, <1>2, <1>3 DEF CloseAndDestroy
<1>5. \A j \in 1..m : c[2 * j - 1] = <<"close", files[j]>> /\ c[2 * j] = <<"destroy", files[j]>>
  BY <1>2, <1>4, Halves
<1>6. c \in Seq(Steps) /\ Len(c) = p
  <2>1. \A k \in 1..p : c[k] \in Steps
    <3> SUFFICES ASSUME NEW k \in 1..p PROVE c[k] \in Steps
      OBVIOUS
    <3>1. files[(k + 1) \div 2] \in Names
      BY <1>2, Halves
    <3>2. PICK g \in Names : g = files[(k + 1) \div 2]
      BY <3>1
    <3>3. c[k] = <<"close", g>> \/ c[k] = <<"destroy", g>>
      BY <3>2, <1>4
    <3>4. "close" \in FileOps /\ "destroy" \in FileOps
      BY DEF FileOps
    <3>5. <<"close", g>> \in Steps /\ <<"destroy", g>> \in Steps
      BY <3>4 DEF Steps
    <3> QED BY <3>3, <3>5
  <2>2. c \in [1..p -> Steps] /\ p \in Nat
    BY <2>1, <1>4
  <2> QED BY <2>2
<1>7. PICK x, y, z : x = <<op, f>> /\ y = <<"truncate", Meta>> /\ z = <<"write", Meta>>
  OBVIOUS
<1>8. x \in Steps /\ y \in Steps /\ z \in Steps
  BY <1>7 DEF Steps, FileOps, MetaOps, Changes
<1>9. s = c \o <<x>> \o <<y, z>>
  BY <1>0, <1>1, <1>7 DEF Flush
<1>10. /\ s \in Seq(Steps) /\ Len(s) = p + 3 /\ \A k \in 1..p : s[k] = c[k]
       /\ s[p + 1] = x /\ s[p + 2] = y /\ s[p + 3] = z
  <2>1. p \in Nat
    BY <1>4
  <2>2. Longer(c \o <<x>> \o <<y, z>>, c, p, x, y, z)
    BY <2>1, <1>6, <1>8, ThreeMore
  <2>3. Longer(s, c, p, x, y, z)
    BY <2>2, <1>9
  <2> QED BY <2>3 DEF Longer
<1>11. PICK n : n = Len(s)
  OBVIOUS
<1>12. n = p + 3 /\ n - 2 = p + 1 /\ n - 1 = p + 2
  BY <1>4, <1>10, <1>11
<1>13. \A j \in 1..m : /\ 2 * j - 1 \in 1..p /\ s[2 * j - 1] = <<"close", files[j]>>
                       /\ 2 * j \in 1..p /\ s[2 * j] = <<"destroy", files[j]>>
  BY <1>2, <1>5, <1>10, Halves
<1>14. \A k \in 1..p : \E j \in 1..m : k = 2 * j - 1 \/ k = 2 * j
  BY <1>2, Halves
<1>15. s[n - 2] = <<op, f>> /\ s[n - 1] = <<"truncate", Meta>> /\ s[n] = <<"write", Meta>>
  BY <1>7, <1>10, <1>12
<1>16. DropShape(s, m, files, op, f)
  BY <1>2, <1>10, <1>11, <1>12, <1>13, <1>14, <1>15 DEF DropShape
<1> QED BY <1>0, <1>16

\* DROP TABLE and DROP INDEX.
LEMMA DropOrdered ==
    ASSUME NEW m \in Nat, NEW files \in [1..m -> Names], \A j, k \in 1..m : files[j] = files[k] => j = k,
           NEW op \in {"erase", "forget"}, NEW f \in Names, NEW s, DropShape(s, m, files, op, f)
    PROVE  /\ s \in Seq(Steps) /\ Ordered(s) /\ Len(s) >= 3
           /\ Change(s) = <<op, f>> /\ \A o : Changing(s, o) <=> o = op
           /\ Pending(s, "close") = Members(files) /\ Pending(s, "destroy") = Members(files)
<1>1. PICK n : n = Len(s)
  OBVIOUS
<1>7. /\ s \in Seq(Steps) /\ Len(s) = n /\ n = 2 * m + 3
      /\ s[n - 2] = <<op, f>> /\ s[n - 1] = <<"truncate", Meta>> /\ s[n] = <<"write", Meta>>
  BY <1>1 DEF DropShape
<1>8. \A j \in 1..m : /\ s[2 * j - 1] = <<"close", files[j]>> /\ s[2 * j] = <<"destroy", files[j]>>
                      /\ 2 * j - 1 \in 1..(2 * m) /\ 2 * j \in 1..(2 * m)
  BY DEF DropShape
<1>2. \A k \in 1..(2 * m) : \E j \in 1..m : k = 2 * j - 1 \/ k = 2 * j
  BY DEF DropShape
<1>9. n \in Nat /\ n - 2 = 2 * m + 1 /\ n - 1 = 2 * m + 2 /\ n - 3 = 2 * m /\ n >= 3
  BY <1>7
<1>10. ASSUME NEW k \in 1..n
       PROVE  \/ k = n /\ s[k] = <<"write", Meta>>
              \/ k = n - 1 /\ s[k] = <<"truncate", Meta>>
              \/ k = n - 2 /\ s[k] = <<op, f>>
              \/ \E j \in 1..m : k = 2 * j - 1 /\ s[k] = <<"close", files[j]>>
              \/ \E j \in 1..m : k = 2 * j /\ s[k] = <<"destroy", files[j]>>
  <2>1. k = n \/ k = n - 1 \/ k = n - 2 \/ k \in 1..(2 * m)
    BY <1>9
  <2>2. CASE k \in 1..(2 * m)
    <3>1. PICK j \in 1..m : k = 2 * j - 1 \/ k = 2 * j
      BY <2>2, <1>2
    <3> QED BY <3>1, <1>8
  <2> QED BY <2>1, <2>2, <1>7, <1>9
<1>11. \A j, k \in 1..n : s[j] = s[k] => j = k
  <2> SUFFICES ASSUME NEW j \in 1..n, NEW k \in 1..n, s[j] = s[k] PROVE j = k
    OBVIOUS
  <2>1. CASE \E i \in 1..m : j = 2 * i - 1 /\ s[j] = <<"close", files[i]>>
    BY <2>1, <1>10
  <2>2. CASE \E i \in 1..m : j = 2 * i /\ s[j] = <<"destroy", files[i]>>
    BY <2>2, <1>10
  <2>3. CASE s[j][1] \notin {"close", "destroy"}
    BY <2>3, <1>10
  <2> QED BY <2>1, <2>2, <2>3, <1>10
<1>12. ASSUME NEW k \in 1..n
       PROVE  /\ s[k][1] = "write" <=> k = n
              /\ s[k][1] = "truncate" <=> k = n - 1
              /\ s[k][1] \in Changes <=> k = n - 2
              /\ s[k][1] # "create" /\ s[k][1] # "create_index"
              /\ s[k][1] = "close" => k < n - 3 /\ s[k + 1] = <<"destroy", s[k][2]>>
              /\ s[k][1] \in {"close", "destroy"} => s[n - 2][1] \in {"erase", "forget"}
  <2>0. s[n - 2][1] \in {"erase", "forget"}
    BY <1>7, <1>9
  <2>1. CASE k = n /\ s[k] = <<"write", Meta>>
    BY <2>1, <1>9 DEF Changes
  <2>2. CASE k = n - 1 /\ s[k] = <<"truncate", Meta>>
    BY <2>2, <1>9 DEF Changes
  <2>3. CASE k = n - 2 /\ s[k] = <<op, f>>
    BY <2>3, <1>9 DEF Changes
  <2>4. ASSUME NEW j \in 1..m, k = 2 * j - 1, s[k] = <<"close", files[j]>>
        PROVE  /\ s[k][1] = "close" /\ k < n - 3 /\ s[k + 1] = <<"destroy", s[k][2]>>
               /\ k # n /\ k # n - 1 /\ k # n - 2
    <3>1. s[k][1] = "close" /\ s[k][2] = files[j] /\ k + 1 = 2 * j
      BY <2>4
    <3>2. s[k + 1] = <<"destroy", files[j]>>
      BY <3>1, <1>8
    <3>3. k < n - 3
      BY <2>4, <1>9
    <3> QED BY <3>1, <3>2, <3>3, <1>9
  <2>5. ASSUME NEW j \in 1..m, k = 2 * j, s[k] = <<"destroy", files[j]>>
        PROVE  s[k][1] = "destroy" /\ k # n /\ k # n - 1 /\ k # n - 2
    BY <2>5, <1>9
  <2>6. CASE \E j \in 1..m : k = 2 * j - 1 /\ s[k] = <<"close", files[j]>>
    BY <2>0, <2>4, <2>6 DEF Changes
  <2>7. CASE \E j \in 1..m : k = 2 * j /\ s[k] = <<"destroy", files[j]>>
    BY <2>0, <2>5, <2>7 DEF Changes
  <2> QED BY <2>1, <2>2, <2>3, <2>6, <2>7, <1>10
<1>13. Ordered(s)
  BY <1>7, <1>11, <1>12 DEF Ordered
<1>14. Change(s) = <<op, f>> /\ Len(s) >= 3 /\ \A o : Changing(s, o) <=> o = op
  BY <1>1, <1>7, <1>9 DEF Change, Changing
<1>15. Pending(s, "close") = Members(files) /\ Pending(s, "destroy") = Members(files)
  <2>1. \A g \in Names : (\E k \in 1..n : s[k] = <<"close", g>>) <=> \E j \in 1..m : files[j] = g
    <3> SUFFICES ASSUME NEW g \in Names
                 PROVE  (\E k \in 1..n : s[k] = <<"close", g>>) <=> \E j \in 1..m : files[j] = g
      OBVIOUS
    <3>1. ASSUME NEW k \in 1..n, s[k] = <<"close", g>> PROVE \E j \in 1..m : files[j] = g
      BY <3>1, <1>10
    <3>2. ASSUME NEW j \in 1..m, files[j] = g PROVE \E k \in 1..n : s[k] = <<"close", g>>
      <4>1. 2 * j - 1 \in 1..n
        BY <1>8, <1>9
      <4> QED BY <3>2, <4>1, <1>8
    <3> QED BY <3>1, <3>2
  <2>2. \A g \in Names : (\E k \in 1..n : s[k] = <<"destroy", g>>) <=> \E j \in 1..m : files[j] = g
    <3> SUFFICES ASSUME NEW g \in Names
                 PROVE  (\E k \in 1..n : s[k] = <<"destroy", g>>) <=> \E j \in 1..m : files[j] = g
      OBVIOUS
    <3>1. ASSUME NEW k \in 1..n, s[k] = <<"destroy", g>> PROVE \E j \in 1..m : files[j] = g
      BY <3>1, <1>10
    <3>2. ASSUME NEW j \in 1..m, files[j] = g PROVE \E k \in 1..n : s[k] = <<"destroy", g>>
      <4>1. 2 * j \in 1..n
        BY <1>8, <1>9
      <4> QED BY <3>2, <4>1, <1>8
    <3> QED BY <3>1, <3>2
  <2>3. \A g : g \in Members(files) <=> g \in Names /\ \E j \in 1..m : files[j] = g
    BY DEF Members
  <2>4. \A g : g \in Pending(s, "close") <=> g \in Names /\ \E k \in 1..n : s[k] = <<"close", g>>
    BY <1>1 DEF Pending
  <2>5. \A g : g \in Pending(s, "destroy") <=> g \in Names /\ \E k \in 1..n : s[k] = <<"destroy", g>>
    BY <1>1 DEF Pending
  <2> QED BY <2>1, <2>2, <2>3, <2>4, <2>5
<1> QED BY <1>7, <1>13, <1>14, <1>15

-----------------------------------------------------------------------------
(***************************************************************************)
(* The next step of a statement.                                           *)
(***************************************************************************)
LEMMA AtFacts ==
    ASSUME Inv, NEW op, At(op)
    PROVE  /\ server = "up" /\ todo \in Seq(Steps) /\ Ordered(todo) /\ todo # <<>> /\ Len(todo) \in Nat
           /\ Head(todo) = <<op, File>> /\ todo[1] = <<op, File>> /\ Head(todo)[1] = op /\ todo[1][1] = op
           /\ op \in Ops
           /\ File \in Names => File \in Pending(todo, op)
<1>1. server = "up" /\ todo \in Seq(Steps) /\ Ordered(todo) /\ todo # <<>> /\ Head(todo)[1] = op
  BY DEF At, Inv, Types
<1>2. /\ Len(todo) \in Nat /\ Len(todo) >= 1 /\ Head(todo) = todo[1]
      /\ todo[1] = <<todo[1][1], todo[1][2]>> /\ todo[1][1] \in Ops
  BY <1>1, StepFacts
<1>3. todo[1] = <<op, File>>
  BY <1>1, <1>2 DEF File
<1>4. File \in Names => File \in Pending(todo, op)
  <2>1. 1 \in 1..Len(todo)
    BY <1>2
  <2> QED BY <2>1, <1>3 DEF Pending
<1> QED BY <1>1, <1>2, <1>3, <1>4

LEMMA DoneFacts ==
    ASSUME Inv, NEW op, At(op), Done
    PROVE  /\ todo' \in Seq(Steps) /\ Ordered(todo') /\ Len(todo') = Len(todo) - 1
           /\ todo' # <<>> => Len(todo) >= 2 /\ todo'[1] = todo[2]
           /\ \A o, f : f \in Pending(todo', o) <=> f \in Pending(todo, o) /\ ~(o = op /\ f = File)
           /\ \A o : Changing(todo', o) <=> Changing(todo, o) /\ op \notin Changes
           /\ op \notin Changes /\ Len(todo) >= 3 => Change(todo') = Change(todo)
           /\ \A f : Doomed(todo', f) <=> Doomed(todo, f) /\ op \notin Changes
<1>1. todo \in Seq(Steps) /\ Ordered(todo) /\ todo # <<>> /\ Head(todo) = <<op, File>> /\ Head(todo)[1] = op
  BY AtFacts
<1>2. PICK s : s = todo
  OBVIOUS
<1>3. PICK r : r = todo'
  OBVIOUS
<1>4. s \in Seq(Steps) /\ Ordered(s) /\ s # <<>> /\ r = Tail(s)
  BY <1>1, <1>2, <1>3 DEF Done
<1>5. /\ r \in Seq(Steps) /\ Ordered(r) /\ Len(r) = Len(s) - 1
      /\ \A k \in 1..Len(r) : r[k] = s[k + 1]
      /\ \A o, f : f \in Pending(r, o) <=> f \in Pending(s, o) /\ <<o, f>> # Head(s)
      /\ \A o : Changing(r, o) <=> Changing(s, o) /\ Head(s)[1] \notin Changes
      /\ Head(s)[1] \notin Changes /\ Len(s) >= 3 => Change(r) = Change(s)
      /\ \A f : Doomed(r, f) <=> Doomed(s, f) /\ Head(s)[1] \notin Changes
  BY <1>4, TailFacts
<1>6. Head(s) = <<op, File>> /\ Head(s)[1] = op
  BY <1>1, <1>2
<1>7. r # <<>> => Len(s) >= 2 /\ r[1] = s[2]
  <2>1. r # <<>> => Len(r) >= 1 /\ Len(r) \in Nat
    BY <1>5, StepFacts
  <2>2. Len(s) \in Nat
    BY <1>4, StepFacts
  <2>3. r # <<>> => 1 \in 1..Len(r) /\ Len(s) >= 2
    BY <2>1, <2>2, <1>5
  <2>4. 1 + 1 = 2
    OBVIOUS
  <2> QED BY <2>3, <2>4, <1>5
<1>8. \A o, f : <<o, f>> # Head(s) <=> ~(o = op /\ f = File)
  BY <1>6
<1> QED BY <1>2, <1>3, <1>5, <1>6, <1>7, <1>8

\* One step of the list changes the catalogue.
LEMMA OneChange ==
    ASSUME NEW s, NEW o, NEW p, Changing(s, o), Changing(s, p)
    PROVE  o = p
BY DEF Changing

-----------------------------------------------------------------------------
(***************************************************************************)
(* Statements start.                                                       *)
(***************************************************************************)
\* Between two statements.
LEMMA FreeFacts ==
    ASSUME Inv, todo = <<>>
    PROVE  /\ \A f : ~Doomed(todo, f)
           /\ \A f \in FilesOf(db) : ~Refused(f[1]) => /\ f \in disk.file /\ f \in DOMAIN fd
                                                       /\ f \in IndexNames => f \in ihs
           /\ server = "up" /\ ghost.refused = {} => ~disk.torn /\ disk.meta = db
           /\ server = "up" /\ ~ghost.busy /\ ghost.refused = {} =>
                  \A f \in disk.file : f \in FilesOf(db) \cup ghost.strays
<1>1. \A f : ~Doomed(<<>>, f)
  <2>1. Len(<<>>) <= 2
    BY EmptyList
  <2> QED BY <2>1, EmptyList, ShortFacts
<1>2. Len(todo) = 0
  BY EmptyList
<1>3. server = "up" /\ ghost.refused = {} => ~disk.torn /\ disk.meta = db
  <2>1. ~(Len(todo) = 1) /\ ~(Len(todo) \in 1..3)
    BY <1>2
  <2> QED BY <2>1 DEF Inv, MetaFollows
<1>4. server = "up" /\ ~ghost.busy /\ ghost.refused = {} =>
          \A f \in disk.file : f \in FilesOf(db) \cup ghost.strays
  BY DEF Inv, Known
<1> QED BY <1>1, <1>3, <1>4 DEF Inv, FilesRight

LEMMA StartInv ==
    ASSUME Inv, NEW s, Start(s), s \in Seq(Steps), Ordered(s), Meant(s, db), s[1][1] # "enter",
           \A f \in FilesOf(db) : Doomed(s, f) => f \in Pending(s, "close") /\ f \in Pending(s, "destroy")
    PROVE  Inv'
<1>1. todo = <<>> /\ server = "up" /\ todo' = s /\ ghost' = [ghost EXCEPT !.statements = @ + 1]
  BY DEF Start, Free
<1>2. UNCHANGED <<disk, db, ihs, fd, pageno, server>>
  BY DEF Start
<1>3. ghost \in Ghosts
  BY DEF Inv, Types
<1>4. /\ ghost' \in Ghosts /\ ghost'.refused = ghost.refused /\ ghost'.reopened = ghost.reopened
      /\ ghost'.busy = ghost.busy /\ ghost'.strays = ghost.strays
  BY <1>1, <1>3 DEF Ghosts
<1>5. \A t : Refused(t)' <=> Refused(t)
  BY <1>4 DEF Refused
<1>6. Types'
  <2>1. CatalogTypeOK'
    BY <1>2 DEF Inv, Types, CatalogTypeOK
  <2> QED BY <2>1, <1>1, <1>2, <1>4 DEF Inv, Types
<1>7. Empty' /\ Ordered(todo)' /\ Meant(todo, db)'
  BY <1>1, <1>2 DEF Empty
<1>8. OpenKnown'
  <2>1. \A f \in DOMAIN fd \ ghost.strays : f \in FilesOf(db)
    BY DEF Inv, OpenKnown
  <2> QED BY <2>1, <1>1, <1>2, <1>4 DEF OpenKnown
<1>9. FilesRight'
  BY <1>1, <1>2, <1>5, FreeFacts DEF FilesRight
<1>10. Made'
  BY <1>1 DEF Made
<1>11. Known' /\ MetaFollows'
  BY <1>1, <1>2, <1>4, FreeFacts DEF Known, MetaFollows
<1>12. Startable'
  BY <1>1, <1>2 DEF Startable, StartsAgain
<1>13. PagesBelow'
  BY <1>2, <1>4 DEF Inv, PagesBelow
<1> QED BY <1>6, <1>7, <1>8, <1>9, <1>10, <1>11, <1>12, <1>13 DEF Inv

\* INSERT writes the metadata.
LEMMA RowCountStep ==
    ASSUME Inv, NEW t \in Table, update_table_row_count(t)
    PROVE  Inv'
<1>1. Start(Flush)
  BY DEF update_table_row_count
<1>2. PICK s : s = Flush
  OBVIOUS
<1>3. s \in Seq(Steps) /\ Ordered(s) /\ Len(s) <= 2
  <2>1. s \in Seq(Steps) /\ Ordered(s) /\ Len(s) = 2
    BY <1>2, FlushList
  <2> QED BY <2>1
<1>4. Meant(s, db) /\ \A f : ~Doomed(s, f)
  BY <1>3, ShortFacts
<1>5. s[1][1] = "truncate"
  BY <1>2 DEF Flush
<1> QED BY <1>1, <1>2, <1>3, <1>4, <1>5, StartInv

LEMMA CreateTableStep ==
    ASSUME Inv, NEW t \in Table, create_table(t)
    PROVE  Inv'
<1>1. PICK f : f = Of(t)
  OBVIOUS
<1>2. f \in TableNames /\ f \in Names /\ f[1] = t
  BY <1>1, NameFacts DEF Names
<1>3. PICK s : s = <<<<"create", f>>, <<"enter", f>>>> \o Flush
  OBVIOUS
<1>4. Start(s) /\ t \notin DOMAIN db
  BY <1>1, <1>3 DEF create_table
<1>5. <<"create", f>> \in Steps /\ <<"enter", f>> \in Steps
  BY <1>2 DEF Steps, FileOps, MetaOps, Changes
<1>6. CreateShape(s, <<"create", f>>, <<"enter", f>>)
  BY <1>3, <1>5, CreateHasShape
<1>7. CreateOrder(s, "create", "enter", f)
  <2>1. CreateOps("create", "enter")
    BY DEF CreateOps
  <2> QED BY <2>1, <1>2, <1>6, CreateList
<1>8. Change(s)[2] = f
  BY <1>7 DEF CreateOrder
<1>9. Meant(s, db)
  BY <1>2, <1>4, <1>7, <1>8 DEF Meant, CreateOrder
<1>10. \A g : ~Doomed(s, g)
  BY <1>7 DEF Doomed, CreateOrder
<1>11. s[1][1] # "enter"
  BY <1>7 DEF CreateOrder
<1>12. s \in Seq(Steps) /\ Ordered(s)
  BY <1>7 DEF CreateOrder
<1> QED BY <1>4, <1>9, <1>10, <1>11, <1>12, StartInv

LEMMA CreateIndexStep ==
    ASSUME Inv, NEW t \in Table, NEW i \in Index, create_index(t, i)
    PROVE  Inv'
<1>1. PICK f : f = On(t, i)
  OBVIOUS
<1>2. f \in IndexNames /\ f \in Names /\ f[1] = t /\ f[2] = i
  BY <1>1, NameFacts DEF Names
<1>3. PICK s : s = <<<<"create_index", f>>, <<"fill", f>>>> \o Flush
  OBVIOUS
<1>4. Start(s) /\ t \in DOMAIN db /\ i \notin Members(db[t])
  BY <1>1, <1>3 DEF create_index
<1>5. <<"create_index", f>> \in Steps /\ <<"fill", f>> \in Steps
  BY <1>2 DEF Steps, FileOps, MetaOps, Changes
<1>6. CreateShape(s, <<"create_index", f>>, <<"fill", f>>)
  BY <1>3, <1>5, CreateHasShape
<1>7. CreateOrder(s, "create_index", "fill", f)
  <2>1. CreateOps("create_index", "fill")
    BY DEF CreateOps
  <2> QED BY <2>1, <1>2, <1>6, CreateList
<1>8. Change(s)[2] = f
  BY <1>7 DEF CreateOrder
<1>9. Meant(s, db)
  BY <1>2, <1>4, <1>7, <1>8 DEF Meant, CreateOrder
<1>10. \A g : ~Doomed(s, g)
  BY <1>7 DEF Doomed, CreateOrder
<1>11. s[1][1] # "enter"
  BY <1>7 DEF CreateOrder
<1>12. s \in Seq(Steps) /\ Ordered(s)
  BY <1>7 DEF CreateOrder
<1> QED BY <1>4, <1>9, <1>10, <1>11, <1>12, StartInv

LEMMA DropStep ==
    ASSUME Inv, NEW m \in Nat, NEW files \in [1..m -> Names],
           \A j, k \in 1..m : files[j] = files[k] => j = k,
           NEW op \in {"erase", "forget"}, NEW f \in Names,
           Start(CloseAndDestroy(files) \o <<<<op, f>>>> \o Flush),
           op = "erase" => f \in TableNames /\ f[1] \in DOMAIN db,
           op = "forget" => f \in IxFiles(db),
           \A g : g \in Members(files) <=> /\ g \in FilesOf(db)
                                           /\ op = "erase" => g[1] = f[1]
                                           /\ op = "forget" => g = f
    PROVE  Inv'
<1>1. PICK s : s = CloseAndDestroy(files) \o <<<<op, f>>>> \o Flush
  OBVIOUS
<1>2. DropShape(s, m, files, op, f)
  <2>1. DropShape(CloseAndDestroy(files) \o <<<<op, f>>>> \o Flush, m, files, op, f)
    BY DropHasShape
  <2> QED BY <2>1, <1>1
<1>3. /\ s \in Seq(Steps) /\ Ordered(s) /\ Len(s) >= 3
      /\ Change(s) = <<op, f>> /\ \A o : Changing(s, o) <=> o = op
      /\ Pending(s, "close") = Members(files) /\ Pending(s, "destroy") = Members(files)
  BY <1>2, DropOrdered
<1>4. Change(s)[2] = f
  BY <1>3
<1>5. \A g : Doomed(s, g) <=> (op = "erase" => g[1] = f[1]) /\ (op = "forget" => g = f)
  BY <1>3, <1>4 DEF Doomed
<1>6. Meant(s, db)
  BY <1>3, <1>4, <1>5 DEF Meant
<1>7. s[1][1] # "enter"
  <2>1. Len(s) \in Nat
    BY <1>3, StepFacts
  <2>2. 1 \in 1..Len(s)
    BY <2>1, <1>3
  <2>3. s[1][1] \in Changes => 1 = Len(s) - 2
    BY <2>2, <1>3 DEF Ordered
  <2>4. 1 = Len(s) - 2 => s[1] = <<op, f>>
    BY <1>3 DEF Change
  <2> QED BY <2>3, <2>4 DEF Changes
<1>8. \A g \in FilesOf(db) : Doomed(s, g) => g \in Pending(s, "close") /\ g \in Pending(s, "destroy")
  BY <1>3, <1>5
<1>9. Start(s)
  BY <1>1
<1> QED BY <1>3, <1>6, <1>7, <1>8, <1>9, StartInv

LEMMA DropIndexStep ==
    ASSUME Inv, NEW t \in Table, NEW i \in Index, drop_index(t, i)
    PROVE  Inv'
<1>1. PICK f : f = On(t, i)
  OBVIOUS
<1>2. f \in IndexNames /\ f \in Names /\ f[1] = t /\ f[2] = i
  BY <1>1, NameFacts DEF Names
<1>3. PICK files : files = <<f>>
  OBVIOUS
<1>0. PICK m, op : m = 1 /\ op = "forget"
  OBVIOUS
<1>4. files \in [1..m -> Names] /\ files[1] = f /\ m \in Nat /\ \A j, k \in 1..m : files[j] = files[k] => j = k
  BY <1>0, <1>2, <1>3
<1>5. Start(CloseAndDestroy(files) \o <<<<op, f>>>> \o Flush) /\ t \in DOMAIN db /\ i \in Members(db[t])
  BY <1>0, <1>1, <1>3 DEF drop_index
<1>6. f \in IxFiles(db) /\ f \in FilesOf(db)
  BY <1>2, <1>5 DEF IxFiles, FilesOf
<1>7. \A g : g \in Members(files) <=> g = f
  BY <1>0, <1>4 DEF Members
<1>8. op \in {"erase", "forget"} /\ op # "erase" /\ op = "forget"
  BY <1>0
<1> QED BY <1>2, <1>4, <1>5, <1>6, <1>7, <1>8, DropStep

LEMMA DropTableStep ==
    ASSUME Inv, NEW t \in Table, drop_table(t)
    PROVE  Inv'
<1>1. PICK f : f = Of(t)
  OBVIOUS
<1>2. f \in TableNames /\ f \in Names /\ f[1] = t
  BY <1>1, NameFacts DEF Names
<1>3. PICK n : n = Len(db[t])
  OBVIOUS
<1>4. t \in DOMAIN db
  BY DEF drop_table
<1>5. /\ n \in Nat /\ DOMAIN db[t] = 1..n /\ \A k \in 1..n : db[t][k] \in Index
      /\ \A j, k \in 1..n : db[t][j] = db[t][k] => j = k
  <2>1. IsCatalogue(db)
    BY DEF Inv, Types
  <2>2. db[t] \in Seq(Index) /\ \A j, k \in DOMAIN db[t] : db[t][j] = db[t][k] => j = k
    BY <2>1, <1>4 DEF IsCatalogue
  <2> QED BY <2>2, <1>3
<1>6. PICK ix : ix = [k \in 1..n |-> On(t, db[t][k])]
  OBVIOUS
<1>7. /\ ix \in [1..n -> Names] /\ \A k \in 1..n : ix[k] \in IndexNames /\ ix[k][1] = t /\ ix[k][2] = db[t][k]
  <2>1. \A k \in 1..n : ix[k] = On(t, db[t][k])
    BY <1>6
  <2>2. \A k \in 1..n : ix[k] \in IndexNames /\ ix[k][1] = t /\ ix[k][2] = db[t][k]
    BY <2>1, <1>5, NameFacts
  <2> QED BY <2>2, <1>6 DEF Names
<1>8. PICK files : files = Append(ix, f)
  OBVIOUS
<1>9. /\ files \in [1..(n + 1) -> Names] /\ (\A k \in 1..n : files[k] = ix[k]) /\ files[n + 1] = f
  <2>1. ix \in Seq(Names) /\ Len(ix) = n
    BY <1>5, <1>7
  <2>2. /\ files \in Seq(Names) /\ Len(files) = n + 1 /\ (\A k \in 1..n : files[k] = ix[k]) /\ files[n + 1] = f
    BY <2>1, <1>2, <1>5, <1>8
  <2> QED BY <2>2
<1>10. \A j, k \in 1..(n + 1) : files[j] = files[k] => j = k
  <2>1. f \notin IndexNames
    BY <1>2, NameFacts
  <2>2. \A k \in 1..(n + 1) : k \in 1..n \/ k = n + 1
    BY <1>5
  <2>3. ASSUME NEW j \in 1..n, NEW k \in 1..n, files[j] = files[k] PROVE j = k
    BY <2>3, <1>5, <1>7, <1>9
  <2>4. \A k \in 1..n : files[k] # f
    BY <2>1, <1>7, <1>9
  <2> QED BY <2>2, <2>3, <2>4, <1>9
<1>11. \A g : g \in Members(files) <=> g \in FilesOf(db) /\ g[1] = f[1]
  <2>1. ASSUME NEW k \in 1..n PROVE files[k] \in FilesOf(db) /\ files[k][1] = t
    <3>1. db[t][k] \in Members(db[t])
      BY <1>5 DEF Members
    <3> QED BY <3>1, <1>4, <1>7, <1>9 DEF FilesOf, IxFiles
  <2>2. f \in FilesOf(db)
    BY <1>2, <1>4 DEF FilesOf
  <2>3. \A k \in 1..(n + 1) : k \in 1..n \/ k = n + 1
    BY <1>5
  <2>4. ASSUME NEW g \in Members(files) PROVE g \in FilesOf(db) /\ g[1] = f[1]
    <3>1. PICK k \in 1..(n + 1) : g = files[k]
      BY <1>9 DEF Members
    <3> QED BY <3>1, <2>1, <2>2, <2>3, <1>2, <1>9
  <2>5. ASSUME NEW g \in FilesOf(db), g[1] = f[1] PROVE g \in Members(files)
    <3>1. \A k \in 1..n : k \in 1..(n + 1)
      BY <1>5
    <3>2. n + 1 \in 1..(n + 1)
      BY <1>5
    <3>3. CASE g \in TableNames
      <4>1. g = f
        BY <2>5, <3>3, <1>1, <1>2, NameFacts
      <4> QED BY <4>1, <3>2, <1>9 DEF Members
    <3>4. CASE g \in IxFiles(db)
      <4>1. g \in IndexNames /\ g[1] = t /\ g[2] \in Members(db[t])
        BY <2>5, <3>4, <1>2 DEF IxFiles
      <4>2. PICK k \in 1..n : g[2] = db[t][k]
        BY <4>1, <1>5 DEF Members
      <4>3. g = On(t, db[t][k])
        BY <4>1, <4>2, NameFacts
      <4>4. g = files[k]
        BY <4>3, <1>6, <1>9
      <4> QED BY <4>4, <3>1, <1>9 DEF Members
    <3> QED BY <2>5, <3>3, <3>4 DEF FilesOf
  <2> QED BY <2>4, <2>5
<1>12. Start(CloseAndDestroy(files) \o <<<<"erase", f>>>> \o Flush)
  BY <1>1, <1>3, <1>6, <1>8 DEF drop_table
<1>13. "erase" \in {"erase", "forget"} /\ "forget" # "erase" /\ n + 1 \in Nat
  BY <1>5
<1> QED BY <1>2, <1>4, <1>9, <1>10, <1>11, <1>12, <1>13, DropStep

-----------------------------------------------------------------------------
(***************************************************************************)
(* The steps of CREATE.                                                    *)
(***************************************************************************)
\* What does not depend on the list while the server is up.
LEMMA UpFacts ==
    ASSUME Inv, server' = "up"
    PROVE  Empty' /\ Startable'
BY DEF Empty, Startable, StartsAgain

\* Before the change nothing is out of date.
LEMMA EarlyFacts ==
    ASSUME Inv, NEW op, At(op), Len(todo) > 3
    PROVE  /\ ghost.refused = {} => ~disk.torn /\ disk.meta = db
           /\ ~ghost.busy /\ ghost.refused = {} /\ op # "enter" =>
                  \A f \in disk.file : f \in FilesOf(db) \cup ghost.strays
<1>1. server = "up" /\ Len(todo) \in Nat /\ todo[1][1] = op
  BY AtFacts
<1>2. ~(Len(todo) = 1) /\ ~(Len(todo) \in 1..3)
  <2>1. PICK n : n = Len(todo)
    OBVIOUS
  <2>2. n \in Nat /\ n > 3
    BY <2>1, <1>1
  <2>3. ~(n = 1) /\ ~(n \in 1..3)
    BY <2>2
  <2> QED BY <2>1, <2>3
<1>3. ghost.refused = {} => ~disk.torn /\ disk.meta = db
  BY <1>1, <1>2 DEF Inv, MetaFollows
<1>4. \A f : todo[1] = <<"enter", f>> => op = "enter"
  <2>1. \A f : todo[1] = <<"enter", f>> => todo[1][1] = "enter"
    OBVIOUS
  <2> QED BY <2>1, <1>1
<1> QED BY <1>1, <1>3, <1>4 DEF Inv, Known

\* An action that ends a statement with an error in its first step.
LEMMA ThrowStep ==
    ASSUME Inv, NEW op, At(op), op \in {"create", "create_index"}, Throw,
           UNCHANGED <<disk, db, ihs, fd, pageno, server, ghost>>
    PROVE  Inv'
<1>1. /\ server = "up" /\ todo \in Seq(Steps) /\ Ordered(todo) /\ todo # <<>> /\ Len(todo) \in Nat
      /\ Head(todo)[1] = op
  BY AtFacts
<1>2. todo' = <<>> /\ todo' \in Seq(Steps) /\ Ordered(todo') /\ Len(todo') = 0
  BY EmptyList DEF Throw
<1>3. Meant(todo', db) /\ \A f : ~Doomed(todo', f)
  <2>1. Len(todo') <= 2
    BY <1>2
  <2> QED BY <2>1, <1>2, ShortFacts
<1>4. Len(todo) = 4 /\ (Change(todo)[1] = "enter" \/ Change(todo)[1] = "fill")
  BY <1>1, HeadFacts
<1>5. \A f : ~Doomed(todo, f)
  BY <1>4 DEF Doomed, Changing
<1>6. Len(todo) > 3 /\ op # "enter"
  BY <1>4
<1>7. Types'
  <2>1. CatalogTypeOK'
    BY DEF Inv, Types, CatalogTypeOK
  <2> QED BY <2>1, <1>2 DEF Inv, Types
<1>8. OpenKnown' /\ FilesRight'
  <2>1. \A t : Refused(t)' <=> Refused(t)
    BY DEF Refused
  <2> QED BY <2>1, <1>3, <1>5 DEF Inv, OpenKnown, FilesRight
<1>9. Made' /\ Known' /\ MetaFollows'
  BY <1>2, <1>6, EarlyFacts DEF Made, Known, MetaFollows
<1>10. PagesBelow'
  BY DEF Inv, PagesBelow
<1>11. Empty' /\ Startable'
  BY <1>1, UpFacts
<1> QED BY <1>2, <1>3, <1>7, <1>8, <1>9, <1>10, <1>11 DEF Inv

LEMMA CreateFileStep ==
    ASSUME Inv, CreateFile
    PROVE  Inv'
<1>0. At("create") /\ UNCHANGED <<db, ihs, fd, pageno, server, ghost>>
  BY DEF CreateFile
<1>1. CASE is_file(File)
  <2>1. Throw /\ UNCHANGED disk
    BY <1>1 DEF CreateFile
  <2> QED BY <2>1, <1>0, ThrowStep
<1>2. CASE ~is_file(File)
  <2>1. Done /\ disk' = [disk EXCEPT !.file = @ \cup {File}]
    BY <1>2 DEF CreateFile
  <2>2. /\ server = "up" /\ todo \in Seq(Steps) /\ Ordered(todo) /\ todo # <<>> /\ Len(todo) \in Nat
        /\ Head(todo) = <<"create", File>> /\ Head(todo)[1] = "create"
    BY <1>0, AtFacts
  <2>3. Len(todo) = 4 /\ Change(todo) = <<"enter", Head(todo)[2]>>
    BY <2>2, HeadFacts
  <2>4. Len(todo) > 3 /\ Len(todo) >= 3 /\ Len(todo) - 2 = 2
    BY <2>3
  <2>5. Change(todo) = <<"enter", File>> /\ Change(todo)[2] = File /\ Changing(todo, "enter")
    BY <2>2, <2>3, <2>4 DEF Changing
  <2>6. File \in TableNames /\ File[1] \notin DOMAIN db
    BY <2>5 DEF Inv, Meant
  <2>7. /\ todo' \in Seq(Steps) /\ Ordered(todo') /\ Len(todo') = Len(todo) - 1
        /\ \A o, f : f \in Pending(todo', o) => f \in Pending(todo, o)
        /\ \A o : Changing(todo', o) <=> Changing(todo, o)
        /\ Change(todo') = Change(todo)
        /\ todo' # <<>> => todo'[1] = todo[2]
    <3>1. "create" \notin Changes
      BY DEF Changes
    <3> QED BY <3>1, <1>0, <2>1, <2>4, DoneFacts
  <2>8. todo'[1] = <<"enter", File>> /\ todo' # <<>>
    <3>1. todo' # <<>>
      <4>1. Len(todo') = 3
        BY <2>3, <2>7
      <4> QED BY <4>1, EmptyList
    <3> QED BY <3>1, <2>4, <2>5, <2>7 DEF Change
  <2>9. /\ \A o : Changing(todo, o) <=> o = "enter"
        /\ \A f : ~Doomed(todo, f) /\ ~Doomed(todo', f)
    <3>1. \A o : Changing(todo, o) <=> o = "enter"
      BY <2>4, <2>5 DEF Changing
    <3> QED BY <3>1, <2>7 DEF Doomed
  <2>10. Meant(todo', db)
    <3>1. Pending(todo, "close") = {} /\ Pending(todo, "destroy") = {}
      <4>1. Head(todo)[1] \in {"create", "create_index"}
        BY <2>2
      <4> QED BY <2>2, <2>3, <4>1, PendingFacts
    <3> QED BY <3>1, <2>5, <2>6, <2>7, <2>9 DEF Meant
  <2>11. IsDisk(disk)
    BY DEF Inv, Types
  <2>12. /\ disk'.file = disk.file \cup {File} /\ disk'.meta = disk.meta /\ disk'.torn = disk.torn
         /\ disk'.pages = disk.pages
    BY <2>1, <2>11 DEF IsDisk
  <2>13. IsDisk(disk')
    <3>1. disk' = [file |-> disk'.file, meta |-> disk'.meta, torn |-> disk'.torn, pages |-> disk'.pages]
      BY <2>1, <2>11 DEF IsDisk
    <3>2. File \in Names /\ File \notin IndexNames
      BY <2>6, NameFacts DEF Names
    <3> QED BY <3>1, <3>2, <2>11, <2>12 DEF IsDisk
  <2>14. Types'
    <3>1. CatalogTypeOK'
      BY <1>0, <2>12 DEF Inv, Types, CatalogTypeOK
    <3> QED BY <3>1, <1>0, <2>7, <2>13 DEF Inv, Types
  <2>15. OpenKnown' /\ FilesRight'
    <3>1. \A t : Refused(t)' <=> Refused(t)
      BY <1>0 DEF Refused
    <3> QED BY <3>1, <1>0, <2>9, <2>12 DEF Inv, OpenKnown, FilesRight
  <2>16. Made'
    BY <2>8, <2>12 DEF Made
  <2>17. Known' /\ MetaFollows'
    BY <1>0, <2>4, <2>8, <2>12, EarlyFacts DEF Known, MetaFollows
  <2>18. PagesBelow'
    BY <1>0, <2>12 DEF Inv, PagesBelow
  <2>19. Empty' /\ Startable'
    BY <1>0, <2>2, UpFacts
  <2> QED BY <1>0, <2>7, <2>10, <2>14, <2>15, <2>16, <2>17, <2>18, <2>19 DEF Inv
<1> QED BY <1>1, <1>2

\* The step that changes the catalogue, or follows the change, and what it leaves.
LEMMA ChangeFacts ==
    ASSUME Inv, NEW op \in Changes, At(op)
    PROVE  /\ server = "up" /\ Len(todo) = 3 /\ Change(todo) = <<op, File>> /\ Change(todo)[2] = File
           /\ todo[1] = <<op, File>> /\ \A o : Changing(todo, o) <=> o = op
           /\ Pending(todo, "close") = {} /\ Pending(todo, "destroy") = {}
           /\ ghost.refused = {} => ~disk.torn
<1>1. /\ server = "up" /\ todo \in Seq(Steps) /\ Ordered(todo) /\ todo # <<>> /\ Len(todo) \in Nat
      /\ Head(todo) = <<op, File>> /\ Head(todo)[1] = op /\ todo[1] = <<op, File>>
  BY AtFacts
<1>2. Len(todo) = 3 /\ Change(todo) = Head(todo)
  BY <1>1, HeadFacts
<1>3. Change(todo) = <<op, File>> /\ Change(todo)[1] = op /\ Change(todo)[2] = File /\ Len(todo) >= 3
  BY <1>1, <1>2
<1>4. \A o : Changing(todo, o) <=> o = op
  BY <1>3 DEF Changing
<1>5. Pending(todo, "close") = {} /\ Pending(todo, "destroy") = {}
  BY <1>1, <1>2, PendingFacts
<1>6. ~(Len(todo) = 1)
  BY <1>2
<1> QED BY <1>1, <1>2, <1>3, <1>4, <1>5, <1>6 DEF Inv, MetaFollows

LEMMA ChangeDone ==
    ASSUME Inv, NEW op \in Changes, At(op), Done
    PROVE  /\ todo' \in Seq(Steps) /\ Ordered(todo') /\ Len(todo') = 2
           /\ todo' # <<>> /\ todo'[1][1] = "truncate" /\ Len(todo') \in 1..3
           /\ \A cat : Meant(todo', cat)
           /\ \A f : ~Doomed(todo', f)
           /\ Made'
<1>1. Len(todo) = 3
  BY ChangeFacts
<1>2. todo' \in Seq(Steps) /\ Ordered(todo') /\ Len(todo') = Len(todo) - 1
  BY DoneFacts
<1>3. Len(todo') = 2
  BY <1>1, <1>2
<1>4. todo' # <<>> /\ Len(todo') \in 1..3 /\ 1 \in 1..Len(todo') /\ 1 = Len(todo') - 1 /\ Len(todo') <= 2
  BY <1>3
<1>5. todo'[1][1] = "truncate"
  BY <1>2, <1>4 DEF Ordered
<1>6. (\A cat : Meant(todo', cat)) /\ \A f : ~Doomed(todo', f)
  BY <1>2, <1>4, ShortFacts
<1>7. Made'
  BY <1>5 DEF Made
<1> QED BY <1>2, <1>3, <1>4, <1>5, <1>6, <1>7

LEMMA EnterStep ==
    ASSUME Inv, Enter
    PROVE  Inv'
<1>1. /\ At("enter") /\ Done /\ db' = With(db, File[1], <<>>) /\ fd' = open_file(fd, File)
      /\ UNCHANGED <<disk, ihs, pageno, server, ghost>>
  BY DEF Enter
<1>2. "enter" \in Changes
  BY DEF Changes
<1>3. /\ server = "up" /\ Len(todo) = 3 /\ Change(todo)[2] = File /\ todo[1] = <<"enter", File>>
      /\ \A o : Changing(todo, o) <=> o = "enter"
      /\ ghost.refused = {} => ~disk.torn
  BY <1>1, <1>2, ChangeFacts
<1>4. /\ todo' \in Seq(Steps) /\ Ordered(todo') /\ todo' # <<>> /\ todo'[1][1] = "truncate"
      /\ Len(todo') \in 1..3 /\ Meant(todo', db') /\ (\A f : ~Doomed(todo', f)) /\ Made'
  BY <1>1, <1>2, ChangeDone
<1>5. File \in TableNames /\ File[1] \notin DOMAIN db
  BY <1>3 DEF Inv, Meant
<1>6. File \in Names /\ File[1] \in Table /\ File = Of(File[1]) /\ File \notin IndexNames
  BY <1>5, NameFacts DEF Names
<1>7. IsCatalogue(db') /\ FilesOf(db') = FilesOf(db) \cup {File}
  <2>1. IsCatalogue(db)
    BY DEF Inv, Types
  <2> QED BY <2>1, <1>1, <1>5, <1>6, EnterFiles
<1>8. \A f : ~Doomed(todo, f)
  BY <1>3 DEF Doomed
<1>9. DOMAIN fd \ ghost.strays \subseteq FilesOf(db) /\ File \notin DOMAIN fd
  <2>1. File \notin FilesOf(db)
    BY <1>5, <1>6 DEF FilesOf, IxFiles
  <2>2. File \notin ghost.strays
    BY <1>6 DEF Inv, Types, Ghosts
  <2> QED BY <2>1, <2>2 DEF Inv, OpenKnown
<1>10. AreOpen(fd) /\ DOMAIN fd \subseteq disk.file /\ ihs \subseteq DOMAIN fd
  BY DEF Inv, Types, CatalogTypeOK, IsDisk, AreOpen
<1>11. /\ AreOpen(fd') /\ DOMAIN fd' = DOMAIN fd \cup {File}
       /\ \A g \in DOMAIN fd : fd'[g] = fd[g]
  <2>1. OneMore(fd, File, LowestFd(fd), open_file(fd, File))
    BY <1>6, <1>9, <1>10, OpenLeast
  <2> QED BY <2>1, <1>1 DEF OneMore
<1>12. File \in disk.file
  BY <1>3 DEF Inv, Made
<1>13. Types'
  <2>1. CatalogTypeOK'
    BY <1>1, <1>3, <1>10, <1>11, <1>12 DEF CatalogTypeOK, AreOpen
  <2> QED BY <2>1, <1>1, <1>4, <1>7, <1>11 DEF Inv, Types, AreOpen
<1>14. OpenKnown' /\ FilesRight'
  <2>1. \A t : Refused(t)' <=> Refused(t)
    BY <1>1 DEF Refused
  <2>2. OpenKnown'
    BY <1>1, <1>4, <1>7, <1>9, <1>11 DEF OpenKnown
  <2>3. FilesRight'
    BY <2>1, <1>1, <1>4, <1>6, <1>7, <1>8, <1>11, <1>12 DEF Inv, FilesRight
  <2> QED BY <2>2, <2>3
<1>15. Known' /\ MetaFollows'
  <2>1. \A f : todo[1] = <<"enter", f>> => f = File
    BY <1>3
  <2>2. Known'
    BY <2>1, <1>1, <1>7 DEF Inv, Known
  <2> QED BY <2>2, <1>1, <1>3, <1>4 DEF MetaFollows
<1>16. PagesBelow'
  BY <1>1, <1>10, <1>11 DEF Inv, PagesBelow
<1>17. Empty' /\ Startable'
  BY <1>1, <1>3, UpFacts
<1> QED BY <1>4, <1>13, <1>14, <1>15, <1>16, <1>17 DEF Inv

LEMMA FillStep ==
    ASSUME Inv, Fill
    PROVE  Inv'
<1>1. At("fill") /\ UNCHANGED <<disk, db, fd, pageno, server>>
  BY DEF Fill
<1>2. "fill" \in Changes
  BY DEF Changes
<1>3. /\ server = "up" /\ Change(todo)[2] = File /\ todo[1] = <<"fill", File>>
      /\ \A o : Changing(todo, o) <=> o = "fill"
      /\ ghost.refused = {} => ~disk.torn
  BY <1>1, <1>2, ChangeFacts
<1>4. \A f : ~Doomed(todo, f)
  BY <1>3 DEF Doomed
<1>5. File \in IndexNames /\ File[1] \in Table /\ File[2] \in Index /\ File = On(File[1], File[2])
  BY <1>3, NameFacts DEF Inv, Meant
<1>6. Empty' /\ Startable'
  BY <1>1, <1>3, UpFacts
<1>7. \A f : todo[1] # <<"enter", f>>
  BY <1>3
<1>8. CASE Done /\ UNCHANGED <<ihs, ghost>>
  <2>1. /\ todo' \in Seq(Steps) /\ Ordered(todo') /\ todo' # <<>> /\ todo'[1][1] = "truncate"
        /\ Len(todo') \in 1..3 /\ Meant(todo', db') /\ (\A f : ~Doomed(todo', f)) /\ Made'
    BY <1>1, <1>2, <1>8, ChangeDone
  <2>2. Types'
    <3>1. CatalogTypeOK'
      BY <1>1, <1>8 DEF Inv, Types, CatalogTypeOK
    <3> QED BY <3>1, <1>1, <1>8, <2>1 DEF Inv, Types
  <2>3. OpenKnown' /\ FilesRight'
    <3>1. \A t : Refused(t)' <=> Refused(t)
      BY <1>8 DEF Refused
    <3> QED BY <3>1, <1>1, <1>4, <1>8, <2>1 DEF Inv, OpenKnown, FilesRight
  <2>4. Known'
    BY <1>1, <1>7, <1>8 DEF Inv, Known
  <2>5. MetaFollows'
    BY <1>1, <1>3, <1>8, <2>1 DEF MetaFollows
  <2>6. PagesBelow'
    BY <1>1, <1>8 DEF Inv, PagesBelow
  <2> QED BY <1>6, <2>1, <2>2, <2>3, <2>4, <2>5, <2>6 DEF Inv
<1>9. CASE /\ Throw /\ ihs' = ihs \ {File}
           /\ ghost' = [ghost EXCEPT !.refused = @ \cup {File}]
  <2>1. todo' = <<>> /\ todo' \in Seq(Steps) /\ Ordered(todo') /\ Len(todo') = 0
    BY <1>9, EmptyList DEF Throw
  <2>2. Meant(todo', db') /\ \A f : ~Doomed(todo', f)
    <3>1. Len(todo') <= 2
      BY <2>1
    <3> QED BY <3>1, <2>1, ShortFacts
  <2>3. ghost \in Ghosts
    BY DEF Inv, Types
  <2>4. /\ ghost' \in Ghosts /\ ghost'.refused = ghost.refused \cup {File}
        /\ ghost'.reopened = ghost.reopened /\ ghost'.strays = ghost.strays
    BY <1>5, <1>9, <2>3 DEF Ghosts
  <2>5. Types'
    <3>1. CatalogTypeOK'
      BY <1>1, <1>9 DEF Inv, Types, CatalogTypeOK
    <3>2. ihs' \subseteq IndexNames
      BY <1>9 DEF Inv, Types
    <3> QED BY <3>1, <3>2, <1>1, <2>1, <2>4 DEF Inv, Types
  <2>0. PICK h : h = File
    OBVIOUS
  <2>6. Refused(h[1])' /\ \A t : Refused(t) => Refused(t)'
    BY <1>5, <2>0, <2>4 DEF Refused
  <2>7. OpenKnown'
    BY <1>1, <2>2, <2>4 DEF Inv, OpenKnown
  <2>8. FilesRight'
    <3> SUFFICES ASSUME NEW f \in FilesOf(db), ~Refused(f[1])'
                 PROVE  f \in disk.file /\ f \in DOMAIN fd /\ (f \in IndexNames => f \in ihs')
      BY <1>1, <2>2 DEF FilesRight
    <3>1. ~Refused(f[1]) /\ f # File
      BY <2>0, <2>6
    <3>2. f \in disk.file /\ f \in DOMAIN fd /\ (f \in IndexNames => f \in ihs)
      BY <3>1, <1>4 DEF Inv, FilesRight
    <3> QED BY <3>1, <3>2, <1>9
  <2>9. Made' /\ Known' /\ MetaFollows'
    BY <2>1, <2>4 DEF Made, Known, MetaFollows
  <2>10. PagesBelow'
    BY <1>1, <1>9, <2>4 DEF Inv, PagesBelow
  <2> QED BY <1>6, <2>1, <2>2, <2>5, <2>7, <2>8, <2>9, <2>10 DEF Inv
<1> QED BY <1>8, <1>9 DEF Fill

\* The columns are too long: the file is left.
LEMMA StrayStep ==
    ASSUME Inv, At("create_index"), UNCHANGED server, ~is_file(File), LeaveStray
    PROVE  Inv'
<1>0. /\ Throw /\ UNCHANGED <<db, ihs, pageno, server>> /\ fd' = open_file(fd, File)
      /\ disk' = [disk EXCEPT !.file = @ \cup {File}, !.pages = With(@, File, {})]
      /\ ghost' = [ghost EXCEPT !.strays = @ \cup {File}]
  BY DEF LeaveStray
<1>1. /\ server = "up" /\ todo \in Seq(Steps) /\ Ordered(todo) /\ todo # <<>> /\ Len(todo) \in Nat
      /\ Head(todo) = <<"create_index", File>> /\ Head(todo)[1] = "create_index"
  BY AtFacts
<1>2. todo' = <<>> /\ todo' \in Seq(Steps) /\ Ordered(todo') /\ Len(todo') = 0
  BY <1>0, EmptyList DEF Throw
<1>3. Meant(todo', db') /\ \A f : ~Doomed(todo', f)
  <2>1. Len(todo') <= 2
    BY <1>2
  <2> QED BY <2>1, <1>2, ShortFacts
<1>4. Len(todo) = 4 /\ Change(todo) = <<"fill", Head(todo)[2]>>
  BY <1>1, HeadFacts
<1>5. Change(todo)[1] = "fill" /\ Change(todo)[2] = File /\ Len(todo) > 3 /\ Changing(todo, "fill")
  BY <1>1, <1>4 DEF Changing
<1>6. \A f : ~Doomed(todo, f)
  BY <1>5 DEF Doomed, Changing
<1>7. File \in IndexNames /\ File \in Names
  BY <1>5 DEF Inv, Meant, Names
<1>8. /\ IsDisk(disk) /\ AreOpen(fd) /\ DOMAIN fd \subseteq disk.file /\ ihs \subseteq DOMAIN fd
      /\ ghost \in Ghosts
  BY DEF Inv, Types, CatalogTypeOK, AreOpen, IsDisk
<1>9. /\ disk'.file = disk.file \cup {File} /\ disk'.meta = disk.meta /\ disk'.torn = disk.torn
      /\ disk'.pages = With(disk.pages, File, {})
      /\ disk' = [file |-> disk'.file, meta |-> disk'.meta, torn |-> disk'.torn, pages |-> disk'.pages]
  BY <1>0, <1>8 DEF IsDisk
<1>10. /\ disk'.pages = [f \in DOMAIN disk'.pages |-> disk'.pages[f]]
       /\ DOMAIN disk'.pages = DOMAIN disk.pages \cup {File} /\ disk'.pages[File] = {}
       /\ \A f \in DOMAIN disk.pages : f # File => disk'.pages[f] = disk.pages[f]
  BY <1>9 DEF With
<1>11. IsDisk(disk')
  <2>1. \A f \in DOMAIN disk'.pages : disk'.pages[f] \subseteq Nat
    BY <1>8, <1>10 DEF IsDisk
  <2>2. \A f \in disk'.file \cap IndexNames : f \in DOMAIN disk'.pages
    BY <1>8, <1>9, <1>10 DEF IsDisk
  <2>3. disk'.file \subseteq Names /\ disk'.torn \in BOOLEAN /\ IsCatalogue(disk'.meta)
    BY <1>7, <1>8, <1>9 DEF IsDisk
  <2> QED BY <2>1, <2>2, <2>3, <1>9, <1>10 DEF IsDisk
<1>12. File \notin DOMAIN fd /\ File \notin disk.file
  BY <1>8 DEF is_file
<1>13. OneMore(fd, File, LowestFd(fd), fd')
  BY <1>0, <1>7, <1>8, <1>12, OpenLeast
<1>14. /\ ghost' \in Ghosts /\ ghost'.refused = ghost.refused /\ ghost'.busy = ghost.busy
       /\ ghost'.reopened = ghost.reopened /\ ghost'.strays = ghost.strays \cup {File}
  BY <1>0, <1>7, <1>8 DEF Ghosts
<1>15. Types'
  <2>1. CatalogTypeOK'
    BY <1>0, <1>1, <1>8, <1>9, <1>13 DEF CatalogTypeOK, OneMore, AreOpen
  <2>2. fd' = [f \in DOMAIN fd' |-> fd'[f]]
    BY <1>13 DEF OneMore, AreOpen
  <2> QED BY <2>1, <2>2, <1>0, <1>2, <1>11, <1>14 DEF Inv, Types
<1>16. OpenKnown' /\ FilesRight'
  <2>1. \A t : Refused(t)' <=> Refused(t)
    BY <1>14 DEF Refused
  <2>2. DOMAIN fd' = DOMAIN fd \cup {File}
    BY <1>13 DEF OneMore
  <2>3. OpenKnown'
    BY <2>2, <1>0, <1>3, <1>14 DEF Inv, OpenKnown
  <2>4. File \notin FilesOf(db) \/ \A f \in FilesOf(db) : ~Refused(f[1]) => f # File
    <3>1. PICK h : h = File
      OBVIOUS
    <3>2. h \in FilesOf(db) /\ ~Refused(h[1]) => h \in disk.file
      BY <1>6 DEF Inv, FilesRight
    <3> QED BY <3>1, <3>2, <1>12
  <2>5. FilesRight'
    BY <2>1, <2>2, <2>4, <1>0, <1>3, <1>6, <1>9 DEF Inv, FilesRight
  <2> QED BY <2>3, <2>5
<1>17. Made' /\ Known' /\ MetaFollows'
  <2>1. /\ ghost.refused = {} => ~disk.torn /\ disk.meta = db
        /\ ~ghost.busy /\ ghost.refused = {} => \A f \in disk.file : f \in FilesOf(db) \cup ghost.strays
    BY <1>5, EarlyFacts
  <2> QED BY <2>1, <1>0, <1>2, <1>9, <1>14 DEF Made, Known, MetaFollows
<1>18. PagesBelow'
  <2>1. \A f \in ihs : f \in DOMAIN disk.pages /\ f # File /\ f \in DOMAIN fd
    BY <1>8, <1>12 DEF Inv, Types, IsDisk
  <2>2. \A f \in ihs : fd'[f] = fd[f]
    BY <2>1, <1>13 DEF OneMore
  <2> QED BY <2>1, <2>2, <1>0, <1>10, <1>14 DEF Inv, PagesBelow
<1>19. Empty' /\ Startable'
  BY <1>1, UpFacts
<1> QED BY <1>2, <1>3, <1>15, <1>16, <1>17, <1>18, <1>19 DEF Inv

\* The index is made, and opened again by any descriptor that is not used.
LEMMA MakeIndexStep ==
    ASSUME Inv, At("create_index"), UNCHANGED server, ~is_file(File), NEW n \in Unused(fd), MakeIndex(n)
    PROVE  Inv'
<1>1. /\ Done
      /\ disk' = [disk EXCEPT !.file = @ \cup {File},
                              !.pages = With(@, File, 0..(InitialPages - 1))]
      /\ db' = [db EXCEPT ![File[1]] = Append(@, File[2])]
      /\ ihs' = ihs \cup {File}
      /\ fd' = With(fd, File, n)
      /\ pageno' = IndexPageno(n)
      /\ ghost' = [ghost EXCEPT !.reopened = IF n = LowestFd(fd) THEN @ \ {File} ELSE @ \cup {File}]
  BY DEF MakeIndex
<1>2. /\ server = "up" /\ todo \in Seq(Steps) /\ Ordered(todo) /\ todo # <<>> /\ Len(todo) \in Nat
      /\ Head(todo) = <<"create_index", File>> /\ Head(todo)[1] = "create_index"
      /\ File \in Names => File \in Pending(todo, "create_index")
  BY AtFacts
<1>3. Len(todo) = 4 /\ Change(todo) = <<"fill", Head(todo)[2]>>
  BY <1>2, HeadFacts
<1>4. Len(todo) > 3 /\ Len(todo) >= 3 /\ Len(todo) - 2 = 2
  BY <1>3
<1>5. Change(todo) = <<"fill", File>> /\ Change(todo)[2] = File /\ Changing(todo, "fill")
  BY <1>2, <1>3, <1>4 DEF Changing
<1>6. /\ File \in IndexNames /\ File[1] \in DOMAIN db
      /\ Pending(todo, "create_index") # {} <=> File[2] \notin Members(db[File[1]])
  BY <1>5 DEF Inv, Meant
<1>7. File \in Names /\ File[2] \in Index /\ File = On(File[1], File[2]) /\ File \notin TableNames
  BY <1>6, NameFacts DEF Names
<1>8. File[2] \notin Members(db[File[1]])
  BY <1>2, <1>6, <1>7
<1>9. /\ todo' \in Seq(Steps) /\ Ordered(todo') /\ Len(todo') = Len(todo) - 1
      /\ \A o, f : f \in Pending(todo', o) <=> f \in Pending(todo, o) /\ ~(o = "create_index" /\ f = File)
      /\ \A o : Changing(todo', o) <=> Changing(todo, o)
      /\ Change(todo') = Change(todo)
      /\ todo' # <<>> => todo'[1] = todo[2]
  <2>1. "create_index" \notin Changes
    BY DEF Changes
  <2> QED BY <2>1, <1>1, <1>4, DoneFacts
<1>10. todo'[1] = <<"fill", File>> /\ todo' # <<>> /\ Len(todo') = 3
  <2>1. Len(todo') = 3
    BY <1>3, <1>9
  <2>2. todo' # <<>>
    BY <2>1, EmptyList
  <2> QED BY <2>1, <2>2, <1>4, <1>5, <1>9 DEF Change
<1>11. /\ \A o : Changing(todo, o) <=> o = "fill"
       /\ \A f : ~Doomed(todo, f) /\ ~Doomed(todo', f)
  <2>1. \A o : Changing(todo, o) <=> o = "fill"
    BY <1>4, <1>5 DEF Changing
  <2> QED BY <2>1, <1>9 DEF Doomed
<1>12. /\ IsCatalogue(db') /\ FilesOf(db') = FilesOf(db) \cup {File} /\ DOMAIN db' = DOMAIN db
       /\ File[2] \in Members(db'[File[1]])
  <2>1. IsCatalogue(db)
    BY DEF Inv, Types
  <2> QED BY <2>1, <1>1, <1>6, <1>7, <1>8, AppendFiles
<1>13. Meant(todo', db')
  <2>1. Pending(todo, "close") = {} /\ Pending(todo, "destroy") = {}
    <3>1. Head(todo)[1] \in {"create", "create_index"}
      BY <1>2
    <3> QED BY <1>2, <1>3, <3>1, PendingFacts
  <2>2. Pending(todo', "close") = {} /\ Pending(todo', "destroy") = {}
    BY <2>1, <1>9
  <2>3. Pending(todo', "create_index") = {}
    <3>1. Len(todo') \in Nat
      BY <1>10
    <3>2. ASSUME NEW f, NEW k \in 1..Len(todo'), todo'[k] = <<"create_index", f>> PROVE FALSE
      <4>1. todo'[k][1] = "create_index"
        BY <3>2
      <4>2. k = Len(todo') - 3
        BY <4>1, <1>9 DEF Ordered
      <4> QED BY <4>2, <1>10
    <3> QED BY <3>2 DEF Pending
  <2> QED BY <2>2, <2>3, <1>5, <1>6, <1>9, <1>11, <1>12 DEF Meant
<1>14. /\ IsDisk(disk) /\ AreOpen(fd) /\ DOMAIN fd \subseteq disk.file /\ ihs \subseteq DOMAIN fd
       /\ ghost \in Ghosts /\ pageno \in [Fds -> Nat] /\ ihs \subseteq IndexNames
  BY DEF Inv, Types, CatalogTypeOK, AreOpen, IsDisk
<1>15. /\ disk'.file = disk.file \cup {File} /\ disk'.meta = disk.meta /\ disk'.torn = disk.torn
       /\ disk'.pages = With(disk.pages, File, 0..(InitialPages - 1))
       /\ disk' = [file |-> disk'.file, meta |-> disk'.meta, torn |-> disk'.torn, pages |-> disk'.pages]
  BY <1>1, <1>14 DEF IsDisk
<1>16. /\ disk'.pages = [f \in DOMAIN disk'.pages |-> disk'.pages[f]]
       /\ DOMAIN disk'.pages = DOMAIN disk.pages \cup {File}
       /\ disk'.pages[File] = 0..2
       /\ \A f \in DOMAIN disk.pages : f # File => disk'.pages[f] = disk.pages[f]
  <2>1. InitialPages - 1 = 2
    BY DEF InitialPages
  <2> QED BY <2>1, <1>15 DEF With
<1>17. IsDisk(disk')
  <2>1. 0..2 \subseteq Nat
    OBVIOUS
  <2>2. \A f \in DOMAIN disk'.pages : disk'.pages[f] \subseteq Nat
    BY <2>1, <1>14, <1>16 DEF IsDisk
  <2>3. \A f \in disk'.file \cap IndexNames : f \in DOMAIN disk'.pages
    BY <1>14, <1>15, <1>16 DEF IsDisk
  <2>4. disk'.file \subseteq Names /\ disk'.torn \in BOOLEAN /\ IsCatalogue(disk'.meta)
    BY <1>7, <1>14, <1>15 DEF IsDisk
  <2> QED BY <2>2, <2>3, <2>4, <1>15, <1>16 DEF IsDisk
<1>18. DOMAIN fd \ ghost.strays \subseteq FilesOf(db) /\ File \notin DOMAIN fd
  <2>1. File \notin DOMAIN fd
    BY <1>14 DEF is_file
  <2> QED BY <2>1 DEF Inv, OpenKnown
<1>19. OneMore(fd, File, n, fd')
  BY <1>1, <1>7, <1>14, <1>18, OpenFacts
<1>20. /\ pageno' \in [Fds -> Nat] /\ (n = LowestFd(fd) => pageno'[fd'[File]] = 3)
       /\ \A g \in DOMAIN fd : pageno'[fd'[g]] = pageno[fd[g]]
  <2>1. PICK m : m = LowestFd(fd)
    OBVIOUS
  <2>2. m \in Unused(fd)
    BY <2>1, <1>14, FreeFd DEF AreOpen
  <2>3. m \in Fds /\ n \in Fds /\ \A g \in DOMAIN fd : fd[g] \in Fds /\ fd[g] # m /\ fd[g] # n
    BY <2>2, <1>14 DEF Unused, AreOpen
  <2>4. PICK w : w = [pageno EXCEPT ![m] = 2]
    OBVIOUS
  <2>5. pageno' = [w EXCEPT ![n] = w[n] + 1]
    <3>1. InitialPages - 1 = 2
      BY DEF InitialPages
    <3> QED BY <3>1, <2>1, <2>4, <1>1 DEF IndexPageno
  <2>6. w \in [Fds -> Nat] /\ w[m] = 2 /\ \A k \in Fds : k # m => w[k] = pageno[k]
    BY <2>3, <2>4, <1>14
  <2>7. pageno' \in [Fds -> Nat] /\ pageno'[n] = w[n] + 1 /\ \A k \in Fds : k # n => pageno'[k] = w[k]
    BY <2>3, <2>5, <2>6
  <2>8. fd'[File] = n /\ \A g \in DOMAIN fd : fd'[g] = fd[g]
    BY <1>19 DEF OneMore
  <2> QED BY <2>1, <2>3, <2>6, <2>7, <2>8
<1>21. /\ ghost' \in Ghosts /\ ghost'.refused = ghost.refused /\ ghost'.busy = ghost.busy
       /\ ghost'.strays = ghost.strays
       /\ File \in ghost'.reopened <=> n # LowestFd(fd)
       /\ \A f : f # File => (f \in ghost'.reopened <=> f \in ghost.reopened)
  <2>1. CASE n = LowestFd(fd)
    <3>1. ghost' = [ghost EXCEPT !.reopened = @ \ {File}]
      BY <2>1, <1>1
    <3> QED BY <2>1, <3>1, <1>14 DEF Ghosts
  <2>2. CASE n # LowestFd(fd)
    <3>1. ghost' = [ghost EXCEPT !.reopened = @ \cup {File}]
      BY <2>2, <1>1
    <3> QED BY <2>2, <3>1, <1>6, <1>14 DEF Ghosts
  <2> QED BY <2>1, <2>2
<1>22. Types'
  <2>1. CatalogTypeOK'
    BY <1>1, <1>2, <1>14, <1>15, <1>19 DEF CatalogTypeOK, OneMore, AreOpen
  <2>2. ihs' \subseteq IndexNames
    BY <1>1, <1>6, <1>14
  <2>3. fd' = [f \in DOMAIN fd' |-> fd'[f]]
    BY <1>19 DEF OneMore, AreOpen
  <2> QED BY <2>1, <2>2, <2>3, <1>9, <1>12, <1>17, <1>20, <1>21 DEF Types
<1>23. OpenKnown'
  BY <1>11, <1>12, <1>18, <1>19, <1>21 DEF OpenKnown, OneMore
<1>24. FilesRight'
  <2>1. \A t : Refused(t)' <=> Refused(t)
    BY <1>21 DEF Refused
  <2>2. DOMAIN fd' = DOMAIN fd \cup {File}
    BY <1>19 DEF OneMore
  <2> SUFFICES ASSUME NEW f \in FilesOf(db'), ~Refused(f[1])
               PROVE  f \in disk'.file /\ f \in DOMAIN fd' /\ (f \in IndexNames => f \in ihs')
    BY <2>1, <1>11 DEF FilesRight
  <2>3. CASE f = File
    BY <2>2, <2>3, <1>1, <1>15
  <2>4. CASE f \in FilesOf(db)
    <3>1. f \in disk.file /\ f \in DOMAIN fd /\ (f \in IndexNames => f \in ihs)
      BY <2>4, <1>11 DEF Inv, FilesRight
    <3> QED BY <3>1, <2>2, <1>1, <1>15
  <2> QED BY <2>3, <2>4, <1>12
<1>25. Made'
  <2>1. todo'[1][1] = "fill"
    BY <1>10
  <2> QED BY <2>1 DEF Made
<1>26. Known' /\ MetaFollows'
  <2>1. todo'[1][1] = "fill" /\ Len(todo') \in 1..3
    BY <1>10
  <2>2. /\ ghost.refused = {} => ~disk.torn
        /\ ~ghost.busy /\ ghost.refused = {} => \A f \in disk.file : f \in FilesOf(db) \cup ghost.strays
    BY <1>4, EarlyFacts
  <2>3. Known'
    BY <2>2, <1>12, <1>15, <1>21 DEF Known
  <2> QED BY <2>1, <2>2, <2>3, <1>15, <1>21 DEF MetaFollows
<1>27. PagesBelow'
  <2> SUFFICES ASSUME NEW f \in ihs' \ ghost'.reopened, NEW p \in disk'.pages[f]
               PROVE  p < pageno'[fd'[f]]
    BY DEF PagesBelow
  <2>1. CASE f = File
    <3>1. p \in 0..2 /\ n = LowestFd(fd)
      BY <2>1, <1>16, <1>21
    <3> QED BY <2>1, <3>1, <1>20
  <2>2. CASE f # File
    <3>1. f \in ihs /\ f \notin ghost.reopened /\ f \in DOMAIN fd
      BY <2>2, <1>1, <1>14, <1>21
    <3>2. f \in DOMAIN disk.pages
      BY <3>1, <1>14 DEF IsDisk
    <3>3. p \in disk.pages[f]
      BY <2>2, <3>2, <1>16
    <3> QED BY <3>1, <3>3, <1>20 DEF Inv, PagesBelow
  <2> QED BY <2>1, <2>2
<1>28. Empty' /\ Startable'
  BY <1>2, UpFacts
<1> QED BY <1>9, <1>13, <1>22, <1>23, <1>24, <1>25, <1>26, <1>27, <1>28 DEF Inv

LEMMA CreateIndexFileStep ==
    ASSUME Inv, CreateIndexFile
    PROVE  Inv'
<1>1. At("create_index") /\ UNCHANGED server
  BY DEF CreateIndexFile
<1>2. CASE is_file(File) /\ Throw /\ UNCHANGED <<disk, db, ihs, fd, pageno, ghost>>
  BY <1>1, <1>2, ThrowStep
<1>3. CASE ~is_file(File) /\ LeaveStray
  BY <1>1, <1>3, StrayStep
<1>4. CASE ~is_file(File) /\ \E n \in Unused(fd) : MakeIndex(n)
  BY <1>1, <1>4, MakeIndexStep
<1> QED BY <1>2, <1>3, <1>4 DEF CreateIndexFile

-----------------------------------------------------------------------------
(***************************************************************************)
(* The steps of DROP.                                                      *)
(***************************************************************************)
\* A file is closed or destroyed, and what is left of the statement.
LEMMA DropFacts ==
    ASSUME Inv, NEW op \in {"close", "destroy"}, At(op)
    PROVE  /\ server = "up" /\ Len(todo) > 3 /\ Len(todo) >= 3 /\ op \notin Changes /\ op # "enter"
           /\ File \in FilesOf(db) /\ File \in Names /\ Doomed(todo, File) /\ File \in Pending(todo, op)
           /\ (Changing(todo, "erase") \/ Changing(todo, "forget"))
           /\ op = "destroy" => File \notin Pending(todo, "close")
           /\ op = "close" => File \in Pending(todo, "destroy")
<1>1. /\ server = "up" /\ todo \in Seq(Steps) /\ Ordered(todo) /\ todo # <<>> /\ Len(todo) \in Nat
      /\ todo[1] = <<op, File>> /\ Head(todo)[1] = op
      /\ File \in Names => File \in Pending(todo, op)
  BY AtFacts
<1>2. Len(todo) > 3 /\ (Changing(todo, "erase") \/ Changing(todo, "forget"))
  BY <1>1, HeadFacts
<1>3. Len(todo) >= 3 /\ 1 \in 1..Len(todo) /\ 2 \in 1..Len(todo) /\ op \notin Changes /\ op # "enter"
  <2>1. PICK n : n = Len(todo)
    OBVIOUS
  <2>2. n \in Nat /\ n > 3
    BY <2>1, <1>1, <1>2
  <2>3. n >= 3 /\ 1 \in 1..n /\ 2 \in 1..n
    BY <2>2
  <2> QED BY <2>1, <2>3 DEF Changes
<1>4. File \in Names
  <2>1. todo[1] \in Steps
    BY <1>1, <1>3
  <2>2. op \notin MetaOps
    BY DEF MetaOps
  <2> QED BY <2>1, <2>2, <1>1 DEF Steps
<1>5. File \in Pending(todo, op)
  BY <1>1, <1>4
<1>6. File \in FilesOf(db) /\ Doomed(todo, File)
  BY <1>5 DEF Inv, Meant
<1>7. op = "destroy" => File \notin Pending(todo, "close")
  <2> SUFFICES ASSUME op = "destroy", NEW k \in 1..Len(todo), todo[k] = <<"close", File>> PROVE FALSE
    BY DEF Pending
  <2>1. todo[k][1] = "close" /\ todo[k][2] = File
    OBVIOUS
  <2>2. k < Len(todo) - 3 /\ todo[k + 1] = <<"destroy", File>>
    BY <2>1, <1>1 DEF Ordered
  <2>3. k + 1 \in 1..Len(todo)
    <3>1. PICK n : n = Len(todo)
      OBVIOUS
    <3>2. n \in Nat /\ k \in 1..n /\ k < n - 3
      BY <3>1, <2>2, <1>1
    <3>3. k + 1 \in 1..n
      BY <3>2
    <3> QED BY <3>1, <3>3
  <2>4. k + 1 = 1
    <3>1. \A i, j \in 1..Len(todo) : todo[i] = todo[j] => i = j
      BY <1>1 DEF Ordered
    <3> QED BY <2>2, <2>3, <3>1, <1>1, <1>3
  <2> QED BY <2>4
<1>8. op = "close" => File \in Pending(todo, "destroy")
  <2> SUFFICES ASSUME op = "close" PROVE File \in Pending(todo, "destroy")
    OBVIOUS
  <2>1. todo[1][1] = "close" /\ todo[1][2] = File /\ 1 + 1 = 2
    BY <1>1
  <2>2. todo[2] = <<"destroy", File>>
    BY <2>1, <1>1, <1>3 DEF Ordered
  <2> QED BY <2>2, <1>3, <1>4 DEF Pending
<1> QED BY <1>1, <1>2, <1>3, <1>4, <1>5, <1>6, <1>7, <1>8

LEMMA DropDone ==
    ASSUME Inv, NEW op \in {"close", "destroy"}, At(op), Done, UNCHANGED <<db, server, ghost>>,
           disk'.torn = disk.torn, disk'.meta = disk.meta, disk'.file \subseteq disk.file
    PROVE  /\ todo' \in Seq(Steps) /\ Ordered(todo') /\ Meant(todo', db')
           /\ \A o, f : f \in Pending(todo', o) <=> f \in Pending(todo, o) /\ ~(o = op /\ f = File)
           /\ \A f : Doomed(todo', f) <=> Doomed(todo, f)
           /\ Made' /\ Known' /\ MetaFollows' /\ Empty' /\ Startable'
<1>1. /\ server = "up" /\ Len(todo) > 3 /\ Len(todo) >= 3 /\ op \notin Changes /\ op # "enter"
      /\ (Changing(todo, "erase") \/ Changing(todo, "forget"))
  BY DropFacts
<1>2. /\ todo' \in Seq(Steps) /\ Ordered(todo')
      /\ \A o, f : f \in Pending(todo', o) <=> f \in Pending(todo, o) /\ ~(o = op /\ f = File)
      /\ \A o : Changing(todo', o) <=> Changing(todo, o)
      /\ Change(todo') = Change(todo)
      /\ \A f : Doomed(todo', f) <=> Doomed(todo, f)
  BY <1>1, DoneFacts
<1>3. ~Changing(todo, "fill") /\ ~Changing(todo, "enter")
  BY <1>1 DEF Changing
<1>4. Meant(todo', db')
  BY <1>2, <1>3 DEF Inv, Meant
<1>5. Made'
  <2> SUFFICES ASSUME todo' # <<>>, todo'[1][1] = "enter" PROVE FALSE
    BY DEF Made
  <2>1. Head(todo')[1] = "enter"
    BY <1>2, StepFacts
  <2>2. "enter" \in Changes
    BY DEF Changes
  <2>3. Changing(todo', "enter")
    BY <2>1, <2>2, <1>2, HeadFacts
  <2> QED BY <2>3, <1>2, <1>3
<1>6. Known' /\ MetaFollows'
  BY <1>1, EarlyFacts DEF Known, MetaFollows
<1>7. Empty' /\ Startable'
  BY <1>1, UpFacts
<1> QED BY <1>2, <1>4, <1>5, <1>6, <1>7

LEMMA CloseFileStep ==
    ASSUME Inv, CloseFile
    PROVE  Inv'
<1>1. /\ At("close") /\ Done /\ ihs' = ihs \ {File} /\ UNCHANGED <<disk, db, pageno, server, ghost>>
      /\ fd' = IF File \in TableNames \cup ihs THEN close_file(fd, File) ELSE fd
  BY DEF CloseFile
<1>2. "close" \in {"close", "destroy"} /\ "close" # "destroy"
  OBVIOUS
<1>3. /\ File \in FilesOf(db) /\ Doomed(todo, File) /\ File \in Pending(todo, "close") /\ server = "up"
  BY <1>1, <1>2, DropFacts
<1>4. /\ todo' \in Seq(Steps) /\ Ordered(todo') /\ Meant(todo', db')
      /\ \A o, f : f \in Pending(todo', o) <=> f \in Pending(todo, o) /\ ~(o = "close" /\ f = File)
      /\ \A f : Doomed(todo', f) <=> Doomed(todo, f)
      /\ Made' /\ Known' /\ MetaFollows' /\ Empty' /\ Startable'
  BY <1>1, <1>2, DropDone
<1>5. /\ fd = [f \in DOMAIN fd |-> fd[f]] /\ ihs \subseteq DOMAIN fd /\ ihs \subseteq IndexNames
  BY DEF Inv, Types, CatalogTypeOK
<1>6. /\ DOMAIN fd' \subseteq DOMAIN fd /\ fd' = [f \in DOMAIN fd' |-> fd'[f]]
      /\ \A f \in DOMAIN fd' : fd'[f] = fd[f]
      /\ \A f \in DOMAIN fd : f # File => f \in DOMAIN fd'
      /\ File \in TableNames \cup ihs => File \notin DOMAIN fd'
  BY <1>1, <1>5 DEF close_file
<1>7. Types'
  <2>1. CatalogTypeOK'
    BY <1>1, <1>5, <1>6 DEF Inv, Types, CatalogTypeOK
  <2>2. ihs' \subseteq IndexNames
    BY <1>1, <1>5
  <2> QED BY <2>1, <2>2, <1>1, <1>4, <1>6 DEF Inv, Types
<1>8. OpenKnown'
  BY <1>1, <1>2, <1>4, <1>6 DEF Inv, OpenKnown
<1>9. FilesRight'
  <2>1. \A t : Refused(t)' <=> Refused(t)
    BY <1>1 DEF Refused
  <2> SUFFICES ASSUME NEW f \in FilesOf(db), ~Refused(f[1])
               PROVE  /\ f \in disk.file <=> (Doomed(todo', f) => f \in Pending(todo', "destroy"))
                      /\ f \in DOMAIN fd' <=> (Doomed(todo', f) => f \in Pending(todo', "close"))
                      /\ f \in IndexNames /\ f \in DOMAIN fd' => f \in ihs'
    BY <2>1, <1>1 DEF FilesRight
  <2>2. /\ f \in disk.file <=> (Doomed(todo, f) => f \in Pending(todo, "destroy"))
        /\ f \in DOMAIN fd <=> (Doomed(todo, f) => f \in Pending(todo, "close"))
        /\ f \in IndexNames /\ f \in DOMAIN fd => f \in ihs
    BY DEF Inv, FilesRight
  <2>3. f \in disk.file <=> (Doomed(todo', f) => f \in Pending(todo', "destroy"))
    BY <2>2, <1>2, <1>4
  <2>4. CASE f # File
    <3>1. f \in DOMAIN fd' <=> f \in DOMAIN fd
      BY <2>4, <1>6
    <3>2. f \in Pending(todo', "close") <=> f \in Pending(todo, "close")
      BY <2>4, <1>4
    <3> QED BY <2>2, <2>3, <2>4, <3>1, <3>2, <1>1, <1>4
  <2>5. CASE f = File
    <3>1. File \in TableNames \cup ihs
      BY <2>2, <2>5, <1>3 DEF FilesOf, IxFiles
    <3>2. File \notin DOMAIN fd' /\ File \notin Pending(todo', "close")
      BY <3>1, <1>4, <1>6
    <3> QED BY <2>3, <2>5, <3>2, <1>3, <1>4
  <2> QED BY <2>4, <2>5
<1>10. PagesBelow'
  BY <1>1, <1>5, <1>6 DEF Inv, PagesBelow
<1> QED BY <1>4, <1>7, <1>8, <1>9, <1>10 DEF Inv

\* A file that can be destroyed, or was missing, is gone.
LEMMA DestroyedStep ==
    ASSUME Inv, At("destroy"), Done, UNCHANGED <<db, ihs, fd, pageno, server, ghost>>,
           IsDisk(disk'), disk'.file = disk.file \ {File}, disk'.meta = disk.meta, disk'.torn = disk.torn,
           disk'.pages = disk.pages, File \notin DOMAIN fd
    PROVE  Inv'
<1>2. "destroy" \in {"close", "destroy"} /\ "close" # "destroy"
  OBVIOUS
<1>3. File \in FilesOf(db) /\ Doomed(todo, File) /\ server = "up"
  BY <1>2, DropFacts
<1>4. /\ todo' \in Seq(Steps) /\ Ordered(todo') /\ Meant(todo', db')
      /\ \A o, f : f \in Pending(todo', o) <=> f \in Pending(todo, o) /\ ~(o = "destroy" /\ f = File)
      /\ \A f : Doomed(todo', f) <=> Doomed(todo, f)
      /\ Made' /\ Known' /\ MetaFollows' /\ Empty' /\ Startable'
  BY <1>2, DropDone
<1>5. Types'
  <2>1. CatalogTypeOK'
    BY DEF Inv, Types, CatalogTypeOK
  <2> QED BY <2>1, <1>4 DEF Inv, Types
<1>6. OpenKnown'
  BY <1>4 DEF Inv, OpenKnown
<1>7. FilesRight'
  <2>1. \A t : Refused(t)' <=> Refused(t)
    BY DEF Refused
  <2> SUFFICES ASSUME NEW f \in FilesOf(db), ~Refused(f[1])
               PROVE  /\ f \in disk'.file <=> (Doomed(todo', f) => f \in Pending(todo', "destroy"))
                      /\ f \in DOMAIN fd <=> (Doomed(todo', f) => f \in Pending(todo', "close"))
                      /\ f \in IndexNames /\ f \in DOMAIN fd => f \in ihs
    BY <2>1 DEF FilesRight
  <2>2. /\ f \in disk.file <=> (Doomed(todo, f) => f \in Pending(todo, "destroy"))
        /\ f \in DOMAIN fd <=> (Doomed(todo, f) => f \in Pending(todo, "close"))
        /\ f \in IndexNames /\ f \in DOMAIN fd => f \in ihs
    BY DEF Inv, FilesRight
  <2>3. f \in Pending(todo', "close") <=> f \in Pending(todo, "close")
    BY <1>2, <1>4
  <2>4. f \in Pending(todo', "destroy") <=> f \in Pending(todo, "destroy") /\ f # File
    BY <1>4
  <2> QED BY <2>2, <2>3, <2>4, <1>3, <1>4
<1>8. PagesBelow'
  BY DEF Inv, PagesBelow
<1> QED BY <1>4, <1>5, <1>6, <1>7, <1>8 DEF Inv

LEMMA DestroyFileStep ==
    ASSUME Inv, DestroyFile
    PROVE  Inv'
<1>1. At("destroy") /\ UNCHANGED <<db, ihs, fd, pageno, server, ghost>>
  BY DEF DestroyFile
<1>2. IsDisk(disk) /\ DOMAIN fd \subseteq disk.file
  BY DEF Inv, Types, CatalogTypeOK
<1>3. CASE CanDestroy(File) /\ Done /\ disk' = [disk EXCEPT !.file = @ \ {File}]
  <2>1. /\ disk'.file = disk.file \ {File} /\ disk'.meta = disk.meta /\ disk'.torn = disk.torn
        /\ disk'.pages = disk.pages
        /\ disk' = [file |-> disk'.file, meta |-> disk'.meta, torn |-> disk'.torn, pages |-> disk'.pages]
    BY <1>2, <1>3 DEF IsDisk
  <2>2. IsDisk(disk')
    BY <2>1, <1>2 DEF IsDisk
  <2>3. File \notin DOMAIN fd
    BY <1>3 DEF CanDestroy, IsOpen
  <2> QED BY <2>1, <2>2, <2>3, <1>1, <1>3, DestroyedStep
<1>4. CASE ~is_file(File) /\ File \in IndexNames /\ Done /\ UNCHANGED disk
  <2>1. disk'.file = disk.file \ {File} /\ File \notin DOMAIN fd
    BY <1>2, <1>4 DEF is_file
  <2> QED BY <2>1, <1>1, <1>2, <1>4, DestroyedStep
<1>5. CASE ~CanDestroy(File) /\ (is_file(File) \/ File \in TableNames) /\ Throw /\ UNCHANGED disk
  <2>1. "destroy" \in {"close", "destroy"}
    OBVIOUS
  <2>2. /\ server = "up" /\ File \in FilesOf(db) /\ Doomed(todo, File) /\ File \in Pending(todo, "destroy")
        /\ File \notin Pending(todo, "close")
        /\ (Changing(todo, "erase") \/ Changing(todo, "forget"))
    BY <1>1, <2>1, DropFacts
  <2>3. PICK h : h = File
    OBVIOUS
  <2>4. Refused(h[1])
    <3> SUFFICES ASSUME ~Refused(h[1]) PROVE FALSE
      OBVIOUS
    <3>1. File \in disk.file /\ File \notin DOMAIN fd
      BY <2>2, <2>3 DEF Inv, FilesRight
    <3> QED BY <3>1, <1>5 DEF CanDestroy, is_file, IsOpen
  <2>5. \A f : Doomed(todo, f) => f[1] = h[1]
    BY <2>2, <2>3, OneChange DEF Doomed
  <2>6. todo' = <<>> /\ todo' \in Seq(Steps) /\ Ordered(todo') /\ Len(todo') = 0
    BY <1>5, EmptyList DEF Throw
  <2>7. Meant(todo', db') /\ \A f : ~Doomed(todo', f)
    <3>1. Len(todo') <= 2
      BY <2>6
    <3> QED BY <3>1, <2>6, ShortFacts
  <2>8. Types'
    <3>1. CatalogTypeOK'
      BY <1>1, <1>5 DEF Inv, Types, CatalogTypeOK
    <3> QED BY <3>1, <1>1, <1>5, <2>6 DEF Inv, Types
  <2>9. \A t : Refused(t)' <=> Refused(t)
    BY <1>1 DEF Refused
  <2>10. OpenKnown'
    BY <1>1, <2>7 DEF Inv, OpenKnown
  <2>11. FilesRight'
    <3> SUFFICES ASSUME NEW f \in FilesOf(db), ~Refused(f[1])
                 PROVE  f \in disk.file /\ f \in DOMAIN fd /\ (f \in IndexNames => f \in ihs)
      BY <1>1, <1>5, <2>7, <2>9 DEF FilesRight
    <3>1. ~Doomed(todo, f)
      BY <2>4, <2>5
    <3> QED BY <3>1 DEF Inv, FilesRight
  <2>12. ghost'.refused # {}
    BY <1>1, <2>4 DEF Refused
  <2>13. Made' /\ Known' /\ MetaFollows'
    BY <2>6, <2>12 DEF Made, Known, MetaFollows
  <2>14. PagesBelow'
    BY <1>1, <1>5 DEF Inv, PagesBelow
  <2>15. Empty' /\ Startable'
    BY <1>1, <2>2, UpFacts
  <2> QED BY <2>6, <2>7, <2>8, <2>10, <2>11, <2>13, <2>14, <2>15 DEF Inv
<1> QED BY <1>3, <1>4, <1>5 DEF DestroyFile

\* The catalogue loses what the statement has closed and destroyed.
LEMMA LosesStep ==
    ASSUME Inv, NEW op \in {"erase", "forget"}, At(op), Done, UNCHANGED <<disk, ihs, fd, pageno, server, ghost>>,
           IsCatalogue(db'), FilesOf(db') = {f \in FilesOf(db) : ~Doomed(todo, f)}
    PROVE  Inv'
<1>1. op \in Changes /\ op # "enter"
  BY DEF Changes
<1>2. /\ server = "up" /\ todo[1] = <<op, File>>
      /\ Pending(todo, "close") = {} /\ Pending(todo, "destroy") = {}
      /\ ghost.refused = {} => ~disk.torn
  BY <1>1, ChangeFacts
<1>3. /\ todo' \in Seq(Steps) /\ Ordered(todo') /\ todo' # <<>> /\ todo'[1][1] = "truncate"
      /\ Len(todo') \in 1..3 /\ Meant(todo', db') /\ (\A f : ~Doomed(todo', f)) /\ Made'
  BY <1>1, ChangeDone
<1>4. Types'
  <2>1. CatalogTypeOK'
    BY DEF Inv, Types, CatalogTypeOK
  <2> QED BY <2>1, <1>3 DEF Inv, Types
<1>5. OpenKnown'
  BY <1>2, <1>3 DEF Inv, OpenKnown
<1>6. \A t : Refused(t)' <=> Refused(t)
  BY DEF Refused
<1>7. FilesRight'
  BY <1>3, <1>6 DEF Inv, FilesRight
<1>8. Known'
  <2> SUFFICES ASSUME server = "up", ~ghost.busy, ghost.refused = {}, NEW f \in disk.file
               PROVE  f \in FilesOf(db') \cup ghost.strays
    BY DEF Known
  <2>1. todo[1] # <<"enter", f>>
    BY <1>1, <1>2
  <2>2. f \in FilesOf(db) \cup ghost.strays
    BY <2>1 DEF Inv, Known
  <2>3. ~Refused(f[1])
    BY DEF Refused
  <2>4. f \in FilesOf(db) => ~Doomed(todo, f)
    BY <2>3, <1>2 DEF Inv, FilesRight
  <2> QED BY <2>2, <2>4
<1>9. MetaFollows'
  BY <1>2, <1>3 DEF MetaFollows
<1>10. PagesBelow'
  BY DEF Inv, PagesBelow
<1>11. Empty' /\ Startable'
  BY <1>2, UpFacts
<1> QED BY <1>3, <1>4, <1>5, <1>7, <1>8, <1>9, <1>10, <1>11 DEF Inv

LEMMA EraseStep ==
    ASSUME Inv, Erase
    PROVE  Inv'
<1>1. /\ At("erase") /\ Done /\ db' = [t \in DOMAIN db \ {File[1]} |-> db[t]]
      /\ UNCHANGED <<disk, ihs, fd, pageno, server, ghost>>
  BY DEF Erase
<1>2. "erase" \in Changes /\ "erase" \in {"erase", "forget"} /\ "erase" # "forget"
  BY DEF Changes
<1>3. Change(todo)[2] = File /\ \A o : Changing(todo, o) <=> o = "erase"
  BY <1>1, <1>2, ChangeFacts
<1>4. \A f : Doomed(todo, f) <=> f[1] = File[1]
  BY <1>2, <1>3 DEF Doomed
<1>5. IsCatalogue(db') /\ FilesOf(db') = {f \in FilesOf(db) : f[1] # File[1]}
  <2>1. IsCatalogue(db)
    BY DEF Inv, Types
  <2> QED BY <2>1, <1>1, EraseFiles
<1>6. FilesOf(db') = {f \in FilesOf(db) : ~Doomed(todo, f)}
  BY <1>4, <1>5
<1> QED BY <1>1, <1>2, <1>5, <1>6, LosesStep

LEMMA ForgetStep ==
    ASSUME Inv, Forget
    PROVE  Inv'
<1>1. At("forget") /\ Done /\ UNCHANGED <<disk, ihs, fd, pageno, server, ghost>>
  BY DEF Forget
<1>2. PICK k \in DOMAIN db[File[1]] :
          db[File[1]][k] = File[2] /\ db' = [db EXCEPT ![File[1]] = Without(@, k)]
  BY DEF Forget
<1>3. "forget" \in Changes /\ "forget" \in {"erase", "forget"} /\ "erase" # "forget"
  BY DEF Changes
<1>4. Change(todo)[2] = File /\ \A o : Changing(todo, o) <=> o = "forget"
  BY <1>1, <1>3, ChangeFacts
<1>5. \A f : Doomed(todo, f) <=> f = File
  BY <1>3, <1>4 DEF Doomed
<1>6. File \in IxFiles(db)
  BY <1>4 DEF Inv, Meant
<1>7. File \in IndexNames /\ File[1] \in DOMAIN db /\ File = On(File[1], File[2])
  BY <1>6, NameFacts DEF IxFiles
<1>8. IsCatalogue(db') /\ FilesOf(db') = FilesOf(db) \ {On(File[1], db[File[1]][k])}
  <2>1. PICK c, d, t : c = db /\ d = db' /\ t = File[1]
    OBVIOUS
  <2>2. IsCatalogue(db)
    BY DEF Inv, Types
  <2>3. Loses(c, t, k, d)
    BY <2>1, <2>2, <1>2, <1>7 DEF Loses
  <2>4. IsCatalogue(d) /\ FilesOf(d) = FilesOf(c) \ {On(t, c[t][k])}
    BY <2>3, ForgetFiles
  <2> QED BY <2>1, <2>4
<1>9. FilesOf(db') = {f \in FilesOf(db) : ~Doomed(todo, f)}
  BY <1>2, <1>5, <1>7, <1>8
<1> QED BY <1>1, <1>3, <1>8, <1>9, LosesStep

-----------------------------------------------------------------------------
(***************************************************************************)
(* The metadata file, new pages, stop and start.                           *)
(***************************************************************************)
LEMMA FlushStep ==
    ASSUME Inv, NEW op \in MetaOps, At(op), Done, UNCHANGED <<db, ihs, fd, pageno, server, ghost>>,
           IsDisk(disk'), disk'.file = disk.file, disk'.pages = disk.pages, MetaFollows'
    PROVE  Inv'
<1>1. /\ server = "up" /\ todo \in Seq(Steps) /\ Ordered(todo) /\ todo # <<>> /\ Len(todo) \in Nat
      /\ todo[1] = <<op, File>> /\ Head(todo)[1] = op
  BY AtFacts
<1>2. Len(todo) <= 2
  <2>1. PICK n : n = Len(todo)
    OBVIOUS
  <2>2. n = 1 \/ n = 2
    BY <2>1, <1>1, HeadFacts DEF MetaOps
  <2>3. n <= 2
    BY <2>2
  <2> QED BY <2>1, <2>3
<1>3. todo' \in Seq(Steps) /\ Ordered(todo') /\ Len(todo') = Len(todo) - 1
  BY DoneFacts
<1>4. Len(todo') <= 2
  BY <1>1, <1>2, <1>3
<1>5. \A f : ~Doomed(todo, f)
  BY <1>1, <1>2, ShortFacts
<1>6. Meant(todo', db') /\ \A f : ~Doomed(todo', f)
  BY <1>3, <1>4, ShortFacts
<1>7. Types'
  <2>1. CatalogTypeOK'
    BY DEF Inv, Types, CatalogTypeOK
  <2> QED BY <2>1, <1>3 DEF Inv, Types
<1>8. OpenKnown' /\ FilesRight'
  <2>1. \A t : Refused(t)' <=> Refused(t)
    BY DEF Refused
  <2> QED BY <2>1, <1>5, <1>6 DEF Inv, OpenKnown, FilesRight
<1>9. Made'
  <2> SUFFICES ASSUME todo' # <<>>, todo'[1][1] = "enter" PROVE FALSE
    BY DEF Made
  <2>1. Head(todo')[1] = "enter"
    BY <1>3, StepFacts
  <2>2. Len(todo') = 3
    BY <2>1, <1>3, HeadFacts DEF Changes
  <2> QED BY <2>2, <1>4
<1>10. Known'
  <2>1. \A f : todo[1] # <<"enter", f>>
    <3>1. op # "enter"
      BY DEF MetaOps
    <3> QED BY <3>1, <1>1
  <2> QED BY <2>1 DEF Inv, Known
<1>11. PagesBelow'
  BY DEF Inv, PagesBelow
<1>12. Empty' /\ Startable'
  BY <1>1, UpFacts
<1> QED BY <1>3, <1>6, <1>7, <1>8, <1>9, <1>10, <1>11, <1>12 DEF Inv

LEMMA TruncateStep ==
    ASSUME Inv, Truncate
    PROVE  Inv'
<1>1. /\ At("truncate") /\ Done /\ disk' = [disk EXCEPT !.torn = TRUE]
      /\ UNCHANGED <<db, ihs, fd, pageno, server, ghost>>
  BY DEF Truncate
<1>2. /\ todo \in Seq(Steps) /\ Ordered(todo) /\ todo # <<>> /\ Head(todo)[1] = "truncate"
  BY <1>1, AtFacts
<1>3. Len(todo) = 2
  BY <1>2, HeadFacts
<1>4. todo' \in Seq(Steps) /\ Ordered(todo') /\ Len(todo') = Len(todo) - 1
  BY <1>1, DoneFacts
<1>5. Len(todo') = 1 /\ Len(todo') \in 1..3 /\ 1 \in 1..Len(todo') /\ 1 = Len(todo')
  BY <1>3, <1>4
<1>6. todo'[1][1] = "write"
  BY <1>4, <1>5 DEF Ordered
<1>7. MetaFollows'
  BY <1>5, <1>6 DEF MetaFollows
<1>8. IsDisk(disk)
  BY DEF Inv, Types
<1>9. /\ disk'.file = disk.file /\ disk'.meta = disk.meta /\ disk'.torn = TRUE /\ disk'.pages = disk.pages
      /\ disk' = [file |-> disk'.file, meta |-> disk'.meta, torn |-> disk'.torn, pages |-> disk'.pages]
  BY <1>1, <1>8 DEF IsDisk
<1>10. IsDisk(disk')
  BY <1>8, <1>9 DEF IsDisk
<1>11. "truncate" \in MetaOps
  BY DEF MetaOps
<1> QED BY <1>1, <1>7, <1>9, <1>10, <1>11, FlushStep

LEMMA WriteMetaStep ==
    ASSUME Inv, WriteMeta
    PROVE  Inv'
<1>1. /\ At("write") /\ Done /\ disk' = [disk EXCEPT !.meta = db, !.torn = FALSE]
      /\ UNCHANGED <<db, ihs, fd, pageno, server, ghost>>
  BY DEF WriteMeta
<1>2. IsDisk(disk) /\ IsCatalogue(db)
  BY DEF Inv, Types
<1>3. /\ disk'.file = disk.file /\ disk'.meta = db /\ disk'.torn = FALSE /\ disk'.pages = disk.pages
      /\ disk' = [file |-> disk'.file, meta |-> disk'.meta, torn |-> disk'.torn, pages |-> disk'.pages]
  BY <1>1, <1>2 DEF IsDisk
<1>4. IsDisk(disk')
  BY <1>2, <1>3 DEF IsDisk
<1>5. MetaFollows'
  BY <1>1, <1>3 DEF MetaFollows
<1>6. "write" \in MetaOps
  BY DEF MetaOps
<1> QED BY <1>1, <1>3, <1>4, <1>5, <1>6, FlushStep

LEMMA SplitStep ==
    ASSUME Inv, NEW f \in ihs, Split(f)
    PROVE  Inv'
<1>1. /\ todo = <<>> /\ server = "up" /\ UNCHANGED <<db, ihs, fd, todo, server>>
      /\ pageno' = [pageno EXCEPT ![fd[f]] = @ + 1]
      /\ disk' = [disk EXCEPT !.pages[f] = @ \cup {pageno[fd[f]]}]
      /\ ghost' = [ghost EXCEPT !.splits = @ + 1]
  BY DEF Split, Free
<1>2. /\ IsDisk(disk) /\ ghost \in Ghosts /\ pageno \in [Fds -> Nat] /\ ihs \subseteq IndexNames
      /\ ihs \subseteq DOMAIN fd /\ DOMAIN fd \subseteq disk.file
      /\ \A g \in DOMAIN fd : fd[g] \in Fds
      /\ \A g, h \in DOMAIN fd : fd[g] = fd[h] => g = h
  BY DEF Inv, Types, CatalogTypeOK
<1>3. fd[f] \in Fds /\ pageno[fd[f]] \in Nat
  BY <1>2
<1>4. \A g \in ihs : g \in DOMAIN disk.pages
  BY <1>2 DEF IsDisk
<1>5. /\ disk'.file = disk.file /\ disk'.meta = disk.meta /\ disk'.torn = disk.torn
      /\ disk'.pages = [disk.pages EXCEPT ![f] = @ \cup {pageno[fd[f]]}]
      /\ disk' = [file |-> disk'.file, meta |-> disk'.meta, torn |-> disk'.torn, pages |-> disk'.pages]
  BY <1>1, <1>2 DEF IsDisk
<1>6. /\ DOMAIN disk'.pages = DOMAIN disk.pages /\ disk'.pages[f] = disk.pages[f] \cup {pageno[fd[f]]}
      /\ \A g \in DOMAIN disk.pages : g # f => disk'.pages[g] = disk.pages[g]
      /\ disk'.pages = [g \in DOMAIN disk'.pages |-> disk'.pages[g]]
  <2>1. PICK p, q, n : p = disk.pages /\ q = disk'.pages /\ n = pageno[fd[f]]
    OBVIOUS
  <2>2. p = [g \in DOMAIN p |-> p[g]] /\ f \in DOMAIN p
    BY <2>1, <1>2, <1>4 DEF IsDisk
  <2>3. q = [p EXCEPT ![f] = @ \cup {n}]
    BY <2>1, <1>5
  <2>4. /\ DOMAIN q = DOMAIN p /\ q[f] = p[f] \cup {n} /\ q = [g \in DOMAIN q |-> q[g]]
        /\ \A g \in DOMAIN p : g # f => q[g] = p[g]
    BY <2>2, <2>3
  <2> QED BY <2>1, <2>4
<1>7. IsDisk(disk')
  <2>1. \A g \in DOMAIN disk'.pages : disk'.pages[g] \subseteq Nat
    BY <1>2, <1>3, <1>6 DEF IsDisk
  <2> QED BY <2>1, <1>2, <1>5, <1>6 DEF IsDisk
<1>8. /\ pageno' \in [Fds -> Nat] /\ pageno'[fd[f]] = pageno[fd[f]] + 1
      /\ \A g \in ihs : g # f => pageno'[fd[g]] = pageno[fd[g]]
  <2>1. pageno' \in [Fds -> Nat] /\ pageno'[fd[f]] = pageno[fd[f]] + 1
    BY <1>1, <1>2, <1>3
  <2>2. \A g \in ihs : g # f => fd[g] # fd[f] /\ fd[g] \in Fds
    BY <1>2
  <2> QED BY <2>1, <2>2, <1>1, <1>2
<1>9. /\ ghost' \in Ghosts /\ ghost'.refused = ghost.refused /\ ghost'.busy = ghost.busy
      /\ ghost'.reopened = ghost.reopened /\ ghost'.strays = ghost.strays
  <2>1. ghost' = [ghost EXCEPT !.splits = @ + 1] /\ ghost \in Ghosts
    BY <1>1, <1>2
  <2> QED BY <2>1 DEF Ghosts
<1>10. Types'
  <2>1. CatalogTypeOK'
    BY <1>1, <1>5 DEF Inv, Types, CatalogTypeOK
  <2> QED BY <2>1, <1>1, <1>7, <1>8, <1>9 DEF Inv, Types
<1>11. OpenKnown' /\ FilesRight'
  <2>1. \A t : Refused(t)' <=> Refused(t)
    BY <1>9 DEF Refused
  <2> QED BY <2>1, <1>1, <1>5, <1>9 DEF Inv, OpenKnown, FilesRight
<1>12. Made' /\ Known' /\ MetaFollows'
  BY <1>1, <1>5, <1>9 DEF Inv, Made, Known, MetaFollows
<1>13. PagesBelow'
  <2> SUFFICES ASSUME NEW g \in ihs, g \notin ghost.reopened, NEW n \in disk'.pages[g]
               PROVE  n < pageno'[fd[g]]
    BY <1>1, <1>9 DEF PagesBelow
  <2>1. \A k \in disk.pages[g] : k < pageno[fd[g]] /\ k \in Nat
    BY <1>2, <1>4 DEF Inv, PagesBelow, IsDisk
  <2>2. CASE g = f
    <3>1. CASE n = pageno[fd[f]]
      BY <2>2, <3>1, <1>3, <1>8
    <3>2. CASE n \in disk.pages[f]
      BY <2>1, <2>2, <3>2, <1>3, <1>8
    <3> QED BY <2>2, <3>1, <3>2, <1>6
  <2>3. CASE g # f
    BY <2>1, <2>3, <1>4, <1>6, <1>8
  <2> QED BY <2>2, <2>3
<1>14. Empty' /\ Startable'
  BY <1>1, UpFacts
<1>15. Ordered(todo)' /\ Meant(todo, db)'
  BY <1>1 DEF Inv
<1> QED BY <1>10, <1>11, <1>12, <1>13, <1>14, <1>15 DEF Inv

\* A catalogue without tables.
LEMMA NoTables == IsCatalogue(<<>>) /\ FilesOf(<<>>) = {} /\ DOMAIN <<>> = {}
<1>1. DOMAIN <<>> = {} /\ <<>> = [t \in DOMAIN <<>> |-> <<>>[t]]
  OBVIOUS
<1> QED BY <1>1 DEF IsCatalogue, FilesOf, IxFiles

LEMMA HaltStep ==
    ASSUME Inv, server = "up", NEW busy \in BOOLEAN, Halt(busy), busy \/ todo = <<>>
    PROVE  Inv'
<1>1. /\ server' = "down" /\ db' = <<>> /\ ihs' = {} /\ fd' = <<>> /\ todo' = <<>> /\ disk' = disk
      /\ pageno' = [f \in Fds |-> 0]
      /\ ghost' = [ghost EXCEPT !.stops = @ + 1, !.busy = @ \/ busy]
  BY DEF Halt
<1>2. ghost \in Ghosts
  BY DEF Inv, Types
<1>3. /\ ghost' \in Ghosts /\ ghost'.refused = ghost.refused /\ ghost'.reopened = ghost.reopened
      /\ ghost'.strays = ghost.strays /\ (~ghost'.busy => ~ghost.busy /\ ~busy)
  <2>1. PICK b \in BOOLEAN : b = (ghost.busy \/ busy)
    OBVIOUS
  <2>2. ghost' = [ghost EXCEPT !.stops = @ + 1, !.busy = b]
    BY <1>1, <2>1
  <2>3. /\ ghost' \in Ghosts /\ ghost'.refused = ghost.refused /\ ghost'.busy = b
        /\ ghost'.reopened = ghost.reopened /\ ghost'.strays = ghost.strays
    <3>1. PICK g : g = [ghost EXCEPT !.stops = @ + 1]
      OBVIOUS
    <3>2. /\ g \in Ghosts /\ g.refused = ghost.refused /\ g.reopened = ghost.reopened
          /\ g.strays = ghost.strays
      BY <3>1, <1>2 DEF Ghosts
    <3>3. ghost' = [g EXCEPT !.busy = b]
      BY <2>2, <3>1
    <3> QED BY <2>1, <3>2, <3>3 DEF Ghosts
  <2> QED BY <2>1, <2>3
<1>4. todo' \in Seq(Steps) /\ Ordered(todo') /\ Meant(todo', db')
  <2>1. Len(<<>>) <= 2
    BY EmptyList
  <2> QED BY <2>1, <1>1, EmptyList, ShortFacts
<1>5. DOMAIN fd' = {} /\ FilesOf(db') = {} /\ IsCatalogue(db') /\ fd' = [f \in DOMAIN fd' |-> fd'[f]]
  BY <1>1, NoTables
<1>6. Types'
  <2>1. CatalogTypeOK'
    BY <1>1, <1>5 DEF CatalogTypeOK
  <2>2. pageno' \in [Fds -> Nat] /\ ihs' \subseteq IndexNames
    BY <1>1
  <2> QED BY <2>1, <2>2, <1>1, <1>3, <1>4, <1>5 DEF Inv, Types
<1>7. Empty' /\ OpenKnown' /\ FilesRight' /\ Made' /\ Known' /\ MetaFollows' /\ PagesBelow'
  <2>1. server' # "up"
    BY <1>1
  <2>2. Empty' /\ Known' /\ MetaFollows'
    BY <2>1, <1>1 DEF Empty, Known, MetaFollows
  <2>3. OpenKnown' /\ FilesRight'
    BY <1>5 DEF OpenKnown, FilesRight
  <2>4. Made' /\ PagesBelow'
    BY <1>1 DEF Made, PagesBelow
  <2> QED BY <2>2, <2>3, <2>4
<1>8. Startable'
  <2>1. StartsAgain'
    BY <1>1 DEF StartsAgain
  <2>2. ASSUME ~ghost'.busy, ghost'.refused = {}
        PROVE  /\ ~disk.torn /\ FilesOf(disk.meta) \subseteq disk.file
               /\ disk.file \subseteq FilesOf(disk.meta) \cup ghost.strays
    <3>1. todo = <<>> /\ ~ghost.busy /\ ghost.refused = {}
      BY <2>2, <1>3
    <3>2. \A t : ~Refused(t)
      BY <3>1 DEF Refused
    <3>3. /\ ~disk.torn /\ disk.meta = db
          /\ \A f \in FilesOf(db) : f \in disk.file
          /\ \A f \in disk.file : f \in FilesOf(db) \cup ghost.strays
      BY <3>1, <3>2, FreeFacts
    <3> QED BY <3>3
  <2> QED BY <2>1, <2>2, <1>1, <1>3 DEF Startable
<1> QED BY <1>4, <1>6, <1>7, <1>8 DEF Inv

LEMMA StopStep ==
    ASSUME Inv, close_db \/ Kill
    PROVE  Inv'
<1>1. CASE close_db
  <2>1. server = "up" /\ todo = <<>> /\ Halt(FALSE)
    BY <1>1 DEF close_db, Free
  <2> QED BY <2>1, HaltStep
<1>2. CASE Kill
  <2>1. PICK busy : busy = (todo # <<>>)
    OBVIOUS
  <2>2. server = "up" /\ Halt(busy) /\ busy \in BOOLEAN /\ (busy \/ todo = <<>>)
    BY <1>2, <2>1 DEF Kill
  <2> QED BY <2>2, HaltStep
<1> QED BY <1>1, <1>2

LEMMA OpenStep ==
    ASSUME Inv, open_db
    PROVE  Inv'
<1> DEFINE files == FilesOf(disk.meta)
<1>1. server = "down" /\ UNCHANGED <<disk, pageno, todo>>
  BY DEF open_db
<1>2. todo = <<>> /\ db = <<>> /\ fd = <<>> /\ ihs = {}
  BY <1>1 DEF Inv, Empty
<1>3. IsDisk(disk) /\ ghost \in Ghosts
  BY DEF Inv, Types
<1>4. CASE disk.torn \/ ~(files \subseteq disk.file)
  <2>1. server' = "refused" /\ UNCHANGED <<db, ihs, fd, ghost>>
    BY <1>4 DEF open_db
  <2>2. Startable'
    <3>1. ~(~ghost.busy /\ ghost.refused = {})
      BY <1>1, <1>4 DEF Inv, Startable
    <3> QED BY <3>1, <2>1 DEF Startable, StartsAgain
  <2>3. Types'
    <3>1. CatalogTypeOK'
      BY <1>1, <2>1 DEF Inv, Types, CatalogTypeOK
    <3> QED BY <3>1, <1>1, <2>1 DEF Inv, Types
  <2>4. server' # "up"
    BY <2>1
  <2>5. Empty' /\ Known' /\ MetaFollows'
    BY <1>1, <1>2, <2>1, <2>4 DEF Empty, Known, MetaFollows
  <2>6. \A t : Refused(t)' <=> Refused(t)
    BY <2>1 DEF Refused
  <2>7. OpenKnown' /\ FilesRight' /\ Made' /\ PagesBelow'
    BY <1>1, <2>1, <2>6 DEF Inv, OpenKnown, FilesRight, Made, PagesBelow
  <2>8. Ordered(todo)' /\ Meant(todo, db)'
    BY <1>1, <2>1 DEF Inv
  <2> QED BY <2>2, <2>3, <2>5, <2>7, <2>8 DEF Inv
<1>5. CASE ~(disk.torn \/ ~(files \subseteq disk.file))
  <2>1. /\ server' = "up" /\ db' = disk.meta /\ ihs' = IxFiles(disk.meta)
        /\ fd' = CHOOSE open \in [files -> Fds] : \A f, g \in files : open[f] = open[g] => f = g
        /\ ghost' = [ghost EXCEPT !.reopened = IxFiles(disk.meta)]
    BY <1>5 DEF open_db
  <2>2. files \subseteq disk.file /\ ~disk.torn /\ files \subseteq Names /\ IxFiles(disk.meta) \subseteq IndexNames
    BY <1>5 DEF FilesOf, IxFiles, Names
  <2> HIDE DEF files
  <2>3. fd' \in [files -> Fds] /\ \A f, g \in files : fd'[f] = fd'[g] => f = g
    <3>1. PICK fs, o : fs = files /\ o = fd'
      OBVIOUS
    <3>2. fs \subseteq Names
      BY <2>2, <3>1
    <3>3. o = CHOOSE open \in [fs -> Fds] : \A f, g \in fs : open[f] = open[g] => f = g
      BY <2>1, <3>1
    <3>4. o \in [fs -> Fds] /\ \A f, g \in fs : o[f] = o[g] => f = g
      BY <3>2, <3>3, OpenAll
    <3> QED BY <3>1, <3>4
  <2>4. /\ ghost' \in Ghosts /\ ghost'.refused = ghost.refused /\ ghost'.busy = ghost.busy
        /\ ghost'.reopened = IxFiles(disk.meta) /\ ghost'.strays = ghost.strays
    <3>1. ghost' = [ghost EXCEPT !.reopened = IxFiles(disk.meta)]
      BY <2>1
    <3> QED BY <3>1, <2>2, <1>3 DEF Ghosts
  <2>5. todo' = <<>> /\ todo' \in Seq(Steps) /\ Ordered(todo') /\ Meant(todo', db') /\ \A f : ~Doomed(todo', f)
    <3>1. Len(<<>>) <= 2
      BY EmptyList
    <3> QED BY <3>1, <1>1, <1>2, EmptyList, ShortFacts
  <2>6. DOMAIN fd' = files /\ FilesOf(db') = files /\ ihs' \subseteq files
    BY <2>1, <2>3 DEF files, FilesOf
  <2>7. Types'
    <3>1. CatalogTypeOK'
      BY <1>1, <2>1, <2>2, <2>3, <2>6 DEF CatalogTypeOK
    <3>2. IsDisk(disk') /\ IsCatalogue(db')
      BY <1>1, <1>3, <2>1 DEF IsDisk
    <3>3. fd' = [f \in DOMAIN fd' |-> fd'[f]] /\ ihs' \subseteq IndexNames /\ pageno' \in [Fds -> Nat]
      <4>1. fd' = [f \in DOMAIN fd' |-> fd'[f]]
        BY <2>3
      <4>2. ihs' \subseteq IndexNames
        BY <2>1, <2>2
      <4>3. pageno' \in [Fds -> Nat]
        BY <1>1 DEF Inv, Types
      <4> QED BY <4>1, <4>2, <4>3
    <3> QED BY <3>1, <3>2, <3>3, <2>4, <2>5 DEF Types
  <2>8. OpenKnown'
    BY <2>5, <2>6 DEF OpenKnown
  <2>9. FilesRight'
    <3>1. \A f \in files : f \in IndexNames => f \in ihs'
      BY <2>1, NameFacts DEF files, FilesOf
    <3> QED BY <3>1, <1>1, <2>2, <2>5, <2>6 DEF FilesRight
  <2>10. Made' /\ PagesBelow'
    BY <2>1, <2>4, <2>5 DEF Made, PagesBelow
  <2>11. Known' /\ MetaFollows'
    <3>1. ~ghost.busy /\ ghost.refused = {} => disk.file \subseteq files \cup ghost.strays
      BY <1>1 DEF Inv, Startable, files
    <3> QED BY <3>1, <1>1, <2>1, <2>2, <2>4, <2>6 DEF Known, MetaFollows
  <2>12. Empty' /\ Startable'
    BY <2>1, UpFacts
  <2> QED BY <2>5, <2>7, <2>8, <2>9, <2>10, <2>11, <2>12 DEF Inv
<1> QED BY <1>4, <1>5

-----------------------------------------------------------------------------
(***************************************************************************)
(* The theorems.                                                           *)
(***************************************************************************)
LEMMA InitInv == Init => Inv
<1> SUFFICES ASSUME Init PROVE Inv
  OBVIOUS
<1>1. /\ db = <<>> /\ ihs = {} /\ fd = <<>> /\ pageno = [f \in Fds |-> 0] /\ todo = <<>> /\ server = "up"
      /\ disk.file = {} /\ disk.meta = <<>> /\ disk.torn = FALSE /\ disk.pages = <<>>
      /\ disk = [file |-> disk.file, meta |-> disk.meta, torn |-> disk.torn, pages |-> disk.pages]
  BY DEF Init
<1>2. ghost \in Ghosts
  BY DEF Init, Ghosts
<1>3. IsCatalogue(<<>>) /\ FilesOf(<<>>) = {} /\ DOMAIN <<>> = {}
  BY NoTables
<1>4. todo \in Seq(Steps) /\ Ordered(todo) /\ Meant(todo, db)
  <2>1. Len(<<>>) <= 2
    BY EmptyList
  <2> QED BY <2>1, <1>1, EmptyList, ShortFacts
<1>5. Types
  <2>1. disk.pages = [f \in DOMAIN disk.pages |-> disk.pages[f]]
    BY <1>1
  <2>2. IsDisk(disk)
    BY <2>1, <1>1, <1>3 DEF IsDisk
  <2>3. CatalogTypeOK
    BY <1>1, <1>3 DEF CatalogTypeOK
  <2>4. fd = [f \in DOMAIN fd |-> fd[f]] /\ pageno \in [Fds -> Nat] /\ ihs \subseteq IndexNames
    BY <1>1
  <2> QED BY <2>2, <2>3, <2>4, <1>1, <1>2, <1>3, <1>4 DEF Types
<1>6. OpenKnown /\ FilesRight /\ Made /\ Known /\ MetaFollows /\ PagesBelow
  BY <1>1, <1>3 DEF OpenKnown, FilesRight, Made, Known, MetaFollows, PagesBelow
<1>7. Empty /\ Startable
  BY <1>1 DEF Empty, Startable, StartsAgain
<1> QED BY <1>4, <1>5, <1>6, <1>7 DEF Inv

LEMMA StutterStep ==
    ASSUME Inv, UNCHANGED vars
    PROVE  Inv'
<1>1. UNCHANGED <<disk, db, ihs, fd, pageno, todo, server, ghost>>
  BY DEF vars
<1>2. Types'
  BY <1>1 DEF Inv, Types, CatalogTypeOK
<1>3. \A t : Refused(t)' <=> Refused(t)
  BY <1>1 DEF Refused
<1>4. OpenKnown' /\ FilesRight' /\ Made' /\ PagesBelow'
  BY <1>1, <1>3 DEF Inv, OpenKnown, FilesRight, Made, PagesBelow
<1>5. Empty' /\ Known' /\ MetaFollows' /\ Startable'
  BY <1>1 DEF Inv, Empty, Known, MetaFollows, Startable, StartsAgain
<1>6. Ordered(todo)' /\ Meant(todo, db)'
  BY <1>1 DEF Inv
<1> QED BY <1>2, <1>4, <1>5, <1>6 DEF Inv

\* Every step of a statement, of a stop or of a start keeps what the list of steps
\* says of files, handles and metadata.
THEOREM CatalogInvariant == Spec => []Inv
<1>1. Init => Inv
  BY InitInv
<1>2. Inv /\ [Next]_vars => Inv'
  <2> SUFFICES ASSUME Inv, [Next]_vars PROVE Inv'
    OBVIOUS
  <2>1. ASSUME run_mutli_query PROVE Inv'
    BY <2>1, CreateTableStep, DropTableStep, CreateIndexStep, DropIndexStep DEF run_mutli_query
  <2>2. ASSUME \E t \in Table : update_table_row_count(t) PROVE Inv'
    BY <2>2, RowCountStep
  <2>3. ASSUME CreateFile \/ Enter \/ CreateIndexFile \/ Fill PROVE Inv'
    BY <2>3, CreateFileStep, EnterStep, CreateIndexFileStep, FillStep
  <2>4. ASSUME CloseFile \/ DestroyFile \/ Erase \/ Forget PROVE Inv'
    BY <2>4, CloseFileStep, DestroyFileStep, EraseStep, ForgetStep
  <2>5. ASSUME Truncate \/ WriteMeta PROVE Inv'
    BY <2>5, TruncateStep, WriteMetaStep
  <2>6. ASSUME \E f \in ihs : Split(f) PROVE Inv'
    BY <2>6, SplitStep
  <2>7. ASSUME close_db \/ Kill PROVE Inv'
    BY <2>7, StopStep
  <2>8. ASSUME open_db PROVE Inv'
    BY <2>8, OpenStep
  <2>9. ASSUME UNCHANGED vars PROVE Inv'
    BY <2>9, StutterStep
  <2> QED BY <2>1, <2>2, <2>3, <2>4, <2>5, <2>6, <2>7, <2>8, <2>9 DEF Next
<1> QED BY <1>1, <1>2, PTL DEF Spec

\* Whatever statements there were, and wherever the server was killed: the open
\* files have different descriptors, and between two statements every table and
\* every index of the catalogue is open and has its handle, unless an index of the
\* table was refused.
THEOREM CatalogueIsUsable == Spec => []CatalogInv
<1>1. Inv => CatalogInv
  <2> SUFFICES ASSUME Inv PROVE CatalogInv
    OBVIOUS
  <2>1. CatalogTypeOK
    BY DEF Inv, Types
  <2>2. CatalogueUsable
    BY FreeFacts DEF CatalogueUsable, Free
  <2> QED BY <2>1, <2>2 DEF CatalogInv
<1> QED BY <1>1, CatalogInvariant, PTL

(***************************************************************************)
(* The files that a CREATE INDEX with too long columns has left.  CREATE   *)
(* INDEX refuses them, as the file is there, and DROP does not know them.  *)
(***************************************************************************)
StraysApart ==
    ghost.refused = {} =>
        /\ ghost.strays \subseteq disk.file
        /\ ghost.strays \cap FilesOf(db) = {}
        /\ ghost.strays \cap FilesOf(disk.meta) = {}

\* A step that leaves no file of this kind, and refuses no index.
LEMMA ApartStep ==
    ASSUME StraysApart, ghost'.strays = ghost.strays, ghost'.refused = ghost.refused,
           \A f \in ghost.strays :
               /\ f \in disk.file => f \in disk'.file
               /\ f \in FilesOf(db') => f \in FilesOf(db) \cup FilesOf(disk.meta)
               /\ f \in FilesOf(disk'.meta) => f \in FilesOf(db) \cup FilesOf(disk.meta)
    PROVE  StraysApart'
BY DEF StraysApart

\* What CREATE INDEX is about to make is not in the catalogue.
LEMMA NewFacts ==
    ASSUME Inv, At("create_index")
    PROVE  /\ File \in IndexNames /\ File[1] \in DOMAIN db /\ File[2] \notin Members(db[File[1]])
           /\ File \notin FilesOf(db) /\ (ghost.refused = {} => disk.meta = db)
<1>1. /\ server = "up" /\ todo \in Seq(Steps) /\ Ordered(todo) /\ todo # <<>> /\ Len(todo) \in Nat
      /\ Head(todo) = <<"create_index", File>> /\ Head(todo)[1] = "create_index"
      /\ File \in Names => File \in Pending(todo, "create_index")
  BY AtFacts
<1>2. Len(todo) = 4 /\ Change(todo) = <<"fill", Head(todo)[2]>>
  BY <1>1, HeadFacts
<1>3. Change(todo)[1] = "fill" /\ Change(todo)[2] = File /\ Len(todo) > 3 /\ Changing(todo, "fill")
  BY <1>1, <1>2 DEF Changing
<1>4. /\ File \in IndexNames /\ File[1] \in DOMAIN db
      /\ Pending(todo, "create_index") # {} <=> File[2] \notin Members(db[File[1]])
  BY <1>3 DEF Inv, Meant
<1>5. File \in Names /\ File \notin TableNames
  BY <1>4, NameFacts DEF Names
<1>6. File[2] \notin Members(db[File[1]])
  BY <1>1, <1>4, <1>5
<1>7. File \notin FilesOf(db)
  BY <1>5, <1>6 DEF FilesOf, IxFiles
<1> QED BY <1>3, <1>4, <1>6, <1>7, EarlyFacts

LEMMA StraysStep ==
    ASSUME Inv, StraysApart, [Next]_vars
    PROVE  StraysApart'
<1>0. IsDisk(disk) /\ IsCatalogue(db) /\ ghost \in Ghosts
  BY DEF Inv, Types
<1>1. ASSUME run_mutli_query \/ \E t \in Table : update_table_row_count(t) PROVE StraysApart'
  <2>1. UNCHANGED <<disk, db>> /\ ghost' = [ghost EXCEPT !.statements = @ + 1]
    BY <1>1 DEF run_mutli_query, create_table, drop_table, create_index, drop_index,
                update_table_row_count, Start
  <2>2. ghost'.strays = ghost.strays /\ ghost'.refused = ghost.refused
    BY <2>1, <1>0 DEF Ghosts
  <2> QED BY <2>1, <2>2, ApartStep
<1>2. ASSUME CreateFile PROVE StraysApart'
  <2>1. UNCHANGED <<db, ghost>> /\ (disk' = disk \/ disk' = [disk EXCEPT !.file = @ \cup {File}])
    BY <1>2 DEF CreateFile
  <2>2. disk.file \subseteq disk'.file /\ disk'.meta = disk.meta
    BY <2>1, <1>0 DEF IsDisk
  <2> QED BY <2>1, <2>2, ApartStep
<1>3. ASSUME Enter PROVE StraysApart'
  <2>1. At("enter") /\ UNCHANGED <<disk, ghost>> /\ db' = With(db, File[1], <<>>)
    BY <1>3 DEF Enter
  <2>2. "enter" \in Changes
    BY DEF Changes
  <2>3. Changing(todo, "enter") /\ Change(todo)[2] = File
    BY <2>1, <2>2, ChangeFacts
  <2>4. File \in TableNames /\ File[1] \notin DOMAIN db
    BY <2>3 DEF Inv, Meant
  <2>5. File[1] \in Table /\ File = Of(File[1]) /\ File \notin IndexNames
    BY <2>4, NameFacts
  <2>6. FilesOf(db') = FilesOf(db) \cup {File}
    BY <2>1, <2>4, <2>5, <1>0, EnterFiles
  <2>7. File \notin ghost.strays
    BY <2>5, <1>0 DEF Ghosts
  <2> QED BY <2>1, <2>6, <2>7, ApartStep
<1>4. ASSUME CreateIndexFile PROVE StraysApart'
  <2>1. At("create_index")
    BY <1>4 DEF CreateIndexFile
  <2>2. /\ File \in IndexNames /\ File[1] \in DOMAIN db /\ File[2] \notin Members(db[File[1]])
        /\ File \notin FilesOf(db) /\ (ghost.refused = {} => disk.meta = db)
    BY <2>1, NewFacts
  <2>3. CASE is_file(File) /\ Throw /\ UNCHANGED <<disk, db, ihs, fd, pageno, ghost>>
    BY <2>3, ApartStep
  <2>4. CASE ~is_file(File) /\ LeaveStray
    <3>1. /\ disk' = [disk EXCEPT !.file = @ \cup {File}, !.pages = With(@, File, {})]
          /\ ghost' = [ghost EXCEPT !.strays = @ \cup {File}] /\ db' = db
      BY <2>4 DEF LeaveStray
    <3>2. disk'.file = disk.file \cup {File} /\ disk'.meta = disk.meta
      BY <3>1, <1>0 DEF IsDisk
    <3>3. ghost'.strays = ghost.strays \cup {File} /\ ghost'.refused = ghost.refused
      BY <3>1, <1>0 DEF Ghosts
    <3> QED BY <3>1, <3>2, <3>3, <2>2 DEF StraysApart
  <2>5. CASE ~is_file(File) /\ \E n \in Unused(fd) : MakeIndex(n)
    <3>0. PICK n \in Unused(fd) : MakeIndex(n)
      BY <2>5
    <3>1. /\ disk' = [disk EXCEPT !.file = @ \cup {File},
                                  !.pages = With(@, File, 0..(InitialPages - 1))]
          /\ db' = [db EXCEPT ![File[1]] = Append(@, File[2])]
          /\ ghost' = [ghost EXCEPT !.reopened =
                          IF n = LowestFd(fd) THEN @ \ {File} ELSE @ \cup {File}]
      BY <3>0 DEF MakeIndex
    <3>2. disk'.file = disk.file \cup {File} /\ disk'.meta = disk.meta
      BY <3>1, <1>0 DEF IsDisk
    <3>3. ghost'.strays = ghost.strays /\ ghost'.refused = ghost.refused
      BY <3>1, <1>0 DEF Ghosts
    <3>4. FilesOf(db') = FilesOf(db) \cup {File}
      <4>1. File[2] \in Index /\ File = On(File[1], File[2])
        BY <2>2, NameFacts
      <4>2. PICK c, d, t, i : c = db /\ d = db' /\ t = File[1] /\ i = File[2]
        OBVIOUS
      <4>3. /\ IsCatalogue(c) /\ t \in DOMAIN c /\ i \in Index /\ i \notin Members(c[t])
            /\ d = [c EXCEPT ![t] = Append(@, i)]
        BY <4>1, <4>2, <3>1, <2>2, <1>0
      <4>4. FilesOf(d) = FilesOf(c) \cup {On(t, i)}
        BY <4>3, AppendFiles
      <4> QED BY <4>1, <4>2, <4>4
    <3>5. File \notin disk.file
      BY <2>5 DEF is_file
    <3> QED BY <3>2, <3>3, <3>4, <3>5 DEF StraysApart
  <2> QED BY <1>4, <2>3, <2>4, <2>5 DEF CreateIndexFile
<1>5. ASSUME Fill PROVE StraysApart'
  <2>1. CASE UNCHANGED ghost
    BY <1>5, <2>1, ApartStep DEF Fill
  <2>2. CASE ghost' = [ghost EXCEPT !.refused = @ \cup {File}]
    <3>1. ghost'.refused # {}
      BY <2>2, <1>0 DEF Ghosts
    <3> QED BY <3>1 DEF StraysApart
  <2> QED BY <1>5, <2>1, <2>2 DEF Fill
<1>6. ASSUME CloseFile PROVE StraysApart'
  BY <1>6, ApartStep DEF CloseFile
<1>7. ASSUME DestroyFile PROVE StraysApart'
  <2>1. At("destroy") /\ UNCHANGED <<db, ghost>> /\ (disk' = disk \/ disk' = [disk EXCEPT !.file = @ \ {File}])
    BY <1>7 DEF DestroyFile
  <2>2. "destroy" \in {"close", "destroy"}
    OBVIOUS
  <2>3. File \in FilesOf(db)
    BY <2>1, <2>2, DropFacts
  <2>4. disk.file \ {File} \subseteq disk'.file /\ disk'.meta = disk.meta
    BY <2>1, <1>0 DEF IsDisk
  <2> QED BY <2>1, <2>3, <2>4 DEF StraysApart
<1>8. ASSUME Erase PROVE StraysApart'
  <2>1. UNCHANGED <<disk, ghost>> /\ db' = [t \in DOMAIN db \ {File[1]} |-> db[t]]
    BY <1>8 DEF Erase
  <2>2. FilesOf(db') \subseteq FilesOf(db)
    <3>1. PICK c, d, t : c = db /\ d = db' /\ t = File[1]
      OBVIOUS
    <3>2. IsCatalogue(c) /\ d = [u \in DOMAIN c \ {t} |-> c[u]]
      BY <3>1, <2>1, <1>0
    <3>3. FilesOf(d) = {f \in FilesOf(c) : f[1] # t}
      BY <3>2, EraseFiles
    <3> QED BY <3>1, <3>3
  <2> QED BY <2>1, <2>2, ApartStep
<1>9. ASSUME Forget PROVE StraysApart'
  <2>1. At("forget") /\ UNCHANGED <<disk, ghost>>
    BY <1>9 DEF Forget
  <2>2. PICK k \in DOMAIN db[File[1]] : db' = [db EXCEPT ![File[1]] = Without(@, k)]
    BY <1>9 DEF Forget
  <2>3. "forget" \in Changes
    BY DEF Changes
  <2>4. Changing(todo, "forget") /\ Change(todo)[2] = File
    BY <2>1, <2>3, ChangeFacts
  <2>5. File[1] \in DOMAIN db
    BY <2>4 DEF Inv, Meant, IxFiles
  <2>6. FilesOf(db') \subseteq FilesOf(db)
    <3>1. PICK c, d, t : c = db /\ d = db' /\ t = File[1]
      OBVIOUS
    <3>2. Loses(c, t, k, d)
      BY <3>1, <2>2, <2>5, <1>0 DEF Loses
    <3>3. FilesOf(d) \subseteq FilesOf(c)
      BY <3>2, ForgetFiles
    <3> QED BY <3>1, <3>3
  <2> QED BY <2>1, <2>6, ApartStep
<1>10. ASSUME Truncate \/ WriteMeta PROVE StraysApart'
  <2>1. UNCHANGED <<db, ghost>>
    BY <1>10 DEF Truncate, WriteMeta
  <2>2. disk'.file = disk.file /\ (disk'.meta = disk.meta \/ disk'.meta = db)
    BY <1>10, <1>0 DEF Truncate, WriteMeta, IsDisk
  <2> QED BY <2>1, <2>2, ApartStep
<1>11. ASSUME NEW f \in ihs, Split(f) PROVE StraysApart'
  <2>1. /\ db' = db /\ disk' = [disk EXCEPT !.pages[f] = @ \cup {pageno[fd[f]]}]
        /\ ghost' = [ghost EXCEPT !.splits = @ + 1]
    BY <1>11 DEF Split
  <2>2. disk'.file = disk.file /\ disk'.meta = disk.meta
    BY <2>1, <1>0 DEF IsDisk
  <2>3. ghost'.strays = ghost.strays /\ ghost'.refused = ghost.refused
    BY <2>1, <1>0 DEF Ghosts
  <2> QED BY <2>1, <2>2, <2>3, ApartStep
<1>12. ASSUME NEW busy, Halt(busy) PROVE StraysApart'
  <2>1. db' = <<>> /\ disk' = disk /\ ghost' = [ghost EXCEPT !.stops = @ + 1, !.busy = @ \/ busy]
    BY <1>12 DEF Halt
  <2>2. ghost'.strays = ghost.strays /\ ghost'.refused = ghost.refused
    BY <2>1, <1>0 DEF Ghosts
  <2> QED BY <2>1, <2>2, NoTables, ApartStep
<1>13. ASSUME open_db PROVE StraysApart'
  <2>1. /\ disk' = disk /\ (db' = db \/ db' = disk.meta)
        /\ ghost' = ghost \/ ghost' = [ghost EXCEPT !.reopened = IxFiles(disk.meta)]
    BY <1>13 DEF open_db
  <2>2. ghost'.strays = ghost.strays /\ ghost'.refused = ghost.refused
    BY <2>1, <1>0 DEF Ghosts
  <2> QED BY <2>1, <2>2, ApartStep
<1>14. ASSUME UNCHANGED vars PROVE StraysApart'
  BY <1>14, ApartStep DEF vars
<1> QED BY <1>1, <1>2, <1>3, <1>4, <1>5, <1>6, <1>7, <1>8, <1>9, <1>10, <1>11, <1>12, <1>13, <1>14
        DEF Next, close_db, Kill

\* With no index refused, the metadata file is the catalogue between any two
\* statements; if no statement was killed either, the directory holds the files of
\* the catalogue and, apart from them, those that a CREATE INDEX with too long
\* columns has left, and the server starts on what a stop has left.
THEOREM DirectoryIsRight == Spec => []DirectoryInv
<1>1. Init => StraysApart
  BY DEF Init, StraysApart
<1>2. Inv /\ StraysApart /\ [Next]_vars => StraysApart'
  BY StraysStep
<1>3. Inv /\ StraysApart => DirectoryInv
  <2> SUFFICES ASSUME Inv, StraysApart PROVE DirectoryInv
    OBVIOUS
  <2>1. StartsAgain
    BY DEF Inv, Startable
  <2>2. MetaCurrent
    BY FreeFacts DEF MetaCurrent, Free
  <2>3. NoOrphans
    <3> SUFFICES ASSUME Free, ~ghost.busy, ghost.refused = {}
                 PROVE  /\ disk.file = FilesOf(db) \cup ghost.strays
                        /\ FilesOf(db) \cap ghost.strays = {}
      BY DEF NoOrphans
    <3>1. \A t : ~Refused(t)
      BY DEF Refused
    <3>2. /\ \A f \in FilesOf(db) : f \in disk.file
          /\ \A f \in disk.file : f \in FilesOf(db) \cup ghost.strays
      BY <3>1, FreeFacts DEF Free
    <3> QED BY <3>2 DEF StraysApart
  <2> QED BY <2>1, <2>2, <2>3 DEF DirectoryInv
<1> QED BY <1>1, <1>2, <1>3, CatalogInvariant, PTL DEF Spec

\* The next page of an index that was made since the server started, and that
\* open_index opened by the descriptor create_index had written it by, is not one of
\* the pages it has, whichever descriptors were used before.
THEOREM PagesAreNew == Spec => []PagesNew
<1>1. Inv => PagesNew
  <2> SUFFICES ASSUME Inv, NEW f \in ihs \ ghost.reopened, pageno[fd[f]] \in disk.pages[f] PROVE FALSE
    BY DEF PagesNew
  <2>1. pageno[fd[f]] < pageno[fd[f]]
    BY DEF Inv, PagesBelow
  <2>2. pageno[fd[f]] \in Nat
    BY DEF Inv, Types, CatalogTypeOK
  <2> QED BY <2>1, <2>2
<1> QED BY <1>1, CatalogInvariant, PTL
=============================================================================
