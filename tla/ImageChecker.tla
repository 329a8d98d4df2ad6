---------------------------- MODULE ImageChecker ----------------------------
(***************************************************************************)
(* lab3b.rb (project 3b) run on what lab3a printed.  A block or an inode   *)
(* has an entry in a table, which a line of the csv may change; what is    *)
(* wrong is put into the set err_list, printed at the end.                 *)
(***************************************************************************)
EXTENDS ImageReader, TLC

VARIABLES
    block_hash, inode_hash,  \* the tables, by block and by inode
    err_list,                \* the errors found
    section,                 \* the kind of lines being scanned
    line, num,               \* the line, and the pointer of an INODE line
    exit_b                   \* the exit status of lab3b

tables == <<block_hash, inode_hash>>
position == <<section, line, num>>
checkerVars == <<tables, err_list, position, exit_b>>
vars == <<readerVars, checkerVars>>

(* The entries of the tables.                                              *)
Nil == [is |-> "nil"]
Free == [is |-> "free"]
Unreferenced == [is |-> "unreferenced"]
Held(level, inode, offset) == [is |-> "array", level |-> level, inode |-> inode, offset |-> offset]
Counted(linkcount) == [is |-> "array", linkcount |-> linkcount, links |-> 0, parent |-> 0]

IsArray(entry) == entry.is = "array"
IsSymbol(entry) == entry.is \in {"free", "unreferenced"}

(* Arrays of Ruby: a negative index counts from the end, a read outside is *)
(* nil, a write behind the end lets the array grow (the entries between    *)
(* are nil and not in the domain here), one before its start raises.       *)
Size(hash) == Max(DOMAIN hash) + 1
Index(hash, i) == IF i < 0 THEN i + Size(hash) ELSE i
At(hash, i) == LET j == Index(hash, i) IN IF j \in DOMAIN hash THEN hash[j] ELSE Nil
(* Mutant: an array does not grow.                                         *)
BugRaises(hash, i) == Index(hash, i) < 0 \/ Index(hash, i) >= Size(hash)

Raises(hash, i) == Index(hash, i) < 0
PutAll(hash, is, entry) ==
    [i \in is \cup DOMAIN hash |-> IF i \in is THEN entry ELSE hash[i]]
Put(hash, i, entry) == PutAll(hash, {Index(hash, i)}, entry)

(* The messages of module Err.                                             *)
ErrBlock(flag, level, block, inode, offset) ==
    [type |-> "block", flag |-> flag, level |-> level,
     block |-> block, inode |-> inode, offset |-> offset]
ErrUnref(block) == [type |-> "unref", block |-> block]
ErrFree(flag, element) == [type |-> "free", flag |-> flag, element |-> element]
ErrLink(inode, links, linkcount) ==
    [type |-> "link", inode |-> inode, links |-> links, linkcount |-> linkcount]
ErrDir(flag, dir, inode, name) ==
    [type |-> "dir", flag |-> flag, dir |-> dir, inode |-> inode, name |-> name]
ErrParent(flag, dir, inode, correct) ==
    [type |-> "parent", flag |-> flag, dir |-> dir, inode |-> inode, correct |-> correct]

CheckerInit ==
    /\ block_hash = <<>> /\ inode_hash = <<>>
    /\ err_list = {}
    /\ section = "header" /\ line = 1 /\ num = 0
    /\ exit_b = Running

Init == ReaderInit /\ CheckerInit

(* scan_header: the blocks up to the end of the inode table of the first   *)
(* group are reserved, and the inodes before the first that is not.        *)
InodeTableSize == (csv.inodes * 128 + 1023) \div 1024
ReservedBlocks == csv.group[1].inode_table + InodeTableSize - 1
ReservedInodes == csv.first_ino - 1

At1(next) == section' = next /\ line' = 1 /\ num' = 0
Raise == exit_b' = 1 /\ section' = "done" /\ UNCHANGED <<tables, err_list, line, num>>

ScanHeader ==
    /\ step = "done" /\ section = "header"
    /\ IF ~csv.printed THEN Raise
       ELSE /\ block_hash' = [b \in 0 .. csv.blocks - 1 |-> Unreferenced]
            /\ inode_hash' = [i \in 0 .. csv.inodes |-> Unreferenced]
            /\ At1("bfree")
            /\ UNCHANGED <<err_list, exit_b>>

ScanBfree ==
    /\ section = "bfree" /\ At1("ifree")
    /\ block_hash' = PutAll(block_hash, ToSet(csv.bfree), Free)
    /\ UNCHANGED <<inode_hash, err_list, exit_b>>

ScanIfree ==
    /\ section = "ifree" /\ At1("inode")
    /\ inode_hash' = PutAll(inode_hash, ToSet(csv.ifree), Free)
    /\ UNCHANGED <<block_hash, err_list, exit_b>>

(* The beginning of an INODE line.  The pointers of a symbolic link are    *)
(* not looked at.                                                          *)
InodeLineStart ==
    /\ section = "inode" /\ line <= Len(csv.inode) /\ num = 0
    /\ LET e == csv.inode[line]
       IN  /\ err_list' = err_list \cup
                  IF At(inode_hash, e.of) = Free THEN {ErrFree("all_ino", e.of)} ELSE {}
           /\ inode_hash' = Put(inode_hash, e.of, Counted(e.links))
           /\ IF e.type = "s" THEN line' = line + 1 /\ UNCHANGED num
                              ELSE num' = 1 /\ UNCHANGED line
    /\ UNCHANGED <<block_hash, section, exit_b>>

FirstOffset(level) == IF level = 0 THEN 0 ELSE FirstLogical(level)

(* What is reported of the pointer to a block, at a level of an inode.     *)
OutOfRange(block, level, inode) ==
    IF ReservedBlocks < block /\ block < csv.blocks THEN {}
    ELSE {ErrBlock(IF block <= ReservedBlocks THEN "res" ELSE "inv",
                   level, block, inode, FirstOffset(level))}

(* Mutant: only the pointer that comes second is reported.                 *)
BugAlreadyUsed(block, level, inode) ==
    LET was == At(block_hash, block)
    IN  CASE was = Free -> {ErrFree("all_blk", block)}
          [] IsArray(was) -> {ErrBlock("dup", level, block, inode, FirstOffset(level))}
          [] OTHER -> {}

AlreadyUsed(block, level, inode) ==
    LET was == At(block_hash, block)
    IN  CASE was = Free -> {ErrFree("all_blk", block)}
          [] IsArray(was) -> {ErrBlock("dup", level, block, inode, FirstOffset(level)),
                              ErrBlock("dup", was.level, block, was.inode, was.offset)}
          [] OTHER -> {}

(* One of the pointers of an INODE line.                                   *)
CheckPointer ==
    /\ section = "inode" /\ num > 0
    /\ LET e == csv.inode[line]
           block == e.ptr[num - 1]
           level == Level(num - 1)
       IN  IF block = 0 THEN UNCHANGED <<block_hash, err_list, exit_b, section>>
           ELSE /\ err_list' = err_list \cup OutOfRange(block, level, e.of)
                                        \cup AlreadyUsed(block, level, e.of)
                /\ IF Raises(block_hash, block)
                   THEN exit_b' = 1 /\ section' = "done" /\ UNCHANGED block_hash
                   ELSE /\ block_hash' = Put(block_hash, block, Held(level, e.of, FirstOffset(level)))
                        /\ UNCHANGED <<exit_b, section>>
    /\ IF num = NumDirect + 3 THEN num' = 0 /\ line' = line + 1
                              ELSE num' = num + 1 /\ UNCHANGED line
    /\ UNCHANGED inode_hash

(* The root directory is its own parent.                                   *)
SetRoot ==
    /\ section = "inode" /\ line > Len(csv.inode)
    /\ IF IsArray(At(inode_hash, 2))
       THEN /\ inode_hash' = [inode_hash EXCEPT ![2].parent = 2]
            /\ At1("dirent")
            /\ UNCHANGED <<block_hash, err_list, exit_b>>
       ELSE Raise

(* The DIRENT lines are sorted as text: by the digits of the directory,    *)
(* then by those of the offset.  A comma is before every digit.  Of two    *)
(* numbers as many digits are compared as the shorter one has.             *)
Width(n) == CHOOSE w \in 1 .. 10 : (w = 1 \/ 10 ^ (w - 1) <= n) /\ (w = 10 \/ n < 10 ^ w)
TextBefore(m, n) ==
    LET top(x) == x \div 10 ^ (Width(x) - Min({Width(m), Width(n)}))
    IN  top(m) < top(n) \/ (top(m) = top(n) /\ m < n)

Sorted(lines) ==
    LET keys == {<<lines[n].of, lines[n].offset, n>> : n \in DOMAIN lines}
        upto(x) == {y \in keys : \/ TextBefore(y[1], x[1])
                                 \/ y[1] = x[1] /\ TextBefore(y[2], x[2])
                                 \/ y[1] = x[1] /\ y[2] = x[2] /\ y[3] <= x[3]}
    IN  [k \in DOMAIN lines |-> lines[(CHOOSE x \in keys : Cardinality(upto(x)) = k)[3]]]

(* Mutant: an inode is linked or not.                                      *)
BugCountLink(inode) == [inode_hash EXCEPT ![Index(inode_hash, inode)].links = 1]

(* An entry whose inode is in use counts a link.                           *)
CountLink(inode) == [inode_hash EXCEPT ![Index(inode_hash, inode)].links = @ + 1]

(* "." names the directory itself.                                         *)
SelfEntry(dir, inode) ==
    /\ err_list' = err_list \cup IF inode = dir THEN {} ELSE {ErrParent("self", dir, inode, dir)}
    /\ inode_hash' = CountLink(inode)

(* Mutant: the parent is not remembered.                                   *)
BugParentEntry(dir, inode) ==
    LET known == inode_hash[dir].parent
    IN  /\ err_list' = err_list \cup
               IF known = 0 THEN {}
               ELSE {ErrParent("parent", dir, inode, At(inode_hash, inode).parent)}
        /\ inode_hash' = CountLink(inode)

(* ".." against the parent known so far, which it replaces.                *)
ParentEntry(dir, inode) ==
    LET known == inode_hash[dir].parent
    IN  /\ err_list' = err_list \cup
               IF known = 0 THEN {}
               ELSE {ErrParent("parent", dir, inode, At(inode_hash, inode).parent)}
        /\ inode_hash' = [CountLink(inode) EXCEPT ![dir].parent = inode]

(* Any other name, and ".." if it agrees: the directory is taken for the   *)
(* parent of the inode that the entry names.                               *)
OtherEntry(dir, inode) ==
    LET known == At(inode_hash, inode).parent
    IN  /\ err_list' = err_list \cup
               IF known \in {0, dir} THEN {} ELSE {ErrParent("parent", inode, known, dir)}
        /\ inode_hash' = [CountLink(inode) EXCEPT ![Index(inode_hash, inode)].parent = dir]

ScanDirent ==
    /\ section = "dirent" /\ line <= Len(csv.dirent)
    /\ \E e \in {Sorted(csv.dirent)[line]} :
       LET name == Last(e.name)
           entry == At(inode_hash, e.inode)
       IN  \/ /\ IsSymbol(entry) \/ (entry = Nil /\ e.inode > csv.inodes)
              /\ err_list' = err_list \cup
                     {ErrDir(IF IsSymbol(entry) THEN "unall" ELSE "inv", e.of, e.inode, name)}
              /\ line' = line + 1
              /\ UNCHANGED <<tables, section, num, exit_b>>
           \/ entry = Nil /\ e.inode <= csv.inodes /\ Raise
           \/ /\ IsArray(entry)
              /\ CASE name = "." -> SelfEntry(e.of, e.inode)
                   [] name = ".." /\ e.inode # inode_hash[e.of].parent -> ParentEntry(e.of, e.inode)
                   [] OTHER -> OtherEntry(e.of, e.inode)
              /\ line' = line + 1
              /\ UNCHANGED <<block_hash, section, num, exit_b>>

DirentsDone == section = "dirent" /\ line > Len(csv.dirent) /\ At1("indirect")
               /\ UNCHANGED <<tables, err_list, exit_b>>

(* A pointer in an indirect block.  The last flag that applies is reported. *)
ScanIndirect ==
    /\ section = "indirect" /\ line <= Len(csv.indirect)
    /\ LET e == csv.indirect[line]
           flags == IF e.ref >= csv.blocks THEN {"inv"}
                    ELSE IF e.ref <= ReservedBlocks THEN {"res"}
                    ELSE IF IsArray(At(block_hash, e.ref)) THEN {"dup"} ELSE {}
       IN  /\ err_list' = err_list \cup {ErrBlock(f, e.level, e.ref, e.of, e.offset) : f \in flags}
           /\ block_hash' = Put(block_hash, e.ref, Held(e.level, e.of, e.offset))
    /\ line' = line + 1
    /\ UNCHANGED <<inode_hash, section, num, exit_b>>

UnreferencedBlocks ==
    {ErrUnref(b) : b \in {b \in DOMAIN block_hash :
                             b > ReservedBlocks /\ block_hash[b] = Unreferenced}}

InodeErrors ==
    {ErrFree("unall_ino", i) : i \in {i \in DOMAIN inode_hash :
                                         i > ReservedInodes /\ inode_hash[i] = Unreferenced}}
    \cup {ErrLink(i, inode_hash[i].links, inode_hash[i].linkcount) :
             i \in {i \in DOMAIN inode_hash : /\ IsArray(inode_hash[i])
                                              /\ inode_hash[i].links # inode_hash[i].linkcount}}

(* The tables are gone through and the errors printed.                     *)
Conclude ==
    /\ section = "indirect" /\ line > Len(csv.indirect)
    /\ err_list' = err_list \cup UnreferencedBlocks \cup InodeErrors
    /\ exit_b' = IF err_list' = {} THEN 0 ELSE 2
    /\ section' = "done"
    /\ UNCHANGED <<tables, line, num>>

CheckerNext ==
    \/ ScanHeader \/ ScanBfree \/ ScanIfree \/ InodeLineStart \/ CheckPointer
    \/ SetRoot \/ ScanDirent \/ DirentsDone \/ ScanIndirect \/ Conclude

Next ==
    \/ ReaderNext /\ UNCHANGED checkerVars
    \/ CheckerNext /\ UNCHANGED readerVars
    \/ section = "done" /\ UNCHANGED vars

Spec == Init /\ [][Next]_vars

(* One sequential program after the other.                                 *)
FairSpec == Spec /\ WF_vars(Next)
-----------------------------------------------------------------------------
(* The summary of an image within reach is exact, and that of any other    *)
(* has at least groups of the right sizes: when it has been printed, and   *)
(* when it has been analysed.  scan_image, print_csv.                      *)
SummaryExact ==
    csv.printed /\ section \in {"header", "done"} =>
        /\ GroupsOK
        /\ WithinReach => SummaryOK

(* The analysis has come to its end, on a summary that is complete.        *)
Analysed == exit_b \in {0, 2} /\ WithinReach

Reported(type, flags) == {e \in err_list : e.type = type /\ e.flag \in flags}

(* Every wrong block is reported and no other: none hides another, in      *)
(* whatever order the lines come.  A block is UNREFERENCED if it is        *)
(* neither used nor free, a DUPLICATE if it has several references (and    *)
(* then all those in inodes are named, if there are two of them), on the   *)
(* FREELIST if it is free and an inode refers to it (a free block in an    *)
(* indirect block is never reported).  INODE and INDIRECT lines.           *)
BlocksReported ==
    Analysed =>
        LET valid == ReservedBlocks + 1 .. disk.blocks - 1
            target == [r \in Refs |-> BlockAt(r[1], r[2])]
            to(b) == {r \in DOMAIN target : target[r] = b}
            dups == {e \in Reported("block", {"dup"}) : e.block \in valid}
        IN  /\ {e.block : e \in {e \in err_list : e.type = "unref"}}
                   = {b \in valid : to(b) = {} /\ b \notin FreeBlocks}
            /\ {e.block : e \in dups} = {b \in valid : \E r, q \in to(b) : r # q}
            /\ \A e \in dups : \E r \in to(e.block) : r[1] = e.inode
            /\ \A r, q \in {r \in DOMAIN target : Direct(r)} :
                   r # q /\ target[r] = target[q] =>
                       \E e \in Reported("block", {"dup"}) :
                           e.block = target[r] /\ e.inode = r[1] /\ e.level = Level(r[2][1])
            /\ {e.element : e \in Reported("free", {"all_blk"})} \cap valid
                   = {b \in valid \cap FreeBlocks : \E r \in to(b) : Direct(r)}
            /\ {<<e.inode, e.block>> : e \in Reported("block", {"res", "inv"})}
                   = {<<r[1], target[r]>> : r \in {r \in DOMAIN target : target[r] \notin valid}}

(* The same of inodes: whether the free list agrees with the table, the    *)
(* counts of links with the entries, and the entries with the table.       *)
InodesReported ==
    Analysed =>
        LET links(i) == Cardinality({p \in Entries : Entry(p).inode = i})
        IN  /\ {e.element : e \in Reported("free", {"all_ino"})} = InUse \cap FreeInodes
            /\ {e.element : e \in Reported("free", {"unall_ino"})}
                   = disk.first_ino .. disk.inodes \ (InUse \cup FreeInodes)
            /\ {<<e.inode, e.links>> : e \in {e \in err_list : e.type = "link"}}
                   = {<<i, links(i)>> : i \in {i \in InUse : links(i) # Inode(i).links}}
            /\ {<<e.dir, e.inode>> : e \in Reported("dir", {"unall", "inv"})}
                   = {<<p[1], Entry(p).inode>> : p \in {p \in Entries : Entry(p).inode \notin InUse}}

(* What the entries say about the directory that an inode is in: a name    *)
(* says where it is, ".." what its directory is in, and the root is in     *)
(* itself.  lab3b takes a ".." for one more name, of the directory above   *)
(* in the one below, if a name has told it before that this is the         *)
(* directory above: if the directory above has as text the smaller number. *)
Name(p) == Entry(p).name[1]
Names == {p \in Entries : Name(p) \notin {".", ".."}}
Ups == {p \in Entries : Name(p) = ".."}
Known(p) == \E q \in Names : /\ q[1] = Entry(p).inode /\ Entry(q).inode = p[1]
                             /\ TextBefore(q[1], p[1])
ParentsOf(i) ==
    {p[1] : p \in {p \in Names : Entry(p).inode = i}}
    \cup {Entry(p).inode : p \in {p \in Ups : p[1] = i}}
    \cup {p[1] : p \in {p \in Ups : Entry(p).inode = i /\ Known(p)}}
    \cup IF i = 2 THEN {2} ELSE {}

OneParent ==
    /\ \A p \in Entries : Name(p) = "." => Entry(p).inode = p[1]
    /\ \A i \in InUse : LET parents == ParentsOf(i) IN \A c, d \in parents : c = d

(* If all entries name inodes in use, and no directory has two "..", then  *)
(* an error is reported exactly if a "." is wrong or an inode is said to   *)
(* be in two directories: no claim is forgotten for another.  The DIRENT   *)
(* lines.                                                                  *)
ParentsReported ==
    /\ Analysed
    /\ \A p \in Entries : Entry(p).inode \in InUse
    /\ \A p, q \in Ups : p[1] = q[1] => p = q
    => (Reported("parent", {"self", "parent"}) = {} <=> OneParent)

(* However wrong the image is, its summary is analysed to the end and the  *)
(* errors are printed, unless the root is not in use or a number came out  *)
(* as negative, which can raise an exception and lose all that was found.  *)
(* Lines 103 to 211 of lab3b.rb.                                           *)
NegativeNumber ==
    \/ \E n \in DOMAIN csv.inode : \E s \in DOMAIN csv.inode[n].ptr : csv.inode[n].ptr[s] < 0
    \/ \E n \in DOMAIN csv.dirent : csv.dirent[n].inode < 0
Analysable ==
    csv.printed /\ (\E n \in DOMAIN csv.inode : csv.inode[n].of = 2) /\ ~NegativeNumber
AnalysisEnds == Analysable ~> exit_b \in {0, 2}

=============================================================================
