---------------------------- MODULE ImageReader -----------------------------
(***************************************************************************)
(* lab3a (project 3a): ImgReader.c reads the structures of an ext2 image   *)
(* into a struct image, CsvWriter.c prints them.  One action is one of the *)
(* functions that scan_image calls in turn.                                *)
(*                                                                         *)
(* An image is a record of what can be read from the file:                 *)
(*   magic                whether s_magic is that of ext2                  *)
(*   blocks, inodes, per_group, inodes_per_group, first_ino                *)
(*                        of the superblock                                *)
(*   group[i]             the descriptor of group i - 1                    *)
(*   clear[b]             positions of the 0 bits from the start of block  *)
(*                        b on, in this block and in those behind it       *)
(*   table[b][j]          inode j of the table at block b                  *)
(*   entries[b]           block b read as a directory                      *)
(*   pointers[b]          block b read as an indirect block                *)
(* A block that is not in the domain of one of the last two reads as 0s.   *)
(* Numbers are ints: one from 2^31 on reads as negative.                   *)
(***************************************************************************)
EXTENDS Integers, FiniteSets, SequencesExt

CONSTANTS
    Disks,       \* the images
    NumDirect,   \* direct pointers of an inode (12)
    PerBlock     \* pointers in an indirect block (256)

ASSUME ImageAssumption == NumDirect \in Nat \ {0} /\ PerBlock \in Nat \ {0}

Slot == 0 .. NumDirect + 2   \* the indices of i_block

Groups(d) == 1 + (d.blocks - 1) \div d.per_group

(* Every image can be read as an ext2 image, with fewer than 2^31 blocks   *)
(* and inodes.  Not modelled are groups of size 0, by which lab3a divides, *)
(* and entries of length 0.                                                *)
ASSUME DiskAssumption ==
    \A d \in Disks :
        /\ d.magic \in BOOLEAN
        /\ {d.blocks, d.inodes, d.per_group, d.inodes_per_group} \subseteq Nat \ {0}
        /\ d.first_ino \in Nat
        /\ Groups(d) <= Len(d.group)
        /\ d.group \in Seq([free_blocks : Nat, free_inodes : Nat, block_bitmap : DOMAIN d.clear,
                           inode_bitmap : DOMAIN d.clear, inode_table : DOMAIN d.table])
        /\ \A b \in DOMAIN d.clear : d.clear[b] \subseteq Nat
        /\ \A b \in DOMAIN d.table :
               d.table[b] \in [0 .. d.inodes_per_group - 1 ->
                                  [type : STRING, links : Nat, ptr : [Slot -> Int]]]
        /\ \A b \in DOMAIN d.entries :
               d.entries[b] \in Seq([inode : Int, rec_len : Nat \ {0}, name : Seq(STRING)])
        /\ \A b \in DOMAIN d.pointers : d.pointers[b] \in [0 .. PerBlock - 1 -> Int]

VARIABLES
    disk,      \* the file behind fd
    img,       \* struct image, as far as it is filled
    step,      \* the next function of main and scan_image
    csv,       \* what print_csv has printed, by kind of line
    exit_a     \* the exit status of lab3a

readerVars == <<disk, img, step, csv, exit_a>>

Running == -1
Nothing == [printed |-> FALSE]

Level(slot) == IF slot < NumDirect THEN 0 ELSE slot - NumDirect + 1

(* img_read: an offset is an int, BLOCK_SIZE * block modulo 2^32, and pread *)
(* refuses a negative one.  2^32 is BLOCK_SIZE * WRAP.                     *)
WRAP == 2 ^ 22
Unreadable(block) == block % WRAP >= WRAP \div 2

EntriesAt(block) ==
    LET b == block % WRAP IN IF b \in DOMAIN disk.entries THEN disk.entries[b] ELSE <<>>

Zeros == [k \in 0 .. PerBlock - 1 |-> 0]
PointersAt(block) ==
    LET b == block % WRAP IN IF b \in DOMAIN disk.pointers THEN disk.pointers[b] ELSE Zeros

NoImage == [group |-> <<>>, bfree |-> <<>>, ifree |-> <<>>,
            inode |-> <<>>, dirent |-> <<>>, indirect |-> <<>>]

ReaderInit ==
    /\ disk \in Disks
    /\ img = NoImage
    /\ step = "verify"
    /\ csv = Nothing
    /\ exit_a = Running

(* verify_valid_image.                                                     *)
Verify ==
    /\ step = "verify"
    /\ IF disk.magic THEN step' = "group" /\ UNCHANGED exit_a
                     ELSE step' = "done" /\ exit_a' = 2
    /\ UNCHANGED <<disk, img, csv>>

Reading == {"group", "bfree", "ifree", "inode", "dirent", "indirect"}

(* Any read may fail: img_read exits with 2, before anything is printed.   *)
ReadFails ==
    /\ step \in Reading
    /\ step' = "done" /\ exit_a' = 2
    /\ UNCHANGED <<disk, img, csv>>

(* A set of natural numbers as an ascending sequence, and the lines with   *)
(* these numbers.                                                          *)
Ascending(S) == [k \in 1 .. Cardinality(S) |-> CHOOSE n \in S : Cardinality(S \cap 0 .. n) = k]
Picked(lines, S) == LET at == Ascending(S) IN [k \in DOMAIN at |-> lines[at[k]]]

(* A function of scan_image fills a field of img.                          *)
Fill(now, next, field, value) ==
    /\ step = now
    /\ step' = next
    /\ img' = [img EXCEPT ![field] = value]
    /\ UNCHANGED <<disk, csv, exit_a>>

NumGroups == Groups(disk)

ReadGroup == Fill("group", "bfree", "group", SubSeq(disk.group, 1, NumGroups))

(* Mutants: positions are not counted from 1; all bits are read.           *)
BugScanBitmap(found, clear, first, per_group, frees) ==
    found \o Ascending({first + p : p \in clear \cap 0 .. 8 * per_group - 1})

(* The bits of one group's bitmap: reading goes on for per_group BYTES,    *)
(* and ends with the first bit after which frees numbers have been found   *)
(* in this group and the ones before.                                      *)
ScanBitmap(found, clear, first, per_group, frees) ==
    LET upto(p) == Len(found) + Cardinality({q \in clear : q <= p})
        read == {p \in clear : p < 8 * per_group /\ (p = 0 \/ upto(p - 1) < frees)}
    IN  found \o Ascending({first + 1 + p : p \in read})

(* read_free_list: it returns as soon as a group has been read in which    *)
(* enough numbers were found.                                              *)
FreeList(per_group, bitmap, count) ==
    LET scan[i \in 0 .. Len(img.group)] ==
            IF i = 0 THEN <<>>
            ELSE IF \E m \in 1 .. i - 1 : Len(scan[m]) >= img.group[m][count]
            THEN scan[i - 1]
            ELSE ScanBitmap(scan[i - 1], disk.clear[img.group[i][bitmap]],
                            (i - 1) * per_group, per_group, img.group[i][count])
    IN  scan[Len(img.group)]

ReadBfree == Fill("bfree", "ifree", "bfree",
                  FreeList(disk.per_group, "block_bitmap", "free_blocks"))

ReadIfree == Fill("ifree", "inode", "ifree",
                  FreeList(disk.inodes_per_group, "inode_bitmap", "free_inodes"))

(* read_inode: the inodes in use, which are numbered within their group.   *)
InodesOfGroup(i) ==
    LET table == disk.table[img.group[i].inode_table]
        inUse == {j \in 1 .. disk.inodes_per_group :
                      /\ (i - 1) * disk.inodes_per_group + j <= disk.inodes
                      /\ table[j - 1].type # "none"
                      /\ table[j - 1].links > 0}
        inode(j) == [of |-> j, type |-> table[j - 1].type,
                     links |-> table[j - 1].links, ptr |-> table[j - 1].ptr]
    IN  Picked([j \in inUse |-> inode(j)], inUse)

ReadInode == Fill("inode", "dirent", "inode",
                  FlattenSeq([i \in DOMAIN img.group |-> InodesOfGroup(i)]))

(* read_dirent: an entry with inode 0 ends its block.                      *)
Visible(es) ==
    LET ends == {n \in DOMAIN es : es[n].inode = 0}
    IN  IF ends = {} THEN es ELSE SubSeq(es, 1, Min(ends) - 1)

Directories == Picked(img.inode, {n \in DOMAIN img.inode : img.inode[n].type = "d"})

DirentsOf(dir) ==
    LET inBlock(block) ==
            IF block <= 0 THEN <<>>
            ELSE LET es == Visible(EntriesAt(block))
                 IN  [n \in DOMAIN es |-> [of |-> dir.of, inode |-> es[n].inode,
                                           rec_len |-> es[n].rec_len, name |-> es[n].name]]
    IN  FlattenSeq([j \in 1 .. NumDirect |-> inBlock(dir.ptr[j - 1])])

ReadDirent ==
    /\ step = "dirent"
    /\ \A n \in DOMAIN Directories : \A j \in 0 .. NumDirect - 1 :
           LET block == Directories[n].ptr[j] IN block > 0 => ~Unreadable(block)
    /\ Fill("dirent", "indirect", "dirent",
            FlattenSeq([n \in DOMAIN Directories |-> DirentsOf(Directories[n])]))

(* The first logical block behind an indirect block of an inode.           *)
FirstLogical(level) ==
    NumDirect + CASE level = 1 -> 0
                  [] level = 2 -> PerBlock
                  [] level = 3 -> PerBlock * PerBlock + PerBlock

(* indirect_recursive: a block of pointers, and the blocks below it.  A    *)
(* root that cannot be read stands for itself with reference 0.            *)
Calls == [level : 1 .. 3, root : Int, inode : Nat, logical : Nat]

IndirectRecursive[c \in Calls] ==
    IF Unreadable(c.root)
    THEN <<[of |-> c.inode, level |-> c.level, offset |-> c.logical,
            block |-> c.root, ref |-> 0]>>
    ELSE LET from == IF c.logical = 0 THEN FirstLogical(c.level) ELSE c.logical
             at(k) ==
                LET ref == PointersAt(c.root)[k - 1]
                IN  IF ref <= 0 THEN <<>>
                    ELSE <<[of |-> c.inode, level |-> c.level, offset |-> from + k - 1,
                            block |-> c.root, ref |-> ref]>>
                         \o IF c.level = 1 THEN <<>>
                            ELSE IndirectRecursive[[level |-> c.level - 1, root |-> ref,
                                                    inode |-> c.inode, logical |-> from + k - 1]]
         IN  FlattenSeq([k \in 1 .. PerBlock |-> at(k)])

(* read_indirect: for every inode in use, whatever its type, and also for  *)
(* pointers that are 0.                                                    *)
IndirectsOf(i) ==
    FlattenSeq([level \in 1 .. 3 |->
        IndirectRecursive[[level |-> level, root |-> i.ptr[NumDirect + level - 1],
                           inode |-> i.of, logical |-> 0]]])

ReadIndirect ==
    /\ step = "indirect"
    /\ LET found == FlattenSeq([n \in DOMAIN img.inode |-> IndirectsOf(img.inode[n])])
       IN  /\ \A n \in DOMAIN found : found[n].ref # 0
           /\ Fill("indirect", "print", "indirect", found)

(* print_csv prints the inodes, entries and pointers by inode number.      *)
ByNumber(lines) ==
    FlattenSeq([i \in 1 .. disk.inodes |-> Picked(lines, {n \in DOMAIN lines : lines[n].of = i})])

(* print_group: what is left of the blocks and inodes, at most a full group.*)
GroupShare(total, per_group, i) ==
    LET left == total - (i - 1) * per_group
    IN  IF left >= per_group THEN per_group ELSE left

GroupLine(i) ==
    [blocks |-> GroupShare(disk.blocks, disk.per_group, i),
     inodes |-> GroupShare(disk.inodes, disk.inodes_per_group, i),
     inode_table |-> img.group[i].inode_table]

(* print_inode: the target of a symbolic link is one field.                *)
InodeLine(i) == IF i.type = "s" THEN [i EXCEPT !.ptr = [j \in {0} |-> i.ptr[0]]] ELSE i

(* print_dirent: the offset is the length of the entries printed so far.   *)
DirentLines(i) ==
    LET es == Picked(img.dirent, {n \in DOMAIN img.dirent : img.dirent[n].of = i})
        offset[n \in 1 .. Len(es)] ==
            IF n = 1 THEN 0 ELSE offset[n - 1] + es[n - 1].rec_len
    IN  [n \in DOMAIN es |-> [of |-> i, offset |-> offset[n],
                              inode |-> es[n].inode, name |-> es[n].name]]

PrintCsv ==
    /\ step = "print"
    /\ csv' = [printed |-> TRUE,
               blocks |-> disk.blocks, inodes |-> disk.inodes, first_ino |-> disk.first_ino,
               group |-> [i \in DOMAIN img.group |-> GroupLine(i)],
               bfree |-> img.bfree,
               ifree |-> img.ifree,
               inode |-> LET ls == ByNumber(img.inode) IN [n \in DOMAIN ls |-> InodeLine(ls[n])],
               dirent |-> FlattenSeq([i \in 1 .. disk.inodes |-> DirentLines(i)]),
               indirect |-> ByNumber(img.indirect)]
    /\ step' = "done" /\ exit_a' = 0
    /\ UNCHANGED <<disk, img>>

ReaderNext ==
    \/ Verify \/ ReadGroup \/ ReadBfree \/ ReadIfree \/ ReadInode \/ ReadDirent
    \/ ReadIndirect \/ PrintCsv \/ ReadFails

ReaderSpec == ReaderInit /\ [][ReaderNext]_readerVars
-----------------------------------------------------------------------------
(* What is on the disk, read by the rules of ext2, for an image of one     *)
(* group, and what the summary should say of it.                           *)
Inode(i) == disk.table[disk.group[1].inode_table][i - 1]
InUse == {i \in 1 .. disk.inodes : Inode(i).type # "none" /\ Inode(i).links > 0}

ClearBits(bitmap, per_group) == {p \in disk.clear[disk.group[1][bitmap]] : p < per_group}
FreeBlocks == {p + 1 : p \in ClearBits("block_bitmap", disk.per_group)}
FreeInodes == {p + 1 : p \in ClearBits("inode_bitmap", disk.inodes_per_group)}

(* The references of an inode to blocks: a slot of i_block, and the        *)
(* indices in the indirect blocks below it.                                *)
Paths == UNION {{<<s>> \o p : p \in UNION {[1 .. m -> 0 .. PerBlock - 1] : m \in 0 .. Level(s)}}
                : s \in Slot}
BlockAt(i, path) ==
    LET top == Inode(i).ptr[path[1]]
        below[m \in 2 .. Len(path)] ==
            LET b == IF m = 2 THEN top ELSE below[m - 1]
            IN  IF b = 0 THEN 0 ELSE PointersAt(b)[path[m]]
    IN  IF Len(path) = 1 THEN top ELSE below[Len(path)]
Refs == {r \in InUse \X Paths : Inode(r[1]).type # "s" /\ BlockAt(r[1], r[2]) # 0}
Direct(r) == Len(r[2]) = 1

(* The entries of the directories: directory, slot and position.           *)
Dirs == {i \in InUse : Inode(i).type = "d"}
DirBlocks == {b \in Dirs \X (0 .. NumDirect - 1) : Inode(b[1]).ptr[b[2]] # 0}
Places == UNION {{<<b[1], b[2], n>> : n \in DOMAIN EntriesAt(Inode(b[1]).ptr[b[2]])}
                 : b \in DirBlocks}
Entry(p) == EntriesAt(Inode(p[1]).ptr[p[2]])[p[3]]
Entries == {p \in Places : Entry(p).inode # 0}

(* There are as many groups of inodes as of blocks.                        *)
SameGroups == 1 + (disk.inodes - 1) \div disk.inodes_per_group = NumGroups

(* The images on which lab3a sees all of that.  It gives up the free lists *)
(* where the counts say so and reads one group of them, ends a block at an *)
(* entry with inode 0, reads no entries in indirect blocks, and takes the  *)
(* boot block for an indirect block and the text of a symbolic link for    *)
(* pointers.  The numbers are less than 2^31, and no name has a comma.     *)
WithinReach ==
    /\ disk.magic /\ NumGroups = 1 /\ SameGroups
    /\ disk.group[1].inode_table \in Nat
    /\ disk.group[1].free_blocks = Cardinality(FreeBlocks)
    /\ disk.group[1].free_inodes = Cardinality(FreeInodes)
    /\ PointersAt(0) = Zeros
    /\ \A i \in InUse : \A s \in Slot :
           /\ Inode(i).ptr[s] \in Nat
           /\ Inode(i).type \in {"d", "s"} /\ s >= NumDirect => Inode(i).ptr[s] = 0
    /\ \A r \in Refs : BlockAt(r[1], r[2]) \in Nat
    /\ Entries = Places
    /\ \A p \in Entries : Entry(p).inode > 0 /\ Len(Entry(p).name) = 1

EntryOf(p) == <<p[1], Entry(p).inode, Entry(p).name>>
DirentOf(n) == <<csv.dirent[n].of, csv.dirent[n].inode, csv.dirent[n].name>>

(* The line of the csv for a reference in an indirect block, with the      *)
(* logical block that the reference leads to, or to which it leads first.  *)
Behind(level) == CASE level = 0 -> 1 [] level = 1 -> PerBlock [] level = 2 -> PerBlock * PerBlock

IndirectRefs == {r \in Refs : ~Direct(r)}
LineOf(r) ==
    LET path == r[2]
        top == Level(path[1])
        weight(m) == path[m] * Behind(top - m + 1)
    IN  [of |-> r[1], level |-> top - Len(path) + 2,
         offset |-> FirstLogical(top) + MapThenSumSet(weight, 2 .. Len(path)),
         block |-> BlockAt(r[1], SubSeq(path, 1, Len(path) - 1)),
         ref |-> BlockAt(r[1], path)]

(* Only the first pointer is followed in indirect blocks of indirect ones. *)
Straight(r) == \A m \in 2 .. Len(r[2]) : m <= Level(r[2][1]) => r[2][m] = 0
WithoutOffset(l) == <<l.of, l.level, l.block, l.ref>>

InodeLineOf(i) ==
    InodeLine([of |-> i, type |-> Inode(i).type, links |-> Inode(i).links, ptr |-> Inode(i).ptr])

(* The sizes of the groups add up to those of the superblock.              *)
GroupsOK ==
    LET blocks(i) == csv.group[i].blocks
        inodes(i) == csv.group[i].inodes
    IN  /\ MapThenSumSet(blocks, DOMAIN csv.group) = disk.blocks
        /\ SameGroups => MapThenSumSet(inodes, DOMAIN csv.group) = disk.inodes

(* The summary has all that is on the disk: the free lists are the bitmaps,*)
(* every inode in use, every entry and every pointer in an indirect block  *)
(* is a line, once, and nothing else is; the logical offsets are right up  *)
(* to the second pointer of a doubly indirect block.                       *)
SummaryOK ==
    /\ csv.blocks = disk.blocks /\ csv.inodes = disk.inodes /\ csv.first_ino = disk.first_ino
    /\ csv.group[1].inode_table = disk.group[1].inode_table
    /\ ToSet(csv.bfree) = FreeBlocks /\ Len(csv.bfree) = Cardinality(FreeBlocks)
    /\ ToSet(csv.ifree) = FreeInodes /\ Len(csv.ifree) = Cardinality(FreeInodes)
    /\ csv.inode \in Seq({InodeLineOf(i) : i \in InUse})
    /\ {csv.inode[n].of : n \in DOMAIN csv.inode} = InUse
    /\ Len(csv.inode) = Cardinality(InUse)
    /\ {DirentOf(n) : n \in DOMAIN csv.dirent} = {EntryOf(p) : p \in Entries}
    /\ \A e \in {EntryOf(p) : p \in Entries} :
           Cardinality({n \in DOMAIN csv.dirent : DirentOf(n) = e})
               = Cardinality({p \in Entries : EntryOf(p) = e})
    /\ csv.indirect \in Seq([of : Nat, level : 1 .. 3, offset : Nat, block : Nat, ref : Nat])
    /\ {WithoutOffset(l) : l \in ToSet(csv.indirect)}
           = {WithoutOffset(LineOf(r)) : r \in IndirectRefs}
    /\ \A l \in {WithoutOffset(LineOf(r)) : r \in IndirectRefs} :
           Cardinality({n \in DOMAIN csv.indirect : WithoutOffset(csv.indirect[n]) = l})
               = Cardinality({r \in IndirectRefs : WithoutOffset(LineOf(r)) = l})
    /\ {LineOf(r) : r \in {r \in IndirectRefs : Straight(r)}} \subseteq ToSet(csv.indirect)
=============================================================================
