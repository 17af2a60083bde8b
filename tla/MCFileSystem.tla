---------------------------- MODULE MCFileSystem ----------------------------
(***************************************************************************)
(* Disks for the file system.  Sectors have four bytes, two directory      *)
(* entries or four entries of the allocation table.  The root directory    *)
(* takes clusters 2 and 4, its subdirectory cluster 3; the table has two   *)
(* sectors and a second copy; files are in clusters 5 to 7 in any order.   *)
(***************************************************************************)
EXTENDS FileSystem

CONSTANT Second   \* the client that is only active on the shared disk

MCStrip(name) == IF name = "MA IN" THEN "MAIN" ELSE name
MCUpper(name) ==
    CASE name \in {"bin", "BIN"}           -> "BIN"
      [] name \in {"main", "Main", "MAIN"} -> "MAIN"
      [] name \in {"app"}                  -> "APP"
      [] OTHER                             -> name

MCOffsets == {-1, 5}

MCPaths == {<<"", "main">>, <<"", "bin", "app">>, <<"MAIN">>, <<"", "nope">>, <<"", "">>}

Boot0(totsec) ==
    [BPB_BytsPerSec |-> 4, BPB_SecPerClus |-> 1, BPB_RsvdSecCnt |-> 1, BPB_NumFATs |-> 2,
     BPB_RootEntCnt |-> 0, BPB_TotSec16 |-> 0, BPB_FATSz16 |-> 0, BPB_TotSec32 |-> totsec,
     BPB_FATSz32 |-> 2, BPB_RootClus |-> 2]

\* A file as the disk has it: pieces of the long name, short name, chain, size.
File(long, short, chain, size) ==
    [kind |-> "short", long |-> long, short |-> MCStrip(short), stored |-> short, chain |-> chain, size |-> size,
     cluster |-> IF chain = << >> THEN 0 ELSE Head(chain)]

\* What is left of a file, of which the clusters are free.
Deleted(long, short, cluster, size) ==
    [kind |-> "deleted", long |-> long, short |-> short, stored |-> short, chain |-> << >>, size |-> size,
     cluster |-> cluster]

\* The directory entries of a file, and those of a directory in its clusters.
Entries(file) ==
    [i \in DOMAIN file.long |-> [kind |-> "lfn", name |-> file.long[i], unused |-> file.kind = "deleted"]]
        \o << [kind |-> "short", name |-> file.stored, cluster |-> file.cluster, size |-> file.size,
               unused |-> file.kind = "deleted"] >>

\* A directory as FileSystem describes it.
Directory(files, chain) ==
    [files |-> files, chain |-> chain,
     first |-> [i \in 1 .. Len(files) + 1 |-> Len(FlattenSeq([j \in 1 .. i - 1 |-> Entries(files[j])]))]]

DirBytes(files, clusters) ==
    LET all == FlattenSeq([i \in DOMAIN files |-> Entries(files[i])])
        at(n) == IF n \in DOMAIN all THEN all[n] ELSE [kind |-> "end"]
    IN  [c \in Range(clusters) |->
            LET k == CHOOSE i \in DOMAIN clusters : clusters[i] = c
            IN  [o \in 0 .. 3 |-> at(2 * (k - 1) + o \div 2 + 1)]]

\* The allocation table of some chains; the entries 0 and 1 are marks, free
\* clusters have 0, and mark ends every chain.
Table(chains, mark) ==
    [c \in 0 .. 7 |->
        IF c < 2 THEN 15
        ELSE LET in == {s \in chains : c \in Range(s)}
             IN  IF in = {} THEN 0
                 ELSE LET s == CHOOSE s \in in : TRUE
                          i == CHOOSE i \in DOMAIN s : s[i] = c
                      IN  IF i = Len(s) THEN mark ELSE s[i + 1]]

Volume(root, rootChain, bin, mark, totsec) ==
    LET chains == {rootChain, <<3>>} \cup ({f.chain : f \in Range(root) \cup Range(bin)} \ {<< >>})
        table  == Table(chains, mark)
        dirs   == DirBytes(root, rootChain)
        subdir == DirBytes(bin, <<3>>)
        cluster(c) == IF c \in DOMAIN dirs THEN dirs[c]
                      ELSE IF c = 3 THEN subdir[c]
                      ELSE IF c >= 5 THEN [o \in 0 .. 3 |-> <<c, o>>]
                      ELSE [o \in 0 .. 3 |-> 0]
        fatSector(k) == [o \in 0 .. 3 |-> table[4 * k + o]]
    IN  [boot   |-> Boot0(totsec),
         sector |-> [s \in 1 .. 10 |-> IF s <= 4 THEN fatSector((s - 1) % 2) ELSE cluster(s - 3)],
         data   |-> [c \in 2 .. 7 |-> [i \in 1 .. 4 |-> cluster(c)[i - 1]]],
         dirs   |-> (2 :> Directory(root, rootChain)) @@ (3 :> Directory(bin, <<3>>))]

BinDir == File(<< >>, "BIN", <<3>>, 0)

\* Chains of one to three of the clusters 5 to 7, in any order.
Chains == {s \in UNION {[1 .. n -> 5 .. 7] : n \in 0 .. 3} : IsInjective(s)}

Disjoint(s, t) == Range(s) \cap Range(t) = {}

\* The size of a file ends in its last cluster.
SizeOf(s) == IF s = << >> THEN 0 ELSE 4 * Len(s) - 1

LongNames == { << >>, <<"main">>, <<"nn", "mainm">>, <<"o", "nn", "mainm">> }

FileDisks ==
    {Volume(<<BinDir, File(l, "MA IN", s, SizeOf(s))>>, <<2, 4>>,
            <<File(<<"app">>, "APP", t, SizeOf(t))>>, 15, 20) :
        l \in {<<"main">>}, s \in {x \in Chains : Len(x) > 0}, t \in {<<5>>, <<7, 6>>, << >>}}
NameDisks ==
    {Volume(<<File(l, "MA IN", <<5>>, 3), BinDir>>, <<2, 4, 6>>, <<File(<<"app">>, "APP", <<7>>, 4)>>, 15, 20) :
        l \in LongNames}
\* Before the file there is a deleted one, with or without the same long name.
DeletedDisks ==
    {Volume(<<Deleted(l, "?AIN", 6, 3), File(<< >>, "MA IN", <<5>>, 3), BinDir>>, <<2, 4>>,
            <<File(<<"app">>, "APP", <<7>>, 4)>>, 15, 20) : l \in {<< >>, <<"main">>}}
BadDisks ==
    {Volume(<<File(<<"main">>, "MAIN", <<5>>, 3), BinDir>>, <<2, 4>>, <<File(<< >>, "APP", <<7>>, 4)>>, 14, 20),
     Volume(<<BinDir>>, <<2, 4>>, << >>, 15, 6)}

\* The disk for the interleavings of two clients.
SharedDisk ==
    Volume(<<BinDir, File(<<"main">>, "MA IN", <<7, 5>>, 7)>>, <<2, 4>>, <<File(<<"app">>, "APP", <<6>>, 2)>>, 15, 20)

MCVolumes ==
    {v \in FileDisks : Disjoint(v.dirs[2].files[2].chain, v.dirs[3].files[1].chain)} \cup NameDisks \cup DeletedDisks \cup BadDisks \cup {SharedDisk}

\* Bounds: on the shared disk two clients with few paths, one length of buffers and
\* positions near the files or before their start; on the others one client with one
\* open file, all paths and all lengths.
Bounded ==
    /\ disk = SharedDisk /\ job' # NoJob =>
            /\ job'.op = "open" => job'.path \in {<<"", "main">>, <<"", "bin", "app">>, <<"", "nope">>}
            /\ job'.op = "read" /\ load[job'.client].at = "no" => job'.want = 3
    /\ disk = SharedDisk => \A fd \in DOMAIN stream' : stream'[fd].from \in {0, 4, 5, 6, 31}
    /\ disk # SharedDisk =>
            /\ curr_fd' <= 4
            /\ load'[Second] = NotLoading
            /\ job' # NoJob => job'.client # Second

MCSpec == FsInit /\ [][FsNext /\ Bounded]_vars
=============================================================================
