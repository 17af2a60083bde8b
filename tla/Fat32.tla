------------------------------- MODULE Fat32 --------------------------------
(***************************************************************************)
(* The FAT32 reader (src/fs/fat.rs): mounting, the walk from a path to a   *)
(* directory entry, and the walk along a cluster chain that reads a file.  *)
(*                                                                         *)
(* A disk is a function from sectors to functions from byte offsets to     *)
(* what is stored there: a number in the allocation table, a directory     *)
(* entry at every DirEntrySize-th offset of a directory, and anything in a *)
(* file.  Sizes are parameters (512, 4 and 32 in the code), so that a      *)
(* chain, a directory and the table itself span sectors in a small model.  *)
(*                                                                         *)
(* One request is in here at a time (the Mutex of FileSystem), and every   *)
(* iteration of its loops reads the disk, so an iteration is an action.    *)
(***************************************************************************)
EXTENDS Integers, Sequences, FiniteSets, SequencesExt

CONSTANTS
    Volumes,       \* the disks that may be mounted
    SectorSize,    \* bytes in a sector
    FatEntrySize,  \* bytes in an entry of the allocation table
    DirEntrySize,  \* bytes in a directory entry
    MinClusters,   \* 65525: with fewer clusters it is not a FAT32
    U16, U32,      \* 2^16 and 2^32
    Eoc,           \* 0x0FFFFFF8: the least end-of-chain mark
    Strip(_),      \* what lfn_to_string() and dir_entry_name() make of a stored name
    Upper(_)       \* str::to_uppercase

ASSUME SizesAssumption ==
    /\ SectorSize \in Nat \ {0} /\ FatEntrySize \in Nat \ {0} /\ DirEntrySize \in Nat \ {0}
    /\ SectorSize % FatEntrySize = 0 /\ SectorSize % DirEntrySize = 0 /\ SectorSize > DirEntrySize
    /\ U16 \in Nat \ {0} /\ U32 \in Nat \ {0} /\ Eoc \in Nat \ {0} /\ MinClusters \in Nat

VARIABLES
    kernel,  \* "boot", "up", or "panic"
    disk,    \* the mounted disk
    fat,     \* the fields of Fat32 that init() sets
    job      \* the request under way, or NoJob

NoJob == [stage |-> "none"]

\* What next_cluster() answers for the last cluster, and where it panics.
NoCluster  == -1
BadCluster == -2

\* Directory entries: the end mark, a piece of a long name, a file or directory.
IsEnd(e) == e.kind = "end"
IsLfn(e) == e.kind = "lfn"

\* The mark of a deleted entry.  find_file() reads it (_is_unused) and does not use it:
\* deleted pieces and files take part in the search.
IsUnused(e) == e.unused

-----------------------------------------------------------------------------
\* Where init() finds the table, the clusters and the root directory.
Geometry(bs) ==
    [fat_begin              |-> bs.BPB_RsvdSecCnt,
     cluster_begin          |-> bs.BPB_RsvdSecCnt + bs.BPB_FATSz32 * bs.BPB_NumFATs,
     sectors_per_cluster    |-> bs.BPB_SecPerClus,
     root_dir_first_cluster |-> bs.BPB_RootClus,
     sector_size            |-> bs.BPB_BytsPerSec]

\* The number of clusters by which init() tells the kinds of FAT apart.
CountOfClusters(bs) ==
    LET fatsz  == IF bs.BPB_FATSz16 # 0 THEN bs.BPB_FATSz16 ELSE bs.BPB_FATSz32
        totsec == IF bs.BPB_TotSec16 # 0 THEN bs.BPB_TotSec16 ELSE bs.BPB_TotSec32
        root_dir_sectors ==
            ((bs.BPB_RootEntCnt * DirEntrySize + bs.BPB_BytsPerSec - 1) % U16) \div bs.BPB_BytsPerSec
        data_sec == totsec - (bs.BPB_RsvdSecCnt + bs.BPB_NumFATs * fatsz + root_dir_sectors)
    IN  (data_sec % U32) \div bs.BPB_SecPerClus

\* init(): a volume with few clusters is unimplemented!().
Mount ==
    /\ kernel = "boot"
    /\ \/ /\ CountOfClusters(disk.boot) >= MinClusters
          /\ fat' = Geometry(disk.boot)
          /\ kernel' = "up"
       \/ /\ CountOfClusters(disk.boot) < MinClusters
          /\ kernel' = "panic"
          /\ UNCHANGED fat
    /\ UNCHANGED <<disk, job>>

-----------------------------------------------------------------------------
(***************************************************************************)
(* Clusters.                                                               *)
(***************************************************************************)

\* sector_of_cluster(), which wraps for the cluster 0 of an empty file.
SectorOfCluster(c) ==
    (((c - 2) % U32) * fat.sectors_per_cluster + fat.cluster_begin) % U32

\* Mutation of FatSlot: the entry is looked up in the first sector.
FatSlot_FirstSector(c) ==
    [sector |-> fat.fat_begin, offset |-> (c * FatEntrySize) % fat.sector_size]

\* Where next_cluster() looks for the successor of c.
FatSlot(c) ==
    [sector |-> fat.fat_begin + (c * FatEntrySize) \div fat.sector_size,
     offset |-> (c * FatEntrySize) % fat.sector_size]

\* next_cluster(): the end of the chain, the bad mark (a panic), or a cluster.
NextCluster(c) ==
    LET value == disk.sector[FatSlot(c).sector][FatSlot(c).offset]
    IN  IF value >= Eoc THEN NoCluster ELSE IF value = Eoc - 1 THEN BadCluster ELSE value

ClusterSize == fat.sector_size * fat.sectors_per_cluster

\* read_cluster(): the byte at offset o.
ClusterByte(c, o) ==
    disk.sector[SectorOfCluster(c) + o \div fat.sector_size][o % fat.sector_size]

-----------------------------------------------------------------------------
(***************************************************************************)
(* find_file() and get_entry_from_path().                                  *)
(***************************************************************************)

\* The directory entries of one buffer.  The buffer has one sector, so a volume
\* must have one sector in a cluster.
EntriesPerBuffer == SectorSize \div DirEntrySize

EntryAt(pos) == ClusterByte(pos.dir, pos.idx * DirEntrySize)

\* Mutations of Advance: the rest of the directory is not looked at, or the same
\* cluster is read again.
Advance_OneCluster(pos) ==
    IF pos.idx + 1 < EntriesPerBuffer
    THEN [pos EXCEPT !.idx = @ + 1]
    ELSE [dir |-> NoCluster, idx |-> 0]
Advance_SameCluster(pos) == [pos EXCEPT !.idx = (@ + 1) % EntriesPerBuffer]

\* One entry further, in the next cluster if need be.
Advance(pos) ==
    IF pos.idx + 1 < EntriesPerBuffer
    THEN [pos EXCEPT !.idx = @ + 1]
    ELSE [dir |-> NextCluster(pos.dir), idx |-> 0]

\* A piece of a long name matches only by itself: pieces are never joined.
LongMatch(e, name)  == Strip(e.name) = name
\* The bytes of a long-name entry hold zeros, which no path has: read as a short
\* name they match nothing.
ShortMatch(e, name) == e.kind = "short" /\ Strip(e.name) = Upper(name)

\* An iteration of find_file() at position pos: the entry it looks at (the one
\* after a piece of a long name), and whether that is the file.
Probe(pos, name) ==
    LET first == EntryAt(pos)
        at    == IF IsLfn(first) THEN Advance(pos) ELSE pos
    IN  [at |-> at,
         hit |-> at.dir \notin {NoCluster, BadCluster}
                 /\ \/ IsLfn(first) /\ LongMatch(first, name)
                    \/ ShortMatch(EntryAt(at), name)]

\* The names of a path that are not empty.
Names(path) ==
    LET names[n \in 0 .. Len(path)] ==
            IF n = 0 THEN << >>
            ELSE IF path[n] = "" THEN names[n - 1]
            ELSE Append(names[n - 1], path[n])
    IN  names[Len(path)]

\* The walk starts at the root with the first of the names.
StartLookup(path) ==
    [names |-> Names(path), entry |-> [kind |-> "end"],
     pos |-> [dir |-> fat.root_dir_first_cluster, idx |-> 0]]

\* The entry of a name was found: it is the directory of the next name, or the
\* end of the walk.
Descend(e) ==
    job' = [job EXCEPT !.look = [names |-> Tail(job.look.names), entry |-> e,
                                 pos   |-> [dir |-> e.cluster, idx |-> 0]],
                       !.stage = IF Len(job.look.names) = 1 THEN "found" ELSE "find"]

\* No entry: get_entry_from_path() returns None.
NotFound == job' = [job EXCEPT !.stage = "missing"]

\* One iteration of the loop of find_file(), for the first of the names.
FindStep ==
    LET pos   == job.look.pos
        probe == Probe(pos, Head(job.look.names))
        next  == Advance(probe.at)
    IN  /\ kernel = "up"
        /\ job.stage = "find"
        /\ \/ /\ job.look.names = << >> \/ IsEnd(EntryAt(pos))
              /\ NotFound
              /\ UNCHANGED kernel
           \/ /\ job.look.names # << >> /\ ~IsEnd(EntryAt(pos))
              /\ probe.hit
              /\ Descend(EntryAt(probe.at))
              /\ UNCHANGED kernel
           \/ /\ job.look.names # << >> /\ ~IsEnd(EntryAt(pos))
              /\ ~probe.hit
              /\ BadCluster \in {probe.at.dir, next.dir}
              /\ kernel' = "panic"
              /\ UNCHANGED job
           \/ /\ job.look.names # << >> /\ ~IsEnd(EntryAt(pos))
              /\ ~probe.hit
              /\ BadCluster \notin {probe.at.dir, next.dir}
              /\ IF NoCluster \in {probe.at.dir, next.dir}
                 THEN NotFound
                 ELSE job' = [job EXCEPT !.look.pos = next]
              /\ UNCHANGED kernel
        /\ UNCHANGED <<disk, fat>>

-----------------------------------------------------------------------------
(***************************************************************************)
(* read_at().                                                              *)
(***************************************************************************)

\* The loop variables at the start; the offset is cut to 32 bits.
StartRead(e, offset) ==
    [cluster |-> e.cluster, skip |-> (offset % U32) \div ClusterSize,
     byte    |-> (offset % U32) % ClusterSize, data |-> << >>]

\* Mutation of Chunk: the offset in the first cluster is not taken off.
Chunk_WholeCluster(rd, want) ==
    LET count == Min({ClusterSize, want - Len(rd.data)})
    IN  [i \in 1 .. count |-> ClusterByte(rd.cluster, (rd.byte + i - 1) % ClusterSize)]

\* The bytes one iteration copies out of its cluster.
Chunk(rd, want) ==
    LET count == Min({ClusterSize - rd.byte, want - Len(rd.data)})
    IN  [i \in 1 .. count |-> ClusterByte(rd.cluster, rd.byte + i - 1)]

\* One iteration of the loop of read_at(): a cluster is skipped or copied, and
\* the chain is followed even when the buffer is full.
ReadStep ==
    LET rd   == job.rd
        next == NextCluster(rd.cluster)
        step == IF rd.skip > 0
                THEN [rd EXCEPT !.skip = @ - 1]
                ELSE [rd EXCEPT !.data = @ \o Chunk(rd, job.want), !.byte = 0]
    IN  /\ kernel = "up"
        /\ job.stage = "read"
        /\ \/ /\ Len(rd.data) >= job.want
              /\ job' = [job EXCEPT !.stage = "done"]
              /\ UNCHANGED kernel
           \/ /\ Len(rd.data) < job.want
              /\ next = BadCluster
              /\ kernel' = "panic"
              /\ UNCHANGED job
           \/ /\ Len(rd.data) < job.want
              /\ next # BadCluster
              /\ job' = IF next = NoCluster
                        THEN [job EXCEPT !.rd = step, !.stage = "done"]
                        ELSE [job EXCEPT !.rd = [step EXCEPT !.cluster = next]]
              /\ UNCHANGED kernel
        /\ UNCHANGED <<disk, fat>>

=============================================================================
