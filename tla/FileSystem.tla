----------------------------- MODULE FileSystem -----------------------------
(***************************************************************************)
(* The file system (src/fs.rs) over Fat32, the system calls that use it    *)
(* (sys_open, sys_read, sys_seek) and load_exe() of the program loader.    *)
(*                                                                         *)
(* Every call of FileSystem is made under one Mutex, so an operation that  *)
(* is under way (job) keeps every other caller out, although its process   *)
(* is switched away from at each disk access.  load_exe() takes the Mutex  *)
(* three times: other callers come between its open, size and read.        *)
(*                                                                         *)
(* There is one table of descriptors for all processes, and descriptors    *)
(* are small numbers: a program may read and seek through those of other   *)
(* programs, and of load_exe().                                            *)
(***************************************************************************)
EXTENDS Fat32

CONSTANTS
    Callers,  \* the processes that make calls
    Paths,    \* the paths they open, as sequences of names
    Counts,   \* the lengths of their buffers
    Offsets,  \* the offsets they seek to
    MaxFd,    \* bound on the number of open() calls
    Usize     \* 2^64

ASSUME UsizeAssumption == Usize \in Nat /\ Usize >= U32
ASSUME FdAssumption    == MaxFd \in Nat /\ MaxFd >= 3
ASSUME InputAssumption == Counts \subseteq Nat /\ Offsets \subseteq Int

VARIABLES
    desc_table,  \* FileSystem.desc_table: the open files
    curr_fd,     \* FileSystem.curr_fd: the next descriptor
    load,        \* how far each client is in load_exe()
    touched,     \* history: the descriptors that a program has read or seeked
    stream       \* history: what was read through a descriptor since it was positioned

vars == <<kernel, disk, fat, job, desc_table, curr_fd, load, touched, stream>>

Free == job = NoJob

\* A client is between two calls of its own program.
MayCall(c) == kernel = "up" /\ Free /\ load[c].at = "no"

NotLoading == [at |-> "no"]

FsInit ==
    /\ kernel = "boot"
    /\ disk \in Volumes
    /\ fat = [fat_begin |-> 0, cluster_begin |-> 0, sectors_per_cluster |-> 0,
              root_dir_first_cluster |-> 0, sector_size |-> SectorSize]
    /\ job = NoJob
    /\ desc_table = << >>
    /\ curr_fd = 3
    /\ load = [c \in Callers |-> NotLoading]
    /\ touched = {}
    /\ stream = << >>

-----------------------------------------------------------------------------
(***************************************************************************)
(* open_file()                                                             *)
(***************************************************************************)

\* Mutation of OpenFile: the next descriptor is not counted up.
OpenFile_Reuse(c, path) ==
    /\ curr_fd < MaxFd
    /\ job' = [stage |-> "find", client |-> c, op |-> "open", fd |-> curr_fd,
               path |-> path, look |-> StartLookup(path)]
    /\ UNCHANGED curr_fd

\* The descriptor is taken before the path is known to exist.
OpenFile(c, path) ==
    /\ curr_fd < MaxFd
    /\ curr_fd' = curr_fd + 1
    /\ job' = [stage |-> "find", client |-> c, op |-> "open", fd |-> curr_fd,
               path |-> path, look |-> StartLookup(path)]

SysOpen(c) ==
    /\ MayCall(c)
    /\ \E path \in Paths : OpenFile(c, path)
    /\ UNCHANGED <<kernel, disk, fat, desc_table, load, touched, stream>>

\* file_size() succeeded: the file is entered at offset 0.
OpenDone ==
    /\ kernel = "up"
    /\ job.stage = "found"
    /\ job.op = "open"
    /\ LET file == [path |-> job.path, offset |-> 0, size |-> job.look.entry.size]
       IN  desc_table' = [fd \in DOMAIN desc_table \cup {job.fd} |->
                            IF fd = job.fd THEN file ELSE desc_table[fd]]
    /\ stream' = [fd \in DOMAIN desc_table' |-> IF fd = job.fd THEN [from |-> 0, data |-> << >>] ELSE stream[fd]]
    /\ load' = [load EXCEPT ![job.client] =
                    IF @.at = "open" THEN [at |-> "size", fd |-> job.fd, path |-> job.path] ELSE @]
    /\ job' = NoJob
    /\ UNCHANGED <<kernel, disk, fat, curr_fd, touched>>

\* The path does not exist: the call fails.  init_program() unwraps the result of
\* load_exe().
LookupFailed ==
    /\ kernel = "up"
    /\ job.stage = "missing"
    /\ kernel' = IF load[job.client].at = "no" THEN "up" ELSE "panic"
    /\ job' = NoJob
    /\ UNCHANGED <<disk, fat, desc_table, curr_fd, load, touched, stream>>

-----------------------------------------------------------------------------
(***************************************************************************)
(* seek()                                                                  *)
(***************************************************************************)

\* Where a seek is counted from.
Base(file, whence) ==
    CASE whence = "SEEK_SET" -> 0
      [] whence = "SEEK_CUR" -> file.offset
      [] whence = "SEEK_END" -> file.size

\* The sum is a usize again: a negative position becomes a large one.
SeekTo(file, whence, offset) == (Base(file, whence) + offset) % Usize

SysSeek(c) ==
    /\ MayCall(c)
    /\ \E fd \in DOMAIN desc_table, offset \in Offsets,
          whence \in {"SEEK_SET", "SEEK_CUR", "SEEK_END"} :
            LET at == SeekTo(desc_table[fd], whence, offset)
            IN  /\ desc_table' = [desc_table EXCEPT ![fd].offset = at]
                /\ stream' = [stream EXCEPT ![fd] = [from |-> at, data |-> << >>]]
                /\ touched' = touched \cup {fd}
    /\ UNCHANGED <<kernel, disk, fat, job, curr_fd, load>>

\* A seek or read on a descriptor that is not open (FileNotOpen), a read on the
\* descriptors 0 to 2 and a seek with another whence (UnknownOption) do nothing.
Rejected(c) == MayCall(c) /\ UNCHANGED vars

-----------------------------------------------------------------------------
(***************************************************************************)
(* read()                                                                  *)
(***************************************************************************)

\* The path of an open file is walked again for every read.
Read(c, fd, count) ==
    job' = [stage |-> "find", client |-> c, op |-> "read", fd |-> fd, want |-> count,
            look |-> StartLookup(desc_table[fd].path)]

SysRead(c) ==
    /\ MayCall(c)
    /\ \E fd \in DOMAIN desc_table, count \in Counts :
            Read(c, fd, count) /\ touched' = touched \cup {fd}
    /\ UNCHANGED <<kernel, disk, fat, desc_table, curr_fd, load, stream>>

\* read_at() has the directory entry.
ReadFound ==
    /\ kernel = "up"
    /\ job.stage = "found"
    /\ job.op = "read"
    /\ job' = [stage |-> "read", client |-> job.client, op |-> "read", fd |-> job.fd,
               want |-> job.want, rd |-> StartRead(job.look.entry, desc_table[job.fd].offset)]
    /\ UNCHANGED <<kernel, disk, fat, desc_table, curr_fd, load, touched, stream>>

\* Mutation of NewOffset: the offset moves by what was asked for.
NewOffset_Asked == (desc_table[job.fd].offset + job.want) % Usize

\* The offset moves by what was read.
NewOffset == (desc_table[job.fd].offset + Len(job.rd.data)) % Usize

ReadDone ==
    /\ kernel = "up"
    /\ job.stage = "done"
    /\ desc_table' = [desc_table EXCEPT ![job.fd].offset = NewOffset]
    /\ stream' = [stream EXCEPT ![job.fd].data = @ \o job.rd.data]
    /\ load' = [load EXCEPT ![job.client] =
                    IF @.at = "read" THEN [at |-> "loaded", fd |-> @.fd, path |-> @.path, data |-> job.rd.data]
                    ELSE @]
    /\ job' = NoJob
    /\ UNCHANGED <<kernel, disk, fat, curr_fd, touched>>

-----------------------------------------------------------------------------
(***************************************************************************)
(* load_exe()                                                              *)
(***************************************************************************)

LoadExe(c) ==
    /\ MayCall(c)
    /\ \E path \in Paths : OpenFile(c, path)
    /\ load' = [load EXCEPT ![c] = [at |-> "open"]]
    /\ UNCHANGED <<kernel, disk, fat, desc_table, touched, stream>>

\* get_file_size(), and then a buffer of that size.
LoadSize(c) ==
    /\ kernel = "up" /\ Free
    /\ load[c].at = "size"
    /\ load' = [load EXCEPT ![c] = [at |-> "buffer", fd |-> @.fd, path |-> @.path,
                                    size |-> desc_table[@.fd].size]]
    /\ UNCHANGED <<kernel, disk, fat, job, desc_table, curr_fd, touched, stream>>

LoadRead(c) ==
    /\ kernel = "up" /\ Free
    /\ load[c].at = "buffer"
    /\ load' = [load EXCEPT ![c] = [at |-> "read", fd |-> @.fd, path |-> @.path]]
    /\ Read(c, load[c].fd, load[c].size)
    /\ UNCHANGED <<kernel, disk, fat, desc_table, curr_fd, touched, stream>>

\* The image is parsed and its segments are copied to the process.  A file that is
\* not an ELF image is a panic.
LoadCopied(c) ==
    /\ kernel = "up"
    /\ load[c].at = "loaded"
    /\ kernel' \in {"up", "panic"}
    /\ load' = [load EXCEPT ![c] = NotLoading]
    /\ UNCHANGED <<disk, fat, job, desc_table, curr_fd, touched, stream>>

-----------------------------------------------------------------------------
\* Nothing happens after a panic.
Halted == kernel = "panic" /\ UNCHANGED vars

Find == FindStep /\ UNCHANGED <<desc_table, curr_fd, load, touched, stream>>
ReadAt == ReadStep /\ UNCHANGED <<desc_table, curr_fd, load, touched, stream>>
Boot == Mount /\ UNCHANGED <<desc_table, curr_fd, load, touched, stream>>

\* The steps of a call under way and of a load.
Progress ==
    \/ Boot \/ Find \/ ReadAt \/ OpenDone \/ LookupFailed \/ ReadFound \/ ReadDone

Call(c) == Rejected(c) \/ SysOpen(c) \/ SysSeek(c) \/ SysRead(c) \/ LoadExe(c)
Load(c) == LoadSize(c) \/ LoadRead(c) \/ LoadCopied(c)

FsNext == Progress \/ Halted \/ \E c \in Callers : Call(c) \/ Load(c)

FsSpec == FsInit /\ [][FsNext]_vars

-----------------------------------------------------------------------------
(***************************************************************************)
(* The reference: what is on a disk v, of which the code only reads        *)
(* v.sector and v.boot.                                                    *)
(*                                                                         *)
(* v.dirs[d] is the directory whose first cluster is d: its files, deleted *)
(* ones too, the chain of its clusters, and the number of the first        *)
(* directory entry of each file, with one more for the end.  file.long are *)
(* the pieces of long names before the entry of the file, which are its    *)
(* own or left from a deleted file.  v.data[c] are the bytes of cluster c. *)
(***************************************************************************)

NoFile == [kind |-> "none", cluster |-> NoCluster]

\* The files a name leads to: by the one piece of a long name before the entry,
\* whether or not one of them is deleted, or by the short name in any case.  The mark
\* of a deleted file is the first byte of its short name.
Hits(files, name) ==
    {i \in DOMAIN files : \/ files[i].long = <<name>>
                          \/ files[i].kind # "deleted" /\ files[i].short = Upper(name)}

\* The first file of a directory that the name leads to.
FileIn(v, dir, name) ==
    LET files == IF dir \in DOMAIN v.dirs THEN v.dirs[dir].files ELSE << >>
        hits  == Hits(files, name)
    IN  IF hits = {} THEN NoFile ELSE files[Min(hits)]

\* The root directory, and what the first n names of a path lead to from there.
Walk(v, names) ==
    LET file[n \in 0 .. Len(names)] ==
            IF n = 0 THEN [kind |-> "root", cluster |-> v.boot.BPB_RootClus]
            ELSE FileIn(v, file[n - 1].cluster, names[n])
    IN  file

\* The file a path names.
FileAt(path) == IF Names(path) = << >> THEN NoFile ELSE Walk(disk, Names(path))[Len(Names(path))]

\* The bytes of all clusters of a file, which have one sector each.  The last one
\* may be filled past the size.
Content(file) ==
    [i \in 1 .. Len(file.chain) * SectorSize |->
        disk.data[file.chain[((i - 1) \div SectorSize) + 1]][((i - 1) % SectorSize) + 1]]

\* At most n bytes of a file, from an offset on.
Extract(file, offset, n) ==
    SubSeq(Content(file), offset + 1, Min({offset + n, Len(Content(file))}))

PathOf(fd) == desc_table[fd].path

-----------------------------------------------------------------------------
(***************************************************************************)
(* The disks and the paths the code is meant for.                          *)
(***************************************************************************)

\* The code that looks for files has a buffer of one sector for a cluster.
WellShaped(boot) ==
    /\ boot.BPB_BytsPerSec = SectorSize /\ boot.BPB_SecPerClus = 1
    /\ boot.BPB_RsvdSecCnt \in Nat /\ boot.BPB_NumFATs \in Nat /\ boot.BPB_FATSz32 \in Nat

\* The sectors of clusters come after the allocation tables.
WellStored(v, c) ==
    LET first == v.boot.BPB_RsvdSecCnt + v.boot.BPB_NumFATs * v.boot.BPB_FATSz32
    IN  /\ c \in Nat /\ c >= 2 /\ first + (c - 2) < U32
        /\ \A o \in 0 .. SectorSize - 1 : v.sector[first + (c - 2)][o] = v.data[c][o + 1]

\* The entry of a cluster in the allocation table.
Successor(v, c) ==
    v.sector[v.boot.BPB_RsvdSecCnt + (c * FatEntrySize) \div SectorSize][(c * FatEntrySize) % SectorSize]

\* Clusters that follow one another up to an end mark or the bad mark, and have
\* less than U32 bytes.
IsChain(v, chain) ==
    /\ chain \in Seq(DOMAIN v.data)
    /\ Len(chain) * SectorSize < U32
    /\ \A i \in DOMAIN chain :
        /\ Successor(v, chain[i]) \in Nat
        /\ IF i < Len(chain)
           THEN Successor(v, chain[i]) = chain[i + 1] /\ chain[i + 1] < Eoc - 1
           ELSE Successor(v, chain[i]) >= Eoc - 1

\* The clusters of a deleted file are free, or those of other files.
IsFile(v, file) ==
    /\ file.kind \in {"short", "deleted"} /\ file.long \in Seq(STRING)
    /\ IF file.kind = "deleted"
       THEN file.chain = << >> /\ file.cluster \in Nat /\ file.size \in Nat
       ELSE /\ IsChain(v, file.chain)
            /\ file.cluster = IF file.chain = << >> THEN 0 ELSE file.chain[1]
            /\ file.size \in 0 .. Len(file.chain) * SectorSize

\* The n-th entry of a directory, counted from 0.
DirEntry(v, dir, n) ==
    v.data[dir.chain[n \div EntriesPerBuffer + 1]][(n % EntriesPerBuffer) * DirEntrySize + 1]

\* A directory has, for each file, pieces of long names and then the entry of the
\* file, any of them deleted, and an end mark if there is room for it.
IsDirectory(v, dir) ==
    LET files == dir.files
        last  == dir.first[Len(files) + 1]
    IN  /\ IsChain(v, dir.chain)
        /\ Len(files) \in Nat /\ DOMAIN files = 1 .. Len(files)
        /\ dir.first \in Seq(Nat) /\ Len(dir.first) = Len(files) + 1 /\ dir.first[1] = 0
        /\ \A i \in DOMAIN dir.first : dir.first[i] <= Len(dir.chain) * EntriesPerBuffer
        /\ last < Len(dir.chain) * EntriesPerBuffer => IsEnd(DirEntry(v, dir, last))
        /\ \A i \in DOMAIN files :
            LET file == files[i]
                e    == DirEntry(v, dir, dir.first[i] + Len(file.long))
            IN  /\ IsFile(v, file)
                /\ dir.first[i + 1] = dir.first[i] + Len(file.long) + 1
                /\ \A j \in DOMAIN file.long :
                    LET piece == DirEntry(v, dir, dir.first[i] + j - 1)
                    IN  IsLfn(piece) /\ LongMatch(piece, file.long[j])
                /\ e.kind = "short" /\ Strip(e.name) = file.short
                /\ IsUnused(e) <=> file.kind = "deleted"
                /\ e.cluster = file.cluster /\ e.size = file.size

ASSUME VolumeAssumption ==
    \A v \in Volumes :
        /\ WellShaped(v.boot)
        /\ \A c \in DOMAIN v.data : WellStored(v, c)
        /\ \A d \in DOMAIN v.dirs :
            IsDirectory(v, v.dirs[d]) /\ v.dirs[d].chain # << >> /\ v.dirs[d].chain[1] = d
        /\ v.boot.BPB_RootClus \in DOMAIN v.dirs

\* A path goes through directories only, its names are not among the pieces of a long
\* name that has several, and in capitals they do not begin with the byte that marks
\* deleted files.
ASSUME PathAssumption ==
    \A path \in Paths :
        /\ path \in Seq(STRING)
        /\ \A v \in Volumes, n \in DOMAIN Names(path) :
            /\ Walk(v, Names(path))[n - 1].cluster \in DOMAIN v.dirs \cup {NoCluster}
            /\ \A d \in DOMAIN v.dirs : \A i \in DOMAIN v.dirs[d].files :
                LET file == v.dirs[d].files[i]
                IN  /\ Len(file.long) > 1 => Names(path)[n] \notin Range(file.long)
                    /\ file.kind = "deleted" => file.short # Upper(Names(path)[n])

-----------------------------------------------------------------------------
(***************************************************************************)
(* Properties.                                                             *)
(***************************************************************************)

\* get_entry_from_path() finds the first file its names lead to, and nothing else: long
\* names before their entry, directories that span clusters and a long name at the
\* end of one cluster with its entry in the next.  A deleted file is found by its long
\* name too, and what a deleted long name was left before is found by that name: the
\* mark of deleted entries is not looked at.  By its short name a deleted file is not.
LookupExact ==
    job.stage \in {"found", "missing"} =>
        LET file == FileAt(IF job.op = "open" THEN job.path ELSE PathOf(job.fd))
        IN  IF job.stage = "missing" THEN file = NoFile
            ELSE /\ file # NoFile
                 /\ job.look.entry.kind = "short"
                 /\ job.look.entry.cluster = file.cluster
                 /\ job.look.entry.size = file.size

\* read_at() returns the bytes of the file's chain from the offset on, as many as
\* the buffer holds or the chain has, for an offset of 32 bits and a file that
\* has a cluster and is not deleted.
ReadsFileBytes ==
    job.stage = "done" =>
        LET file   == FileAt(PathOf(job.fd))
            offset == desc_table[job.fd].offset
        IN  file.chain # << >> /\ offset < U32 => job.rd.data = Extract(file, offset, job.want)

\* Successive reads through one descriptor, by whichever processes, return the
\* file without a gap or a repetition, and the offset is where the next one goes on.
StreamInOrder ==
    \A fd \in DOMAIN desc_table :
        LET file == FileAt(PathOf(fd))
            s    == stream[fd]
        IN  /\ desc_table[fd].offset = (s.from + Len(s.data)) % Usize
            /\ file.chain # << >> /\ s.from < U32 => s.data = Extract(file, s.from, Len(s.data))

\* load_exe() gets the whole of a file that is not deleted, whatever other processes
\* open, seek and read between its three calls, unless one of them reads or seeks
\* through the descriptor of load_exe() itself.
LoadsWholeFile ==
    \A c \in Callers :
        load[c].at = "loaded" /\ load[c].fd \notin touched =>
            LET file == FileAt(load[c].path)
            IN  file.kind # "deleted" => load[c].data = SubSeq(Content(file), 1, file.size)

\* A call whose steps go on and on returns: the walks along directories and chains
\* come to an end.  (That they go on is for the scheduler and the disk.)
CallsReturn == []<><<Progress>>_vars => []<>(Free \/ kernel = "panic")

=============================================================================
