--------------------------------- MODULE OTFS ---------------------------------
(***************************************************************************)
(* The FAT file system of fs/otfs.c on one image file, driven by one       *)
(* caller: fs_format_image, fs_mount, fs_unmount, fs_open, fs_close,       *)
(* fs_seek, fs_read and fs_write.                                          *)
(*                                                                         *)
(* A call is a sequence of steps, cut where the code hands a region of the *)
(* image to stdio and flushes it (seek_and_write).  Nothing else runs      *)
(* between the steps of a call, but the process may die there (Crash) and  *)
(* a write may be refused (the failing alternative of each write step).    *)
(* pc names the step, r holds the locals of the running call.              *)
(*                                                                         *)
(* dir and fat are the copies in fs_handle_t, dirDisk and fatDisk the      *)
(* directory and FAT regions of the image, data its data blocks and super  *)
(* whether its superblock passes the comparison in fs_mount.  Calls that   *)
(* return an error before they change anything are stutters and have no    *)
(* action.                                                                 *)
(***************************************************************************)
EXTENDS Integers, FiniteSets, Sequences

CONSTANTS
  NumBlocks,     \* FS_DATA_BLOCK_COUNT
  BlockSize,     \* FS_BLOCK_SIZE
  Word,          \* 2^32: sizes and offsets are uint32_t
  MaxFiles,      \* FS_MAX_FILES
  MaxOpen,       \* FS_MAX_OPEN_FILES
  Names,         \* the names callers use, all accepted by validate_name
  FlagChoices,   \* the flag sets callers pass to fs_open
  Offsets,       \* the offsets callers pass to fs_seek
  Lens,          \* the lengths callers pass to fs_read and fs_write
  Values,        \* byte values; 0 is the byte blocks are cleared with
  Faults,        \* may seek_and_write and seek_and_read fail?
  Crashes,       \* may the process die?
  MaxCalls       \* bound of the model: the number of API calls

Flag == {"READ", "WRITE", "CREATE", "TRUNC"}

\* fs_open refuses a flag set without READ and WRITE, and TRUNC without WRITE.
LegalFlags(fl) ==
  /\ fl \cap {"READ", "WRITE"} # {}
  /\ "TRUNC" \in fl => "WRITE" \in fl

ASSUME OTFSAssumption ==
  /\ NumBlocks \in Nat \ {0} /\ BlockSize \in Nat \ {0}
  /\ MaxFiles \in Nat \ {0} /\ MaxOpen \in Nat \ {0}
  /\ FlagChoices \subseteq SUBSET Flag
  /\ \A fl \in FlagChoices : LegalFlags(fl)
  /\ Word \in Nat \ {0}
  /\ Offsets \subseteq 0 .. Word - 1 /\ Lens \subseteq Nat
  /\ 0 \in Values
  /\ Faults \in BOOLEAN /\ Crashes \in BOOLEAN
  /\ MaxCalls \in Nat

\* No offset inside the data region reaches the width of uint32_t, not even when it
\* is rounded up to a block.
ASSUME WordAssumption == (NumBlocks + 1) * BlockSize <= Word

VARIABLES
  mounted, dir, fat, open,        \* fs_handle_t
  super, dirDisk, fatDisk, data,  \* the image
  pc, r,                          \* the call in progress and its locals
  got,                            \* the bytes the last fs_read delivered
  calls                           \* how many calls were made

vars == <<mounted, dir, fat, open, super, dirDisk, fatDisk, data, pc, r, got, calls>>
memory == <<mounted, dir, fat, open>>
image == <<super, dirDisk, fatDisk, data>>

-------------------------------------------------------------------------------
(* Regions and records *)

Blocks == 0 .. NumBlocks - 1
Slots == 0 .. MaxFiles - 1
Fds == 0 .. MaxOpen - 1

\* 0xffffffff and 0xfffffffe, read as two's complement.
FAT_FREE == -1
FAT_END == -2
Link == Blocks \cup {FAT_FREE, FAT_END}

NoName == ""
\* validate_name refuses the empty name.
ASSUME NameAssumption == NoName \notin Names
Entry == [used : BOOLEAN, name : Names \cup {NoName}, first : Link, size : Nat]
OpenFile == [in_use : BOOLEAN, slot : Slots, offset : Nat, flags : SUBSET Flag]

\* memset(.., 0, ..) of a directory region, of a FAT, of open_files.
ZeroDir == [s \in Slots |-> [used |-> FALSE, name |-> NoName, first |-> 0, size |-> 0]]
ZeroFat == [b \in Blocks |-> 0]
NoOpen == [in_use |-> FALSE, slot |-> 0, offset |-> 0, flags |-> {}]
ZeroOpen == [f \in Fds |-> NoOpen]
ZeroBlock == [i \in 0 .. BlockSize - 1 |-> 0]

FormattedDir == [s \in Slots |-> [ZeroDir[s] EXCEPT !.first = FAT_END]]
FormattedFat == [b \in Blocks |-> FAT_FREE]

NoCall == [fd |-> 0, slot |-> 0, flags |-> {}, at |-> 0, len |-> 0, left |-> 0,
           val |-> 0, cur |-> FAT_END, step |-> 0, next |-> "idle"]

-------------------------------------------------------------------------------
(* Chains.  ChainAt follows k links from a block; it stays on the last      *)
(* value that is not a block.                                               *)

ChainAt(f, first, k) ==
  LET at[i \in 0 .. k] == IF i = 0 THEN first
                          ELSE IF at[i - 1] \in Blocks THEN f[at[i - 1]] ELSE at[i - 1]
  IN  at[k]

\* The sum is a uint32_t.
BlocksFor(size) == ((size + BlockSize - 1) % Word) \div BlockSize

\* Mutant: validate_entry_chain that only looks at first_block.
ChainOkFirstOnly(f, e) == IF BlocksFor(e.size) = 0 THEN e.first = FAT_END ELSE e.first \in Blocks

\* validate_entry_chain: an empty file has no chain; any other chain ends in
\* FAT_END within the data region and is long enough for the size.  (That its
\* first link is not free follows from the rest; proofs need it spelled out.)
ChainOk(f, e) ==
  LET need == BlocksFor(e.size)
  IN  IF need = 0 THEN e.first = FAT_END
      ELSE /\ e.first \in Blocks /\ f[e.first] # FAT_FREE
           /\ ChainAt(f, e.first, NumBlocks) = FAT_END
           /\ ChainAt(f, e.first, need - 1) \in Blocks

\* validate_metadata on a directory and a FAT.
MetadataOk(d, f) ==
  /\ \A s \in Slots : d[s].used => d[s].name # NoName /\ ChainOk(f, d[s])
  /\ \A s, t \in Slots : d[s].used /\ d[t].used /\ d[s].name = d[t].name => s = t

-------------------------------------------------------------------------------
(* Format.  fopen "wb+" and the clearing loop come first, so the superblock *)
(* is invalid until it is rewritten; then the directory, then the FAT.      *)

Begin == /\ pc = "idle" /\ calls < MaxCalls
         /\ calls' = calls + 1
         /\ got' = <<>>

\* A caller formats an image that it does not have mounted.
fs_format_image ==
  /\ Begin /\ ~mounted
  /\ super' = FALSE /\ dirDisk' = ZeroDir /\ fatDisk' = ZeroFat
  /\ data' = [b \in Blocks |-> ZeroBlock]
  /\ pc' = "fmtSuper" /\ r' = NoCall
  /\ UNCHANGED memory

\* One of the three seek_and_write calls of the formatter.
FormatStep ==
  /\ \/ /\ pc = "fmtSuper" /\ pc' = "fmtDir"
        /\ super' = TRUE /\ UNCHANGED <<dirDisk, fatDisk>>
     \/ /\ pc = "fmtDir" /\ pc' = "fmtFat"
        /\ dirDisk' = FormattedDir /\ UNCHANGED <<super, fatDisk>>
     \/ /\ pc = "fmtFat" /\ pc' = "idle"
        /\ fatDisk' = FormattedFat /\ UNCHANGED <<super, dirDisk>>
     \/ /\ Faults /\ pc \in {"fmtSuper", "fmtDir", "fmtFat"} /\ pc' = "idle"
        /\ UNCHANGED <<super, dirDisk, fatDisk>>
  /\ UNCHANGED <<memory, data, r, got, calls>>

-------------------------------------------------------------------------------
(* Mount and unmount *)

\* fs_init, the superblock comparison, the two region reads, validate_metadata.
\* A caller mounts into a handle that is not mounted (the code does not check).
fs_mount ==
  /\ Begin /\ ~mounted
  /\ open' = ZeroOpen
  /\ dir' = (IF super THEN dirDisk ELSE ZeroDir)
  /\ fat' = (IF super THEN fatDisk ELSE ZeroFat)
  /\ mounted' = (super /\ MetadataOk(dirDisk, fatDisk))
  /\ UNCHANGED <<image, pc, r>>

fs_unmount ==
  /\ Begin /\ mounted
  /\ pc' = "syncDir" /\ r' = [NoCall EXCEPT !.next = "unmount"]
  /\ UNCHANGED <<memory, image>>

\* fclose and fs_init, after sync_metadata succeeded.
UnmountEnd ==
  /\ pc = "unmount"
  /\ mounted' = FALSE /\ dir' = ZeroDir /\ fat' = ZeroFat /\ open' = ZeroOpen
  /\ pc' = "idle" /\ r' = NoCall
  /\ UNCHANGED <<image, got, calls>>

-------------------------------------------------------------------------------
(* sync_metadata: the directory region first, the FAT region second.        *)

\* The call returns (with success or with an error).
Return == pc' = "idle" /\ r' = NoCall

\* Mutant: sync_metadata that writes the directory region alone.
SyncDirAlone ==
  /\ pc = "syncDir" /\ dirDisk' = dir /\ pc' = r.next
  /\ r' = IF r.next = "idle" THEN NoCall ELSE r
  /\ UNCHANGED <<memory, super, fatDisk, data, got, calls>>

SyncDir ==
  /\ pc = "syncDir"
  /\ \/ dirDisk' = dir /\ pc' = "syncFat" /\ r' = r
     \/ Faults /\ dirDisk' = dirDisk /\ Return
  /\ UNCHANGED <<memory, super, fatDisk, data, got, calls>>

SyncFat ==
  /\ pc = "syncFat"
  /\ \/ fatDisk' = fat /\ pc' = r.next /\ r' = IF r.next = "idle" THEN NoCall ELSE r
     \/ Faults /\ fatDisk' = fatDisk /\ Return
  /\ UNCHANGED <<memory, super, dirDisk, data, got, calls>>

-------------------------------------------------------------------------------
(* fs_open: find or create, truncate, take a descriptor.  Creation and      *)
(* truncation are on the image before the descriptor table is looked at.    *)

SlotOf(n) == {s \in Slots : dir[s].used /\ dir[s].name = n}
FreeSlots == {s \in Slots : ~dir[s].used}
\* The scans of alloc_dir_entry, alloc_fd and allocate_data_block stop at the
\* lowest index that fits.
IsLowest(x, S) == x \in S /\ \A y \in S : x <= y

AfterFound(fl) == IF "TRUNC" \in fl THEN "trunc" ELSE "takeFd"

OpenFound(n, fl) ==
  /\ Begin /\ mounted /\ SlotOf(n) # {}
  /\ pc' = AfterFound(fl)
  /\ \E s \in Slots : IsLowest(s, SlotOf(n)) /\ r' = [NoCall EXCEPT !.slot = s, !.flags = fl]
  /\ UNCHANGED <<memory, image>>

\* alloc_dir_entry followed by sync_metadata.
OpenCreate(n, fl) ==
  /\ Begin /\ mounted /\ SlotOf(n) = {} /\ "CREATE" \in fl
  /\ \E s \in Slots :
     /\ IsLowest(s, FreeSlots)
     /\ dir' = [dir EXCEPT ![s] = [used |-> TRUE, name |-> n, first |-> FAT_END, size |-> 0]]
     /\ r' = [NoCall EXCEPT !.slot = s, !.flags = fl, !.next = AfterFound(fl)]
  /\ pc' = "syncDir"
  /\ UNCHANGED <<mounted, fat, open, image>>

fs_open(n, fl) == OpenFound(n, fl) \/ OpenCreate(n, fl)

\* Mutant: fs_open that truncates without release_chain.
TruncBeginNoRelease ==
  /\ pc = "trunc" /\ pc' = "release" /\ r' = [r EXCEPT !.cur = FAT_END, !.step = 0]
  /\ UNCHANGED <<memory, image, got, calls>>

TruncBegin ==
  /\ pc = "trunc"
  /\ pc' = "release" /\ r' = [r EXCEPT !.cur = dir[r.slot].first, !.step = 0]
  /\ UNCHANGED <<memory, image, got, calls>>

\* One turn of the loop in release_chain: a link that is no block aborts, and so does
\* a count of blocks (seen, here r.step) beyond the data region.
ReleaseStep ==
  /\ pc = "release" /\ r.cur # FAT_END
  /\ IF r.cur \in Blocks /\ r.step <= NumBlocks
       THEN /\ fat' = [fat EXCEPT ![r.cur] = FAT_FREE]
            /\ r' = [r EXCEPT !.cur = fat[r.cur], !.step = @ + 1] /\ pc' = pc
       ELSE Return /\ fat' = fat
  /\ UNCHANGED <<mounted, dir, open, image, got, calls>>

\* Mutant: fs_open that leaves the truncation to the next sync.
TruncEndNoSync ==
  /\ pc = "release" /\ r.cur = FAT_END
  /\ dir' = [dir EXCEPT ![r.slot].first = FAT_END, ![r.slot].size = 0]
  /\ pc' = "takeFd" /\ r' = r
  /\ UNCHANGED <<mounted, fat, open, image, got, calls>>

\* Mutant: fs_open that forgets to reset first_block.
TruncEndKeepsFirst ==
  /\ pc = "release" /\ r.cur = FAT_END
  /\ dir' = [dir EXCEPT ![r.slot].size = 0]
  /\ pc' = "syncDir" /\ r' = [r EXCEPT !.next = "takeFd"]
  /\ UNCHANGED <<mounted, fat, open, image, got, calls>>

TruncEnd ==
  /\ pc = "release" /\ r.cur = FAT_END
  /\ dir' = [dir EXCEPT ![r.slot].first = FAT_END, ![r.slot].size = 0]
  /\ pc' = "syncDir" /\ r' = [r EXCEPT !.next = "takeFd"]
  /\ UNCHANGED <<mounted, fat, open, image, got, calls>>

FreeFds == {f \in Fds : ~open[f].in_use}

\* Mutant: fs_open that does not test the result of alloc_fd.
TakeFdUnchecked ==
  /\ pc = "takeFd"
  /\ LET fd == IF FreeFds = {} THEN MaxOpen ELSE CHOOSE f \in FreeFds : TRUE
     IN open' = [f \in Fds \cup {fd} |-> IF f = fd THEN [in_use |-> TRUE, slot |-> r.slot,
                                                          offset |-> 0, flags |-> r.flags]
                                                    ELSE open[f]]
  /\ Return
  /\ UNCHANGED <<mounted, dir, fat, image, got, calls>>

TakeFd ==
  /\ pc = "takeFd"
  /\ \/ FreeFds = {} /\ open' = open
     \/ \E f \in Fds :
          /\ IsLowest(f, FreeFds)
          /\ open' = [open EXCEPT ![f] = [in_use |-> TRUE, slot |-> r.slot,
                                         offset |-> 0, flags |-> r.flags]]
  /\ Return
  /\ UNCHANGED <<mounted, dir, fat, image, got, calls>>

fs_close(fd) ==
  /\ Begin /\ mounted /\ open[fd].in_use
  /\ open' = [open EXCEPT ![fd] = NoOpen]
  /\ UNCHANGED <<mounted, dir, fat, image, pc, r>>

fs_seek(fd, off) ==
  /\ Begin /\ mounted /\ open[fd].in_use
  /\ open' = [open EXCEPT ![fd].offset = off]
  /\ UNCHANGED <<mounted, dir, fat, image, pc, r>>

-------------------------------------------------------------------------------
(* fs_read.  It writes nothing, so it is one step: the bytes up to the end  *)
(* of the file, chunk by chunk through resolve_data_block(allocate=false);  *)
(* a chain too short (FS_ERR_STATE) or a failing read of a block (FS_ERR_IO) *)
(* stops it after the chunks before.                                        *)

ByteAt(s, i) == data[ChainAt(fat, dir[s].first, i \div BlockSize)][i % BlockSize]

Resolves(s, i) ==
  \A k \in 0 .. i \div BlockSize : ChainAt(fat, dir[s].first, k) \in Blocks

fs_read(fd, len) ==
  /\ pc = "idle" /\ calls < MaxCalls /\ calls' = calls + 1
  /\ mounted /\ open[fd].in_use /\ "READ" \in open[fd].flags
  /\ LET s == open[fd].slot
         from == open[fd].offset
         end == IF from + len < dir[s].size THEN from + len ELSE dir[s].size
         upto == IF from < end THEN end ELSE from
     IN \E stop \in from .. upto :
          /\ \A i \in from .. stop - 1 : Resolves(s, i)
          /\ \/ stop = upto \/ ~Resolves(s, stop)
             \/ Faults /\ (stop = from \/ stop % BlockSize = 0)
          /\ got' = IF stop < upto THEN <<>>
                    ELSE [i \in 1 .. upto - from |-> ByteAt(s, from + i - 1)]
          /\ open' = [open EXCEPT ![fd].offset = stop]
  /\ UNCHANGED <<mounted, dir, fat, image, pc, r>>

-------------------------------------------------------------------------------
(* fs_write.  Each chunk resolves its block (allocating on the way), then   *)
(* rewrites it; size and metadata follow after the last chunk only.         *)

fs_write(fd, len, v) ==
  /\ Begin /\ mounted /\ open[fd].in_use /\ "WRITE" \in open[fd].flags
  /\ pc' = IF len = 0 THEN "size" ELSE "resolve"
  /\ r' = [NoCall EXCEPT !.fd = fd, !.slot = open[fd].slot, !.at = open[fd].offset,
                         !.len = len, !.left = len, !.val = v]
  /\ UNCHANGED <<memory, image>>

\* Mutant: allocate_data_block that takes the end marker for a free entry.
FreeOrLastBlocks == {b \in Blocks : fat[b] \in {FAT_FREE, FAT_END}}

FreeBlocks == {b \in Blocks : fat[b] = FAT_FREE}

Cleared(b) == [data EXCEPT ![b] = ZeroBlock]

\* allocate_data_block: the entry is taken first, then the block is cleared on
\* the image; if that fails the entry stays taken and nobody refers to it.
AllocateWith(link(_, _)) ==
  \/ \E b \in Blocks :
       LET taken == [fat EXCEPT ![b] = FAT_END]
       IN /\ IsLowest(b, FreeBlocks)
          /\ \/ data' = Cleared(b) /\ link(b, taken)
             \/ Faults /\ fat' = taken /\ Return /\ UNCHANGED <<dir, data>>
  \/ FreeBlocks = {} /\ Return /\ UNCHANGED <<dir, fat, data>>

\* resolve_data_block, up to its loop.
AsFirst(b, taken) ==
  /\ fat' = taken /\ dir' = [dir EXCEPT ![r.slot].first = b]
  /\ r' = [r EXCEPT !.cur = b, !.step = 0] /\ pc' = "walk"

ResolveFirst ==
  /\ pc = "resolve"
  /\ IF dir[r.slot].first = FAT_END THEN AllocateWith(AsFirst)
     ELSE /\ IF dir[r.slot].first \in Blocks
               THEN /\ r' = [r EXCEPT !.cur = dir[r.slot].first, !.step = 0]
                    /\ pc' = "walk"
               ELSE Return
          /\ UNCHANGED <<dir, fat, data>>
  /\ UNCHANGED <<mounted, open, super, dirDisk, fatDisk, got, calls>>

\* One turn of its loop: follow the link, or append a block to the chain.
AsNext(b, taken) ==
  /\ fat' = [taken EXCEPT ![r.cur] = b] /\ dir' = dir
  /\ r' = [r EXCEPT !.cur = b, !.step = @ + 1] /\ pc' = pc

\* Mutant: fs_write that rounds the block number up.
LogicalBlockRoundedUp == (open[r.fd].offset + BlockSize - 1) \div BlockSize

LogicalBlock == open[r.fd].offset \div BlockSize

ResolveNext ==
  /\ pc = "walk" /\ r.step < LogicalBlock
  /\ IF fat[r.cur] = FAT_END THEN AllocateWith(AsNext)
     ELSE /\ IF fat[r.cur] \in Blocks
               THEN r' = [r EXCEPT !.cur = fat[r.cur], !.step = @ + 1] /\ pc' = pc
               ELSE Return
          /\ UNCHANGED <<dir, fat, data>>
  /\ UNCHANGED <<mounted, open, super, dirDisk, fatDisk, got, calls>>

\* Read, patch and rewrite the block; advance the offset.
WriteChunk ==
  /\ pc = "walk" /\ r.step >= LogicalBlock
  /\ LET intra == open[r.fd].offset % BlockSize
         room == BlockSize - intra
         chunk == IF room > r.left THEN r.left ELSE room
     IN \/ /\ data' = [data EXCEPT ![r.cur] =
                         [i \in 0 .. BlockSize - 1 |->
                            IF i \in intra .. intra + chunk - 1 THEN r.val ELSE @[i]]]
           /\ open' = [open EXCEPT ![r.fd].offset = (@ + chunk) % Word]
           /\ r' = [r EXCEPT !.left = @ - chunk]
           /\ pc' = IF r.left = chunk THEN "size" ELSE "resolve"
        \/ Faults /\ Return /\ UNCHANGED <<data, open>>
  /\ UNCHANGED <<mounted, dir, fat, super, dirDisk, fatDisk, got, calls>>

\* Mutant: fs_write that does not sync the metadata.
WriteEndNoSync ==
  /\ pc = "size"
  /\ dir' = [dir EXCEPT ![r.slot].size =
               IF open[r.fd].offset > @ THEN open[r.fd].offset ELSE @]
  /\ Return
  /\ UNCHANGED <<mounted, fat, open, image, got, calls>>

WriteEnd ==
  /\ pc = "size"
  /\ dir' = [dir EXCEPT ![r.slot].size =
               IF open[r.fd].offset > @ THEN open[r.fd].offset ELSE @]
  /\ pc' = "syncDir" /\ r' = r
  /\ UNCHANGED <<mounted, fat, open, image, got, calls>>

-------------------------------------------------------------------------------
\* The process dies: the handle and the call are gone, the image stays.
Crash ==
  /\ Crashes /\ (mounted \/ pc # "idle")
  /\ mounted' = FALSE /\ dir' = ZeroDir /\ fat' = ZeroFat /\ open' = ZeroOpen
  /\ pc' = "idle" /\ r' = NoCall /\ got' = <<>>
  /\ UNCHANGED <<image, calls>>

Init ==
  /\ mounted = FALSE /\ dir = ZeroDir /\ fat = ZeroFat /\ open = ZeroOpen
  /\ super = TRUE /\ dirDisk = FormattedDir /\ fatDisk = FormattedFat
  /\ data = [b \in Blocks |-> ZeroBlock]
  /\ pc = "idle" /\ r = NoCall /\ got = <<>> /\ calls = 0

Call ==
  \/ fs_format_image \/ fs_mount \/ fs_unmount
  \/ \E n \in Names, fl \in FlagChoices : fs_open(n, fl)
  \/ \E fd \in Fds :
       \/ fs_close(fd)
       \/ \E off \in Offsets : fs_seek(fd, off)
       \/ \E len \in Lens : fs_read(fd, len)
       \/ \E len \in Lens, v \in Values : fs_write(fd, len, v)

Step ==
  \/ FormatStep \/ SyncDir \/ SyncFat \/ UnmountEnd
  \/ TruncBegin \/ ReleaseStep \/ TruncEnd \/ TakeFd
  \/ ResolveFirst \/ ResolveNext \/ WriteChunk \/ WriteEnd

Next == Call \/ Step \/ Crash

Spec == Init /\ [][Next]_vars
-------------------------------------------------------------------------------
(* Properties *)

Pcs == {"idle", "fmtSuper", "fmtDir", "fmtFat", "syncDir", "syncFat", "unmount",
        "trunc", "release", "takeFd", "resolve", "walk", "size"}

CallRec == [fd : Fds, slot : Slots, flags : SUBSET Flag, at : Nat, len : Nat, left : Nat,
          val : Values, cur : Link, step : Nat,
          next : {"idle", "unmount", "trunc", "takeFd"}]

\* The handle, the image and the locals of a call hold values of their C types.
TypeOK ==
  /\ mounted \in BOOLEAN /\ super \in BOOLEAN
  /\ dir \in [Slots -> Entry] /\ dirDisk \in [Slots -> Entry]
  /\ fat \in [Blocks -> Link] /\ fatDisk \in [Blocks -> Link]
  /\ open \in [Fds -> OpenFile]
  /\ data \in [Blocks -> [0 .. BlockSize - 1 -> Values]]
  /\ pc \in Pcs /\ r \in CallRec
  /\ got \in Seq(Values) /\ calls \in Nat

\* Where the chain of slot s starts: while release_chain runs on it, at the
\* block the loop has reached.
Root(s) == IF ~dir[s].used THEN FAT_END
           ELSE IF pc = "release" /\ r.slot = s THEN r.cur
           ELSE dir[s].first

\* Directory roots and FAT links together refer to every block at most once,
\* and no link leads to a free block.
Unique(root, f) ==
  /\ \A s \in Slots : root[s] # FAT_FREE
  /\ \A s, t \in Slots : root[s] \in Blocks /\ root[s] = root[t] => s = t
  /\ \A b \in Blocks : f[b] \in Blocks => f[f[b]] # FAT_FREE
  /\ \A b, c \in Blocks : f[b] \in Blocks /\ f[b] = f[c] => b = c
  /\ \A s \in Slots, b \in Blocks : f[b] \in Blocks => root[s] # f[b]

\* No root is a free block either.
Linked(root, f) ==
  /\ Unique(root, f)
  /\ \A s \in Slots : root[s] \in Blocks => f[root[s]] # FAT_FREE

\* What a crash inside fs_format_image leaves: a FAT without a free entry and
\* no file that owns a block.  Such an image mounts, and stays full.
Blank(root, f) ==
  /\ \A s \in Slots : root[s] = FAT_END
  /\ \A b \in Blocks : f[b] # FAT_FREE

Roots == [s \in Slots |-> Root(s)]

\* While the image is mounted, no block has two referrers and no referrer names
\* a free block, at every step of fs_open and fs_write (resolve_data_block,
\* release_chain) and after every mount of whatever a crash left behind.  The one
\* exception is the image of a crash inside fs_format_image: its FAT is zeroed, so
\* all its links name block 0, but no file reaches a block and none is ever free.
OneReferrer == mounted => Linked(Roots, fat) \/ Blank(Roots, fat)

\* OneReferrer made inductive.  The image may combine a new directory with the
\* FAT of the sync before, so roots and links are also unique across the two
\* copies, and what is free in memory is free on the image, except from the first
\* block fs_open releases until the FAT is synced.
Bare(d) == [s \in Slots |-> IF d[s].used THEN d[s].first ELSE FAT_END]

Releasing == \/ pc = "release"
             \/ pc \in {"syncDir", "syncFat"} /\ r.next = "takeFd"

Sound ==
  /\ Unique(Bare(dirDisk), fatDisk)
  /\ mounted =>
       /\ Linked(Roots, fat)
       /\ Unique(Bare(dir), fatDisk)
       /\ ~Releasing => \A b \in Blocks : fat[b] = FAT_FREE => fatDisk[b] = FAT_FREE

Unwritten ==
  /\ Blank(Bare(dirDisk), fatDisk)
  /\ mounted => Blank(Roots, fat) /\ Blank(Bare(dir), fatDisk)

\* Where the locals of a call point.
Locals ==
  /\ pc \in {"syncDir", "syncFat", "unmount", "trunc", "release", "takeFd",
             "resolve", "walk", "size"} => mounted
  /\ pc \in {"fmtSuper", "fmtDir", "fmtFat"} => ~mounted /\ Unwritten
  /\ pc \in {"trunc", "release", "takeFd", "resolve", "walk", "size"} => dir[r.slot].used
  /\ pc \in {"syncDir", "syncFat"} /\ r.next \in {"trunc", "takeFd"} => dir[r.slot].used
  /\ pc = "syncFat" => dirDisk = dir
  /\ pc = "walk" => r.cur \in Blocks
  /\ mounted => \A f \in Fds : open[f].in_use => dir[open[f].slot].used

\* release_chain has counted no more blocks than are free by now, so that its
\* limit never stops it half way.
Seen == pc = "release" => r.step <= Cardinality(FreeBlocks)

IInv == TypeOK /\ Locals /\ Seen /\ (Sound \/ Unwritten)

ChainOf(s) == {ChainAt(fat, Root(s), k) : k \in 0 .. NumBlocks} \cap Blocks

\* No two files share a data block, although validate_metadata never looks for
\* shared blocks when it accepts an image.
FilesDisjoint ==
  mounted => \A s, t \in Slots : s # t => ChainOf(s) \cap ChainOf(t) = {}

\* allocate_data_block never hands out (and clears on the image) a block that the
\* FAT on the image still counts as taken: a crash right after it would lose data
\* of the file that owns the block on the image.
FreeIsFreeOnImage ==
  mounted /\ pc \in {"idle", "resolve", "walk"} =>
    \A b \in Blocks : fat[b] = FAT_FREE => fatDisk[b] = FAT_FREE

\* Slot s has the same name, size and blocks on the image as in memory.
SameOnImage(s) ==
  /\ dirDisk[s].used /\ dirDisk[s].name = dir[s].name /\ dirDisk[s].size = dir[s].size
  /\ \A k \in 0 .. BlocksFor(dir[s].size) - 1 :
       ChainAt(fatDisk, dirDisk[s].first, k) = ChainAt(fat, dir[s].first, k)

\* What calls have returned is durable: every file but the one that the running
\* call works on is on the image as it is in memory, so a crash cannot lose it.
Durable ==
  mounted => \A s \in Slots :
    dir[s].used /\ (pc = "idle" \/ s # r.slot) => SameOnImage(s)

\* Between calls the mounted metadata would pass validate_metadata, so that fs_read
\* never meets a chain too short for the size.
MountedSound == mounted /\ pc = "idle" => MetadataOk(dir, fat)

\* Every taken FAT entry belongs to a file: no call leaks a block.
NoLeak ==
  mounted /\ pc = "idle" =>
    \A b \in Blocks : fat[b] # FAT_FREE => \E s \in Slots : b \in ChainOf(s)

\* An image that fs_unmount closed with FS_OK mounts again (fs/fs_rw_test.c
\* remounts it and expects FS_OK).
RemountAfterUnmount ==
  [][pc = "unmount" /\ pc' = "idle" => MetadataOk(dirDisk', fatDisk')]_vars

\* The image would mount if the process died now, at every step of every call but
\* one: only between the two region writes of sync_metadata, the directory written
\* and the FAT not, may fs_mount refuse what a crash leaves.
MountableOutsideSync ==
  mounted => super /\ (pc # "syncFat" => MetadataOk(dirDisk, fatDisk))
===============================================================================
