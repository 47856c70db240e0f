------------------------------ MODULE OTFSProofs ------------------------------
(***************************************************************************)
(* Proofs about OTFS, for every number of blocks, files and descriptors,   *)
(* every set of names and every sequence of calls.                         *)
(***************************************************************************)
EXTENDS OTFSRefinement, FiniteSetTheorems, WellFoundedInduction, TLAPS

USE OTFSAssumption

-------------------------------------------------------------------------------
(* Type correctness *)

\* Zeroed and formatted regions have their types.
LEMMA RegionTypes ==
  /\ ZeroDir \in [Slots -> Entry] /\ FormattedDir \in [Slots -> Entry]
  /\ ZeroFat \in [Blocks -> Link] /\ FormattedFat \in [Blocks -> Link]
  /\ ZeroOpen \in [Fds -> OpenFile] /\ NoOpen \in OpenFile
  /\ ZeroBlock \in [0 .. BlockSize - 1 -> Values]
  /\ [b \in Blocks |-> ZeroBlock] \in [Blocks -> [0 .. BlockSize - 1 -> Values]]
  /\ NoCall \in CallRec /\ <<>> \in Seq(Values)
<1>1. 0 \in Blocks /\ 0 \in Slots /\ 0 \in Fds
  BY DEF Blocks, Slots, Fds
<1>2. ZeroDir \in [Slots -> Entry] /\ FormattedDir \in [Slots -> Entry]
  BY <1>1 DEF ZeroDir, FormattedDir, Entry, Link, FAT_END
<1>3. ZeroFat \in [Blocks -> Link] /\ FormattedFat \in [Blocks -> Link]
  BY <1>1 DEF ZeroFat, FormattedFat, Link
<1>4. ZeroOpen \in [Fds -> OpenFile] /\ NoOpen \in OpenFile
  BY <1>1 DEF ZeroOpen, NoOpen, OpenFile
<1>5. ZeroBlock \in [0 .. BlockSize - 1 -> Values]
  BY DEF ZeroBlock
<1>6. NoCall \in CallRec
  BY <1>1 DEF NoCall, CallRec, Link
<1>7. [b \in Blocks |-> ZeroBlock] \in [Blocks -> [0 .. BlockSize - 1 -> Values]]
  BY <1>5
<1>8. <<>> \in Seq(Values)
  OBVIOUS
<1> QED BY <1>2, <1>3, <1>4, <1>5, <1>6, <1>7, <1>8

\* Moving one offset keeps the descriptor table well formed.
LEMMA OffsetType ==
  ASSUME TypeOK, NEW fd \in Fds, NEW off \in Nat
  PROVE  [open EXCEPT ![fd].offset = off] \in [Fds -> OpenFile]
<1>1. open[fd] \in OpenFile
  BY DEF TypeOK
<1>2. [open[fd] EXCEPT !.offset = off] \in OpenFile
  BY <1>1 DEF OpenFile
<1> QED BY <1>2 DEF TypeOK

\* What fs_read delivers is a sequence of bytes.
LEMMA ReadType ==
  ASSUME TypeOK, NEW fd \in Fds, NEW len \in Lens, fs_read(fd, len)
  PROVE  got' \in Seq(Values) /\ open' \in [Fds -> OpenFile]
<1> DEFINE s == open[fd].slot
           from == open[fd].offset
           end == IF from + len < dir[s].size THEN from + len ELSE dir[s].size
           upto == IF from < end THEN end ELSE from
<1>1. s \in Slots /\ from \in Nat /\ open[fd] \in OpenFile
  BY DEF TypeOK, OpenFile
<1>2. dir[s].size \in Nat
  BY <1>1 DEF TypeOK, Entry
<1>3. len \in Nat
  OBVIOUS
<1>4. end \in Nat /\ upto \in Nat /\ from <= upto
  BY <1>1, <1>2, <1>3, SMTT(30)
<1> HIDE DEF end, upto
<1>5. PICK stop \in from .. upto :
        /\ \A i \in from .. stop - 1 : Resolves(s, i)
        /\ got' = IF stop < upto THEN <<>>
                  ELSE [i \in 1 .. upto - from |-> ByteAt(s, from + i - 1)]
        /\ open' = [open EXCEPT ![fd].offset = stop]
  BY DEF fs_read, end, upto
<1>6. stop \in Nat
  BY <1>1, <1>4
<1>7. open' \in [Fds -> OpenFile]
  BY <1>1, <1>5, <1>6, OffsetType
<1>8. CASE stop < upto
  BY <1>5, <1>8, <1>7
<1>9. CASE stop = upto
  <2>1. ASSUME NEW j \in Nat, Resolves(s, j)
        PROVE  ByteAt(s, j) \in Values
    <3>1. j \div BlockSize \in Nat /\ j % BlockSize \in 0 .. BlockSize - 1
      OBVIOUS
    <3>2. ChainAt(fat, dir[s].first, j \div BlockSize) \in Blocks
      BY <2>1, <3>1 DEF Resolves
    <3> QED BY <3>1, <3>2 DEF ByteAt, TypeOK
  <2>2. \A i \in 1 .. upto - from : ByteAt(s, from + i - 1) \in Values
    <3> TAKE i \in 1 .. upto - from
    <3>1. from + i - 1 \in from .. stop - 1 /\ from + i - 1 \in Nat
      BY <1>1, <1>4, <1>9
    <3> QED BY <3>1, <1>5, <2>1
  <2>3. got' = [i \in 1 .. upto - from |-> ByteAt(s, from + i - 1)]
    BY <1>5, <1>9, <1>4
  <2>4. upto - from \in Nat
    BY <1>1, <1>4
  <2>5. got' \in [1 .. upto - from -> Values]
    BY <2>2, <2>3
  <2>6. got' \in Seq(Values)
    BY <2>4, <2>5
  <2> QED BY <2>6, <1>7
<1> QED BY <1>4, <1>5, <1>6, <1>8, <1>9

\* Every step keeps the handle, the image and the locals well typed.
LEMMA TypeStep == TypeOK /\ [Next]_vars => TypeOK'
<1> SUFFICES ASSUME TypeOK, [Next]_vars PROVE TypeOK'
  OBVIOUS
<1> USE RegionTypes
<1>t. /\ r \in CallRec /\ dir \in [Slots -> Entry] /\ fat \in [Blocks -> Link]
      /\ r.slot \in Slots /\ r.fd \in Fds
  BY DEF TypeOK, CallRec
<1>1. CASE fs_format_image
  <2>0. super' = FALSE /\ pc' = "fmtSuper" /\ calls' = calls + 1
    BY <1>1, Zenon DEF fs_format_image, Begin
  <2>a. super' \in BOOLEAN
    BY <2>0, Zenon
  <2>1. pc' \in Pcs /\ calls' \in Nat
    BY <2>0 DEF TypeOK, Pcs
  <2>2. /\ dirDisk' \in [Slots -> Entry] /\ fatDisk' \in [Blocks -> Link]
        /\ data' \in [Blocks -> [0 .. BlockSize - 1 -> Values]]
        /\ r' \in CallRec /\ got' \in Seq(Values)
    BY <1>1, Zenon DEF fs_format_image, Begin
  <2> QED BY <1>1, <2>a, <2>1, <2>2 DEF fs_format_image, TypeOK, memory
<1>2. CASE fs_mount
  BY <1>2 DEF fs_mount, Begin, TypeOK, image
<1>3. CASE fs_unmount
  <2>1. r' \in CallRec
    BY <1>3 DEF fs_unmount, CallRec
  <2> QED BY <1>3, <2>1 DEF fs_unmount, Begin, TypeOK, image, memory, Pcs
<1>4. ASSUME NEW n \in Names, NEW fl \in FlagChoices, OpenFound(n, fl)
      PROVE  TypeOK'
  <2>1. PICK s \in Slots : r' = [NoCall EXCEPT !.slot = s, !.flags = fl]
    BY <1>4 DEF OpenFound
  <2>2. r' \in CallRec
    BY <2>1 DEF CallRec
  <2>3. pc' \in Pcs
    BY <1>4 DEF OpenFound, AfterFound, Pcs
  <2> QED BY <1>4, <2>2, <2>3 DEF OpenFound, Begin, TypeOK, image, memory
<1>5. ASSUME NEW n \in Names, NEW fl \in FlagChoices, OpenCreate(n, fl)
      PROVE  TypeOK'
  <2>1. PICK s \in Slots :
          /\ dir' = [dir EXCEPT ![s] = [used |-> TRUE, name |-> n, first |-> FAT_END, size |-> 0]]
          /\ r' = [NoCall EXCEPT !.slot = s, !.flags = fl, !.next = AfterFound(fl)]
    BY <1>5 DEF OpenCreate
  <2>2. r' \in CallRec
    BY <2>1 DEF CallRec, AfterFound
  <2>3. dir' \in [Slots -> Entry]
    BY <2>1, <1>t DEF Entry, Link
  <2> QED BY <1>5, <2>2, <2>3 DEF OpenCreate, Begin, TypeOK, image, Pcs
<1>6. ASSUME NEW fd \in Fds, fs_close(fd) PROVE TypeOK'
  BY <1>6 DEF fs_close, Begin, TypeOK, image
<1>7. ASSUME NEW fd \in Fds, NEW off \in Offsets, fs_seek(fd, off) PROVE TypeOK'
  <2>1. off \in Nat
    OBVIOUS
  <2>2. open' \in [Fds -> OpenFile]
    BY <1>7, <2>1, OffsetType DEF fs_seek
  <2> QED BY <1>7, <2>2 DEF fs_seek, Begin, TypeOK, image
<1>8. ASSUME NEW fd \in Fds, NEW len \in Lens, fs_read(fd, len) PROVE TypeOK'
  <2>1. got' \in Seq(Values) /\ open' \in [Fds -> OpenFile]
    BY <1>8, ReadType
  <2>2. calls' \in Nat /\ UNCHANGED <<mounted, dir, fat, image, pc, r>>
    BY <1>8, SMTT(30) DEF fs_read, TypeOK
  <2> QED BY <2>1, <2>2 DEF TypeOK, image
<1>9. ASSUME NEW fd \in Fds, NEW len \in Lens, NEW v \in Values, fs_write(fd, len, v)
      PROVE  TypeOK'
  <2>1. open[fd].slot \in Slots /\ open[fd].offset \in Nat /\ len \in Nat
    BY DEF TypeOK, OpenFile
  <2>2. r' \in CallRec
    BY <1>9, <2>1 DEF fs_write, CallRec
  <2> QED BY <1>9, <2>2 DEF fs_write, Begin, TypeOK, image, memory, Pcs
<1>10. CASE FormatStep
  BY <1>10 DEF FormatStep, TypeOK, memory, Pcs
<1>11. CASE SyncDir
  BY <1>11 DEF SyncDir, Return, TypeOK, memory, Pcs
<1>12. CASE SyncFat
  <2>1. pc' \in Pcs /\ r' \in CallRec
    BY <1>12, <1>t DEF SyncFat, Return, CallRec, Pcs
  <2> QED BY <1>12, <2>1 DEF SyncFat, TypeOK, memory
<1>13. CASE UnmountEnd
  BY <1>13 DEF UnmountEnd, TypeOK, image, Pcs
<1>14. CASE TruncBegin
  <2>1. dir[r.slot].first \in Link
    BY <1>t DEF Entry
  <2>2. r' \in CallRec
    BY <1>14, <1>t, <2>1 DEF TruncBegin, CallRec
  <2> QED BY <1>14, <2>2 DEF TruncBegin, TypeOK, memory, image, Pcs
<1>15. CASE ReleaseStep
  <2>1. fat' \in [Blocks -> Link]
    BY <1>15, <1>t DEF ReleaseStep, Link
  <2>2. r' \in CallRec
    <3>1. r.step + 1 \in Nat
      BY <1>t DEF CallRec
    <3>2. CASE r.cur \in Blocks /\ r.step <= NumBlocks
      <4>1. r' = [r EXCEPT !.cur = fat[r.cur], !.step = r.step + 1] /\ fat[r.cur] \in Link
        BY <1>15, <1>t, <3>2 DEF ReleaseStep
      <4> QED BY <1>t, <3>1, <4>1 DEF CallRec
    <3>3. CASE ~(r.cur \in Blocks /\ r.step <= NumBlocks)
      BY <1>15, <3>3 DEF ReleaseStep, Return
    <3> QED BY <3>2, <3>3
  <2> QED BY <1>15, <2>1, <2>2 DEF ReleaseStep, Return, TypeOK, image, Pcs
<1>16. CASE TruncEnd
  <2>0. dir[r.slot] \in Entry /\ FAT_END \in Link
    BY <1>t DEF Link
  <2>1. [dir[r.slot] EXCEPT !.first = FAT_END, !.size = 0] \in Entry
    BY <2>0 DEF Entry
  <2>2. dir' \in [Slots -> Entry]
    BY <1>16, <1>t, <2>1 DEF TruncEnd
  <2>3. r' \in CallRec
    BY <1>16, <1>t DEF TruncEnd, CallRec
  <2> QED BY <1>16, <2>2, <2>3 DEF TruncEnd, TypeOK, image, Pcs
<1>17. CASE TakeFd
  <2>1. r.slot \in Slots /\ r.flags \in SUBSET Flag
    BY <1>t DEF CallRec
  <2>2. [in_use |-> TRUE, slot |-> r.slot, offset |-> 0, flags |-> r.flags] \in OpenFile
    BY <2>1 DEF OpenFile
  <2>3. open' \in [Fds -> OpenFile]
    BY <1>17, <2>2 DEF TakeFd, TypeOK
  <2> QED BY <1>17, <2>3 DEF TakeFd, Return, TypeOK, image, Pcs
<1>18. CASE ResolveFirst
  <2>1. ASSUME NEW b \in Blocks, data' = [data EXCEPT ![b] = ZeroBlock],
               AsFirst(b, [fat EXCEPT ![b] = FAT_END])
        PROVE  TypeOK'
    <3>1. fat' \in [Blocks -> Link]
      BY <2>1, <1>t DEF AsFirst, Link
    <3>0. dir[r.slot] \in Entry /\ b \in Link
      BY <1>t DEF Link
    <3>2. [dir[r.slot] EXCEPT !.first = b] \in Entry
      BY <3>0 DEF Entry
    <3>3. dir' \in [Slots -> Entry]
      BY <2>1, <3>2, <1>t DEF AsFirst
    <3>4. r' \in CallRec
      BY <2>1, <1>t DEF AsFirst, CallRec, Link
    <3> QED BY <1>18, <2>1, <3>1, <3>3, <3>4 DEF ResolveFirst, AsFirst, TypeOK, Pcs
  <2>2. ASSUME NEW b \in Blocks, fat' = [fat EXCEPT ![b] = FAT_END], Return,
               UNCHANGED <<dir, data>>
        PROVE  TypeOK'
    <3>1. fat' \in [Blocks -> Link]
      BY <2>2, <1>t DEF Link
    <3> QED BY <1>18, <2>2, <3>1 DEF ResolveFirst, Return, TypeOK, Pcs
  <2>3. ASSUME Return, UNCHANGED <<dir, fat, data>> PROVE TypeOK'
    BY <1>18, <2>3 DEF ResolveFirst, Return, TypeOK, Pcs
  <2>4. ASSUME r' = [r EXCEPT !.cur = dir[r.slot].first, !.step = 0], pc' = "walk",
               dir[r.slot].first \in Blocks, UNCHANGED <<dir, fat, data>>
        PROVE  TypeOK'
    <3>1. r' \in CallRec
      BY <2>4, <1>t DEF CallRec, Link
    <3> QED BY <1>18, <2>4, <3>1 DEF ResolveFirst, TypeOK, Pcs
  <2> QED BY <1>18, <2>1, <2>2, <2>3, <2>4 DEF ResolveFirst, AllocateWith, Cleared
<1>19. CASE ResolveNext
  <2>s. r.step + 1 \in Nat
    BY <1>t DEF CallRec
  <2>1. ASSUME NEW b \in Blocks, data' = [data EXCEPT ![b] = ZeroBlock],
               AsNext(b, [fat EXCEPT ![b] = FAT_END])
        PROVE  TypeOK'
    <3>1. fat' \in [Blocks -> Link]
      BY <2>1, <1>t DEF AsNext, Link
    <3>2. r' \in CallRec
      BY <2>1, <1>t, <2>s DEF AsNext, CallRec, Link
    <3> QED BY <1>19, <2>1, <3>1, <3>2 DEF ResolveNext, AsNext, TypeOK, Pcs
  <2>2. ASSUME NEW b \in Blocks, fat' = [fat EXCEPT ![b] = FAT_END], Return,
               UNCHANGED <<dir, data>>
        PROVE  TypeOK'
    <3>1. fat' \in [Blocks -> Link]
      BY <2>2, <1>t DEF Link
    <3> QED BY <1>19, <2>2, <3>1 DEF ResolveNext, Return, TypeOK, Pcs
  <2>3. ASSUME Return, UNCHANGED <<dir, fat, data>> PROVE TypeOK'
    BY <1>19, <2>3 DEF ResolveNext, Return, TypeOK, Pcs
  <2>4. ASSUME r' = [r EXCEPT !.cur = fat[r.cur], !.step = @ + 1], pc' = pc,
               fat[r.cur] \in Blocks, UNCHANGED <<dir, fat, data>>
        PROVE  TypeOK'
    <3>1. r' \in CallRec
      BY <2>4, <1>t, <2>s DEF CallRec, Link
    <3> QED BY <1>19, <2>4, <3>1 DEF ResolveNext, TypeOK, Pcs
  <2> QED BY <1>19, <2>1, <2>2, <2>3, <2>4 DEF ResolveNext, AllocateWith, Cleared
<1>20. CASE WriteChunk
  <2> DEFINE intra == open[r.fd].offset % BlockSize
             room == BlockSize - intra
             chunk == IF room > r.left THEN r.left ELSE room
  <2>1. open[r.fd].offset \in Nat /\ r.left \in Nat /\ r.val \in Values
    BY <1>t DEF TypeOK, OpenFile, CallRec
  <2>2. intra \in 0 .. BlockSize - 1
    BY <2>1
  <2>3. chunk \in Nat /\ r.left - chunk \in Nat
    BY <2>1, <2>2
  <2>4. (open[r.fd].offset + chunk) % Word \in Nat
    BY <2>1, <2>3, SMTT(30)
  <2> HIDE DEF intra, chunk
  <2>5. CASE /\ data' = [data EXCEPT ![r.cur] =
                    [i \in 0 .. BlockSize - 1 |->
                       IF i \in intra .. intra + chunk - 1 THEN r.val ELSE @[i]]]
             /\ open' = [open EXCEPT ![r.fd].offset = (open[r.fd].offset + chunk) % Word]
             /\ r' = [r EXCEPT !.left = @ - chunk]
             /\ pc' \in {"size", "resolve"}
    <3>1. data' \in [Blocks -> [0 .. BlockSize - 1 -> Values]]
      <4>1. ASSUME r.cur \in Blocks
            PROVE  [i \in 0 .. BlockSize - 1 |->
                      IF i \in intra .. intra + chunk - 1 THEN r.val ELSE data[r.cur][i]]
                   \in [0 .. BlockSize - 1 -> Values]
        BY <4>1, <2>1 DEF TypeOK
      <4> QED BY <4>1, <2>5 DEF TypeOK
    <3>2. open' \in [Fds -> OpenFile]
      BY <2>4, <2>5, <1>t, OffsetType
    <3>3. r' \in CallRec
      BY <2>3, <2>5, <1>t DEF CallRec
    <3> QED BY <1>20, <2>5, <3>1, <3>2, <3>3 DEF WriteChunk, TypeOK, Pcs
  <2>6. CASE Return /\ UNCHANGED <<data, open>>
    BY <1>20, <2>6 DEF WriteChunk, Return, TypeOK, Pcs
  <2> QED BY <1>20, <2>5, <2>6 DEF WriteChunk, intra, chunk
<1>21. CASE WriteEnd
  <2>1. open[r.fd].offset \in Nat
    BY <1>t DEF TypeOK, OpenFile
  <2>0. dir[r.slot] \in Entry
    BY <1>t
  <2>2. \A z \in Nat : [dir[r.slot] EXCEPT !.size = z] \in Entry
    BY <2>0 DEF Entry
  <2>3. dir' = [dir EXCEPT ![r.slot] = [dir[r.slot] EXCEPT !.size =
                  IF open[r.fd].offset > dir[r.slot].size
                    THEN open[r.fd].offset ELSE dir[r.slot].size]]
    BY <1>21 DEF WriteEnd
  <2>4. dir[r.slot].size \in Nat
    BY <1>t DEF Entry
  <2>5. dir' \in [Slots -> Entry]
    BY <2>1, <2>2, <2>3, <2>4, <1>t
  <2> QED BY <1>21, <2>5 DEF WriteEnd, TypeOK, image, Pcs
<1>22. CASE Crash
  <2>1. /\ dir' \in [Slots -> Entry] /\ fat' \in [Blocks -> Link]
        /\ open' \in [Fds -> OpenFile] /\ r' \in CallRec /\ got' \in Seq(Values)
    BY <1>22, Zenon DEF Crash
  <2> QED BY <1>22, <2>1 DEF Crash, TypeOK, image, Pcs
<1>23. CASE UNCHANGED vars
  BY <1>23 DEF vars, TypeOK
<1> QED
  BY <1>1, <1>2, <1>3, <1>4, <1>5, <1>6, <1>7, <1>8, <1>9, <1>10, <1>11, <1>12, <1>13,
     <1>14, <1>15, <1>16, <1>17, <1>18, <1>19, <1>20, <1>21, <1>22, <1>23
     DEF Next, Call, Step, fs_open

\* A formatted image and a cleared handle are well typed.
LEMMA InitTypes == Init => TypeOK
<1> SUFFICES ASSUME Init PROVE TypeOK
  OBVIOUS
<1>1. /\ dir \in [Slots -> Entry] /\ fat \in [Blocks -> Link] /\ open \in [Fds -> OpenFile]
      /\ dirDisk \in [Slots -> Entry] /\ fatDisk \in [Blocks -> Link]
      /\ data \in [Blocks -> [0 .. BlockSize - 1 -> Values]]
      /\ r \in CallRec /\ got \in Seq(Values)
  BY RegionTypes, Zenon DEF Init
<1> QED BY <1>1 DEF Init, TypeOK, Pcs

\* The handle and the image always hold values of their C types, whatever calls,
\* write faults and crashes come in whatever order.
THEOREM TypeCorrect == Spec => []TypeOK
BY InitTypes, TypeStep, PTL DEF Spec

-------------------------------------------------------------------------------
(* What the three changes to a chain do to Linked *)

\* allocate_data_block for an empty file: the new block becomes its root.
LEMMA NewRoot ==
  ASSUME NEW root \in [Slots -> Link], NEW f \in [Blocks -> Link],
         NEW s \in Slots, NEW b \in Blocks,
         Linked(root, f), f[b] = FAT_FREE, root[s] = FAT_END
  PROVE  Linked([root EXCEPT ![s] = b], [f EXCEPT ![b] = FAT_END])
BY DEF Linked, Unique, Blocks, Link, FAT_FREE, FAT_END

\* resolve_data_block at the end of a chain: the new block follows the last.
LEMMA NewLast ==
  ASSUME NEW root \in [Slots -> Link], NEW f \in [Blocks -> Link],
         NEW b \in Blocks, NEW c \in Blocks,
         Linked(root, f), f[b] = FAT_FREE, f[c] = FAT_END
  PROVE  Linked(root, [[f EXCEPT ![b] = FAT_END] EXCEPT ![c] = b])
<1> DEFINE g == [[f EXCEPT ![b] = FAT_END] EXCEPT ![c] = b]
<1>1. /\ b # c /\ g[c] = b /\ g[b] = FAT_END /\ FAT_END \notin Blocks /\ FAT_END # FAT_FREE
      /\ \A d \in Blocks : d # b /\ d # c => g[d] = f[d]
  BY DEF Blocks, FAT_FREE, FAT_END
<1> HIDE DEF g
<1>2. \A d \in Blocks : f[d] # b
  BY DEF Linked, Unique
<1>3. \A s \in Slots : root[s] # b
  BY DEF Linked
<1>4. \A d \in Blocks : g[d] \in Blocks => (g[d] = b /\ d = c) \/ (g[d] = f[d] /\ d # c)
  BY <1>1
<1>5. \A d \in Blocks : f[d] # FAT_FREE => g[d] # FAT_FREE
  BY <1>1 DEF Blocks, FAT_FREE
<1>6. \A d \in Blocks : g[d] \in Blocks => g[g[d]] # FAT_FREE
  BY <1>1, <1>4, <1>5 DEF Linked, Unique
<1>7. \A d, e \in Blocks : g[d] \in Blocks /\ g[d] = g[e] => d = e
  BY <1>2, <1>4 DEF Linked, Unique
<1>8. \A s \in Slots, d \in Blocks : g[d] \in Blocks => root[s] # g[d]
  BY <1>3, <1>4 DEF Linked, Unique
<1>9. Linked(root, g)
  BY <1>5, <1>6, <1>7, <1>8 DEF Linked, Unique
<1> QED BY <1>9 DEF g

\* One turn of release_chain: the root moves on and its block becomes free.
LEMMA DropRoot ==
  ASSUME NEW root \in [Slots -> Link], NEW f \in [Blocks -> Link],
         NEW s \in Slots, Linked(root, f), root[s] \in Blocks
  PROVE  Linked([root EXCEPT ![s] = f[root[s]]], [f EXCEPT ![root[s]] = FAT_FREE])
BY DEF Linked, Unique, Blocks, Link, FAT_FREE, FAT_END

\* Outside release_chain the roots are those of the directory.
LEMMA RootsBare == pc # "release" => Roots = Bare(dir)
BY DEF Roots, Root, Bare

\* Roots are links.
LEMMA RootsType ==
  ASSUME TypeOK
  PROVE  /\ Roots \in [Slots -> Link] /\ Bare(dir) \in [Slots -> Link]
         /\ Bare(dirDisk) \in [Slots -> Link]
<1>1. /\ \A s \in Slots : dir[s].first \in Link /\ dirDisk[s].first \in Link
      /\ r.cur \in Link /\ FAT_END \in Link
  BY DEF TypeOK, Entry, CallRec, Link
<1> QED BY <1>1 DEF Roots, Root, Bare

-------------------------------------------------------------------------------
(* The inductive invariant *)

\* The free blocks are finitely many and at most all.
LEMMA FreeCount ==
  /\ IsFiniteSet(FreeBlocks) /\ Cardinality(FreeBlocks) \in Nat
  /\ Cardinality(FreeBlocks) <= NumBlocks
<1>1. IsFiniteSet(Blocks) /\ Cardinality(Blocks) = NumBlocks
  BY FS_Interval DEF Blocks
<1>2. FreeBlocks \subseteq Blocks
  BY DEF FreeBlocks
<1> QED BY <1>1, <1>2, FS_Subset, FS_CardinalityType

\* The limit of release_chain is never reached.
LEMMA SeenFits ==
  ASSUME TypeOK, Seen, pc = "release" PROVE r.step <= NumBlocks
<1>1. r.step \in Nat
  BY DEF TypeOK, CallRec
<1> QED BY <1>1, FreeCount DEF Seen

\* Every turn of release_chain counts one block and frees one more.
LEMMA SeenStep ==
  ASSUME TypeOK, Locals, Seen, mounted => Linked(Roots, fat) \/ Blank(Roots, fat), [Next]_vars
  PROVE  Seen'
<1>t. /\ r \in CallRec /\ r.slot \in Slots /\ r.cur \in Link /\ r.step \in Nat
      /\ r.next \in {"idle", "unmount", "trunc", "takeFd"}
      /\ fat \in [Blocks -> Link]
  BY DEF TypeOK, CallRec
<1>1. CASE TruncBegin
  <2>1. r'.step = 0
    BY <1>1, <1>t DEF TruncBegin, CallRec
  <2>2. Cardinality(FreeBlocks)' \in Nat
    <3>1. FreeBlocks' = FreeBlocks
      BY <1>1 DEF TruncBegin, memory, FreeBlocks
    <3> QED BY <3>1, FreeCount
  <2> QED BY <2>1, <2>2 DEF Seen
<1>2. CASE ReleaseStep
  <2>1. pc = "release" /\ r.cur # FAT_END /\ dir[r.slot].used /\ mounted
    BY <1>2 DEF ReleaseStep, Locals
  <2>2. Roots[r.slot] = r.cur
    BY <1>t, <2>1 DEF Roots, Root
  <2>3. r.cur \in Blocks /\ fat[r.cur] # FAT_FREE
    BY <1>t, <2>1, <2>2 DEF Blank, Linked, Unique, Link
  <2>4. r.step <= NumBlocks
    BY <2>1, SeenFits
  <2>5. fat' = [fat EXCEPT ![r.cur] = FAT_FREE] /\ r'.step = r.step + 1
    BY <1>2, <1>t, <2>1, <2>3, <2>4 DEF ReleaseStep, CallRec
  <2>6. FreeBlocks' = FreeBlocks \cup {r.cur} /\ r.cur \notin FreeBlocks
    BY <1>t, <2>3, <2>5 DEF FreeBlocks
  <2>7. Cardinality(FreeBlocks)' = Cardinality(FreeBlocks) + 1
    BY <2>6, FreeCount, FS_AddElement
  <2> QED BY <1>t, <2>1, <2>5, <2>7, FreeCount DEF Seen
<1>3. CASE ResolveFirst \/ ResolveNext \/ WriteChunk \/ WriteEnd \/ TruncEnd \/ TakeFd
  <2>1. pc' # "release"
    BY <1>3 DEF ResolveFirst, ResolveNext, AllocateWith, AsFirst, AsNext, WriteChunk, WriteEnd,
                TruncEnd, TakeFd, Return
  <2> QED BY <2>1 DEF Seen
<1>4. CASE FormatStep \/ SyncDir \/ SyncFat \/ UnmountEnd \/ Crash
  <2>1. pc' # "release"
    BY <1>4, <1>t DEF FormatStep, SyncDir, SyncFat, UnmountEnd, Crash, Return
  <2> QED BY <2>1 DEF Seen
<1>5. CASE Call
  <2>1. pc' # "release"
    BY <1>5 DEF Call, fs_format_image, fs_mount, fs_unmount, fs_open, OpenFound, OpenCreate,
                AfterFound, fs_close, fs_seek, fs_read, fs_write, Begin
  <2> QED BY <2>1 DEF Seen
<1>6. CASE UNCHANGED vars
  BY <1>6 DEF vars, Seen, FreeBlocks
<1> QED BY <1>1, <1>2, <1>3, <1>4, <1>5, <1>6 DEF Next, Step

\* The locals of a call stay in place, whatever fails: a call that returns early
\* leaves no locals, and entries are never taken out of the directory.
LEMMA LocalsStep == TypeOK /\ Locals /\ [Next]_vars => Locals'
<1> SUFFICES ASSUME TypeOK, Locals, [Next]_vars PROVE Locals'
  OBVIOUS
<1>t. /\ r \in CallRec /\ r.slot \in Slots /\ r.fd \in Fds
      /\ r.next \in {"idle", "unmount", "trunc", "takeFd"}
      /\ dir \in [Slots -> Entry] /\ fat \in [Blocks -> Link] /\ open \in [Fds -> OpenFile]
      /\ \A f \in Fds : open[f].slot \in Slots
  BY DEF TypeOK, CallRec, OpenFile
<1>i. ASSUME mounted, mounted' = mounted, pc' = "idle", open' = open,
             \A s \in Slots : dir[s].used => dir'[s].used
      PROVE  Locals'
  BY <1>i, <1>t DEF Locals
<1>1. CASE fs_format_image
  <2>1. ~mounted' /\ dirDisk' = ZeroDir /\ fatDisk' = ZeroFat /\ pc' = "fmtSuper"
    BY <1>1 DEF fs_format_image, memory
  <2>2. Unwritten'
    BY <2>1 DEF Unwritten, Blank, Bare, ZeroDir, ZeroFat, FAT_FREE
  <2> QED BY <2>1, <2>2 DEF Locals
<1>2. CASE FormatStep
  <2>1. /\ ~mounted' /\ Unwritten /\ ~mounted
        /\ pc' \in {"idle", "fmtDir", "fmtFat"}
        /\ pc' # "idle" => dirDisk' \in {dirDisk, FormattedDir} /\ fatDisk' = fatDisk
    BY <1>2 DEF FormatStep, memory, Locals
  <2>2. CASE pc' = "idle"
    BY <2>1, <2>2 DEF Locals
  <2>3. CASE pc' # "idle"
    <3>1. \A s \in Slots : Bare(dirDisk)'[s] = FAT_END
      BY <2>1, <2>3 DEF Unwritten, Blank, Bare, FormattedDir, ZeroDir
    <3>2. Unwritten'
      BY <2>1, <2>3, <3>1 DEF Unwritten, Blank
    <3> QED BY <2>1, <3>2 DEF Locals
  <2> QED BY <2>2, <2>3
<1>3. CASE fs_mount
  BY <1>3 DEF Locals, fs_mount, Begin, ZeroOpen, NoOpen, Fds
<1>4. CASE SyncDir
  <2>1. /\ mounted /\ UNCHANGED <<mounted, dir, open>>
        /\ \/ pc' = "syncFat" /\ r' = r /\ dirDisk' = dir
           \/ pc' = "idle"
    BY <1>4 DEF SyncDir, Return, memory, Locals
  <2> QED BY <1>4, <1>i, <2>1 DEF SyncDir, Locals
<1>5. CASE SyncFat
  <2>1. /\ mounted /\ UNCHANGED <<mounted, dir, open>>
        /\ \/ pc' = r.next /\ (r.next # "idle" => r' = r)
           \/ pc' = "idle"
    BY <1>5 DEF SyncFat, Return, memory, Locals
  <2> QED BY <1>5, <1>i, <1>t, <2>1 DEF SyncFat, Locals
<1>6. CASE UnmountEnd \/ Crash
  BY <1>6 DEF UnmountEnd, Crash, Locals
<1>7. CASE fs_unmount
  <2>1. /\ pc' = "syncDir" /\ r'.next = "unmount" /\ mounted
        /\ UNCHANGED <<mounted, dir, open>>
    BY <1>7 DEF fs_unmount, memory, NoCall
  <2> QED BY <2>1 DEF Locals
<1>8. CASE TakeFd
  <2>1. /\ pc' = "idle" /\ pc = "takeFd" /\ dir[r.slot].used /\ mounted
        /\ UNCHANGED <<mounted, dir>>
    BY <1>8 DEF TakeFd, Return, Locals
  <2>2. \A f \in Fds : open'[f].in_use => dir[open'[f].slot].used
    BY <1>8, <1>t, <2>1 DEF TakeFd, Locals
  <2> QED BY <2>1, <2>2 DEF Locals
<1>9. ASSUME NEW n \in Names, NEW fl \in FlagChoices, OpenFound(n, fl) PROVE Locals'
  <2>1. PICK s \in Slots : IsLowest(s, SlotOf(n)) /\ r' = [NoCall EXCEPT !.slot = s, !.flags = fl]
    BY <1>9 DEF OpenFound
  <2>2. dir[s].used /\ r'.slot = s /\ r'.next = "idle"
    BY <2>1 DEF IsLowest, SlotOf, NoCall
  <2>3. /\ mounted /\ pc' \in {"trunc", "takeFd"} /\ UNCHANGED <<mounted, dir, open>>
    BY <1>9 DEF OpenFound, Begin, AfterFound, memory
  <2> QED BY <2>2, <2>3 DEF Locals
<1>10. ASSUME NEW n \in Names, NEW fl \in FlagChoices, OpenCreate(n, fl) PROVE Locals'
  <2>1. PICK s \in Slots :
          /\ dir' = [dir EXCEPT ![s] = [used |-> TRUE, name |-> n, first |-> FAT_END, size |-> 0]]
          /\ r' = [NoCall EXCEPT !.slot = s, !.flags = fl, !.next = AfterFound(fl)]
    BY <1>10 DEF OpenCreate
  <2>2. mounted /\ pc' = "syncDir" /\ UNCHANGED <<mounted, open>>
    BY <1>10 DEF OpenCreate, Begin
  <2>3. (\A t \in Slots : dir[t].used => dir'[t].used) /\ dir'[s].used /\ r'.slot = s
    BY <1>t, <2>1 DEF NoCall
  <2> QED BY <1>t, <2>2, <2>3 DEF Locals
<1>11. ASSUME NEW fd \in Fds, NEW len \in Lens, NEW v \in Values, fs_write(fd, len, v)
       PROVE  Locals'
  <2>1. /\ mounted /\ pc' \in {"size", "resolve"} /\ UNCHANGED <<mounted, dir, open>>
        /\ r'.slot = open[fd].slot /\ r'.next = "idle" /\ open[fd].in_use
    BY <1>11 DEF fs_write, Begin, memory, NoCall
  <2> QED BY <2>1 DEF Locals
<1>12. ASSUME NEW fd \in Fds,
              \/ fs_close(fd) \/ \E off \in Offsets : fs_seek(fd, off)
              \/ \E len \in Lens : fs_read(fd, len)
       PROVE  Locals'
  <2>1. pc = "idle" /\ mounted /\ UNCHANGED <<pc, r, mounted, dir>>
    BY <1>12, SMTT(30) DEF fs_close, fs_seek, fs_read, Begin
  <2>2. PICK z : \/ open' = [open EXCEPT ![fd] = NoOpen]
                 \/ open' = [open EXCEPT ![fd].offset = z]
    BY <1>12 DEF fs_close, fs_seek, fs_read
  <2>3. \A f \in Fds : open'[f].in_use => open[f].in_use /\ open'[f].slot = open[f].slot
    BY <1>t, <2>2 DEF OpenFile, NoOpen
  <2> QED BY <2>1, <2>3, SMTT(30) DEF Locals
<1>13. CASE TruncBegin
  <2>1. pc = "trunc" /\ pc' = "release" /\ r'.slot = r.slot /\ UNCHANGED <<mounted, dir, open>>
    BY <1>t, <1>13 DEF TruncBegin, memory, CallRec
  <2> QED BY <2>1 DEF Locals
<1>14. CASE ReleaseStep
  <2>1. /\ pc = "release" /\ pc' \in {"release", "idle"} /\ (pc' = "release" => r'.slot = r.slot)
        /\ UNCHANGED <<mounted, dir, open>>
    BY <1>t, <1>14 DEF ReleaseStep, Return, CallRec
  <2> QED BY <2>1 DEF Locals
<1>15. CASE TruncEnd
  <2>1. /\ pc = "release" /\ pc' = "syncDir" /\ r'.slot = r.slot /\ UNCHANGED <<mounted, open>>
        /\ dir' = [dir EXCEPT ![r.slot].first = FAT_END, ![r.slot].size = 0]
    BY <1>t, <1>15 DEF TruncEnd, CallRec
  <2>2. dir' = [dir EXCEPT ![r.slot] = [dir[r.slot] EXCEPT !.first = FAT_END, !.size = 0]]
    BY <1>t, <2>1
  <2>3. \A s \in Slots : dir'[s].used = dir[s].used
    BY <1>t, <2>2 DEF Entry
  <2> QED BY <1>t, <2>1, <2>3 DEF Locals
<1>16. CASE ResolveFirst
  <2>0. pc = "resolve" /\ mounted /\ dir[r.slot].used /\ UNCHANGED <<mounted, open>>
    BY <1>16 DEF ResolveFirst, Locals
  <2>1. ASSUME NEW b \in Blocks, AsFirst(b, [fat EXCEPT ![b] = FAT_END]) PROVE Locals'
    <3>1. pc' = "walk" /\ r'.cur = b /\ r'.slot = r.slot
      BY <1>t, <2>1 DEF AsFirst, CallRec
    <3>2. dir' = [dir EXCEPT ![r.slot] = [dir[r.slot] EXCEPT !.first = b]]
      BY <1>t, <2>1 DEF AsFirst
    <3>3. \A s \in Slots : dir'[s].used = dir[s].used
      BY <1>t, <3>2 DEF Entry
    <3> QED BY <1>t, <2>0, <3>1, <3>3 DEF Locals
  <2>2. ASSUME dir' = dir,
               \/ Return
               \/ pc' = "walk" /\ dir[r.slot].first \in Blocks
                  /\ r' = [r EXCEPT !.cur = dir[r.slot].first, !.step = 0]
        PROVE  Locals'
    <3>1. CASE Return
      BY <1>i, <2>0, <2>2, <3>1 DEF Return
    <3>2. CASE ~Return
      <4>1. pc' = "walk" /\ r'.cur \in Blocks /\ r'.slot = r.slot
        BY <1>t, <2>2, <3>2 DEF CallRec
      <4> QED BY <2>0, <2>2, <4>1 DEF Locals
    <3> QED BY <3>1, <3>2
  <2> QED BY <1>16, <2>1, <2>2 DEF ResolveFirst, AllocateWith
<1>17. CASE ResolveNext
  <2>0. pc = "walk" /\ mounted /\ dir[r.slot].used /\ UNCHANGED <<mounted, open>>
    BY <1>17 DEF ResolveNext, Locals
  <2>1. ASSUME NEW b \in Blocks, AsNext(b, [fat EXCEPT ![b] = FAT_END]) PROVE Locals'
    <3>1. pc' = "walk" /\ r'.cur = b /\ r'.slot = r.slot /\ dir' = dir
      BY <1>t, <2>0, <2>1 DEF AsNext, CallRec
    <3> QED BY <2>0, <3>1 DEF Locals
  <2>2. ASSUME dir' = dir,
               \/ Return
               \/ pc' = pc /\ fat[r.cur] \in Blocks
                  /\ r' = [r EXCEPT !.cur = fat[r.cur], !.step = @ + 1]
        PROVE  Locals'
    <3>1. CASE Return
      BY <1>i, <2>0, <2>2, <3>1 DEF Return
    <3>2. CASE ~Return
      <4>1. pc' = "walk" /\ r'.cur \in Blocks /\ r'.slot = r.slot
        BY <1>t, <2>0, <2>2, <3>2 DEF CallRec
      <4> QED BY <2>0, <2>2, <4>1 DEF Locals
    <3> QED BY <3>1, <3>2
  <2> QED BY <1>17, <2>1, <2>2 DEF ResolveNext, AllocateWith
<1>18. CASE WriteChunk
  <2>0. pc = "walk" /\ mounted /\ dir[r.slot].used /\ UNCHANGED <<mounted, dir>>
    BY <1>18 DEF WriteChunk, Locals
  <2>1. CASE pc' = "idle" /\ open' = open
    BY <1>i, <2>0, <2>1
  <2>2. CASE /\ pc' \in {"size", "resolve"} /\ \E n : r' = [r EXCEPT !.left = n]
             /\ \E z : open' = [open EXCEPT ![r.fd].offset = z]
    <3>1. r'.slot = r.slot
      BY <1>t, <2>2 DEF CallRec
    <3>2. \A f \in Fds : open'[f].in_use => open[f].in_use /\ open'[f].slot = open[f].slot
      BY <1>t, <2>2 DEF OpenFile
    <3> QED BY <2>0, <2>2, <3>1, <3>2 DEF Locals
  <2> QED BY <1>18, <2>1, <2>2 DEF WriteChunk, Return
<1>19. CASE WriteEnd
  <2>1. /\ pc = "size" /\ pc' = "syncDir" /\ r' = r /\ UNCHANGED <<mounted, open>>
        /\ \E z : dir' = [dir EXCEPT ![r.slot].size = z]
    BY <1>19 DEF WriteEnd
  <2>2. \A s \in Slots : dir'[s].used = dir[s].used
    BY <1>t, <2>1 DEF Entry
  <2> QED BY <1>t, <2>1, <2>2 DEF Locals
<1>20. CASE UNCHANGED vars
  BY <1>20 DEF vars, Locals, Unwritten, Roots, Root, Bare
<1> QED
  BY <1>1, <1>2, <1>3, <1>4, <1>5, <1>6, <1>7, <1>8, <1>9, <1>10, <1>11, <1>12, <1>13,
     <1>14, <1>15, <1>16, <1>17, <1>18, <1>19, <1>20 DEF Next, Call, Step, fs_open


\* A step that leaves both copies of the metadata alone keeps their soundness, if
\* it is outside release_chain and does not end the window of released blocks.
LEMMA MetadataKept ==
  ASSUME IInv, UNCHANGED <<mounted, dir, fat, dirDisk, fatDisk>>,
         pc # "release", pc' # "release", ~Releasing' => ~Releasing
  PROVE  Sound' \/ Unwritten'
<1>1. Roots = Bare(dir) /\ Roots' = Bare(dir)
  BY RootsBare DEF Roots, Root, Bare
<1>2. Bare(dir)' = Bare(dir) /\ Bare(dirDisk)' = Bare(dirDisk)
  BY DEF Bare
<1>3. CASE Sound
  BY <1>1, <1>2, <1>3 DEF Sound
<1>4. CASE Unwritten
  BY <1>1, <1>2, <1>4 DEF Unwritten
<1> QED BY <1>3, <1>4 DEF IInv

\* While the image is not mounted, only the image matters.
LEMMA UnmountedKept ==
  ASSUME IInv, ~mounted', UNCHANGED <<dirDisk, fatDisk>>
  PROVE  Sound' \/ Unwritten'
<1>1. Bare(dirDisk)' = Bare(dirDisk)
  BY DEF Bare
<1> QED BY <1>1 DEF IInv, Sound, Unwritten

\* fs_mount: validate_metadata refuses what a crash inside sync_metadata left, a
\* root that the older FAT still calls free.
LEMMA MountStep ==
  ASSUME IInv, fs_mount
  PROVE  Sound' \/ Unwritten'
<1>1. pc = "idle" /\ pc' = "idle" /\ UNCHANGED <<dirDisk, fatDisk, super>>
  BY DEF fs_mount, Begin, image
<1>3. CASE ~mounted'
  BY <1>1, <1>3, UnmountedKept
<1>4. CASE mounted'
  <2>1. dir' = dirDisk /\ fat' = fatDisk /\ MetadataOk(dirDisk, fatDisk)
    BY <1>4 DEF fs_mount
  <2>2. Bare(dirDisk)' = Bare(dirDisk) /\ Bare(dir)' = Bare(dirDisk)
    BY <1>1, <2>1 DEF Bare
  <2>3. Roots' = Bare(dirDisk)
    BY <1>1, <2>1 DEF Roots, Root, Bare
  <2>4. \A s \in Slots : Bare(dirDisk)[s] \in Blocks => fatDisk[Bare(dirDisk)[s]] # FAT_FREE
    BY <2>1 DEF MetadataOk, ChainOk, Bare, Blocks, FAT_END
  <2>5. ASSUME Sound PROVE Sound'
    BY <1>1, <2>1, <2>2, <2>3, <2>4, <2>5 DEF Sound, Linked
  <2>6. ASSUME Unwritten PROVE Unwritten'
    BY <1>1, <2>1, <2>2, <2>3, <2>6 DEF Unwritten
  <2> QED BY <2>5, <2>6 DEF IInv
<1> QED BY <1>3, <1>4

\* The formatter passes through an image without a free block to an empty one.
LEMMA FormatSteps ==
  ASSUME Faults = FALSE, IInv, fs_format_image \/ FormatStep
  PROVE  Sound' \/ Unwritten'
<1>1. CASE fs_format_image
  <2>1. ~mounted' /\ dirDisk' = ZeroDir /\ fatDisk' = ZeroFat /\ pc' = "fmtSuper"
    BY <1>1 DEF fs_format_image, memory
  <2>2. Unwritten'
    BY <2>1 DEF Unwritten, Blank, Bare, ZeroDir, ZeroFat, FAT_FREE
  <2> QED BY <2>2
<1>2. CASE FormatStep /\ pc # "fmtFat"
  <2>1. /\ ~mounted' /\ fatDisk' = fatDisk
        /\ dirDisk' \in {dirDisk, FormattedDir} /\ pc' \in {"fmtDir", "fmtFat"}
    BY <1>2 DEF FormatStep, memory, IInv, Locals
  <2>2. Unwritten
    BY <1>2 DEF FormatStep, IInv, Locals
  <2>3. \A s \in Slots : Bare(dirDisk)'[s] = FAT_END
    BY <2>1, <2>2 DEF Unwritten, Blank, Bare, FormattedDir, ZeroDir
  <2>4. Unwritten'
    BY <2>1, <2>2, <2>3 DEF Unwritten, Blank
  <2> QED BY <2>4
<1>3. CASE FormatStep /\ pc = "fmtFat"
  <2>1. /\ ~mounted' /\ fatDisk' = FormattedFat /\ dirDisk' = dirDisk
        /\ pc' = "idle"
    BY <1>3 DEF FormatStep, memory, IInv, Locals
  <2>2. \A s \in Slots : Bare(dirDisk)'[s] = FAT_END
    BY <1>3, <2>1 DEF IInv, Locals, Unwritten, Blank, Bare
  <2>3. Sound'
    BY <2>1, <2>2 DEF Sound, Unique, FormattedFat, Blocks, FAT_FREE, FAT_END
  <2> QED BY <2>3
<1> QED BY <1>1, <1>2, <1>3

\* sync_metadata: after its first half the image combines the new directory with
\* the old FAT, after its second it holds what memory holds.
LEMMA SyncSteps ==
  ASSUME Faults = FALSE, IInv, SyncDir \/ SyncFat
  PROVE  Sound' \/ Unwritten'
<1>t. mounted /\ mounted' /\ dir' = dir /\ fat' = fat /\ open' = open
  BY DEF SyncDir, SyncFat, memory, IInv, Locals
<1>0. r \in CallRec /\ r.next \in {"idle", "unmount", "trunc", "takeFd"}
  BY DEF IInv, TypeOK, CallRec
<1>1. CASE SyncDir
  <2>1. dirDisk' = dir /\ fatDisk' = fatDisk /\ pc = "syncDir" /\ pc' = "syncFat" /\ r' = r
    BY <1>1 DEF SyncDir
  <2>2. /\ Roots = Bare(dir) /\ Roots' = Bare(dir) /\ Bare(dir)' = Bare(dir)
        /\ Bare(dirDisk)' = Bare(dir)
    BY <1>t, <2>1, RootsBare DEF Roots, Root, Bare
  <2>3. Releasing' <=> Releasing
    BY <2>1 DEF Releasing
  <2>4. ASSUME Sound PROVE Sound'
    BY <1>t, <2>1, <2>2, <2>3, <2>4 DEF Sound
  <2>5. ASSUME Unwritten PROVE Unwritten'
    BY <1>t, <2>1, <2>2, <2>5 DEF Unwritten
  <2> QED BY <2>4, <2>5 DEF IInv
<1>2. CASE SyncFat
  <2>1. /\ dirDisk' = dirDisk /\ dirDisk = dir /\ fatDisk' = fat /\ pc = "syncFat"
        /\ pc' = r.next /\ (r.next # "idle" => r' = r)
    BY <1>2 DEF SyncFat, IInv, Locals
  <2>2. /\ Roots = Bare(dir) /\ Roots' = Bare(dir) /\ Bare(dir)' = Bare(dir)
        /\ Bare(dirDisk)' = Bare(dir)
    BY <1>t, <1>0, <2>1, RootsBare DEF Roots, Root, Bare
  <2>3. ASSUME Sound PROVE Sound'
    BY <1>t, <2>1, <2>2, <2>3 DEF Sound, Linked
  <2>4. ASSUME Unwritten PROVE Unwritten'
    BY <1>t, <2>1, <2>2, <2>4 DEF Unwritten
  <2> QED BY <2>3, <2>4 DEF IInv
<1> QED BY <1>1, <1>2

\* Calls and steps that leave both copies of the metadata alone.
LEMMA CallSteps ==
  ASSUME Faults = FALSE, IInv, NEW fd \in Fds,
         \/ fs_unmount \/ fs_close(fd) \/ TakeFd
         \/ \E n \in Names, fl \in FlagChoices : OpenFound(n, fl)
         \/ \E off \in Offsets : fs_seek(fd, off)
         \/ \E len \in Lens : fs_read(fd, len)
         \/ \E len \in Lens, v \in Values : fs_write(fd, len, v)
  PROVE  Sound' \/ Unwritten'
<1>t. /\ mounted /\ UNCHANGED <<mounted, dir, fat, dirDisk, fatDisk>>
      /\ pc \in {"idle", "takeFd"}
  BY ZenonT(60) DEF fs_unmount, fs_close, TakeFd, OpenFound, fs_seek, fs_read, fs_write, Begin,
         memory, image, IInv, Locals
<1>1. pc' # "release" /\ ~Releasing
  BY <1>t DEF fs_unmount, fs_close, TakeFd, Return, OpenFound, AfterFound, fs_seek, fs_read, fs_write,
              Begin, Releasing
<1> QED BY <1>t, <1>1, MetadataKept, SMTT(30)

\* A new directory entry has no chain yet.
LEMMA CreateStep ==
  ASSUME IInv, NEW n \in Names, NEW fl \in FlagChoices, OpenCreate(n, fl)
  PROVE  Sound' \/ Unwritten'
<1>1. PICK s \in Slots :
        /\ ~dir[s].used
        /\ dir' = [dir EXCEPT ![s] = [used |-> TRUE, name |-> n, first |-> FAT_END, size |-> 0]]
        /\ r' = [NoCall EXCEPT !.slot = s, !.flags = fl, !.next = AfterFound(fl)]
  BY DEF OpenCreate, IsLowest, FreeSlots
<1>2. /\ mounted /\ mounted' /\ pc = "idle" /\ pc' = "syncDir"
      /\ UNCHANGED <<fat, open, dirDisk, fatDisk>>
  BY DEF OpenCreate, Begin, image
<1>3. dir \in [Slots -> Entry]
  BY DEF IInv, TypeOK
<1>4. Bare(dir)' = Bare(dir) /\ Bare(dirDisk)' = Bare(dirDisk)
  BY <1>1, <1>2, <1>3 DEF Bare
<1>5. Roots = Bare(dir) /\ Roots' = Bare(dir)
  BY <1>2, <1>4, RootsBare DEF Roots, Root, Bare
<1>6. ~Releasing
  BY <1>2 DEF Releasing
<1> QED BY <1>2, <1>4, <1>5, <1>6 DEF IInv, Sound, Unwritten

\* fs_open with FS_O_TRUNC: the chain is released link by link, then the entry is
\* emptied; nothing is allocated before the FAT is synced.
LEMMA TruncSteps ==
  ASSUME Faults = FALSE, IInv, TruncBegin \/ ReleaseStep \/ TruncEnd
  PROVE  Sound' \/ Unwritten'
<1>t. /\ mounted /\ mounted' /\ open' = open /\ dirDisk' = dirDisk /\ fatDisk' = fatDisk
      /\ dir[r.slot].used
  BY DEF TruncBegin, ReleaseStep, TruncEnd, memory, image, IInv, Locals
<1>0. /\ r.slot \in Slots /\ r.cur \in Link /\ r \in CallRec
      /\ dir \in [Slots -> Entry] /\ fat \in [Blocks -> Link]
  BY DEF IInv, TypeOK, CallRec
<1>d. Bare(dirDisk)' = Bare(dirDisk)
  BY <1>t DEF Bare
<1>1. CASE TruncBegin
  <2>1. /\ dir' = dir /\ fat' = fat /\ pc = "trunc" /\ pc' = "release"
        /\ r'.cur = dir[r.slot].first /\ r'.slot = r.slot
    BY <1>0, <1>1 DEF TruncBegin, memory, CallRec
  <2>2. Roots' = Roots /\ Bare(dir)' = Bare(dir)
    BY <1>t, <2>1 DEF Roots, Root, Bare
  <2> QED BY <1>t, <1>d, <2>1, <2>2 DEF IInv, Sound, Unwritten, Releasing
<1>2. CASE ReleaseStep
  <2>1. pc = "release" /\ r.cur # FAT_END /\ dir' = dir
    BY <1>2 DEF ReleaseStep
  <2>2. Roots[r.slot] = r.cur
    BY <1>0, <1>t, <2>1 DEF Roots, Root
  <2>3. Sound
    BY <1>0, <1>t, <2>1, <2>2 DEF IInv, Unwritten, Blank
  <2>4. r.cur \in Blocks
    BY <1>0, <1>t, <2>1, <2>2, <2>3 DEF Sound, Linked, Unique, Link
  <2>s. r.step <= NumBlocks
    BY <2>1, SeenFits DEF IInv
  <2>5. /\ fat' = [fat EXCEPT ![r.cur] = FAT_FREE] /\ pc' = "release"
        /\ r'.cur = fat[r.cur] /\ r'.slot = r.slot
    BY <1>0, <1>2, <2>1, <2>4, <2>s DEF ReleaseStep, CallRec
  <2>6. Roots' = [Roots EXCEPT ![r.slot] = fat[r.cur]] /\ Bare(dir)' = Bare(dir)
    BY <1>0, <1>t, <2>1, <2>5 DEF Roots, Root, Bare
  <2>7. Roots \in [Slots -> Link]
    BY RootsType DEF IInv
  <2>8. Linked(Roots', fat')
    BY <1>0, <1>t, <2>2, <2>3, <2>4, <2>5, <2>6, <2>7, DropRoot DEF Sound
  <2>9. Sound'
    BY <1>t, <1>d, <2>3, <2>5, <2>6, <2>8 DEF Sound, Releasing
  <2> QED BY <2>9
<1>3. CASE TruncEnd
  <2>1. /\ pc = "release" /\ r.cur = FAT_END /\ fat' = fat /\ pc' = "syncDir"
        /\ r'.next = "takeFd" /\ r'.slot = r.slot
        /\ dir' = [dir EXCEPT ![r.slot].first = FAT_END, ![r.slot].size = 0]
    BY <1>0, <1>3 DEF TruncEnd, CallRec
  <2>2. dir' = [dir EXCEPT ![r.slot] = [dir[r.slot] EXCEPT !.first = FAT_END, !.size = 0]]
    BY <1>0, <2>1
  <2>3. /\ \A s \in Slots : dir'[s].used = dir[s].used
        /\ \A s \in Slots : s # r.slot => dir'[s].first = dir[s].first
        /\ dir'[r.slot].first = FAT_END
    BY <1>0, <2>2 DEF Entry
  <2>4. Bare(dir)' = [Bare(dir) EXCEPT ![r.slot] = FAT_END]
    BY <1>0, <1>t, <2>3 DEF Bare
  <2>5. Roots' = Roots
    BY <1>0, <1>t, <2>1, <2>3 DEF Roots, Root
  <2>6. ASSUME Sound PROVE Sound'
    <3>1. Unique(Bare(dir)', fatDisk)
      BY <1>0, <1>t, <2>4, <2>6, RootsType DEF Sound, Unique, IInv, Blocks, FAT_END, FAT_FREE
    <3> QED BY <1>t, <1>d, <2>1, <2>5, <2>6, <3>1 DEF Sound, Releasing
  <2>7. ASSUME Unwritten PROVE Unwritten'
    <3>1. Blank(Bare(dir)', fatDisk)
      BY <1>0, <1>t, <2>4, <2>7, RootsType DEF Unwritten, Blank, IInv
    <3> QED BY <1>t, <1>d, <2>1, <2>5, <2>7, <3>1 DEF Unwritten
  <2> QED BY <2>6, <2>7 DEF IInv
<1> QED BY <1>1, <1>2, <1>3

\* fs_write: a block joins a chain as its first or its last, and the image has no
\* link to it yet; what runs out of space stops where it is.
LEMMA WriteSteps ==
  ASSUME Faults = FALSE, IInv, ResolveFirst \/ ResolveNext \/ WriteChunk \/ WriteEnd
  PROVE  Sound' \/ Unwritten'
<1>t. /\ mounted /\ mounted' /\ dirDisk' = dirDisk /\ fatDisk' = fatDisk
      /\ dir[r.slot].used /\ pc \in {"resolve", "walk", "size"}
  BY DEF ResolveFirst, ResolveNext, WriteChunk, WriteEnd, image, IInv, Locals
<1>0. /\ r.slot \in Slots /\ r.cur \in Link /\ r \in CallRec /\ r.fd \in Fds
      /\ dir \in [Slots -> Entry] /\ fat \in [Blocks -> Link] /\ fatDisk \in [Blocks -> Link]
  BY DEF IInv, TypeOK, CallRec
<1>d. Bare(dirDisk)' = Bare(dirDisk)
  BY <1>t DEF Bare
<1>r. Roots = Bare(dir) /\ Roots \in [Slots -> Link] /\ ~Releasing
  BY <1>t, RootsBare, RootsType DEF IInv, Releasing
<1>f. ASSUME NEW b \in Blocks, fat[b] = FAT_FREE
      PROVE  Sound /\ (\A c \in Blocks : fatDisk[c] # b) /\ fatDisk[b] = FAT_FREE
  <2>1. Sound
    BY <1>f, <1>t DEF IInv, Unwritten, Blank
  <2>2. fatDisk[b] = FAT_FREE
    BY <1>f, <1>r, <1>t, <2>1 DEF Sound
  <2> QED BY <1>0, <2>1, <2>2 DEF Sound, Unique
<1>1. CASE UNCHANGED <<dir, fat>> /\ pc' \in {"idle", "walk", "size", "resolve"}
  BY <1>t, <1>r, <1>1, MetadataKept
<1>2. ASSUME NEW b \in Blocks, fat[b] = FAT_FREE, dir[r.slot].first = FAT_END,
             AsFirst(b, [fat EXCEPT ![b] = FAT_END])
      PROVE  Sound' \/ Unwritten'
  <2>1. /\ fat' = [fat EXCEPT ![b] = FAT_END] /\ pc' = "walk"
        /\ dir' = [dir EXCEPT ![r.slot].first = b]
        /\ r'.cur = b /\ r'.slot = r.slot
    BY <1>0, <1>2 DEF AsFirst, CallRec
  <2>2. dir' = [dir EXCEPT ![r.slot] = [dir[r.slot] EXCEPT !.first = b]]
    BY <1>0, <2>1
  <2>3. /\ \A s \in Slots : dir'[s].used = dir[s].used
        /\ \A s \in Slots : s # r.slot => dir'[s].first = dir[s].first
        /\ dir'[r.slot].first = b
    BY <1>0, <2>2 DEF Entry
  <2>4. Bare(dir)' = [Bare(dir) EXCEPT ![r.slot] = b]
    BY <1>0, <1>t, <2>3 DEF Bare
  <2>5. Roots' = Bare(dir)'
    BY <2>1 DEF Roots, Root, Bare
  <2>6. Bare(dir)[r.slot] = FAT_END
    BY <1>0, <1>t, <1>2 DEF Bare
  <2>7. Linked(Roots', fat')
    <3>1. Linked(Bare(dir), fat) /\ Bare(dir) \in [Slots -> Link]
      BY <1>f, <1>r, <1>t, <1>2 DEF Sound
    <3>2. Linked([Bare(dir) EXCEPT ![r.slot] = b], [fat EXCEPT ![b] = FAT_END])
      BY <1>0, <1>2, <2>6, <3>1, NewRoot
    <3> QED BY <2>1, <2>4, <2>5, <3>2
  <2>8. Unique(Bare(dir)', fatDisk)
    <3>1. Sound /\ (\A c \in Blocks : fatDisk[c] # b) /\ fatDisk[b] = FAT_FREE
      BY <1>f, <1>2
    <3>2. \A s \in Slots : Bare(dir)[s] # b
      BY <1>t, <1>r, <1>2, <3>1 DEF Sound, Linked
    <3> QED BY <1>0, <1>r, <1>t, <2>4, <3>1, <3>2 DEF Sound, Unique, Blocks, FAT_FREE
  <2>9. \A c \in Blocks : fat'[c] = FAT_FREE => fatDisk[c] = FAT_FREE
    BY <1>0, <1>t, <1>r, <1>f, <1>2, <2>1 DEF Sound, FAT_FREE, FAT_END
  <2>10. Sound'
    BY <1>t, <1>d, <1>f, <1>2, <2>7, <2>8, <2>9 DEF Sound
  <2> QED BY <2>10
<1>3. ASSUME NEW b \in Blocks, fat[b] = FAT_FREE, r.cur \in Blocks, fat[r.cur] = FAT_END,
             AsNext(b, [fat EXCEPT ![b] = FAT_END]), pc = "walk"
      PROVE  Sound' \/ Unwritten'
  <2>1. /\ fat' = [[fat EXCEPT ![b] = FAT_END] EXCEPT ![r.cur] = b] /\ dir' = dir
        /\ pc' = "walk" /\ r'.cur = b /\ r'.slot = r.slot
    BY <1>0, <1>3 DEF AsNext, CallRec
  <2>2. Bare(dir)' = Bare(dir) /\ Roots' = Roots
    BY <1>r, <2>1 DEF Bare, Roots, Root
  <2>3. Linked(Roots', fat')
    <3>1. Linked(Roots, fat)
      BY <1>f, <1>t, <1>3 DEF Sound
    <3> QED BY <1>0, <1>r, <1>3, <2>1, <2>2, <3>1, NewLast
  <2>4. \A c \in Blocks : fat'[c] = FAT_FREE => fatDisk[c] = FAT_FREE
    BY <1>0, <1>t, <1>r, <1>f, <1>3, <2>1 DEF Sound, FAT_FREE, FAT_END, Blocks
  <2>5. Sound'
    BY <1>t, <1>d, <1>f, <1>3, <2>2, <2>3, <2>4 DEF Sound
  <2> QED BY <2>5
<1>4. CASE ResolveFirst
  <2>1. CASE dir[r.slot].first = FAT_END
    BY <1>1, <1>2, <1>4, <2>1 DEF ResolveFirst, AllocateWith, Cleared, Return, IsLowest, FreeBlocks
  <2>2. CASE dir[r.slot].first # FAT_END
    BY <1>0, <1>1, <1>4, <2>2 DEF ResolveFirst, Return, CallRec
  <2> QED BY <2>1, <2>2
<1>5. CASE ResolveNext
  <2>0. pc = "walk" /\ r.cur \in Blocks
    BY <1>5 DEF ResolveNext, IInv, Locals
  <2>1. CASE fat[r.cur] = FAT_END
    BY <1>1, <1>3, <1>5, <2>0, <2>1 DEF ResolveNext, AllocateWith, Cleared, Return, IsLowest, FreeBlocks
  <2>2. CASE fat[r.cur] # FAT_END
    BY <1>0, <1>1, <1>5, <2>0, <2>2 DEF ResolveNext, Return, CallRec
  <2> QED BY <2>1, <2>2
<1>6. CASE WriteChunk
  BY <1>1, <1>6 DEF WriteChunk
<1>7. CASE WriteEnd
  <2>1. /\ fat' = fat /\ open' = open /\ pc' = "syncDir" /\ r' = r /\ pc = "size"
        /\ \E z : dir' = [dir EXCEPT ![r.slot].size = z]
    BY <1>7 DEF WriteEnd
  <2>2. \A s \in Slots : dir'[s].used = dir[s].used /\ dir'[s].first = dir[s].first
    BY <1>0, <2>1 DEF Entry
  <2>3. Bare(dir)' = Bare(dir) /\ Roots' = Roots
    BY <1>r, <2>1, <2>2 DEF Bare, Roots, Root
  <2> QED BY <1>t, <1>d, <1>r, <2>1, <2>3 DEF IInv, Sound, Unwritten
<1> QED BY <1>4, <1>5, <1>6, <1>7

\* Without write faults every step keeps the inductive invariant.
LEMMA InvStep ==
  ASSUME Faults = FALSE
  PROVE  IInv /\ [Next]_vars => IInv'
<1> SUFFICES ASSUME IInv, [Next]_vars PROVE Sound' \/ Unwritten'
  <2>1. ASSUME IInv, [Next]_vars PROVE Seen'
    BY <2>1, SeenStep DEF IInv, Sound, Unwritten
  <2> QED BY <2>1, TypeStep, LocalsStep DEF IInv
<1>1. CASE fs_format_image \/ FormatStep
  BY <1>1, FormatSteps
<1>2. CASE fs_mount
  BY <1>2, MountStep
<1>3. CASE SyncDir \/ SyncFat
  BY <1>3, SyncSteps
<1>4. CASE UnmountEnd \/ Crash
  <2>1. ~mounted' /\ pc' = "idle" /\ UNCHANGED <<dirDisk, fatDisk>>
    BY <1>4 DEF UnmountEnd, Crash, image
  <2> QED BY <2>1, UnmountedKept
<1>5. CASE fs_unmount \/ TakeFd
  <2>1. 0 \in Fds
    BY DEF Fds
  <2> QED BY <1>5, <2>1, CallSteps
<1>6. ASSUME NEW n \in Names, NEW fl \in FlagChoices, fs_open(n, fl)
      PROVE  Sound' \/ Unwritten'
  <2>1. 0 \in Fds
    BY DEF Fds
  <2>2. CASE OpenFound(n, fl)
    BY <2>1, <2>2, CallSteps
  <2> QED BY <1>6, <2>2, CreateStep DEF fs_open
<1>7. ASSUME NEW fd \in Fds,
             \/ fs_close(fd)
             \/ \E off \in Offsets : fs_seek(fd, off)
             \/ \E len \in Lens : fs_read(fd, len)
             \/ \E len \in Lens, v \in Values : fs_write(fd, len, v)
      PROVE  Sound' \/ Unwritten'
  BY <1>7, CallSteps
<1>8. CASE TruncBegin \/ ReleaseStep \/ TruncEnd
  BY <1>8, TruncSteps
<1>9. CASE ResolveFirst \/ ResolveNext \/ WriteChunk \/ WriteEnd
  BY <1>9, WriteSteps
<1>10. CASE UNCHANGED vars
  BY <1>10 DEF vars, IInv, Locals, Sound, Unwritten, Roots, Root, Bare, Releasing
<1> QED
  BY <1>1, <1>2, <1>3, <1>4, <1>5, <1>6, <1>7, <1>8, <1>9, <1>10 DEF Next, Call, Step

\* A formatted image is sound.
LEMMA InvInit == Init => IInv
<1> SUFFICES ASSUME Init PROVE Locals /\ Sound
  BY InitTypes DEF IInv, Init, Seen
<1>1. Locals
  BY DEF Init, Locals
<1>2. Sound
  BY DEF Init, Sound, Unique, Bare, FormattedDir, FormattedFat, ZeroDir, Blocks, FAT_FREE, FAT_END
<1> QED BY <1>1, <1>2

\* The inductive invariant holds in every behaviour without write faults, with any
\* number of crashes between any two steps.
THEOREM InductiveInvariant == ASSUME Faults = FALSE PROVE Spec => []IInv
BY InvInit, InvStep, PTL DEF Spec

\* allocate_data_block never clears a block that the FAT on the image still holds,
\* so a crash after it cannot destroy data the image still refers to.
THEOREM AllocationIsSafe == ASSUME Faults = FALSE PROVE Spec => []FreeIsFreeOnImage
<1>1. IInv => FreeIsFreeOnImage
  BY DEF IInv, Sound, Unwritten, Blank, Releasing, FreeIsFreeOnImage
<1> QED BY <1>1, InductiveInvariant, PTL

-------------------------------------------------------------------------------
(* Chains.  A walk is the function that ChainAt is defined by.              *)

Follow(f, b) == IF b \in Blocks THEN f[b] ELSE b
IsWalk(f, first, k, at) ==
  at = [i \in 0 .. k |-> IF i = 0 THEN first
                        ELSE IF at[i - 1] \in Blocks THEN f[at[i - 1]] ELSE at[i - 1]]

\* A non-empty set of numbers has a least one.
LEMMA LeastNumber ==
  ASSUME NEW T, T \subseteq Nat, T # {}
  PROVE  \E x \in T : \A y \in T : x <= y
<1>1. \E R : /\ IsWellFoundedOn(R, Nat)
             /\ \A x, y \in Nat : x < y => <<x, y>> \in R
  <2>1. \A x, y \in Nat : x < y => <<x, y>> \in OpToRel(<, Nat)
    BY DEF OpToRel
  <2> QED BY <2>1, NatLessThanWellFounded, Zenon
<1>2. PICK R : /\ IsWellFoundedOn(R, Nat)
               /\ \A x, y \in Nat : x < y => <<x, y>> \in R
  BY <1>1
<1>3. IsWellFoundedOn(R, Nat)
  BY <1>2
<1>4. PICK x \in T : \A y \in T : ~ (<<y, x>> \in R)
  <2>1. \A Q, S, U : IsWellFoundedOn(Q, S) /\ U \subseteq S /\ U # {}
                       => \E x \in U : \A y \in U : ~ (<<y, x>> \in Q)
    BY WFMin, Zenon
  <2>2. \E x \in T : \A y \in T : ~ (<<y, x>> \in R)
    BY <1>3, <2>1
  <2> QED BY <2>2, Zenon
<1>5. \A y \in T : ~ (y < x)
  BY <1>2, <1>4, Zenon
<1> QED BY <1>5

\* What holds at 0 and passes from each number to the next holds everywhere.
LEMMA Upward ==
  ASSUME NEW T, 0 \in T, \A k \in Nat : k \in T => k + 1 \in T
  PROVE  \A k \in Nat : k \in T
<1> DEFINE Bad == {k \in Nat : k \notin T}
<1> SUFFICES ASSUME Bad # {} PROVE FALSE
  OBVIOUS
<1>1. Bad \subseteq Nat
  OBVIOUS
<1>2. PICK x \in Bad : \A y \in Bad : x <= y
  <2> HIDE DEF Bad
  <2> QED BY <1>1, LeastNumber
<1>3. x \in Nat /\ x # 0 /\ x \notin T
  OBVIOUS
<1>4. x - 1 \in Nat /\ x - 1 \notin Bad /\ (x - 1) + 1 = x
  BY <1>2, <1>3
<1>5. x - 1 \in T
  BY <1>4
<1> QED BY <1>3, <1>4, <1>5

\* Walks exist ...
LEMMA WalkExists ==
  ASSUME NEW f, NEW first
  PROVE  \A k \in Nat : \E at : IsWalk(f, first, k, at)
<1> DEFINE T == {k \in Nat : \E at : IsWalk(f, first, k, at)}
<1>1. 0 \in T
  <2> DEFINE at == [i \in 0 .. 0 |-> first]
  <2>1. IsWalk(f, first, 0, at)
    BY DEF IsWalk
  <2> QED BY <2>1
<1>2. ASSUME NEW k \in Nat, k \in T PROVE k + 1 \in T
  <2>1. PICK at : IsWalk(f, first, k, at)
    BY <1>2
  <2> DEFINE new == [i \in 0 .. k + 1 |-> IF i <= k THEN at[i] ELSE Follow(f, at[k])]
  <2>2. \A i \in 0 .. k : at[i] = IF i = 0 THEN first ELSE Follow(f, at[i - 1])
    BY <2>1 DEF IsWalk, Follow
  <2>3. ASSUME NEW i \in 0 .. k + 1
        PROVE  new[i] = IF i = 0 THEN first
                        ELSE IF new[i - 1] \in Blocks THEN f[new[i - 1]] ELSE new[i - 1]
    <3>1. CASE i <= k
      <4>1. i \in 0 .. k /\ (i # 0 => i - 1 \in 0 .. k + 1 /\ i - 1 <= k)
        BY <3>1
      <4>2. new[i] = at[i] /\ (i # 0 => new[i - 1] = at[i - 1])
        BY <3>1, <4>1
      <4> QED BY <2>2, <4>1, <4>2 DEF Follow
    <3>2. CASE i = k + 1
      <4>1. ~(i <= k) /\ i # 0 /\ i - 1 = k /\ k \in 0 .. k + 1
        BY <3>2
      <4>2. new[i] = Follow(f, at[k]) /\ new[i - 1] = at[k]
        BY <4>1
      <4> QED BY <4>1, <4>2 DEF Follow
    <3> QED BY <3>1, <3>2
  <2>4. IsWalk(f, first, k + 1, new)
    BY <2>3 DEF IsWalk
  <2> HIDE DEF new
  <2> QED BY <2>4
<1>3. \A k \in Nat : k \in T
  <2> HIDE DEF T
  <2> QED BY <1>1, <1>2, Upward
<1> QED BY <1>3

\* ... and agree as far as both go.
LEMMA WalksAgree ==
  ASSUME NEW f, NEW first, NEW k \in Nat, NEW m \in Nat, k <= m,
         NEW a, IsWalk(f, first, k, a), NEW b, IsWalk(f, first, m, b)
  PROVE  a[k] = b[k]
<1> DEFINE T == {i \in Nat : i <= k => a[i] = b[i]}
<1>1. /\ \A i \in 0 .. k : a[i] = IF i = 0 THEN first ELSE Follow(f, a[i - 1])
      /\ \A i \in 0 .. m : b[i] = IF i = 0 THEN first ELSE Follow(f, b[i - 1])
  BY DEF IsWalk, Follow
<1>2. 0 \in T
  BY <1>1
<1>3. ASSUME NEW i \in Nat, i \in T PROVE i + 1 \in T
  <2> SUFFICES ASSUME i + 1 <= k PROVE a[i + 1] = b[i + 1]
    OBVIOUS
  <2>1. i <= k /\ i + 1 \in 0 .. k /\ i + 1 \in 0 .. m /\ i + 1 # 0 /\ (i + 1) - 1 = i
    OBVIOUS
  <2>2. a[i] = b[i]
    BY <1>3, <2>1
  <2>3. a[i + 1] = Follow(f, a[i]) /\ b[i + 1] = Follow(f, b[i])
    BY <1>1, <2>1
  <2> QED BY <2>2, <2>3
<1>4. k \in T
  <2> HIDE DEF T
  <2> QED BY <1>2, <1>3, Upward
<1> QED BY <1>4

\* ChainAt starts at the first block and follows one link per number.
LEMMA ChainIs ==
  ASSUME NEW f, NEW first
  PROVE  /\ ChainAt(f, first, 0) = first
         /\ \A k \in Nat : ChainAt(f, first, k + 1) = Follow(f, ChainAt(f, first, k))
<1> DEFINE W(k) == CHOOSE at : IsWalk(f, first, k, at)
<1>1. ASSUME NEW k \in Nat PROVE ChainAt(f, first, k) = W(k)[k]
  BY Zenon DEF ChainAt, IsWalk
<1>2. ASSUME NEW k \in Nat PROVE IsWalk(f, first, k, W(k))
  <2>1. \E at : IsWalk(f, first, k, at)
    BY WalkExists
  <2> QED BY <2>1
<1> HIDE DEF W
<1>3. ChainAt(f, first, 0) = first
  <2>1. IsWalk(f, first, 0, W(0))
    BY <1>2
  <2>2. W(0)[0] = first
    BY <2>1 DEF IsWalk
  <2> QED BY <1>1, <2>2
<1>4. ASSUME NEW k \in Nat PROVE ChainAt(f, first, k + 1) = Follow(f, ChainAt(f, first, k))
  <2>1. k + 1 \in Nat /\ k <= k + 1 /\ k + 1 \in 0 .. k + 1 /\ k + 1 # 0 /\ (k + 1) - 1 = k
    OBVIOUS
  <2>2. IsWalk(f, first, k, W(k)) /\ IsWalk(f, first, k + 1, W(k + 1))
    BY <1>2, <2>1
  <2>3. W(k)[k] = W(k + 1)[k]
    BY <2>1, <2>2, WalksAgree
  <2>4. W(k + 1)[k + 1] = Follow(f, W(k + 1)[k])
    BY <2>1, <2>2 DEF IsWalk, Follow
  <2>5. ChainAt(f, first, k) = W(k)[k] /\ ChainAt(f, first, k + 1) = W(k + 1)[k + 1]
    BY <1>1, <2>1
  <2> QED BY <2>3, <2>4, <2>5
<1> QED BY <1>3, <1>4

\* A walk that starts at no block stays there.
LEMMA StaysOutside ==
  ASSUME NEW f, NEW first, first \notin Blocks
  PROVE  \A k \in Nat : ChainAt(f, first, k) = first
<1> DEFINE T == {k \in Nat : ChainAt(f, first, k) = first}
<1>1. 0 \in T
  BY ChainIs
<1>2. ASSUME NEW k \in Nat, k \in T PROVE k + 1 \in T
  <2>1. ChainAt(f, first, k) = first
    BY <1>2
  <2>2. ChainAt(f, first, k + 1) = Follow(f, first)
    BY <2>1, ChainIs, SMTT(30)
  <2> QED BY <2>2 DEF Follow
<1>3. \A k \in Nat : k \in T
  <2> HIDE DEF T
  <2> QED BY <1>1, <1>2, Upward
<1> QED BY <1>3

\* Unique referrers keep the walks from two roots apart: the first block they had in
\* common would have two referrers.
LEMMA WalksApart ==
  ASSUME NEW root \in [Slots -> Link], NEW f \in [Blocks -> Link], Unique(root, f),
         NEW s \in Slots, NEW t \in Slots, s # t
  PROVE  \A j, k \in Nat :
           ChainAt(f, root[s], j) \in Blocks => ChainAt(f, root[s], j) # ChainAt(f, root[t], k)
<1> DEFINE C(k) == ChainAt(f, root[s], k)
           D(k) == ChainAt(f, root[t], k)
           T == {j \in Nat : \A k \in Nat : C(j) \in Blocks => C(j) # D(k)}
<1>a. C(0) = root[s] /\ \A k \in Nat : C(k + 1) = Follow(f, C(k))
  BY ChainIs, Zenon
<1>b. D(0) = root[t] /\ \A k \in Nat : D(k + 1) = Follow(f, D(k))
  BY ChainIs, Zenon
<1>1. /\ C(0) = root[s] /\ D(0) = root[t]
      /\ \A k \in Nat : C(k + 1) = Follow(f, C(k)) /\ D(k + 1) = Follow(f, D(k))
  BY <1>a, <1>b, Zenon
<1>p. ASSUME NEW k \in Nat, k # 0 PROVE \E m \in Nat : k = m + 1
  <2>1. k - 1 \in Nat /\ k = (k - 1) + 1
    BY <1>p
  <2> QED BY <2>1
<1> HIDE DEF C, D
<1>2. 0 \in T
  <2> SUFFICES ASSUME NEW k \in Nat, C(0) \in Blocks, C(0) = D(k) PROVE FALSE
    OBVIOUS
  <2>1. CASE k = 0
    BY <1>1, <2>1 DEF Unique
  <2>2. CASE k # 0
    <3>1. PICK m \in Nat : k = m + 1
      BY <1>p, <2>2
    <3>2. D(m) \in Blocks /\ f[D(m)] = root[s]
      BY <1>1, <3>1 DEF Follow
    <3> QED BY <1>1, <3>2 DEF Unique
  <2> QED BY <2>1, <2>2
<1>3. ASSUME NEW j \in Nat, j \in T PROVE j + 1 \in T
  <2> SUFFICES ASSUME NEW k \in Nat, C(j + 1) \in Blocks, C(j + 1) = D(k) PROVE FALSE
    OBVIOUS
  <2>0. C(j) \in Blocks /\ f[C(j)] = C(j + 1)
    BY <1>1 DEF Follow
  <2>1. CASE k = 0
    BY <1>1, <2>0, <2>1 DEF Unique
  <2>2. CASE k # 0
    <3>1. PICK m \in Nat : k = m + 1
      BY <1>p, <2>2
    <3>2. D(m) \in Blocks /\ f[D(m)] = f[C(j)]
      BY <1>1, <2>0, <3>1 DEF Follow
    <3>3. D(m) = C(j)
      BY <2>0, <3>2 DEF Unique
    <3> QED BY <1>3, <2>0, <3>3
  <2> QED BY <2>1, <2>2
<1>4. \A j \in Nat : j \in T
  <2> HIDE DEF T
  <2> QED BY <1>2, <1>3, Upward
<1> QED BY <1>4 DEF C, D


-------------------------------------------------------------------------------
(* Write faults without crashes.  A sync that fails leaves the image behind    *)
(* memory, in whatever mixture; but without a crash only fs_unmount makes      *)
(* memory follow the image again, and only after a sync that succeeded.        *)

InMemory == Linked(Roots, fat) \/ Blank(Roots, fat)
OnImage == Linked(Bare(dirDisk), fatDisk) \/ Blank(Bare(dirDisk), fatDisk)

FaultInv ==
  /\ TypeOK /\ Locals /\ Seen
  /\ IF mounted THEN InMemory ELSE OnImage
  /\ pc = "unmount" => dirDisk = dir /\ fatDisk = fat


\* allocate_data_block that fails to clear its block: the entry is taken and nobody
\* refers to it.
LEMMA NewOrphan ==
  ASSUME NEW root \in [Slots -> Link], NEW f \in [Blocks -> Link],
         NEW b \in Blocks, Linked(root, f), f[b] = FAT_FREE
  PROVE  Linked(root, [f EXCEPT ![b] = FAT_END])
BY DEF Linked, Unique, Blocks, Link, FAT_FREE, FAT_END

\* What a step can do to the chains in memory.
ChainChange ==
  \/ Roots' = Roots /\ fat' = fat
  \/ \E s \in Slots, b \in Blocks :
       /\ Roots[s] = FAT_END /\ fat[b] = FAT_FREE
       /\ Roots' = [Roots EXCEPT ![s] = b] /\ fat' = [fat EXCEPT ![b] = FAT_END]
  \/ \E b, c \in Blocks :
       /\ fat[b] = FAT_FREE /\ fat[c] = FAT_END
       /\ Roots' = Roots /\ fat' = [[fat EXCEPT ![b] = FAT_END] EXCEPT ![c] = b]
  \/ \E s \in Slots :
       /\ Roots[s] \in Blocks
       /\ Roots' = [Roots EXCEPT ![s] = fat[Roots[s]]]
       /\ fat' = [fat EXCEPT ![Roots[s]] = FAT_FREE]
  \/ /\ Faults
     /\ \E b \in Blocks : /\ fat[b] = FAT_FREE
                          /\ Roots' = Roots /\ fat' = [fat EXCEPT ![b] = FAT_END]

\* A step that starts and ends mounted changes at most one chain, in one of these ways.
LEMMA ChainSteps ==
  ASSUME TypeOK, Locals, Seen, InMemory, mounted, mounted', Next
  PROVE  ChainChange
<1>t. /\ r \in CallRec /\ r.slot \in Slots /\ r.cur \in Link
      /\ dir \in [Slots -> Entry] /\ fat \in [Blocks -> Link]
  BY DEF TypeOK, CallRec
<1>k. ASSUME fat' = fat, \A s \in Slots : Root(s)' = Root(s) PROVE ChainChange
  BY <1>k DEF ChainChange, Roots
<1>1. CASE UNCHANGED <<dir, fat>> /\ pc # "release" /\ pc' # "release"
  BY <1>k, <1>1 DEF Root
<1>2. CASE \E n \in Names, fl \in FlagChoices : OpenCreate(n, fl)
  <2>1. fat' = fat /\ pc # "release" /\ pc' # "release"
    BY <1>2 DEF OpenCreate, Begin
  <2>2. PICK n \in Names, s \in Slots :
          /\ ~dir[s].used
          /\ dir' = [dir EXCEPT ![s] = [used |-> TRUE, name |-> n, first |-> FAT_END, size |-> 0]]
    BY <1>2 DEF OpenCreate, IsLowest, FreeSlots
  <2> QED BY <1>k, <1>t, <2>1, <2>2 DEF Root
<1>3. CASE WriteEnd
  <2>1. /\ fat' = fat /\ pc # "release" /\ pc' # "release"
        /\ \E z : dir' = [dir EXCEPT ![r.slot].size = z]
    BY <1>3 DEF WriteEnd
  <2>2. \A s \in Slots : dir'[s].used = dir[s].used /\ dir'[s].first = dir[s].first
    BY <1>t, <2>1 DEF Entry
  <2> QED BY <1>k, <2>1, <2>2 DEF Root
<1>4. CASE TruncBegin
  <2>1. /\ dir' = dir /\ fat' = fat /\ pc = "trunc" /\ pc' = "release"
        /\ r'.cur = dir[r.slot].first /\ r'.slot = r.slot
    BY <1>t, <1>4 DEF TruncBegin, memory, CallRec
  <2> QED BY <1>k, <1>t, <2>1 DEF Root
<1>5. CASE ReleaseStep
  <2>1. pc = "release" /\ r.cur # FAT_END /\ dir' = dir /\ dir[r.slot].used
    BY <1>5 DEF ReleaseStep, Locals
  <2>2. Roots[r.slot] = r.cur
    BY <1>t, <2>1 DEF Roots, Root
  <2>3. r.cur \in Blocks
    BY <1>t, <2>1, <2>2 DEF InMemory, Blank, Linked, Unique, Link
  <2>s. r.step <= NumBlocks
    BY <2>1, SeenFits
  <2>4. /\ fat' = [fat EXCEPT ![r.cur] = FAT_FREE] /\ pc' = "release"
        /\ r'.cur = fat[r.cur] /\ r'.slot = r.slot
    BY <1>t, <1>5, <2>1, <2>3, <2>s DEF ReleaseStep, CallRec
  <2>5. Roots' = [Roots EXCEPT ![r.slot] = fat[r.cur]]
    BY <1>t, <2>1, <2>4 DEF Roots, Root
  <2> QED BY <1>t, <2>2, <2>3, <2>4, <2>5 DEF ChainChange
<1>6. CASE TruncEnd
  <2>1. /\ pc = "release" /\ r.cur = FAT_END /\ fat' = fat /\ pc' = "syncDir" /\ dir[r.slot].used
        /\ dir' = [dir EXCEPT ![r.slot].first = FAT_END, ![r.slot].size = 0]
    BY <1>6 DEF TruncEnd, Locals
  <2>2. dir' = [dir EXCEPT ![r.slot] = [dir[r.slot] EXCEPT !.first = FAT_END, !.size = 0]]
    BY <1>t, <2>1
  <2>3. /\ \A s \in Slots : dir'[s].used = dir[s].used
        /\ \A s \in Slots : s # r.slot => dir'[s].first = dir[s].first
        /\ dir'[r.slot].first = FAT_END
    BY <1>t, <2>2 DEF Entry
  <2> QED BY <1>k, <1>t, <2>1, <2>3 DEF Root
<1>7. ASSUME NEW b \in Blocks, fat[b] = FAT_FREE, fat' = [fat EXCEPT ![b] = FAT_END],
             Faults, Return, dir' = dir, pc \in {"resolve", "walk"}
      PROVE  ChainChange
  <2>1. Roots' = Roots
    BY <1>7 DEF Return, Roots, Root
  <2> QED BY <1>7, <2>1 DEF ChainChange
<1>8. CASE ResolveFirst
  <2>0. pc = "resolve" /\ dir[r.slot].used
    BY <1>8 DEF ResolveFirst, Locals
  <2>1. ASSUME NEW b \in Blocks, fat[b] = FAT_FREE, dir[r.slot].first = FAT_END,
               AsFirst(b, [fat EXCEPT ![b] = FAT_END])
        PROVE  ChainChange
    <3>1. /\ fat' = [fat EXCEPT ![b] = FAT_END] /\ pc' = "walk"
          /\ dir' = [dir EXCEPT ![r.slot] = [dir[r.slot] EXCEPT !.first = b]]
      BY <1>t, <2>1 DEF AsFirst
    <3>2. /\ \A s \in Slots : dir'[s].used = dir[s].used
          /\ \A s \in Slots : s # r.slot => dir'[s].first = dir[s].first
          /\ dir'[r.slot].first = b
      BY <1>t, <3>1 DEF Entry
    <3>3. Roots' = [Roots EXCEPT ![r.slot] = b] /\ Roots[r.slot] = FAT_END
      BY <1>t, <2>0, <2>1, <3>1, <3>2 DEF Roots, Root
    <3> QED BY <1>t, <2>1, <3>1, <3>3 DEF ChainChange
  <2>2. ASSUME UNCHANGED <<dir, fat>>, pc' \in {"idle", "walk"} PROVE ChainChange
    BY <1>1, <2>0, <2>2
  <2> QED BY <1>7, <1>8, <2>0, <2>1, <2>2 DEF ResolveFirst, AllocateWith, Return, IsLowest, FreeBlocks
<1>9. CASE ResolveNext
  <2>0. pc = "walk" /\ r.cur \in Blocks
    BY <1>9 DEF ResolveNext, Locals
  <2>1. ASSUME NEW b \in Blocks, fat[b] = FAT_FREE, fat[r.cur] = FAT_END,
               AsNext(b, [fat EXCEPT ![b] = FAT_END])
        PROVE  ChainChange
    <3>1. fat' = [[fat EXCEPT ![b] = FAT_END] EXCEPT ![r.cur] = b] /\ dir' = dir /\ pc' = "walk"
      BY <2>0, <2>1 DEF AsNext
    <3>2. Roots' = Roots
      BY <2>0, <3>1 DEF Roots, Root
    <3> QED BY <2>0, <2>1, <3>1, <3>2 DEF ChainChange
  <2>2. ASSUME UNCHANGED <<dir, fat>>, pc' \in {"idle", "walk"} PROVE ChainChange
    BY <1>1, <2>0, <2>2
  <2> QED BY <1>7, <1>9, <2>0, <2>1, <2>2 DEF ResolveNext, AllocateWith, Return, IsLowest, FreeBlocks
<1>10. CASE SyncDir \/ SyncFat
  <2>1. r.next \in {"idle", "unmount", "trunc", "takeFd"}
    BY <1>t DEF CallRec
  <2>2. UNCHANGED <<dir, fat>> /\ pc # "release" /\ pc' # "release"
    BY <1>10, <2>1, SMTT(30) DEF SyncDir, SyncFat, Return, memory
  <2> QED BY <1>1, <2>2
<1>11. CASE \/ fs_unmount \/ TakeFd \/ WriteChunk
            \/ \E n \in Names, fl \in FlagChoices : OpenFound(n, fl)
            \/ \E fd \in Fds : \/ fs_close(fd)
                               \/ \E off \in Offsets : fs_seek(fd, off)
                               \/ \E len \in Lens : fs_read(fd, len)
                               \/ \E len \in Lens, v \in Values : fs_write(fd, len, v)
  <2>1. UNCHANGED <<dir, fat>> /\ pc # "release" /\ pc' # "release"
    BY <1>11, ZenonT(60) DEF fs_unmount, TakeFd, WriteChunk, Return, OpenFound, AfterFound, fs_close, fs_seek,
                 fs_read, fs_write, Begin, memory
  <2> QED BY <1>1, <2>1
<1>12. ~fs_format_image /\ ~fs_mount /\ ~FormatStep /\ ~UnmountEnd /\ ~Crash
  BY DEF fs_format_image, fs_mount, FormatStep, UnmountEnd, Crash, Locals
<1> QED
  BY <1>2, <1>3, <1>4, <1>5, <1>6, <1>8, <1>9, <1>10, <1>11, <1>12 DEF Next, Call, Step, fs_open

\* What memory holds stays linked at every step that starts and ends mounted.
LEMMA MemoryStep ==
  ASSUME TypeOK, Locals, Seen, InMemory, mounted, mounted', Next
  PROVE  InMemory'
<1>1. Roots \in [Slots -> Link] /\ fat \in [Blocks -> Link]
  BY RootsType DEF TypeOK
<1>2. ChainChange
  BY ChainSteps
<1>3. CASE Roots' = Roots /\ fat' = fat
  BY <1>3 DEF InMemory
<1>4. CASE ~(Roots' = Roots /\ fat' = fat)
  <2>1. Linked(Roots, fat)
    BY <1>2, <1>4 DEF ChainChange, InMemory, Blank, Blocks, FAT_END
  <2>2. Linked(Roots', fat')
    BY <1>1, <1>2, <1>4, <2>1, NewRoot, NewLast, DropRoot, NewOrphan DEF ChainChange
  <2> QED BY <2>2 DEF InMemory
<1> QED BY <1>3, <1>4

\* Without crashes every step keeps the invariant, whichever writes fail.
LEMMA FaultStep ==
  ASSUME Crashes = FALSE
  PROVE  FaultInv /\ [Next]_vars => FaultInv'
<1> SUFFICES ASSUME FaultInv, Next
             PROVE  /\ IF mounted' THEN InMemory' ELSE OnImage'
                    /\ pc' = "unmount" => dirDisk' = dir' /\ fatDisk' = fat'
  <2>1. CASE UNCHANGED vars
    BY <2>1 DEF vars, FaultInv, TypeOK, Locals, Seen, FreeBlocks, Unwritten, InMemory, OnImage, Roots, Root, Bare
  <2>2. ASSUME FaultInv, Next PROVE Seen'
    BY <2>2, SeenStep DEF FaultInv, InMemory
  <2> QED BY <2>1, <2>2, TypeStep, LocalsStep DEF FaultInv
<1>t. r \in CallRec /\ r.next \in {"idle", "unmount", "trunc", "takeFd"}
  BY DEF FaultInv, TypeOK, CallRec
<1>1. pc' = "unmount" => dirDisk' = dir' /\ fatDisk' = fat'
  <2>1. CASE SyncFat
    BY <2>1 DEF SyncFat, Return, memory, FaultInv, Locals
  <2>2. CASE fs_format_image \/ FormatStep \/ fs_mount \/ fs_unmount \/ UnmountEnd \/ SyncDir
    BY <2>2 DEF fs_format_image, FormatStep, fs_mount, fs_unmount, UnmountEnd, SyncDir, Return, Begin
  <2>3. CASE \/ \E n \in Names, fl \in FlagChoices : fs_open(n, fl)
             \/ \E fd \in Fds : \/ fs_close(fd)
                                \/ \E off \in Offsets : fs_seek(fd, off)
                                \/ \E len \in Lens : fs_read(fd, len)
                                \/ \E len \in Lens, v \in Values : fs_write(fd, len, v)
    BY <2>3 DEF fs_open, OpenFound, OpenCreate, AfterFound, fs_close, fs_seek, fs_read, fs_write, Begin
  <2>4. CASE TruncBegin \/ ReleaseStep \/ TruncEnd \/ TakeFd \/ WriteChunk \/ WriteEnd
    BY <2>4 DEF TruncBegin, ReleaseStep, TruncEnd, TakeFd, WriteChunk, WriteEnd, Return
  <2>5. CASE ResolveFirst \/ ResolveNext
    BY <2>5 DEF ResolveFirst, ResolveNext, AllocateWith, AsFirst, AsNext, Return
  <2> QED BY <2>1, <2>2, <2>3, <2>4, <2>5 DEF Next, Call, Step, Crash
<1>2. CASE mounted /\ mounted'
  BY <1>1, <1>2, MemoryStep DEF FaultInv
<1>3. CASE mounted /\ ~mounted'
  <2>1. UnmountEnd
    BY <1>3, ZenonT(60) DEF Next, Call, Step, Crash, fs_format_image, fs_mount, fs_unmount, fs_open, OpenFound,
       OpenCreate, fs_close, fs_seek, fs_read, fs_write, FormatStep, SyncDir, SyncFat, TruncBegin,
       ReleaseStep, TruncEnd, TakeFd, ResolveFirst, ResolveNext, WriteChunk, WriteEnd, memory
  <2>2. /\ pc = "unmount" /\ UNCHANGED <<dirDisk, fatDisk>> /\ InMemory
        /\ dirDisk = dir /\ fatDisk = fat
    BY <1>3, <2>1 DEF UnmountEnd, image, FaultInv
  <2>3. Bare(dirDisk)' = Roots /\ fatDisk' = fat
    BY <2>2, RootsBare DEF Bare
  <2> QED BY <1>1, <1>3, <2>2, <2>3 DEF InMemory, OnImage
<1>4. CASE ~mounted /\ fs_mount
  <2>1. pc' = "idle" /\ UNCHANGED <<dirDisk, fatDisk>> /\ OnImage
    BY <1>4 DEF fs_mount, Begin, image, FaultInv
  <2>2. Bare(dirDisk)' = Bare(dirDisk)
    BY <2>1 DEF Bare
  <2>3. CASE mounted'
    <3>1. dir' = dirDisk /\ fat' = fatDisk
      BY <1>4, <2>3 DEF fs_mount
    <3>2. Roots' = Bare(dirDisk)
      BY <2>1, <3>1 DEF Roots, Root, Bare
    <3> QED BY <1>1, <2>1, <2>3, <3>1, <3>2 DEF InMemory, OnImage
  <2>4. CASE ~mounted'
    BY <1>1, <2>1, <2>2, <2>4 DEF OnImage
  <2> QED BY <2>3, <2>4
<1>5. CASE fs_format_image
  <2>1. ~mounted' /\ dirDisk' = ZeroDir /\ fatDisk' = ZeroFat
    BY <1>5 DEF fs_format_image, memory
  <2>2. Blank(Bare(dirDisk)', fatDisk')
    BY <2>1 DEF Blank, Bare, ZeroDir, ZeroFat, FAT_FREE
  <2> QED BY <1>1, <2>1, <2>2 DEF OnImage
<1>6. CASE FormatStep
  <2>1. ~mounted' /\ Blank(Bare(dirDisk), fatDisk)
    BY <1>6 DEF FormatStep, memory, FaultInv, Locals, Unwritten
  <2>2. /\ dirDisk' \in {dirDisk, FormattedDir}
        /\ fatDisk' \in {fatDisk, FormattedFat}
    BY <1>6 DEF FormatStep
  <2>3. \A s \in Slots : Bare(dirDisk)'[s] = FAT_END
    BY <2>1, <2>2 DEF Blank, Bare, FormattedDir, ZeroDir
  <2>4. CASE fatDisk' = fatDisk
    BY <1>1, <2>1, <2>3, <2>4 DEF Blank, OnImage
  <2>5. CASE fatDisk' = FormattedFat
    <3>1. Linked(Bare(dirDisk)', fatDisk')
      BY <2>3, <2>5 DEF Linked, Unique, FormattedFat, Blocks, FAT_FREE, FAT_END
    <3> QED BY <1>1, <2>1, <3>1 DEF OnImage
  <2> QED BY <2>2, <2>4, <2>5
<1>7. CASE ~mounted /\ ~fs_mount /\ ~fs_format_image /\ ~FormatStep
  <2>1. FALSE
    BY <1>7, ZenonT(60) DEF Next, Call, Step, Crash, fs_unmount, fs_open, OpenFound,
       OpenCreate, fs_close, fs_seek, fs_read, fs_write, SyncDir, SyncFat, UnmountEnd, TruncBegin,
       ReleaseStep, TruncEnd, TakeFd, ResolveFirst, ResolveNext, WriteChunk, WriteEnd, FaultInv, Locals
  <2> QED BY <2>1
<1>8. IF mounted' THEN InMemory' ELSE OnImage'
  BY <1>2, <1>3, <1>4, <1>5, <1>6, <1>7, Zenon
<1> QED BY <1>1, <1>8, Zenon

\* A formatted image is linked.
LEMMA FaultInit == Init => FaultInv
<1> SUFFICES ASSUME Init PROVE Locals /\ OnImage /\ ~mounted /\ pc = "idle"
  BY InitTypes DEF FaultInv, Seen
<1>1. Linked(Bare(dirDisk), fatDisk)
  BY DEF Init, Linked, Unique, Bare, FormattedDir, FormattedFat, ZeroDir, Blocks, FAT_FREE, FAT_END
<1> QED BY <1>1 DEF Init, Locals, OnImage


\* No block of a mounted image ever has two referrers, and no referrer names a free
\* block: fs_open and fs_write keep chains apart, and fs_mount accepts nothing else
\* from whatever a crash inside fs_write, fs_open, fs_unmount or fs_format_image left,
\* or from an image closed after any writes failed.  (Write faults and crashes in one
\* behaviour break it: a crash after a failed sync can leave a directory and a FAT
\* that were never in memory together.)
THEOREM ChainsStayApart == ASSUME ~(Faults /\ Crashes) PROVE Spec => []OneReferrer
<1>1. CASE Faults = FALSE
  <2>1. IInv => OneReferrer
    BY DEF IInv, Sound, Unwritten, OneReferrer
  <2> QED BY <1>1, <2>1, InductiveInvariant, PTL
<1>2. CASE Crashes = FALSE
  <2>1. FaultInv => OneReferrer
    BY DEF FaultInv, InMemory, OneReferrer
  <2>2. FaultInv /\ [Next]_vars => FaultInv'
    BY <1>2, FaultStep
  <2> QED BY <2>1, <2>2, FaultInit, PTL DEF Spec
<1>3. Faults = FALSE \/ Crashes = FALSE
  OBVIOUS
<1> QED BY <1>1, <1>2, <1>3

\* No data block belongs to the chains of two files, at any step of any call: fs_write
\* into one file never changes the bytes of another.
THEOREM FilesStayApart == ASSUME ~(Faults /\ Crashes) PROVE Spec => []FilesDisjoint
<1>1. TypeOK /\ OneReferrer => FilesDisjoint
  <2> SUFFICES ASSUME TypeOK, OneReferrer, mounted, NEW s \in Slots, NEW t \in Slots, s # t,
                      NEW j \in Nat, NEW k \in Nat,
                      ChainAt(fat, Root(s), j) \in Blocks,
                      ChainAt(fat, Root(s), j) = ChainAt(fat, Root(t), k)
               PROVE  FALSE
    BY DEF FilesDisjoint, ChainOf
  <2>1. /\ Roots \in [Slots -> Link] /\ fat \in [Blocks -> Link]
        /\ Roots[s] = Root(s) /\ Roots[t] = Root(t)
    BY RootsType DEF TypeOK, Roots
  <2>2. CASE Linked(Roots, fat)
    BY <2>1, <2>2, WalksApart DEF Linked
  <2>3. CASE Blank(Roots, fat)
    <3>1. Root(s) \notin Blocks
      BY <2>1, <2>3 DEF Blank, Blocks, FAT_END
    <3> QED BY <3>1, StaysOutside
  <2> QED BY <2>2, <2>3 DEF OneReferrer
<1> QED BY <1>1, TypeCorrect, ChainsStayApart, PTL


-------------------------------------------------------------------------------
(* No block is lost.  A taken block is some number of links away from a root.  *)

Owned(root, f) ==
  \A b \in Blocks : f[b] # FAT_FREE => \E s \in Slots, k \in Nat : ChainAt(f, root[s], k) = b

\* FaultInv without faults: what is mounted, or was formatted or unmounted to the end,
\* has no taken block without an owner.
LeakInv ==
  /\ FaultInv
  /\ IF mounted THEN Owned(Roots, fat)
     ELSE pc \notin {"fmtSuper", "fmtDir", "fmtFat"} => Owned(Bare(dirDisk), fatDisk)

\* A change of links that a walk does not use leaves its blocks where they are.
LEMMA WalkKept ==
  ASSUME NEW f, NEW g, NEW first,
         \A k \in Nat : ChainAt(f, first, k) \in Blocks /\ ChainAt(f, first, k + 1) \in Blocks
                          => g[ChainAt(f, first, k)] = f[ChainAt(f, first, k)]
  PROVE  \A k \in Nat : ChainAt(f, first, k) \in Blocks
                          => ChainAt(g, first, k) = ChainAt(f, first, k)
<1> DEFINE C(k) == ChainAt(f, first, k)
           D(k) == ChainAt(g, first, k)
           T == {k \in Nat : C(k) \in Blocks => D(k) = C(k)}
<1>1. C(0) = first /\ \A k \in Nat : C(k + 1) = Follow(f, C(k))
  BY ChainIs, Zenon
<1>2. D(0) = first /\ \A k \in Nat : D(k + 1) = Follow(g, D(k))
  BY ChainIs, Zenon
<1>3. \A k \in Nat : C(k) \in Blocks /\ C(k + 1) \in Blocks => g[C(k)] = f[C(k)]
  OBVIOUS
<1> HIDE DEF C, D
<1>4. 0 \in T
  BY <1>1, <1>2
<1>5. ASSUME NEW k \in Nat, k \in T PROVE k + 1 \in T
  <2> SUFFICES ASSUME C(k + 1) \in Blocks PROVE D(k + 1) = C(k + 1)
    OBVIOUS
  <2>1. C(k) \in Blocks /\ C(k + 1) = f[C(k)]
    BY <1>1 DEF Follow
  <2>2. D(k) = C(k)
    BY <1>5, <2>1
  <2>3. D(k + 1) = g[C(k)]
    BY <1>2, <2>1, <2>2 DEF Follow
  <2> QED BY <1>3, <2>1, <2>3
<1>6. \A k \in Nat : k \in T
  <2> HIDE DEF T
  <2> QED BY <1>4, <1>5, Upward
<1> QED BY <1>6 DEF C, D

\* Two walks that meet go on together.
LEMMA WalksMeet ==
  ASSUME NEW f, NEW x, NEW y, NEW i \in Nat, NEW j \in Nat,
         ChainAt(f, x, i) = ChainAt(f, y, j),
         NEW p \in Nat, NEW q \in Nat, p >= i, p - i = q - j
  PROVE  ChainAt(f, x, p) = ChainAt(f, y, q)
<1> DEFINE C(k) == ChainAt(f, x, k)
           D(k) == ChainAt(f, y, k)
           T == {m \in Nat : C(i + m) = D(j + m)}
<1>1. \A k \in Nat : C(k + 1) = Follow(f, C(k))
  BY ChainIs, ZenonT(60)
<1>2. \A k \in Nat : D(k + 1) = Follow(f, D(k))
  BY ChainIs, ZenonT(60)
<1>3. C(i) = D(j)
  OBVIOUS
<1> HIDE DEF C, D
<1>4. 0 \in T
  BY <1>3
<1>5. ASSUME NEW m \in Nat, m \in T PROVE m + 1 \in T
  <2>1. /\ i + m \in Nat /\ i + (m + 1) = (i + m) + 1
        /\ j + m \in Nat /\ j + (m + 1) = (j + m) + 1
    OBVIOUS
  <2>2. C(i + (m + 1)) = Follow(f, C(i + m)) /\ D(j + (m + 1)) = Follow(f, D(j + m))
    BY <1>1, <1>2, <2>1
  <2> QED BY <1>5, <2>2
<1>6. \A m \in Nat : m \in T
  <2> HIDE DEF T
  <2> QED BY <1>4, <1>5, Upward
<1>7. p - i \in Nat /\ p = i + (p - i) /\ q = j + (p - i)
  OBVIOUS
<1>8. C(p) = D(q)
  BY <1>6, <1>7
<1> QED BY <1>8 DEF C, D

\* A walk reaches every block that it reaches within as many links as there are blocks.
LEMMA ReachedSoon ==
  ASSUME NEW f, NEW first, NEW k \in Nat, ChainAt(f, first, k) \in Blocks
  PROVE  \E m \in 0 .. NumBlocks : ChainAt(f, first, m) = ChainAt(f, first, k)
<1> DEFINE C(i) == ChainAt(f, first, i)
           T == {i \in Nat : C(i) = C(k)}
<1>1. PICK m \in T : \A i \in T : m <= i
  <2>1. T \subseteq Nat /\ T # {}
    OBVIOUS
  <2> HIDE DEF T
  <2> QED BY <2>1, LeastNumber
<1>2. m \in Nat /\ C(m) = C(k) /\ C(m) \in Blocks
  OBVIOUS
<1>n. \A i \in Nat : C(i) = C(k) => m <= i
  BY <1>1
<1>3. \A i \in Nat : i <= m => C(i) \in Blocks
  <2> SUFFICES ASSUME NEW i \in Nat, i <= m, C(i) \notin Blocks PROVE FALSE
    OBVIOUS
  <2>1. m - i \in Nat /\ i + (m - i) = m /\ 0 + (m - i) = m - i
    BY <1>2
  <2>2. \A n \in Nat : ChainAt(f, C(i), n) = C(i)
    BY StaysOutside
  <2>3. ChainAt(f, C(i), 0) = ChainAt(f, first, i)
    BY ChainIs, Zenon
  <2>4. ChainAt(f, first, m) = ChainAt(f, C(i), m - i)
    <3>1. 0 \in Nat /\ m - i \in Nat /\ m >= i /\ m - i = (m - i) - 0
      BY <1>2, <2>1
    <3>2. \A y : ChainAt(f, first, i) = ChainAt(f, y, 0)
                   => ChainAt(f, first, m) = ChainAt(f, y, m - i)
      BY <1>2, <3>1, WalksMeet
    <3> HIDE DEF C
    <3> QED BY <2>3, <3>2
  <2>5. C(m) = C(i)
    BY <2>1, <2>2, <2>4
  <2> QED BY <1>2, <2>5
<1>4. ASSUME NEW i \in Nat, NEW j \in Nat, i < j, j <= m, C(i) = C(j) PROVE FALSE
  <2>2. i + (m - j) \in Nat /\ i + (m - j) < m /\ i + (m - j) >= i /\ (i + (m - j)) - i = m - j
    BY <1>2, <1>4
  <2>3. C(i + (m - j)) = C(m)
    BY <1>2, <1>4, <2>2, WalksMeet
  <2> QED BY <1>2, <1>n, <2>2, <2>3
<1> HIDE DEF C, T
<1>5. m <= NumBlocks
  <2> SUFFICES ASSUME m > NumBlocks PROVE FALSE
    BY <1>2
  <2> DEFINE h == [i \in 0 .. NumBlocks |-> C(i)]
  <2>1. h \in [0 .. NumBlocks -> Blocks]
    BY <1>2, <1>3
  <2>2. /\ IsFiniteSet(0 .. NumBlocks) /\ Cardinality(0 .. NumBlocks) = NumBlocks + 1
    BY FS_Interval
  <2>3. IsFiniteSet(Blocks) /\ Cardinality(Blocks) = NumBlocks
    BY FS_Interval DEF Blocks
  <2>4. \E i, j \in 0 .. NumBlocks : i # j /\ h[i] = h[j]
    <3> HIDE DEF h
    <3> QED BY <2>1, <2>2, <2>3, FS_PigeonHole
  <2>5. PICK i \in 0 .. NumBlocks, j \in 0 .. NumBlocks : i # j /\ C(i) = C(j)
    BY <2>4
  <2>6. (i < j \/ j < i) /\ i <= m /\ j <= m /\ i \in Nat /\ j \in Nat
    BY <1>2, <2>5
  <2> QED BY <1>4, <2>5, <2>6
<1>6. m \in 0 .. NumBlocks
  BY <1>2, <1>5
<1> QED BY <1>2, <1>6 DEF C


\* Links that lead to a block and stay, stay on every walk.
LEMMA OwnersKept ==
  ASSUME NEW root, NEW f, NEW g, \A d \in Blocks : f[d] \in Blocks => g[d] = f[d],
         NEW s \in Slots, NEW k \in Nat, ChainAt(f, root[s], k) \in Blocks
  PROVE  ChainAt(g, root[s], k) = ChainAt(f, root[s], k)
<1>1. \A j \in Nat : ChainAt(f, root[s], j + 1) = Follow(f, ChainAt(f, root[s], j))
  BY ChainIs, Zenon
<1>2. \A j \in Nat : ChainAt(f, root[s], j) \in Blocks /\ ChainAt(f, root[s], j + 1) \in Blocks
                       => g[ChainAt(f, root[s], j)] = f[ChainAt(f, root[s], j)]
  BY <1>1 DEF Follow
<1> QED BY <1>2, WalkKept

\* The new block of an empty file is its root.
LEMMA OwnedNewRoot ==
  ASSUME NEW root \in [Slots -> Link], NEW f \in [Blocks -> Link],
         NEW s \in Slots, NEW b \in Blocks,
         Owned(root, f), f[b] = FAT_FREE, root[s] = FAT_END
  PROVE  Owned([root EXCEPT ![s] = b], [f EXCEPT ![b] = FAT_END])
<1> DEFINE g == [f EXCEPT ![b] = FAT_END]
           new == [root EXCEPT ![s] = b]
<1> SUFFICES ASSUME NEW c \in Blocks, g[c] # FAT_FREE
             PROVE  \E t \in Slots, k \in Nat : ChainAt(g, new[t], k) = c
  BY DEF Owned
<1>1. /\ \A d \in Blocks : f[d] \in Blocks => g[d] = f[d]
      /\ c # b => f[c] # FAT_FREE
      /\ new[s] = b /\ \A t \in Slots : t # s => new[t] = root[t]
      /\ FAT_END \notin Blocks
  BY DEF Blocks, FAT_FREE, FAT_END
<1> HIDE DEF g, new
<1>2. CASE c = b
  <2>1. ChainAt(g, new[s], 0) = c
    BY <1>1, <1>2, ChainIs
  <2> QED BY <2>1
<1>3. CASE c # b
  <2>1. PICK t \in Slots, k \in Nat : ChainAt(f, root[t], k) = c
    BY <1>1, <1>3 DEF Owned
  <2>2. t # s
    BY <1>1, <2>1, StaysOutside
  <2>3. ChainAt(g, root[t], k) = c
    BY <1>1, <2>1, OwnersKept
  <2> QED BY <1>1, <2>2, <2>3
<1> QED BY <1>2, <1>3

\* The new block at the end of a chain is one link behind the last.
LEMMA OwnedNewLast ==
  ASSUME NEW root \in [Slots -> Link], NEW f \in [Blocks -> Link],
         NEW b \in Blocks, NEW c \in Blocks,
         Owned(root, f), f[b] = FAT_FREE, f[c] = FAT_END
  PROVE  Owned(root, [[f EXCEPT ![b] = FAT_END] EXCEPT ![c] = b])
<1> DEFINE g == [[f EXCEPT ![b] = FAT_END] EXCEPT ![c] = b]
<1> SUFFICES ASSUME NEW d \in Blocks, g[d] # FAT_FREE
             PROVE  \E t \in Slots, k \in Nat : ChainAt(g, root[t], k) = d
  BY DEF Owned
<1>1. /\ \A e \in Blocks : f[e] \in Blocks => g[e] = f[e]
      /\ d # b => f[d] # FAT_FREE
      /\ g[c] = b /\ f[c] # FAT_FREE
  BY DEF Blocks, FAT_FREE, FAT_END
<1> HIDE DEF g
<1>2. ASSUME NEW e \in Blocks, f[e] # FAT_FREE
      PROVE  \E t \in Slots, k \in Nat : ChainAt(g, root[t], k) = e
  <2>1. PICK t \in Slots, k \in Nat : ChainAt(f, root[t], k) = e
    BY <1>2 DEF Owned
  <2>2. ChainAt(g, root[t], k) = e
    BY <1>1, <2>1, OwnersKept
  <2> QED BY <2>2
<1>3. CASE d = b
  <2>1. PICK t \in Slots, k \in Nat : ChainAt(g, root[t], k) = c
    BY <1>1, <1>2
  <2>2. ChainAt(g, root[t], k + 1) = Follow(g, c)
    <3>1. \A j \in Nat : ChainAt(g, root[t], j + 1) = Follow(g, ChainAt(g, root[t], j))
      BY ChainIs, Zenon
    <3> QED BY <2>1, <3>1
  <2>3. ChainAt(g, root[t], k + 1) = d /\ k + 1 \in Nat
    BY <1>1, <1>3, <2>2 DEF Follow
  <2> QED BY <2>3
<1>4. CASE d # b
  BY <1>1, <1>2, <1>4
<1> QED BY <1>3, <1>4

\* One turn of release_chain: the walk from the root loses its first block only, and
\* no walk comes back to that block.
LEMMA OwnedDropRoot ==
  ASSUME NEW root \in [Slots -> Link], NEW f \in [Blocks -> Link],
         NEW s \in Slots, Linked(root, f), Owned(root, f), root[s] \in Blocks
  PROVE  Owned([root EXCEPT ![s] = f[root[s]]], [f EXCEPT ![root[s]] = FAT_FREE])
<1> DEFINE x == root[s]
           g == [f EXCEPT ![x] = FAT_FREE]
           new == [root EXCEPT ![s] = f[x]]
<1> SUFFICES ASSUME NEW d \in Blocks, g[d] # FAT_FREE
             PROVE  \E t \in Slots, k \in Nat : ChainAt(g, new[t], k) = d
  BY DEF Owned
<1>1. /\ d # x /\ f[d] # FAT_FREE /\ \A e \in Blocks : e # x => g[e] = f[e]
      /\ new[s] = f[x] /\ \A t \in Slots : t # s => new[t] = root[t]
      /\ x \in Blocks /\ x = root[s]
  OBVIOUS
<1>2. Unique(root, f)
  BY DEF Linked
<1> HIDE DEF x, g, new
<1>3. PICK t \in Slots, k \in Nat : ChainAt(f, root[t], k) = d
  BY <1>1 DEF Owned
<1>4. ASSUME NEW y, \A j \in Nat : ChainAt(f, y, j) # x, NEW j \in Nat, ChainAt(f, y, j) \in Blocks
      PROVE  ChainAt(g, y, j) = ChainAt(f, y, j)
  <2>1. \A i \in Nat : ChainAt(f, y, i) \in Blocks /\ ChainAt(f, y, i + 1) \in Blocks
                         => g[ChainAt(f, y, i)] = f[ChainAt(f, y, i)]
    BY <1>1, <1>4
  <2> QED BY <1>4, <2>1, WalkKept
<1>5. CASE t # s
  <2>1. \A j \in Nat : ChainAt(f, root[t], j) # x
    <3> SUFFICES ASSUME NEW j \in Nat, ChainAt(f, root[t], j) = x PROVE FALSE
      OBVIOUS
    <3>1. ChainAt(f, root[s], 0) = x
      BY <1>1, ChainIs
    <3>2. 0 \in Nat
      OBVIOUS
    <3> QED BY <1>1, <1>2, <1>5, <3>1, <3>2, WalksApart
  <2>2. ChainAt(g, root[t], k) = d
    BY <1>3, <1>4, <2>1
  <2> QED BY <1>1, <1>5, <2>2
<1>6. CASE t = s
  <2>1. ChainAt(f, x, 0) = x /\ \A j \in Nat : ChainAt(f, x, j + 1) = Follow(f, ChainAt(f, x, j))
    BY ChainIs, Zenon
  <2>2. ChainAt(f, x, 0 + 1) = f[x]
    BY <1>1, <2>1 DEF Follow
  <2>3. ChainAt(f, f[x], 0) = ChainAt(f, x, 1)
    BY <2>2, ChainIs
  <2>4. ASSUME NEW j \in Nat PROVE ChainAt(f, f[x], j) = ChainAt(f, x, j + 1)
    <3>1. 0 \in Nat /\ 1 \in Nat /\ j + 1 \in Nat /\ j >= 0 /\ j - 0 = (j + 1) - 1
      OBVIOUS
    <3>2. \A y : ChainAt(f, y, 0) = ChainAt(f, x, 1) => ChainAt(f, y, j) = ChainAt(f, x, j + 1)
      BY <3>1, WalksMeet
    <3> QED BY <2>3, <3>2
  <2>5. \A j \in Nat : ChainAt(f, f[x], j) # x
    <3> SUFFICES ASSUME NEW j \in Nat, ChainAt(f, x, j + 1) = x PROVE FALSE
      BY <2>4
    <3>1. ChainAt(f, x, j) \in Blocks /\ f[ChainAt(f, x, j)] = x
      BY <1>1, <2>1 DEF Follow
    <3> QED BY <1>1, <1>2, <3>1 DEF Unique
  <2>6. ChainAt(f, x, k) = d
    BY <1>1, <1>3, <1>6
  <2>7. k # 0
    BY <1>1, <2>1, <2>6
  <2>8. k - 1 \in Nat /\ (k - 1) + 1 = k
    BY <2>7
  <2>9. ChainAt(f, f[x], k - 1) = d
    BY <2>4, <2>6, <2>8
  <2>10. ChainAt(g, f[x], k - 1) = d
    BY <1>4, <2>5, <2>8, <2>9
  <2> QED BY <1>1, <2>8, <2>10
<1> QED BY <1>5, <1>6

\* A blank image has taken blocks and no owners.
LEMMA OwnedIsLinked ==
  ASSUME NEW root, NEW f, Linked(root, f) \/ Blank(root, f), Owned(root, f)
  PROVE  Linked(root, f)
<1> SUFFICES ASSUME Blank(root, f) PROVE FALSE
  OBVIOUS
<1>1. 0 \in Blocks /\ FAT_END \notin Blocks
  BY DEF Blocks, FAT_END
<1>2. PICK s \in Slots, k \in Nat : ChainAt(f, root[s], k) = 0
  BY <1>1 DEF Blank, Owned
<1>3. root[s] = FAT_END
  BY DEF Blank
<1> QED BY <1>1, <1>2, <1>3, StaysOutside


\* Every taken block of a mounted image keeps an owner, at every step.
LEMMA OwnedStep ==
  ASSUME TypeOK, Locals, Seen, InMemory, Owned(Roots, fat), mounted, mounted', Next, Faults = FALSE
  PROVE  Owned(Roots', fat')
<1>1. /\ Roots \in [Slots -> Link] /\ fat \in [Blocks -> Link] /\ Linked(Roots, fat)
  BY RootsType, OwnedIsLinked DEF TypeOK, InMemory
<1>2. ChainChange
  BY ChainSteps
<1> QED BY <1>1, <1>2, OwnedNewRoot, OwnedNewLast, OwnedDropRoot DEF ChainChange

\* Without faults and crashes every step keeps the owners.
LEMMA LeakStep ==
  ASSUME Faults = FALSE, Crashes = FALSE
  PROVE  LeakInv /\ [Next]_vars => LeakInv'
<1> DEFINE Fmt == {"fmtSuper", "fmtDir", "fmtFat"}
<1> SUFFICES ASSUME LeakInv, Next
             PROVE  IF mounted' THEN Owned(Roots', fat')
                    ELSE pc' \notin Fmt => Owned(Bare(dirDisk)', fatDisk')
  <2>1. CASE UNCHANGED vars
    <3>1. /\ mounted' = mounted /\ pc' = pc /\ fat' = fat /\ fatDisk' = fatDisk
          /\ Roots' = Roots /\ Bare(dirDisk)' = Bare(dirDisk)
      BY <2>1 DEF vars, Roots, Root, Bare
    <3> QED BY <2>1, <3>1, FaultStep DEF LeakInv, Owned
  <2> QED BY <2>1, FaultStep DEF LeakInv, Owned
<1>0. TypeOK /\ Locals /\ Seen
  BY DEF LeakInv, FaultInv
<1>1. CASE mounted /\ mounted'
  <2>1. InMemory /\ Owned(Roots, fat)
    BY <1>1 DEF LeakInv, FaultInv
  <2> QED BY <1>0, <1>1, <2>1, OwnedStep
<1>2. CASE mounted /\ ~mounted'
  <2>1. UnmountEnd
    BY <1>2, ZenonT(60) DEF Next, Call, Step, Crash, fs_format_image, fs_mount, fs_unmount, fs_open, OpenFound,
       OpenCreate, fs_close, fs_seek, fs_read, fs_write, FormatStep, SyncDir, SyncFat, TruncBegin,
       ReleaseStep, TruncEnd, TakeFd, ResolveFirst, ResolveNext, WriteChunk, WriteEnd, memory
  <2>2. /\ pc = "unmount" /\ UNCHANGED <<dirDisk, fatDisk>> /\ Owned(Roots, fat)
        /\ dirDisk = dir /\ fatDisk = fat
    BY <1>2, <2>1 DEF UnmountEnd, image, LeakInv, FaultInv
  <2>3. Bare(dirDisk)' = Roots /\ fatDisk' = fat
    BY <2>2, RootsBare DEF Bare
  <2> QED BY <1>2, <2>2, <2>3
<1>3. CASE ~mounted /\ fs_mount
  <2>1. /\ pc = "idle" /\ pc' = "idle" /\ UNCHANGED <<dirDisk, fatDisk>>
        /\ Owned(Bare(dirDisk), fatDisk)
    BY <1>3 DEF fs_mount, Begin, image, LeakInv
  <2>2. Bare(dirDisk)' = Bare(dirDisk)
    BY <2>1 DEF Bare
  <2>3. ASSUME mounted' PROVE Roots' = Bare(dirDisk) /\ fat' = fatDisk
    BY <1>3, <2>1, <2>3 DEF fs_mount, Roots, Root, Bare
  <2> QED BY <2>1, <2>2, <2>3
<1>4. CASE fs_format_image
  BY <1>4 DEF fs_format_image, memory
<1>5. CASE FormatStep
  <2>1. ~mounted' /\ (pc' \notin Fmt => fatDisk' = FormattedFat)
    BY <1>0, <1>5 DEF FormatStep, memory, Locals
  <2>2. ASSUME fatDisk' = FormattedFat PROVE Owned(Bare(dirDisk)', fatDisk')
    BY <2>2 DEF Owned, FormattedFat
  <2> QED BY <2>1, <2>2
<1>6. CASE ~mounted /\ ~fs_mount /\ ~fs_format_image /\ ~FormatStep
  <2>1. FALSE
    BY <1>0, <1>6, ZenonT(60) DEF Next, Call, Step, Crash, fs_unmount, fs_open, OpenFound,
       OpenCreate, fs_close, fs_seek, fs_read, fs_write, SyncDir, SyncFat, UnmountEnd, TruncBegin,
       ReleaseStep, TruncEnd, TakeFd, ResolveFirst, ResolveNext, WriteChunk, WriteEnd, Locals
  <2> QED BY <2>1
<1> QED BY <1>1, <1>2, <1>3, <1>4, <1>5, <1>6

\* A formatted image has no taken block.
LEMMA LeakInit == Init => LeakInv
<1> SUFFICES ASSUME Init PROVE ~mounted /\ Owned(Bare(dirDisk), fatDisk)
  BY FaultInit DEF LeakInv
<1> QED BY DEF Init, Owned, FormattedFat

\* No sequence of calls that is not interrupted and meets no write error leaks a block,
\* calls that run out of space or of directory entries included: every FAT entry that
\* is taken between calls lies on the chain of some file.
THEOREM NothingLeaks == ASSUME Faults = FALSE, Crashes = FALSE PROVE Spec => []NoLeak
<1>1. LeakInv => NoLeak
  <2> SUFFICES ASSUME LeakInv, mounted, NEW b \in Blocks, fat[b] # FAT_FREE
               PROVE  \E s \in Slots : b \in ChainOf(s)
    BY DEF NoLeak
  <2>1. PICK s \in Slots, k \in Nat : ChainAt(fat, Roots[s], k) = b
    BY DEF LeakInv, Owned
  <2>2. Roots[s] = Root(s)
    BY DEF Roots
  <2>3. \E m \in 0 .. NumBlocks : ChainAt(fat, Root(s), m) = b
    BY <2>1, <2>2, ReachedSoon
  <2>4. b \in ChainOf(s)
    BY <2>3 DEF ChainOf
  <2> QED BY <2>4
<1>2. LeakInv /\ [Next]_vars => LeakInv'
  BY LeakStep
<1> QED BY <1>1, <1>2, LeakInit, PTL DEF Spec

-------------------------------------------------------------------------------
(* What is durable.  Saved is Durable made inductive: the chain in memory       *)
(* covers the size of every file, and the walk of fs_write is where its step    *)
(* counter says, so that the size it ends with is covered as well.              *)

Covers(f, first, n) == \A k \in 0 .. n - 1 : ChainAt(f, first, k) \in Blocks
Covered(s) == Covers(fat, dir[s].first, BlocksFor(dir[s].size))

Saved ==
  mounted =>
    /\ \A s \in Slots : dir[s].used /\ ~(s = r.slot /\ pc \in {"release", "syncDir", "syncFat"})
                          => SameOnImage(s)
    /\ \A s \in Slots : dir[s].used /\ ~(s = r.slot /\ pc = "release") => Covered(s)
    /\ pc = "walk" => ChainAt(fat, dir[r.slot].first, r.step) = r.cur
    /\ pc = "size" => Covers(fat, dir[r.slot].first, BlocksFor(open[r.fd].offset))

\* A walk that is on a block has been on blocks before.
LEMMA BlocksBefore ==
  ASSUME NEW f, NEW first, NEW n \in Nat, ChainAt(f, first, n) \in Blocks
  PROVE  \A k \in 0 .. n : ChainAt(f, first, k) \in Blocks
<1> DEFINE C(k) == ChainAt(f, first, k)
           T == {k \in Nat : k <= n => C(n - k) \in Blocks}
<1>1. \A k \in Nat : C(k + 1) = Follow(f, C(k))
  BY ChainIs, ZenonT(60)
<1>2. C(n) \in Blocks
  OBVIOUS
<1> HIDE DEF C
<1>3. 0 \in T
  BY <1>2
<1>4. ASSUME NEW k \in Nat, k \in T PROVE k + 1 \in T
  <2> SUFFICES ASSUME k + 1 <= n PROVE C(n - (k + 1)) \in Blocks
    OBVIOUS
  <2>1. n - (k + 1) \in Nat /\ (n - (k + 1)) + 1 = n - k
    OBVIOUS
  <2>2. C(n - k) \in Blocks
    BY <1>4
  <2>3. C(n - k) = Follow(f, C(n - (k + 1)))
    BY <1>1, <2>1
  <2> QED BY <2>2, <2>3 DEF Follow
<1>5. \A k \in Nat : k \in T
  <2> HIDE DEF T
  <2> QED BY <1>3, <1>4, Upward
<1>6. ASSUME NEW k \in 0 .. n PROVE C(k) \in Blocks
  <2>1. n - k \in Nat /\ n - k <= n /\ n - (n - k) = k
    OBVIOUS
  <2> QED BY <1>5, <2>1
<1> QED BY <1>6 DEF C

\* Links that lead to a block and stay keep what a chain covers.
LEMMA CoverKept ==
  ASSUME NEW f, NEW g, \A d \in Blocks : f[d] \in Blocks => g[d] = f[d],
         NEW first, NEW n \in Nat, Covers(f, first, n)
  PROVE  /\ Covers(g, first, n)
         /\ \A k \in 0 .. n - 1 : ChainAt(g, first, k) = ChainAt(f, first, k)
<1>1. \A j \in Nat : ChainAt(f, first, j + 1) = Follow(f, ChainAt(f, first, j))
  BY ChainIs, ZenonT(60)
<1>2. \A j \in Nat : ChainAt(f, first, j) \in Blocks /\ ChainAt(f, first, j + 1) \in Blocks
                       => g[ChainAt(f, first, j)] = f[ChainAt(f, first, j)]
  BY <1>1 DEF Follow
<1>3. \A k \in Nat : ChainAt(f, first, k) \in Blocks => ChainAt(g, first, k) = ChainAt(f, first, k)
  BY <1>2, WalkKept
<1>4. \A k \in 0 .. n - 1 : k \in Nat /\ ChainAt(f, first, k) \in Blocks
  BY DEF Covers
<1>5. \A k \in 0 .. n - 1 : ChainAt(g, first, k) = ChainAt(f, first, k)
  BY <1>3, <1>4
<1> QED BY <1>4, <1>5 DEF Covers

\* q blocks hold every size up to q * BlockSize, also where the sum wraps around.
LEMMA BlocksForAtMost ==
  ASSUME NEW size \in Nat, NEW q \in Nat, size <= q * BlockSize
  PROVE  BlocksFor(size) \in Nat /\ BlocksFor(size) <= q
<1> DEFINE sum == size + BlockSize - 1
           a == sum % Word
           d == a \div BlockSize
<1>1. sum \in Nat /\ BlockSize \in Nat /\ BlockSize > 0 /\ Word \in Nat /\ Word > 0
  OBVIOUS
<1>2. a \in Nat /\ a <= sum
  <2> HIDE DEF sum
  <2>1. a \in Nat
    BY <1>1
  <2>2. a <= sum
    <3>1. sum = Word * (sum \div Word) + a /\ sum \div Word \in Nat
      BY <1>1
    <3>2. Word * (sum \div Word) >= 0
      BY <1>1, <3>1
    <3> QED BY <1>1, <2>1, <3>1, <3>2
  <2> QED BY <2>1, <2>2
<1>3. d \in Nat /\ BlockSize * d <= a
  <2> HIDE DEF a
  <2> QED BY <1>1, <1>2
<1>4. q * BlockSize \in Nat /\ a <= q * BlockSize + BlockSize - 1
  BY <1>1, <1>2
<1>5. d <= q
  <2> HIDE DEF d, a
  <2> SUFFICES ASSUME d >= q + 1 PROVE FALSE
    BY <1>3
  <2>1. BlockSize * d >= BlockSize * (q + 1)
    BY <1>1, <1>3
  <2>2. BlockSize * (q + 1) = q * BlockSize + BlockSize
    BY <1>1
  <2> QED BY <1>1, <1>2, <1>3, <1>4, <2>1, <2>2
<1> QED BY <1>3, <1>5 DEF BlocksFor

\* An empty file needs no block.
LEMMA EmptyNeedsNone == BlocksFor(0) = 0
<1>1. 0 \in Nat /\ 0 <= 0 * BlockSize
  OBVIOUS
<1>2. BlocksFor(0) \in Nat /\ BlocksFor(0) <= 0
  BY <1>1, BlocksForAtMost
<1> QED BY <1>2


\* A chunk ends inside its block, also where the offset wraps around.
LEMMA ChunkFits ==
  ASSUME NEW off \in Nat, NEW chunk \in Nat, chunk <= BlockSize - (off % BlockSize)
  PROVE  (off + chunk) % Word \in Nat
         /\ (off + chunk) % Word <= (off \div BlockSize + 1) * BlockSize
<1> DEFINE q == off \div BlockSize
           m == off % BlockSize
           e == (off + chunk) % Word
<1>1. BlockSize \in Nat /\ BlockSize > 0 /\ Word \in Nat /\ Word > 0
  OBVIOUS
<1>2. q \in Nat /\ m \in Nat /\ off = BlockSize * q + m
  BY <1>1
<1>3. e \in Nat /\ e <= off + chunk
  <2>1. off + chunk \in Nat /\ e \in Nat /\ (off + chunk) \div Word \in Nat
        /\ off + chunk = Word * ((off + chunk) \div Word) + e
    BY <1>1
  <2>2. Word * ((off + chunk) \div Word) >= 0
    BY <1>1, <2>1
  <2> HIDE DEF e
  <2> QED BY <2>1, <2>2
<1>4. (q + 1) * BlockSize = BlockSize * q + BlockSize /\ BlockSize * q \in Nat
  <2> HIDE DEF q
  <2> QED BY <1>1, <1>2
<1>5. off + chunk <= BlockSize * q + BlockSize
  <2> HIDE DEF q, m
  <2>1. chunk <= BlockSize - m
    BY DEF m
  <2> QED BY <1>1, <1>2, <1>4, <2>1
<1> HIDE DEF e, q
<1>6. e <= (q + 1) * BlockSize
  BY <1>1, <1>2, <1>3, <1>4, <1>5
<1> QED BY <1>3, <1>6 DEF e, q

\* A step that leaves directories and FATs alone.
LEMMA SavedSame ==
  ASSUME Saved, mounted, mounted', UNCHANGED <<dir, fat, dirDisk, fatDisk>>,
         pc \notin {"release", "syncDir", "syncFat"},
         pc' = "walk" => ChainAt(fat, dir[r'.slot].first, r'.step) = r'.cur,
         pc' = "size" => Covers(fat, dir[r'.slot].first, BlocksFor(open'[r'.fd].offset))
  PROVE  Saved'
<1>1. ASSUME NEW s \in Slots, dir'[s].used PROVE SameOnImage(s)' /\ Covered(s)'
  <2>1. SameOnImage(s) /\ Covered(s)
    BY <1>1 DEF Saved
  <2>2. SameOnImage(s)' = SameOnImage(s) /\ Covered(s)' = Covered(s)
    BY DEF SameOnImage, Covered, Covers
  <2> QED BY <2>1, <2>2
<1>2. pc' = "walk" => ChainAt(fat', dir'[r'.slot].first, r'.step) = r'.cur
  OBVIOUS
<1>3. pc' = "size" => Covers(fat, dir[r.slot].first, BlocksFor(open[r.fd].offset))'
  BY DEF Covers
<1> QED BY <1>1, <1>2, <1>3 DEF Saved

\* What fs_mount accepts is long enough, and it is the image.
LEMMA SavedMount ==
  ASSUME TypeOK, fs_mount, mounted' PROVE Saved'
<1>1. /\ dir' = dirDisk /\ fat' = fatDisk /\ dirDisk' = dirDisk /\ fatDisk' = fatDisk
      /\ pc' = "idle" /\ MetadataOk(dirDisk, fatDisk)
  BY DEF fs_mount, Begin, image
<1>2. ASSUME NEW s \in Slots, dir'[s].used PROVE SameOnImage(s)' /\ Covered(s)'
  <2> DEFINE need == BlocksFor(dirDisk[s].size)
             first == dirDisk[s].first
  <2>1. SameOnImage(s)'
    BY <1>1, <1>2 DEF SameOnImage
  <2>2. need \in Nat
    <3>1. dirDisk[s].size \in Nat
      BY DEF TypeOK, Entry
    <3> QED BY <3>1 DEF BlocksFor
  <2>3. ChainOk(fatDisk, dirDisk[s])
    BY <1>1, <1>2 DEF MetadataOk
  <2>4. Covers(fatDisk, first, need)
    <3>1. CASE need = 0
      BY <3>1 DEF Covers
    <3>2. CASE need # 0
      <4>1. ChainAt(fatDisk, first, need - 1) \in Blocks
        BY <2>3, <3>2 DEF ChainOk
      <4>2. need - 1 \in Nat
        BY <2>2, <3>2
      <4> HIDE DEF need, first
      <4> QED BY <4>1, <4>2, BlocksBefore DEF Covers
    <3> QED BY <3>1, <3>2
  <2>5. Covered(s)'
    BY <1>1, <2>4 DEF Covered, Covers
  <2> QED BY <2>1, <2>5
<1> QED BY <1>1, <1>2 DEF Saved

\* sync_metadata: the directory first, the FAT second.
LEMMA SavedSync ==
  ASSUME Faults = FALSE, TypeOK, Locals, Saved, mounted, SyncDir \/ SyncFat PROVE Saved'
<1>t. /\ r \in CallRec /\ r.next \in {"idle", "unmount", "trunc", "takeFd"}
      /\ \A s \in Slots : dir[s].size \in Nat
  BY DEF TypeOK, CallRec, Entry
<1>1. CASE SyncDir
  <2>1. /\ UNCHANGED <<mounted, dir, fat, fatDisk, r>> /\ dirDisk' = dir
        /\ pc = "syncDir" /\ pc' = "syncFat"
    BY <1>1 DEF SyncDir, memory
  <2>2. ASSUME NEW s \in Slots, dir[s].used PROVE Covered(s)'
    <3>1. Covered(s)
      BY <2>1, <2>2 DEF Saved
    <3> QED BY <2>1, <3>1 DEF Covered, Covers
  <2>3. ASSUME NEW s \in Slots, dir[s].used, s # r.slot PROVE SameOnImage(s)'
    <3> DEFINE need == BlocksFor(dir[s].size)
    <3>1. SameOnImage(s)
      BY <2>3 DEF Saved
    <3>2. need \in Nat
      BY <1>t DEF BlocksFor
    <3>3. need # 0 => dirDisk[s].first = dir[s].first
      <4>1. \A f, x : ChainAt(f, x, 0) = x
        BY ChainIs
      <4> QED BY <3>1, <3>2, <4>1 DEF SameOnImage
    <3>4. \A k \in 0 .. need - 1 : ChainAt(fatDisk, dir[s].first, k) = ChainAt(fat, dir[s].first, k)
      BY <3>1, <3>2, <3>3 DEF SameOnImage
    <3> QED BY <2>1, <2>3, <3>4 DEF SameOnImage
  <2> QED BY <2>1, <2>2, <2>3 DEF Saved
<1>2. CASE SyncFat
  <2>1. /\ UNCHANGED <<mounted, dir, fat, dirDisk>> /\ fatDisk' = fat /\ dirDisk = dir
        /\ pc = "syncFat" /\ pc' \in {"idle", "unmount", "trunc", "takeFd"}
    BY <1>2, <1>t DEF SyncFat, memory, Locals
  <2>2. ASSUME NEW s \in Slots, dir[s].used PROVE Covered(s)' /\ SameOnImage(s)'
    <3>1. Covered(s)
      BY <2>1, <2>2 DEF Saved
    <3> QED BY <2>1, <2>2, <3>1 DEF Covered, Covers, SameOnImage
  <2> QED BY <2>1, <2>2 DEF Saved
<1> QED BY <1>1, <1>2

\* A new file is empty.
LEMMA SavedCreate ==
  ASSUME TypeOK, Saved, NEW n \in Names, NEW fl \in FlagChoices, OpenCreate(n, fl)
  PROVE  Saved'
<1>1. PICK s \in Slots :
        /\ ~dir[s].used
        /\ dir' = [dir EXCEPT ![s] = [used |-> TRUE, name |-> n, first |-> FAT_END, size |-> 0]]
        /\ r'.slot = s
  BY DEF OpenCreate, IsLowest, FreeSlots, NoCall
<1>2. mounted /\ pc = "idle" /\ pc' = "syncDir" /\ UNCHANGED <<mounted, fat, dirDisk, fatDisk>>
  BY DEF OpenCreate, Begin, image
<1>t. dir \in [Slots -> Entry]
  BY DEF TypeOK
<1>3. ASSUME NEW t \in Slots, t # s, dir'[t].used PROVE SameOnImage(t)' /\ Covered(t)'
  <2>1. dir'[t] = dir[t]
    BY <1>t, <1>1, <1>3
  <2>2. SameOnImage(t) /\ Covered(t)
    BY <1>2, <1>3, <2>1 DEF Saved
  <2> QED BY <1>2, <2>1, <2>2 DEF SameOnImage, Covered, Covers
<1>4. Covered(s)'
  <2>1. dir'[s].size = 0
    BY <1>t, <1>1
  <2> QED BY <2>1, EmptyNeedsNone DEF Covered, Covers
<1> QED BY <1>1, <1>2, <1>3, <1>4 DEF Saved


\* release_chain and the end of a truncation touch one file only.
LEMMA SavedTruncate ==
  ASSUME Faults = FALSE, IInv, Saved, ReleaseStep \/ TruncEnd PROVE Saved'
<1>t. /\ TypeOK /\ Locals /\ r \in CallRec /\ r.slot \in Slots /\ r.cur \in Link
      /\ dir \in [Slots -> Entry] /\ fat \in [Blocks -> Link]
  BY DEF IInv, TypeOK, CallRec
<1>1. pc = "release" /\ mounted /\ dir[r.slot].used /\ UNCHANGED <<mounted, dirDisk, fatDisk>>
  BY <1>t DEF ReleaseStep, TruncEnd, image, Locals
<1>2. CASE ReleaseStep
  <2>1. r.cur # FAT_END /\ dir' = dir
    BY <1>2 DEF ReleaseStep
  <2>2. Roots[r.slot] = r.cur /\ \A s \in Slots : s # r.slot /\ dir[s].used => Roots[s] = dir[s].first
    BY <1>t, <1>1 DEF Roots, Root
  <2>3. Linked(Roots, fat)
    BY <1>t, <1>1, <2>1, <2>2 DEF IInv, Sound, Unwritten, Blank
  <2>4. r.cur \in Blocks
    BY <1>t, <2>1, <2>2, <2>3 DEF Linked, Unique, Link
  <2>s. r.step <= NumBlocks
    BY <1>1, SeenFits DEF IInv
  <2>5. /\ fat' = [fat EXCEPT ![r.cur] = FAT_FREE] /\ pc' = "release" /\ r'.slot = r.slot
    BY <1>t, <1>1, <1>2, <2>4, <2>s DEF ReleaseStep, CallRec
  <2>6. ASSUME NEW s \in Slots, s # r.slot, dir[s].used PROVE SameOnImage(s)' /\ Covered(s)'
    <3> DEFINE first == dir[s].first
               need == BlocksFor(dir[s].size)
    <3>1. SameOnImage(s) /\ Covers(fat, first, need)
      BY <1>1, <2>6 DEF Saved, Covered
    <3>2. \A k \in Nat : ChainAt(fat, first, k) # r.cur
      <4>1. Roots \in [Slots -> Link] /\ Unique(Roots, fat)
        BY <1>t, <2>3, RootsType DEF Linked
      <4>2. ChainAt(fat, Roots[r.slot], 0) = r.cur
        BY <2>2, ChainIs
      <4>3. \A k \in Nat : ChainAt(fat, Roots[r.slot], 0) # ChainAt(fat, Roots[s], k)
        BY <1>t, <2>4, <2>6, <4>1, <4>2, WalksApart
      <4> QED BY <2>2, <2>6, <4>2, <4>3
    <3>3. \A k \in Nat : ChainAt(fat, first, k) \in Blocks
                           => fat'[ChainAt(fat, first, k)] = fat[ChainAt(fat, first, k)]
      BY <1>t, <2>5, <3>2
    <3>4. \A k \in Nat : ChainAt(fat, first, k) \in Blocks
                           => ChainAt(fat', first, k) = ChainAt(fat, first, k)
      <4> HIDE DEF first
      <4> QED BY <3>3, WalkKept
    <3>5. \A k \in 0 .. need - 1 : k \in Nat /\ ChainAt(fat, first, k) \in Blocks
      BY <3>1 DEF Covers
    <3>6. \A k \in 0 .. need - 1 : ChainAt(fat', first, k) = ChainAt(fat, first, k)
      BY <3>4, <3>5
    <3> QED BY <1>1, <2>1, <3>1, <3>5, <3>6 DEF SameOnImage, Covered, Covers
  <2> QED BY <1>1, <2>1, <2>5, <2>6 DEF Saved
<1>3. CASE TruncEnd
  <2>1. /\ dir' = [dir EXCEPT ![r.slot] = [dir[r.slot] EXCEPT !.first = FAT_END, !.size = 0]]
        /\ pc' = "syncDir" /\ fat' = fat /\ r'.slot = r.slot
    BY <1>t, <1>3 DEF TruncEnd, CallRec
  <2>2. ASSUME NEW s \in Slots, s # r.slot, dir'[s].used PROVE SameOnImage(s)' /\ Covered(s)'
    <3>1. dir'[s] = dir[s]
      BY <1>t, <2>1, <2>2
    <3>2. SameOnImage(s) /\ Covered(s)
      BY <1>1, <2>2, <3>1 DEF Saved
    <3> QED BY <1>1, <2>1, <3>1, <3>2 DEF SameOnImage, Covered, Covers
  <2>3. Covered(r.slot)'
    <3>1. dir'[r.slot].size = 0
      BY <1>t, <2>1 DEF Entry
    <3> QED BY <2>1, <3>1, EmptyNeedsNone DEF Covered, Covers
  <2> QED BY <1>1, <2>1, <2>2, <2>3 DEF Saved
<1> QED BY <1>2, <1>3

\* What fs_write links in memory changes nothing that sizes cover.
LEMMA SavedLinks ==
  ASSUME TypeOK, Saved, mounted, pc \in {"resolve", "walk"},
         UNCHANGED <<dirDisk, fatDisk>>, \A d \in Blocks : fat[d] \in Blocks => fat'[d] = fat[d],
         \A s \in Slots : /\ dir'[s].used = dir[s].used /\ dir'[s].name = dir[s].name
                          /\ dir'[s].size = dir[s].size
                          /\ dir[s].first \in Blocks => dir'[s].first = dir[s].first
  PROVE  \A s \in Slots : dir[s].used => SameOnImage(s)' /\ Covered(s)'
<1> SUFFICES ASSUME NEW s \in Slots, dir[s].used PROVE SameOnImage(s)' /\ Covered(s)'
  OBVIOUS
<1> DEFINE need == BlocksFor(dir[s].size)
           first == dir[s].first
<1>1. SameOnImage(s) /\ Covers(fat, first, need)
  BY DEF Saved, Covered
<1>2. need \in Nat
  <2>1. dir[s].size \in Nat
    BY DEF TypeOK, Entry
  <2> QED BY <2>1 DEF BlocksFor
<1>3. need # 0 => dir'[s].first = first
  <2>1. ChainAt(fat, first, 0) = first
    BY ChainIs
  <2> QED BY <1>1, <1>2, <2>1 DEF Covers
<1>4. /\ Covers(fat', first, need)
      /\ \A k \in 0 .. need - 1 : ChainAt(fat', first, k) = ChainAt(fat, first, k)
  <2> HIDE DEF first, need
  <2> QED BY <1>1, <1>2, CoverKept
<1>5. \A k \in 0 .. need - 1 : ChainAt(fat', dir'[s].first, k) = ChainAt(fat', first, k)
  BY <1>2, <1>3
<1> QED BY <1>1, <1>4, <1>5 DEF SameOnImage, Covered, Covers

\* resolve_data_block: the walk stays on the chain of the file.
LEMMA SavedResolve ==
  ASSUME Faults = FALSE, TypeOK, Locals, Saved, ResolveFirst \/ ResolveNext PROVE Saved'
<1>t. /\ r \in CallRec /\ r.slot \in Slots /\ r.cur \in Link /\ r.step \in Nat
      /\ dir \in [Slots -> Entry] /\ fat \in [Blocks -> Link]
      /\ FAT_FREE \notin Blocks /\ FAT_END \notin Blocks /\ FAT_FREE # FAT_END
  BY DEF TypeOK, CallRec, Blocks, FAT_FREE, FAT_END
<1>0. /\ pc \in {"resolve", "walk"} /\ mounted /\ mounted' /\ UNCHANGED <<dirDisk, fatDisk>>
      /\ dir[r.slot].used
  BY DEF ResolveFirst, ResolveNext, Locals
<1>k. ASSUME UNCHANGED <<dir, fat>>,
             pc' = "idle" \/ (pc' = "walk" /\ ChainAt(fat, dir[r'.slot].first, r'.step) = r'.cur)
      PROVE  Saved'
  BY <1>0, <1>k, SavedSame
<1>1. CASE ResolveFirst
  <2>1. pc = "resolve"
    BY <1>1 DEF ResolveFirst
  <2>2. ASSUME NEW b \in Blocks, fat[b] = FAT_FREE, dir[r.slot].first = FAT_END,
               AsFirst(b, [fat EXCEPT ![b] = FAT_END])
        PROVE  Saved'
    <3>1. /\ fat' = [fat EXCEPT ![b] = FAT_END] /\ pc' = "walk"
          /\ dir' = [dir EXCEPT ![r.slot] = [dir[r.slot] EXCEPT !.first = b]]
          /\ r'.slot = r.slot /\ r'.cur = b /\ r'.step = 0
      BY <1>t, <2>2 DEF AsFirst, CallRec
    <3>2. /\ \A d \in Blocks : fat[d] \in Blocks => fat'[d] = fat[d]
          /\ \A s \in Slots : /\ dir'[s].used = dir[s].used /\ dir'[s].name = dir[s].name
                              /\ dir'[s].size = dir[s].size
                              /\ dir[s].first \in Blocks => dir'[s].first = dir[s].first
          /\ dir'[r.slot].first = b
      BY <1>t, <2>2, <3>1 DEF Entry
    <3>3. \A s \in Slots : dir[s].used => SameOnImage(s)' /\ Covered(s)'
      BY <1>0, <3>2, SavedLinks
    <3>4. ChainAt(fat', dir'[r'.slot].first, r'.step) = r'.cur
      BY <3>1, <3>2, ChainIs
    <3> QED BY <1>0, <3>1, <3>2, <3>3, <3>4 DEF Saved
  <2>3. ASSUME r' = [r EXCEPT !.cur = dir[r.slot].first, !.step = 0], pc' = "walk", UNCHANGED <<dir, fat>>
        PROVE  Saved'
    <3>1. r'.slot = r.slot /\ r'.cur = dir[r.slot].first /\ r'.step = 0
      BY <1>t, <2>3 DEF CallRec
    <3>2. ChainAt(fat, dir[r'.slot].first, r'.step) = r'.cur
      BY <3>1, ChainIs
    <3> QED BY <1>k, <2>3, <3>2
  <2>4. ASSUME Return, UNCHANGED <<dir, fat>> PROVE Saved'
    BY <1>k, <2>4 DEF Return
  <2> QED BY <1>1, <2>2, <2>3, <2>4 DEF ResolveFirst, AllocateWith, IsLowest, FreeBlocks
<1>2. CASE ResolveNext
  <2>1. /\ pc = "walk" /\ r.cur \in Blocks /\ ChainAt(fat, dir[r.slot].first, r.step) = r.cur
    BY <1>2 DEF ResolveNext, Locals, Saved
  <2> DEFINE first == dir[r.slot].first
  <2>2. ASSUME NEW b \in Blocks, fat[b] = FAT_FREE, fat[r.cur] = FAT_END,
               AsNext(b, [fat EXCEPT ![b] = FAT_END])
        PROVE  Saved'
    <3>1. /\ fat' = [[fat EXCEPT ![b] = FAT_END] EXCEPT ![r.cur] = b] /\ pc' = "walk" /\ dir' = dir
          /\ r'.slot = r.slot /\ r'.cur = b /\ r'.step = r.step + 1
      BY <1>t, <2>1, <2>2 DEF AsNext, CallRec
    <3>2. (\A d \in Blocks : fat[d] \in Blocks => fat'[d] = fat[d]) /\ fat'[r.cur] = b
      BY <1>t, <2>1, <2>2, <3>1
    <3>3. \A s \in Slots : dir[s].used => SameOnImage(s)' /\ Covered(s)'
      BY <1>0, <3>1, <3>2, SavedLinks
    <3>4. ChainAt(fat', first, r.step) = r.cur
      <4>1. \A k \in 0 .. r.step : ChainAt(fat, first, k) \in Blocks
        BY <1>t, <2>1, BlocksBefore
      <4>2. Covers(fat, first, r.step + 1) /\ r.step + 1 \in Nat /\ r.step \in 0 .. (r.step + 1) - 1
        BY <1>t, <4>1 DEF Covers
      <4> HIDE DEF first
      <4>3. ChainAt(fat', first, r.step) = ChainAt(fat, first, r.step)
        BY <3>2, <4>2, CoverKept
      <4> QED BY <2>1, <4>3 DEF first
    <3>5. ChainAt(fat', first, r.step + 1) = b
      <4> HIDE DEF first
      <4>1. \A k \in Nat : ChainAt(fat', first, k + 1) = Follow(fat', ChainAt(fat', first, k))
        BY ChainIs, ZenonT(60)
      <4> QED BY <1>t, <2>1, <3>2, <3>4, <4>1 DEF Follow
    <3> QED BY <1>0, <3>1, <3>3, <3>5 DEF Saved
  <2>3. ASSUME fat[r.cur] \in Blocks, r' = [r EXCEPT !.cur = fat[r.cur], !.step = @ + 1], pc' = pc,
               UNCHANGED <<dir, fat>>
        PROVE  Saved'
    <3>1. r'.slot = r.slot /\ r'.cur = fat[r.cur] /\ r'.step = r.step + 1
      BY <1>t, <2>3 DEF CallRec
    <3>2. ChainAt(fat, first, r.step + 1) = Follow(fat, ChainAt(fat, first, r.step))
      <4> HIDE DEF first
      <4>1. \A k \in Nat : ChainAt(fat, first, k + 1) = Follow(fat, ChainAt(fat, first, k))
        BY ChainIs, ZenonT(60)
      <4> QED BY <1>t, <4>1
    <3>3. ChainAt(fat, first, r.step + 1) = fat[r.cur]
      BY <2>1, <3>2 DEF Follow
    <3> QED BY <1>k, <2>1, <2>3, <3>1, <3>3
  <2>4. ASSUME Return, UNCHANGED <<dir, fat>> PROVE Saved'
    BY <1>k, <2>4 DEF Return
  <2> QED BY <1>2, <2>2, <2>3, <2>4 DEF ResolveNext, AllocateWith, IsLowest, FreeBlocks
<1> QED BY <1>1, <1>2


\* A chunk lies in a block of the chain, and the size follows the offset.
LEMMA SavedWrite ==
  ASSUME Faults = FALSE, TypeOK, Locals, Saved, WriteChunk \/ WriteEnd PROVE Saved'
<1>t. /\ r \in CallRec /\ r.slot \in Slots /\ r.fd \in Fds /\ r.step \in Nat /\ r.left \in Nat
      /\ dir \in [Slots -> Entry] /\ open \in [Fds -> OpenFile] /\ open[r.fd] \in OpenFile
      /\ open[r.fd].offset \in Nat
  BY DEF TypeOK, CallRec, OpenFile
<1>0. mounted /\ mounted' /\ dir[r.slot].used /\ UNCHANGED <<fat, dirDisk, fatDisk>>
  BY DEF WriteChunk, WriteEnd, Locals, image
<1>1. CASE WriteChunk
  <2> DEFINE off == open[r.fd].offset
             room == BlockSize - (off % BlockSize)
             chunk == IF room > r.left THEN r.left ELSE room
             first == dir[r.slot].first
  <2>1. /\ open' = [open EXCEPT ![r.fd].offset = (off + chunk) % Word] /\ dir' = dir
        /\ pc = "walk" /\ pc' \in {"size", "resolve"} /\ r'.fd = r.fd /\ r'.slot = r.slot
        /\ r.step >= off \div BlockSize /\ r.cur \in Blocks
    BY <1>1, <1>t DEF WriteChunk, LogicalBlock, CallRec, Locals
  <2>2. open'[r.fd].offset = (off + chunk) % Word
    BY <1>t, <2>1 DEF OpenFile
  <2>3. off \in Nat /\ chunk \in Nat /\ chunk <= room /\ off \div BlockSize \in Nat
    BY <1>t
  <2> DEFINE q == off \div BlockSize
             e == (off + chunk) % Word
  <2>4. e \in Nat /\ e <= (q + 1) * BlockSize
    <3> HIDE DEF off, chunk
    <3> QED BY <2>3, ChunkFits
  <2>5. BlocksFor(e) \in Nat /\ BlocksFor(e) <= q + 1
    <3> HIDE DEF e, q
    <3>1. q + 1 \in Nat
      BY <2>3 DEF q
    <3> QED BY <2>4, <3>1, BlocksForAtMost
  <2>6. \A k \in 0 .. r.step : ChainAt(fat, first, k) \in Blocks
    <3>1. ChainAt(fat, first, r.step) \in Blocks
      BY <1>0, <2>1 DEF Saved
    <3> QED BY <1>t, <3>1, BlocksBefore
  <2>7. Covers(fat, first, BlocksFor(e))
    <3> HIDE DEF e, off, first
    <3> QED BY <1>t, <2>1, <2>3, <2>5, <2>6 DEF Covers
  <2>8. Covers(fat, dir[r'.slot].first, BlocksFor(open'[r'.fd].offset))
    BY <2>1, <2>2, <2>7
  <2> QED BY <1>0, <2>1, <2>8, SavedSame, SMTT(30)
<1>2. CASE WriteEnd
  <2> DEFINE off == open[r.fd].offset
             size == IF off > dir[r.slot].size THEN off ELSE dir[r.slot].size
  <2>1. /\ pc = "size" /\ pc' = "syncDir" /\ r' = r
        /\ dir' = [dir EXCEPT ![r.slot] = [dir[r.slot] EXCEPT !.size = size]]
    BY <1>2, <1>t DEF WriteEnd
  <2>2. /\ \A s \in Slots : s # r.slot => dir'[s] = dir[s]
        /\ dir'[r.slot].size = size /\ dir'[r.slot].first = dir[r.slot].first
    BY <1>t, <2>1 DEF Entry
  <2>3. ASSUME NEW s \in Slots, s # r.slot, dir'[s].used PROVE SameOnImage(s)' /\ Covered(s)'
    <3>1. SameOnImage(s) /\ Covered(s)
      BY <1>0, <2>1, <2>2, <2>3 DEF Saved
    <3> QED BY <1>0, <2>2, <2>3, <3>1 DEF SameOnImage, Covered, Covers
  <2>4. Covered(r.slot)'
    <3>1. Covers(fat, dir[r.slot].first, BlocksFor(size))
      BY <1>0, <1>t, <2>1 DEF Saved, Covered
    <3>2. fat' = fat /\ dir'[r'.slot].size = size /\ dir'[r'.slot].first = dir[r.slot].first
      BY <1>0, <2>1, <2>2
    <3> HIDE DEF size
    <3> QED BY <3>1, <3>2 DEF Covered, Covers
  <2> QED BY <1>0, <2>1, <2>3, <2>4 DEF Saved
<1> QED BY <1>1, <1>2

\* Every step keeps Saved.
LEMMA SavedStep ==
  ASSUME Faults = FALSE, 0 \notin Lens
  PROVE  IInv /\ Saved /\ [Next]_vars => Saved'
<1> SUFFICES ASSUME IInv, Saved, Next, mounted' PROVE Saved'
  <2>1. CASE UNCHANGED vars
    <3>1. UNCHANGED <<mounted, dir, fat, dirDisk, fatDisk, pc, r, open>>
      BY <2>1 DEF vars
    <3> QED BY <3>1 DEF Saved, SameOnImage, Covered, Covers
  <2>2. CASE ~mounted'
    BY <2>2 DEF Saved
  <2> QED BY <2>1, <2>2
<1>t. /\ TypeOK /\ Locals /\ r \in CallRec
  BY DEF IInv, TypeOK
<1>1. CASE fs_mount
  BY <1>1, <1>t, SavedMount
<1>2. CASE \E n \in Names, fl \in FlagChoices : OpenCreate(n, fl)
  BY <1>2, <1>t, SavedCreate
<1>3. CASE SyncDir \/ SyncFat
  <2>1. mounted
    BY <1>3, <1>t DEF SyncDir, SyncFat, Locals
  <2> QED BY <1>3, <1>t, <2>1, SavedSync
<1>4. CASE ReleaseStep \/ TruncEnd
  BY <1>4, SavedTruncate
<1>5. CASE ResolveFirst \/ ResolveNext
  BY <1>5, <1>t, SavedResolve
<1>6. CASE WriteChunk \/ WriteEnd
  BY <1>6, <1>t, SavedWrite
<1>7. CASE \/ fs_unmount \/ TakeFd \/ TruncBegin
           \/ \E n \in Names, fl \in FlagChoices : OpenFound(n, fl)
           \/ \E fd \in Fds : \/ fs_close(fd)
                              \/ \E off \in Offsets : fs_seek(fd, off)
                              \/ \E len \in Lens : fs_read(fd, len)
                              \/ \E len \in Lens, v \in Values : fs_write(fd, len, v)
  <2>1. UNCHANGED <<dir, fat, dirDisk, fatDisk>>
    BY <1>7, ZenonT(60) DEF fs_unmount, TakeFd, TruncBegin, OpenFound, fs_close, fs_seek,
                 fs_read, fs_write, Begin, memory, image
  <2>2. mounted /\ pc \in {"idle", "trunc", "takeFd"}
    BY <1>7, <1>t, ZenonT(60) DEF fs_unmount, TakeFd, TruncBegin, OpenFound, fs_close, fs_seek,
                 fs_read, fs_write, Begin, Locals
  <2>3. pc' \notin {"walk", "size"}
    <3>1. CASE \E fd \in Fds : \E len \in Lens, v \in Values : fs_write(fd, len, v)
      BY <3>1 DEF fs_write
    <3>2. CASE \/ fs_unmount \/ TakeFd \/ TruncBegin
               \/ \E n \in Names, fl \in FlagChoices : OpenFound(n, fl)
      BY <3>2 DEF fs_unmount, TakeFd, TruncBegin, Return, OpenFound, AfterFound
    <3>3. CASE \E fd \in Fds : \/ fs_close(fd)
                               \/ \E off \in Offsets : fs_seek(fd, off)
                               \/ \E len \in Lens : fs_read(fd, len)
      <4>1. pc' = "idle"
        BY <3>3 DEF fs_close, fs_seek, fs_read, Begin
      <4> QED BY <4>1
    <3> QED BY <1>7, <3>1, <3>2, <3>3
  <2> QED BY <2>1, <2>2, <2>3, SavedSame
<1>8. ~fs_format_image /\ ~FormatStep /\ ~UnmountEnd /\ ~Crash
  BY <1>t DEF fs_format_image, FormatStep, UnmountEnd, Crash, Locals, memory
<1> QED
  BY <1>1, <1>2, <1>3, <1>4, <1>5, <1>6, <1>7, <1>8 DEF Next, Call, Step, fs_open

\* What calls have returned is durable (Durable), whenever the process dies: every file
\* but the one that the running call works on has its name, size and blocks on the
\* image.  Of the hypotheses, the first is needed because a failing sync_metadata makes
\* the call fail after memory has changed; the second because a write of no bytes past
\* the end (fs/otfs.c:708) sets a size that no chain covers.
THEOREM WhatReturnedIsDurable ==
  ASSUME Faults = FALSE, 0 \notin Lens PROVE Spec => []Durable
<1>1. Init => Saved
  BY DEF Init, Saved
<1>2. IInv /\ Saved /\ [Next]_vars => Saved'
  BY SavedStep
<1>3. Saved => Durable
  <2> SUFFICES ASSUME Saved, mounted, NEW s \in Slots, dir[s].used, pc = "idle" \/ s # r.slot
               PROVE  SameOnImage(s)
    BY DEF Durable
  <2> QED BY DEF Saved
<1> QED BY <1>1, <1>2, <1>3, InductiveInvariant, PTL DEF Spec

-------------------------------------------------------------------------------
(* The metadata between calls.  Good is what Saved leaves out of                *)
(* validate_metadata: names, sizes inside the data region, and empty files      *)
(* without a chain.                                                             *)

\* A walk never comes back to a block, and so leaves the blocks in time.
LEMMA WalkDistinct ==
  ASSUME NEW root \in [Slots -> Link], NEW f \in [Blocks -> Link], Unique(root, f), NEW s \in Slots
  PROVE  \A i, j \in Nat : i < j /\ ChainAt(f, root[s], j) \in Blocks
                             => ChainAt(f, root[s], i) # ChainAt(f, root[s], j)
<1> DEFINE C(k) == ChainAt(f, root[s], k)
           T == {i \in Nat : \A j \in Nat : i < j /\ C(j) \in Blocks => C(i) # C(j)}
<1>1. C(0) = root[s] /\ \A k \in Nat : C(k + 1) = Follow(f, C(k))
  BY ChainIs, ZenonT(60)
<1> HIDE DEF C
<1>2. ASSUME NEW j \in Nat, j # 0, C(j) \in Blocks
      PROVE  j - 1 \in Nat /\ C(j - 1) \in Blocks /\ C(j) = f[C(j - 1)]
  <2>1. j - 1 \in Nat /\ (j - 1) + 1 = j
    BY <1>2
  <2>2. C(j) = Follow(f, C(j - 1))
    BY <1>1, <2>1
  <2> QED BY <1>2, <2>1, <2>2 DEF Follow
<1>3. 0 \in T
  <2> SUFFICES ASSUME NEW j \in Nat, 0 < j, C(j) \in Blocks, C(0) = C(j) PROVE FALSE
    OBVIOUS
  <2>1. C(j - 1) \in Blocks /\ C(j) = f[C(j - 1)]
    BY <1>2
  <2> QED BY <1>1, <2>1 DEF Unique
<1>4. ASSUME NEW i \in Nat, i \in T PROVE i + 1 \in T
  <2> SUFFICES ASSUME NEW j \in Nat, i + 1 < j, C(j) \in Blocks, C(i + 1) = C(j) PROVE FALSE
    OBVIOUS
  <2>1. j - 1 \in Nat /\ C(j - 1) \in Blocks /\ C(j) = f[C(j - 1)] /\ i < j - 1
    BY <1>2
  <2>2. C(i) \in Blocks /\ C(i + 1) = f[C(i)]
    BY <1>1 DEF Follow
  <2>3. C(i) = C(j - 1)
    BY <2>1, <2>2 DEF Unique
  <2> QED BY <1>4, <2>1, <2>3
<1>5. \A i \in Nat : i \in T
  <2> HIDE DEF T
  <2> QED BY <1>3, <1>4, Upward
<1> QED BY <1>5 DEF C

\* It is on a block for fewer links than there are blocks.
LEMMA WalkIsShort ==
  ASSUME NEW root \in [Slots -> Link], NEW f \in [Blocks -> Link], Unique(root, f), NEW s \in Slots,
         NEW n \in Nat, ChainAt(f, root[s], n) \in Blocks
  PROVE  n < NumBlocks
<1> DEFINE C(k) == ChainAt(f, root[s], k)
<1>1. \A i, j \in Nat : i < j /\ C(j) \in Blocks => C(i) # C(j)
  BY WalkDistinct, ZenonT(60)
<1>2. \A k \in 0 .. n : C(k) \in Blocks
  BY BlocksBefore, ZenonT(60)
<1> HIDE DEF C
<1> SUFFICES ASSUME n >= NumBlocks PROVE FALSE
  OBVIOUS
<1> DEFINE h == [i \in 0 .. NumBlocks |-> C(i)]
<1>3. h \in [0 .. NumBlocks -> Blocks]
  BY <1>2
<1>4. /\ IsFiniteSet(0 .. NumBlocks) /\ Cardinality(0 .. NumBlocks) = NumBlocks + 1
  BY FS_Interval
<1>5. IsFiniteSet(Blocks) /\ Cardinality(Blocks) = NumBlocks
  BY FS_Interval DEF Blocks
<1>6. \E i, j \in 0 .. NumBlocks : i # j /\ h[i] = h[j]
  <2> HIDE DEF h
  <2> QED BY <1>3, <1>4, <1>5, FS_PigeonHole
<1>7. PICK i \in 0 .. NumBlocks, j \in 0 .. NumBlocks : i # j /\ C(i) = C(j)
  BY <1>6
<1>8. i \in Nat /\ j \in Nat /\ C(i) \in Blocks /\ C(j) \in Blocks /\ (i < j \/ j < i)
  BY <1>2, <1>7
<1> QED BY <1>1, <1>7, <1>8

\* None of its links is free ...
LEMMA WalkTaken ==
  ASSUME NEW root \in [Slots -> Link], NEW f \in [Blocks -> Link], Linked(root, f), NEW s \in Slots
  PROVE  \A k \in Nat : /\ ChainAt(f, root[s], k) \in Link \ {FAT_FREE}
                        /\ ChainAt(f, root[s], k) \in Blocks => f[ChainAt(f, root[s], k)] # FAT_FREE
<1> DEFINE C(k) == ChainAt(f, root[s], k)
           T == {k \in Nat : C(k) \in Link \ {FAT_FREE} /\ (C(k) \in Blocks => f[C(k)] # FAT_FREE)}
<1>1. C(0) = root[s] /\ \A k \in Nat : C(k + 1) = Follow(f, C(k))
  BY ChainIs, ZenonT(60)
<1>u. Unique(root, f)
  BY DEF Linked
<1> HIDE DEF C
<1>3. 0 \in T
  BY <1>1 DEF Linked, Unique
<1>4. ASSUME NEW k \in Nat, k \in T PROVE k + 1 \in T
  <2>1. C(k + 1) = Follow(f, C(k))
    BY <1>1
  <2>2. CASE C(k) \in Blocks
    BY <1>4, <1>u, <2>1, <2>2 DEF Follow, Unique
  <2>3. CASE C(k) \notin Blocks
    BY <1>4, <2>1, <2>3 DEF Follow
  <2> QED BY <2>2, <2>3
<1>5. \A k \in Nat : k \in T
  <2> HIDE DEF T
  <2> QED BY <1>3, <1>4, Upward
<1> QED BY <1>5 DEF C

\* ... so it ends in FAT_END.
LEMMA WalkEnds ==
  ASSUME NEW root \in [Slots -> Link], NEW f \in [Blocks -> Link], Linked(root, f), NEW s \in Slots
  PROVE  ChainAt(f, root[s], NumBlocks) = FAT_END
<1> DEFINE c == ChainAt(f, root[s], NumBlocks)
<1>1. NumBlocks \in Nat /\ ~(NumBlocks < NumBlocks) /\ Unique(root, f)
  BY DEF Linked
<1>2. c \notin Blocks
  BY <1>1, WalkIsShort
<1>3. c \in Link \ {FAT_FREE}
  BY <1>1, WalkTaken, ZenonT(60)
<1> QED BY <1>2, <1>3 DEF Link

\* A size inside the data region needs a block unless it is 0: rounding it up does
\* not reach the width of uint32_t.
End == NumBlocks * BlockSize

LEMMA SomeBlock ==
  ASSUME NEW size \in 1 .. End PROVE BlocksFor(size) \in Nat /\ BlocksFor(size) # 0
<1> DEFINE sum == size + BlockSize - 1
<1>1. /\ BlockSize \in Nat /\ BlockSize > 0 /\ Word \in Nat /\ NumBlocks \in Nat /\ End \in Nat
      /\ (NumBlocks + 1) * BlockSize = End + BlockSize
  BY DEF End
<1>2. sum \in Nat /\ sum >= BlockSize /\ sum < Word
  BY <1>1, WordAssumption
<1>3. sum % Word = sum
  <2> HIDE DEF sum
  <2> QED BY <1>1, <1>2
<1>4. sum \div BlockSize \in Nat /\ sum \div BlockSize # 0
  <2> HIDE DEF sum
  <2> QED BY <1>1, <1>2
<1> QED BY <1>3, <1>4 DEF BlocksFor


\* The image never runs full: whenever resolve_data_block calls allocate_data_block,
\* there is a free block.
Room ==
  \/ pc = "resolve" /\ dir[r.slot].first = FAT_END
  \/ pc = "walk" /\ r.step < LogicalBlock /\ fat[r.cur] = FAT_END
  => FreeBlocks # {}

\* The running call has file s between two states of its size and chain.
Unsettled(s) == s = r.slot /\ pc \in {"resolve", "walk", "size", "release"}

Good ==
  /\ \A s \in Slots : dirDisk[s].size <= End /\ dir[s].size <= End
  /\ mounted =>
       /\ \A s \in Slots : dir[s].used => dir[s].name # NoName
       /\ \A s, t \in Slots : dir[s].used /\ dir[t].used /\ dir[s].name = dir[t].name => s = t
       /\ \A s \in Slots : dir[s].used /\ dir[s].size = 0 /\ ~Unsettled(s) => dir[s].first = FAT_END
       /\ pc \in {"resolve", "walk"} => r.left > 0
       /\ pc = "size" => open[r.fd].offset \in 1 .. End
       /\ pc = "unmount" => dirDisk = dir /\ fatDisk = fat

\* A file that has a block is not on a blank image.
LEMMA LinkedFile ==
  ASSUME IInv, mounted, pc # "release", NEW s \in Slots, dir[s].used, dir[s].first # FAT_END
  PROVE  Linked(Roots, fat) /\ Roots[s] = dir[s].first /\ Roots \in [Slots -> Link]
         /\ dir[s].first \in Blocks
<1>1. Roots[s] = dir[s].first /\ Roots \in [Slots -> Link] /\ dir[s].first \in Link
  BY RootsType DEF IInv, TypeOK, Entry, Roots, Root
<1>2. Linked(Roots, fat)
  BY <1>1 DEF IInv, Sound, Unwritten, Blank
<1> QED BY <1>1, <1>2 DEF Linked, Unique, Link

\* What Good and Saved say between calls is what validate_metadata asks for.
LEMMA GoodIsSound ==
  ASSUME IInv, Saved, Good, mounted, pc \in {"idle", "unmount", "syncFat"} PROVE MetadataOk(dir, fat)
<1> SUFFICES ASSUME NEW s \in Slots, dir[s].used PROVE ChainOk(fat, dir[s])
  BY DEF Good, MetadataOk
<1>t. TypeOK /\ fat \in [Blocks -> Link] /\ dir[s].size \in Nat /\ FAT_END \notin Blocks
  BY DEF IInv, TypeOK, Entry, FAT_END, Blocks
<1> DEFINE need == BlocksFor(dir[s].size)
           first == dir[s].first
<1>1. need \in Nat /\ (need = 0 => first = FAT_END)
  <2>1. CASE dir[s].size = 0
    <3>1. first = FAT_END
      BY <2>1 DEF Good, Unsettled
    <3> QED BY <2>1, <3>1, EmptyNeedsNone
  <2>2. CASE dir[s].size # 0
    <3>1. dir[s].size \in 1 .. End
      BY <1>t, <2>2 DEF Good, End
    <3> QED BY <3>1, SomeBlock
  <2> QED BY <2>1, <2>2
<1>2. CASE need # 0
  <2>1. Covers(fat, first, need)
    BY DEF Saved, Covered
  <2>2. ChainAt(fat, first, 0) \in Blocks /\ ChainAt(fat, first, need - 1) \in Blocks
    BY <1>1, <1>2, <2>1 DEF Covers
  <2>3. first \in Blocks
    BY <2>2, ChainIs
  <2>4. Linked(Roots, fat) /\ Roots[s] = first /\ Roots \in [Slots -> Link]
    BY <1>t, <2>3, LinkedFile
  <2>5. ChainAt(fat, first, NumBlocks) = FAT_END
    BY <1>t, <2>4, WalkEnds
  <2>6. fat[first] # FAT_FREE
    BY <2>3, <2>4 DEF Linked
  <2> QED BY <1>2, <2>2, <2>3, <2>5, <2>6 DEF ChainOk
<1> QED BY <1>1, <1>2 DEF ChainOk

\* A step that leaves the directory in memory alone.
LEMMA GoodSame ==
  ASSUME Good, mounted, mounted', dir' = dir, dirDisk' = dirDisk \/ dirDisk' = dir,
         \A s \in Slots : Unsettled(s) => Unsettled(s)',
         pc' \in {"resolve", "walk"} => r'.left > 0,
         pc' = "size" => open'[r'.fd].offset \in 1 .. End,
         pc' = "unmount" => dirDisk' = dir /\ fatDisk' = fat'
  PROVE  Good'
BY DEF Good, End

\* Formatting, mounting and losing the handle.
LEMMA GoodMount ==
  ASSUME Locals, Good, fs_format_image \/ FormatStep \/ fs_mount \/ UnmountEnd \/ Crash PROVE Good'
<1>0. End >= 0
  BY DEF End
<1>z. \A s \in Slots : ZeroDir[s].size = 0 /\ FormattedDir[s].size = 0
  BY DEF ZeroDir, FormattedDir
<1>1. /\ dirDisk' \in {dirDisk, ZeroDir, FormattedDir}
      /\ dir' \in {dir, dirDisk, ZeroDir}
  BY DEF fs_format_image, FormatStep, fs_mount, UnmountEnd, Crash, image, memory
<1>2. \A s \in Slots : dirDisk'[s].size <= End /\ dir'[s].size <= End
  BY <1>0, <1>z, <1>1 DEF Good
<1>3. CASE ~mounted'
  BY <1>2, <1>3 DEF Good, End
<1>4. CASE mounted' /\ fs_mount
  <2>1. dir' = dirDisk /\ pc' = "idle" /\ MetadataOk(dirDisk, fatDisk)
    BY <1>4 DEF fs_mount, Begin
  <2>2. \A s \in Slots : dirDisk[s].used /\ dirDisk[s].size = 0 => dirDisk[s].first = FAT_END
    BY <2>1, EmptyNeedsNone DEF MetadataOk, ChainOk
  <2> QED BY <1>2, <2>1, <2>2 DEF Good, End, MetadataOk
<1>5. mounted' => fs_mount
  BY DEF fs_format_image, FormatStep, UnmountEnd, Crash, memory, Locals
<1> QED BY <1>3, <1>4, <1>5


\* A new file has a name that no other file has.
LEMMA GoodCreate ==
  ASSUME TypeOK, Good, NEW n \in Names, NEW fl \in FlagChoices, OpenCreate(n, fl) PROVE Good'
<1>t. dir \in [Slots -> Entry] /\ n # NoName /\ End >= 0
  BY NameAssumption DEF TypeOK, End
<1>1. PICK s \in Slots :
        dir' = [dir EXCEPT ![s] = [used |-> TRUE, name |-> n, first |-> FAT_END, size |-> 0]]
  BY DEF OpenCreate
<1>2. mounted /\ mounted' /\ pc = "idle" /\ pc' = "syncDir" /\ dirDisk' = dirDisk
      /\ \A t \in Slots : ~(dir[t].used /\ dir[t].name = n)
  BY DEF OpenCreate, Begin, image, SlotOf
<1>3. /\ dir'[s].used /\ dir'[s].name = n /\ dir'[s].first = FAT_END /\ dir'[s].size = 0
      /\ \A t \in Slots : t # s => dir'[t] = dir[t]
  BY <1>t, <1>1
<1>4. \A t \in Slots : dir'[t].used /\ dir'[t].size = 0 => dir'[t].first = FAT_END
  BY <1>2, <1>3 DEF Good, Unsettled
<1> QED BY <1>t, <1>2, <1>3, <1>4 DEF Good, End

\* The file that fs_open truncates is empty only when it has lost its chain.
LEMMA GoodTruncate ==
  ASSUME IInv, Good, ReleaseStep \/ TruncEnd PROVE Good'
<1>t. /\ TypeOK /\ Locals /\ r \in CallRec /\ r.slot \in Slots /\ r.cur \in Link
      /\ dir \in [Slots -> Entry]
  BY DEF IInv, TypeOK, CallRec
<1>1. pc = "release" /\ mounted /\ mounted' /\ dir[r.slot].used /\ UNCHANGED dirDisk
  BY <1>t DEF ReleaseStep, TruncEnd, image, Locals
<1>2. CASE ReleaseStep
  <2>1. r.cur # FAT_END /\ dir' = dir
    BY <1>2 DEF ReleaseStep
  <2>2. Roots[r.slot] = r.cur
    BY <1>t, <1>1 DEF Roots, Root
  <2>3. Linked(Roots, fat)
    BY <1>t, <1>1, <2>1, <2>2 DEF IInv, Sound, Unwritten, Blank
  <2>4. r.cur \in Blocks
    BY <1>t, <2>1, <2>2, <2>3 DEF Linked, Unique, Link
  <2>s. r.step <= NumBlocks
    BY <1>1, SeenFits DEF IInv
  <2>5. pc' = "release" /\ r'.slot = r.slot
    BY <1>t, <1>1, <1>2, <2>4, <2>s DEF ReleaseStep, CallRec
  <2>6. \A s \in Slots : Unsettled(s) => Unsettled(s)'
    BY <2>5 DEF Unsettled
  <2> QED BY <1>1, <2>1, <2>5, <2>6, GoodSame
<1>3. CASE TruncEnd
  <2>1. /\ dir' = [dir EXCEPT ![r.slot] = [dir[r.slot] EXCEPT !.first = FAT_END, !.size = 0]]
        /\ pc' = "syncDir"
    BY <1>t, <1>3 DEF TruncEnd
  <2>2. /\ dir'[r.slot].size = 0 /\ dir'[r.slot].first = FAT_END
        /\ dir'[r.slot].used = dir[r.slot].used /\ dir'[r.slot].name = dir[r.slot].name
        /\ \A s \in Slots : s # r.slot => dir'[s] = dir[s]
    BY <1>t, <2>1 DEF Entry
  <2>3. \A s \in Slots : dir'[s].used = dir[s].used /\ dir'[s].name = dir[s].name
    BY <2>2
  <2>4. \A s \in Slots : dir'[s].used /\ dir'[s].size = 0 => dir'[s].first = FAT_END
    BY <1>1, <2>2 DEF Good, Unsettled
  <2>5. \A s \in Slots : dirDisk'[s].size <= End /\ dir'[s].size <= End
    BY <1>1, <2>2 DEF Good, End
  <2> QED BY <1>1, <2>1, <2>3, <2>4, <2>5 DEF Good, End
<1> QED BY <1>2, <1>3

\* resolve_data_block finds its block or takes a free one: it does not return.
LEMMA GoodResolve ==
  ASSUME Faults = FALSE, IInv, Saved, Good, Room, ResolveFirst \/ ResolveNext PROVE Good'
<1>t. /\ TypeOK /\ Locals /\ r \in CallRec /\ r.slot \in Slots /\ r.cur \in Link /\ r.step \in Nat
      /\ dir \in [Slots -> Entry] /\ fat \in [Blocks -> Link]
      /\ FAT_END \notin Blocks
  BY DEF IInv, TypeOK, CallRec, Blocks, FAT_END
<1>0. /\ pc \in {"resolve", "walk"} /\ mounted /\ mounted' /\ UNCHANGED dirDisk
      /\ dir[r.slot].used /\ r.left > 0
  BY <1>t DEF ResolveFirst, ResolveNext, Locals, Good
<1>k. ASSUME dir' = dir, pc' = "walk", r'.slot = r.slot, r'.left = r.left PROVE Good'
  <2>1. \A s \in Slots : Unsettled(s) => Unsettled(s)'
    BY <1>k DEF Unsettled
  <2> QED BY <1>0, <1>k, <2>1, GoodSame
<1>1. CASE ResolveFirst
  <2>1. pc = "resolve"
    BY <1>1 DEF ResolveFirst
  <2>2. CASE dir[r.slot].first = FAT_END
    <3>1. PICK b \in Blocks : AsFirst(b, [fat EXCEPT ![b] = FAT_END])
      BY <1>1, <2>1, <2>2 DEF ResolveFirst, AllocateWith, Room
    <3>2. /\ dir' = [dir EXCEPT ![r.slot] = [dir[r.slot] EXCEPT !.first = b]]
          /\ pc' = "walk" /\ r'.slot = r.slot /\ r'.left = r.left
      BY <1>t, <3>1 DEF AsFirst, CallRec
    <3>3. /\ \A s \in Slots : /\ dir'[s].used = dir[s].used /\ dir'[s].name = dir[s].name
                              /\ dir'[s].size = dir[s].size
          /\ \A s \in Slots : s # r.slot => dir'[s].first = dir[s].first
      BY <1>t, <3>2 DEF Entry
    <3>4. \A s \in Slots : dir'[s].used /\ dir'[s].size = 0 /\ ~Unsettled(s)' => dir'[s].first = FAT_END
      BY <1>0, <3>2, <3>3 DEF Good, Unsettled
    <3> QED BY <1>0, <3>2, <3>3, <3>4 DEF Good, End
  <2>3. CASE dir[r.slot].first # FAT_END
    <3>1. dir[r.slot].first \in Blocks
      BY <1>0, <1>t, <2>1, <2>3, LinkedFile
    <3>2. dir' = dir /\ pc' = "walk" /\ r'.slot = r.slot /\ r'.left = r.left
      BY <1>1, <1>t, <2>3, <3>1 DEF ResolveFirst, CallRec
    <3> QED BY <1>k, <3>2
  <2> QED BY <2>2, <2>3
<1>2. CASE ResolveNext
  <2>1. /\ pc = "walk" /\ r.cur \in Blocks /\ ChainAt(fat, dir[r.slot].first, r.step) = r.cur
        /\ r.step < LogicalBlock
    BY <1>0, <1>2, <1>t DEF ResolveNext, Locals, Saved
  <2>2. CASE fat[r.cur] = FAT_END
    <3>1. PICK b \in Blocks : AsNext(b, [fat EXCEPT ![b] = FAT_END])
      BY <1>2, <2>1, <2>2 DEF ResolveNext, AllocateWith, Room
    <3>2. dir' = dir /\ pc' = "walk" /\ r'.slot = r.slot /\ r'.left = r.left
      BY <1>t, <2>1, <3>1 DEF AsNext, CallRec
    <3> QED BY <1>k, <3>2
  <2>3. CASE fat[r.cur] # FAT_END
    <3>1. dir[r.slot].first # FAT_END
      BY <1>t, <2>1, StaysOutside
    <3>2. Linked(Roots, fat) /\ Roots[r.slot] = dir[r.slot].first /\ Roots \in [Slots -> Link]
      BY <1>0, <1>t, <2>1, <3>1, LinkedFile
    <3>3. fat[r.cur] # FAT_FREE
      BY <1>t, <2>1, <3>2, WalkTaken
    <3>4. fat[r.cur] \in Blocks
      BY <1>t, <2>1, <2>3, <3>3 DEF Link
    <3>5. dir' = dir /\ pc' = "walk" /\ r'.slot = r.slot /\ r'.left = r.left
      BY <1>2, <1>t, <2>1, <2>3, <3>4 DEF ResolveNext, CallRec
    <3> QED BY <1>k, <3>5
  <2> QED BY <2>2, <2>3
<1> QED BY <1>1, <1>2


\* The bytes one turn of fs_write writes: up to the end of the block or of the request.
ChunkLen ==
  LET room == BlockSize - (open[r.fd].offset % BlockSize) IN IF room > r.left THEN r.left ELSE room

\* A chunk is not empty and ends inside the data region, so the offset does not wrap.
LEMMA ChunkEnds ==
  ASSUME IInv, Saved, Good, WriteChunk
  PROVE  /\ ChunkLen \in Nat /\ ChunkLen > 0 /\ ChunkLen <= r.left
         /\ ChunkLen <= BlockSize - (open[r.fd].offset % BlockSize)
         /\ open[r.fd].offset + ChunkLen <= End
         /\ (open[r.fd].offset + ChunkLen) % Word = open[r.fd].offset + ChunkLen
<1>t. /\ TypeOK /\ Locals /\ r \in CallRec /\ r.slot \in Slots /\ r.fd \in Fds /\ r.step \in Nat
      /\ r.left \in Nat /\ dir \in [Slots -> Entry] /\ fat \in [Blocks -> Link]
      /\ open \in [Fds -> OpenFile] /\ open[r.fd] \in OpenFile /\ open[r.fd].offset \in Nat
      /\ FAT_END \notin Blocks
  BY DEF IInv, TypeOK, CallRec, OpenFile, FAT_END, Blocks
<1>0. mounted /\ dir[r.slot].used
  BY <1>t DEF WriteChunk, Locals
<1> DEFINE off == open[r.fd].offset
           room == BlockSize - (off % BlockSize)
           q == off \div BlockSize
<1>1. pc = "walk" /\ r.step >= q /\ r.cur \in Blocks /\ r.left > 0
  BY <1>0, <1>t DEF WriteChunk, LogicalBlock, Locals, Good
<1>2. room \in Nat /\ room > 0 /\ off \in Nat /\ q \in Nat
  BY <1>t
<1>3. ChunkLen \in Nat /\ ChunkLen > 0 /\ ChunkLen <= room /\ ChunkLen <= r.left
  <2>1. ChunkLen = IF room > r.left THEN r.left ELSE room
    BY DEF ChunkLen
  <2> HIDE DEF room
  <2> QED BY <1>t, <1>1, <1>2, <2>1
<1>4. r.step < NumBlocks
  <2>1. ChainAt(fat, dir[r.slot].first, r.step) = r.cur
    BY <1>0, <1>1 DEF Saved
  <2>2. dir[r.slot].first # FAT_END
    BY <1>t, <1>1, <2>1, StaysOutside
  <2>3. Linked(Roots, fat) /\ Roots[r.slot] = dir[r.slot].first /\ Roots \in [Slots -> Link]
    BY <1>0, <1>t, <1>1, <2>2, LinkedFile
  <2> QED BY <1>t, <1>1, <2>1, <2>3, WalkIsShort DEF Linked
<1>5. off + ChunkLen <= End
  <2>1. off = BlockSize * q + (off % BlockSize) /\ off % BlockSize \in Nat
    BY <1>t
  <2>2. off + ChunkLen <= BlockSize * q + BlockSize
    <3> HIDE DEF q
    <3>1. off % BlockSize \in Nat /\ ChunkLen <= BlockSize - (off % BlockSize)
      BY <1>3, <2>1
    <3>2. BlockSize * q \in Nat
      BY <1>2
    <3> HIDE DEF off
    <3> QED BY <1>2, <1>3, <2>1, <3>1, <3>2
  <2>3. q + 1 <= NumBlocks /\ q + 1 \in Nat
    <3> HIDE DEF q
    <3> QED BY <1>t, <1>1, <1>2, <1>4
  <2>4. BlockSize * q + BlockSize <= NumBlocks * BlockSize
    <3> HIDE DEF q
    <3>1. (q + 1) * BlockSize <= NumBlocks * BlockSize
      BY <1>2, <2>3
    <3>2. (q + 1) * BlockSize = BlockSize * q + BlockSize
      BY <1>2
    <3> QED BY <3>1, <3>2
  <2>5. BlockSize * q \in Nat /\ NumBlocks * BlockSize \in Nat
    <3> HIDE DEF q
    <3> QED BY <1>2
  <2> HIDE DEF off, q
  <2> QED BY <1>2, <1>3, <2>2, <2>4, <2>5 DEF End
<1>6. (off + ChunkLen) % Word = off + ChunkLen
  <2> HIDE DEF off
  <2>1. End \in Nat /\ (NumBlocks + 1) * BlockSize = End + BlockSize
    BY DEF End
  <2>2. off + ChunkLen \in Nat /\ off + ChunkLen < Word
    BY <1>2, <1>3, <1>5, <2>1, WordAssumption
  <2> QED BY <2>2
<1> QED BY <1>3, <1>5, <1>6

\* The size that fs_write ends with lies inside the data region.
LEMMA GoodWrite ==
  ASSUME Faults = FALSE, IInv, Saved, Good, WriteChunk \/ WriteEnd PROVE Good'
<1>t. /\ TypeOK /\ Locals /\ r \in CallRec /\ r.slot \in Slots /\ r.fd \in Fds
      /\ r.left \in Nat /\ dir \in [Slots -> Entry]
      /\ open \in [Fds -> OpenFile] /\ open[r.fd] \in OpenFile /\ open[r.fd].offset \in Nat
  BY DEF IInv, TypeOK, CallRec, OpenFile
<1>0. mounted /\ mounted' /\ dir[r.slot].used /\ UNCHANGED dirDisk
  BY <1>t DEF WriteChunk, WriteEnd, Locals, image
<1>1. CASE WriteChunk
  <2> DEFINE off == open[r.fd].offset
  <2>1. /\ open' = [open EXCEPT ![r.fd].offset = (off + ChunkLen) % Word] /\ dir' = dir
        /\ r' = [r EXCEPT !.left = @ - ChunkLen]
        /\ pc = "walk" /\ pc' = IF r.left = ChunkLen THEN "size" ELSE "resolve"
    BY <1>1, Zenon DEF WriteChunk, ChunkLen
  <2>2. r'.fd = r.fd /\ r'.slot = r.slot /\ r'.left = r.left - ChunkLen
        /\ open'[r.fd].offset = (off + ChunkLen) % Word
    BY <1>t, <2>1 DEF OpenFile, CallRec
  <2>3. /\ ChunkLen \in Nat /\ ChunkLen > 0 /\ ChunkLen <= r.left
        /\ off + ChunkLen <= End /\ (off + ChunkLen) % Word = off + ChunkLen
    BY <1>1, ChunkEnds
  <2>4. \A s \in Slots : Unsettled(s) => Unsettled(s)'
    BY <2>1, <2>2 DEF Unsettled
  <2>5. pc' \in {"resolve", "walk"} => r'.left > 0
    BY <1>t, <2>1, <2>2, <2>3
  <2>6. pc' = "size" => open'[r'.fd].offset \in 1 .. End
    <3> HIDE DEF off
    <3>1. off \in Nat /\ End \in Nat
      BY <1>t DEF off, End
    <3> QED BY <2>2, <2>3, <3>1
  <2>7. pc' # "unmount"
    BY <2>1
  <2> QED BY <1>0, <2>1, <2>4, <2>5, <2>6, <2>7, GoodSame, SMTT(30)
<1>2. CASE WriteEnd
  <2> DEFINE off == open[r.fd].offset
             size == IF off > dir[r.slot].size THEN off ELSE dir[r.slot].size
  <2>1. /\ pc = "size" /\ pc' = "syncDir" /\ off \in 1 .. End
        /\ dir' = [dir EXCEPT ![r.slot] = [dir[r.slot] EXCEPT !.size = size]]
    BY <1>0, <1>2, <1>t DEF WriteEnd, Good
  <2>2. dir[r.slot].size \in Nat /\ dir[r.slot].size <= End
    BY <1>t DEF Entry, Good
  <2>3. size <= End /\ size # 0
    <3> HIDE DEF off
    <3> QED BY <2>1, <2>2 DEF End
  <2>4. /\ \A s \in Slots : dir'[s].used = dir[s].used /\ dir'[s].name = dir[s].name
        /\ \A s \in Slots : s # r.slot => dir'[s] = dir[s]
        /\ dir'[r.slot].size = size
    BY <1>t, <2>1 DEF Entry
  <2> HIDE DEF size
  <2>5. \A s \in Slots : dir'[s].used /\ dir'[s].size = 0 => dir'[s].first = FAT_END
    BY <1>0, <2>3, <2>4 DEF Good, Unsettled
  <2>6. \A s \in Slots : dirDisk'[s].size <= End /\ dir'[s].size <= End
    BY <1>0, <2>3, <2>4 DEF Good, End
  <2> QED BY <1>0, <2>1, <2>4, <2>5, <2>6 DEF Good, End
<1> QED BY <1>1, <1>2

\* sync_metadata: only a sync that wrote both regions lets fs_unmount go on.
LEMMA GoodSync ==
  ASSUME Faults = FALSE, IInv, Good, SyncDir \/ SyncFat PROVE Good'
<1>t. TypeOK /\ Locals /\ r \in CallRec /\ r.next \in {"idle", "unmount", "trunc", "takeFd"}
  BY DEF IInv, TypeOK, CallRec
<1>1. /\ mounted /\ mounted' /\ dir' = dir /\ fat' = fat /\ (dirDisk' = dirDisk \/ dirDisk' = dir)
      /\ pc \in {"syncDir", "syncFat"}
      /\ pc' \in {"syncFat", "idle", "unmount", "trunc", "takeFd"}
  BY <1>t DEF SyncDir, SyncFat, memory, Locals
<1>2. pc' = "unmount" => dirDisk' = dir /\ fatDisk' = fat'
  BY <1>t DEF SyncDir, SyncFat, memory, Locals
<1>3. \A s \in Slots : Unsettled(s) => Unsettled(s)'
  BY <1>1 DEF Unsettled
<1> QED BY <1>1, <1>2, <1>3, GoodSame

\* Every step keeps Good, as long as no allocation meets a full image.
LEMMA GoodStep ==
  ASSUME Faults = FALSE, 0 \notin Lens
  PROVE  IInv /\ Saved /\ Good /\ Room /\ [Next]_vars => Good'
<1> SUFFICES ASSUME IInv, Saved, Good, Room, Next PROVE Good'
  <2>1. CASE UNCHANGED vars
    <3>1. UNCHANGED <<mounted, dir, fat, dirDisk, fatDisk, pc, r, open>>
      BY <2>1 DEF vars
    <3> QED BY <3>1 DEF Good, Unsettled
  <2> QED BY <2>1
<1>t. TypeOK /\ Locals
  BY DEF IInv
<1>1. CASE fs_format_image \/ FormatStep \/ fs_mount \/ UnmountEnd \/ Crash
  BY <1>1, <1>t, GoodMount
<1>2. CASE \E n \in Names, fl \in FlagChoices : OpenCreate(n, fl)
  BY <1>2, <1>t, GoodCreate
<1>3. CASE SyncDir \/ SyncFat
  BY <1>3, GoodSync
<1>4. CASE ReleaseStep \/ TruncEnd
  BY <1>4, GoodTruncate
<1>5. CASE ResolveFirst \/ ResolveNext
  BY <1>5, GoodResolve
<1>6. CASE WriteChunk \/ WriteEnd
  BY <1>6, GoodWrite
<1>7. CASE \/ fs_unmount \/ TakeFd \/ TruncBegin
           \/ \E n \in Names, fl \in FlagChoices : OpenFound(n, fl)
           \/ \E fd \in Fds : \/ fs_close(fd)
                              \/ \E off \in Offsets : fs_seek(fd, off)
                              \/ \E len \in Lens : fs_read(fd, len)
                              \/ \E len \in Lens, v \in Values : fs_write(fd, len, v)
  <2>1. UNCHANGED <<mounted, dir, dirDisk>>
    BY <1>7, ZenonT(60) DEF fs_unmount, TakeFd, TruncBegin, OpenFound, fs_close, fs_seek,
                 fs_read, fs_write, Begin, memory, image
  <2>2. mounted /\ pc \in {"idle", "trunc", "takeFd"}
    BY <1>7, <1>t, ZenonT(60) DEF fs_unmount, TakeFd, TruncBegin, OpenFound, fs_close, fs_seek,
                 fs_read, fs_write, Begin, Locals
  <2>3. pc' \notin {"walk", "size", "unmount"} /\ (pc' = "resolve" => r'.left > 0)
    <3>1. CASE \E fd \in Fds : \E len \in Lens, v \in Values : fs_write(fd, len, v)
      <4>1. PICK fd \in Fds, len \in Lens, v \in Values : fs_write(fd, len, v)
        BY <3>1
      <4>2. len \in Nat /\ len # 0
        OBVIOUS
      <4>3. pc' = "resolve" /\ r'.left = len
        BY <4>1, <4>2 DEF fs_write, NoCall
      <4> QED BY <4>2, <4>3
    <3>2. CASE \/ fs_unmount \/ TakeFd \/ TruncBegin
               \/ \E n \in Names, fl \in FlagChoices : OpenFound(n, fl)
      BY <3>2 DEF fs_unmount, TakeFd, TruncBegin, Return, OpenFound, AfterFound
    <3>3. CASE \E fd \in Fds : \/ fs_close(fd)
                               \/ \E off \in Offsets : fs_seek(fd, off)
                               \/ \E len \in Lens : fs_read(fd, len)
      <4>1. pc' = "idle"
        BY <3>3 DEF fs_close, fs_seek, fs_read, Begin
      <4> QED BY <4>1
    <3> QED BY <1>7, <3>1, <3>2, <3>3
  <2>4. \A s \in Slots : Unsettled(s) => Unsettled(s)'
    BY <2>2 DEF Unsettled
  <2> QED BY <2>1, <2>2, <2>3, <2>4, GoodSame
<1> QED
  BY <1>1, <1>2, <1>3, <1>4, <1>5, <1>6, <1>7 DEF Next, Call, Step, fs_open

\* A formatted image is good.
LEMMA GoodInit == Init => Saved /\ Good
<1> SUFFICES ASSUME Init PROVE Good
  BY DEF Init, Saved
<1>1. \A s \in Slots : dirDisk[s].size = 0 /\ dir[s].size = 0
  BY DEF Init, FormattedDir, ZeroDir
<1>2. End >= 0 /\ ~mounted
  BY DEF End, Init
<1> QED BY <1>1, <1>2 DEF Good, End

\* As long as allocate_data_block finds a block, the metadata between calls passes
\* validate_metadata (MountedSound), whatever crashes and remounts went before, so
\* fs_read never meets a chain too short for the size.  (On a full image a write to an
\* empty file fails half way and leaves it with a chain, which validate_metadata refuses.)
THEOREM MetadataStaysSound ==
  ASSUME Faults = FALSE, 0 \notin Lens PROVE Spec /\ []Room => []MountedSound
<1>1. IInv /\ Saved /\ Good => MountedSound
  BY GoodIsSound DEF MountedSound
<1>2. IInv /\ Saved /\ [Next]_vars => Saved'
  BY SavedStep
<1>3. IInv /\ Saved /\ Good /\ Room /\ [Next]_vars => Good'
  BY GoodStep
<1> QED BY <1>1, <1>2, <1>3, GoodInit, InductiveInvariant, PTL DEF Spec

\* Under the same hypotheses an image that fs_unmount closed with FS_OK mounts again,
\* as fs/fs_rw_test.c expects (RemountAfterUnmount).
THEOREM ClosedImageRemounts ==
  ASSUME Faults = FALSE, 0 \notin Lens PROVE Spec /\ []Room => RemountAfterUnmount
<1>1. IInv /\ Saved /\ Good /\ [Next]_vars
        => [pc = "unmount" /\ pc' = "idle" => MetadataOk(dirDisk', fatDisk')]_vars
  <2> SUFFICES ASSUME IInv, Saved, Good, Next, pc = "unmount" PROVE MetadataOk(dirDisk', fatDisk')
    OBVIOUS
  <2>1. mounted /\ dirDisk = dir /\ fatDisk = fat
    BY DEF IInv, Locals, Good
  <2>2. MetadataOk(dir, fat)
    BY <2>1, GoodIsSound
  <2>3. UNCHANGED <<dirDisk, fatDisk>>
    BY ZenonT(60) DEF Next, Call, Step, Crash, fs_format_image, fs_mount, fs_unmount, fs_open, OpenFound,
       OpenCreate, fs_close, fs_seek, fs_read, fs_write, FormatStep, SyncDir, SyncFat, UnmountEnd, TruncBegin,
       ReleaseStep, TruncEnd, TakeFd, ResolveFirst, ResolveNext, WriteChunk, WriteEnd, Begin, image
  <2> QED BY <2>1, <2>2, <2>3
<1>2. IInv /\ Saved /\ [Next]_vars => Saved'
  BY SavedStep
<1>3. IInv /\ Saved /\ Good /\ Room /\ [Next]_vars => Good'
  BY GoodStep
<1> QED BY <1>1, <1>2, <1>3, GoodInit, InductiveInvariant, PTL DEF Spec, RemountAfterUnmount

\* Under the same hypotheses the image mounts after a crash at any step of any call
\* except between the two region writes of sync_metadata (MountableOutsideSync): every
\* sync leaves a directory and a FAT that validate_metadata accepts, and no call touches
\* the regions otherwise.
THEOREM OnlySyncBreaksImage ==
  ASSUME Faults = FALSE, 0 \notin Lens PROVE Spec /\ []Room => []MountableOutsideSync
<1>1. Init => MountableOutsideSync
  BY DEF Init, MountableOutsideSync
<1>2. IInv /\ Saved /\ Good /\ MountableOutsideSync /\ [Next]_vars => MountableOutsideSync'
  <2> SUFFICES ASSUME IInv, Saved, Good, MountableOutsideSync, Next, mounted'
               PROVE  super' /\ (pc' # "syncFat" => MetadataOk(dirDisk', fatDisk'))
    <3>1. CASE UNCHANGED vars
      BY <3>1 DEF vars, MountableOutsideSync
    <3> QED BY <3>1 DEF MountableOutsideSync
  <2>1. CASE SyncFat
    <3>1. pc = "syncFat" /\ mounted /\ dirDisk = dir /\ UNCHANGED <<super, dirDisk>> /\ fatDisk' = fat
      BY <2>1 DEF SyncFat, IInv, Locals
    <3>2. MetadataOk(dir, fat)
      BY <3>1, GoodIsSound
    <3> QED BY <3>1, <3>2 DEF MountableOutsideSync
  <2>2. CASE fs_mount
    BY <2>2 DEF fs_mount, image
  <2>4. CASE SyncDir
    BY <2>4 DEF SyncDir, memory, IInv, Locals, MountableOutsideSync
  <2>3. CASE ~SyncFat /\ ~fs_mount /\ ~SyncDir
    <3>1. mounted /\ pc # "syncFat" /\ UNCHANGED <<super, dirDisk, fatDisk>>
      BY <2>3, ZenonT(120) DEF Next, Call, Step, Crash, fs_format_image, fs_unmount, fs_open, OpenFound,
         OpenCreate, fs_close, fs_seek, fs_read, fs_write, FormatStep, UnmountEnd, TruncBegin,
         ReleaseStep, TruncEnd, TakeFd, ResolveFirst, ResolveNext, WriteChunk, WriteEnd, Begin, image,
         memory, IInv, Locals
    <3> QED BY <3>1 DEF MountableOutsideSync
  <2> QED BY <2>1, <2>2, <2>3, <2>4
<1>3. IInv /\ Saved /\ [Next]_vars => Saved'
  BY SavedStep
<1>4. IInv /\ Saved /\ Good /\ Room /\ [Next]_vars => Good'
  BY GoodStep
<1> QED BY <1>1, <1>2, <1>3, <1>4, GoodInit, InductiveInvariant, PTL DEF Spec

-------------------------------------------------------------------------------
(* File contents: OTFS implements FileStore.                                   *)

\* A change of links that a walk does not meet changes nothing of the walk.
LEMMA WalkSame ==
  ASSUME NEW f, NEW g, NEW first,
         \A k \in Nat : ChainAt(f, first, k) \in Blocks
                          => g[ChainAt(f, first, k)] = f[ChainAt(f, first, k)]
  PROVE  \A k \in Nat : ChainAt(g, first, k) = ChainAt(f, first, k)
<1> DEFINE C(k) == ChainAt(f, first, k)
           D(k) == ChainAt(g, first, k)
           T == {k \in Nat : D(k) = C(k)}
<1>1. C(0) = first /\ \A k \in Nat : C(k + 1) = Follow(f, C(k))
  BY ChainIs, ZenonT(60)
<1>2. D(0) = first /\ \A k \in Nat : D(k + 1) = Follow(g, D(k))
  BY ChainIs, ZenonT(60)
<1>3. \A k \in Nat : C(k) \in Blocks => g[C(k)] = f[C(k)]
  OBVIOUS
<1> HIDE DEF C, D
<1>4. 0 \in T
  BY <1>1, <1>2
<1>5. ASSUME NEW k \in Nat, k \in T PROVE k + 1 \in T
  <2>1. D(k + 1) = Follow(g, C(k)) /\ C(k + 1) = Follow(f, C(k))
    BY <1>1, <1>2, <1>5
  <2> QED BY <1>3, <2>1 DEF Follow
<1>6. \A k \in Nat : k \in T
  <2> HIDE DEF T
  <2> QED BY <1>4, <1>5, Upward
<1> QED BY <1>6 DEF C, D

\* A walk over links among which one block is new meets, besides what it met before,
\* that block and the end only.
LEMMA WalkGrows ==
  ASSUME NEW f, NEW g, NEW first, NEW start, NEW b \in Blocks,
         g[b] = FAT_END, \A d \in Blocks : d # b => g[d] \in {f[d], b},
         start \in {first, b}, \A k \in Nat : ChainAt(f, first, k) # b
  PROVE  \A k \in Nat : ChainAt(g, start, k) \in {ChainAt(f, first, k), b, FAT_END}
<1> DEFINE C(k) == ChainAt(f, first, k)
           D(k) == ChainAt(g, start, k)
           T == {k \in Nat : D(k) \in {C(k), b, FAT_END}}
<1>1. C(0) = first /\ \A k \in Nat : C(k + 1) = Follow(f, C(k))
  BY ChainIs, ZenonT(60)
<1>2. D(0) = start /\ \A k \in Nat : D(k + 1) = Follow(g, D(k))
  <2>1. \A x : ChainAt(g, x, 0) = x /\ \A k \in Nat : ChainAt(g, x, k + 1) = Follow(g, ChainAt(g, x, k))
    BY ChainIs, ZenonT(60)
  <2> QED BY <2>1, ZenonT(60)
<1>3. (\A k \in Nat : C(k) # b) /\ FAT_END \notin Blocks
  BY DEF Blocks, FAT_END
<1> HIDE DEF C, D
<1>4. 0 \in T
  BY <1>1, <1>2
<1>5. ASSUME NEW k \in Nat, k \in T PROVE k + 1 \in T
  <2>1. D(k + 1) = Follow(g, D(k)) /\ C(k + 1) = Follow(f, C(k))
    BY <1>1, <1>2
  <2>2. CASE D(k) = C(k)
    BY <1>3, <2>1, <2>2 DEF Follow
  <2>3. CASE D(k) = b
    BY <2>1, <2>3 DEF Follow
  <2>4. CASE D(k) = FAT_END
    BY <1>3, <2>1, <2>4 DEF Follow
  <2> QED BY <1>5, <2>2, <2>3, <2>4
<1>6. \A k \in Nat : k \in T
  <2> HIDE DEF T
  <2> QED BY <1>4, <1>5, Upward
<1> QED BY <1>6 DEF C, D

\* Every byte of a file lies in one of the blocks its size needs.
LEMMA ByteIsCovered ==
  ASSUME NEW size \in 0 .. End, NEW i \in Nat, i < size
  PROVE  i \div BlockSize \in 0 .. BlocksFor(size) - 1
<1> DEFINE sum == size + BlockSize - 1
           q == i \div BlockSize
           n == sum \div BlockSize
<1>1. /\ BlockSize \in Nat /\ BlockSize > 0 /\ Word \in Nat /\ NumBlocks \in Nat /\ End \in Nat
      /\ (NumBlocks + 1) * BlockSize = End + BlockSize
  BY DEF End
<1>2. sum \in Nat /\ sum < Word
  BY <1>1, WordAssumption
<1>3. sum % Word = sum
  <2> HIDE DEF sum
  <2> QED BY <1>1, <1>2
<1>4. n \in Nat /\ sum < BlockSize * n + BlockSize
  <2> HIDE DEF sum
  <2> QED BY <1>1, <1>2
<1>5. q \in Nat /\ BlockSize * q <= i
  BY <1>1
<1>6. q < n
  <2> HIDE DEF q, n
  <2> SUFFICES ASSUME q >= n PROVE FALSE
    BY <1>4, <1>5
  <2>1. BlockSize * q >= BlockSize * n /\ BlockSize * q \in Nat /\ BlockSize * n \in Nat
    BY <1>1, <1>4, <1>5
  <2> QED BY <1>1, <1>4, <1>5, <2>1
<1>7. BlocksFor(size) = n
  BY <1>3 DEF BlocksFor
<1> HIDE DEF q, n
<1>8. q \in 0 .. BlocksFor(size) - 1
  BY <1>4, <1>5, <1>6, <1>7
<1> QED BY <1>8 DEF q

\* The bytes of a chunk are the ones of its block from the offset on.
LEMMA ChunkBytes ==
  ASSUME NEW off \in Nat, NEW chunk \in Nat, chunk <= BlockSize - (off % BlockSize), NEW i \in Nat
  PROVE  (i \div BlockSize = off \div BlockSize /\ i % BlockSize \in (off % BlockSize) .. (off % BlockSize) + chunk - 1)
         <=> off <= i /\ i < off + chunk
<1> DEFINE q == off \div BlockSize
           m == off % BlockSize
           p == i \div BlockSize
           n == i % BlockSize
<1>1. /\ BlockSize \in Nat /\ BlockSize > 0
      /\ q \in Nat /\ m \in Nat /\ off = BlockSize * q + m /\ m < BlockSize
      /\ p \in Nat /\ n \in Nat /\ i = BlockSize * p + n /\ n < BlockSize
      /\ chunk <= BlockSize - m
  OBVIOUS
<1> HIDE DEF q, m, p, n
<1>2. ASSUME p < q PROVE i < off
  <2>1. BlockSize * (p + 1) <= BlockSize * q /\ BlockSize * (p + 1) = BlockSize * p + BlockSize
    BY <1>1, <1>2
  <2> QED BY <1>1, <2>1
<1>3. ASSUME q < p PROVE i >= off + chunk
  <2>1. BlockSize * (q + 1) <= BlockSize * p /\ BlockSize * (q + 1) = BlockSize * q + BlockSize
    BY <1>1, <1>3
  <2> QED BY <1>1, <2>1
<1>4. ASSUME p = q PROVE (n \in m .. m + chunk - 1) <=> off <= i /\ i < off + chunk
  BY <1>1, <1>4
<1>5. p < q \/ q < p \/ p = q
  BY <1>1
<1>6. (p = q /\ n \in m .. m + chunk - 1) <=> off <= i /\ i < off + chunk
  BY <1>1, <1>2, <1>3, <1>4, <1>5
<1> QED BY <1>6 DEF p, q, m, n

\* The block of byte i of a file, and the byte.
Blk(s, i) == ChainAt(CurFat, CurDir[s].first, i \div BlockSize)
Byte(s, i) == data[Blk(s, i)][i % BlockSize]

\* fs_write is running, and it has put byte i of file s in place.
Writing == pc \in {"resolve", "walk", "size"}
Put(s, i) == Writing /\ s = r.slot /\ r.at <= i /\ i < open[r.fd].offset

\* Behind the size of a file its blocks hold zeros, but for what the running fs_write
\* has put there.
Zeros ==
  \A s \in Slots, i \in Nat :
    /\ CurDir[s].used /\ ~(s = r.slot /\ pc = "release")
    /\ CurDir[s].size <= i /\ ~Put(s, i) /\ Blk(s, i) \in Blocks
    => Byte(s, i) = 0

\* fs_write has put the bytes up to the offset in place, the rest is still to come, and
\* its walk never goes too far.
Progress ==
  Writing =>
    /\ \A i \in Nat : Put(r.slot, i) => Blk(r.slot, i) \in Blocks /\ Byte(r.slot, i) = r.val
    /\ open[r.fd].offset + r.left = r.at + r.len /\ r.at <= open[r.fd].offset
    /\ pc = "size" => r.left = 0
    /\ pc = "walk" => r.step <= LogicalBlock

Clean ==
  /\ Zeros /\ Progress
  /\ pc # "idle" => got = <<>>
  /\ pc \in {"fmtSuper", "fmtDir", "fmtFat"} => \A s \in Slots : ~dirDisk[s].used

\* The store, with the directory and the contents as arguments.
StoreIn(d, c, n) ==
  IF \E s \in Slots : d[s].used /\ d[s].name = n
    THEN c[CHOOSE s \in Slots : d[s].used /\ d[s].name = n]
    ELSE NoFile
AllContents == [s \in Slots |-> Contents(s)]
Distinct(d) == \A s, t \in Slots : d[s].used /\ d[t].used /\ d[s].name = d[t].name => s = t
SameNames(d, e) == \A s \in Slots : e[s].used = d[s].used /\ e[s].name = d[s].name
ChangesOnly(t, d, c, a) == d[t].used /\ \A s \in Slots : s # t /\ d[s].used => a[s] = c[s]
ChangesNone(d, c, a) == \A s \in Slots : d[s].used => a[s] = c[s]

LEMMA StoreIs ==
  ASSUME NEW n PROVE StoreOf(n) = StoreIn(CurDir, AllContents, n)
<1> DEFINE P(s) == CurDir[s].used /\ CurDir[s].name = n
<1>1. CASE \E s \in Slots : P(s)
  <2>1. (CHOOSE s \in Slots : P(s)) \in Slots
    BY <1>1
  <2>2. StoreOf(n) = Contents(CHOOSE s \in Slots : P(s))
    BY <1>1, Zenon DEF StoreOf
  <2>3. StoreIn(CurDir, AllContents, n) = AllContents[CHOOSE s \in Slots : P(s)]
    BY <1>1, Zenon DEF StoreIn
  <2> HIDE DEF P
  <2> QED BY <2>1, <2>2, <2>3 DEF AllContents
<1>2. CASE ~\E s \in Slots : P(s)
  BY <1>2, Zenon DEF StoreOf, StoreIn
<1> QED BY <1>1, <1>2

LEMMA StoreInAt ==
  ASSUME NEW d, Distinct(d), NEW c, NEW s \in Slots, d[s].used
  PROVE  StoreIn(d, c, d[s].name) = c[s]
<1> DEFINE P(t) == d[t].used /\ d[t].name = d[s].name
           x == CHOOSE t \in Slots : P(t)
<1>1. P(s)
  OBVIOUS
<1>2. x \in Slots /\ P(x)
  <2> HIDE DEF P
  <2> QED BY <1>1
<1>3. x = s
  BY <1>2 DEF Distinct
<1>4. StoreIn(d, c, d[s].name) = c[x]
  BY <1>1, Zenon DEF StoreIn
<1> QED BY <1>3, <1>4

LEMMA StoreInNone ==
  ASSUME NEW d, NEW c, NEW n, \A s \in Slots : ~(d[s].used /\ d[s].name = n)
  PROVE  StoreIn(d, c, n) = NoFile
BY Zenon DEF StoreIn

\* When one file changes, one name changes.
LEMMA OneChanges ==
  ASSUME NEW d, NEW c, NEW e, NEW a, Distinct(d), SameNames(d, e),
         NEW t \in Slots, ChangesOnly(t, d, c, a), NEW n
  PROVE  StoreIn(e, a, n) = IF n = d[t].name THEN a[t] ELSE StoreIn(d, c, n)
<1>0. Distinct(e)
  BY DEF Distinct, SameNames
<1>1. CASE n = d[t].name
  <2>1. StoreIn(e, a, e[t].name) = a[t]
    BY <1>0, StoreInAt DEF SameNames, ChangesOnly
  <2> QED BY <1>1, <2>1 DEF SameNames
<1>2. CASE n # d[t].name /\ \E s \in Slots : d[s].used /\ d[s].name = n
  <2>1. PICK s \in Slots : d[s].used /\ d[s].name = n
    BY <1>2
  <2>2. StoreIn(e, a, e[s].name) = a[s] /\ StoreIn(d, c, d[s].name) = c[s]
    BY <1>0, <2>1, StoreInAt DEF SameNames
  <2> QED BY <1>2, <2>1, <2>2 DEF SameNames, ChangesOnly
<1>3. CASE n # d[t].name /\ ~\E s \in Slots : d[s].used /\ d[s].name = n
  <2>1. StoreIn(e, a, n) = NoFile /\ StoreIn(d, c, n) = NoFile
    BY <1>3, StoreInNone DEF SameNames
  <2> QED BY <1>3, <2>1
<1> QED BY <1>1, <1>2, <1>3

\* When none changes, none does.
LEMMA NoneChanges ==
  ASSUME NEW d, NEW c, NEW e, NEW a, Distinct(d), SameNames(d, e), ChangesNone(d, c, a), NEW n
  PROVE  StoreIn(e, a, n) = StoreIn(d, c, n)
<1>0. Distinct(e)
  BY DEF Distinct, SameNames
<1>2. CASE \E s \in Slots : d[s].used /\ d[s].name = n
  <2>1. PICK s \in Slots : d[s].used /\ d[s].name = n
    BY <1>2
  <2>2. StoreIn(e, a, e[s].name) = a[s] /\ StoreIn(d, c, d[s].name) = c[s]
    BY <1>0, <2>1, StoreInAt DEF SameNames
  <2> QED BY <2>1, <2>2 DEF SameNames, ChangesNone
<1>3. CASE ~\E s \in Slots : d[s].used /\ d[s].name = n
  <2>1. StoreIn(e, a, n) = NoFile /\ StoreIn(d, c, n) = NoFile
    BY <1>3, StoreInNone DEF SameNames
  <2> QED BY <2>1
<1> QED BY <1>2, <1>3

\* What a step of fs_write does to the call.
LEMMA ChunkCall ==
  ASSUME Faults = FALSE, IInv, Saved, Good, WriteChunk
  PROVE  /\ pc = "walk" /\ pc' = (IF r.left = ChunkLen THEN "size" ELSE "resolve")
         /\ mounted /\ mounted' /\ dir[r.slot].used /\ UNCHANGED <<dir, fat, got>>
         /\ r'.fd = r.fd /\ r'.slot = r.slot /\ r'.at = r.at /\ r'.len = r.len /\ r'.val = r.val
         /\ r'.left = r.left - ChunkLen
         /\ open'[r.fd].offset = open[r.fd].offset + ChunkLen
         /\ data' = [data EXCEPT ![r.cur] =
                       [j \in 0 .. BlockSize - 1 |->
                          IF j \in (open[r.fd].offset % BlockSize)
                                     .. (open[r.fd].offset % BlockSize) + ChunkLen - 1
                            THEN r.val ELSE data[r.cur][j]]]
<1>t. /\ TypeOK /\ Locals /\ r \in CallRec /\ r.fd \in Fds /\ open \in [Fds -> OpenFile] /\ open[r.fd] \in OpenFile
      /\ data \in [Blocks -> [0 .. BlockSize - 1 -> Values]]
  BY DEF IInv, TypeOK, CallRec
<1>1. r.cur \in Blocks /\ mounted /\ dir[r.slot].used /\ pc = "walk"
  BY <1>t DEF WriteChunk, Locals
<1>2. /\ data' = [data EXCEPT ![r.cur] =
                       [j \in 0 .. BlockSize - 1 |->
                          IF j \in (open[r.fd].offset % BlockSize)
                                     .. (open[r.fd].offset % BlockSize) + ChunkLen - 1
                            THEN r.val ELSE data[r.cur][j]]]
      /\ open' = [open EXCEPT ![r.fd].offset = (open[r.fd].offset + ChunkLen) % Word]
      /\ r' = [r EXCEPT !.left = r.left - ChunkLen]
      /\ pc' = IF r.left = ChunkLen THEN "size" ELSE "resolve"
      /\ UNCHANGED <<mounted, dir, fat, got>>
  BY Zenon DEF WriteChunk, ChunkLen
<1>3. open'[r.fd].offset = (open[r.fd].offset + ChunkLen) % Word
  BY <1>t, <1>2 DEF OpenFile
<1>4. /\ r'.fd = r.fd /\ r'.slot = r.slot /\ r'.at = r.at /\ r'.len = r.len /\ r'.val = r.val
      /\ r'.left = r.left - ChunkLen
  BY <1>t, <1>2 DEF CallRec
<1> QED BY <1>1, <1>2, <1>3, <1>4, ChunkEnds

\* While the image is mounted the bytes of a file are found through the handle.
LEMMA BytesInMemory ==
  ASSUME mounted, NEW s, NEW i
  PROVE  /\ Blk(s, i) = ChainAt(fat, dir[s].first, i \div BlockSize)
         /\ Byte(s, i) = data[Blk(s, i)][i % BlockSize]
BY DEF Blk, Byte, CurFat, CurDir

LEMMA BytesNext ==
  ASSUME mounted', NEW s, NEW i
  PROVE  /\ Blk(s, i)' = ChainAt(fat', dir'[s].first, i \div BlockSize)
         /\ Byte(s, i)' = data'[Blk(s, i)'][i % BlockSize]
BY DEF Blk, Byte, CurFat, CurDir

\* A chunk changes the bytes of the request from the offset on, and no other byte of any file.
LEMMA ChunkChanges ==
  ASSUME Faults = FALSE, IInv, Saved, Good, Progress, WriteChunk
  PROVE  /\ \A s \in Slots, i \in Nat :
              dir[s].used /\ Blk(s, i) \in Blocks
                => /\ Blk(s, i)' = Blk(s, i)
                   /\ Byte(s, i)' = IF s = r.slot /\ open[r.fd].offset <= i
                                       /\ i < open[r.fd].offset + ChunkLen
                                      THEN r.val ELSE Byte(s, i)
         /\ \A s \in Slots, i \in Nat : Blk(s, i)' = Blk(s, i)
         /\ \A i \in Nat : open[r.fd].offset <= i /\ i < open[r.fd].offset + ChunkLen
                             => Blk(r.slot, i) \in Blocks
<1>t. /\ TypeOK /\ Locals /\ r \in CallRec /\ r.slot \in Slots /\ r.fd \in Fds /\ r.step \in Nat
      /\ dir \in [Slots -> Entry] /\ fat \in [Blocks -> Link]
      /\ open \in [Fds -> OpenFile] /\ open[r.fd] \in OpenFile /\ open[r.fd].offset \in Nat
      /\ FAT_END \notin Blocks /\ data \in [Blocks -> [0 .. BlockSize - 1 -> Values]]
  BY DEF IInv, TypeOK, CallRec, OpenFile, FAT_END, Blocks
<1> DEFINE off == open[r.fd].offset
           q == off \div BlockSize
           m == off % BlockSize
<1>1. /\ pc = "walk" /\ mounted /\ mounted' /\ dir[r.slot].used /\ UNCHANGED <<dir, fat>>
      /\ data' = [data EXCEPT ![r.cur] =
                       [j \in 0 .. BlockSize - 1 |->
                          IF j \in m .. m + ChunkLen - 1 THEN r.val ELSE data[r.cur][j]]]
  BY ChunkCall
<1>2. ChunkLen \in Nat /\ ChunkLen <= BlockSize - m
  BY ChunkEnds
<1>3. r.step = q /\ q \in Nat /\ m \in Nat
  <2>1. r.step >= q /\ r.step <= q
    BY <1>1 DEF WriteChunk, LogicalBlock, Progress, Writing
  <2>2. q \in Nat /\ m \in Nat
    <3>1. off \in Nat
      BY <1>t
    <3> HIDE DEF off
    <3> QED BY <3>1
  <2> HIDE DEF q
  <2> QED BY <1>t, <2>1, <2>2, SMTT(30)
<1>4. r.cur \in Blocks /\ ChainAt(fat, dir[r.slot].first, q) = r.cur
  <2>1. r.cur \in Blocks /\ ChainAt(fat, dir[r.slot].first, r.step) = r.cur
    BY <1>1, <1>t DEF Locals, Saved
  <2> QED BY <1>3, <2>1
<1>5. Linked(Roots, fat) /\ Roots \in [Slots -> Link] /\ Roots[r.slot] = dir[r.slot].first
  <2>1. dir[r.slot].first # FAT_END
    <3> HIDE DEF q
    <3> QED BY <1>t, <1>3, <1>4, StaysOutside
  <2> QED BY <1>1, <1>t, <2>1, LinkedFile
<1>6. \A i \in Nat : (i \div BlockSize = q /\ i % BlockSize \in m .. m + ChunkLen - 1)
                        <=> off <= i /\ i < off + ChunkLen
  <2> HIDE DEF off
  <2> SUFFICES ASSUME NEW i \in Nat
               PROVE (i \div BlockSize = q /\ i % BlockSize \in m .. m + ChunkLen - 1)
                        <=> off <= i /\ i < off + ChunkLen
    OBVIOUS
  <2>1. off \in Nat /\ ChunkLen \in Nat /\ ChunkLen <= BlockSize - (off % BlockSize)
    BY <1>t, <1>2 DEF off
  <2> QED BY <2>1, ChunkBytes, Zenon
<1>7. \A s \in Slots, i \in Nat : Blk(s, i)' = Blk(s, i)
  <2> SUFFICES ASSUME NEW s \in Slots, NEW i \in Nat PROVE Blk(s, i)' = Blk(s, i)
    OBVIOUS
  <2>1. /\ Blk(s, i) = ChainAt(fat, dir[s].first, i \div BlockSize)
        /\ Blk(s, i)' = ChainAt(fat', dir'[s].first, i \div BlockSize)
    BY <1>1, BytesInMemory, BytesNext, Zenon
  <2> QED BY <1>1, <2>1
<1>8. ASSUME NEW s \in Slots, NEW i \in Nat, dir[s].used, Blk(s, i) \in Blocks
      PROVE  Byte(s, i)' = IF s = r.slot /\ off <= i /\ i < off + ChunkLen THEN r.val ELSE Byte(s, i)
  <2> DEFINE k == i \div BlockSize
             j == i % BlockSize
  <2>1. k \in Nat /\ j \in 0 .. BlockSize - 1
    OBVIOUS
  <2>2. Blk(s, i) = ChainAt(fat, dir[s].first, k) /\ Byte(s, i) = data[Blk(s, i)][j]
        /\ Byte(s, i)' = data'[Blk(s, i)][j]
    <3>1. Blk(s, i)' = Blk(s, i)
      BY <1>7
    <3>2. Byte(s, i)' = data'[Blk(s, i)'][j]
      BY <1>1, BytesNext, Zenon
    <3>3. Blk(s, i) = ChainAt(fat, dir[s].first, k) /\ Byte(s, i) = data[Blk(s, i)][j]
      BY <1>1, BytesInMemory, Zenon
    <3> QED BY <3>1, <3>2, <3>3
  <2>3. Roots[s] = dir[s].first
    BY <1>1, <1>8 DEF Roots, Root
  <2>4. (k = q /\ j \in m .. m + ChunkLen - 1) <=> off <= i /\ i < off + ChunkLen
    BY <1>6
  <2> HIDE DEF k, j, q, m, off
  <2>5. CASE Blk(s, i) # r.cur
    <3>1. data'[Blk(s, i)] = data[Blk(s, i)]
      BY <1>1, <1>t, <1>4, <1>8, <2>5
    <3>2. ~(s = r.slot /\ k = q)
      BY <1>4, <2>2, <2>5
    <3> QED BY <2>2, <2>4, <3>1, <3>2
  <2>6. CASE Blk(s, i) = r.cur
    <3>1. s = r.slot
      <4> SUFFICES ASSUME s # r.slot PROVE FALSE
        OBVIOUS
      <4>1. ChainAt(fat, Roots[s], k) # ChainAt(fat, Roots[r.slot], q)
        <5>1. ChainAt(fat, Roots[s], k) \in Blocks
          BY <1>8, <2>2, <2>3
        <5> QED BY <1>t, <1>3, <1>5, <2>1, <5>1, WalksApart DEF Linked
      <4> QED BY <1>4, <1>5, <2>2, <2>3, <2>6, <4>1
    <3>2. k = q
      <4>1. \A x, y \in Nat : x < y /\ ChainAt(fat, Roots[s], y) \in Blocks
                             => ChainAt(fat, Roots[s], x) # ChainAt(fat, Roots[s], y)
        BY <1>t, <1>5, WalkDistinct DEF Linked
      <4>2. ChainAt(fat, Roots[s], k) = r.cur /\ ChainAt(fat, Roots[s], q) = r.cur
        BY <1>4, <2>2, <2>3, <2>6, <3>1
      <4>3. ~(k < q) /\ ~(q < k)
        BY <1>3, <1>4, <2>1, <4>1, <4>2
      <4> QED BY <1>3, <2>1, <4>3
    <3>3. data'[r.cur][j] = IF j \in m .. m + ChunkLen - 1 THEN r.val ELSE data[r.cur][j]
      BY <1>1, <1>t, <1>4, <2>1
    <3> QED BY <2>2, <2>4, <2>6, <3>1, <3>2, <3>3
  <2> QED BY <2>5, <2>6
<1>9. ASSUME NEW i \in Nat, off <= i, i < off + ChunkLen PROVE Blk(r.slot, i) \in Blocks
  <2>1. i \div BlockSize = q
    BY <1>6, <1>9
  <2> QED BY <1>1, <1>4, <2>1, BytesInMemory
<1> QED BY <1>7, <1>8, <1>9

\* A free block that becomes part of a chain adds zeros to the file and changes no byte.
LEMMA NewBlockAddsZeros ==
  ASSUME IInv, mounted, mounted', pc # "release", NEW b \in Blocks, fat[b] = FAT_FREE, data' = Cleared(b),
         fat'[b] = FAT_END, \A d \in Blocks : d # b => fat'[d] \in {fat[d], b},
         \A d \in Blocks : fat[d] \in Blocks => fat'[d] = fat[d],
         \A s \in Slots : /\ dir'[s].first \in {dir[s].first, b}
                          /\ dir[s].first \in Blocks => dir'[s].first = dir[s].first,
         NEW s \in Slots, dir[s].used, NEW i \in Nat
  PROVE  /\ Blk(s, i) \in Blocks => Blk(s, i)' = Blk(s, i) /\ Byte(s, i)' = Byte(s, i)
         /\ Blk(s, i) \notin Blocks /\ Blk(s, i)' \in Blocks => Byte(s, i)' = 0
<1>t. /\ fat \in [Blocks -> Link] /\ data \in [Blocks -> [0 .. BlockSize - 1 -> Values]]
      /\ FAT_FREE # FAT_END /\ FAT_END \notin Blocks
  BY DEF IInv, TypeOK, Blocks, FAT_FREE, FAT_END
<1> DEFINE k == i \div BlockSize
           j == i % BlockSize
           first == dir[s].first
<1>1. k \in Nat /\ j \in 0 .. BlockSize - 1
  OBVIOUS
<1>2. /\ Blk(s, i) = ChainAt(fat, first, k) /\ Byte(s, i) = data[Blk(s, i)][j]
      /\ Blk(s, i)' = ChainAt(fat', dir'[s].first, k) /\ Byte(s, i)' = data'[Blk(s, i)'][j]
  BY BytesInMemory, BytesNext
<1>3. Linked(Roots, fat) /\ Roots \in [Slots -> Link] /\ Roots[s] = first
  <2>1. Roots \in [Slots -> Link] /\ Roots[s] = first
    BY RootsType DEF IInv, Roots, Root
  <2>2. Linked(Roots, fat)
    BY DEF IInv, Sound, Unwritten, Blank
  <2> QED BY <2>1, <2>2
<1>4. \A n \in Nat : ChainAt(fat, first, n) # b
  <2>1. \A n \in Nat : ChainAt(fat, first, n) \in Blocks => fat[ChainAt(fat, first, n)] # FAT_FREE
    <3>1. \A n \in Nat : ChainAt(fat, Roots[s], n) \in Blocks => fat[ChainAt(fat, Roots[s], n)] # FAT_FREE
      <4>1. fat \in [Blocks -> Link] /\ Roots \in [Slots -> Link] /\ Linked(Roots, fat) /\ s \in Slots
        BY <1>t, <1>3
      <4>2. \A n \in Nat : /\ ChainAt(fat, Roots[s], n) \in Link \ {FAT_FREE}
                           /\ ChainAt(fat, Roots[s], n) \in Blocks => fat[ChainAt(fat, Roots[s], n)] # FAT_FREE
        <5> HIDE DEF first
        <5> QED BY <4>1, WalkTaken, ZenonT(60)
      <4> QED BY <4>2
    <3> QED BY <1>3, <3>1
  <2> QED BY <2>1
<1>5. first \in Blocks => dir'[s].first = first
  OBVIOUS
<1>6. dir'[s].first \in {first, b}
  OBVIOUS
<1>7. data' = [data EXCEPT ![b] = ZeroBlock]
  BY DEF Cleared
<1> HIDE DEF k, j, first
<1>8. ASSUME Blk(s, i) \in Blocks PROVE Blk(s, i)' = Blk(s, i) /\ Byte(s, i)' = Byte(s, i)
  <2>1. first \in Blocks
    BY <1>1, <1>2, <1>8, StaysOutside
  <2>2. ChainAt(fat', Roots[s], k) = ChainAt(fat, Roots[s], k)
    <3>1. ChainAt(fat, Roots[s], k) \in Blocks
      BY <1>2, <1>3, <1>8
    <3> QED BY <1>1, <3>1, OwnersKept
  <2>3. Blk(s, i)' = Blk(s, i)
    BY <1>2, <1>3, <1>5, <2>1, <2>2
  <2>4. Blk(s, i) # b
    BY <1>1, <1>2, <1>4
  <2> QED BY <1>t, <1>2, <1>7, <1>8, <2>3, <2>4
<1>9. ASSUME Blk(s, i) \notin Blocks, Blk(s, i)' \in Blocks PROVE Byte(s, i)' = 0
  <2>1. ChainAt(fat', dir'[s].first, k) \in {ChainAt(fat, first, k), b, FAT_END}
    <3>1. \A n \in Nat : ChainAt(fat', dir'[s].first, n) \in {ChainAt(fat, first, n), b, FAT_END}
      BY <1>4, <1>6, WalkGrows
    <3> QED BY <1>1, <3>1
  <2>2. Blk(s, i)' = b
    BY <1>t, <1>2, <1>9, <2>1
  <2> QED BY <1>t, <1>1, <1>2, <1>7, <2>2 DEF ZeroBlock
<1> QED BY <1>8, <1>9

\* The locals of fs_write that resolve_data_block leaves alone.
SameRequest ==
  /\ r'.fd = r.fd /\ r'.slot = r.slot /\ r'.at = r.at /\ r'.len = r.len
  /\ r'.left = r.left /\ r'.val = r.val

\* What a step does to the bytes of file s: those it has stay, new ones are zeros.
OnlyAddsZeros(s) ==
  \A i \in Nat :
    /\ Blk(s, i) \in Blocks => Blk(s, i)' = Blk(s, i) /\ Byte(s, i)' = Byte(s, i)
    /\ Blk(s, i) \notin Blocks /\ Blk(s, i)' \in Blocks => Byte(s, i)' = 0

\* resolve_data_block finds its block or appends blocks of zeros, and never walks too far.
LEMMA ResolveChanges ==
  ASSUME Faults = FALSE, IInv, Saved, Good, Room, ResolveFirst \/ ResolveNext
  PROVE  /\ pc \in {"resolve", "walk"} /\ pc' = "walk" /\ mounted /\ mounted' /\ dir[r.slot].used
         /\ UNCHANGED <<open, got>> /\ SameRequest /\ r'.step <= LogicalBlock'
         /\ \A s \in Slots : /\ dir'[s].used = dir[s].used /\ dir'[s].name = dir[s].name
                             /\ dir'[s].size = dir[s].size
         /\ \A s \in Slots : dir[s].used => OnlyAddsZeros(s)
<1>t. /\ TypeOK /\ Locals /\ r \in CallRec /\ r.slot \in Slots /\ r.fd \in Fds /\ r.cur \in Link /\ r.step \in Nat
      /\ dir \in [Slots -> Entry] /\ fat \in [Blocks -> Link] /\ open[r.fd].offset \in Nat
      /\ FAT_END \notin Blocks /\ FAT_FREE \notin Blocks /\ FAT_END # FAT_FREE
  BY DEF IInv, TypeOK, CallRec, OpenFile, Blocks, FAT_END, FAT_FREE
<1>0. /\ pc \in {"resolve", "walk"} /\ mounted /\ mounted' /\ dir[r.slot].used /\ UNCHANGED <<open, got>>
  BY <1>t DEF ResolveFirst, ResolveNext, Locals
<1>l. LogicalBlock \in Nat /\ (r'.fd = r.fd => LogicalBlock' = LogicalBlock)
  BY <1>0, <1>t DEF LogicalBlock
<1>k. ASSUME UNCHANGED <<dir, fat, data>>, NEW s \in Slots, dir[s].used PROVE OnlyAddsZeros(s)
  <2>1. \A i \in Nat : Blk(s, i)' = Blk(s, i) /\ Byte(s, i)' = Byte(s, i)
    BY <1>0, <1>k DEF Blk, Byte, CurFat, CurDir
  <2> QED BY <2>1 DEF OnlyAddsZeros
<1>1. CASE ResolveFirst
  <2>1. pc = "resolve"
    BY <1>1 DEF ResolveFirst
  <2>2. CASE dir[r.slot].first = FAT_END
    <3>1. PICK b \in Blocks : /\ fat[b] = FAT_FREE /\ data' = Cleared(b)
                              /\ AsFirst(b, [fat EXCEPT ![b] = FAT_END])
      BY <1>1, <2>1, <2>2 DEF ResolveFirst, AllocateWith, Room, IsLowest, FreeBlocks
    <3>2. /\ dir' = [dir EXCEPT ![r.slot] = [dir[r.slot] EXCEPT !.first = b]]
          /\ fat' = [fat EXCEPT ![b] = FAT_END]
          /\ pc' = "walk" /\ r' = [r EXCEPT !.cur = b, !.step = 0]
      BY <1>t, <3>1 DEF AsFirst
    <3>3. SameRequest /\ r'.step = 0
      BY <1>t, <3>2 DEF CallRec, SameRequest
    <3>4. /\ \A s \in Slots : /\ dir'[s].used = dir[s].used /\ dir'[s].name = dir[s].name
                              /\ dir'[s].size = dir[s].size
          /\ \A s \in Slots : /\ dir'[s].first \in {dir[s].first, b}
                              /\ dir[s].first \in Blocks => dir'[s].first = dir[s].first
      BY <1>t, <2>2, <3>2 DEF Entry
    <3>5. /\ fat'[b] = FAT_END /\ \A d \in Blocks : d # b => fat'[d] \in {fat[d], b}
          /\ \A d \in Blocks : fat[d] \in Blocks => fat'[d] = fat[d]
      BY <1>t, <3>1, <3>2
    <3>6. ASSUME NEW s \in Slots, dir[s].used PROVE OnlyAddsZeros(s)
      <4> SUFFICES ASSUME NEW i \in Nat
                   PROVE  /\ Blk(s, i) \in Blocks => Blk(s, i)' = Blk(s, i) /\ Byte(s, i)' = Byte(s, i)
                          /\ Blk(s, i) \notin Blocks /\ Blk(s, i)' \in Blocks => Byte(s, i)' = 0
        BY DEF OnlyAddsZeros
      <4>1. pc # "release"
        BY <2>1
      <4> QED BY <1>0, <3>1, <3>4, <3>5, <3>6, <4>1, NewBlockAddsZeros
    <3> QED BY <1>0, <1>l, <3>2, <3>3, <3>4, <3>6 DEF SameRequest
  <2>3. CASE dir[r.slot].first # FAT_END
    <3>1. dir[r.slot].first \in Blocks
      BY <1>0, <1>t, <2>1, <2>3, LinkedFile
    <3>2. /\ UNCHANGED <<dir, fat, data>> /\ pc' = "walk"
          /\ r' = [r EXCEPT !.cur = dir[r.slot].first, !.step = 0]
      BY <1>1, <1>t, <2>3, <3>1 DEF ResolveFirst
    <3>3. SameRequest /\ r'.step = 0
      BY <1>t, <3>2 DEF CallRec, SameRequest
    <3> QED BY <1>0, <1>l, <1>k, <3>2, <3>3 DEF SameRequest
  <2> QED BY <2>2, <2>3
<1>2. CASE ResolveNext
  <2>1. /\ pc = "walk" /\ r.cur \in Blocks /\ ChainAt(fat, dir[r.slot].first, r.step) = r.cur
        /\ r.step < LogicalBlock
    BY <1>0, <1>2, <1>t DEF ResolveNext, Locals, Saved
  <2>2. CASE fat[r.cur] = FAT_END
    <3>1. PICK b \in Blocks : /\ fat[b] = FAT_FREE /\ data' = Cleared(b)
                              /\ AsNext(b, [fat EXCEPT ![b] = FAT_END])
      BY <1>2, <2>1, <2>2 DEF ResolveNext, AllocateWith, Room, IsLowest, FreeBlocks
    <3>2. /\ dir' = dir /\ fat' = [[fat EXCEPT ![b] = FAT_END] EXCEPT ![r.cur] = b]
          /\ pc' = "walk" /\ r' = [r EXCEPT !.cur = b, !.step = r.step + 1]
      BY <1>t, <2>1, <3>1 DEF AsNext
    <3>3. SameRequest /\ r'.step = r.step + 1
      BY <1>t, <3>2 DEF CallRec, SameRequest
    <3>4. /\ fat'[b] = FAT_END /\ \A d \in Blocks : d # b => fat'[d] \in {fat[d], b}
          /\ \A d \in Blocks : fat[d] \in Blocks => fat'[d] = fat[d]
      BY <1>t, <2>1, <2>2, <3>1, <3>2
    <3>5. ASSUME NEW s \in Slots, dir[s].used PROVE OnlyAddsZeros(s)
      <4> SUFFICES ASSUME NEW i \in Nat
                   PROVE  /\ Blk(s, i) \in Blocks => Blk(s, i)' = Blk(s, i) /\ Byte(s, i)' = Byte(s, i)
                          /\ Blk(s, i) \notin Blocks /\ Blk(s, i)' \in Blocks => Byte(s, i)' = 0
        BY DEF OnlyAddsZeros
      <4>1. /\ pc # "release"
            /\ \A t \in Slots : /\ dir'[t].first \in {dir[t].first, b}
                                /\ dir[t].first \in Blocks => dir'[t].first = dir[t].first
        BY <2>1, <3>2
      <4> QED BY <1>0, <3>1, <3>4, <3>5, <4>1, NewBlockAddsZeros
    <3> QED BY <1>0, <1>l, <1>t, <2>1, <3>2, <3>3, <3>5 DEF SameRequest
  <2>3. CASE fat[r.cur] # FAT_END
    <3>1. dir[r.slot].first # FAT_END
      BY <1>t, <2>1, StaysOutside
    <3>2. Linked(Roots, fat) /\ Roots[r.slot] = dir[r.slot].first /\ Roots \in [Slots -> Link]
      BY <1>0, <1>t, <2>1, <3>1, LinkedFile
    <3>3. fat[r.cur] # FAT_FREE
      BY <1>t, <2>1, <3>2, WalkTaken
    <3>4. fat[r.cur] \in Blocks
      BY <1>t, <2>1, <2>3, <3>3 DEF Link
    <3>5. /\ UNCHANGED <<dir, fat, data>> /\ pc' = "walk"
          /\ r' = [r EXCEPT !.cur = fat[r.cur], !.step = r.step + 1]
      BY <1>2, <1>t, <2>1, <2>3, <3>4 DEF ResolveNext
    <3>6. SameRequest /\ r'.step = r.step + 1
      BY <1>t, <3>5 DEF CallRec, SameRequest
    <3> QED BY <1>0, <1>l, <1>k, <1>t, <2>1, <3>5, <3>6 DEF SameRequest
  <2> QED BY <2>2, <2>3
<1> QED BY <1>1, <1>2

\* release_chain changes no byte of another file.
LEMMA ReleaseChanges ==
  ASSUME IInv, ReleaseStep
  PROVE  /\ pc = "release" /\ pc' = "release" /\ mounted /\ mounted' /\ dir[r.slot].used
         /\ UNCHANGED <<dir, data, got>> /\ r'.slot = r.slot
         /\ \A s \in Slots, i \in Nat : s # r.slot /\ dir[s].used
              => Blk(s, i)' = Blk(s, i) /\ Byte(s, i)' = Byte(s, i)
<1>t. /\ TypeOK /\ Locals /\ r \in CallRec /\ r.slot \in Slots /\ r.cur \in Link
      /\ dir \in [Slots -> Entry] /\ fat \in [Blocks -> Link]
  BY DEF IInv, TypeOK, CallRec
<1>1. /\ pc = "release" /\ mounted /\ mounted' /\ dir[r.slot].used /\ UNCHANGED <<dir, data, got>> /\ r.cur # FAT_END
  BY <1>t DEF ReleaseStep, image, Locals
<1>2. Roots[r.slot] = r.cur /\ \A s \in Slots : s # r.slot /\ dir[s].used => Roots[s] = dir[s].first
  BY <1>t, <1>1 DEF Roots, Root
<1>3. Linked(Roots, fat)
  BY <1>t, <1>1, <1>2 DEF IInv, Sound, Unwritten, Blank
<1>4. r.cur \in Blocks
  BY <1>t, <1>1, <1>2, <1>3 DEF Linked, Unique, Link
<1>s. r.step <= NumBlocks
  BY <1>1, SeenFits DEF IInv
<1>5. fat' = [fat EXCEPT ![r.cur] = FAT_FREE] /\ pc' = "release" /\ r'.slot = r.slot
  BY <1>t, <1>1, <1>4, <1>s DEF ReleaseStep, CallRec
<1>6. ASSUME NEW s \in Slots, NEW i \in Nat, s # r.slot, dir[s].used
      PROVE  Blk(s, i)' = Blk(s, i) /\ Byte(s, i)' = Byte(s, i)
  <2> DEFINE first == dir[s].first
  <2>1. \A k \in Nat : ChainAt(fat, first, k) # r.cur
    <3>1. Roots \in [Slots -> Link] /\ Unique(Roots, fat)
      BY <1>t, <1>3, RootsType DEF Linked
    <3>2. ChainAt(fat, Roots[r.slot], 0) = r.cur
      BY <1>2, ChainIs
    <3>3. \A k \in Nat : ChainAt(fat, Roots[r.slot], 0) # ChainAt(fat, Roots[s], k)
      BY <1>t, <1>4, <1>6, <3>1, <3>2, WalksApart
    <3> QED BY <1>2, <1>6, <3>2, <3>3
  <2>2. \A k \in Nat : ChainAt(fat, first, k) \in Blocks
                         => fat'[ChainAt(fat, first, k)] = fat[ChainAt(fat, first, k)]
    BY <1>t, <1>5, <2>1
  <2>3. \A k \in Nat : ChainAt(fat', first, k) = ChainAt(fat, first, k)
    <3> HIDE DEF first
    <3> QED BY <2>2, WalkSame
  <2>4. i \div BlockSize \in Nat
    OBVIOUS
  <2>5. /\ Blk(s, i) = ChainAt(fat, first, i \div BlockSize) /\ Byte(s, i) = data[Blk(s, i)][i % BlockSize]
        /\ Blk(s, i)' = ChainAt(fat', first, i \div BlockSize) /\ Byte(s, i)' = data[Blk(s, i)'][i % BlockSize]
    <3>1. /\ Blk(s, i)' = ChainAt(fat', dir'[s].first, i \div BlockSize)
          /\ Byte(s, i)' = data'[Blk(s, i)'][i % BlockSize]
      BY <1>1, BytesNext, Zenon
    <3>2. /\ Blk(s, i) = ChainAt(fat, first, i \div BlockSize) /\ Byte(s, i) = data[Blk(s, i)][i % BlockSize]
      BY <1>1, BytesInMemory, Zenon
    <3> QED BY <1>1, <3>1, <3>2
  <2> QED BY <2>3, <2>4, <2>5
<1> QED BY <1>1, <1>5, <1>6

\* The steps that touch neither a chain nor a byte.
KeepsFiles ==
  \/ fs_mount \/ fs_unmount \/ UnmountEnd \/ SyncDir \/ SyncFat \/ TakeFd \/ TruncBegin
  \/ \E n \in Names, fl \in FlagChoices : OpenFound(n, fl)
  \/ \E fd \in Fds : \/ fs_close(fd)
                     \/ \E off \in Offsets : fs_seek(fd, off)
                     \/ \E len \in Lens : fs_read(fd, len)
                     \/ \E len \in Lens, v \in Values : fs_write(fd, len, v)

Fmts == {"fmtSuper", "fmtDir", "fmtFat"}

\* fs_unmount leaves behind on the image what was in memory, and fs_mount reads it back.
LEMMA FilesKept ==
  ASSUME Faults = FALSE, IInv, Good, KeepsFiles
  PROVE  /\ CurDir' = CurDir /\ CurFat' = CurFat /\ data' = data
         /\ pc \notin {"release", "resolve", "walk", "size"} /\ pc' \notin Fmts
<1>t. Locals /\ r.next \in {"idle", "unmount", "trunc", "takeFd"}
  BY DEF IInv, TypeOK, CallRec
<1>1. CASE fs_mount
  BY <1>1 DEF fs_mount, Begin, image, CurDir, CurFat, Fmts
<1>2. CASE UnmountEnd
  <2>1. mounted /\ dirDisk = dir /\ fatDisk = fat
    BY <1>2, <1>t DEF UnmountEnd, Locals, Good
  <2> QED BY <1>2, <2>1 DEF UnmountEnd, image, CurDir, CurFat, Fmts
<1>3. CASE SyncDir \/ SyncFat
  <2>1. mounted /\ mounted' /\ UNCHANGED <<dir, fat, data>> /\ pc \in {"syncDir", "syncFat"}
    BY <1>3, <1>t DEF SyncDir, SyncFat, memory, Locals
  <2>2. pc' \in {"syncFat", "idle", "unmount", "trunc", "takeFd"}
    BY <1>3, <1>t DEF SyncDir, SyncFat, Return
  <2> QED BY <2>1, <2>2 DEF CurDir, CurFat, Fmts
<1>4. CASE fs_unmount \/ TakeFd \/ TruncBegin \/ \E n \in Names, fl \in FlagChoices : OpenFound(n, fl)
  <2>1. /\ UNCHANGED <<mounted, dir, fat, data, dirDisk, fatDisk>> /\ pc \in {"idle", "takeFd", "trunc"}
        /\ pc' \in {"syncDir", "idle", "release", "trunc", "takeFd"}
    BY <1>4 DEF fs_unmount, TakeFd, TruncBegin, OpenFound, AfterFound, Begin, Return, memory, image
  <2> QED BY <2>1 DEF CurDir, CurFat, Fmts
<1>5. CASE \E fd \in Fds : \/ fs_close(fd)
                           \/ \E off \in Offsets : fs_seek(fd, off)
                           \/ \E len \in Lens : fs_read(fd, len)
                           \/ \E len \in Lens, v \in Values : fs_write(fd, len, v)
  <2>1. /\ UNCHANGED <<mounted, dir, fat, data, dirDisk, fatDisk>> /\ pc = "idle"
        /\ pc' \in {"idle", "resolve", "size"}
    <3>1. CASE \E fd \in Fds : \E len \in Lens, v \in Values : fs_write(fd, len, v)
      BY <3>1 DEF fs_write, Begin, memory, image
    <3>2. CASE \E fd \in Fds : \E len \in Lens : fs_read(fd, len)
      <4>1. UNCHANGED <<mounted, dir, fat, image, pc>> /\ pc = "idle"
        BY <3>2, ZenonT(60) DEF fs_read
      <4> QED BY <4>1 DEF image
    <3>3. CASE \E fd \in Fds : fs_close(fd) \/ \E off \in Offsets : fs_seek(fd, off)
      BY <3>3 DEF fs_close, fs_seek, Begin, image
    <3> QED BY <1>5, <3>1, <3>2, <3>3
  <2> QED BY <2>1 DEF CurDir, CurFat, Fmts
<1> QED BY <1>1, <1>2, <1>3, <1>4, <1>5 DEF KeepsFiles

\* fs_write starts with nothing in place and at least one byte to come.
LEMMA WriteStarts ==
  ASSUME IInv, 0 \notin Lens, KeepsFiles, Writing'
  PROVE  \E fd \in Fds, len \in Lens, v \in Values :
           /\ fs_write(fd, len, v) /\ pc' = "resolve"
           /\ r'.fd = fd /\ r'.slot = open[fd].slot /\ r'.at = open[fd].offset
           /\ r'.len = len /\ r'.left = len /\ r'.val = v /\ open' = open /\ got' = <<>>
           /\ open[fd].offset \in Nat /\ open[fd].in_use /\ mounted /\ UNCHANGED dir
<1>t. Locals /\ r.next \in {"idle", "unmount", "trunc", "takeFd"} /\ open \in [Fds -> OpenFile]
  BY DEF IInv, TypeOK, CallRec
<1>1. pc' \in {"resolve", "walk", "size"}
  BY DEF Writing
<1>2. PICK fd \in Fds, len \in Lens, v \in Values : fs_write(fd, len, v)
  <2>1. ~fs_mount /\ ~fs_unmount /\ ~UnmountEnd /\ ~TakeFd /\ ~TruncBegin
    BY <1>1 DEF fs_mount, fs_unmount, UnmountEnd, TakeFd, TruncBegin, Begin, Return
  <2>2. ~SyncDir /\ ~SyncFat /\ ~\E n \in Names, fl \in FlagChoices : OpenFound(n, fl)
    BY <1>1, <1>t DEF SyncDir, SyncFat, OpenFound, AfterFound, Return
  <2>3. ~\E fd \in Fds : \/ fs_close(fd)
                         \/ \E off \in Offsets : fs_seek(fd, off)
                         \/ \E len \in Lens : fs_read(fd, len)
    <3>1. ASSUME \E fd \in Fds : \/ fs_close(fd)
                                 \/ \E off \in Offsets : fs_seek(fd, off)
                                 \/ \E len \in Lens : fs_read(fd, len)
          PROVE  pc' = "idle"
      BY <3>1 DEF fs_close, fs_seek, fs_read, Begin
    <3> QED BY <1>1, <3>1
  <2> QED BY <2>1, <2>2, <2>3 DEF KeepsFiles
<1>3. len # 0 /\ open[fd].offset \in Nat
  BY <1>t DEF OpenFile
<1>4. /\ pc' = "resolve" /\ open' = open /\ got' = <<>> /\ open[fd].in_use /\ mounted /\ UNCHANGED dir
      /\ r' = [NoCall EXCEPT !.fd = fd, !.slot = open[fd].slot, !.at = open[fd].offset,
                             !.len = len, !.left = len, !.val = v]
  BY <1>2, <1>3 DEF fs_write, Begin, memory
<1>5. /\ r'.fd = fd /\ r'.slot = open[fd].slot /\ r'.at = open[fd].offset
      /\ r'.len = len /\ r'.left = len /\ r'.val = v
  BY <1>4 DEF NoCall
<1> QED BY <1>2, <1>3, <1>4, <1>5

\* Such a step keeps Clean.
LEMMA CleanKept ==
  ASSUME Faults = FALSE, 0 \notin Lens, IInv, Good, Clean, KeepsFiles PROVE Clean'
<1>1. /\ CurDir' = CurDir /\ CurFat' = CurFat /\ data' = data
      /\ pc \notin {"release", "resolve", "walk", "size"} /\ pc' \notin Fmts
  BY FilesKept
<1>2. \A s \in Slots, i \in Nat : Blk(s, i)' = Blk(s, i) /\ Byte(s, i)' = Byte(s, i)
  BY <1>1 DEF Blk, Byte
<1>3. Writing' => /\ pc' = "resolve" /\ open'[r'.fd].offset = r'.at /\ r'.left = r'.len
                  /\ r'.at \in Nat /\ r'.len \in Nat
  <2> SUFFICES ASSUME Writing'
               PROVE  /\ pc' = "resolve" /\ open'[r'.fd].offset = r'.at /\ r'.left = r'.len
                      /\ r'.at \in Nat /\ r'.len \in Nat
    OBVIOUS
  <2>1. PICK fd \in Fds, len \in Lens, v \in Values :
           /\ pc' = "resolve"
           /\ r'.fd = fd /\ r'.at = open[fd].offset
           /\ r'.len = len /\ r'.left = len /\ open' = open /\ open[fd].offset \in Nat
    BY WriteStarts
  <2> QED BY <2>1
<1>4. \A s, i : ~Put(s, i)
  BY <1>1 DEF Put, Writing
<1>5. \A s \in Slots, i \in Nat : ~Put(s, i)'
  BY <1>3 DEF Put
<1>6. Zeros'
  BY <1>1, <1>2, <1>4 DEF Zeros, Clean
<1>7. Progress'
  <2> SUFFICES ASSUME Writing' PROVE Progress'
    BY DEF Progress
  <2>1. r'.at <= open'[r'.fd].offset /\ open'[r'.fd].offset + r'.left = r'.at + r'.len /\ pc' = "resolve"
    BY <1>3
  <2>2. \A i \in Nat : ~Put(r.slot, i)'
    BY <1>3 DEF Put
  <2> QED BY <2>1, <2>2 DEF Progress
<1>8. pc' # "idle" => got' = <<>>
  <2>1. CASE \E fd \in Fds : \E len \in Lens : fs_read(fd, len)
    BY <2>1, Zenon DEF fs_read
  <2>2. CASE UnmountEnd \/ SyncDir \/ SyncFat \/ TakeFd \/ TruncBegin
    BY <2>2 DEF UnmountEnd, SyncDir, SyncFat, TakeFd, TruncBegin, Clean
  <2>3. CASE \/ fs_mount \/ fs_unmount \/ \E n \in Names, fl \in FlagChoices : OpenFound(n, fl)
             \/ \E fd \in Fds : \/ fs_close(fd)
                                \/ \E off \in Offsets : fs_seek(fd, off)
                                \/ \E len \in Lens, v \in Values : fs_write(fd, len, v)
    BY <2>3 DEF fs_mount, fs_unmount, OpenFound, fs_close, fs_seek, fs_write, Begin
  <2> QED BY <2>1, <2>2, <2>3 DEF KeepsFiles
<1> QED BY <1>1, <1>6, <1>7, <1>8 DEF Clean, Fmts

\* A formatted image holds no file.
LEMMA CleanFormat ==
  ASSUME IInv, Clean, fs_format_image \/ FormatStep PROVE Clean'
<1>1. \A s \in Slots : ~ZeroDir[s].used /\ ~FormattedDir[s].used
  BY DEF ZeroDir, FormattedDir
<1>2. /\ ~mounted' /\ dirDisk' \in {ZeroDir, FormattedDir, dirDisk} /\ pc' \in Fmts \cup {"idle"}
      /\ got' = <<>> /\ (dirDisk' = dirDisk => pc \in Fmts \/ dirDisk' = ZeroDir)
  BY DEF fs_format_image, FormatStep, Begin, memory, IInv, Locals, Clean, Fmts
<1>3. \A s \in Slots : ~dirDisk'[s].used
  BY <1>1, <1>2 DEF Clean, Fmts
<1>4. CurDir' = dirDisk'
  BY <1>2 DEF CurDir
<1>5. Zeros'
  BY <1>3, <1>4 DEF Zeros
<1>6. ~Writing'
  BY <1>2 DEF Writing, Fmts
<1> QED BY <1>2, <1>3, <1>5, <1>6 DEF Clean, Progress

LEMMA CleanInit == Init => Clean
<1> SUFFICES ASSUME Init PROVE Clean
  OBVIOUS
<1>1. \A s \in Slots : ~CurDir[s].used
  BY DEF Init, CurDir, ZeroDir, FormattedDir
<1>2. Zeros
  BY <1>1 DEF Zeros
<1> QED BY <1>2 DEF Init, Clean, Progress, Writing

\* A file without a chain has no byte behind its size; the other files stay.
LEMMA CleanEmptied ==
  ASSUME Clean, mounted, mounted', UNCHANGED <<fat, data>>, got' = <<>>,
         pc \in {"idle", "release"}, pc' = "syncDir",
         NEW t \in Slots, dir'[t].first = FAT_END, pc = "release" => r.slot = t,
         \A s \in Slots : s # t => dir'[s] = dir[s]
  PROVE  Clean'
<1>1. ASSUME NEW s \in Slots, NEW i \in Nat, dir'[s].used, dir'[s].size <= i, Blk(s, i)' \in Blocks
      PROVE  Byte(s, i)' = 0
  <2>1. /\ Blk(s, i)' = ChainAt(fat', dir'[s].first, i \div BlockSize)
        /\ Byte(s, i)' = data'[Blk(s, i)'][i % BlockSize]
    BY BytesNext, Zenon
  <2>2. CASE s = t
    <3>1. i \div BlockSize \in Nat /\ FAT_END \notin Blocks
      BY DEF FAT_END, Blocks
    <3>2. Blk(s, i)' = FAT_END
      BY <2>1, <2>2, <3>1, StaysOutside
    <3> QED BY <1>1, <3>1, <3>2
  <2>3. CASE s # t
    <3>1. /\ Blk(s, i) = ChainAt(fat, dir[s].first, i \div BlockSize)
          /\ Byte(s, i) = data[Blk(s, i)][i % BlockSize]
      BY BytesInMemory, Zenon
    <3>2. dir'[s] = dir[s]
      BY <2>3
    <3>3. Blk(s, i)' = Blk(s, i) /\ Byte(s, i)' = Byte(s, i)
      BY <2>1, <3>1, <3>2
    <3>4. ~Put(s, i) /\ ~(s = r.slot /\ pc = "release") /\ CurDir = dir
      BY <2>3 DEF Put, Writing, CurDir
    <3> QED BY <1>1, <3>2, <3>3, <3>4 DEF Clean, Zeros
  <2> QED BY <2>2, <2>3
<1>2. CurDir' = dir' /\ ~Writing'
  BY DEF CurDir, Writing
<1>3. Zeros'
  BY <1>1, <1>2 DEF Zeros
<1> QED BY <1>2, <1>3 DEF Clean, Progress

LEMMA CleanCreate ==
  ASSUME IInv, Clean, NEW n \in Names, NEW fl \in FlagChoices, OpenCreate(n, fl) PROVE Clean'
<1>1. PICK t \in Slots :
        dir' = [dir EXCEPT ![t] = [used |-> TRUE, name |-> n, first |-> FAT_END, size |-> 0]]
  BY DEF OpenCreate
<1>2. /\ mounted /\ mounted' /\ UNCHANGED <<fat, data>> /\ got' = <<>> /\ pc = "idle" /\ pc' = "syncDir"
  BY DEF OpenCreate, Begin, image
<1>3. dir'[t].first = FAT_END /\ \A s \in Slots : s # t => dir'[s] = dir[s]
  BY <1>1 DEF IInv, TypeOK
<1> QED BY <1>2, <1>3, CleanEmptied

LEMMA CleanTruncate ==
  ASSUME IInv, Clean, ReleaseStep \/ TruncEnd PROVE Clean'
<1>t. Locals /\ r.slot \in Slots /\ dir \in [Slots -> Entry]
  BY DEF IInv, TypeOK, CallRec
<1>1. CASE ReleaseStep
  <2>1. /\ pc = "release" /\ pc' = "release" /\ mounted /\ mounted' /\ UNCHANGED <<dir, got>> /\ r'.slot = r.slot
        /\ \A s \in Slots, i \in Nat : s # r.slot /\ dir[s].used
              => Blk(s, i)' = Blk(s, i) /\ Byte(s, i)' = Byte(s, i)
    BY <1>1, ReleaseChanges
  <2>2. CurDir' = dir /\ CurDir = dir /\ ~Writing' /\ \A s, i : ~Put(s, i)
    BY <2>1 DEF CurDir, Writing, Put
  <2>3. Zeros'
    BY <2>1, <2>2 DEF Zeros, Clean
  <2> QED BY <2>1, <2>2, <2>3 DEF Clean, Progress
<1>2. CASE TruncEnd
  <2>1. /\ dir' = [dir EXCEPT ![r.slot] = [dir[r.slot] EXCEPT !.first = FAT_END, !.size = 0]]
        /\ pc = "release" /\ pc' = "syncDir" /\ UNCHANGED <<mounted, fat, data, got>>
    BY <1>t, <1>2 DEF TruncEnd, image
  <2>2. dir'[r.slot].first = FAT_END /\ \A s \in Slots : s # r.slot => dir'[s] = dir[s]
    BY <1>t, <2>1 DEF Entry
  <2>3. mounted /\ mounted' /\ got' = <<>>
    BY <1>t, <2>1 DEF Locals, Clean
  <2> QED BY <1>t, <2>1, <2>2, <2>3, CleanEmptied
<1> QED BY <1>1, <1>2

LEMMA CleanResolve ==
  ASSUME Faults = FALSE, IInv, Saved, Good, Room, Clean, ResolveFirst \/ ResolveNext PROVE Clean'
<1>1. /\ pc \in {"resolve", "walk"} /\ pc' = "walk" /\ mounted /\ mounted' /\ dir[r.slot].used
      /\ UNCHANGED <<open, got>> /\ SameRequest /\ r'.step <= LogicalBlock'
      /\ \A s \in Slots : /\ dir'[s].used = dir[s].used /\ dir'[s].name = dir[s].name
                          /\ dir'[s].size = dir[s].size
      /\ \A s \in Slots : dir[s].used => OnlyAddsZeros(s)
  BY ResolveChanges
<1>2. Writing /\ Writing' /\ CurDir = dir /\ CurDir' = dir'
  BY <1>1 DEF Writing, CurDir
<1>3. /\ r'.fd = r.fd /\ r'.slot = r.slot /\ r'.at = r.at /\ r'.len = r.len
      /\ r'.left = r.left /\ r'.val = r.val
  BY <1>1 DEF SameRequest
<1>4. \A s, i : Put(s, i)' <=> Put(s, i)
  BY <1>1, <1>2, <1>3 DEF Put
<1>5. ASSUME NEW s \in Slots, NEW i \in Nat, dir'[s].used, dir'[s].size <= i, ~Put(s, i)', Blk(s, i)' \in Blocks
      PROVE  Byte(s, i)' = 0
  <2>1. dir[s].used /\ dir[s].size <= i /\ ~Put(s, i)
    BY <1>1, <1>4, <1>5
  <2>2. /\ Blk(s, i) \in Blocks => Byte(s, i)' = Byte(s, i)
        /\ Blk(s, i) \notin Blocks /\ Blk(s, i)' \in Blocks => Byte(s, i)' = 0
    BY <1>1, <2>1 DEF OnlyAddsZeros
  <2>3. Blk(s, i) \in Blocks => Byte(s, i) = 0
    BY <1>1, <1>2, <2>1 DEF Clean, Zeros
  <2> QED BY <1>5, <2>2, <2>3
<1>6. Zeros'
  BY <1>2, <1>5 DEF Zeros
<1>7. Progress'
  <2>0. r.slot \in Slots
    BY DEF IInv, TypeOK, CallRec
  <2>1. ASSUME NEW i \in Nat, Put(r.slot, i) PROVE Blk(r.slot, i)' \in Blocks /\ Byte(r.slot, i)' = r.val
    <3>1. Blk(r.slot, i) \in Blocks /\ Byte(r.slot, i) = r.val
      BY <1>2, <2>1 DEF Clean, Progress
    <3>2. \A s \in Slots : s = r.slot => Blk(s, i)' = Blk(s, i) /\ Byte(s, i)' = Byte(s, i)
      BY <1>1, <3>1 DEF OnlyAddsZeros
    <3>3. \A s \in Slots : s = r.slot => Blk(s, i)' \in Blocks /\ Byte(s, i)' = r.val
      BY <3>1, <3>2
    <3>4. r'.slot = r.slot
      BY <1>3
    <3> QED BY <2>0, <3>3, <3>4
  <2>2. \A i \in Nat : Put(r.slot, i)' => Blk(r.slot, i)' \in Blocks /\ Byte(r.slot, i)' = r'.val
    BY <1>3, <1>4, <2>1
  <2>3. /\ open'[r'.fd].offset + r'.left = r'.at + r'.len /\ r'.at <= open'[r'.fd].offset
    BY <1>1, <1>2, <1>3 DEF Clean, Progress
  <2> QED BY <1>1, <2>2, <2>3 DEF Progress
<1> QED BY <1>1, <1>6, <1>7 DEF Clean

LEMMA CleanChunk ==
  ASSUME Faults = FALSE, IInv, Saved, Good, Clean, WriteChunk PROVE Clean'
<1>t. r.slot \in Slots /\ r.fd \in Fds /\ r.at \in Nat /\ r.len \in Nat /\ r.left \in Nat /\ open[r.fd].offset \in Nat
  BY DEF IInv, TypeOK, CallRec, OpenFile
<1> DEFINE off == open[r.fd].offset
<1>1. /\ pc = "walk" /\ pc' = (IF r.left = ChunkLen THEN "size" ELSE "resolve")
      /\ mounted /\ mounted' /\ dir[r.slot].used /\ UNCHANGED <<dir, fat, got>>
      /\ r'.fd = r.fd /\ r'.slot = r.slot /\ r'.at = r.at /\ r'.len = r.len /\ r'.val = r.val
      /\ r'.left = r.left - ChunkLen
      /\ open'[r.fd].offset = off + ChunkLen
  BY ChunkCall
<1>2. ChunkLen \in Nat /\ ChunkLen > 0 /\ ChunkLen <= r.left
  BY ChunkEnds
<1>3. Writing /\ Writing' /\ CurDir = dir /\ CurDir' = dir
  BY <1>1 DEF Writing, CurDir
<1>4. /\ \A s \in Slots, i \in Nat :
           dir[s].used /\ Blk(s, i) \in Blocks
             => Byte(s, i)' = IF s = r.slot /\ off <= i /\ i < off + ChunkLen THEN r.val ELSE Byte(s, i)
      /\ \A s \in Slots, i \in Nat : Blk(s, i)' = Blk(s, i)
      /\ \A i \in Nat : off <= i /\ i < off + ChunkLen => Blk(r.slot, i) \in Blocks
  <2>1. Progress
    BY DEF Clean
  <2> QED BY <2>1, ChunkChanges
<1>5. r.at <= off /\ off + r.left = r.at + r.len
  BY <1>3 DEF Clean, Progress
<1> HIDE DEF off
<1>6. off \in Nat
  BY <1>t DEF off
<1>7. ASSUME NEW s \in Slots, NEW i \in Nat
      PROVE  Put(s, i)' <=> Put(s, i) \/ (s = r.slot /\ off <= i /\ i < off + ChunkLen)
  <2>1. Put(s, i)' <=> s = r.slot /\ r.at <= i /\ i < off + ChunkLen
    BY <1>1, <1>3 DEF Put
  <2>2. Put(s, i) <=> s = r.slot /\ r.at <= i /\ i < off
    BY <1>3 DEF Put, off
  <2> QED BY <1>t, <1>2, <1>5, <1>6, <2>1, <2>2
<1>8. ASSUME NEW s \in Slots, NEW i \in Nat, dir[s].used, dir[s].size <= i, ~Put(s, i)', Blk(s, i)' \in Blocks
      PROVE  Byte(s, i)' = 0
  <2>1. Blk(s, i) \in Blocks
    BY <1>4, <1>8
  <2>2. ~Put(s, i) /\ ~(s = r.slot /\ off <= i /\ i < off + ChunkLen)
    BY <1>7, <1>8
  <2>3. Byte(s, i)' = Byte(s, i)
    BY <1>4, <1>8, <2>1, <2>2
  <2>4. Byte(s, i) = 0
    BY <1>1, <1>3, <1>8, <2>1, <2>2 DEF Clean, Zeros
  <2> QED BY <2>3, <2>4
<1>9. Zeros'
  BY <1>3, <1>8 DEF Zeros
<1>10. ASSUME NEW s \in Slots, s = r.slot, NEW i \in Nat, Put(s, i)'
       PROVE  Blk(s, i)' \in Blocks /\ Byte(s, i)' = r.val
  <2>1. CASE off <= i /\ i < off + ChunkLen
    <3>1. Blk(s, i) \in Blocks
      BY <1>4, <1>10, <2>1
    <3> QED BY <1>1, <1>4, <1>10, <2>1, <3>1
  <2>2. CASE ~(off <= i /\ i < off + ChunkLen)
    <3>1. Put(s, i)
      BY <1>7, <1>10, <2>2
    <3>2. Blk(s, i) \in Blocks /\ Byte(s, i) = r.val
      BY <1>3, <1>10, <3>1 DEF Clean, Progress
    <3> QED BY <1>1, <1>4, <1>10, <2>2, <3>2
  <2> QED BY <2>1, <2>2
<1>11. Progress'
  <2>1. \A i \in Nat : Put(r.slot, i)' => Blk(r.slot, i)' \in Blocks /\ Byte(r.slot, i)' = r'.val
    <3>1. \A s \in Slots, i \in Nat : s = r.slot /\ Put(s, i)' => Blk(s, i)' \in Blocks /\ Byte(s, i)' = r.val
      BY <1>10
    <3>2. r'.slot = r.slot /\ r'.val = r.val
      BY <1>1
    <3> QED BY <1>t, <3>1, <3>2
  <2>2. open'[r'.fd].offset + r'.left = r'.at + r'.len /\ r'.at <= open'[r'.fd].offset
    BY <1>t, <1>1, <1>2, <1>5, <1>6
  <2>3. pc' = "size" => r'.left = 0
    BY <1>t, <1>1, <1>2
  <2>4. pc' # "walk"
    BY <1>1
  <2> QED BY <2>1, <2>2, <2>3, <2>4 DEF Progress
<1>12. got' = <<>> /\ pc' \notin Fmts
  BY <1>1 DEF Clean, Fmts
<1> QED BY <1>9, <1>11, <1>12 DEF Clean, Fmts

\* The size that fs_write ends with: behind it nothing was put.
LEMMA WriteEndChanges ==
  ASSUME IInv, WriteEnd
  PROVE  /\ pc = "size" /\ pc' = "syncDir" /\ mounted /\ mounted' /\ dir[r.slot].used
         /\ UNCHANGED <<fat, data, got, open, r>>
         /\ \A s \in Slots : s # r.slot => dir'[s] = dir[s]
         /\ dir'[r.slot] = [dir[r.slot] EXCEPT !.size = IF open[r.fd].offset > dir[r.slot].size
                                                          THEN open[r.fd].offset ELSE dir[r.slot].size]
<1>t. Locals /\ r.slot \in Slots /\ dir \in [Slots -> Entry]
  BY DEF IInv, TypeOK, CallRec
<1> QED BY <1>t DEF WriteEnd, Locals, image

LEMMA CleanWriteEnd ==
  ASSUME IInv, Clean, WriteEnd PROVE Clean'
<1>t. r.slot \in Slots /\ r.at \in Nat /\ open[r.fd].offset \in Nat /\ dir \in [Slots -> Entry]
      /\ \A s \in Slots : dir[s] \in Entry /\ dir[s].size \in Nat
  BY DEF IInv, TypeOK, CallRec, OpenFile, Entry
<1> DEFINE off == open[r.fd].offset
           size == IF off > dir[r.slot].size THEN off ELSE dir[r.slot].size
<1>1. /\ pc = "size" /\ pc' = "syncDir" /\ mounted /\ mounted' /\ dir[r.slot].used
      /\ UNCHANGED <<fat, data, got, open, r>>
      /\ \A s \in Slots : s # r.slot => dir'[s] = dir[s]
      /\ dir'[r.slot] = [dir[r.slot] EXCEPT !.size = size]
  BY WriteEndChanges
<1>2. /\ CurDir = dir /\ CurDir' = dir' /\ ~Writing'
      /\ \A s \in Slots : dir'[s].used = dir[s].used /\ dir'[s].first = dir[s].first
      /\ dir'[r.slot].size = size
  BY <1>t, <1>1 DEF CurDir, Writing, Entry
<1>3. \A s \in Slots, i \in Nat : Blk(s, i)' = Blk(s, i) /\ Byte(s, i)' = Byte(s, i)
  BY <1>1, <1>2 DEF Blk, Byte, CurFat
<1>4. ASSUME NEW s \in Slots, NEW i \in Nat, dir'[s].used, dir'[s].size <= i, Blk(s, i)' \in Blocks
      PROVE  Byte(s, i)' = 0
  <2>1. dir[s].size <= i /\ ~Put(s, i)
    <3>1. CASE s = r.slot
      <4>1. size <= i
        BY <1>2, <1>4, <3>1
      <4>2. dir[r.slot].size <= i /\ off <= i
        <5> HIDE DEF off
        <5>1. off \in Nat
          BY <1>t DEF off
        <5> QED BY <1>t, <4>1, <5>1
      <4> QED BY <1>t, <3>1, <4>2 DEF Put
    <3>2. CASE s # r.slot
      BY <1>1, <1>4, <3>2 DEF Put
    <3> QED BY <3>1, <3>2
  <2>2. Blk(s, i) \in Blocks /\ dir[s].used
    BY <1>2, <1>3, <1>4
  <2>3. Byte(s, i) = 0
    BY <1>1, <1>2, <2>1, <2>2 DEF Clean, Zeros
  <2> QED BY <1>3, <2>3
<1>5. Zeros'
  BY <1>2, <1>4 DEF Zeros
<1> QED BY <1>1, <1>2, <1>5 DEF Clean, Progress

\* Every step keeps Clean.
LEMMA CleanStep ==
  ASSUME Faults = FALSE, Crashes = FALSE, 0 \notin Lens
  PROVE  IInv /\ Saved /\ Good /\ Clean /\ Room /\ [Next]_vars => Clean'
<1> SUFFICES ASSUME IInv, Saved, Good, Clean, Room, Next PROVE Clean'
  <2>1. ASSUME Clean, UNCHANGED vars PROVE Clean'
    <3>1. UNCHANGED <<mounted, dir, fat, dirDisk, fatDisk, data, pc, r, open, got>>
      BY <2>1 DEF vars
    <3>2. UNCHANGED <<CurDir, CurFat>>
      BY <3>1 DEF CurDir, CurFat
    <3>3. \A s \in Slots, i \in Nat : Blk(s, i)' = Blk(s, i) /\ Byte(s, i)' = Byte(s, i) /\ Put(s, i)' = Put(s, i)
      BY <3>1, <3>2 DEF Blk, Byte, Put, Writing
    <3>4. Zeros'
      BY <2>1, <3>1, <3>2, <3>3 DEF Clean, Zeros
    <3>5. Progress'
      BY <2>1, <3>1, <3>2 DEF Clean, Progress, Writing, LogicalBlock, Blk, Byte, Put
    <3> QED BY <2>1, <3>1, <3>4, <3>5 DEF Clean
  <2> QED BY <2>1
<1>1. CASE fs_format_image \/ FormatStep
  BY <1>1, CleanFormat
<1>2. CASE \E n \in Names, fl \in FlagChoices : OpenCreate(n, fl)
  BY <1>2, CleanCreate
<1>3. CASE ReleaseStep \/ TruncEnd
  BY <1>3, CleanTruncate
<1>4. CASE ResolveFirst \/ ResolveNext
  BY <1>4, CleanResolve
<1>5. CASE WriteChunk
  BY <1>5, CleanChunk
<1>6. CASE WriteEnd
  BY <1>6, CleanWriteEnd
<1>7. CASE KeepsFiles
  BY <1>7, CleanKept
<1>8. ~Crash
  BY DEF Crash
<1> QED BY <1>1, <1>2, <1>3, <1>4, <1>5, <1>6, <1>7, <1>8 DEF Next, Call, Step, fs_open, KeepsFiles

-------------------------------------------------------------------------------
(* The steps of OTFS as steps of FileStore. *)

LEMMA StoreNow == \A n \in Names : StoreOf(n) = StoreIn(CurDir, AllContents, n)
BY StoreIs

LEMMA StoreNext == \A n \in Names : StoreOf(n)' = StoreIn(CurDir', AllContents', n)
<1>1. (\A n \in Names : StoreOf(n) = StoreIn(CurDir, AllContents, n))'
  BY StoreNow, PTL
<1> QED BY <1>1

\* The contents of a file are its bytes up to its size.
LEMMA ContentsAre ==
  ASSUME NEW s, ~(pc = "release" /\ r.slot = s)
  PROVE  Contents(s) = [i \in 1 .. CurDir[s].size |-> Byte(s, i - 1)]
BY DEF Contents, Byte, Blk

LEMMA ContentsNext ==
  ASSUME NEW s, ~(pc' = "release" /\ r'.slot = s)
  PROVE  Contents(s)' = [i \in 1 .. CurDir'[s].size |-> Byte(s, i - 1)']
BY DEF Contents, Byte, Blk

\* Every byte of a file has a block.
LEMMA BytesCovered ==
  ASSUME IInv, Saved, Good, mounted, NEW s \in Slots, dir[s].used, ~(s = r.slot /\ pc = "release"),
         NEW i \in Nat, i < dir[s].size
  PROVE  Blk(s, i) \in Blocks /\ Byte(s, i) \in Values
<1>1. dir[s].size \in 0 .. End
  BY DEF IInv, TypeOK, Entry, Good, End
<1>2. i \div BlockSize \in 0 .. BlocksFor(dir[s].size) - 1
  BY <1>1, ByteIsCovered
<1>3. Blk(s, i) \in Blocks
  <2>1. Covers(fat, dir[s].first, BlocksFor(dir[s].size))
    BY DEF Saved, Covered
  <2>2. ChainAt(fat, dir[s].first, i \div BlockSize) \in Blocks
    BY <1>2, <2>1 DEF Covers
  <2>3. Blk(s, i) = ChainAt(fat, dir[s].first, i \div BlockSize)
    BY BytesInMemory, Zenon
  <2> QED BY <2>2, <2>3
<1>4. i % BlockSize \in 0 .. BlockSize - 1
  OBVIOUS
<1>5. Byte(s, i) = data[Blk(s, i)][i % BlockSize]
  BY BytesInMemory, Zenon
<1> QED BY <1>3, <1>4, <1>5 DEF IInv, TypeOK

\* A file of a mounted image has contents.
LEMMA ContentsType ==
  ASSUME IInv, Saved, Good, mounted, NEW s \in Slots, dir[s].used
  PROVE  /\ Contents(s) \in Seq(Values) /\ Contents(s) # NoFile
         /\ ~(pc = "release" /\ r.slot = s)
              => /\ Len(Contents(s)) = dir[s].size
                 /\ \A i \in 1 .. dir[s].size : Contents(s)[i] = Byte(s, i - 1)
<1>0. NoFile \notin Seq(Values)
  BY StoreAssumption
<1>1. CASE pc = "release" /\ r.slot = s
  <2>1. Contents(s) = <<>>
    BY <1>1 DEF Contents
  <2>2. Contents(s) \in Seq(Values)
    BY <2>1
  <2>3. Contents(s) # NoFile
    BY <1>0, <2>2
  <2> QED BY <1>1, <2>2, <2>3
<1>2. CASE ~(pc = "release" /\ r.slot = s)
  <2>1. dir[s].size \in Nat /\ CurDir = dir
    BY DEF IInv, TypeOK, Entry, CurDir
  <2>2. Contents(s) = [i \in 1 .. dir[s].size |-> Byte(s, i - 1)]
    BY <1>2, <2>1, ContentsAre
  <2>3. \A i \in 1 .. dir[s].size : Byte(s, i - 1) \in Values
    <3> SUFFICES ASSUME NEW i \in 1 .. dir[s].size PROVE Byte(s, i - 1) \in Values
      OBVIOUS
    <3>1. i - 1 \in Nat /\ i - 1 < dir[s].size
      BY <2>1
    <3> QED BY <1>2, <3>1, BytesCovered
  <2>4. Contents(s) \in Seq(Values) /\ Len(Contents(s)) = dir[s].size
    BY <2>1, <2>2, <2>3
  <2>5. \A i \in 1 .. dir[s].size : Contents(s)[i] = Byte(s, i - 1)
    BY <2>2
  <2> QED BY <1>0, <2>4, <2>5
<1> QED BY <1>1, <1>2

LEMMA NamesDiffer == ASSUME Good, mounted PROVE Distinct(dir)
BY DEF Good, Distinct

\* While the image is mounted, a step that changes the contents of one file changes one name.
LEMMA StoreOne ==
  ASSUME Good, mounted, mounted', \A s \in Slots : dir'[s].used = dir[s].used /\ dir'[s].name = dir[s].name,
         NEW t \in Slots, dir[t].used, \A s \in Slots : s # t /\ dir[s].used => Contents(s)' = Contents(s)
  PROVE  /\ \A n \in Names : StoreOf(n)' = IF n = dir[t].name THEN Contents(t)' ELSE StoreOf(n)
         /\ dir[t].name \in Names => StoreOf(dir[t].name) = Contents(t)
<1>1. CurDir = dir /\ CurDir' = dir' /\ Distinct(dir)
  BY NamesDiffer DEF CurDir
<1>2. \A s \in Slots : AllContents[s] = Contents(s) /\ AllContents'[s] = Contents(s)'
  BY DEF AllContents
<1>3. \A s \in Slots : s # t /\ dir[s].used => AllContents'[s] = AllContents[s]
  BY <1>2
<1>4. ASSUME NEW n \in Names PROVE StoreOf(n)' = IF n = dir[t].name THEN Contents(t)' ELSE StoreOf(n)
  <2>1. StoreIn(dir', AllContents', n) = IF n = dir[t].name THEN AllContents'[t] ELSE StoreIn(dir, AllContents, n)
    <3>1. SameNames(dir, dir') /\ ChangesOnly(t, dir, AllContents, AllContents')
      BY <1>3 DEF SameNames, ChangesOnly
    <3> QED BY <1>1, <3>1, OneChanges
  <2>2. StoreOf(n)' = StoreIn(dir', AllContents', n) /\ StoreOf(n) = StoreIn(dir, AllContents, n)
    BY <1>1, StoreNow, StoreNext
  <2> QED BY <1>2, <2>1, <2>2
<1>5. ASSUME dir[t].name \in Names PROVE StoreOf(dir[t].name) = Contents(t)
  <2>1. StoreIn(dir, AllContents, dir[t].name) = AllContents[t]
    BY <1>1, StoreInAt
  <2>2. \A n \in Names : StoreOf(n) = StoreIn(dir, AllContents, n)
    BY <1>1, StoreNow
  <2> QED BY <1>2, <1>5, <2>1, <2>2
<1> QED BY <1>4, <1>5

\* A step that changes no contents changes nothing.
LEMMA StoreNone ==
  ASSUME Good, mounted, mounted', \A s \in Slots : dir'[s].used = dir[s].used /\ dir'[s].name = dir[s].name,
         \A s \in Slots : dir[s].used => Contents(s)' = Contents(s)
  PROVE  \A n \in Names : StoreOf(n)' = StoreOf(n)
<1>1. CurDir = dir /\ CurDir' = dir' /\ Distinct(dir)
  BY NamesDiffer DEF CurDir
<1>2. \A s \in Slots : dir[s].used => AllContents'[s] = AllContents[s]
  BY DEF AllContents
<1>3. ASSUME NEW n \in Names PROVE StoreOf(n)' = StoreOf(n)
  <2>1. StoreIn(dir', AllContents', n) = StoreIn(dir, AllContents, n)
    <3>1. SameNames(dir, dir') /\ ChangesNone(dir, AllContents, AllContents')
      BY <1>2 DEF SameNames, ChangesNone
    <3> QED BY <1>1, <3>1, NoneChanges
  <2>2. StoreOf(n)' = StoreIn(dir', AllContents', n) /\ StoreOf(n) = StoreIn(dir, AllContents, n)
    BY <1>1, StoreNow, StoreNext
  <2> QED BY <2>1, <2>2
<1> QED BY <1>3

\* The contents of a file whose bytes stay.
LEMMA ContentsKept ==
  ASSUME IInv, mounted, mounted', NEW s \in Slots, dir'[s].size = dir[s].size,
         ~(pc = "release" /\ r.slot = s), ~(pc' = "release" /\ r'.slot = s),
         \A i \in Nat : i < dir[s].size => Byte(s, i)' = Byte(s, i)
  PROVE  Contents(s)' = Contents(s)
<1>1. CurDir = dir /\ CurDir' = dir' /\ dir[s].size \in Nat
  BY DEF CurDir, IInv, TypeOK, Entry
<1>2. Contents(s) = [i \in 1 .. dir[s].size |-> Byte(s, i - 1)]
  BY <1>1, ContentsAre
<1>3. Contents(s)' = [i \in 1 .. dir[s].size |-> Byte(s, i - 1)']
  BY <1>1, ContentsNext
<1>4. \A i \in 1 .. dir[s].size : Byte(s, i - 1)' = Byte(s, i - 1)
  <2> SUFFICES ASSUME NEW i \in 1 .. dir[s].size PROVE Byte(s, i - 1)' = Byte(s, i - 1)
    OBVIOUS
  <2>1. i - 1 \in Nat /\ i - 1 < dir[s].size
    BY <1>1
  <2> QED BY <2>1
<1> QED BY <1>2, <1>3, <1>4

\* The store and the request between two states.
StoreKept == \A n \in Names : StoreOf(n)' = StoreOf(n)
NoFiles == \A n \in Names : StoreOf(n) = NoFile

LEMMA NoUsedNoFiles == (\A s \in Slots : ~CurDir[s].used) => NoFiles
<1> SUFFICES ASSUME \A s \in Slots : ~CurDir[s].used, NEW n \in Names PROVE StoreOf(n) = NoFile
  BY DEF NoFiles
<1>1. StoreIn(CurDir, AllContents, n) = NoFile
  BY StoreInNone
<1> QED BY <1>1, StoreNow

LEMMA NoUsedNoFilesNext == (\A s \in Slots : ~CurDir'[s].used) => NoFiles'
<1>1. ((\A s \in Slots : ~CurDir[s].used) => NoFiles)'
  BY NoUsedNoFiles, PTL
<1> QED BY <1>1

\* Only fs_write has a request.
LEMMA RequestIs ==
  /\ pc \notin {"resolve", "walk", "size"} => Request = NoReq
  /\ pc \in {"resolve", "walk", "size"}
       => Request = [name |-> dir[r.slot].name, at |-> r.at, len |-> r.len, val |-> r.val]
  /\ pc' \notin {"resolve", "walk", "size"} => Request' = NoReq
  /\ pc' \in {"resolve", "walk", "size"}
       => Request' = [name |-> dir'[r'.slot].name, at |-> r'.at, len |-> r'.len, val |-> r'.val]
BY DEF Request

LEMMA StartsEmpty == Init => Files!Init
<1> SUFFICES ASSUME Init PROVE Files!Init
  OBVIOUS
<1>1. \A s \in Slots : ~CurDir[s].used
  BY DEF Init, CurDir, FormattedDir, ZeroDir
<1>2. NoFiles
  BY <1>1, NoUsedNoFiles
<1>3. Request = NoReq /\ got = <<>>
  BY RequestIs DEF Init
<1> QED BY <1>2, <1>3 DEF Files!Init, NoFiles

\* fs_format_image empties the store; its steps change nothing more.
LEMMA StoreFormat ==
  ASSUME IInv, Clean, fs_format_image \/ FormatStep PROVE [Files!Next]_(Files!storeVars)
<1>1. \A s \in Slots : ~ZeroDir[s].used /\ ~FormattedDir[s].used
  BY DEF ZeroDir, FormattedDir
<1>2. CASE fs_format_image
  <2>1. pc = "idle" /\ pc' = "fmtSuper" /\ ~mounted' /\ dirDisk' = ZeroDir /\ got' = <<>>
    BY <1>2 DEF fs_format_image, Begin, memory
  <2>2. NoFiles'
    BY <1>1, <2>1, NoUsedNoFilesNext DEF CurDir
  <2>3. Request = NoReq /\ Request' = NoReq
    BY <2>1, RequestIs
  <2>4. Files!Format
    BY <2>1, <2>2, <2>3 DEF Files!Format, Files!Quiet, NoFiles
  <2> QED BY <2>4 DEF Files!Next
<1>3. CASE FormatStep
  <2>1. /\ pc \in Fmts /\ pc' \in Fmts \cup {"idle"} /\ ~mounted /\ ~mounted' /\ got' = got
        /\ dirDisk' \in {dirDisk, FormattedDir}
    BY <1>3 DEF FormatStep, memory, IInv, Locals, Fmts
  <2>2. \A s \in Slots : ~dirDisk[s].used /\ ~dirDisk'[s].used
    BY <1>1, <2>1 DEF Clean, Fmts
  <2>3. NoFiles /\ NoFiles'
    BY <2>1, <2>2, NoUsedNoFiles, NoUsedNoFilesNext DEF CurDir
  <2>4. Request = NoReq /\ Request' = NoReq
    BY <2>1, RequestIs DEF Fmts
  <2> QED BY <2>1, <2>3, <2>4 DEF Files!storeVars, NoFiles
<1> QED BY <1>2, <1>3

\* A step that touches no chain and no byte leaves the store alone.
LEMMA StoreSame ==
  ASSUME CurDir' = CurDir, CurFat' = CurFat, data' = data, pc # "release", pc' # "release"
  PROVE  StoreKept
<1>1. AllContents' = AllContents
  BY DEF AllContents, Contents
<1>2. \A n \in Names : StoreIn(CurDir', AllContents', n) = StoreIn(CurDir, AllContents, n)
  BY <1>1
<1> QED BY <1>2, StoreNow, StoreNext DEF StoreKept

\* fs_read delivers a part of the file, or nothing.
LEMMA StoreRead ==
  ASSUME Faults = FALSE, IInv, Saved, Good, NEW fd \in Fds, NEW len \in Lens, fs_read(fd, len)
  PROVE  Files!Next
<1> DEFINE s == open[fd].slot
           from == open[fd].offset
           end == IF from + len < dir[s].size THEN from + len ELSE dir[s].size
           upto == IF from < end THEN end ELSE from
<1>1. KeepsFiles
  BY DEF KeepsFiles
<1>2. /\ pc = "idle" /\ pc' = "idle" /\ mounted /\ open[fd].in_use /\ UNCHANGED dir
      /\ \E stop \in from .. upto :
           got' = IF stop < upto THEN <<>> ELSE [i \in 1 .. upto - from |-> ByteAt(s, from + i - 1)]
  BY Zenon DEF fs_read
<1>3. /\ open[fd] \in OpenFile /\ s \in Slots /\ from \in Nat /\ dir[s].used /\ dir[s].size \in Nat
      /\ len \in Nat /\ dir[s].name \in Names
  <2>1. open[fd] \in OpenFile /\ s \in Slots /\ from \in Nat /\ dir[s].used /\ dir[s] \in Entry
    BY <1>2 DEF IInv, TypeOK, OpenFile, Locals
  <2>2. dir[s].name # NoName
    BY <1>2, <2>1 DEF Good
  <2> QED BY <2>1, <2>2 DEF Entry
<1>4. StoreKept
  BY <1>1, <1>2, FilesKept, StoreSame
<1>5. Request = NoReq /\ Request' = NoReq
  BY <1>2, RequestIs
<1>6. CASE got' = <<>>
  BY <1>4, <1>5, <1>6 DEF Files!Next, Files!Quiet, StoreKept
<1>7. CASE got' # <<>>
  <2> DEFINE n == dir[s].name
  <2>1. got' = [i \in 1 .. upto - from |-> ByteAt(s, from + i - 1)]
    BY <1>2, <1>7
  <2>2. from < end
    <3> SUFFICES ASSUME ~(from < end) PROVE FALSE
      OBVIOUS
    <3>1. upto - from = 0
      BY <1>3
    <3>2. got' = <<>>
      BY <2>1, <3>1
    <3> QED BY <1>7, <3>2
  <2>3. upto = end /\ upto \in Nat /\ upto <= dir[s].size /\ from < upto
    BY <1>3, <2>2
  <2>4. /\ StoreOf(n) = Contents(s) /\ Contents(s) # NoFile /\ Contents(s) \in Seq(Values)
        /\ Len(Contents(s)) = dir[s].size
        /\ \A i \in 1 .. dir[s].size : Contents(s)[i] = Byte(s, i - 1)
    <3> HIDE DEF s
    <3>1. pc # "release"
      BY <1>2
    <3>2. /\ Contents(s) # NoFile /\ Contents(s) \in Seq(Values)
          /\ Len(Contents(s)) = dir[s].size
          /\ \A i \in 1 .. dir[s].size : Contents(s)[i] = Byte(s, i - 1)
      BY <1>2, <1>3, <3>1, ContentsType
    <3>3. StoreIn(dir, AllContents, n) = AllContents[s]
      BY <1>2, <1>3, NamesDiffer, StoreInAt
    <3>4. StoreOf(n) = StoreIn(CurDir, AllContents, n)
      BY <1>3, StoreNow
    <3>5. CurDir = dir /\ AllContents[s] = Contents(s)
      BY <1>2, <1>3 DEF CurDir, AllContents
    <3> QED BY <3>2, <3>3, <3>4, <3>5
  <2>5. \A i \in 1 .. upto - from : ByteAt(s, from + i - 1) = Contents(s)[from + i]
    <3> HIDE DEF s, from, end, upto
    <3> SUFFICES ASSUME NEW i \in 1 .. upto - from PROVE ByteAt(s, from + i - 1) = Contents(s)[from + i]
      OBVIOUS
    <3>1. from + i \in 1 .. dir[s].size /\ (from + i) - 1 = from + i - 1
      BY <1>3, <2>3
    <3>2. Contents(s)[from + i] = Byte(s, from + i - 1)
      BY <2>4, <3>1
    <3>3. Byte(s, from + i - 1) = ByteAt(s, from + i - 1)
      BY <1>2 DEF Byte, Blk, ByteAt, CurDir, CurFat
    <3> QED BY <3>2, <3>3
  <2>6. got' = SubSeq(Contents(s), from + 1, upto)
    <3> HIDE DEF s, from, end, upto
    <3>1. SubSeq(Contents(s), from + 1, upto) = [i \in 1 .. upto - from |-> Contents(s)[from + i]]
      BY <1>3, <2>3, <2>4
    <3> QED BY <2>1, <2>5, <3>1
  <2>7. from \in 0 .. Len(Contents(s)) /\ upto \in 0 .. Len(Contents(s))
    BY <1>3, <2>3, <2>4
  <2> HIDE DEF s, from, end, upto, n
  <2>8. n \in Names
    BY <1>3 DEF n
  <2>9. Files!Read(n)
    BY <1>4, <1>5, <2>4, <2>6, <2>7, <2>8 DEF Files!Read, StoreKept
  <2> QED BY <2>8, <2>9, SMTT(30) DEF Files!Next
<1> QED BY <1>6, <1>7

\* fs_write puts its request down.
LEMMA StoreWriteBegin ==
  ASSUME Faults = FALSE, 0 \notin Lens, IInv, Saved, Good, KeepsFiles, Writing' PROVE Files!Next
<1>1. PICK fd \in Fds, len \in Lens, v \in Values :
           /\ fs_write(fd, len, v) /\ pc' = "resolve"
           /\ r'.fd = fd /\ r'.slot = open[fd].slot /\ r'.at = open[fd].offset
           /\ r'.len = len /\ r'.left = len /\ r'.val = v /\ open' = open /\ got' = <<>>
           /\ open[fd].offset \in Nat /\ open[fd].in_use /\ mounted /\ UNCHANGED dir
  BY WriteStarts
<1> DEFINE s == open[fd].slot
           n == dir[s].name
<1>2. s \in Slots /\ dir[s].used /\ n \in Names
  <2>1. s \in Slots /\ dir[s].used /\ dir[s] \in Entry
    BY <1>1 DEF IInv, TypeOK, OpenFile, Locals
  <2>2. dir[s].name # NoName
    BY <1>1, <2>1 DEF Good
  <2> QED BY <2>1, <2>2 DEF Entry
<1>3. pc = "idle" /\ StoreKept
  <2>1. pc = "idle"
    BY <1>1 DEF fs_write, Begin
  <2> QED BY <1>1, <2>1, FilesKept, StoreSame
<1>4. Request = NoReq /\ Request' = [name |-> n, at |-> open[fd].offset, len |-> len, val |-> v]
  BY <1>1, <1>3, RequestIs
<1>5. Request' # NoReq
  <2>1. Request' \in [name : Names, at : Nat, len : Nat, val : Values]
    BY <1>1, <1>2, <1>4
  <2> QED BY <2>1, StoreAssumption
<1>6. StoreOf(n) # NoFile
  <2> HIDE DEF s
  <2>1. Contents(s) # NoFile
    BY <1>1, <1>2, ContentsType
  <2>2. StoreIn(dir, AllContents, n) = AllContents[s]
    BY <1>1, <1>2, NamesDiffer, StoreInAt
  <2>3. StoreOf(n) = StoreIn(CurDir, AllContents, n)
    BY <1>2, StoreNow
  <2>4. CurDir = dir /\ AllContents[s] = Contents(s)
    BY <1>1, <1>2 DEF CurDir, AllContents
  <2> QED BY <2>1, <2>2, <2>3, <2>4
<1>7. Request'.name = n
  BY <1>4
<1> HIDE DEF n
<1>8. Files!WriteBegin
  BY <1>1, <1>2, <1>3, <1>4, <1>5, <1>6, <1>7 DEF Files!WriteBegin, StoreKept
<1> QED BY <1>8 DEF Files!Next

\* fs_open truncates: to the reader the file is empty when release_chain starts.
LEMMA StoreTruncate ==
  ASSUME Faults = FALSE, IInv, Saved, Good, Clean, TruncBegin PROVE Files!Next
<1>1. /\ pc = "trunc" /\ pc' = "release" /\ mounted /\ mounted' /\ dir[r.slot].used /\ r.slot \in Slots
      /\ UNCHANGED <<dir, fat, data, got>> /\ r'.slot = r.slot /\ got = <<>>
  BY DEF TruncBegin, IInv, Locals, TypeOK, CallRec, memory, image, Clean
<1>2. dir[r.slot].name \in Names
  <2>1. dir[r.slot] \in Entry
    BY <1>1 DEF IInv, TypeOK
  <2> QED BY <1>1, <2>1 DEF Entry, Good
<1>3. ASSUME NEW s \in Slots, s # r.slot PROVE Contents(s)' = Contents(s)
  BY <1>1, <1>3 DEF Contents, CurDir, CurFat
<1>4. \A s \in Slots : s = r.slot => Contents(s)' = <<>>
  BY <1>1 DEF Contents
<1>5. PICK t \in Slots : t = r.slot
  BY <1>1
<1>6. /\ \A n \in Names : StoreOf(n)' = IF n = dir[t].name THEN Contents(t)' ELSE StoreOf(n)
      /\ dir[t].name \in Names => StoreOf(dir[t].name) = Contents(t)
  BY <1>1, <1>3, <1>5, StoreOne
<1>7. Contents(t) # NoFile
  BY <1>1, <1>5, ContentsType
<1> DEFINE n == dir[t].name
<1>8. /\ n \in Names /\ StoreOf(n) # NoFile
      /\ \A m \in Names : StoreOf(m)' = IF m = n THEN <<>> ELSE StoreOf(m)
  BY <1>2, <1>4, <1>5, <1>6, <1>7
<1>9. Request = NoReq /\ Request' = NoReq /\ got' = <<>>
  BY <1>1, RequestIs
<1> HIDE DEF n
<1>10. Files!Truncate(n)
  BY <1>8, <1>9 DEF Files!Truncate, Files!Quiet
<1> QED BY <1>8, <1>10 DEF Files!Next

\* The other steps that touch no file.
LEMMA StoreQuiet ==
  ASSUME Faults = FALSE, 0 \notin Lens, IInv, Saved, Good, Clean, KeepsFiles PROVE [Files!Next]_(Files!storeVars)
<1>1. CASE TruncBegin
  BY <1>1, StoreTruncate
<1>2. CASE \E fd \in Fds : \E len \in Lens : fs_read(fd, len)
  BY <1>2, StoreRead
<1>3. CASE Writing'
  BY <1>3, StoreWriteBegin
<1>4. ASSUME ~TruncBegin, ~Writing', ~\E fd \in Fds : \E len \in Lens : fs_read(fd, len)
      PROVE  [Files!Next]_(Files!storeVars)
  <2>0. r.next \in {"idle", "unmount", "trunc", "takeFd"}
    BY DEF IInv, TypeOK, CallRec
  <2>1. /\ CurDir' = CurDir /\ CurFat' = CurFat /\ data' = data
        /\ pc \notin {"release", "resolve", "walk", "size"}
    BY FilesKept
  <2>2. pc' # "release" /\ (got' = <<>> \/ got' = got)
    <3>1. CASE UnmountEnd \/ SyncDir \/ SyncFat \/ TakeFd
      BY <2>0, <3>1 DEF UnmountEnd, SyncDir, SyncFat, TakeFd, Return
    <3>2. CASE \/ fs_mount \/ fs_unmount \/ \E n \in Names, fl \in FlagChoices : OpenFound(n, fl)
               \/ \E fd \in Fds : \/ fs_close(fd)
                                  \/ \E off \in Offsets : fs_seek(fd, off)
                                  \/ \E len \in Lens, v \in Values : fs_write(fd, len, v)
      BY <3>2 DEF fs_mount, fs_unmount, OpenFound, AfterFound, fs_close, fs_seek, fs_write, Begin
    <3> QED BY <1>4, <3>1, <3>2 DEF KeepsFiles
  <2>3. StoreKept
    BY <2>1, <2>2, StoreSame
  <2>4. Request = NoReq /\ Request' = NoReq
    BY <1>4, <2>1, RequestIs DEF Writing
  <2>5. CASE got' = <<>>
    <3>1. Files!Next
      BY <2>3, <2>4, <2>5 DEF Files!Next, Files!Quiet, StoreKept
    <3> QED BY <3>1
  <2>6. CASE got' = got
    <3>1. UNCHANGED Files!storeVars
      BY <2>3, <2>4, <2>6 DEF Files!storeVars, StoreKept
    <3> QED BY <3>1
  <2> QED BY <2>2, <2>5, <2>6
<1> QED BY <1>1, <1>2, <1>3, <1>4

\* fs_open creates an empty file.
LEMMA StoreCreate ==
  ASSUME IInv, Good, NEW n \in Names, NEW fl \in FlagChoices, OpenCreate(n, fl) PROVE Files!Next
<1>1. PICK t \in Slots :
        /\ ~dir[t].used
        /\ dir' = [dir EXCEPT ![t] = [used |-> TRUE, name |-> n, first |-> FAT_END, size |-> 0]]
  BY DEF OpenCreate, IsLowest, FreeSlots
<1>2. /\ mounted /\ mounted' /\ UNCHANGED <<fat, data>> /\ got' = <<>> /\ pc = "idle" /\ pc' = "syncDir"
      /\ \A s \in Slots : ~(dir[s].used /\ dir[s].name = n)
  BY DEF OpenCreate, Begin, image, SlotOf
<1>3. /\ dir'[t].used /\ dir'[t].name = n /\ dir'[t].size = 0
      /\ \A s \in Slots : s # t => dir'[s] = dir[s]
  BY <1>1 DEF IInv, TypeOK
<1>4. CurDir = dir /\ CurDir' = dir' /\ Distinct(dir)
  BY <1>2, NamesDiffer DEF CurDir
<1>5. Distinct(dir')
  BY <1>2, <1>3, <1>4 DEF Distinct
<1>6. ASSUME NEW s \in Slots, s # t PROVE AllContents'[s] = AllContents[s]
  BY <1>2, <1>3, <1>6 DEF AllContents, Contents, CurDir, CurFat
<1>7. AllContents'[t] = <<>>
  <2>1. Contents(t)' = [i \in 1 .. 0 |-> Byte(t, i - 1)']
    BY <1>2, <1>3, <1>4, ContentsNext
  <2>2. AllContents'[t] = Contents(t)'
    BY DEF AllContents
  <2> QED BY <2>1, <2>2
<1>8. ASSUME NEW m \in Names PROVE StoreOf(m)' = IF m = n THEN <<>> ELSE StoreOf(m)
  <2>1. StoreOf(m)' = StoreIn(dir', AllContents', m) /\ StoreOf(m) = StoreIn(dir, AllContents, m)
    BY <1>4, StoreNow, StoreNext
  <2>2. CASE m = n
    <3>1. StoreIn(dir', AllContents', dir'[t].name) = AllContents'[t]
      BY <1>3, <1>5, StoreInAt
    <3> QED BY <1>3, <1>7, <2>1, <2>2, <3>1
  <2>3. CASE m # n /\ \E s \in Slots : dir[s].used /\ dir[s].name = m
    <3>1. PICK s \in Slots : dir[s].used /\ dir[s].name = m
      BY <2>3
    <3>2. s # t /\ dir'[s] = dir[s]
      BY <1>1, <1>3, <3>1
    <3>3. StoreIn(dir', AllContents', dir'[s].name) = AllContents'[s]
      BY <1>5, <3>1, <3>2, StoreInAt
    <3>4. StoreIn(dir, AllContents, dir[s].name) = AllContents[s]
      BY <1>4, <3>1, StoreInAt
    <3> QED BY <1>6, <2>1, <2>3, <3>1, <3>2, <3>3, <3>4
  <2>4. CASE m # n /\ ~\E s \in Slots : dir[s].used /\ dir[s].name = m
    <3>1. \A s \in Slots : ~(dir'[s].used /\ dir'[s].name = m)
      BY <1>3, <2>4
    <3>2. StoreIn(dir', AllContents', m) = NoFile
      BY <3>1, StoreInNone
    <3>3. StoreIn(dir, AllContents, m) = NoFile
      BY <2>4, StoreInNone
    <3> QED BY <2>1, <2>4, <3>2, <3>3
  <2> QED BY <2>2, <2>3, <2>4
<1>9. StoreOf(n) = NoFile
  <2>1. StoreIn(dir, AllContents, n) = NoFile
    BY <1>2, StoreInNone
  <2> QED BY <1>4, <2>1, StoreNow
<1>10. Request = NoReq /\ Request' = NoReq
  BY <1>2, RequestIs
<1>11. Files!Create(n)
  BY <1>2, <1>8, <1>9, <1>10 DEF Files!Create, Files!Quiet
<1> QED BY <1>11 DEF Files!Next

\* What release_chain and the end of the truncation do to the file does not show.
LEMMA StoreRelease ==
  ASSUME IInv, Good, Clean, Saved, ReleaseStep \/ TruncEnd PROVE UNCHANGED Files!storeVars
<1>t. Locals /\ r.slot \in Slots /\ dir \in [Slots -> Entry] /\ r \in CallRec
  BY DEF IInv, TypeOK, CallRec
<1>1. /\ pc = "release" /\ pc' \in {"release", "syncDir"} /\ mounted /\ mounted' /\ UNCHANGED got
      /\ \A s \in Slots : dir'[s].used = dir[s].used /\ dir'[s].name = dir[s].name
  <2>1. CASE ReleaseStep
    BY <2>1, ReleaseChanges
  <2>2. CASE TruncEnd
    <3>1. dir' = [dir EXCEPT ![r.slot] = [dir[r.slot] EXCEPT !.first = FAT_END, !.size = 0]]
      BY <1>t, <2>2 DEF TruncEnd
    <3>2. \A s \in Slots : dir'[s].used = dir[s].used /\ dir'[s].name = dir[s].name
      BY <1>t, <3>1 DEF Entry
    <3> QED BY <1>t, <2>2, <3>2 DEF TruncEnd, Locals
  <2> QED BY <2>1, <2>2
<1>2. ASSUME NEW s \in Slots, dir[s].used PROVE Contents(s)' = Contents(s)
  <2>1. CASE s # r.slot /\ ReleaseStep
    <3>1. r'.slot = r.slot /\ dir' = dir /\ \A i \in Nat : Byte(s, i)' = Byte(s, i)
      BY <1>2, <2>1, ReleaseChanges
    <3> QED BY <1>1, <2>1, <3>1, ContentsKept
  <2>2. CASE s # r.slot /\ TruncEnd
    <3>1. dir'[s] = dir[s] /\ UNCHANGED <<fat, data>> /\ pc' = "syncDir"
      BY <1>t, <2>2 DEF TruncEnd, image
    <3> QED BY <1>1, <2>2, <3>1 DEF Contents, CurDir, CurFat
  <2>3. CASE s = r.slot /\ ReleaseStep
    <3>1. r'.slot = r.slot /\ pc' = "release"
      BY <2>3, ReleaseChanges
    <3> QED BY <1>1, <2>3, <3>1 DEF Contents
  <2>4. CASE s = r.slot /\ TruncEnd
    <3>1. dir'[s].size = 0 /\ pc' = "syncDir" /\ CurDir' = dir'
      BY <1>t, <1>1, <2>4 DEF TruncEnd, Entry, CurDir
    <3>2. Contents(s)' = [i \in 1 .. 0 |-> Byte(s, i - 1)']
      BY <3>1, ContentsNext
    <3>3. Contents(s) = <<>>
      BY <1>1, <2>4 DEF Contents
    <3> QED BY <3>2, <3>3
  <2> QED BY <2>1, <2>2, <2>3, <2>4
<1>3. \A n \in Names : StoreOf(n)' = StoreOf(n)
  BY <1>1, <1>2, StoreNone
<1>4. Request = NoReq /\ Request' = NoReq
  BY <1>1, RequestIs
<1> QED BY <1>1, <1>3, <1>4 DEF Files!storeVars

\* What resolve_data_block appends to the chain does not show.
LEMMA StoreResolve ==
  ASSUME Faults = FALSE, IInv, Saved, Good, Room, ResolveFirst \/ ResolveNext PROVE UNCHANGED Files!storeVars
<1>1. /\ pc \in {"resolve", "walk"} /\ pc' = "walk" /\ mounted /\ mounted' /\ dir[r.slot].used
      /\ UNCHANGED <<open, got>> /\ SameRequest
      /\ \A s \in Slots : /\ dir'[s].used = dir[s].used /\ dir'[s].name = dir[s].name
                          /\ dir'[s].size = dir[s].size
      /\ \A s \in Slots : dir[s].used => OnlyAddsZeros(s)
  BY ResolveChanges
<1>2. ASSUME NEW s \in Slots, dir[s].used PROVE Contents(s)' = Contents(s)
  <2>1. ASSUME NEW i \in Nat, i < dir[s].size PROVE Byte(s, i)' = Byte(s, i)
    <3>1. Blk(s, i) \in Blocks
      BY <1>1, <1>2, <2>1, BytesCovered
    <3> QED BY <1>1, <1>2, <3>1 DEF OnlyAddsZeros
  <2> QED BY <1>1, <2>1, ContentsKept
<1>3. \A n \in Names : StoreOf(n)' = StoreOf(n)
  BY <1>1, <1>2, StoreNone
<1>4. Request' = Request
  <2>1. r.slot \in Slots
    BY DEF IInv, TypeOK, CallRec
  <2> QED BY <1>1, <2>1, RequestIs DEF SameRequest
<1> QED BY <1>1, <1>3, <1>4 DEF Files!storeVars

\* The request of the running fs_write.
LEMMA RequestType ==
  ASSUME IInv, Good, pc \in {"resolve", "walk", "size"}
  PROVE  /\ Request = [name |-> dir[r.slot].name, at |-> r.at, len |-> r.len, val |-> r.val]
         /\ Request # NoReq /\ dir[r.slot].name \in Names /\ r.slot \in Slots /\ dir[r.slot].used /\ mounted
<1>1. r.slot \in Slots /\ r.at \in Nat /\ r.len \in Nat /\ r.val \in Values /\ mounted /\ dir[r.slot].used
      /\ dir[r.slot] \in Entry
  BY DEF IInv, TypeOK, CallRec, Locals
<1>2. dir[r.slot].name \in Names
  BY <1>1 DEF Good, Entry
<1>3. Request = [name |-> dir[r.slot].name, at |-> r.at, len |-> r.len, val |-> r.val]
  BY RequestIs
<1>4. Request \in [name : Names, at : Nat, len : Nat, val : Values]
  BY <1>1, <1>2, <1>3
<1>5. Request # NoReq
  BY <1>4, StoreAssumption
<1> QED BY <1>1, <1>2, <1>3, <1>5

\* A chunk shows as far as it lies inside the file.
LEMMA StoreChunk ==
  ASSUME Faults = FALSE, IInv, Saved, Good, Clean, WriteChunk PROVE Files!Next
<1>t. r.slot \in Slots /\ r.fd \in Fds /\ r.at \in Nat /\ r.len \in Nat /\ r.left \in Nat /\ open[r.fd].offset \in Nat
      /\ dir[r.slot] \in Entry /\ dir[r.slot].size \in Nat
  BY DEF IInv, TypeOK, CallRec, OpenFile, Entry
<1> DEFINE off == open[r.fd].offset
<1>1. /\ pc = "walk" /\ pc' \in {"size", "resolve"}
      /\ mounted /\ mounted' /\ dir[r.slot].used /\ UNCHANGED <<dir, got>>
      /\ r'.slot = r.slot /\ r'.at = r.at /\ r'.len = r.len /\ r'.val = r.val
  BY ChunkCall
<1>2. ChunkLen \in Nat /\ ChunkLen <= r.left
  BY ChunkEnds
<1>3. \A s \in Slots, i \in Nat :
        dir[s].used /\ Blk(s, i) \in Blocks
          => Byte(s, i)' = IF s = r.slot /\ off <= i /\ i < off + ChunkLen THEN r.val ELSE Byte(s, i)
  <2>1. Progress
    BY DEF Clean
  <2> QED BY <2>1, ChunkChanges
<1>4. r.at <= off /\ off + r.left = r.at + r.len /\ off \in Nat
  BY <1>1, <1>t DEF Clean, Progress, Writing
<1> HIDE DEF off
<1>5. PICK t \in Slots : t = r.slot
  BY <1>t
<1>6. ASSUME NEW s \in Slots, dir[s].used, s # t PROVE Contents(s)' = Contents(s)
  <2>1. ASSUME NEW i \in Nat, i < dir[s].size PROVE Byte(s, i)' = Byte(s, i)
    <3>1. Blk(s, i) \in Blocks
      BY <1>1, <1>6, <2>1, BytesCovered
    <3> QED BY <1>3, <1>5, <1>6, <3>1
  <2> QED BY <1>1, <2>1, ContentsKept
<1> DEFINE n == dir[t].name
           size == dir[t].size
           end == off + ChunkLen
           lo == IF off < size THEN off ELSE size
           hi == IF end < size THEN end ELSE size
<1>7. /\ \A m \in Names : StoreOf(m)' = IF m = n THEN Contents(t)' ELSE StoreOf(m)
      /\ n \in Names => StoreOf(n) = Contents(t)
  BY <1>1, <1>5, <1>6, StoreOne
<1>8. /\ Request = [name |-> n, at |-> r.at, len |-> r.len, val |-> r.val]
      /\ Request # NoReq /\ n \in Names /\ Request' = Request
  <2>1. /\ Request = [name |-> n, at |-> r.at, len |-> r.len, val |-> r.val]
        /\ Request # NoReq /\ n \in Names
    BY <1>1, <1>5, RequestType
  <2> QED BY <1>1, <1>5, <2>1, RequestIs
<1>9. /\ Contents(t) \in Seq(Values) /\ Len(Contents(t)) = size
      /\ \A i \in 1 .. size : Contents(t)[i] = Byte(t, i - 1)
  BY <1>1, <1>5, ContentsType
<1>10. Contents(t)' = [i \in 1 .. size |-> Byte(t, i - 1)']
  <2>1. CurDir' = dir
    BY <1>1 DEF CurDir
  <2>2. pc' # "release"
    BY <1>1
  <2> QED BY <2>1, <2>2, ContentsNext
<1>11. size \in Nat /\ end \in Nat /\ lo \in 0 .. size /\ hi \in 0 .. size
  BY <1>t, <1>2, <1>4, <1>5
<1>12. ASSUME NEW i \in 1 .. size
       PROVE  Byte(t, i - 1)' = IF lo < i /\ i <= hi THEN r.val ELSE Contents(t)[i]
  <2>1. i - 1 \in Nat /\ i - 1 < size
    BY <1>11
  <2>2. Blk(t, i - 1) \in Blocks
    BY <1>1, <1>5, <2>1, BytesCovered
  <2>3. Byte(t, i - 1)' = IF off <= i - 1 /\ i - 1 < end THEN r.val ELSE Byte(t, i - 1)
    BY <1>1, <1>3, <1>5, <2>1, <2>2
  <2>4. (off <= i - 1 /\ i - 1 < end) <=> (lo < i /\ i <= hi)
    BY <1>4, <1>11
  <2>5. Contents(t)[i] = Byte(t, i - 1)
    BY <1>9
  <2> HIDE DEF lo, hi, end
  <2> QED BY <2>3, <2>4, <2>5
<1>13. Contents(t)' = [i \in 1 .. Len(Contents(t)) |-> IF lo < i /\ i <= hi THEN Request.val ELSE Contents(t)[i]]
  <2>1. Request.val = r.val
    BY <1>8
  <2> HIDE DEF lo, hi, size
  <2> QED BY <1>9, <1>10, <1>12, <2>1
<1>14. \A i \in lo + 1 .. hi : Files!InRange(i, Request)
  <2>1. Request.at = r.at /\ Request.len = r.len
    BY <1>8
  <2>2. \A i \in lo + 1 .. hi : i > r.at /\ i <= r.at + r.len
    BY <1>t, <1>2, <1>4, <1>11
  <2> QED BY <2>1, <2>2 DEF Files!InRange
<1>15. Request.name = n /\ lo \in 0 .. Len(Contents(t)) /\ hi \in 0 .. Len(Contents(t))
  BY <1>8, <1>9, <1>11
<1> HIDE DEF lo, hi, n
<1>16. Files!WritePiece
  <2> DEFINE store == [m \in Names |-> StoreOf(m)]
             Piece(c, l, h) == [i \in 1 .. Len(c) |-> IF l < i /\ i <= h THEN Request.val ELSE c[i]]
  <2>1. store[Request.name] = Contents(t) /\ Request.name \in Names
    BY <1>7, <1>8, <1>15
  <2>2. Contents(t)' = Piece(Contents(t), lo, hi)
    BY <1>13
  <2>3. store' = [store EXCEPT ![Request.name] = Piece(Contents(t), lo, hi)]
    <3> HIDE DEF Piece
    <3> QED BY <1>7, <1>8, <1>15, <2>2
  <2>4. store' = [store EXCEPT ![Request.name] = Piece(@, lo, hi)]
    <3> HIDE DEF Piece, store
    <3> QED BY <2>1, <2>3
  <2>5. lo \in 0 .. Len(store[Request.name]) /\ hi \in 0 .. Len(store[Request.name])
    BY <1>15, <2>1
  <2>6. \E l, h \in 0 .. Len(store[Request.name]) :
          /\ \A i \in l + 1 .. h : Files!InRange(i, Request)
          /\ store' = [store EXCEPT ![Request.name] = Piece(@, l, h)]
    <3> HIDE DEF Piece, store
    <3> QED BY <1>14, <2>4, <2>5
  <2>7. Request # NoReq /\ Request' = Request /\ got' = got
    BY <1>1, <1>8
  <2> QED BY <2>6, <2>7, Zenon DEF Files!WritePiece
<1> QED BY <1>16 DEF Files!Next

\* The size that fs_write ends with shows the rest of the request and zeros before it.
LEMMA StoreWriteEnd ==
  ASSUME IInv, Saved, Good, Clean, WriteEnd PROVE Files!Next
<1>t. r.slot \in Slots /\ r.fd \in Fds /\ r.at \in Nat /\ r.len \in Nat /\ r.left \in Nat /\ open[r.fd].offset \in Nat
      /\ dir \in [Slots -> Entry] /\ dir[r.slot] \in Entry /\ dir[r.slot].size \in Nat
  BY DEF IInv, TypeOK, CallRec, OpenFile, Entry
<1> DEFINE off == open[r.fd].offset
           old == dir[r.slot].size
           size == IF off > old THEN off ELSE old
<1>1. /\ pc = "size" /\ pc' = "syncDir" /\ mounted /\ mounted' /\ dir[r.slot].used
      /\ UNCHANGED <<fat, data, got, open, r>>
      /\ \A s \in Slots : s # r.slot => dir'[s] = dir[s]
      /\ dir'[r.slot] = [dir[r.slot] EXCEPT !.size = size]
  BY WriteEndChanges
<1>2. /\ \A s \in Slots : dir'[s].used = dir[s].used /\ dir'[s].name = dir[s].name /\ dir'[s].first = dir[s].first
      /\ dir'[r.slot].size = size /\ CurDir' = dir'
  BY <1>t, <1>1 DEF Entry, CurDir
<1>3. \A s \in Slots, i \in Nat : Byte(s, i)' = Byte(s, i)
  BY <1>1, <1>2 DEF Blk, Byte, CurFat, CurDir
<1>4. r.at <= off /\ off = r.at + r.len /\ off \in Nat
  BY <1>1, <1>t DEF Clean, Progress, Writing
<1>5. PICK t \in Slots : t = r.slot
  BY <1>t
<1>6. ASSUME NEW s \in Slots, dir[s].used, s # t PROVE Contents(s)' = Contents(s)
  <2>1. dir'[s].size = dir[s].size /\ pc # "release" /\ pc' # "release"
    BY <1>1, <1>5, <1>6
  <2> QED BY <1>1, <1>3, <2>1, ContentsKept
<1> DEFINE n == dir[t].name
<1>7. /\ \A m \in Names : StoreOf(m)' = IF m = n THEN Contents(t)' ELSE StoreOf(m)
      /\ n \in Names => StoreOf(n) = Contents(t)
  BY <1>1, <1>2, <1>5, <1>6, StoreOne
<1>8. /\ Request = [name |-> n, at |-> r.at, len |-> r.len, val |-> r.val]
      /\ Request # NoReq /\ n \in Names /\ Request' = NoReq
  <2>1. /\ Request = [name |-> n, at |-> r.at, len |-> r.len, val |-> r.val]
        /\ Request # NoReq /\ n \in Names
    BY <1>1, <1>5, RequestType
  <2>2. Request' = NoReq
    BY <1>1, RequestIs
  <2> QED BY <2>1, <2>2
<1>9. /\ Contents(t) \in Seq(Values) /\ Len(Contents(t)) = old
      /\ \A i \in 1 .. old : Contents(t)[i] = Byte(t, i - 1)
  BY <1>1, <1>5, ContentsType
<1>10. Contents(t)' = [i \in 1 .. size |-> Byte(t, i - 1)']
  <2>1. dir'[t].size = size /\ pc' # "release"
    BY <1>1, <1>2, <1>5
  <2> HIDE DEF size
  <2> QED BY <1>2, <2>1, ContentsNext
<1> HIDE DEF off
<1>11. old \in Nat /\ size \in Nat /\ old <= size /\ off <= size
  BY <1>t, <1>4
<1>12. ASSUME NEW i \in 1 .. size
       PROVE  Byte(t, i - 1)' = IF i > r.at /\ i <= r.at + r.len THEN r.val
                                ELSE IF i <= old THEN Contents(t)[i] ELSE 0
  <2>1. i - 1 \in Nat /\ i - 1 < size
    BY <1>11
  <2>2. Byte(t, i - 1)' = Byte(t, i - 1)
    BY <1>3, <2>1
  <2>3. Put(t, i - 1) <=> i > r.at /\ i <= r.at + r.len
    BY <1>t, <1>1, <1>4, <1>5, <2>1 DEF Put, Writing, off
  <2>4. CASE Put(t, i - 1)
    <3>1. Byte(t, i - 1) = r.val
      BY <1>1, <1>5, <2>1, <2>4 DEF Clean, Progress, Writing
    <3> QED BY <2>2, <2>3, <2>4, <3>1
  <2>5. CASE ~Put(t, i - 1) /\ i <= old
    <3>1. Contents(t)[i] = Byte(t, i - 1)
      BY <1>9, <1>11, <2>5
    <3> QED BY <2>2, <2>3, <2>5, <3>1
  <2>6. CASE ~Put(t, i - 1) /\ ~(i <= old)
    <3>1. old <= i - 1 /\ i - 1 < off
      BY <1>11, <2>1, <2>6
    <3>2. Blk(t, i - 1) \in Blocks
      <4>1. off \in 0 .. End
        BY <1>1, <1>4 DEF Good, off, End
      <4>2. (i - 1) \div BlockSize \in 0 .. BlocksFor(off) - 1
        BY <2>1, <3>1, <4>1, ByteIsCovered
      <4>3. Covers(fat, dir[t].first, BlocksFor(off))
        BY <1>1, <1>5 DEF Saved, off
      <4>4. ChainAt(fat, dir[t].first, (i - 1) \div BlockSize) \in Blocks
        BY <4>2, <4>3 DEF Covers
      <4>5. Blk(t, i - 1) = ChainAt(fat, dir[t].first, (i - 1) \div BlockSize)
        BY <1>1, BytesInMemory, Zenon
      <4> QED BY <4>4, <4>5
    <3>3. CurDir = dir /\ dir[t].used /\ dir[t].size <= i - 1
      BY <1>1, <1>5, <3>1 DEF CurDir
    <3>4. Byte(t, i - 1) = 0
      BY <1>1, <2>1, <2>6, <3>2, <3>3 DEF Clean, Zeros
    <3> QED BY <2>2, <2>3, <2>6, <3>4
  <2> QED BY <2>4, <2>5, <2>6
<1>13. Contents(t)' = Files!Patched(Contents(t), Request)
  <2>1. Request.at = r.at /\ Request.len = r.len /\ Request.val = r.val
    BY <1>8
  <2>2. size = IF r.at + r.len > Len(Contents(t)) THEN r.at + r.len ELSE Len(Contents(t))
    BY <1>4, <1>9
  <2>3. Files!Patched(Contents(t), Request) =
          [i \in 1 .. size |-> IF i > r.at /\ i <= r.at + r.len THEN r.val
                               ELSE IF i <= old THEN Contents(t)[i] ELSE 0]
    <3> HIDE DEF size, old
    <3> QED BY <1>9, <2>1, <2>2 DEF Files!Patched, Files!InRange
  <2> HIDE DEF size, old
  <2> QED BY <1>10, <1>12, <2>3
<1>14. Request.name = n
  BY <1>8
<1> HIDE DEF n
<1>15. Files!WriteDone
  <2> DEFINE store == [m \in Names |-> StoreOf(m)]
             P(c) == Files!Patched(c, Request)
  <2>1. store[Request.name] = Contents(t) /\ Request.name \in Names
    BY <1>7, <1>8, <1>14
  <2>2. Contents(t)' = P(Contents(t))
    BY <1>13
  <2>3. store' = [store EXCEPT ![Request.name] = P(Contents(t))]
    <3> HIDE DEF P
    <3> QED BY <1>7, <1>8, <1>14, <2>2
  <2>4. store' = [store EXCEPT ![Request.name] = P(@)]
    <3> HIDE DEF P, store
    <3> QED BY <2>1, <2>3
  <2> QED BY <1>1, <1>8, <2>4, Zenon DEF Files!WriteDone
<1> QED BY <1>15 DEF Files!Next

\* Every step of OTFS is a step of FileStore or none.
LEMMA StoreStep ==
  ASSUME Faults = FALSE, Crashes = FALSE, 0 \notin Lens
  PROVE  IInv /\ Saved /\ Good /\ Clean /\ Room /\ [Next]_vars => [Files!Next]_(Files!storeVars)
<1> SUFFICES ASSUME IInv, Saved, Good, Clean, Room, [Next]_vars PROVE [Files!Next]_(Files!storeVars)
  OBVIOUS
<1>0. CASE UNCHANGED vars
  <2>1. UNCHANGED <<mounted, dir, fat, dirDisk, fatDisk, data, pc, r, got>>
    BY <1>0 DEF vars
  <2>2. CurDir' = CurDir /\ AllContents' = AllContents /\ Request' = Request
    BY <2>1 DEF CurDir, CurFat, AllContents, Contents, Request
  <2>3. \A n \in Names : StoreOf(n)' = StoreOf(n)
    BY <2>2, StoreNow, StoreNext
  <2> QED BY <2>1, <2>2, <2>3 DEF Files!storeVars
<1>1. CASE fs_format_image \/ FormatStep
  BY <1>1, StoreFormat
<1>2. CASE \E n \in Names, fl \in FlagChoices : OpenCreate(n, fl)
  BY <1>2, StoreCreate
<1>3. CASE ReleaseStep \/ TruncEnd
  BY <1>3, StoreRelease
<1>4. CASE ResolveFirst \/ ResolveNext
  BY <1>4, StoreResolve
<1>5. CASE WriteChunk
  BY <1>5, StoreChunk
<1>6. CASE WriteEnd
  BY <1>6, StoreWriteEnd
<1>7. CASE KeepsFiles
  BY <1>7, StoreQuiet
<1>8. ~Crash
  BY DEF Crash
<1> QED BY <1>0, <1>1, <1>2, <1>3, <1>4, <1>5, <1>6, <1>7, <1>8 DEF Next, Call, Step, fs_open, KeepsFiles

\* Without faults and crashes, and as long as allocate_data_block finds a block, the calls
\* of fs/otfs.c keep the promise of FileStore (ImplementsFileStore): a read delivers what
\* was written, a gap reads as zeros, a write changes no other file and none of its own
\* bytes outside the request, and contents survive fs_unmount followed by fs_mount.
THEOREM ImplementsStore ==
  ASSUME Faults = FALSE, Crashes = FALSE, 0 \notin Lens
  PROVE  Spec /\ []Room => ImplementsFileStore
<1>1. IInv /\ Saved /\ [Next]_vars => Saved'
  BY SavedStep
<1>2. IInv /\ Saved /\ Good /\ Room /\ [Next]_vars => Good'
  BY GoodStep
<1>3. IInv /\ Saved /\ Good /\ Clean /\ Room /\ [Next]_vars => Clean'
  BY CleanStep
<1>4. IInv /\ Saved /\ Good /\ Clean /\ Room /\ [Next]_vars => [Files!Next]_(Files!storeVars)
  BY StoreStep
<1> QED BY <1>1, <1>2, <1>3, <1>4, GoodInit, CleanInit, StartsEmpty, InductiveInvariant, PTL
        DEF Spec, ImplementsFileStore, Files!StoreSpec

===============================================================================
