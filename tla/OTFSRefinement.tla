---------------------------- MODULE OTFSRefinement ----------------------------
(***************************************************************************)
(* OTFS implements FileStore.  The contents of a file are the bytes its    *)
(* chain leads to, up to its size: through the handle while mounted,       *)
(* through the image otherwise, so that unmounting and mounting again must *)
(* not change them.                                                        *)
(***************************************************************************)
EXTENDS OTFS

CONSTANTS NoFile, NoReq

\* The two are no contents and no request.
ASSUME StoreAssumption ==
  /\ NoFile \notin Seq(Values)
  /\ NoReq \notin [name : Names, at : Nat, len : Nat, val : Values]

CurDir == IF mounted THEN dir ELSE dirDisk
CurFat == IF mounted THEN fat ELSE fatDisk

\* While release_chain runs, the file is already empty to the reader.
Contents(s) ==
  IF pc = "release" /\ r.slot = s THEN <<>>
  ELSE [i \in 1 .. CurDir[s].size |->
          data[ChainAt(CurFat, CurDir[s].first, (i - 1) \div BlockSize)][(i - 1) % BlockSize]]

StoreOf(n) ==
  IF \E s \in Slots : CurDir[s].used /\ CurDir[s].name = n
    THEN Contents(CHOOSE s \in Slots : CurDir[s].used /\ CurDir[s].name = n)
    ELSE NoFile

Request ==
  IF pc \in {"resolve", "walk", "size"}
    THEN [name |-> dir[r.slot].name, at |-> r.at, len |-> r.len, val |-> r.val]
    ELSE NoReq

Files == INSTANCE FileStore WITH store <- [n \in Names |-> StoreOf(n)], req <- Request

\* Every step of the calls of fs/otfs.c is a step of FileStore: reads deliver what
\* was written, gaps are zeros, other files are untouched, and contents survive
\* fs_unmount followed by fs_mount.
ImplementsFileStore == Files!StoreSpec
===============================================================================
