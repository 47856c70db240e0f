------------------------------ MODULE FileStore ------------------------------
(***************************************************************************)
(* What the OTFS calls promise about file contents: named byte sequences,  *)
(* writes at any offset with a gap of zeros past the end, reads that       *)
(* deliver what was written.  A write is not atomic: pieces of it inside   *)
(* the file may show before it is complete, the part past the end shows at *)
(* once when it completes, and a write that gives up shows none of that    *)
(* part.                                                                   *)
(***************************************************************************)
EXTENDS Integers, Sequences

CONSTANTS Names, Values, NoFile, NoReq

VARIABLES store,   \* name -> contents, or NoFile
          req,     \* the write in progress: [name, at, len, val], or NoReq
          got      \* what the last read delivered

storeVars == <<store, req, got>>

Init == store = [n \in Names |-> NoFile] /\ req = NoReq /\ got = <<>>

Quiet == req = NoReq /\ req' = req /\ got' = <<>>

Format == Quiet /\ store' = [n \in Names |-> NoFile]

Create(n) == Quiet /\ store[n] = NoFile /\ store' = [store EXCEPT ![n] = <<>>]

Truncate(n) == Quiet /\ store[n] # NoFile /\ store' = [store EXCEPT ![n] = <<>>]

\* Bytes from .. from + len - 1 of a file, as far as they exist.
Read(n) ==
  /\ req = NoReq /\ store[n] # NoFile
  /\ \E from \in 0 .. Len(store[n]), upto \in 0 .. Len(store[n]) :
       got' = SubSeq(store[n], from + 1, upto)
  /\ UNCHANGED <<store, req>>

WriteBegin ==
  /\ req = NoReq /\ req' # NoReq /\ store[req'.name] # NoFile
  /\ got' = <<>> /\ UNCHANGED store

InRange(i, q) == i > q.at /\ i <= q.at + q.len

\* Some bytes of the request that lie inside the file are in place.
WritePiece ==
  /\ req # NoReq
  /\ \E lo, hi \in 0 .. Len(store[req.name]) :
       /\ \A i \in lo + 1 .. hi : InRange(i, req)
       /\ store' = [store EXCEPT ![req.name] =
                      [i \in 1 .. Len(@) |-> IF lo < i /\ i <= hi THEN req.val ELSE @[i]]]
  /\ UNCHANGED <<req, got>>

Patched(old, q) ==
  LET end == q.at + q.len
  IN  [i \in 1 .. (IF end > Len(old) THEN end ELSE Len(old)) |->
         IF InRange(i, q) THEN q.val ELSE IF i <= Len(old) THEN old[i] ELSE 0]

WriteDone ==
  /\ req # NoReq /\ req' = NoReq
  /\ store' = [store EXCEPT ![req.name] = Patched(@, req)]
  /\ UNCHANGED got

WriteGivesUp == req # NoReq /\ req' = NoReq /\ UNCHANGED <<store, got>>

Next ==
  \/ Format \/ WriteBegin \/ WritePiece \/ WriteDone \/ WriteGivesUp
  \/ \E n \in Names : Create(n) \/ Truncate(n) \/ Read(n)
  \/ Quiet /\ store' = store

StoreSpec == Init /\ [][Next]_storeVars
===============================================================================
