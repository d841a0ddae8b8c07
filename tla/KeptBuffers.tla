------------------------------ MODULE KeptBuffers ------------------------------
(***************************************************************************)
(* Programs that are not ephemeral and keep a buffer from one request to   *)
(* the next: cpp/src/deflate.cpp and c/zlib/zlib.c their output buffer     *)
(* with its recorded size, the former a decompressor too, and              *)
(* cpp/src/payload.cpp the last payload.  Their VMs share nothing: here is *)
(* one, which serves one request at a time and is reset to what main left  *)
(* when a handler ends with an exception.                                  *)
(*                                                                         *)
(* A request is what decides about it: what it asks for, the bytes of      *)
(* output it takes, whether the body can be decompressed, and whether the  *)
(* VM has memory left for it.                                              *)
(***************************************************************************)
EXTENDS Naturals, Sequences

CONSTANTS
  MaxNeed,  \* bound: the largest output
  Initial,  \* the size of the first buffer, 16 MB in deflate, 4 MB in zlib
  MaxServed \* bound: the requests served between two resets

ASSUME BufferAssumption ==
  MaxNeed \in Nat /\ Initial \in Nat \ {0} /\ MaxServed \in Nat

VARIABLES
  program,       \* "deflate", "zlib" or "payload", for the whole behaviour
  buffer,        \* the bytes allocated for compression_buffer, or Null
  recorded,      \* compression_buffer_size
  decompressor,  \* "live" or "freed"
  payload,       \* the size and the content of the string `payload'
  up,            \* FALSE between an exception and the reset
  served         \* the requests since the VM was reset, with their answers

vars == <<program, buffer, recorded, decompressor, payload, up, served>>

Null == MaxNeed + Initial + 1

Sizes == (0..MaxNeed) \cup (0..Initial)

Compressions ==
  [op : {"compress"}, need : 1..MaxNeed, valid : {TRUE}, memory : BOOLEAN]

Decompressions ==
  [op : {"decompress"}, need : 1..MaxNeed, valid : BOOLEAN, memory : BOOLEAN]

Rejections ==
  [op : {"refused", "garbage"}, need : {0}, valid : {FALSE}, memory : {TRUE}]

Payloads ==
  [op : {"constant", "random"}, need : 0..MaxNeed, valid : {TRUE}, memory : BOOLEAN]

DeflateRequests == Compressions \cup Decompressions \cup Rejections

(* Content is not `valid' if gzip makes it longer than compressBound says, *)
(* which leaves no room for gzip's own header: content that does not       *)
(* compress.                                                               *)
ZlibRequests ==
  [op : {"compress"}, need : 1..MaxNeed, valid : BOOLEAN, memory : BOOLEAN]

PayloadRequests == Payloads \cup {r \in Rejections : r.op = "garbage"}

Requests == Decompressions \cup Rejections \cup Payloads \cup ZlibRequests

Served ==
  [request : Requests, guilty : BOOLEAN, answer : {"ok", "failed", "crashed"}]

TypeOK ==
  /\ program \in {"deflate", "zlib", "payload"}
  /\ buffer \in Sizes \cup {Null}
  /\ recorded \in Sizes
  /\ decompressor \in {"live", "freed"}
  /\ payload \in [size : 0..MaxNeed, content : {"constant", "random"}]
  /\ up \in BOOLEAN
  /\ served \in Seq(Served)

-----------------------------------------------------------------------------

(* What main leaves: zlib allocates its buffer, deflate its decompressor.  *)
MainLeft(p) ==
  [buffer |-> IF p = "zlib" THEN Initial ELSE Null,
   recorded |-> IF p = "zlib" THEN Initial ELSE 0]

Init ==
  /\ program \in {"deflate", "zlib", "payload"}
  /\ buffer = MainLeft(program).buffer
  /\ recorded = MainLeft(program).recorded
  /\ decompressor = "live"
  /\ payload = [size |-> 0, content |-> "constant"]
  /\ up = TRUE
  /\ served = <<>>

Reset ==
  /\ ~up
  /\ buffer' = MainLeft(program).buffer
  /\ recorded' = MainLeft(program).recorded
  /\ decompressor' = "live"
  /\ payload' = [size |-> 0, content |-> "constant"]
  /\ up' = TRUE
  /\ served' = <<>>
  /\ UNCHANGED program

(* The output that decompression has room for: the first one allocates the *)
(* buffer, unless a compression has already done so.                       *)
Room == IF recorded = 0 THEN Initial ELSE recorded

(* What deflate may write in zlib: more than it was given room for by one  *)
(* unit of size.                                                           *)
Longest(r) == IF r.valid THEN r.need ELSE r.need + 1

(* A request that may fail in a VM that is as main left it.                *)
Guilty(r) ==
  \/ ~r.memory
  \/ program # "zlib" /\ ~r.valid
  \/ program = "zlib" /\ ~r.valid /\ Initial < Longest(r)
  \/ r.op = "decompress" /\ r.need > Initial

(* The request is answered with success or an error status, or crashes.    *)
Answer(r, a) ==
  /\ served' = Append(served, [request |-> r, guilty |-> Guilty(r), answer |-> a])
  /\ up' = (a # "crashed")

MemoryAsIs == UNCHANGED <<buffer, recorded, decompressor, payload>>

(* on_post of deflate: an action or level that it does not know.           *)
Refuse(r) ==
  /\ r.op = "refused"
  /\ Answer(r, "failed")
  /\ MemoryAsIs

(* The JSON document does not parse or has values of the wrong type.       *)
Throw(r) ==
  /\ r.op = "garbage"
  /\ Answer(r, "crashed")
  /\ MemoryAsIs

(* Variant: the new size is recorded before the allocation is checked.     *)
CompressUnchecked(r) ==
  /\ r.op = "compress"
  /\ \/ /\ ~r.memory
        /\ Answer(r, "failed")
        /\ recorded' = IF r.need > recorded THEN r.need ELSE recorded
        /\ UNCHANGED <<buffer, decompressor, payload>>
     \/ /\ r.memory /\ r.need > recorded
        /\ buffer' = r.need /\ recorded' = r.need
        /\ Answer(r, "ok")
        /\ UNCHANGED <<decompressor, payload>>
     \/ /\ r.need <= recorded
        /\ Answer(r, IF buffer = Null THEN "crashed" ELSE "ok")
        /\ MemoryAsIs

(* Compression in deflate.  Without memory the compressor or the growth of *)
(* the buffer fails, which then stays as it is.  What is written through a *)
(* null pointer crashes; a decompressor that was freed, and perhaps used   *)
(* since or freed again, may have left a heap that allocation crashes on.  *)
(* A buffer of libdeflate's bound is never too small: "Compression failed" *)
(* is not reached.                                                         *)
Compress(r) ==
  /\ r.op = "compress"
  /\ \/ /\ ~r.memory
        /\ Answer(r, "failed")
        /\ MemoryAsIs
     \/ /\ r.memory /\ r.need > recorded
        /\ buffer' = r.need /\ recorded' = r.need
        /\ Answer(r, "ok")
        /\ UNCHANGED <<decompressor, payload>>
     \/ /\ r.need <= recorded
        /\ Answer(r, IF buffer = Null THEN "crashed" ELSE "ok")
        /\ MemoryAsIs
     \/ /\ decompressor = "freed"
        /\ Answer(r, "crashed")
        /\ MemoryAsIs

(* An error of decompression frees the decompressor.  To free it again may *)
(* end the program or go unnoticed.                                        *)
FreeAndFail(r) ==
  /\ decompressor' = "freed"
  /\ \/ Answer(r, "failed")
     \/ decompressor = "freed" /\ Answer(r, "crashed")

(* What libdeflate_gzip_decompress reports for `size' bytes at `place'.    *)
(* It may find a body invalid before or after it finds the output too      *)
(* large, and may have written nothing by then.  A freed decompressor      *)
(* holds anything; the checksum still tells a wrong output.                *)
Decoded(r, place, size) ==
  (IF r.valid /\ r.need <= size /\ place # Null THEN {"success"} ELSE {})
    \cup (IF ~r.valid \/ decompressor = "freed" THEN {"bad data"} ELSE {})
    \cup (IF r.need > size \/ decompressor = "freed" THEN {"insufficient space"} ELSE {})
    \cup (IF place = Null \/ decompressor = "freed" THEN {"fault"} ELSE {})

(* Decompression when the buffer has a size, or is given its first one.    *)
(* libdeflate reports the size of the output on success only: the buffer   *)
(* that is too small is reallocated to no bytes at all.  That frees a      *)
(* buffer and gives null; where there is none it gives one of no bytes, in *)
(* which the second attempt fails.                                         *)
Decompress(r) ==
  LET place == IF recorded = 0 THEN Initial ELSE buffer
  IN
  /\ r.op = "decompress"
  /\ recorded # 0 \/ r.memory
  /\ \E result \in Decoded(r, place, Room) :
       \/ /\ result = "success"
          /\ buffer' = place /\ recorded' = Room
          /\ Answer(r, "ok")
          /\ UNCHANGED decompressor
       \/ /\ result = "bad data"
          /\ buffer' = place /\ recorded' = Room
          /\ FreeAndFail(r)
       \/ /\ result = "insufficient space" /\ place # Null
          /\ buffer' = Null /\ recorded' = Room
          /\ FreeAndFail(r)
       \/ /\ result = "insufficient space" /\ place = Null
          /\ buffer' = 0 /\ recorded' = 0
          /\ FreeAndFail(r)
       \/ /\ result = "fault"
          /\ Answer(r, "crashed")
          /\ UNCHANGED <<buffer, recorded, decompressor>>
  /\ UNCHANGED payload

(* The first buffer cannot be allocated.                                   *)
DecompressNowhere(r) ==
  /\ r.op = "decompress"
  /\ recorded = 0 /\ ~r.memory
  /\ buffer' = Null
  /\ FreeAndFail(r)
  /\ UNCHANGED <<recorded, payload>>

(* Deflate refuses a null pointer and stops where the buffer ends.         *)
ZlibAnswer(r) ==
  /\ Answer(r, IF buffer' # Null /\ r.memory /\ Longest(r) <= recorded'
                 THEN "ok" ELSE "failed")
  /\ UNCHANGED <<decompressor, payload>>

(* Variants: the buffer grows by what is needed instead of to it; the new  *)
(* size is recorded before the allocation is checked.                      *)
ZlibCompressGrowsBy(r) ==
  /\ \/ recorded < r.need /\ buffer' = recorded + r.need /\ recorded' = r.need
     \/ recorded >= r.need /\ UNCHANGED <<buffer, recorded>>
  /\ ZlibAnswer(r)

ZlibCompressRecords(r) ==
  /\ \/ /\ recorded < r.need
        /\ buffer' = (IF r.memory THEN r.need ELSE Null) /\ recorded' = r.need
     \/ recorded >= r.need /\ UNCHANGED <<buffer, recorded>>
  /\ ZlibAnswer(r)

(* on_post of zlib.  Without memory either the growth of the buffer fails, *)
(* which loses it, or deflateInit2 does.                                   *)
ZlibCompress(r) ==
  /\ \/ recorded < r.need /\ buffer' = r.need /\ recorded' = r.need
     \/ recorded < r.need /\ ~r.memory /\ buffer' = Null /\ UNCHANGED recorded
     \/ recorded >= r.need /\ UNCHANGED <<buffer, recorded>>
  /\ ZlibAnswer(r)

(* Variant: only bytes that a larger payload adds are filled.              *)
FillGrowth(r) ==
  [size |-> r.need,
   content |-> IF r.need > payload.size THEN r.op ELSE payload.content]

(* on_get of payload writes the payload anew when its size changes.        *)
Fill(r) ==
  IF r.need = payload.size THEN payload ELSE [size |-> r.need, content |-> r.op]

(* on_get of payload; resize throws if it needs memory and gets none.      *)
GetPayload(r) ==
  /\ r.op \in {"constant", "random"}
  /\ \/ /\ payload' = Fill(r)
        /\ Answer(r, "ok")
     \/ /\ ~r.memory /\ r.need > payload.size
        /\ Answer(r, "crashed")
        /\ UNCHANGED payload
  /\ UNCHANGED <<buffer, recorded, decompressor>>

Serve(r) ==
  \/ /\ program = "deflate" /\ r \in DeflateRequests
     /\ Refuse(r) \/ Throw(r) \/ Compress(r) \/ Decompress(r) \/ DecompressNowhere(r)
  \/ /\ program = "zlib" /\ r \in ZlibRequests
     /\ ZlibCompress(r)
  \/ /\ program = "payload" /\ r \in PayloadRequests
     /\ Throw(r) \/ GetPayload(r)

Next ==
  \/ /\ up
     /\ Len(served) < MaxServed
     /\ \E r \in Requests : Serve(r)
     /\ UNCHANGED program
  \/ Reset

Spec == Init /\ [][Next]_vars

-----------------------------------------------------------------------------

(* What the codecs are told of the buffer is true: as long as there is     *)
(* one, its recorded size is the size it was last allocated with, whatever *)
(* allocations failed since (on_post of both programs).                    *)
RecordedIsAllocated == buffer # Null => recorded = buffer

Failed(n) == served[n].answer # "ok"

Innocent(n) == Failed(n) /\ ~served[n].guilty

(* A decompression that the first buffer would have had room for, but a    *)
(* compression before it made the buffer, and nothing a larger one.        *)
OutOfRoom(n) ==
  /\ served[n].request.op = "decompress"
  /\ \E m \in 1..(n-1) : served[m].request.op = "compress" /\ ~Failed(m)
  /\ \A m \in 1..(n-1) : ~Failed(m) => served[m].request.need < served[n].request.need

(* Failures that no other failure accounts for.                            *)
Culprit(n) == Failed(n) /\ (served[n].guilty \/ OutOfRoom(n))

(* A request that a VM would serve which is as main left it fails only     *)
(* after one since the reset that it would not, except for a decompression *)
(* in deflate: it also fails after compressions that were answered well    *)
(* and left a buffer smaller than the first one, and others after it.  An  *)
(* innocent compression that fails in deflate takes the VM with it, so     *)
(* that none after it does for the same reason; one that fails in zlib     *)
(* asked for less than a request that got no memory, because one that asks *)
(* for as much gets a new buffer; none for a payload ever fails.           *)
FaultsHaveCause ==
  \A n \in 1..Len(served) : Innocent(n) =>
    /\ OutOfRoom(n) \/ \E m \in 1..(n-1) : Culprit(m)
    /\ program = "deflate" /\ served[n].request.op = "compress" =>
         served[n].answer = "crashed" /\ n = Len(served)
    /\ program = "zlib" =>
         \E m \in 1..(n-1) : /\ Failed(m) /\ served[m].guilty
                             /\ served[m].request.need > served[n].request.need
    /\ program # "payload"

(* The requests from m to n ask for payloads of one size.                  *)
SameSize(m, n) ==
  \A k \in m..n : served[k].request.need = served[n].request.need

(* A payload has the size that its request asked for, and the content that *)
(* the first of the requests for this size in a row asked for: content of  *)
(* another kind is never left over from a payload of another size.         *)
PayloadAsAsked ==
  LET n == Len(served) IN
  program = "payload" /\ up /\ n # 0 =>
    /\ payload.size = served[n].request.need
    /\ payload.size # 0 =>
         \E m \in 1..n :
           /\ SameSize(m, n)
           /\ m = 1 \/ ~SameSize(m - 1, n)
           /\ payload.content = served[m].request.op

===============================================================================
