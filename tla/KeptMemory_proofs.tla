--------------------------- MODULE KeptMemory_proofs ---------------------------
(***************************************************************************)
(* Programs whose VM keeps its memory from one request to the next: what a *)
(* request leaves there does no harm to the next one but the one that is   *)
(* named.  First KeptBuffers for any sizes and any number of requests,     *)
(* then ImageServer for any number of requests.                            *)
(***************************************************************************)
EXTENDS KeptBuffers, ImageServer, SequenceTheorems, TLAPS

-----------------------------------------------------------------------------
(* KeptBuffers.  The argument: a null pointer beside a recorded size and a *)
(* decompressor that was freed are each left by a culprit that is still    *)
(* among the requests served since the reset.  Before there is one the     *)
(* buffer has the size of the first one at least, or that of a compression *)
(* and of nothing larger: what does not fit then is out of room.           *)

LEMMA NullFacts == Null \notin Sizes /\ Null # 0 /\ Initial \in Sizes /\ 0 \in Sizes
BY BufferAssumption DEF Null, Sizes

LEMMA SizeFacts == \A s \in Sizes : s \in Nat
BY BufferAssumption DEF Sizes

LEMMA RequestTypes ==
  ASSUME NEW r \in Requests
  PROVE  /\ r.need \in Nat /\ r.need <= MaxNeed /\ r.need \in Sizes
         /\ r.op \in {"compress", "decompress"} => r.need # 0
<1>1. /\ r.need \in 0..MaxNeed
      /\ r.op \in {"compress", "decompress"} => r.need # 0
  <2>1. CASE r \in ZlibRequests
    BY <2>1, BufferAssumption DEF ZlibRequests
  <2>2. CASE r \in Decompressions
    BY <2>2, BufferAssumption DEF Decompressions
  <2>3. CASE r \in Rejections
    BY <2>3, BufferAssumption DEF Rejections
  <2>4. CASE r \in Payloads
    BY <2>4, BufferAssumption DEF Payloads
  <2> QED BY <2>1, <2>2, <2>3, <2>4 DEF Requests
<1> QED BY <1>1, BufferAssumption DEF Sizes

(* Some request since the reset failed and no other accounts for it.       *)
Cause == \E m \in 1..Len(served) : Culprit(m)

(* A decompression that comes next would be out of room if it fails.       *)
NoRoom(r) ==
  /\ r.op = "decompress"
  /\ \E m \in 1..Len(served) : served[m].request.op = "compress" /\ ~Failed(m)
  /\ \A m \in 1..Len(served) : ~Failed(m) => served[m].request.need < r.need

(* The size of the buffer, as long as no request failed in deflate.        *)
RoomLeft ==
  /\ \A m \in 1..Len(served) : ~Failed(m) => served[m].request.need <= recorded
  /\ \/ recorded = 0 \/ recorded >= Initial
     \/ \E m \in 1..Len(served) : served[m].request.op = "compress" /\ ~Failed(m)

LargerCause(need) ==
  \E m \in 1..Len(served) :
    Failed(m) /\ served[m].guilty /\ served[m].request.need > need

Damage ==
  /\ program = "deflate" => Cause \/ RoomLeft
  /\ program = "zlib" => recorded >= Initial
  /\ program = "deflate" /\ buffer = Null /\ recorded # 0 => Cause
  /\ decompressor = "freed" => program = "deflate" /\ Cause
  /\ program = "zlib" /\ buffer = Null => LargerCause(recorded)
  /\ \A n \in 1..Len(served) : served[n].answer = "crashed" => n = Len(served) /\ ~up

BufferInv == TypeOK /\ RecordedIsAllocated /\ Damage /\ FaultsHaveCause

(* What a request adds to the history, if a failure of an innocent one has *)
(* the causes it should have.                                              *)
LEMMA AnswerAppends ==
  ASSUME BufferInv, up, UNCHANGED program,
         NEW r \in Requests, NEW a \in {"ok", "failed", "crashed"}, Answer(r, a),
         a # "ok" /\ ~Guilty(r) =>
           /\ Cause \/ NoRoom(r)
           /\ program = "deflate" /\ r.op = "compress" => a = "crashed"
           /\ program = "zlib" => LargerCause(r.need)
           /\ program # "payload"
  PROVE  /\ served' \in Seq(Served)
         /\ FaultsHaveCause'
         /\ \A n \in 1..Len(served') :
              served'[n].answer = "crashed" => n = Len(served') /\ ~up'
         /\ Cause \/ a # "ok" => Cause'
         /\ \A need : LargerCause(need) => LargerCause(need)'
         /\ \A need : a # "ok" /\ Guilty(r) /\ r.need > need => LargerCause(need)'
         /\ RoomLeft /\ a = "ok" /\ recorded' \in Nat /\ recorded' >= recorded /\ recorded' >= r.need
              /\ (recorded' = recorded \/ recorded' >= Initial \/ r.op = "compress") =>
              RoomLeft'
<1> DEFINE e == [request |-> r, guilty |-> Guilty(r), answer |-> a]
<1>1. PICK L \in Nat : L = Len(served)
  BY DEF BufferInv, TypeOK
<1>2. e \in Served /\ e.request = r /\ e.guilty = Guilty(r) /\ e.answer = a
  <2>1. Guilty(r) \in BOOLEAN
    BY RequestTypes DEF Guilty
  <2> QED BY <2>1 DEF Served
<1> HIDE DEF e
<1>3. /\ served' \in Seq(Served) /\ Len(served') = L + 1 /\ served'[L + 1] = e
      /\ \A n \in 1..L : served'[n] = served[n]
      /\ up' = (a # "crashed")
  BY <1>1, <1>2, AppendProperties DEF Answer, BufferInv, TypeOK, e
<1>4. \A n \in 1..L : Failed(n)' <=> Failed(n)
  BY <1>3 DEF Failed
<1>5. Failed(L + 1)' <=> a # "ok"
  BY <1>2, <1>3 DEF Failed
<1>6. \A n \in 1..L : Culprit(n)' <=> Culprit(n)
  <2> SUFFICES ASSUME NEW n \in 1..L PROVE Culprit(n)' <=> Culprit(n)
    OBVIOUS
  <2>1. \A m \in 1..(n-1) : m \in 1..L
    OBVIOUS
  <2>2. OutOfRoom(n)' <=> OutOfRoom(n)
    BY <1>3, <1>4, <2>1 DEF OutOfRoom
  <2> QED BY <1>3, <1>4, <2>2 DEF Culprit
<1>7. OutOfRoom(L + 1)' <=> NoRoom(r)
  <2>1. (L + 1) - 1 = L
    OBVIOUS
  <2> QED BY <1>1, <1>2, <1>3, <1>4, <2>1 DEF OutOfRoom, NoRoom
<1>8. \A need : LargerCause(need) => LargerCause(need)'
  BY <1>1, <1>3, <1>4 DEF LargerCause
<1>9. Cause \/ a # "ok" => Cause'
  <2>1. L + 1 \in 1..Len(served') /\ 1..L \subseteq 1..Len(served')
    BY <1>3
  <2>2. CASE Cause
    BY <1>1, <1>6, <2>1, <2>2 DEF Cause
  <2>3. CASE a # "ok" /\ ~Cause
    <3>1. Guilty(r) \/ NoRoom(r)
      BY <2>3
    <3>2. Culprit(L + 1)'
      BY <1>2, <1>3, <1>5, <1>7, <2>3, <3>1 DEF Culprit
    <3> QED BY <2>1, <3>2 DEF Cause
  <2> QED BY <2>2, <2>3
<1>10. \A need : a # "ok" /\ Guilty(r) /\ r.need > need => LargerCause(need)'
  <2>1. L + 1 \in 1..Len(served')
    BY <1>3
  <2> QED BY <1>2, <1>3, <1>5, <2>1 DEF LargerCause
<1>11. \A n \in 1..Len(served') :
        served'[n].answer = "crashed" => n = Len(served') /\ ~up'
  <2>1. \A n \in 1..L : served'[n].answer # "crashed"
    BY <1>1, <1>3 DEF BufferInv, Damage
  <2>2. \A n \in 1..Len(served') : n \in 1..L \/ n = L + 1
    BY <1>3
  <2>3. served'[L + 1].answer = a
    BY <1>2, <1>3
  <2> QED BY <1>3, <2>1, <2>2, <2>3
<1>12. FaultsHaveCause'
  <2> SUFFICES ASSUME NEW n \in 1..(L + 1), Innocent(n)'
               PROVE  /\ OutOfRoom(n)' \/ \E m \in 1..(n-1) : Culprit(m)'
                      /\ program = "deflate" /\ served'[n].request.op = "compress" =>
                           served'[n].answer = "crashed" /\ n = L + 1
                      /\ program = "zlib" =>
                           \E m \in 1..(n-1) :
                             /\ Failed(m)' /\ served'[m].guilty
                             /\ served'[m].request.need > served'[n].request.need
                      /\ program # "payload"
    BY <1>3 DEF FaultsHaveCause
  <2>1. CASE n \in 1..L
    <3>1. Innocent(n) /\ served'[n] = served[n]
      BY <1>3, <1>4, <2>1 DEF Innocent
    <3>2. ~(program = "deflate" /\ served[n].request.op = "compress")
      BY <1>1, <2>1, <3>1 DEF BufferInv, FaultsHaveCause, Damage
    <3>3. \A m \in 1..(n-1) : m \in 1..L
      BY <2>1
    <3>4. OutOfRoom(n)' \/ \E m \in 1..(n-1) : Culprit(m)'
      <4>1. OutOfRoom(n) \/ \E m \in 1..(n-1) : Culprit(m)
        BY <1>1, <2>1, <3>1 DEF BufferInv, FaultsHaveCause
      <4>2. OutOfRoom(n)' <=> OutOfRoom(n)
        BY <1>3, <1>4, <2>1, <3>3 DEF OutOfRoom
      <4> QED BY <1>6, <3>3, <4>1, <4>2
    <3>5. program # "payload"
      BY <1>1, <2>1, <3>1 DEF BufferInv, FaultsHaveCause
    <3>6. program = "zlib" =>
            \E m \in 1..(n-1) :
              /\ Failed(m)' /\ served'[m].guilty
              /\ served'[m].request.need > served'[n].request.need
      <4>1. program = "zlib" =>
              \E m \in 1..(n-1) : /\ Failed(m) /\ served[m].guilty
                                  /\ served[m].request.need > served[n].request.need
        BY <1>1, <2>1, <3>1 DEF BufferInv, FaultsHaveCause
      <4> QED BY <1>3, <1>4, <3>1, <3>3, <4>1
    <3> QED BY <3>1, <3>2, <3>4, <3>5, <3>6
  <2>2. CASE n = L + 1
    <3>1. a # "ok" /\ ~Guilty(r)
      BY <1>2, <1>3, <1>5, <2>2 DEF Innocent
    <3>2. served'[n].request = r /\ served'[n].answer = a /\ n - 1 = L
      BY <1>2, <1>3, <2>2
    <3>3. OutOfRoom(n)' \/ \E m \in 1..(n-1) : Culprit(m)'
      BY <1>1, <1>6, <1>7, <2>2, <3>1, <3>2 DEF Cause
    <3> QED BY <1>1, <1>3, <1>4, <2>2, <3>1, <3>2, <3>3 DEF LargerCause
  <2> QED BY <2>1, <2>2
<1>13. ASSUME RoomLeft, a = "ok", recorded' \in Nat, recorded' >= recorded, recorded' >= r.need,
              recorded' = recorded \/ recorded' >= Initial \/ r.op = "compress"
       PROVE  RoomLeft'
  <2>1. recorded \in Nat /\ recorded' \in Nat
    BY <1>13, SizeFacts DEF BufferInv, TypeOK
  <2>2. \A m \in 1..L : served[m].request.need \in Nat
    <3>1. \A m \in 1..L : served[m] \in Served
      BY <1>1 DEF BufferInv, TypeOK
    <3>2. \A m \in 1..L : served[m].request \in Requests
      BY <3>1 DEF Served
    <3> QED BY <3>2, RequestTypes
  <2>3. ASSUME NEW m \in 1..(L + 1), ~Failed(m)'
        PROVE  served'[m].request.need <= recorded'
    <3>1. CASE m \in 1..L
      <4>1. served[m].request.need <= recorded
        BY <1>1, <1>4, <1>13, <2>3, <3>1 DEF RoomLeft
      <4> QED BY <1>3, <1>13, <2>1, <2>2, <3>1, <4>1
    <3>2. CASE m = L + 1
      BY <1>2, <1>3, <1>13, <3>2
    <3> QED BY <3>1, <3>2
  <2>4. CASE recorded' >= Initial
    BY <1>3, <2>3, <2>4 DEF RoomLeft
  <2>5. CASE r.op = "compress"
    <3>1. served'[L + 1].request.op = "compress" /\ ~Failed(L + 1)' /\ L + 1 \in 1..(L + 1)
      BY <1>2, <1>3, <1>5, <1>13, <2>5
    <3> QED BY <1>3, <2>3, <3>1 DEF RoomLeft
  <2>6. CASE recorded' = recorded
    <3>1. CASE recorded = 0 \/ recorded >= Initial
      BY <1>3, <2>3, <2>6, <3>1 DEF RoomLeft
    <3>2. CASE \E m \in 1..Len(served) : served[m].request.op = "compress" /\ ~Failed(m)
      <4>1. PICK m \in 1..L : served[m].request.op = "compress" /\ ~Failed(m)
        BY <1>1, <3>2
      <4>2. served'[m].request.op = "compress" /\ ~Failed(m)' /\ m \in 1..(L + 1)
        BY <1>3, <1>4, <4>1
      <4> QED BY <1>3, <2>3, <4>2 DEF RoomLeft
    <3> QED BY <1>13, <3>1, <3>2 DEF RoomLeft
  <2> QED BY <1>13, <2>4, <2>5, <2>6
<1> QED BY <1>3, <1>8, <1>9, <1>10, <1>11, <1>12, <1>13

(* How a request of deflate keeps the invariant: what it does to the       *)
(* buffer and the decompressor, and why it fails if it does.               *)
LEMMA DeflateStep ==
  ASSUME BufferInv, up, program = "deflate", UNCHANGED <<program, payload>>,
         NEW r \in Requests, NEW a \in {"ok", "failed", "crashed"}, Answer(r, a),
         buffer' \in Sizes \cup {Null}, recorded' \in Sizes,
         decompressor' \in {"live", "freed"},
         a # "ok" => \/ Guilty(r) \/ NoRoom(r)
                     \/ Cause /\ (r.op = "compress" => a = "crashed"),
         a = "ok" => /\ recorded' >= recorded /\ recorded' >= r.need
                     /\ recorded' = recorded \/ recorded' >= Initial \/ r.op = "compress",
         buffer' # Null => recorded' = buffer',
         buffer' = Null /\ recorded' # 0 => a # "ok" \/ Cause,
         decompressor' = "freed" => a # "ok" \/ Cause
  PROVE  BufferInv'
<1>0. NoRoom(r) => r.op # "compress"
  BY DEF NoRoom
<1>1. /\ served' \in Seq(Served)
      /\ FaultsHaveCause'
      /\ \A n \in 1..Len(served') :
           served'[n].answer = "crashed" => n = Len(served') /\ ~up'
      /\ Cause \/ a # "ok" => Cause'
      /\ RoomLeft /\ a = "ok" => RoomLeft'
  BY <1>0, AnswerAppends, SizeFacts
<1>2. Cause' \/ RoomLeft'
  BY <1>1 DEF BufferInv, Damage
<1>3. TypeOK'
  BY <1>1 DEF BufferInv, TypeOK, Answer
<1>4. Damage'
  BY <1>1, <1>2 DEF Damage
<1>5. RecordedIsAllocated'
  BY DEF RecordedIsAllocated
<1> QED BY <1>1, <1>3, <1>4, <1>5 DEF BufferInv

LEMMA CompressKeepsInv ==
  ASSUME BufferInv, up, program = "deflate", UNCHANGED program,
         NEW r \in Requests, Compress(r)
  PROVE  BufferInv'
<1>1. /\ r.need \in Sizes /\ r.need \in Nat /\ r.need # 0 /\ r.op = "compress"
      /\ Null \notin Sizes /\ recorded \in Sizes /\ recorded \in Nat
      /\ buffer \in Sizes \cup {Null} /\ decompressor \in {"live", "freed"}
      /\ buffer # Null => recorded = buffer
      /\ buffer = Null /\ recorded # 0 => Cause
      /\ decompressor = "freed" => Cause
  BY RequestTypes, NullFacts, SizeFacts
  DEF BufferInv, TypeOK, RecordedIsAllocated, Damage, Compress
<1>2. CASE ~r.memory /\ Answer(r, "failed") /\ MemoryAsIs
  <2>1. Guilty(r)
    BY <1>2 DEF Guilty
  <2> QED BY <1>1, <1>2, <2>1, DeflateStep DEF MemoryAsIs
<1>3. CASE /\ r.memory /\ r.need > recorded
           /\ buffer' = r.need /\ recorded' = r.need
           /\ Answer(r, "ok")
           /\ UNCHANGED <<decompressor, payload>>
  BY <1>1, <1>3, DeflateStep
<1>4. CASE /\ r.need <= recorded
           /\ Answer(r, IF buffer = Null THEN "crashed" ELSE "ok")
           /\ MemoryAsIs
  <2>1. CASE buffer = Null
    <3>1. Cause
      BY <1>1, <1>4, <2>1
    <3>2. Answer(r, "crashed")
      BY <1>4, <2>1
    <3> QED BY <1>1, <1>4, <3>1, <3>2, DeflateStep DEF MemoryAsIs
  <2>2. CASE buffer # Null
    <3>1. Answer(r, "ok")
      BY <1>4, <2>2
    <3> QED BY <1>1, <1>4, <2>2, <3>1, DeflateStep DEF MemoryAsIs
  <2> QED BY <2>1, <2>2
<1>5. CASE decompressor = "freed" /\ Answer(r, "crashed") /\ MemoryAsIs
  BY <1>1, <1>5, DeflateStep DEF MemoryAsIs
<1> QED BY <1>2, <1>3, <1>4, <1>5 DEF Compress

LEMMA DecompressKeepsInv ==
  ASSUME BufferInv, up, program = "deflate", UNCHANGED program,
         NEW r \in Requests, Decompress(r)
  PROVE  BufferInv'
<1> DEFINE place == IF recorded = 0 THEN Initial ELSE buffer
<1>1. /\ r.need \in Nat /\ r.need # 0 /\ r.op = "decompress"
      /\ Null \notin Sizes /\ Null # 0 /\ 0 \in Sizes
      /\ recorded \in Sizes
      /\ decompressor \in {"live", "freed"}
      /\ decompressor = "freed" => Cause
      /\ UNCHANGED payload
  BY RequestTypes, NullFacts DEF BufferInv, TypeOK, Damage, Decompress
<1>2. /\ place \in Sizes \cup {Null} /\ Room \in Sizes /\ Room \in Nat /\ Room # 0
      /\ place # Null => Room = place
      /\ place = Null => Cause
  BY NullFacts, SizeFacts, BufferAssumption
  DEF BufferInv, TypeOK, RecordedIsAllocated, Damage, Room
<1>3. PICK result \in Decoded(r, place, Room) :
       \/ /\ result = "success"
          /\ buffer' = place /\ recorded' = Room
          /\ Answer(r, "ok")
          /\ UNCHANGED decompressor
       \/ /\ result = "bad data"
          /\ buffer' = place /\ recorded' = Room
          /\ FreeAndFail(r)
       \/ /\ result = "insufficient space" /\ place # Null
          /\ buffer' = Null /\ recorded' = Room
          /\ FreeAndFail(r)
       \/ /\ result = "insufficient space" /\ place = Null
          /\ buffer' = 0 /\ recorded' = 0
          /\ FreeAndFail(r)
       \/ /\ result = "fault"
          /\ Answer(r, "crashed")
          /\ UNCHANGED <<buffer, recorded, decompressor>>
  BY DEF Decompress
<1>4. /\ buffer \in Sizes \cup {Null}
      /\ buffer # Null => recorded = buffer
      /\ buffer = Null /\ recorded # 0 => Cause
  BY DEF BufferInv, TypeOK, RecordedIsAllocated, Damage
<1>5. result = "success" => place # Null
  BY <1>3 DEF Decoded
<1>6. result # "success" => Guilty(r) \/ NoRoom(r) \/ Cause
  <2>1. CASE r.need > Initial \/ ~r.valid
    BY <1>1, <2>1 DEF Guilty
  <2>2. CASE decompressor = "freed" \/ place = Null
    BY <1>1, <1>2, <2>2
  <2>3. CASE r.valid /\ r.need <= Initial /\ r.need > Room /\ ~Cause
    <3>1. RoomLeft /\ recorded = Room /\ recorded # 0 /\ ~(recorded >= Initial)
      BY <1>1, <1>2, <2>3, BufferAssumption DEF Room, BufferInv, Damage
    <3>2. \E m \in 1..Len(served) : served[m].request.op = "compress" /\ ~Failed(m)
      BY <3>1 DEF RoomLeft
    <3>3. ASSUME NEW m \in 1..Len(served), ~Failed(m)
          PROVE  served[m].request.need < r.need
      <4>1. served[m].request.need <= recorded
        BY <3>1, <3>3 DEF RoomLeft
      <4>2. served[m].request.need \in Nat
        <5>1. served[m] \in Served
          BY DEF BufferInv, TypeOK
        <5>2. served[m].request \in Requests
          BY <5>1 DEF Served
        <5> QED BY <5>2, RequestTypes
      <4> QED BY <1>1, <1>2, <2>3, <3>1, <4>1, <4>2
    <3> QED BY <1>1, <3>2, <3>3 DEF NoRoom
  <2>4. CASE r.valid /\ r.need <= Room /\ place # Null /\ decompressor # "freed"
    <3>1. r.valid /\ ~(r.need > Room) /\ ~(decompressor = "freed") /\ ~(place = Null)
      BY <1>1, <1>2, <2>4
    <3>2. result \in Decoded(r, place, Room)
      BY <1>3
    <3> HIDE DEF place
    <3>3. result = "success"
      BY <3>1, <3>2 DEF Decoded
    <3> QED BY <3>3
  <2> QED BY <1>1, <1>2, <2>1, <2>2, <2>3, <2>4, BufferAssumption
<1> HIDE DEF place
<1>7. CASE result = "success"
  <2>1. recorded \in Nat /\ Room >= recorded /\ (Room = recorded \/ Room >= Initial)
    BY <1>1, SizeFacts, BufferAssumption DEF Room
  <2>2. r.need <= Room
    BY <1>1, <1>2, <1>3, <1>7 DEF Decoded
  <2>3. Answer(r, "ok") /\ buffer' = place /\ recorded' = Room /\ decompressor' = decompressor
    BY <1>3, <1>7
  <2> QED BY <1>1, <1>2, <1>5, <1>7, <2>1, <2>2, <2>3, DeflateStep
<1>8. CASE result = "fault"
  <2>1. Answer(r, "crashed") /\ UNCHANGED <<buffer, recorded, decompressor>>
    BY <1>3, <1>8
  <2>2. Guilty(r) \/ NoRoom(r) \/ (Cause /\ r.op # "compress")
    BY <1>1, <1>6, <1>8
  <2> QED BY <1>1, <1>4, <2>1, <2>2, DeflateStep
<1>9. CASE result \in {"bad data", "insufficient space"}
  <2>1. /\ FreeAndFail(r)
        /\ \/ buffer' = place /\ recorded' = Room
           \/ buffer' = Null /\ recorded' = Room
           \/ buffer' = 0 /\ recorded' = 0
    BY <1>3, <1>9
  <2>2. PICK a \in {"failed", "crashed"} : Answer(r, a) /\ decompressor' = "freed"
    BY <2>1 DEF FreeAndFail
  <2>3. /\ buffer' \in Sizes \cup {Null} /\ recorded' \in Sizes
        /\ buffer' # Null => recorded' = buffer'
    BY <1>1, <1>2, <2>1
  <2>4. Guilty(r) \/ NoRoom(r) \/ (Cause /\ r.op # "compress")
    BY <1>1, <1>6, <1>9
  <2> QED BY <1>1, <2>2, <2>3, <2>4, DeflateStep
<1>10. result \in {"success", "bad data", "insufficient space", "fault"}
  BY <1>3
<1> QED BY <1>7, <1>8, <1>9, <1>10

LEMMA OthersKeepInv ==
  ASSUME BufferInv, up, program = "deflate", UNCHANGED program,
         NEW r \in DeflateRequests, Refuse(r) \/ Throw(r) \/ DecompressNowhere(r)
  PROVE  BufferInv'
<1>1. r \in Requests
  BY DEF DeflateRequests, Requests, Compressions, ZlibRequests
<1>2. /\ buffer \in Sizes \cup {Null} /\ recorded \in Sizes /\ 0 \in Sizes
      /\ decompressor \in {"live", "freed"}
      /\ buffer # Null => recorded = buffer
      /\ buffer = Null /\ recorded # 0 => Cause
      /\ decompressor = "freed" => Cause
  BY NullFacts DEF BufferInv, TypeOK, RecordedIsAllocated, Damage
<1>3. CASE Refuse(r) \/ Throw(r)
  <2>1. Guilty(r)
    <3>1. r \in Rejections
      BY <1>3 DEF Refuse, Throw, DeflateRequests, Compressions, Decompressions
    <3>2. r.valid = FALSE
      BY <3>1 DEF Rejections
    <3> QED BY <3>2 DEF Guilty
  <2>2. PICK a \in {"failed", "crashed"} : Answer(r, a) /\ MemoryAsIs
    BY <1>3 DEF Refuse, Throw
  <2> QED BY <1>1, <1>2, <2>1, <2>2, DeflateStep DEF MemoryAsIs
<1>4. CASE DecompressNowhere(r)
  <2>1. /\ Guilty(r) /\ FreeAndFail(r) /\ UNCHANGED payload
        /\ buffer' = Null /\ recorded' = 0
    BY <1>4 DEF DecompressNowhere, Guilty
  <2>2. PICK a \in {"failed", "crashed"} : Answer(r, a) /\ decompressor' = "freed"
    BY <2>1 DEF FreeAndFail
  <2> QED BY <1>1, <1>2, <2>1, <2>2, DeflateStep
<1> QED BY <1>3, <1>4

LEMMA ZlibKeepsInv ==
  ASSUME BufferInv, up, program = "zlib", UNCHANGED program,
         NEW r \in Requests, ZlibCompress(r)
  PROVE  BufferInv'
<1>1. /\ r.need \in Sizes /\ r.need \in Nat /\ Null \notin Sizes
      /\ buffer \in Sizes \cup {Null} /\ recorded \in Sizes /\ recorded \in Nat
      /\ decompressor = "live"
      /\ buffer # Null => recorded = buffer
      /\ buffer = Null => LargerCause(recorded)
      /\ UNCHANGED <<decompressor, payload>>
      /\ recorded >= Initial /\ Initial \in Nat
  BY RequestTypes, NullFacts, SizeFacts, BufferAssumption
  DEF BufferInv, TypeOK, RecordedIsAllocated, Damage, ZlibCompress, ZlibAnswer
<1>2. ~r.memory => Guilty(r)
  BY DEF Guilty
<1>3. ASSUME NEW a \in {"ok", "failed"}, Answer(r, a),
             a # "ok" => Guilty(r) \/ (buffer = Null /\ r.need <= recorded),
             buffer' \in Sizes \cup {Null}, recorded' \in Sizes,
             recorded' >= Initial,
             buffer' # Null => recorded' = buffer',
             buffer' = Null =>
               /\ recorded' = recorded
               /\ buffer = Null \/ (a # "ok" /\ Guilty(r) /\ r.need > recorded)
      PROVE  BufferInv'
  <2>1. a # "ok" /\ ~Guilty(r) => Cause /\ LargerCause(r.need)
    <3>1. ASSUME buffer = Null, r.need <= recorded
          PROVE  Cause /\ LargerCause(r.need)
      <4>1. PICK m \in 1..Len(served) :
              Failed(m) /\ served[m].guilty /\ served[m].request.need > recorded
        BY <1>1, <3>1 DEF LargerCause
      <4>2. served[m].request.need \in Nat
        <5>1. served[m] \in Served
          BY DEF BufferInv, TypeOK
        <5>2. served[m].request \in Requests
          BY <5>1 DEF Served
        <5> QED BY <5>2, RequestTypes
      <4>3. served[m].request.need > r.need
        BY <1>1, <3>1, <4>1, <4>2
      <4> QED BY <4>1, <4>3 DEF Cause, Culprit, LargerCause
    <3> QED BY <1>3, <3>1
  <2>2. /\ served' \in Seq(Served)
        /\ FaultsHaveCause'
        /\ \A n \in 1..Len(served') :
             served'[n].answer = "crashed" => n = Len(served') /\ ~up'
        /\ \A need : LargerCause(need) => LargerCause(need)'
        /\ \A need : a # "ok" /\ Guilty(r) /\ r.need > need => LargerCause(need)'
    BY <1>3, <2>1, AnswerAppends
  <2>3. TypeOK'
    BY <1>1, <1>3, <2>2 DEF BufferInv, TypeOK, Answer
  <2>4. buffer' = Null => LargerCause(recorded)'
    <3>1. ASSUME buffer' = Null PROVE \E need : need = recorded /\ LargerCause(need)'
      BY <1>1, <1>3, <2>2, <3>1
    <3>2. buffer' = Null => recorded' = recorded
      BY <1>3
    <3> QED BY <3>1, <3>2 DEF LargerCause
  <2>5. Damage'
    BY <1>1, <1>3, <2>2, <2>4 DEF Damage
  <2> QED BY <1>3, <2>2, <2>3, <2>5 DEF BufferInv, RecordedIsAllocated
<1>4. PICK a \in {"ok", "failed"} :
        /\ Answer(r, a)
        /\ a = "ok" <=> buffer' # Null /\ r.memory /\ Longest(r) <= recorded'
  BY <1>1 DEF ZlibCompress, ZlibAnswer
<1>5. Longest(r) <= r.need \/ ~r.valid
  BY <1>1 DEF Longest
<1>6. Longest(r) \in Nat
  BY <1>1 DEF Longest
<1>7. CASE recorded < r.need /\ buffer' = r.need /\ recorded' = r.need
  <2>1. a # "ok" => Guilty(r)
    BY <1>1, <1>4, <1>5, <1>6, <1>7 DEF Guilty, Longest
  <2> QED BY <1>1, <1>3, <1>4, <1>7, <2>1
<1>8. CASE /\ recorded < r.need /\ ~r.memory
           /\ buffer' = Null
           /\ UNCHANGED recorded
  BY <1>1, <1>2, <1>3, <1>4, <1>8
<1>9. CASE recorded >= r.need /\ UNCHANGED <<buffer, recorded>>
  <2>1. a # "ok" /\ buffer # Null => Guilty(r)
    BY <1>1, <1>4, <1>5, <1>6, <1>9 DEF Guilty
  <2>2. a # "ok" => Guilty(r) \/ (buffer = Null /\ r.need <= recorded)
    BY <1>1, <1>9, <2>1
  <2> QED BY <1>1, <1>3, <1>4, <1>9, <2>2
<1> QED BY <1>7, <1>8, <1>9 DEF ZlibCompress

LEMMA PayloadKeepsInv ==
  ASSUME BufferInv, up, program = "payload", UNCHANGED program,
         NEW r \in PayloadRequests, Throw(r) \/ GetPayload(r)
  PROVE  BufferInv'
<1>1. r \in Requests
  BY DEF PayloadRequests, Requests
<1>2. PICK a \in {"ok", "crashed"} : Answer(r, a) /\ (a # "ok" => Guilty(r))
  <2>1. CASE Throw(r)
    <3>1. r \in Rejections
      BY <2>1 DEF Throw, PayloadRequests, Payloads
    <3>2. r.valid = FALSE
      BY <3>1 DEF Rejections
    <3> QED BY <2>1, <3>2 DEF Throw, Guilty
  <2>2. CASE GetPayload(r)
    BY <2>2 DEF GetPayload, Guilty
  <2> QED BY <2>1, <2>2
<1>3. /\ served' \in Seq(Served)
      /\ FaultsHaveCause'
      /\ \A n \in 1..Len(served') :
           served'[n].answer = "crashed" => n = Len(served') /\ ~up'
  BY <1>1, <1>2, AnswerAppends
<1>4. /\ UNCHANGED <<buffer, recorded, decompressor>>
      /\ payload' \in [size : 0..MaxNeed, content : {"constant", "random"}]
  <2>1. CASE Throw(r)
    BY <2>1 DEF Throw, MemoryAsIs, BufferInv, TypeOK
  <2>2. CASE GetPayload(r)
    <3>1. r.need \in 0..MaxNeed /\ r.op \in {"constant", "random"}
      BY <1>1, <2>2, RequestTypes, BufferAssumption DEF GetPayload
    <3> QED BY <2>2, <3>1 DEF GetPayload, Fill, BufferInv, TypeOK
  <2> QED BY <2>1, <2>2
<1>5. TypeOK'
  BY <1>2, <1>3, <1>4 DEF BufferInv, TypeOK, Answer
<1>6. Damage' /\ RecordedIsAllocated'
  BY <1>3, <1>4 DEF BufferInv, Damage, RecordedIsAllocated
<1> QED BY <1>3, <1>5, <1>6 DEF BufferInv

LEMMA FreshVM ==
  ASSUME program \in {"deflate", "zlib", "payload"}, up, served = <<>>,
         buffer = MainLeft(program).buffer, recorded = MainLeft(program).recorded,
         decompressor = "live", payload = [size |-> 0, content |-> "constant"]
  PROVE  BufferInv
<1>1. /\ buffer = IF program = "zlib" THEN Initial ELSE Null
      /\ recorded = IF program = "zlib" THEN Initial ELSE 0
  BY DEF MainLeft
<1>2. TypeOK
  BY <1>1, NullFacts, BufferAssumption DEF TypeOK
<1> QED BY <1>1, <1>2, NullFacts, BufferAssumption DEF BufferInv, RecordedIsAllocated, Damage, RoomLeft,
                                                 FaultsHaveCause

LEMMA BufferInvariant == Spec => []BufferInv
<1>1. Init => BufferInv
  BY FreshVM DEF Init
<1>2. BufferInv /\ [Next]_vars => BufferInv'
  <2> SUFFICES ASSUME BufferInv, [Next]_vars PROVE BufferInv'
    OBVIOUS
  <2>1. ASSUME up, NEW r \in Requests, Serve(r), UNCHANGED program
        PROVE  BufferInv'
    <3>1. CASE program = "deflate"
      BY <2>1, <3>1, CompressKeepsInv, DecompressKeepsInv, OthersKeepInv DEF Serve
    <3>2. CASE program = "zlib"
      BY <2>1, <3>2, ZlibKeepsInv DEF Serve
    <3>3. CASE program = "payload"
      BY <2>1, <3>3, PayloadKeepsInv DEF Serve
    <3> QED BY <2>1, <3>1, <3>2, <3>3 DEF Serve
  <2>2. CASE Reset
    <3>1. /\ program' \in {"deflate", "zlib", "payload"} /\ up' /\ served' = <<>>
          /\ decompressor' = "live"
          /\ payload' = [size |-> 0, content |-> "constant"]
      BY <2>2 DEF Reset, BufferInv, TypeOK
    <3>2. /\ buffer' = IF program' = "zlib" THEN Initial ELSE Null
          /\ recorded' = IF program' = "zlib" THEN Initial ELSE 0
      BY <2>2 DEF Reset, MainLeft
    <3>3. TypeOK'
      BY <3>1, <3>2, NullFacts, BufferAssumption DEF TypeOK
    <3>4. RoomLeft' \/ program' # "deflate"
      BY <3>1, <3>2 DEF RoomLeft
    <3>5. Damage'
      BY <3>1, <3>2, <3>4, NullFacts, BufferAssumption DEF Damage
    <3> QED BY <3>1, <3>2, <3>3, <3>5, NullFacts
            DEF BufferInv, RecordedIsAllocated, FaultsHaveCause
  <2>3. CASE UNCHANGED vars
    <3>1. \A n : (Failed(n)' <=> Failed(n)) /\ (OutOfRoom(n)' <=> OutOfRoom(n))
      BY <2>3 DEF vars, Failed, OutOfRoom
    <3>2. \A n : (Culprit(n)' <=> Culprit(n)) /\ (Innocent(n)' <=> Innocent(n))
      BY <2>3, <3>1 DEF vars, Culprit, Innocent
    <3>3. (Cause' <=> Cause) /\ (RoomLeft' <=> RoomLeft)
      BY <2>3, <3>1, <3>2 DEF vars, Cause, RoomLeft
    <3>4. \A need : LargerCause(need)' <=> LargerCause(need)
      BY <2>3, <3>1 DEF vars, LargerCause
    <3>5. TypeOK' /\ RecordedIsAllocated'
      BY <2>3 DEF vars, BufferInv, TypeOK, RecordedIsAllocated
    <3>6. Damage'
      BY <2>3, <3>3, <3>4 DEF vars, BufferInv, Damage, LargerCause
    <3>7. FaultsHaveCause'
      BY <2>3, <3>1, <3>2 DEF vars, BufferInv, FaultsHaveCause
    <3> QED BY <3>5, <3>6, <3>7 DEF BufferInv
  <2> QED BY <2>1, <2>2, <2>3 DEF Next
<1> QED BY <1>1, <1>2, PTL DEF Spec

(* Sizes, the history and its answers are what they should be; no buffer   *)
(* grows beyond what was asked of it (on_post, on_get).                    *)
THEOREM TypeCorrect == Spec => []TypeOK
<1>1. BufferInv => TypeOK
  BY DEF BufferInv
<1> QED BY <1>1, BufferInvariant, PTL

(* The recorded size is the allocated one, for bodies of any size and any  *)
(* sequence of failed allocations (compression_buffer_size).               *)
THEOREM SizeIsTrue == Spec => []RecordedIsAllocated
<1>1. BufferInv => RecordedIsAllocated
  BY DEF BufferInv
<1> QED BY <1>1, BufferInvariant, PTL

(* Innocent requests fail only after guilty ones or, decompressed, after   *)
(* compressions that left a smaller buffer; and how much they suffer from  *)
(* these in each program, for any number of requests (on_post).            *)
THEOREM FaultsAlwaysHaveCause == Spec => []FaultsHaveCause
<1>1. BufferInv => FaultsHaveCause
  BY DEF BufferInv
<1> QED BY <1>1, BufferInvariant, PTL

PayloadInv ==
  /\ PayloadAsAsked
  /\ program = "payload" /\ up /\ served = <<>> => payload.size = 0

LEMMA GetPayloadKeepsAnswers ==
  ASSUME BufferInv, PayloadInv, up, program = "payload", UNCHANGED program,
         NEW r \in PayloadRequests, GetPayload(r)
  PROVE  PayloadInv'
<1> SUFFICES ASSUME up' PROVE PayloadInv'
  BY DEF PayloadInv, PayloadAsAsked
<1>1. PICK L \in Nat : L = Len(served)
  BY DEF BufferInv, TypeOK
<1>2. r \in Requests
  BY DEF PayloadRequests, Requests
<1>3. Answer(r, "ok") /\ payload' = Fill(r)
  BY DEF GetPayload, Answer
<1>4. /\ served' \in Seq(Served) /\ Len(served') = L + 1 /\ served'[L + 1].request = r
      /\ \A n \in 1..L : served'[n] = served[n]
  <2> DEFINE e == [request |-> r, guilty |-> Guilty(r), answer |-> "ok"]
  <2>1. Guilty(r) \in BOOLEAN
    BY DEF Guilty
  <2>2. e \in Served /\ e.request = r
    BY <1>2, <2>1 DEF Served
  <2> HIDE DEF e
  <2> QED BY <1>1, <1>3, <2>2, AppendProperties DEF Answer, BufferInv, TypeOK, e
<1>5. payload'.size = r.need
  BY <1>3 DEF Fill
<1>6. ASSUME payload'.size # 0
      PROVE  \E m \in 1..(L + 1) :
               /\ SameSize(m, L + 1)'
               /\ m = 1 \/ ~SameSize(m - 1, L + 1)'
               /\ payload'.content = served'[m].request.op
  <2>1. \A m \in 1..(L + 1) :
          SameSize(m, L + 1)' <=> \A k \in m..L : served[k].request.need = r.need
    BY <1>4 DEF SameSize
  <2>2. CASE r.need = payload.size
    <3>1. L # 0 /\ payload' = payload
      BY <1>1, <1>3, <1>5, <1>6, <2>2 DEF PayloadInv, Fill
    <3>2. /\ served[L].request.need = r.need
          /\ \E m \in 1..L : /\ SameSize(m, L)
                             /\ m = 1 \/ ~SameSize(m - 1, L)
                             /\ payload.content = served[m].request.op
      BY <1>1, <1>6, <2>2, <3>1 DEF PayloadInv, PayloadAsAsked
    <3>3. PICK m \in 1..L : /\ SameSize(m, L)
                            /\ m = 1 \/ ~SameSize(m - 1, L)
                            /\ payload.content = served[m].request.op
      BY <3>2
    <3>4. \A k \in 1..L : SameSize(k, L) <=> SameSize(k, L + 1)'
      BY <2>1, <3>2 DEF SameSize
    <3>5. SameSize(m, L + 1)' /\ (m = 1 \/ ~SameSize(m - 1, L + 1)')
      BY <3>3, <3>4
    <3>6. m \in 1..(L + 1) /\ served'[m] = served[m]
      BY <1>4
    <3>7. payload'.content = served'[m].request.op
      BY <3>1, <3>3, <3>6
    <3> HIDE DEF SameSize
    <3> QED BY <3>5, <3>6, <3>7, Zenon
  <2>3. CASE r.need # payload.size
    <3>1. payload'.content = r.op
      BY <1>3, <2>3 DEF Fill
    <3>2. SameSize(L + 1, L + 1)'
      BY <2>1
    <3>3. L = 0 \/ ~SameSize(L, L + 1)'
      <4>1. L # 0 => served[L].request.need # r.need
        BY <1>1, <2>3 DEF PayloadInv, PayloadAsAsked
      <4> QED BY <2>1, <4>1
    <3>4. L + 1 \in 1..(L + 1) /\ (L + 1) - 1 = L
      OBVIOUS
    <3>5. L + 1 = 1 \/ ~SameSize((L + 1) - 1, L + 1)'
      BY <3>3, <3>4
    <3>6. payload'.content = served'[L + 1].request.op
      BY <1>4, <3>1
    <3> QED BY <3>2, <3>4, <3>5, <3>6, Zenon
  <2> QED BY <2>2, <2>3
<1>7. served' # <<>>
  BY <1>4
<1> QED BY <1>4, <1>5, <1>6, <1>7 DEF PayloadInv, PayloadAsAsked

(* A payload is the first request's of its size in a row, however many     *)
(* requests there are (on_get).                                            *)
THEOREM PayloadIsAsAsked == Spec => []PayloadAsAsked
<1>1. Init => PayloadInv
  BY DEF Init, PayloadInv, PayloadAsAsked
<1>2. BufferInv /\ PayloadInv /\ [Next]_vars => PayloadInv'
  <2> SUFFICES ASSUME BufferInv, PayloadInv, [Next]_vars PROVE PayloadInv'
    OBVIOUS
  <2>1. CASE UNCHANGED vars
    BY <2>1 DEF vars, PayloadInv, PayloadAsAsked, SameSize
  <2>2. CASE Reset
    BY <2>2 DEF Reset, PayloadInv, PayloadAsAsked
  <2>3. ASSUME up, UNCHANGED program, NEW r \in Requests, Serve(r), program = "payload"
        PROVE  PayloadInv'
    <3>1. r \in PayloadRequests /\ (Throw(r) \/ GetPayload(r))
      BY <2>3 DEF Serve
    <3>2. CASE Throw(r)
      BY <3>2 DEF Throw, Answer, PayloadInv, PayloadAsAsked
    <3>3. CASE GetPayload(r)
      BY <2>3, <3>1, <3>3, GetPayloadKeepsAnswers
    <3> QED BY <3>1, <3>2, <3>3
  <2>4. CASE program # "payload" /\ UNCHANGED program
    BY <2>4 DEF PayloadInv, PayloadAsAsked
  <2> QED BY <2>1, <2>2, <2>3, <2>4 DEF Next
<1>3. PayloadInv => PayloadAsAsked
  BY DEF PayloadInv
<1> QED BY <1>1, <1>2, <1>3, BufferInvariant, PTL DEF Spec

-----------------------------------------------------------------------------
(* ImageServer.                                                            *)

(* Every variable of an image converter keeps its type (on_get, on_post,   *)
(* produce_image, on_error).                                               *)
THEOREM ImageTypeCorrect == ImageSpec => []ImageTypeOK
<1> USE ImageAssumption DEF ImageTypeOK, IdOrNone, Ids, None, memory, Go
<1>1. NoAnswer \in Answers
  BY DEF NoAnswer, Answers
<1>2. ImageInit => ImageTypeOK
  BY <1>1 DEF ImageInit
<1>3. ImageTypeOK /\ [ImageNext]_imageVars => ImageTypeOK'
  <2> SUFFICES ASSUME ImageTypeOK, [ImageNext]_imageVars
               PROVE  ImageTypeOK'
    OBVIOUS
  <2>1. ASSUME NEW m \in {"GET", "POST"}, Accept(m)
        PROVE  ImageTypeOK'
    BY <2>1 DEF Accept
  <2>2. CASE Parse
    BY <2>2 DEF Parse
  <2>3. CASE Fetch
    BY <2>3 DEF Fetch, Answers
  <2>4. CASE Decode \/ Transform \/ Raise
    BY <2>4 DEF Decode, Transform, Raise
  <2>5. CASE Encode
    <3>1. output' \in SUBSET IdOrNone /\ id \in IdOrNone
      BY <2>5 DEF Encode
    <3>2. answer' \in Answers
      <4>1. CASE answer' = answer
        BY <4>1
      <4>2. CASE answer' = [kind |-> "converted", by |-> "handler",
                            images |-> output', type |-> id]
        BY <4>2, <3>1 DEF Answers
      <4> QED BY <2>5, <4>1, <4>2 DEF Encode
    <3> QED BY <2>5, <3>1, <3>2 DEF Encode
  <2>6. CASE Bail
    BY <2>6 DEF Bail, Fallback, Answers
  <2>7. CASE OnError
    BY <2>7 DEF OnError, Fallback, Answers
  <2>8. CASE Ready
    BY <2>8, <1>1 DEF Ready
  <2>9. CASE UNCHANGED imageVars
    BY <2>9 DEF imageVars
  <2> QED BY <2>1, <2>2, <2>3, <2>4, <2>5, <2>6, <2>7, <2>8, <2>9 DEF ImageNext
<1> QED BY <1>2, <1>3, PTL DEF ImageSpec

(* The handler did not end by itself: its VM is reset before the next      *)
(* request.                                                                *)
Gone == answer.kind = "generic" \/ answer.by = "on_error"

(* What a request finds in the globals of an earlier one is overwritten    *)
(* before it is used: the picture once it is decoded, ...                  *)
OwnPicture ==
  /\ step \in {"transform", "encode"} =>
       picture = id \/ (converter = "avif" /\ picture = None)
  /\ step = "encode" =>
       output \subseteq (IF converter = "webp" THEN {id} ELSE {id, None})

(* ... the image before it is decoded, by webp's POST at once, ...         *)
OwnImage ==
  /\ step \in {"decode", "transform", "encode"} => img = id
  /\ converter = "webp" /\ method = "POST" /\ step # "idle" => img = id /\ type = id
  /\ converter = "avif" =>
       img \in (IF step = "idle" THEN {None} ELSE {id, None}) /\ type = None

(* ... and the list of headers is used up unless the VM is reset.          *)
OwnHeaders ==
  /\ step \in {"fetch", "error"} => headers \in {id, None}
  /\ step \in {"idle", "parse", "decode", "transform", "encode"} => headers = None
  /\ step = "done" => headers = None \/ Gone

ImageInv ==
  /\ AnswersAreOwn
  /\ step # "done" => answer = NoAnswer
  /\ OwnPicture /\ OwnImage /\ OwnHeaders

LEMMA ImageStep ==
  ASSUME ImageTypeOK, ImageInv, [ImageNext]_imageVars
  PROVE  ImageInv'
<1> USE DEF ImageInv, AnswersAreOwn, ConvertedIsOwn, FallbackIsOwn,
            HeadersAreOwn, Gone, OwnPicture, OwnImage, OwnHeaders, NoAnswer,
            None, Go, memory
<1>0. converter \in {"webp", "avif"} /\ method \in {"GET", "POST"}
  BY DEF ImageTypeOK
<1>1. ASSUME NEW m \in {"GET", "POST"}, Accept(m)
      PROVE  ImageInv'
  BY <1>0, <1>1 DEF Accept
<1>2. CASE Parse
  BY <1>0, <1>2 DEF Parse
<1>3. CASE Fetch
  BY <1>0, <1>3 DEF Fetch
<1>4. CASE Decode
  BY <1>0, <1>4 DEF Decode
<1>5. CASE Transform
  BY <1>0, <1>5 DEF Transform
<1>6. CASE Encode
  BY <1>0, <1>6 DEF Encode
<1>7. CASE Bail
  BY <1>0, <1>7 DEF Bail, Fallback
<1>8. CASE Raise
  <2>1. step \in {"parse", "fetch", "decode", "transform", "encode"}
    BY <1>8 DEF Raise, ImageTypeOK
  <2> QED BY <1>0, <1>8, <2>1 DEF Raise
<1>9. CASE OnError
  BY <1>0, <1>9 DEF OnError, Fallback
<1>10. CASE Ready
  BY <1>0, <1>10 DEF Ready
<1>11. CASE UNCHANGED imageVars
  BY <1>11 DEF imageVars
<1> QED BY <1>1, <1>2, <1>3, <1>4, <1>5, <1>6, <1>7, <1>8, <1>9, <1>10, <1>11
        DEF ImageNext

(* However many requests a converter serves, and wherever they stop,       *)
(* nothing of an earlier request is converted or sent with a fetch, and    *)
(* what is answered instead is the request's own but for the type, and in  *)
(* on_error the image, of a GET to webp (produce_image, on_get, on_post,   *)
(* bail, on_error).                                                        *)
THEOREM ImageAnswersAreOwn == ImageSpec => []AnswersAreOwn
<1>1. ImageInit => ImageInv
  BY DEF ImageInit, ImageInv, AnswersAreOwn, ConvertedIsOwn, Gone,
         FallbackIsOwn, HeadersAreOwn, OwnPicture, OwnImage, OwnHeaders,
         NoAnswer, None
<1>2. ImageInv /\ ImageTypeOK /\ [ImageNext]_imageVars => ImageInv'
  BY ImageStep
<1>3. ImageInv => AnswersAreOwn
  BY DEF ImageInv
<1>4. ImageSpec => []ImageTypeOK
  BY ImageTypeCorrect
<1> QED BY <1>1, <1>2, <1>3, <1>4, PTL DEF ImageSpec

===============================================================================
