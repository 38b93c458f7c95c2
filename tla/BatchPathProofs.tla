-------------------------- MODULE BatchPathProofs ---------------------------
(***************************************************************************)
(* Proofs about BatchPath, for integers, payloads and batches of every     *)
(* size.                                                                   *)
(*                                                                         *)
(* Samples that are built or cut one after the other from a first position *)
(* form a chain.  Two chains of the same lengths keep their distance: that *)
(* of the client's body and that of the request, that of the request and   *)
(* that of the answer, that of a builder and that of its parser.  So what  *)
(* the front has measured bounds every payload and every sum that follows. *)
(***************************************************************************)
EXTENDS BatchPath, SequenceTheorems, TLAPS

\* Where the k-th sample of a chain ends, and the next begins.
After(s, end, k) == IF k = Len(s) THEN end ELSE s[k + 1]

\* The samples at s, of the lengths l, follow each other from first to end.
Placed(s, l, first, end) ==
  /\ Len(s) <= Len(l)
  /\ After(s, end, 0) = first
  /\ \A k \in 1 .. Len(s) : After(s, end, k) = s[k] + l[k]
  /\ \A k \in 0 .. Len(s) : After(s, end, k) <= end

\* t begins as s does.
Begins(s, t) == Len(s) <= Len(t) /\ \A k \in 1 .. Len(s) : s[k] = t[k]

\* What a front lets in.
Fits(n) == n < U32 /\ (via = "http" => n <= MAX_HTTP_BODY)

ShortIds == adam_len < U16 /\ uri_len < U16

Fields ==
  /\ via = "tcp" => ShortIds
  /\ adam_len # 0 /\ uri_len # 0 /\ sample_count # 0
  /\ \A k \in 1 .. Len(lengths) : lengths[k] # 0

RequestBase == 8 + 4 * sample_count + adam_len + uri_len
AnswerBase  == 4 + 4 * sample_count

InFrontTable ==
  /\ Fields /\ Fits(size) /\ FixedEnd <= size
  /\ Len(lengths) <= sample_count /\ samples = <<>>

InFrontCut ==
  /\ Fields /\ Fits(size)
  /\ Len(lengths) = sample_count
  /\ Placed(samples, lengths, FixedEnd, offset) /\ offset <= size

InEncode ==
  /\ Fields /\ Fits(offset)
  /\ Len(lengths) = sample_count /\ Len(samples) = sample_count
  /\ Placed(samples, lengths, FixedEnd, offset)

\* The request is shorter than the body by what the header is.
InEncodeSamples ==
  /\ InEncode /\ ShortIds /\ asked = lengths /\ table = lengths
  /\ Placed(starts, lengths, RequestBase, size)
  /\ size + HeaderBytes - 8 = After(samples, offset, Len(starts))

\* The request, as it was built.
Request ==
  /\ adam_len # 0 /\ uri_len # 0 /\ sample_count # 0
  /\ \A k \in 1 .. Len(table) : table[k] # 0
  /\ asked = table
  /\ Len(table) = sample_count /\ Len(starts) = sample_count
  /\ Placed(starts, table, RequestBase, size)

InFrame == Request /\ Fits(size)

InWorkerHeader ==
  Request /\ size <= kMaxPayload /\ lengths = <<>> /\ samples = <<>>

InWorkerTable ==
  /\ Request /\ size <= kMaxPayload /\ samples = <<>>
  /\ Begins(lengths, table)
  /\ RequestBase + sample_bytes = After(starts, size, Len(lengths))

InWorkerCut ==
  /\ Request /\ size <= kMaxPayload /\ lengths = table
  /\ Begins(samples, starts)
  /\ offset = After(starts, size, Len(samples))

\* The answer is shorter than the request by the ids and their lengths.
InAnswer ==
  /\ sample_count # 0 /\ table = lengths /\ asked = lengths
  /\ Len(lengths) = sample_count /\ Len(samples) = sample_count
  /\ Placed(samples, lengths, RequestBase, offset) /\ offset <= kMaxPayload
  /\ Placed(starts, lengths, AnswerBase, size)
  /\ size + 4 + adam_len + uri_len = After(samples, offset, Len(starts))

\* The answer, as it was built.
Answer ==
  /\ asked = table
  /\ Len(table) = sample_count /\ Len(starts) = sample_count
  /\ Placed(starts, table, AnswerBase, size)

InReplyHeader == Answer /\ lengths = <<>> /\ samples = <<>>

InReplyTable == Answer /\ samples = <<>> /\ Begins(lengths, table)

InReplyCut ==
  /\ Answer /\ lengths = table /\ Begins(samples, starts)
  /\ offset = After(starts, size, Len(samples))

InAnswered ==
  Answer /\ lengths = table /\ Begins(samples, starts)
  /\ Len(samples) = sample_count

Where ==
  /\ at \in {"idle", "front.header"} => lengths = <<>> /\ samples = <<>>
  /\ at = "front.header" => Fits(size)
  /\ at = "front.table" => InFrontTable
  /\ at = "front.cut" => InFrontCut
  /\ at = "encode" => InEncode
  /\ at = "encode.samples" => InEncodeSamples
  /\ at = "too_large" => via = "http" /\ IdTooLong
  /\ at = "frame" => InFrame
  /\ at = "closed" => via = "tcp" /\ size > kMaxPayload
  /\ at = "worker.header" => InWorkerHeader
  /\ at = "worker.table" => InWorkerTable
  /\ at = "worker.cut" => InWorkerCut
  /\ at = "answer" => InAnswer
  /\ at = "reply.header" => InReplyHeader
  /\ at = "reply.table" => InReplyTable
  /\ at = "reply.cut" => InReplyCut
  /\ at = "answered" => InAnswered
  /\ at \notin {"invalid_frame", "bad_answer"}

IInv == TypeOK /\ Where
-----------------------------------------------------------------------------
(* Chains and beginnings.                                                  *)

LEMMA EntryType ==
  ASSUME NEW l \in Lengths, NEW k \in 1 .. Len(l)
  PROVE  l[k] \in 0 .. U32 - 1 /\ l[k] \in Nat
<1>1. l[k] \in 0 .. U32 - 1
  BY ElementOfSeq DEF Lengths
<1>. QED BY <1>1, BatchAssumption

LEMMA PlacedStart ==
  ASSUME NEW l \in Lengths, NEW first \in Nat
  PROVE  Placed(<<>>, l, first, first)
<1>1. Len(<<>>) = 0 /\ Len(l) \in Nat
  BY EmptySeq, LenProperties DEF Lengths
<1>. QED BY <1>1 DEF Placed, After

LEMMA PlacedMore ==
  ASSUME NEW l \in Lengths, NEW s \in Seq(Nat),
         NEW first \in Nat, NEW end \in Nat,
         Placed(s, l, first, end), Len(s) < Len(l)
  PROVE  Placed(Append(s, end), l, first, end + l[Len(s) + 1])
<1>. DEFINE t == Append(s, end)
            e == end + l[Len(s) + 1]
<1>1. /\ Len(s) \in Nat /\ Len(l) \in Nat
      /\ Len(t) = Len(s) + 1 /\ t[Len(s) + 1] = end
      /\ \A k \in 1 .. Len(s) : t[k] = s[k]
  BY AppendProperties DEF Lengths
<1>2. l[Len(s) + 1] \in Nat
  <2>1. Len(s) + 1 \in 1 .. Len(l)
    BY <1>1
  <2>. QED BY <2>1, EntryType
<1>. HIDE DEF t
<1>3. \A k \in 0 .. Len(s) : After(t, e, k) = After(s, end, k)
  BY <1>1 DEF After
<1>4. After(t, e, Len(t)) = e /\ e = t[Len(t)] + l[Len(t)]
  BY <1>1 DEF After
<1>5. After(t, e, 0) = first
  BY <1>1, <1>3 DEF Placed
<1>6. \A k \in 1 .. Len(t) : After(t, e, k) = t[k] + l[k]
  BY <1>1, <1>3, <1>4 DEF Placed
<1>7. \A k \in 0 .. Len(s) : After(s, end, k) \in Nat
  BY <1>1, ElementOfSeq DEF After
<1>8. \A k \in 0 .. Len(t) : After(t, e, k) <= e
  BY <1>1, <1>2, <1>3, <1>4, <1>7 DEF Placed
<1>. QED BY <1>1, <1>5, <1>6, <1>8 DEF Placed, t

LEMMA PlacedNext ==
  ASSUME NEW l \in Lengths, NEW s \in Seq(Nat),
         NEW first \in Nat, NEW end \in Nat, Placed(s, l, first, end),
         NEW k \in Nat, k < Len(s)
  PROVE  /\ After(s, end, k) = s[k + 1]
         /\ After(s, end, k + 1) = After(s, end, k) + l[k + 1]
         /\ After(s, end, k) \in Nat /\ After(s, end, k + 1) \in Nat
         /\ After(s, end, k + 1) <= end
<1>1. Len(s) \in Nat
  OBVIOUS
<1>2. k + 1 \in 1 .. Len(s)
  BY <1>1
<1>3. s[k + 1] \in Nat /\ After(s, end, k) = s[k + 1]
  BY <1>2, ElementOfSeq DEF After
<1>4. After(s, end, k + 1) \in Nat
  <2>1. CASE k + 1 = Len(s)
    BY <2>1 DEF After
  <2>2. CASE k + 1 # Len(s)
    BY <2>2, <1>1, <1>2, ElementOfSeq DEF After
  <2>. QED BY <2>1, <2>2
<1>. QED BY <1>2, <1>3, <1>4 DEF Placed

LEMMA BeginsMore ==
  ASSUME NEW S, NEW s \in Seq(S), NEW t \in Seq(S), Begins(s, t),
         Len(s) < Len(t)
  PROVE  /\ Begins(Append(s, t[Len(s) + 1]), t)
         /\ Len(Append(s, t[Len(s) + 1])) = Len(s) + 1
         /\ t[Len(s) + 1] \in S
<1>1. Len(s) \in Nat /\ Len(t) \in Nat
  OBVIOUS
<1>2. t[Len(s) + 1] \in S
  BY <1>1, ElementOfSeq
<1>. QED BY <1>1, <1>2, AppendProperties DEF Begins

LEMMA BeginsAll ==
  ASSUME NEW S, NEW s \in Seq(S), NEW t \in Seq(S), Begins(s, t),
         Len(s) = Len(t)
  PROVE  s = t
BY SeqEqual DEF Begins

LEMMA BeginsNone ==
  ASSUME NEW S, NEW t \in Seq(S)
  PROVE  Begins(<<>>, t)
<1>1. Len(<<>>) = 0 /\ Len(t) \in Nat
  OBVIOUS
<1>. QED BY <1>1 DEF Begins

\* A cast leaves a number that fits as it is.
LEMMA SmallMod ==
  ASSUME NEW m \in Nat, NEW n \in Nat, n < m
  PROVE  n % m = n
OBVIOUS

LEMMA TableKept ==
  ASSUME NEW l \in Lengths
  PROVE  [k \in DOMAIN l |-> ToU32(l[k])] = l
<1>1. \A k \in DOMAIN l : ToU32(l[k]) = l[k]
  <2>. TAKE k \in DOMAIN l
  <2>1. l[k] \in 0 .. U32 - 1
    BY LenProperties, ElementOfSeq DEF Lengths
  <2>. QED BY <2>1, SmallMod, BatchAssumption DEF ToU32
<1>2. l = [k \in DOMAIN l |-> l[k]]
  BY LenProperties DEF Lengths
<1>. QED BY <1>1, <1>2
-----------------------------------------------------------------------------
(* The steps: first those that only end the way, then one lemma per stage. *)

LEMMA EndStep ==
  ASSUME TypeOK, End("rejected") \/ End("decrypt_failed")
  PROVE  IInv'
BY DEF End, IInv, TypeOK, Where, header, parsed, Outcomes

\* Bounds in the form the provers use.
LEMMA Widths ==
  /\ U16 \in Nat /\ U32 \in Nat /\ U64 \in Nat /\ kMaxPayload \in Nat
  /\ MAX_HTTP_BODY \in Nat /\ MaxSample \in Nat
  /\ U16 <= U32 /\ 12 + 7 * U32 <= U64
  /\ MAX_HTTP_BODY <= kMaxPayload /\ kMaxPayload < U32
BY BatchAssumption

LEMMA FrontHeaderStep ==
  ASSUME IInv, NEW a \in 0 .. U32 - 1, NEW u \in 0 .. U32 - 1,
         NEW count \in 0 .. U32 - 1, FrontHeader(a, u, count)
  PROVE  IInv'
<1>. USE Widths DEF IInv
<1>1. CASE End("rejected")
  BY <1>1, EndStep
<1>2. CASE ~End("rejected")
  <2>1. /\ 0 \notin {a, u, count}
        /\ HeaderBytes + count * 4 + a + u <= size
        /\ at = "front.header" /\ at' = "front.table"
        /\ adam_len' = a /\ uri_len' = u /\ sample_count' = count
        /\ UNCHANGED <<via, size, table, starts, parsed, asked>>
    <3>1. HeaderBytes \in Nat /\ size \in Nat
      BY DEF HeaderBytes, TypeOK
    <3>. QED BY <1>2, <3>1 DEF FrontHeader, TableBytes
  <2>2. lengths = <<>> /\ samples = <<>> /\ Fits(size) /\ Len(lengths) = 0
    BY <2>1 DEF Where
  <2>3. InFrontTable'
    <3>1. FixedEnd' = HeaderBytes + count * 4 + a + u
      BY <2>1 DEF FixedEnd, HeaderBytes, TableBytes
    <3>2. Fields'
      <4>1. via = "tcp" => a < U16 /\ u < U16
        BY <1>2 DEF FrontHeader, IdLengths
      <4>. QED BY <2>1, <2>2, <4>1 DEF Fields, ShortIds, parsed
    <3>3. Fits(size)'
      BY <2>1, <2>2 DEF Fits
    <3>. QED BY <2>1, <2>2, <3>1, <3>2, <3>3 DEF InFrontTable, parsed
  <2>4. TypeOK'
    BY <2>1 DEF TypeOK, parsed, FrontSteps
  <2>. QED BY <2>1, <2>3, <2>4 DEF Where
<1>. QED BY <1>1, <1>2

LEMMA FrontEntryStep ==
  ASSUME IInv, NEW n \in 0 .. U32 - 1, FrontEntry(n)
  PROVE  IInv'
<1>. USE Widths DEF IInv
<1>1. CASE End("rejected")
  BY <1>1, EndStep
<1>2. CASE ~End("rejected")
  <2>1. /\ n # 0 /\ at = "front.table" /\ at' = at
        /\ Len(lengths) < sample_count /\ lengths' = Append(lengths, n)
        /\ UNCHANGED <<via, size, adam_len, uri_len, sample_count, table,
                       starts, asked, offset, samples, sample_bytes>>
    BY <1>2 DEF FrontEntry, Goto, Read, More, header
  <2>2. InFrontTable /\ lengths \in Lengths
    BY <2>1 DEF Where, TypeOK
  <2>3. /\ lengths' \in Lengths /\ Len(lengths') = Len(lengths) + 1
        /\ \A k \in 1 .. Len(lengths) : lengths'[k] = lengths[k]
        /\ lengths'[Len(lengths) + 1] = n /\ Len(lengths) \in Nat
    BY <2>1, <2>2, AppendProperties DEF Lengths
  <2>4. InFrontTable'
    <3>1. FixedEnd' = FixedEnd /\ Fits(size)'
      BY <2>1, <2>2 DEF FixedEnd, HeaderBytes, Fits, InFrontTable
    <3>2. Fields'
      BY <2>1, <2>2, <2>3 DEF Fields, ShortIds, InFrontTable
    <3>3. sample_count \in Nat
      BY DEF TypeOK
    <3>. QED BY <2>1, <2>2, <2>3, <3>1, <3>2, <3>3 DEF InFrontTable
  <2>5. TypeOK'
    BY <2>1, <2>3 DEF TypeOK, FrontSteps
  <2>. QED BY <2>1, <2>4, <2>5 DEF Where
<1>. QED BY <1>1, <1>2

LEMMA FrontIdsStep ==
  ASSUME IInv, FrontIds
  PROVE  IInv'
<1>. USE Widths DEF IInv
<1>1. CASE End("rejected")
  BY <1>1, EndStep
<1>2. CASE ~End("rejected")
  <2>1. /\ at = "front.table" /\ at' = "front.cut"
        /\ ~(Len(lengths) < sample_count) /\ offset' = FixedEnd
        /\ UNCHANGED <<via, size, adam_len, uri_len, sample_count, table,
                       starts, asked, lengths, samples, sample_bytes>>
    BY <1>2 DEF FrontIds, Goto, More, header
  <2>2. InFrontTable /\ lengths \in Lengths /\ sample_count \in Nat
    BY <2>1 DEF Where, TypeOK
  <2>3. FixedEnd \in Nat /\ FixedEnd' = FixedEnd
    BY <2>1 DEF TypeOK, FixedEnd, HeaderBytes, TableBytes
  <2>4. InFrontCut'
    <3>1. Len(lengths) = sample_count
      BY <2>1, <2>2, LenProperties DEF InFrontTable, Lengths
    <3>2. Placed(samples', lengths', FixedEnd', offset')
      BY <2>1, <2>2, <2>3, PlacedStart DEF InFrontTable
    <3>3. Fields' /\ Fits(size)'
      BY <2>1, <2>2 DEF Fields, ShortIds, Fits, InFrontTable
    <3>. QED BY <2>1, <2>2, <2>3, <3>1, <3>2, <3>3 DEF InFrontCut, InFrontTable
  <2>5. TypeOK'
    BY <2>1, <2>3 DEF TypeOK, FrontSteps
  <2>. QED BY <2>1, <2>4, <2>5 DEF Where
<1>. QED BY <1>1, <1>2

LEMMA FrontCutStep ==
  ASSUME IInv, FrontCut
  PROVE  IInv'
<1>. USE Widths DEF IInv
<1>1. CASE End("rejected")
  BY <1>1, EndStep
<1>2. CASE ~End("rejected")
  <2>. DEFINE n == lengths[Len(samples) + 1]
  <2>1. /\ at = "front.cut" /\ at' = at
        /\ Len(samples) < sample_count /\ ~(offset + n > size)
        /\ samples' = Append(samples, offset) /\ offset' = offset + n
        /\ UNCHANGED <<via, size, adam_len, uri_len, sample_count, table,
                       starts, asked, lengths, sample_bytes>>
    BY <1>2 DEF FrontCut, Goto, Cut, More, Length, header
  <2>2. /\ InFrontCut /\ lengths \in Lengths /\ samples \in Seq(Nat)
        /\ offset \in Nat /\ size \in Nat
    BY <2>1 DEF Where, TypeOK
  <2>3. n \in Nat
    <3>1. Len(samples) + 1 \in 1 .. Len(lengths)
      BY <2>1, <2>2 DEF InFrontCut, Lengths
    <3>. QED BY <2>2, <3>1, EntryType
  <2>4. FixedEnd \in Nat /\ FixedEnd' = FixedEnd
    BY <2>1 DEF TypeOK, FixedEnd, HeaderBytes, TableBytes
  <2>5. InFrontCut'
    <3>1. Placed(samples', lengths', FixedEnd', offset')
      BY <2>1, <2>2, <2>4, PlacedMore DEF InFrontCut
    <3>2. Fields' /\ Fits(size)'
      BY <2>1, <2>2 DEF Fields, ShortIds, Fits, InFrontCut
    <3>. QED BY <2>1, <2>2, <2>3, <3>1, <3>2 DEF InFrontCut
  <2>6. samples' \in Seq(Nat) /\ offset' \in Nat
    BY <2>1, <2>2, <2>3, AppendProperties
  <2>7. TypeOK'
    BY <2>1, <2>6 DEF TypeOK, FrontSteps
  <2>. QED BY <2>1, <2>5, <2>7 DEF Where
<1>. QED BY <1>1, <1>2

LEMMA FrontEndStep ==
  ASSUME IInv, FrontEnd
  PROVE  IInv'
<1>. USE Widths DEF IInv
<1>1. CASE End("rejected")
  BY <1>1, EndStep
<1>2. CASE ~End("rejected")
  <2>1. /\ at = "front.cut" /\ at' = "encode" /\ offset = size
        /\ ~(Len(samples) < sample_count)
        /\ UNCHANGED <<via, size, adam_len, uri_len, sample_count, table,
                       starts, asked, lengths, sample_bytes, offset, samples>>
    BY <1>2 DEF FrontEnd, End, More, header, parsed
  <2>2. InFrontCut /\ sample_count \in Nat /\ samples \in Seq(Nat)
    BY <2>1 DEF Where, TypeOK
  <2>3. Len(samples) = sample_count
    BY <2>1, <2>2, LenProperties DEF InFrontCut, Placed
  <2>4. InEncode'
    BY <2>1, <2>2, <2>3 DEF InEncode, InFrontCut, Fields, ShortIds, Fits,
       FixedEnd, HeaderBytes
  <2>5. TypeOK'
    BY <2>1 DEF TypeOK
  <2>. QED BY <2>1, <2>4, <2>5 DEF Where
<1>. QED BY <1>1, <1>2

LEMMA FrontStep ==
  ASSUME IInv, Front
  PROVE  IInv'
<1>1. ASSUME NEW n \in 0 .. U32 - 1, ReceiveTcp(n) \/ ReceiveHttp(n)
      PROVE  IInv'
  <2>. USE DEF ReceiveTcp, ReceiveHttp, Receive
  <2>1. TypeOK'
    BY <1>1 DEF IInv, TypeOK, header, parsed, FrontSteps
  <2>2. Fits(size)'
    BY <1>1, Widths DEF Fits
  <2>. QED BY <1>1, <2>1, <2>2 DEF IInv, Where, parsed
<1>2. CASE FrontShort
  BY <1>2, EndStep DEF FrontShort, IInv
<1>. QED BY <1>1, <1>2, FrontHeaderStep, FrontEntryStep, FrontIdsStep,
            FrontCutStep, FrontEndStep DEF Front
-----------------------------------------------------------------------------

LEMMA EncodeStep ==
  ASSUME IInv, Encode
  PROVE  IInv'
<1>. USE Widths DEF IInv
<1>1. InEncode /\ at = "encode" /\ TypeOK
  BY DEF Encode, Where
<1>2. CASE IdTooLong
  <2>1. End("too_large")
    BY <1>2 DEF Encode
  <2>2. via = "http"
    BY <1>1, <1>2 DEF IdTooLong, InEncode, Fields, ShortIds, TypeOK
  <2>. QED BY <1>1, <1>2, <2>1, <2>2
           DEF End, Where, TypeOK, header, parsed, Outcomes, IdTooLong
<1>3. CASE ~IdTooLong
  <2>1. adam_len < U16 /\ uri_len < U16 /\ sample_count # 0
        /\ adam_len \in Nat /\ uri_len \in Nat /\ sample_count \in 0 .. U32 - 1
    BY <1>1, <1>3 DEF IdTooLong, InEncode, Fields, TypeOK
  <2>2. /\ adam_len % U16 = adam_len /\ uri_len % U16 = uri_len
        /\ ToU32(sample_count) = sample_count
    BY <2>1, SmallMod DEF ToU32
  <2>3. [k \in DOMAIN lengths |-> ToU32(lengths[k])] = lengths
    BY <1>1, TableKept DEF TypeOK
  <2>4. /\ at' = "encode.samples"
        /\ size' = 8 + 4 * sample_count + adam_len + uri_len
        /\ table' = lengths /\ starts' = <<>> /\ asked' = lengths
        /\ UNCHANGED <<via, adam_len, uri_len, sample_count, lengths,
                       sample_bytes, offset, samples>>
    <3>1. ~( \/ IdTooLong \/ sample_count = 0
             \/ \E k \in DOMAIN lengths : lengths[k] = 0 )
      <4>1. DOMAIN lengths = 1 .. Len(lengths)
        BY <1>1, LenProperties DEF TypeOK, Lengths
      <4>. QED BY <1>1, <1>3, <2>1, <4>1 DEF InEncode, Fields
    <3>2. /\ at' = "encode.samples"
          /\ size' = 8 + 4 * sample_count + adam_len + uri_len
          /\ adam_len' = adam_len % U16 /\ uri_len' = uri_len % U16
          /\ sample_count' = ToU32(sample_count)
          /\ table' = [k \in DOMAIN lengths |-> ToU32(lengths[k])]
          /\ starts' = <<>> /\ asked' = lengths
          /\ UNCHANGED <<via, lengths, sample_bytes, offset, samples>>
      BY <2>1, <3>1 DEF Encode, parsed, TableBytes
    <3>. QED BY <3>2, <2>2, <2>3
  <2>5. RequestBase \in Nat /\ RequestBase' = RequestBase
        /\ size' = RequestBase
    BY <2>1, <2>4 DEF RequestBase
  <2>6. FixedEnd = size' + HeaderBytes - 8 /\ FixedEnd' = FixedEnd
        /\ HeaderBytes' = HeaderBytes /\ HeaderBytes \in {8, 12}
    BY <2>1, <2>4 DEF FixedEnd, HeaderBytes, TableBytes
  <2>7. FixedEnd = After(samples, offset, 0) /\ FixedEnd <= offset
    <3>1. Len(samples) \in Nat
      BY <1>1 DEF TypeOK
    <3>. QED BY <1>1, <3>1 DEF InEncode, Placed
  <2>8. InEncode'
    BY <1>1, <2>4, <2>6 DEF InEncode, Fields, ShortIds, Fits
  <2>9. InEncodeSamples'
    <3>1. Placed(starts', lengths', RequestBase', size')
      BY <1>1, <2>4, <2>5, PlacedStart DEF TypeOK
    <3>2. Len(starts') = 0 /\ After(samples', offset', 0) = FixedEnd
      BY <2>4, <2>7
    <3>3. size' + HeaderBytes' - 8 = After(samples', offset', Len(starts'))
      BY <2>6, <3>2
    <3>. QED BY <2>1, <2>4, <2>8, <3>1, <3>3 DEF InEncodeSamples, ShortIds
  <2>10. size' \in 0 .. U32 - 1
    BY <1>1, <2>5, <2>6, <2>7 DEF InEncode, Fits, TypeOK
  <2>11. TypeOK'
    BY <1>1, <2>4, <2>10 DEF TypeOK
  <2>. QED BY <2>4, <2>9, <2>11 DEF Where
<1>. QED BY <1>2, <1>3

\* A turn of a builder: its chain goes on as the parser's does.
LEMMA BuildStep ==
  ASSUME lengths \in Lengths, samples \in Seq(Nat), starts \in Seq(Nat),
         size \in Nat, offset \in Nat, sample_count = Len(lengths),
         Len(samples) = Len(lengths),
         NEW first \in Nat, NEW from \in Nat, NEW gap \in Nat,
         Placed(samples, lengths, from, offset),
         Placed(starts, lengths, first, size),
         size + gap = After(samples, offset, Len(starts)),
         Build
  PROVE  /\ UNCHANGED <<at, via, adam_len, uri_len, sample_count, table,
                        lengths, sample_bytes, offset, samples, asked>>
         /\ starts' \in Seq(Nat) /\ size' \in Nat
         /\ Placed(starts', lengths, first, size')
         /\ size' + gap = After(samples, offset, Len(starts'))
         /\ size' + gap <= offset
<1>. DEFINE n == lengths[Len(starts) + 1]
<1>1. /\ Len(starts) < Len(lengths)
      /\ starts' = Append(starts, size) /\ size' = size + n
      /\ UNCHANGED <<at, via, adam_len, uri_len, sample_count, table,
                     lengths, sample_bytes, offset, samples, asked>>
  BY DEF Build, More, Length, header, parsed
<1>2. Len(starts) \in Nat /\ Len(starts) + 1 \in 1 .. Len(lengths)
  BY <1>1 DEF Lengths
<1>3. n \in Nat
  BY <1>2, EntryType
<1>4. starts' \in Seq(Nat) /\ Len(starts') = Len(starts) + 1
  BY <1>1, AppendProperties
<1>5. Placed(starts', lengths, first, size')
  BY <1>1, PlacedMore
<1>6. /\ After(samples, offset, Len(starts) + 1)
           = After(samples, offset, Len(starts)) + n
      /\ After(samples, offset, Len(starts) + 1) <= offset
  BY <1>1, <1>2, PlacedNext
<1>. HIDE DEF n
<1>7. After(samples, offset, Len(starts')) = size + gap + n
  BY <1>3, <1>4, <1>6
<1>8. size' + gap = size + gap + n /\ size' \in Nat
  BY <1>1, <1>3
<1>9. After(samples, offset, Len(starts')) <= offset
  BY <1>4, <1>6
<1>. QED BY <1>1, <1>4, <1>5, <1>7, <1>8, <1>9

LEMMA EncodeSampleStep ==
  ASSUME IInv, EncodeSample
  PROVE  IInv'
<1>. USE Widths DEF IInv
<1>1. InEncodeSamples /\ at = "encode.samples" /\ Build
      /\ TypeOK
  BY DEF EncodeSample, Where
<1>2. HeaderBytes - 8 \in Nat /\ RequestBase \in Nat /\ FixedEnd \in Nat
  BY <1>1 DEF TypeOK, HeaderBytes, RequestBase, FixedEnd, TableBytes
<1>3. /\ UNCHANGED <<at, via, adam_len, uri_len, sample_count, table,
                     lengths, sample_bytes, offset, samples, asked>>
      /\ starts' \in Seq(Nat) /\ size' \in Nat
      /\ Placed(starts', lengths, RequestBase, size')
      /\ size' + (HeaderBytes - 8) = After(samples, offset, Len(starts'))
      /\ size' + (HeaderBytes - 8) <= offset
  <2>1. size + (HeaderBytes - 8) = After(samples, offset, Len(starts))
    BY <1>1, <1>2 DEF InEncodeSamples, TypeOK, HeaderBytes
  <2>. QED BY <1>1, <1>2, <2>1, BuildStep DEF InEncodeSamples, InEncode, TypeOK
<1>4. HeaderBytes' = HeaderBytes /\ RequestBase' = RequestBase
      /\ FixedEnd' = FixedEnd
  BY <1>3 DEF HeaderBytes, RequestBase, FixedEnd, TableBytes
<1>5. InEncodeSamples'
  <2>1. InEncode' /\ ShortIds' /\ asked' = lengths' /\ table' = lengths'
    BY <1>1, <1>3, <1>4 DEF InEncodeSamples, InEncode, Fields, ShortIds, Fits
  <2>2. size' + HeaderBytes' - 8 = After(samples', offset', Len(starts'))
    BY <1>3, <1>4 DEF HeaderBytes
  <2>. QED BY <1>3, <1>4, <2>1, <2>2 DEF InEncodeSamples
<1>6. size' \in 0 .. U32 - 1
  BY <1>1, <1>2, <1>3 DEF InEncodeSamples, InEncode, Fits, TypeOK
<1>7. TypeOK'
  BY <1>1, <1>3, <1>6 DEF TypeOK
<1>. QED BY <1>1, <1>3, <1>5, <1>7 DEF Where

LEMMA SendStep ==
  ASSUME IInv, Send
  PROVE  IInv'
<1>. USE Widths DEF IInv
<1>1. InEncodeSamples /\ at = "encode.samples" /\ TypeOK /\ starts \in Seq(Nat)
      /\ size \in 0 .. U32 - 1 /\ sample_count \in Nat /\ offset \in Nat
      /\ ~(Len(starts) < sample_count)
  BY DEF Send, Where, TypeOK, More
<1>2. at' = "frame"
      /\ UNCHANGED <<via, size, adam_len, uri_len, sample_count, table,
                     starts, lengths, sample_bytes, offset, samples, asked>>
  BY <1>1 DEF Send, End, header, parsed
<1>3. Len(starts) = sample_count
  BY <1>1, LenProperties DEF InEncodeSamples, InEncode, Placed
<1>4. size <= offset
  BY <1>1, <1>3 DEF InEncodeSamples, InEncode, After, HeaderBytes
<1>5. InFrame'
  <2>1. Fits(size)'
    BY <1>1, <1>2, <1>4 DEF InEncodeSamples, InEncode, Fits
  <2>2. Request'
    BY <1>1, <1>2, <1>3
       DEF Request, InEncodeSamples, InEncode, Fields, RequestBase
  <2>. QED BY <2>1, <2>2 DEF InFrame
<1>6. TypeOK'
  BY <1>1, <1>2 DEF TypeOK
<1>. QED BY <1>2, <1>5, <1>6 DEF Where

LEMMA ReadFrameStep ==
  ASSUME IInv, ReadFrame
  PROVE  IInv'
<1>. USE Widths DEF IInv
<1>1. InFrame /\ at = "frame" /\ TypeOK
  BY DEF ReadFrame, Where
<1>2. CASE size > kMaxPayload
  <2>1. via = "tcp"
    BY <1>1, <1>2 DEF InFrame, Fits, TypeOK
  <2>. QED BY <1>1, <1>2, <2>1
           DEF ReadFrame, End, Where, TypeOK, header, parsed, Outcomes
<1>3. CASE ~(size > kMaxPayload)
  <2>1. /\ at' = "worker.header" /\ lengths' = <<>> /\ samples' = <<>>
        /\ UNCHANGED <<via, size, adam_len, uri_len, sample_count, table,
                       starts, asked, sample_bytes, offset>>
    BY <1>3 DEF ReadFrame, Parsing, Goto, header
  <2>2. InWorkerHeader'
    BY <1>1, <1>3, <2>1
       DEF InWorkerHeader, InFrame, Request, RequestBase, TypeOK
  <2>3. lengths' \in Lengths /\ samples' \in Seq(Nat)
    BY <2>1, EmptySeq DEF Lengths
  <2>4. TypeOK'
    BY <1>1, <2>1, <2>3 DEF TypeOK, WorkerSteps
  <2>. QED BY <2>1, <2>2, <2>4 DEF Where
<1>. QED BY <1>2, <1>3

LEMMA SupervisorStep ==
  ASSUME IInv, Supervisor
  PROVE  IInv'
BY EncodeStep, EncodeSampleStep, SendStep, ReadFrameStep DEF Supervisor
-----------------------------------------------------------------------------

\* The sums of the worker do not wrap.
LEMMA RequestSize ==
  ASSUME TypeOK, Request
  PROVE  /\ RequestBase \in Nat /\ RequestBase <= size
         /\ RequestBase = After(starts, size, 0)
         /\ WorkerFixed = RequestBase /\ size < U64
<1>. USE Widths
<1>1. adam_len \in Nat /\ uri_len \in Nat /\ sample_count \in Nat
      /\ size \in 0 .. U32 - 1 /\ starts \in Seq(Nat)
  BY DEF TypeOK
<1>2. RequestBase = After(starts, size, 0) /\ RequestBase <= size
  <2>1. 0 \in 0 .. Len(starts)
    BY <1>1
  <2>. QED BY <2>1 DEF Request, Placed
<1>3. RequestBase \in Nat /\ RequestBase < U64 /\ 4 * sample_count < U64
      /\ 4 * sample_count \in Nat
  BY <1>1, <1>2 DEF RequestBase
<1>4. TableBytes(sample_count) % U64 = 4 * sample_count
  <2>. DEFINE bytes == TableBytes(sample_count)
  <2>1. bytes = 4 * sample_count /\ bytes \in Nat /\ bytes < U64
    BY <1>1, <1>3 DEF TableBytes
  <2>. HIDE DEF bytes
  <2>2. bytes % U64 = bytes
    BY <2>1, SmallMod
  <2>. QED BY <2>1, <2>2 DEF bytes
<1>5. WorkerFixed = RequestBase % U64
  BY <1>4 DEF WorkerFixed, RequestBase
<1>6. WorkerFixed = RequestBase
  BY <1>3, <1>5, SmallMod
<1>. QED BY <1>1, <1>2, <1>3, <1>6

LEMMA WorkerHeaderStep ==
  ASSUME IInv, WorkerHeader
  PROVE  IInv'
<1>. USE Widths DEF IInv
<1>1. InWorkerHeader /\ at = "worker.header" /\ TypeOK
  BY DEF WorkerHeader, Where
<1>2. RequestBase \in Nat /\ RequestBase <= size
      /\ RequestBase = After(starts, size, 0) /\ WorkerFixed = RequestBase
  BY <1>1, RequestSize DEF InWorkerHeader
<1>3. ~(size < 8 \/ 0 \in {adam_len, uri_len, sample_count}
          \/ WorkerFixed > size)
  BY <1>1, <1>2 DEF InWorkerHeader, Request, TypeOK, RequestBase
<1>4. /\ at' = "worker.table" /\ sample_bytes' = 0
      /\ UNCHANGED <<via, size, adam_len, uri_len, sample_count, table,
                     starts, asked, lengths, offset, samples>>
  BY <1>3 DEF WorkerHeader, Goto, header
<1>5. Request' /\ RequestBase' = RequestBase
  BY <1>1, <1>4 DEF InWorkerHeader, Request, RequestBase
<1>6. Begins(lengths', table')
  BY <1>1, <1>4, BeginsNone DEF InWorkerHeader, TypeOK, Lengths
<1>7. Len(lengths') = 0
  BY <1>1, <1>4, EmptySeq DEF InWorkerHeader
<1>8. InWorkerTable'
  BY <1>1, <1>2, <1>4, <1>5, <1>6, <1>7 DEF InWorkerTable, InWorkerHeader
<1>9. TypeOK'
  BY <1>1, <1>4 DEF TypeOK, WorkerSteps
<1>. QED BY <1>4, <1>8, <1>9 DEF Where

LEMMA WorkerEntryStep ==
  ASSUME IInv, WorkerEntry
  PROVE  IInv'
<1>. USE Widths DEF IInv
<1>. DEFINE n == table[Len(lengths) + 1]
<1>1. InWorkerTable /\ at = "worker.table" /\ TypeOK
      /\ Len(lengths) < sample_count
  BY DEF WorkerEntry, Where, More
<1>2. /\ lengths \in Lengths /\ table \in Lengths /\ starts \in Seq(Nat)
      /\ size \in Nat /\ sample_bytes \in Nat /\ sample_count \in Nat
      /\ Len(lengths) \in Nat
  BY <1>1, LenProperties DEF TypeOK, Lengths
<1>3. RequestBase \in Nat /\ RequestBase <= size /\ size < U64
  BY <1>1, RequestSize DEF InWorkerTable
<1>4. /\ Begins(Append(lengths, n), table)
      /\ Len(Append(lengths, n)) = Len(lengths) + 1
      /\ Append(lengths, n) \in Lengths
      /\ n \in Nat /\ n # 0
  <2>1. Len(lengths) + 1 \in 1 .. Len(table)
    BY <1>1, <1>2 DEF InWorkerTable, Request
  <2>2. n \in 0 .. U32 - 1 /\ n # 0 /\ n \in Nat
    BY <1>1, <1>2, <2>1, EntryType DEF InWorkerTable, Request
  <2>. QED BY <1>1, <1>2, <2>1, <2>2, BeginsMore, AppendProperties
           DEF InWorkerTable, Request, Lengths
<1>5. /\ After(starts, size, Len(lengths) + 1)
           = After(starts, size, Len(lengths)) + n
      /\ After(starts, size, Len(lengths) + 1) <= size
      /\ After(starts, size, Len(lengths) + 1) \in Nat
  BY <1>1, <1>2, <1>3, PlacedNext DEF InWorkerTable, Request
<1>. HIDE DEF n
<1>6. RequestBase + sample_bytes + n = After(starts, size, Len(lengths) + 1)
  BY <1>1, <1>2, <1>4, <1>5 DEF InWorkerTable
<1>7. sample_bytes + n <= kMaxPayload /\ sample_bytes + n < U64
  BY <1>1, <1>2, <1>3, <1>4, <1>5, <1>6 DEF InWorkerTable
<1>8. (sample_bytes + n) % U64 = sample_bytes + n
  <2>. DEFINE total == sample_bytes + n
  <2>1. total \in Nat /\ total < U64
    BY <1>2, <1>4, <1>7
  <2>. HIDE DEF total
  <2>2. total % U64 = total
    BY <2>1, SmallMod
  <2>. QED BY <2>2 DEF total
<1>9. /\ at' = "worker.table" /\ lengths' = Append(lengths, n)
      /\ sample_bytes' = sample_bytes + n
      /\ UNCHANGED <<via, size, adam_len, uri_len, sample_count, table,
                     starts, asked, offset, samples>>
  BY <1>1, <1>2, <1>4, <1>7, <1>8 DEF WorkerEntry, Entry, Goto, Read, header, n
<1>10. InWorkerTable'
  <2>1. Request' /\ RequestBase' = RequestBase
    BY <1>1, <1>9 DEF InWorkerTable, Request, RequestBase
  <2>2. RequestBase + sample_bytes' = After(starts, size, Len(lengths'))
    BY <1>2, <1>3, <1>4, <1>6, <1>9
  <2>. QED BY <1>1, <1>4, <1>9, <2>1, <2>2 DEF InWorkerTable
<1>11. TypeOK'
  BY <1>1, <1>2, <1>4, <1>9 DEF TypeOK
<1>. QED BY <1>9, <1>10, <1>11 DEF Where

LEMMA WorkerSumStep ==
  ASSUME IInv, WorkerSum
  PROVE  IInv'
<1>. USE Widths DEF IInv
<1>1. InWorkerTable /\ at = "worker.table" /\ TypeOK
      /\ ~(Len(lengths) < sample_count)
  BY DEF WorkerSum, Where, More
<1>2. /\ lengths \in Lengths /\ table \in Lengths /\ starts \in Seq(Nat)
      /\ size \in Nat /\ sample_bytes \in Nat /\ sample_count \in Nat
  BY <1>1 DEF TypeOK
<1>3. RequestBase \in Nat /\ WorkerFixed = RequestBase /\ size < U64
      /\ RequestBase = After(starts, size, 0)
  BY <1>1, RequestSize DEF InWorkerTable
<1>4. Len(lengths) = sample_count /\ lengths = table
  <2>1. Len(lengths) = sample_count
    BY <1>1, <1>2, LenProperties DEF InWorkerTable, Request, Begins, Lengths
  <2>. QED BY <1>1, <1>2, <2>1, BeginsAll DEF InWorkerTable, Request, Lengths
<1>5. RequestBase + sample_bytes = size
  BY <1>1, <1>4 DEF InWorkerTable, Request, After
<1>6. (WorkerFixed + sample_bytes) % U64 = size
  BY <1>2, <1>3, <1>5, SmallMod
<1>7. /\ at' = "worker.cut" /\ offset' = RequestBase
      /\ UNCHANGED <<via, size, adam_len, uri_len, sample_count, table,
                     starts, asked, lengths, sample_bytes, samples>>
  BY <1>1, <1>3, <1>6 DEF WorkerSum, Goto, header
<1>8. InWorkerCut'
  <2>1. Request'
    BY <1>1, <1>7 DEF InWorkerTable, Request, RequestBase
  <2>2. Begins(samples', starts') /\ Len(samples') = 0
    BY <1>1, <1>2, <1>7, BeginsNone, EmptySeq DEF InWorkerTable
  <2>. QED BY <1>1, <1>3, <1>4, <1>7, <2>1, <2>2
           DEF InWorkerCut, InWorkerTable
<1>9. TypeOK'
  BY <1>1, <1>3, <1>7 DEF TypeOK, WorkerSteps
<1>. QED BY <1>7, <1>8, <1>9 DEF Where

\* A turn of a parser that cuts the samples of a builder's chain.
LEMMA CutNext ==
  ASSUME lengths \in Lengths, samples \in Seq(Nat), starts \in Seq(Nat),
         size \in Nat, Len(starts) = Len(lengths),
         NEW first \in Nat, Placed(starts, lengths, first, size),
         Begins(samples, starts),
         offset = After(starts, size, Len(samples)),
         Len(samples) < Len(lengths)
  PROVE  LET n == lengths[Len(samples) + 1]
         IN  /\ offset + n <= size /\ offset + n \in Nat /\ offset \in Nat
             /\ Append(samples, offset) \in Seq(Nat)
             /\ Begins(Append(samples, offset), starts)
             /\ offset + n = After(starts, size, Len(Append(samples, offset)))
<1>. DEFINE n == lengths[Len(samples) + 1]
<1>1. Len(samples) \in Nat
  OBVIOUS
<1>2. /\ After(starts, size, Len(samples) + 1) = offset + n
      /\ After(starts, size, Len(samples) + 1) <= size
      /\ After(starts, size, Len(samples) + 1) \in Nat
      /\ offset = starts[Len(samples) + 1] /\ offset \in Nat
  BY <1>1, PlacedNext
<1>3. /\ Begins(Append(samples, offset), starts)
      /\ Len(Append(samples, offset)) = Len(samples) + 1
  BY <1>2, BeginsMore
<1>4. Append(samples, offset) \in Seq(Nat)
  BY <1>2, AppendProperties
<1>. QED BY <1>2, <1>3, <1>4

LEMMA WorkerCutStep ==
  ASSUME IInv, WorkerCut
  PROVE  IInv'
<1>. USE Widths DEF IInv
<1>1. InWorkerCut /\ at = "worker.cut" /\ TypeOK
      /\ Len(samples) < sample_count
  BY DEF WorkerCut, Where, More
<1>2. /\ at' = "worker.cut" /\ samples' = Append(samples, offset)
      /\ offset' = offset + lengths[Len(samples) + 1]
      /\ UNCHANGED <<via, size, adam_len, uri_len, sample_count, table,
                     starts, asked, lengths, sample_bytes>>
  BY DEF WorkerCut, Goto, Cut, Length, header
<1>3. RequestBase \in Nat
  BY <1>1, RequestSize DEF InWorkerCut
<1>4. /\ samples' \in Seq(Nat) /\ offset' \in Nat
      /\ Begins(samples', starts)
      /\ offset' = After(starts, size, Len(samples'))
  BY <1>1, <1>2, <1>3, CutNext DEF InWorkerCut, Request, TypeOK
<1>5. InWorkerCut'
  <2>1. Request'
    BY <1>1, <1>2 DEF InWorkerCut, Request, RequestBase
  <2>. QED BY <1>1, <1>2, <1>4, <2>1 DEF InWorkerCut
<1>6. TypeOK'
  BY <1>1, <1>2, <1>4 DEF TypeOK
<1>. QED BY <1>2, <1>5, <1>6 DEF Where

LEMMA WorkerAnswerStep ==
  ASSUME IInv, WorkerAnswer
  PROVE  IInv'
<1>. USE Widths DEF IInv
<1>1. CASE End("decrypt_failed")
  BY <1>1, EndStep
<1>2. CASE ~End("decrypt_failed")
  <2>1. InWorkerCut /\ at = "worker.cut" /\ TypeOK
        /\ ~(Len(samples) < sample_count)
    BY DEF WorkerAnswer, Where, More
  <2>2. /\ lengths \in Lengths /\ samples \in Seq(Nat) /\ starts \in Seq(Nat)
        /\ sample_count \in 0 .. U32 - 1 /\ adam_len \in Nat
        /\ uri_len \in Nat /\ size \in Nat
    BY <2>1 DEF TypeOK
  <2>3. Len(samples) = sample_count /\ samples = starts
    <3>1. Len(samples) = sample_count
      BY <2>1, <2>2, LenProperties DEF InWorkerCut, Request, Begins
    <3>. QED BY <2>1, <2>2, <3>1, BeginsAll DEF InWorkerCut, Request
  <2>4. offset = size /\ Placed(samples, lengths, RequestBase, offset)
    BY <2>1, <2>3 DEF InWorkerCut, Request, After
  <2>5. RequestBase \in Nat /\ RequestBase <= size
    BY <2>1, RequestSize DEF InWorkerCut
  <2>6. /\ [k \in DOMAIN lengths |-> ToU32(lengths[k])] = lengths
        /\ ToU32(Len(samples)) = sample_count
    <3>1. sample_count \in Nat /\ sample_count < U32
      BY <2>2
    <3>. QED BY <2>2, <2>3, <3>1, TableKept, SmallMod DEF ToU32
  <2>7. /\ at' = "answer" /\ size' = 4 + 4 * sample_count
        /\ table' = lengths /\ starts' = <<>>
        /\ UNCHANGED <<via, adam_len, uri_len, sample_count, lengths,
                       sample_bytes, offset, samples, asked>>
    <3>1. /\ at' = "answer" /\ size' = 4 + 4 * Len(samples)
          /\ sample_count' = ToU32(Len(samples))
          /\ table' = [k \in DOMAIN lengths |-> ToU32(lengths[k])]
          /\ starts' = <<>>
          /\ UNCHANGED <<via, adam_len, uri_len, lengths, sample_bytes,
                         offset, samples, asked>>
      BY <1>2 DEF WorkerAnswer, parsed
    <3>. QED BY <3>1, <2>3, <2>6
  <2>8. AnswerBase \in Nat /\ size' = AnswerBase /\ AnswerBase' = AnswerBase
        /\ RequestBase' = RequestBase
        /\ RequestBase = AnswerBase + 4 + adam_len + uri_len
    BY <2>2, <2>7 DEF AnswerBase, RequestBase
  <2>9. InAnswer'
    <3>1. Placed(starts', lengths', AnswerBase', size')
      BY <2>2, <2>7, <2>8, PlacedStart
    <3>2. Len(starts') = 0 /\ After(samples', offset', 0) = RequestBase
      BY <2>1, <2>3, <2>4, <2>7, RequestSize DEF InWorkerCut
    <3>3. size' + 4 + adam_len' + uri_len'
             = After(samples', offset', Len(starts'))
      BY <2>7, <2>8, <3>2
    <3>. QED BY <2>1, <2>2, <2>3, <2>4, <2>7, <2>8, <3>1, <3>3
             DEF InAnswer, InWorkerCut, Request
  <2>10. size' \in 0 .. U32 - 1
    BY <2>1, <2>2, <2>5, <2>8 DEF InWorkerCut
  <2>11. TypeOK'
    BY <2>1, <2>2, <2>7, <2>10 DEF TypeOK
  <2>. QED BY <2>7, <2>9, <2>11 DEF Where
<1>. QED BY <1>1, <1>2

\* What fits with a gap behind it fits without (the prover needs it stated).
LEMMA Shorter ==
  ASSUME NEW n \in Nat, NEW gap \in Nat, NEW end \in Nat, n + gap <= end
  PROVE  n <= end
OBVIOUS

LEMMA AnswerSampleStep ==
  ASSUME IInv, AnswerSample
  PROVE  IInv'
<1>. USE Widths DEF IInv
<1>1. InAnswer /\ at = "answer" /\ Build /\ TypeOK
  BY DEF AnswerSample, Where
<1>2. PICK gap \in Nat : gap = 4 + adam_len + uri_len
  BY <1>1 DEF TypeOK
<1>3. RequestBase \in Nat /\ AnswerBase \in Nat
       /\ size + gap = After(samples, offset, Len(starts))
  BY <1>1, <1>2 DEF TypeOK, InAnswer, RequestBase, AnswerBase
<1>4. /\ UNCHANGED <<at, via, adam_len, uri_len, sample_count, table,
                     lengths, sample_bytes, offset, samples, asked>>
      /\ starts' \in Seq(Nat) /\ size' \in Nat
      /\ Placed(starts', lengths, AnswerBase, size')
      /\ size' + gap = After(samples, offset, Len(starts'))
      /\ size' + gap <= offset
  BY <1>1, <1>2, <1>3, BuildStep DEF InAnswer, TypeOK
<1>5. InAnswer'
  <2>1. RequestBase' = RequestBase /\ AnswerBase' = AnswerBase
    BY <1>4 DEF RequestBase, AnswerBase
  <2>2. size' + 4 + adam_len' + uri_len'
           = After(samples', offset', Len(starts'))
    BY <1>1, <1>2, <1>4 DEF TypeOK
  <2>. QED BY <1>1, <1>4, <2>1, <2>2 DEF InAnswer
<1>6. size' \in 0 .. U32 - 1
  <2>1. offset \in Nat /\ offset <= kMaxPayload
    BY <1>1 DEF InAnswer, TypeOK
  <2>2. kMaxPayload < U32 /\ kMaxPayload \in Nat /\ U32 \in Nat
    OBVIOUS
  <2>3. size' \in Nat /\ size' + gap <= offset
    BY <1>2, <1>4
  <2>4. size' <= offset
    BY <2>1, <2>3, Shorter
  <2>. QED BY <2>1, <2>2, <2>3, <2>4
<1>7. TypeOK'
  BY <1>1, <1>4, <1>6 DEF TypeOK
<1>. QED BY <1>1, <1>4, <1>5, <1>7 DEF Where

LEMMA WriteAnswerStep ==
  ASSUME IInv, WriteAnswer
  PROVE  IInv'
<1>. USE Widths DEF IInv
<1>1. InAnswer /\ at = "answer" /\ TypeOK /\ ~(Len(starts) < sample_count)
  BY DEF WriteAnswer, Where, More
<1>2. size \in 0 .. U32 - 1 /\ starts \in Seq(Nat) /\ sample_count \in Nat
  BY <1>1 DEF TypeOK
<1>3. ToU32(size) = size
  BY <1>2, SmallMod DEF ToU32
<1>4. /\ at' = "reply.header" /\ lengths' = <<>> /\ samples' = <<>>
      /\ UNCHANGED <<via, size, adam_len, uri_len, sample_count, table,
                     starts, asked, sample_bytes, offset>>
  BY <1>3 DEF WriteAnswer, header
<1>5. Len(starts) = sample_count
  BY <1>1, <1>2, LenProperties DEF InAnswer, Placed
<1>6. InReplyHeader'
  BY <1>1, <1>4, <1>5 DEF InReplyHeader, Answer, InAnswer, AnswerBase
<1>7. lengths' \in Lengths /\ samples' \in Seq(Nat)
  BY <1>4, EmptySeq DEF Lengths
<1>8. TypeOK'
  BY <1>1, <1>4, <1>7 DEF TypeOK, ReplySteps
<1>. QED BY <1>4, <1>6, <1>8 DEF Where

LEMMA WorkerStep ==
  ASSUME IInv, Worker
  PROVE  IInv'
BY WorkerHeaderStep, WorkerEntryStep, WorkerSumStep, WorkerCutStep,
   WorkerAnswerStep, AnswerSampleStep, WriteAnswerStep DEF Worker
-----------------------------------------------------------------------------

LEMMA AnswerSize ==
  ASSUME TypeOK, Answer
  PROVE  /\ AnswerBase \in Nat /\ AnswerBase <= size
         /\ AnswerBase = After(starts, size, 0)
<1>1. sample_count \in Nat /\ starts \in Seq(Nat)
  BY BatchAssumption DEF TypeOK
<1>2. 0 \in 0 .. Len(starts)
  BY <1>1
<1>. QED BY <1>1, <1>2 DEF Answer, Placed, AnswerBase

LEMMA ReplyHeaderStep ==
  ASSUME IInv, ReplyHeader
  PROVE  IInv'
<1>. USE Widths DEF IInv
<1>1. InReplyHeader /\ at = "reply.header" /\ TypeOK
  BY DEF ReplyHeader, Where
<1>2. ~(size < 4 \/ size < 4 + TableBytes(sample_count))
  BY <1>1, AnswerSize DEF InReplyHeader, AnswerBase, TableBytes, TypeOK
<1>3. /\ at' = "reply.table"
      /\ UNCHANGED <<via, size, adam_len, uri_len, sample_count, table,
                     starts, asked, lengths, sample_bytes, offset, samples>>
  BY <1>2 DEF ReplyHeader, End, header, parsed
<1>4. Begins(lengths', table')
  BY <1>1, <1>3, BeginsNone DEF InReplyHeader, TypeOK, Lengths
<1>5. InReplyTable'
  BY <1>1, <1>3, <1>4 DEF InReplyTable, InReplyHeader, Answer, AnswerBase
<1>6. TypeOK'
  BY <1>1, <1>3 DEF TypeOK, ReplySteps
<1>. QED BY <1>3, <1>5, <1>6 DEF Where

LEMMA ReplyEntryStep ==
  ASSUME IInv, ReplyEntry
  PROVE  IInv'
<1>. USE Widths DEF IInv
<1>. DEFINE n == table[Len(lengths) + 1]
<1>1. InReplyTable /\ at = "reply.table" /\ TypeOK
      /\ Len(lengths) < sample_count
  BY DEF ReplyEntry, Where, More
<1>2. /\ at' = at /\ lengths' = Append(lengths, n)
      /\ UNCHANGED <<via, size, adam_len, uri_len, sample_count, table,
                     starts, asked, sample_bytes, offset, samples>>
  BY DEF ReplyEntry, Goto, Read, Entry, header
<1>3. Begins(lengths', table) /\ lengths' \in Lengths
  BY <1>1, <1>2, BeginsMore, AppendProperties
     DEF InReplyTable, Answer, TypeOK, Lengths
<1>4. InReplyTable'
  BY <1>1, <1>2, <1>3 DEF InReplyTable, Answer, AnswerBase
<1>5. TypeOK'
  BY <1>1, <1>2, <1>3 DEF TypeOK
<1>. QED BY <1>1, <1>2, <1>4, <1>5 DEF Where

LEMMA ReplyTableStep ==
  ASSUME IInv, ReplyTable
  PROVE  IInv'
<1>. USE Widths DEF IInv
<1>1. InReplyTable /\ at = "reply.table" /\ TypeOK
      /\ ~(Len(lengths) < sample_count)
  BY DEF ReplyTable, Where, More
<1>2. /\ at' = "reply.cut" /\ offset' = AnswerBase
      /\ UNCHANGED <<via, size, adam_len, uri_len, sample_count, table,
                     starts, asked, lengths, sample_bytes, samples>>
  BY <1>1 DEF ReplyTable, Goto, header, AnswerBase, TableBytes, TypeOK
<1>3. /\ lengths \in Lengths /\ table \in Lengths /\ starts \in Seq(Nat)
      /\ sample_count \in Nat
  BY <1>1 DEF TypeOK
<1>4. lengths = table
  <2>1. Len(lengths) = sample_count
    BY <1>1, <1>3, LenProperties DEF InReplyTable, Answer, Begins, Lengths
  <2>. QED BY <1>1, <1>3, <2>1, BeginsAll DEF InReplyTable, Answer, Lengths
<1>5. /\ AnswerBase \in Nat /\ AnswerBase = After(starts, size, 0)
  BY <1>1, AnswerSize DEF InReplyTable
<1>6. Begins(samples', starts') /\ Len(samples') = 0
  BY <1>1, <1>2, <1>3, BeginsNone, EmptySeq DEF InReplyTable
<1>7. InReplyCut'
  BY <1>1, <1>2, <1>4, <1>5, <1>6
     DEF InReplyCut, InReplyTable, Answer, AnswerBase
<1>8. TypeOK'
  BY <1>1, <1>2, <1>5 DEF TypeOK, ReplySteps
<1>. QED BY <1>2, <1>7, <1>8 DEF Where

LEMMA ReplyCutStep ==
  ASSUME IInv, ReplyCut
  PROVE  IInv'
<1>. USE Widths DEF IInv
<1>. DEFINE n == lengths[Len(samples) + 1]
<1>1. InReplyCut /\ at = "reply.cut" /\ TypeOK
      /\ Len(samples) < sample_count
  BY DEF ReplyCut, Where, More
<1>2. AnswerBase \in Nat
  BY <1>1, AnswerSize DEF InReplyCut
<1>3. /\ offset + n <= size /\ offset + n \in Nat
      /\ Append(samples, offset) \in Seq(Nat)
      /\ Begins(Append(samples, offset), starts)
      /\ offset + n = After(starts, size, Len(Append(samples, offset)))
  BY <1>1, <1>2, CutNext DEF InReplyCut, Answer, TypeOK
<1>4. /\ at' = at /\ samples' = Append(samples, offset)
      /\ offset' = offset + n
      /\ UNCHANGED <<via, size, adam_len, uri_len, sample_count, table,
                     starts, asked, lengths, sample_bytes>>
  <2>1. ~(offset + Length(samples) > size)
    BY <1>1, <1>3 DEF Length, TypeOK
  <2>. QED BY <2>1 DEF ReplyCut, Goto, Cut, Length, header
<1>5. InReplyCut'
  BY <1>1, <1>3, <1>4 DEF InReplyCut, Answer, AnswerBase
<1>6. TypeOK'
  BY <1>1, <1>3, <1>4 DEF TypeOK
<1>. QED BY <1>1, <1>4, <1>5, <1>6 DEF Where

LEMMA ReplyEndStep ==
  ASSUME IInv, ReplyEnd
  PROVE  IInv'
<1>. USE Widths DEF IInv
<1>1. InReplyCut /\ at = "reply.cut" /\ TypeOK
      /\ ~(Len(samples) < sample_count)
  BY DEF ReplyEnd, Where, More
<1>2. Len(samples) = sample_count
  BY <1>1, LenProperties DEF InReplyCut, Answer, Begins, TypeOK
<1>3. offset = size
  BY <1>1, <1>2 DEF InReplyCut, Answer, After
<1>4. /\ at' = "answered"
      /\ UNCHANGED <<via, size, adam_len, uri_len, sample_count, table,
                     starts, asked, lengths, sample_bytes, offset, samples>>
  BY <1>3 DEF ReplyEnd, End, header, parsed
<1>5. InAnswered'
  BY <1>1, <1>2, <1>4 DEF InAnswered, InReplyCut, Answer, AnswerBase
<1>6. TypeOK'
  BY <1>1, <1>4 DEF TypeOK, Outcomes
<1>. QED BY <1>4, <1>5, <1>6 DEF Where

LEMMA ReplyStep ==
  ASSUME IInv, Reply
  PROVE  IInv'
BY ReplyHeaderStep, ReplyEntryStep, ReplyTableStep, ReplyCutStep,
   ReplyEndStep DEF Reply
-----------------------------------------------------------------------------
(* The invariant, and what follows from it.                                *)

LEMMA Beginning ==
  ASSUME at = "idle", via = "tcp", size = 0,
         adam_len = 0, uri_len = 0, sample_count = 0,
         table = <<>>, starts = <<>>, asked = <<>>,
         lengths = <<>>, sample_bytes = 0, offset = 0, samples = <<>>
  PROVE  IInv
<1>1. 0 \in 0 .. U32 - 1
  BY Widths
<1>2. <<>> \in Lengths /\ <<>> \in Seq(Nat)
  BY EmptySeq DEF Lengths
<1>. QED BY <1>1, <1>2 DEF IInv, TypeOK, Where

\* All of the invariant holds throughout.
THEOREM Invariant == Spec => []IInv
<1>1. Init => IInv
  BY Beginning DEF Init
<1>2. IInv /\ [Next]_vars => IInv'
  <2>. SUFFICES ASSUME IInv, [Next]_vars PROVE IInv'
    OBVIOUS
  <2>1. CASE Again
    <3>1. 0 \in 0 .. U32 - 1
      BY Widths
    <3>2. <<>> \in Lengths /\ <<>> \in Seq(Nat)
      BY EmptySeq DEF Lengths
    <3>. QED BY <2>1, <3>1, <3>2 DEF Again, IInv, TypeOK, Where
  <2>2. CASE UNCHANGED vars
    <3>1. TypeOK'
      BY <2>2 DEF IInv, TypeOK, vars, header, parsed
    <3>2. Where'
      BY <2>2 DEF IInv, Where, vars, header, parsed, Fits, InFrontTable,
         InFrontCut, InEncode, InEncodeSamples, InFrame, InWorkerHeader,
         InWorkerTable, InWorkerCut, InAnswer, InReplyHeader, InReplyTable,
         InReplyCut, InAnswered, Answer, Request, Fields, ShortIds, FixedEnd,
         HeaderBytes, RequestBase, AnswerBase, IdTooLong
    <3>. QED BY <3>1, <3>2 DEF IInv
  <2>. QED BY <2>1, <2>2, FrontStep, SupervisorStep, WorkerStep, ReplyStep
           DEF Next
<1>. QED BY <1>1, <1>2, PTL DEF Spec

\* Every number keeps its width: each payload has a size that fits a u32
\* (worker.rs:682, ipc.cpp:140).
THEOREM BatchTypes == Spec => []TypeOK
<1>1. IInv => TypeOK
  BY DEF IInv
<1>. QED BY <1>1, Invariant, PTL

\* No parser reads past its payload (main.rs:542, protocol.rs:206,
\* ipc.cpp:454-471).
THEOREM ReadsCorrect == Spec => []ReadsInside
<1>1. IInv => ReadsInside
  <2>. SUFFICES ASSUME IInv PROVE ReadsInside
    OBVIOUS
  <2>. USE Widths DEF IInv
  <2>1. TypeOK /\ sample_count \in Nat /\ size \in Nat /\ Len(lengths) \in Nat
        /\ adam_len \in Nat /\ uri_len \in Nat
    BY LenProperties DEF TypeOK, Lengths
  <2>2. CASE at = "front.table" /\ More(lengths)
    <3>1. InFrontTable
      BY <2>2 DEF Where
    <3>. QED BY <2>1, <2>2, <3>1 DEF ReadsInside, EntryBase, InFrontTable,
             FixedEnd, HeaderBytes, TableBytes, More
  <2>3. CASE at = "worker.table" /\ More(lengths)
    <3>1. RequestBase <= size
      BY <2>1, <2>3, RequestSize DEF Where, InWorkerTable
    <3>. QED BY <2>1, <2>3, <3>1 DEF ReadsInside, EntryBase, RequestBase, More
  <2>4. CASE at = "reply.table" /\ More(lengths)
    <3>1. AnswerBase <= size
      BY <2>1, <2>4, AnswerSize DEF Where, InReplyTable
    <3>. QED BY <2>1, <2>4, <3>1 DEF ReadsInside, EntryBase, AnswerBase, More
  <2>5. CASE at = "worker.cut" /\ More(samples)
    <3>1. InWorkerCut /\ RequestBase \in Nat
      BY <2>1, <2>5, RequestSize DEF Where, InWorkerCut
    <3>2. offset + lengths[Len(samples) + 1] <= size
      BY <2>1, <2>5, <3>1, CutNext DEF InWorkerCut, Request, TypeOK, More
    <3>. QED BY <2>5, <3>2 DEF ReadsInside, Length
  <2>. QED BY <2>2, <2>3, <2>4, <2>5 DEF ReadsInside
<1>. QED BY <1>1, Invariant, PTL

\* What the front accepts, the rest of the way accepts too (main.rs:516,
\* protocol.rs:135-231, ipc.cpp:435-489).
THEOREM FrontIsEnough == Spec => []FrontDecides
<1>1. IInv => FrontDecides
  BY DEF IInv, Where, FrontDecides
<1>. QED BY <1>1, Invariant, PTL

\* Every parser finds the samples where its builder put them, and the client
\* gets as many and as long ones as it sent (ipc.cpp:455-489,
\* protocol.rs:171-231).
THEOREM SamplesCorrect == Spec => []SamplesFound
<1>1. IInv => SamplesFound
  <2>. SUFFICES ASSUME IInv PROVE SamplesFound
    OBVIOUS
  <2>1. /\ DOMAIN lengths = 1 .. Len(lengths)
        /\ DOMAIN samples = 1 .. Len(samples)
    BY LenProperties DEF IInv, TypeOK, Lengths
  <2>2. CASE at = "worker.header" \/ at = "reply.header"
    BY <2>2 DEF IInv, Where, InWorkerHeader, InReplyHeader, SamplesFound
  <2>3. CASE at = "worker.table" \/ at = "reply.table"
    BY <2>1, <2>3 DEF IInv, Where, InWorkerTable, InReplyTable, Request,
       Answer, Begins, SamplesFound
  <2>4. CASE at = "worker.cut" \/ at = "reply.cut" \/ at = "answered"
    BY <2>1, <2>4 DEF IInv, Where, InWorkerCut, InReplyCut, InAnswered,
       Request, Answer, Begins, SamplesFound
  <2>. QED BY <2>2, <2>3, <2>4 DEF SamplesFound, WorkerSteps, ReplySteps
<1>. QED BY <1>1, Invariant, PTL
=============================================================================
