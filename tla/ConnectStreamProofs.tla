------------------------- MODULE ConnectStreamProofs -------------------------
(***************************************************************************)
(* Proofs about ConnectStream, for every header length, body length and    *)
(* number of frames ahead.                                                 *)
(***************************************************************************)
EXTENDS ConnectStream, SequenceTheorems, TLAPS

IInv == TypeOK /\ InSync /\ Numbered

LEMMA InitIInv == Init => IInv
<1> SUFFICES ASSUME Init PROVE IInv
  OBVIOUS
<1>1. wire \in Seq(Frames) /\ delivered \in Seq(1..MaxMessages)
  BY DEF Init
<1>2. frame \in Frames
  BY StreamAssumption DEF Init, Frames, NoFrame
<1>3. logged \in 0..MaxMessages /\ pos \in Nat /\ got \in Nat
  BY StreamAssumption DEF Init
<1>4. marker = "none" /\ pc = "open" /\ expired \in BOOLEAN
  BY DEF Init
<1>5. TypeOK
  BY <1>1, <1>2, <1>3, <1>4 DEF TypeOK
<1>6. InSync /\ Numbered
  BY DEF Init, InSync, Numbered
<1> QED
  BY <1>5, <1>6 DEF IInv

\* The bridge appends a frame behind what the reader is looking at.
LEMMA AppendKeeps ==
  ASSUME IInv, NEW f \in Frames, wire' = Append(wire, f), marker = "none",
         f.num = logged + Weight(f), logged' = f.num,
         logged' \in 0..MaxMessages,
         marker' = IF f.kind \in EndKinds THEN f.kind ELSE marker,
         UNCHANGED <<pos, got, frame, pc, delivered, expired>>
  PROVE  IInv'
<1> USE StreamAssumption
<1> DEFINE n == Len(wire)
<1>1. /\ wire' \in Seq(Frames) /\ Len(wire') = n + 1 /\ n \in Nat
      /\ \A i \in 1..n : wire'[i] = wire[i]
      /\ wire'[n + 1] = f
  BY DEF IInv, TypeOK
<1>2. TypeOK'
  BY <1>1 DEF IInv, TypeOK, Outcomes, EndKinds
<1>3. InSync'
  <2>1. wire # <<>> => wire' # <<>> /\ Head(wire') = Head(wire)
    BY <1>1 DEF IInv, TypeOK
  <2> QED
    BY <2>1, <1>1 DEF IInv, TypeOK, InSync
<1>4. logged \in Nat /\ Weight(f) \in {0, 1} /\ (f.kind \in EndKinds => Weight(f) = 0)
  BY DEF IInv, TypeOK, Weight, EndKinds
<1>5. \A i \in 1..n : wire[i].num \in Nat /\ wire[i].num <= logged
                      /\ wire[i].kind \notin EndKinds
  <2> SUFFICES ASSUME NEW i \in 1..n
               PROVE  /\ wire[i].num \in Nat /\ wire[i].num <= logged
                      /\ wire[i].kind \notin EndKinds
    OBVIOUS
  <2>1. wire[i] \in Frames
    BY ElementOfSeq DEF IInv, TypeOK
  <2>2. wire[i].num \in Nat
    BY <2>1 DEF Frames
  <2>3. wire[i].num <= logged /\ wire[i].kind \notin EndKinds
    BY DEF IInv, Numbered, EndKinds
  <2> QED
    BY <2>2, <2>3
<1>6. Numbered'
  <2>1. wire = <<>> => wire'[1] = f /\ n = 0 /\ Len(delivered) = logged
    BY <1>1 DEF IInv, TypeOK, Numbered
  <2>2. wire # <<>> => /\ n > 0 /\ wire'[1] = wire[1] /\ wire[n].num = logged
                       /\ wire[1].num = Len(delivered) + Weight(wire[1])
    BY <1>1 DEF IInv, TypeOK, Numbered
  <2>3. \A i \in 1..(n + 1) :
          /\ wire'[i].num <= logged'
          /\ wire'[i].kind \in EndKinds => i = n + 1 /\ marker' = wire'[i].kind
    BY <1>1, <1>4, <1>5
  <2>4. ASSUME NEW i \in 1..n
        PROVE  wire'[i + 1].num = wire'[i].num + Weight(wire'[i + 1])
    <3>1. CASE i = n
      BY <3>1, <1>1, <2>2
    <3>2. CASE i < n
      BY <3>2, <1>1 DEF IInv, Numbered
    <3> QED
      BY <3>1, <3>2
  <2>5. wire' # <<>> /\ wire'[1].num = Len(delivered) + Weight(wire'[1])
    BY <1>1, <2>1, <2>2
  <2> HIDE DEF n
  <2> QED
    BY <1>1, <2>3, <2>4, <2>5 DEF Numbered, Weight
<1> QED
  BY <1>2, <1>3, <1>6 DEF IInv

LEMMA SendKeeps ==
  ASSUME IInv,
         \E len \in 0..MaxLen :
            \/ \E kind \in BodyKinds \union {"empty"} : SendFrame(kind, len)
            \/ \E kind \in EndKinds : SendEnd(kind, len)
  PROVE  IInv'
<1> USE StreamAssumption
<1>1. ASSUME NEW len \in 0..MaxLen, NEW kind \in BodyKinds \union {"empty"},
             SendFrame(kind, len)
      PROVE  IInv'
  <2> DEFINE f == [kind |-> kind, len |-> len, num |-> logged']
  <2>1. kind \notin EndKinds
    BY DEF BodyKinds, EndKinds
  <2>2. logged' = logged + Weight(f) /\ logged' \in 0..MaxMessages
    BY <1>1 DEF SendFrame, Weight, IInv, TypeOK
  <2>3. f \in Frames
    BY <2>2 DEF Frames
  <2>4. /\ wire' = Append(wire, f) /\ marker = "none" /\ marker' = marker
        /\ UNCHANGED <<pos, got, frame, pc, delivered, expired>>
    BY <1>1 DEF SendFrame
  <2> QED
    BY <2>1, <2>2, <2>3, <2>4, AppendKeeps
<1>2. ASSUME NEW len \in 0..MaxLen, NEW kind \in EndKinds, SendEnd(kind, len)
      PROVE  IInv'
  <2> DEFINE f == [kind |-> kind, len |-> len, num |-> logged]
  <2>1. logged' = logged + Weight(f) /\ logged' = logged /\ logged' \in 0..MaxMessages
    BY <1>2 DEF SendEnd, Weight, IInv, TypeOK, EndKinds
  <2>2. f \in Frames
    BY <2>1 DEF Frames
  <2>3. /\ wire' = Append(wire, f) /\ marker = "none" /\ marker' = kind
        /\ UNCHANGED <<pos, got, frame, pc, delivered, expired>>
    BY <1>2 DEF SendEnd
  <2> QED
    BY <2>1, <2>2, <2>3, AppendKeeps
<1> QED
  BY <1>1, <1>2

\* What leaves the frames and the reader's place in them alone.
LEMMA LeaveKeeps ==
  ASSUME IInv, UNCHANGED <<logged, marker, wire, pos, got, frame, delivered>>,
         expired' \in BOOLEAN,
         \/ pc' = pc
         \/ pc' \in Outcomes
         \/ pc' = "header" /\ pos = 0 /\ got = 0
  PROVE  IInv'
<1>1. TypeOK'
  BY DEF IInv, TypeOK, Outcomes
<1>2. InSync'
  BY StreamAssumption DEF IInv, TypeOK, InSync, Outcomes
<1>3. Numbered'
  BY DEF IInv, Numbered
<1> QED
  BY <1>1, <1>2, <1>3 DEF IInv

LEMMA ReadKeeps == IInv /\ ReadSome => IInv'
<1> SUFFICES ASSUME IInv, ReadSome PROVE IInv'
  OBVIOUS
<1>1. PICK k \in 1..(Wanted - got) : pos' = pos + k /\ got' = got + k
  BY DEF ReadSome, Read
<1>2. /\ pc \in {"header", "body"} /\ got < Wanted /\ wire # <<>>
      /\ UNCHANGED <<logged, marker, wire, frame, pc, delivered, expired>>
  BY DEF ReadSome, Read
<1>3. Wanted \in Nat /\ got \in Nat /\ pos \in Nat /\ k \in Nat /\ k > 0
  BY <1>1, <1>2, StreamAssumption DEF IInv, TypeOK, Wanted, Frames
<1>4. TypeOK'
  BY <1>1, <1>2, <1>3 DEF IInv, TypeOK
<1>5. InSync'
  <2>1. got' <= Wanted /\ pos' > 0
    BY <1>1, <1>3
  <2>2. CASE pc = "header"
    BY <2>1, <2>2, <1>1, <1>2, <1>3 DEF IInv, InSync, Wanted
  <2>3. CASE pc = "body"
    BY <2>1, <2>3, <1>1, <1>2, <1>3, StreamAssumption DEF IInv, InSync, Wanted
  <2> QED
    BY <1>2, <2>2, <2>3
<1>6. Numbered'
  BY <1>2 DEF IInv, Numbered
<1> QED
  BY <1>4, <1>5, <1>6 DEF IInv

LEMMA DecodeKeeps == IInv /\ DecodeHeader => IInv'
<1> SUFFICES ASSUME IInv, DecodeHeader PROVE IInv'
  OBVIOUS
<1>1. /\ pc = "header" /\ got = HeaderLen /\ got' = 0 /\ pc' = "body"
      /\ UNCHANGED <<logged, marker, wire, pos, delivered, expired>>
  BY DEF DecodeHeader
<1>2. pos = HeaderLen /\ wire # <<>> /\ HeaderLen \in Nat
  BY <1>1, StreamAssumption DEF IInv, TypeOK, InSync
<1>3. frame' = Head(wire) /\ Head(wire) \in Frames
  BY <1>2, HeadTailProperties DEF DecodeHeader, Decoded, IInv, TypeOK
<1>4. TypeOK'
  BY <1>1, <1>3 DEF IInv, TypeOK
<1>5. frame'.len \in Nat
  BY <1>3, StreamAssumption DEF Frames
<1>6. InSync'
  BY <1>1, <1>2, <1>3, <1>5 DEF InSync
<1>7. Numbered'
  BY <1>1 DEF IInv, Numbered
<1> QED
  BY <1>4, <1>6, <1>7 DEF IInv

\* What TakeFrame finds and does when the reader is in step with the bridge.
LEMMA TakeFacts ==
  ASSUME IInv, TakeFrame
  PROVE  /\ wire # <<>> /\ frame = Head(wire) /\ frame = wire[1] /\ frame \in Frames
         /\ wire' \in Seq(Frames) /\ Len(wire') = Len(wire) - 1
         /\ \A i \in 1..(Len(wire) - 1) : wire'[i] = wire[i + 1]
         /\ pos' = 0 /\ got' = 0 /\ pc' = NextPc
         /\ frame.num = Len(delivered) + Weight(frame) /\ frame.num <= logged
         /\ Len(delivered') = frame.num
         /\ delivered' = IF frame.kind = "message"
                         THEN Append(delivered, Len(delivered) + 1) ELSE delivered
<1>1. /\ pc = "body" /\ got = frame.len /\ got' = 0 /\ pc' = NextPc
      /\ wire' = Tail(wire) /\ pos' = pos - Size(Head(wire))
      /\ delivered' = IF frame.kind \in {"message"}
                      THEN Append(delivered, frame.num) ELSE delivered
  BY DEF TakeFrame, Take
<1>2. /\ wire # <<>> /\ frame = Head(wire) /\ pos = HeaderLen + got
      /\ wire \in Seq(Frames) /\ frame \in Frames /\ got \in Nat
      /\ delivered \in Seq(1..MaxMessages)
  BY <1>1 DEF IInv, TypeOK, InSync
<1>3. /\ frame = wire[1] /\ wire' \in Seq(Frames) /\ Len(wire') = Len(wire) - 1
      /\ \A i \in 1..(Len(wire) - 1) : wire'[i] = wire[i + 1]
  BY <1>1, <1>2, HeadTailProperties
<1>4. pos' = 0
  BY <1>1, <1>2, StreamAssumption DEF Size
<1>5. frame.num = Len(delivered) + Weight(frame) /\ frame.num <= logged
  BY <1>2, <1>3 DEF IInv, Numbered
<1>6. Len(delivered) \in Nat
  BY <1>2
<1>7. delivered' = IF frame.kind = "message"
                  THEN Append(delivered, Len(delivered) + 1) ELSE delivered
  BY <1>1, <1>5 DEF Weight
<1>8. Len(delivered') = frame.num
  BY <1>2, <1>5, <1>6, <1>7, AppendProperties DEF Weight
<1> QED
  BY <1>1, <1>2, <1>3, <1>4, <1>5, <1>7, <1>8

LEMMA TakeKeeps == IInv /\ TakeFrame => IInv'
<1> SUFFICES ASSUME IInv, TakeFrame PROVE IInv'
  OBVIOUS
<1> DEFINE n == Len(wire)
<1>1. UNCHANGED <<logged, marker, frame, expired>>
  BY DEF TakeFrame, Take
<1>2. n \in Nat /\ n > 0 /\ Len(delivered) \in Nat /\ logged \in Nat /\ logged <= MaxMessages
  BY TakeFacts, StreamAssumption DEF IInv, TypeOK
<1>3. delivered' \in Seq(1..MaxMessages)
  <2>1. CASE frame.kind = "message"
    <3>1. Len(delivered) + 1 \in 1..MaxMessages
      BY <1>2, <2>1, TakeFacts, StreamAssumption DEF Weight
    <3>2. delivered \in Seq(1..MaxMessages)
      BY DEF IInv, TypeOK
    <3>3. delivered' = Append(delivered, Len(delivered) + 1)
      BY <2>1, TakeFacts
    <3> QED
      BY <3>1, <3>2, <3>3, AppendProperties
  <2>2. CASE frame.kind # "message"
    BY <2>2, TakeFacts DEF IInv, TypeOK
  <2> QED
    BY <2>1, <2>2
<1>4. NextPc \in {"yield", "header"} \union Outcomes
  BY TakeFacts DEF NextPc, Frames, BodyKinds, EndKinds, Outcomes
<1>5. TypeOK'
  BY <1>1, <1>3, <1>4, TakeFacts DEF IInv, TypeOK
<1>6. InSync'
  BY <1>4, TakeFacts, StreamAssumption DEF InSync, Outcomes
<1>7. Numbered'
  <2>1. ASSUME n = 1
        PROVE  wire' = <<>> /\ Len(delivered') = logged'
    <3>1. wire[1].num = logged
      BY <2>1, TakeFacts DEF IInv, Numbered
    <3> QED
      BY <2>1, <3>1, <1>1, TakeFacts
  <2>2. ASSUME n > 1
        PROVE  /\ wire' # <<>> /\ wire'[1].num = Len(delivered') + Weight(wire'[1])
               /\ wire'[n - 1].num = logged
    <3>1. wire'[1] = wire[2] /\ wire'[n - 1] = wire[n]
      BY <2>2, <1>2, TakeFacts
    <3>2. wire[2].num = wire[1].num + Weight(wire[2]) /\ wire[n].num = logged
      BY <2>2, <1>2 DEF IInv, Numbered
    <3> QED
      BY <2>2, <3>1, <3>2, <1>2, TakeFacts
  <2>3. ASSUME NEW i \in 1..(n - 1)
        PROVE  /\ wire'[i].num <= logged
               /\ wire'[i].kind \in EndKinds => i = n - 1 /\ marker = wire'[i].kind
               /\ i < n - 1 => wire'[i + 1].num = wire'[i].num + Weight(wire'[i + 1])
    <3>1. i + 1 \in 1..n /\ wire'[i] = wire[i + 1]
      BY <1>2, TakeFacts
    <3>2. i < n - 1 => wire'[i + 1] = wire[i + 2]
      BY <1>2, TakeFacts
    <3>3. /\ wire[i + 1].num <= logged
          /\ wire[i + 1].kind \in EndKinds => i + 1 = n /\ marker = wire[i + 1].kind
          /\ i + 1 < n => wire[i + 2].num = wire[i + 1].num + Weight(wire[i + 2])
      BY <3>1, <1>2 DEF IInv, Numbered
    <3> QED
      BY <3>1, <3>2, <3>3, <1>2
  <2>4. Len(wire') = n - 1 /\ (wire' = <<>> => n = 1)
    BY <1>2, TakeFacts
  <2> HIDE DEF n
  <2>5. n = 1 \/ n > 1
    BY <1>2
  <2> QED
    BY <2>1, <2>2, <2>3, <2>4, <2>5, <1>1, <1>2 DEF Numbered, Weight
<1> QED
  BY <1>5, <1>6, <1>7 DEF IInv

LEMMA NextIInv == IInv /\ [Next]_vars => IInv'
<1> SUFFICES ASSUME IInv, [Next]_vars PROVE IInv'
  OBVIOUS
<1> USE DEF Leave, Outcomes
<1>1. CASE OpenStream
  BY <1>1, LeaveKeeps DEF OpenStream, IInv, InSync, TypeOK
<1>2. CASE OpenFails
  BY <1>2, LeaveKeeps DEF OpenFails, IInv, TypeOK
<1>3. CASE ReadSome
  BY <1>3, ReadKeeps
<1>4. CASE ReadFails
  BY <1>4, LeaveKeeps DEF ReadFails, IInv, TypeOK
<1>5. CASE DecodeHeader
  BY <1>5, DecodeKeeps
<1>6. CASE TakeFrame
  BY <1>6, TakeKeeps
<1>7. CASE Resume \/ ResumeLate \/ StopIterating
  BY <1>7, LeaveKeeps DEF Resume, ResumeLate, StopIterating, IInv, InSync, TypeOK
<1>8. CASE DeadlinePasses
  BY <1>8, LeaveKeeps DEF DeadlinePasses
<1>9. CASE UNCHANGED vars
  BY <1>9, LeaveKeeps DEF vars, IInv, TypeOK
<1> QED
  BY <1>1, <1>2, <1>3, <1>4, <1>5, <1>6, <1>7, <1>8, <1>9, SendKeeps
     DEF Next, ReaderStep

\* server_stream decodes as headers only headers, and takes as frames only
\* frames, for any split of the body (_read_exact).
THEOREM StaysInSync == Spec => []InSync
<1>1. IInv => InSync
  BY DEF IInv
<1> QED
  BY <1>1, InitIInv, NextIInv, PTL DEF Spec

\* The variables of server_stream keep their types.
THEOREM StreamTyped == Spec => []TypeOK
<1>1. IInv => TypeOK
  BY DEF IInv
<1> QED
  BY <1>1, InitIInv, NextIInv, PTL DEF Spec

\* Every step of server_stream and of the bridge is one of the contract or none.
LEMMA StepRefines == IInv /\ [Next]_vars => [Contract!ContractNext]_Contract!contractVars
<1> SUFFICES ASSUME IInv, [Next]_vars
             PROVE  [Contract!ContractNext]_Contract!contractVars
  OBVIOUS
<1> DEFINE outcome == IF pc \in Outcomes THEN pc ELSE "open"
<1>1. ASSUME NEW kind, NEW len, SendFrame(kind, len)
      PROVE  Contract!Log \/ UNCHANGED Contract!contractVars
  BY <1>1 DEF SendFrame, Contract!Log, Contract!contractVars
<1>2. ASSUME NEW kind \in EndKinds, NEW len, SendEnd(kind, len)
      PROVE  Contract!EndLog
  BY <1>2 DEF SendEnd, EndKinds, Contract!EndLog
<1>3. ASSUME pc \notin Outcomes, UNCHANGED <<logged, marker, delivered>>,
             pc' \notin Outcomes
      PROVE  UNCHANGED Contract!contractVars
  BY <1>3 DEF Contract!contractVars
<1>4. ASSUME pc \notin Outcomes, UNCHANGED <<logged, marker, delivered>>,
             pc' \in {"raised", "escaped", "left"}
      PROVE  Contract!GiveUp
  BY <1>4 DEF Contract!GiveUp, Outcomes
<1>5. CASE OpenStream
  BY <1>5, <1>3 DEF OpenStream, Leave, Outcomes
<1>6. CASE OpenFails
  BY <1>6, <1>4 DEF OpenFails, Leave, Outcomes, Contract!ContractNext
<1>7. CASE ReadSome
  BY <1>7, <1>3 DEF ReadSome, Read, Outcomes
<1>8. CASE ReadFails
  BY <1>8, <1>4 DEF ReadFails, Leave, Outcomes, Contract!ContractNext
<1>9. CASE DecodeHeader
  BY <1>9, <1>3 DEF DecodeHeader, Outcomes
<1>10. CASE TakeFrame
  <2>1. pc = "body" /\ UNCHANGED <<logged, marker>>
    BY <1>10 DEF TakeFrame, Take
  <2>2. CASE frame.kind = "message"
    <3>1. pc' = "yield"
      BY <2>2, <1>10, TakeFacts DEF NextPc
    <3>2. delivered' = Append(delivered, Len(delivered) + 1) /\ Len(delivered) < logged
      BY <2>2, <1>10, TakeFacts DEF Weight, IInv, TypeOK
    <3> QED
      BY <2>1, <3>1, <3>2 DEF Contract!Deliver, Outcomes, Contract!ContractNext
  <2>3. CASE frame.kind = "end"
    <3>1. pc' = "ended" /\ delivered' = delivered
      BY <2>3, <1>10, TakeFacts DEF NextPc
    <3>2. Len(wire) \in Nat /\ Len(wire) > 0
      BY <1>10, TakeFacts DEF IInv, TypeOK
    <3>3. wire[1].kind \in EndKinds /\ 1 \in 1..Len(wire)
      BY <2>3, <3>2, <1>10, TakeFacts DEF EndKinds
    <3>4. 1 = Len(wire) /\ marker = wire[1].kind
      BY <3>3 DEF IInv, Numbered
    <3>5. marker = "end" /\ wire[1].num = logged
      BY <2>3, <3>2, <3>4, <1>10, TakeFacts DEF IInv, Numbered
    <3>6. Len(delivered) = logged
      BY <2>3, <3>1, <3>5, <1>10, TakeFacts
    <3> QED
      BY <2>1, <3>1, <3>5, <3>6 DEF Contract!End, Outcomes, Contract!ContractNext
  <2>4. CASE frame.kind \in {"empty", "ignored"}
    <3>1. pc' = "header" /\ delivered' = delivered
      BY <2>4, <1>10, TakeFacts DEF NextPc
    <3> QED
      BY <2>1, <3>1, <1>3 DEF Outcomes
  <2>5. CASE frame.kind \in {"garbage", "error", "garbled"}
    <3>1. pc' \in {"raised", "escaped"} /\ delivered' = delivered
      BY <2>5, <1>10, TakeFacts DEF NextPc
    <3> QED
      BY <2>1, <3>1, <1>4 DEF Outcomes, Contract!ContractNext
  <2> QED
    BY <2>2, <2>3, <2>4, <2>5, <1>10, TakeFacts DEF Frames, BodyKinds, EndKinds
<1>11. CASE Resume \/ ResumeLate \/ StopIterating
  BY <1>11, <1>3, <1>4
     DEF Resume, ResumeLate, StopIterating, Leave, Outcomes, Contract!ContractNext
<1>12. CASE DeadlinePasses \/ UNCHANGED vars
  BY <1>12 DEF DeadlinePasses, vars, Contract!contractVars
<1> QED
  BY <1>1, <1>2, <1>5, <1>6, <1>7, <1>8, <1>9, <1>10, <1>11, <1>12
     DEF Next, ReaderStep, Contract!ContractNext

\* server_stream keeps the contract: messages in order and complete, and a
\* normal end only for a stream that ended in order.
THEOREM StreamRefinesContract == Spec => ImplementsContract
<1>1. Init => Contract!ContractInit
  BY DEF Init, Contract!ContractInit, Outcomes
<1> QED
  BY <1>1, InitIInv, NextIInv, StepRefines, PTL
     DEF Spec, ImplementsContract, Contract!ContractSpec

=============================================================================
