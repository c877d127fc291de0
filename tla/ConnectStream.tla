---------------------------- MODULE ConnectStream ----------------------------
(***************************************************************************)
(* ConnectJsonTransport.server_stream (plugin/model-providers/cursor/      *)
(* cursor_bridge_transport.py): the reply to a Send is one long body of    *)
(* frames, each a header of HeaderLen bytes that gives the kind and the    *)
(* length of the bytes that follow.  The socket hands out any number of    *)
(* bytes at a time and may break at any byte; the generator cuts what it   *)
(* gets into frames and yields the messages to the loop of                 *)
(* _create_chat_completion, which may stop iterating.                      *)
(*                                                                         *)
(* Bytes are counted, not represented: pos is how far into the unread      *)
(* frames the reader is, got how many bytes of the current piece it has.   *)
(* What it takes for a header is one only if the two agree; otherwise it   *)
(* may decode into anything.                                               *)
(***************************************************************************)
EXTENDS Naturals, Sequences, SequencesExt

CONSTANTS HeaderLen,    \* bytes of a frame header
          MaxLen,       \* bound: bytes of a frame body
          MaxAhead,     \* bound: frames sent and not yet read
          MaxMessages   \* bound: messages the bridge sends; other frames are free

ASSUME StreamAssumption ==
    /\ HeaderLen \in Nat \ {0} /\ MaxLen \in Nat
    /\ MaxAhead \in Nat /\ MaxMessages \in Nat

VARIABLES
    logged,     \* how many messages the bridge has sent
    marker,     \* the EndStreamResponse it sent: "none", "end", "error", "garbled"
    wire,       \* the frames sent and not yet taken off the stream
    pos,        \* bytes of wire the reader has read
    got,        \* _read_exact: len(chunks)
    frame,      \* the header it decoded
    pc,         \* where the generator is
    delivered,  \* the messages it yielded, by number
    expired     \* the deadline has passed

vars == <<logged, marker, wire, pos, got, frame, pc, delivered, expired>>

\* An "ignored" frame is JSON and not an object, "garbage" is not JSON; only a
\* message, which is an object, is numbered.
BodyKinds == {"message", "ignored", "garbage"}
EndKinds == {"end", "error", "garbled"}

Frames == [kind : BodyKinds \union {"empty"} \union EndKinds,
           len : 0..MaxLen, num : 0..MaxMessages]

Size(f) == HeaderLen + f.len

Unread == FoldSeq(LAMBDA f, n : Size(f) + n, 0, wire)

Outcomes == {"ended", "raised", "escaped", "left"}

NoFrame == [kind |-> "empty", len |-> 0, num |-> 0]

Init ==
    /\ logged = 0 /\ marker = "none" /\ wire = <<>> /\ pos = 0 /\ got = 0
    /\ frame = NoFrame /\ pc = "open" /\ delivered = <<>> /\ expired = FALSE

-----------------------------------------------------------------------------
(* the bridge *)

\* frames before the EndStreamResponse; keepalives are empty frames
SendFrame(kind, len) ==
    /\ pc # "open" /\ marker = "none" /\ Len(wire) < MaxAhead
    /\ kind = "message" => logged < MaxMessages
    /\ IF kind = "empty" THEN len = 0 ELSE len > 0
    /\ logged' = IF kind = "message" THEN logged + 1 ELSE logged
    /\ wire' = Append(wire, [kind |-> kind, len |-> len, num |-> logged'])
    /\ UNCHANGED <<marker, pos, got, frame, pc, delivered, expired>>

\* the EndStreamResponse: an empty one ends in order, as does any JSON with no error
SendEnd(kind, len) ==
    /\ pc # "open" /\ marker = "none" /\ Len(wire) < MaxAhead
    /\ kind = "end" \/ len > 0
    /\ marker' = kind
    /\ wire' = Append(wire, [kind |-> kind, len |-> len, num |-> logged])
    /\ UNCHANGED <<logged, pos, got, frame, pc, delivered, expired>>

-----------------------------------------------------------------------------
(* the generator *)

Leave(outcome) ==
    /\ pc' = outcome
    /\ UNCHANGED <<logged, marker, wire, pos, got, frame, delivered, expired>>

OpenStream ==
    /\ pc = "open" /\ ~expired
    /\ Leave("header")

\* no connection, an HTTP error, or an HTTP reply urllib cannot parse
OpenFails ==
    /\ pc = "open"
    /\ \/ Leave("raised")
       \/ ~expired /\ Leave("escaped")

Wanted == CASE pc = "header" -> HeaderLen [] pc = "body" -> frame.len [] OTHER -> 0

\* one read1 of _read_exact: it asks for what is missing and gets some of it
Read(asked) ==
    /\ pc \in {"header", "body"} /\ got < Wanted /\ wire # <<>>
    /\ \E k \in 1..asked :
        /\ pos + k <= Unread
        /\ pos' = pos + k /\ got' = got + k
    /\ UNCHANGED <<logged, marker, wire, frame, pc, delivered, expired>>

\* mutants: every read asks for the whole piece; no read looks at the deadline
ReadWhole == ~expired /\ Read(Wanted)
ReadForever == Read(Wanted - got)

ReadSome == ~expired /\ Read(Wanted - got)

\* mutant: the end of the connection between two frames ends the stream
ReadEndsQuietly ==
    /\ pc \in {"header", "body"} /\ got < Wanted
    /\ Leave(IF got = 0 THEN "ended" ELSE "raised")

\* the deadline, a read that times out, a reset, or the end of the connection; a
\* chunked body that is cut raises http.client.IncompleteRead, which is no OSError
ReadFails ==
    /\ pc \in {"header", "body"} /\ got < Wanted
    /\ \/ Leave("raised")
       \/ ~expired /\ Leave("escaped")

Decoded == IF pos = HeaderLen THEN {Head(wire)} ELSE Frames

DecodeHeader ==
    /\ pc = "header" /\ got = HeaderLen
    /\ frame' \in Decoded
    /\ got' = 0 /\ pc' = "body"
    /\ UNCHANGED <<logged, marker, wire, pos, delivered, expired>>

\* what the frame is decides what becomes of it
NextPc == CASE frame.kind = "message" -> "yield"
            [] frame.kind \in {"empty", "ignored"} -> "header"
            [] frame.kind = "end" -> "ended"
            [] frame.kind \in {"garbage", "error"} -> "raised"
            [] frame.kind = "garbled" -> "escaped"

Take(yielded) ==
    /\ pc = "body" /\ got = frame.len
    /\ wire' = Tail(wire) /\ pos' = pos - Size(Head(wire)) /\ got' = 0
    /\ delivered' = IF frame.kind \in yielded THEN Append(delivered, frame.num)
                    ELSE delivered
    /\ pc' = NextPc
    /\ UNCHANGED <<logged, marker, frame, expired>>

TakeAnyJson == Take({"message", "ignored"})  \* mutant: no isinstance(message, dict)

TakeFrame == Take({"message"})

\* the loop over the stream asks for the next message, or stops at a "done"
Resume == pc = "yield" /\ ~expired /\ Leave("header")
ResumeLate == pc = "yield" /\ expired /\ Leave("raised")
StopIterating == pc = "yield" /\ Leave("left")

DeadlinePasses ==
    /\ ~expired /\ pc \notin Outcomes
    /\ expired' = TRUE
    /\ UNCHANGED <<logged, marker, wire, pos, got, frame, pc, delivered>>

-----------------------------------------------------------------------------
ReaderStep ==
    \/ OpenStream \/ OpenFails \/ ReadSome \/ ReadFails
    \/ DecodeHeader \/ TakeFrame \/ Resume \/ ResumeLate \/ StopIterating

Next ==
    \/ \E len \in 0..MaxLen :
        \/ \E kind \in BodyKinds \union {"empty"} : SendFrame(kind, len)
        \/ \E kind \in EndKinds : SendEnd(kind, len)
    \/ ReaderStep
    \/ DeadlinePasses

Spec == Init /\ [][Next]_vars

\* The thread that iterates keeps running and time passes; the bridge owes
\* nothing, and may send keepalives for ever.
Fairness == WF_vars(ReaderStep) /\ WF_vars(DeadlinePasses)

FairSpec == Spec /\ Fairness

-----------------------------------------------------------------------------
(* Properties *)

TypeOK ==
    /\ logged \in 0..MaxMessages
    /\ marker \in {"none"} \union EndKinds
    /\ wire \in Seq(Frames)
    /\ pos \in Nat /\ got \in Nat
    /\ frame \in Frames
    /\ pc \in {"open", "header", "body", "yield"} \union Outcomes
    /\ delivered \in Seq(1..MaxMessages)
    /\ expired \in BOOLEAN

\* However the socket splits the body, the reader never takes a byte of the next
\* frame: what it decodes as a header is one, and what it takes for a frame is
\* exactly the bytes that header announced (_read_exact asks for what is missing).
InSync ==
    /\ pc = "header" => pos = got /\ got <= HeaderLen
    /\ pc = "body" => /\ wire # <<>> /\ frame = Head(wire)
                      /\ pos = HeaderLen + got /\ got <= frame.len
    /\ pc \in {"open", "yield"} => pos = 0 /\ got = 0
    /\ pos > 0 => wire # <<>>

\* Messages are numbered without a gap along delivered and wire, and the
\* EndStreamResponse is the last frame: what the refinement rests on.
Weight(f) == IF f.kind = "message" THEN 1 ELSE 0

Numbered ==
    /\ wire = <<>> => Len(delivered) = logged
    /\ wire # <<>> => /\ wire[1].num = Len(delivered) + Weight(wire[1])
                      /\ wire[Len(wire)].num = logged
    /\ \A i \in 1..Len(wire) :
        /\ wire[i].num <= logged
        /\ wire[i].kind \in EndKinds => i = Len(wire) /\ marker = wire[i].kind
        /\ i < Len(wire) => wire[i + 1].num = wire[i].num + Weight(wire[i + 1])

\* The code that iterates is handed the bridge's messages in order, none skipped
\* or repeated, and sees a normal end only after all of them and an
\* EndStreamResponse without an error, wherever the connection breaks.
Contract == INSTANCE StreamContract WITH
    outcome <- IF pc \in Outcomes THEN pc ELSE "open"

ImplementsContract == Contract!ContractSpec

\* The stream ends by its deadline, although keepalives may arrive for ever and
\* keep every single read from timing out.
StreamEnds == <>(pc \in Outcomes)

=============================================================================
