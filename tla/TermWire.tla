------------------------------ MODULE TermWire ------------------------------
(***************************************************************************)
(* The terminal transport's wire: one direction of a pty shared by framed  *)
(* messages and ordinary terminal bytes.  Client to server, a frame is one *)
(* or more OSC sequences  ESC ] 99 ; seq ; total ; base64 BEL ; server to   *)
(* client it is one marker  BISON< base64 > .  term_reader picks them out  *)
(* of the bytes, hands the rest to passthrough(), and reassembles chunks.  *)
(* A client may be killed in the middle of a write; the next one writes on *)
(* the same pty.  Bytes are their ASCII codes.                             *)
(***************************************************************************)
EXTENDS Naturals, Sequences, FiniteSets, SequencesExt

CONSTANTS
    TermLengths,    \* lengths of the frames that are sent
    ChunkRawBytes,  \* kChunkRawBytes
    MaxCapture,     \* kMaxCaptureBytes
    OscNoise,       \* terminal bytes written between frames, client to server
    MarkerNoise,    \* terminal bytes written between frames, server to client
    MaxTermFrames,  \* bound: frames sent over a behaviour
    MaxNoise,       \* bound: pieces of terminal bytes over a behaviour
    MaxFaults       \* bound: clients killed and late reads over a behaviour

ASSUME TermWireAssumption ==
    /\ TermLengths \subseteq Nat
    /\ ChunkRawBytes \in Nat \ {0} /\ ChunkRawBytes % 3 = 0
    /\ MaxCapture \in Nat /\ MaxTermFrames \in Nat /\ MaxNoise \in Nat /\ MaxFaults \in Nat

VARIABLES
    role,      \* term_role of the sending side: its frames' format
    line,      \* bytes in the pty
    scan,      \* scanner state of term_reader, loop thread only
    assem,     \* term_reader::reassembly
    frameq,    \* recv_queue
    through,   \* bytes handed to passthrough()
    posted,    \* history: frames handed to send_frame()
    taken,     \* history: frames dequeue_frame() returned
    raw,       \* history: terminal bytes handed to send_raw()
    pieces,    \* history: number of send_raw() calls
    faults     \* history: clients killed and reads later than kIdleFlushMs

termWireVars == <<role, line, scan, assem, frameq, through, posted, taken, raw, pieces, faults>>

ESC == 27
OpenBracket == 91
Semicolon == 59
Equals == 61
OscPrefix == <<ESC, 93, 57, 57, Semicolon>>
OscTerminator == 7
MarkerPrefix == <<66, 73, 83, 79, 78, 60>>
MarkerSuffix == 62

\* term_reader::init(): what the receiver of frames that side r sends looks for.
OscFormat(r) == r = "client"
ScanPrefix(r) == IF OscFormat(r) THEN OscPrefix ELSE MarkerPrefix
ScanTerminator(r) == IF OscFormat(r) THEN OscTerminator ELSE MarkerSuffix

NoReassembly == [active |-> FALSE, total |-> 0, expected |-> 0, buf |-> << >>]

\* speculative is always the first match bytes of the prefix.
IdleScan == [inSeq |-> FALSE, match |-> 0, capture |-> << >>, esc |-> FALSE,
             csi |-> FALSE, pending |-> << >>, timer |-> FALSE]

TermWireInit ==
    /\ role \in {"client", "server"}
    /\ line = << >>
    /\ scan = IdleScan
    /\ assem = NoReassembly
    /\ frameq = << >>
    /\ through = << >>
    /\ posted = << >>
    /\ taken = << >>
    /\ raw = << >>
    /\ pieces = 0
    /\ faults = 0
-----------------------------------------------------------------------------
(***************************************************************************)
(* base64 and decimal numbers.                                             *)
(***************************************************************************)
\* kBase64Chars.
Base64Char(v) ==
    CASE v \in 0 .. 25 -> 65 + v
      [] v \in 26 .. 51 -> 71 + v
      [] v \in 52 .. 61 -> v - 4
      [] v = 62 -> 43
      [] v = 63 -> 47

\* make_decode_table(): the value of a character, 64 for none.
Base64Value(c) ==
    CASE c \in 65 .. 90 -> c - 65
      [] c \in 97 .. 122 -> c - 71
      [] c \in 48 .. 57 -> c + 4
      [] c = 43 -> 62
      [] c = 47 -> 63
      [] OTHER -> 64

\* The g-th three bytes as a number, missing ones 0, and its j-th six bits.
Group(bytes, g) ==
    LET at(i) == IF i <= Len(bytes) THEN bytes[i] ELSE 0
    IN at(3 * g + 1) * 65536 + at(3 * g + 2) * 256 + at(3 * g + 3)
Sextet(n, j) ==
    CASE j = 0 -> n \div 262144
      [] j = 1 -> (n \div 4096) % 64
      [] j = 2 -> (n \div 64) % 64
      [] j = 3 -> n % 64

\* base64_encode(): four characters for each three bytes, the last ones padded.
Base64Encode(bytes) ==
    [i \in 1 .. 4 * ((Len(bytes) + 2) \div 3) |->
        LET g == (i - 1) \div 4
            j == (i - 1) % 4
        IN IF 3 * g + j > Len(bytes) THEN Equals ELSE Base64Char(Sextet(Group(bytes, g), j))]

\* base64_decode(): whether it succeeds, and the bytes.
Base64Good(chars) ==
    /\ Len(chars) % 4 = 0
    /\ \A i \in 1 .. Len(chars) :
          \/ Base64Value(chars[i]) < 64
          \/ /\ chars[i] = Equals
             /\ i = Len(chars) \/ (i = Len(chars) - 1 /\ chars[i + 1] = Equals)

Pads(chars) ==
    IF chars = << >> \/ chars[Len(chars)] # Equals THEN 0
    ELSE IF chars[Len(chars) - 1] # Equals THEN 1 ELSE 2

\* The number that the g-th four characters stand for, and its j-th byte.
Quad(chars, g) ==
    LET val(i) == IF chars[i] = Equals THEN 0 ELSE Base64Value(chars[i])
    IN val(4 * g + 1) * 262144 + val(4 * g + 2) * 4096 + val(4 * g + 3) * 64 + val(4 * g + 4)
QuadByte(n, j) ==
    CASE j = 0 -> n \div 65536
      [] j = 1 -> (n \div 256) % 256
      [] j = 2 -> n % 256

Base64Decode(chars) ==
    [i \in 1 .. 3 * (Len(chars) \div 4) - Pads(chars) |->
        QuadByte(Quad(chars, (i - 1) \div 3), (i - 1) % 3)]

\* std::to_string() of a number of at most ten digits.
Power10 == <<1, 10, 100, 1000, 10000, 100000, 1000000, 10000000, 100000000, 1000000000>>
Digits(n) ==
    CHOOSE k \in 1 .. 10 : (k = 1 \/ Power10[k] <= n) /\ (k < 10 => n < Power10[k + 1])
Decimal(n) == [i \in 1 .. Digits(n) |-> 48 + ((n \div Power10[Digits(n) + 1 - i]) % 10)]

\* parse_uint(): at most ten digits, and a number below 2^32.
ParseUint(chars) ==
    LET v[i \in 0 .. Len(chars)] == IF i = 0 THEN 0 ELSE v[i - 1] * 10 + (chars[i] - 48)
    IN v[Len(chars)]

IsUint(chars) ==
    /\ Len(chars) \in 1 .. 10
    /\ \A i \in 1 .. Len(chars) : chars[i] \in 48 .. 57
    /\ ParseUint(chars) \div 65536 < 65536
-----------------------------------------------------------------------------
(***************************************************************************)
(* Sending.                                                                *)
(***************************************************************************)
\* The chunks of send_frame(): how many, where the i-th ends, and its body.
ChunkCount(n) == IF n = 0 THEN 1 ELSE (n + ChunkRawBytes - 1) \div ChunkRawBytes
ChunkEnd(n, i) == IF i * ChunkRawBytes < n THEN i * ChunkRawBytes ELSE n
ChunkBody(frame, i) ==
    LET n == Len(frame)
    IN Decimal(i - 1) \o <<Semicolon>> \o Decimal(ChunkCount(n)) \o <<Semicolon>>
         \o Base64Encode(SubSeq(frame, ChunkEnd(n, i - 1) + 1, ChunkEnd(n, i)))

OscFrame(frame) ==
    LET wire[i \in 0 .. ChunkCount(Len(frame))] ==
            IF i = 0 THEN << >>
            ELSE wire[i - 1] \o (OscPrefix \o ChunkBody(frame, i) \o <<OscTerminator>>)
    IN wire[ChunkCount(Len(frame))]

MarkerFrame(frame) == MarkerPrefix \o Base64Encode(frame) \o <<MarkerSuffix>>

Wire(r, frame) == IF OscFormat(r) THEN OscFrame(frame) ELSE MarkerFrame(frame)

\* Bound: behaviours with a fault have frames of one chunk.  A torn chunk is
\* skipped without ending the reassembly, so that a later client's chunk with
\* the number that is expected completes the torn frame.
Mendable(r, frame) == OscFormat(r) => ChunkCount(Len(frame)) = 1
AllMendable == \A i \in 1 .. Len(posted) : Mendable(role, posted[i])

SendFrame ==
    /\ Len(posted) < MaxTermFrames
    /\ \E n \in TermLengths :
          LET frame == [i \in 1 .. n |-> (16 * (Len(posted) + 1) + i) % 256]
          IN /\ faults > 0 => Mendable(role, frame)
             /\ posted' = Append(posted, frame)
             /\ line' = line \o Wire(role, frame)
    /\ UNCHANGED <<role, scan, assem, frameq, through, taken, raw, pieces, faults>>

\* The assumptions about the constants.  parse_uint() takes numbers below 2^32
\* and TLC counts to 2^31; kMaxCaptureBytes is well above any chunk.
ASSUME TermFramesAssumption ==
    \A n \in TermLengths :
        /\ ChunkCount(n) <= 2147483647
        /\ 2 * Digits(ChunkCount(n)) + 2 + 4 * (ChunkRawBytes \div 3) <= MaxCapture

\* The bytes between the prefix and the terminator of a sequence.
BodyByte(r, b) ==
    Base64Value(b) < 64 \/ b = Equals \/ (OscFormat(r) /\ b = Semicolon)

\* What is written to the terminal between frames is not taken for one: it does
\* not complete a prefix, it ends its CSI sequences, and its terminators end
\* some other sequence, of which a byte cannot be in a frame.  Client to server
\* it does not end with the start of a prefix either: after a mismatch
\* feed_byte() does not start over at an ESC.
Occurs(p, bytes) == \E i \in 0 .. Len(bytes) - Len(p) : \A k \in 1 .. Len(p) : bytes[i + k] = p[k]
TerminalBytes(r, bytes) ==
    LET p == ScanPrefix(r)
        n == Len(bytes)
    IN /\ bytes \in Seq(0 .. 255)
       /\ \A m \in 0 .. Len(p) - 1 : ~Occurs(p, SubSeq(p, 1, m) \o bytes)
       /\ \A i \in 1 .. n : bytes[i] = OpenBracket => \E j \in i + 1 .. n : bytes[j] \in 64 .. 126
       /\ \A i \in 1 .. n : bytes[i] = ScanTerminator(r) =>
             \E j \in 1 .. i - 1 : /\ ~BodyByte(r, bytes[j]) /\ bytes[j] # ScanTerminator(r)
                                   /\ \A k \in 2 .. Len(p) : bytes[j] # p[k]
       /\ OscFormat(r) => \A m \in 1 .. Len(p) - 1 :
             m <= n => \E k \in 1 .. m : bytes[n - m + k] # p[k]

Noise(r) == IF OscFormat(r) THEN OscNoise ELSE MarkerNoise
ASSUME TermNoiseAssumption ==
    \A r \in {"client", "server"} : \A bytes \in Noise(r) : TerminalBytes(r, bytes)

\* send_raw(), and whatever else writes to the terminal.
SendRaw ==
    /\ pieces < MaxNoise
    /\ \E bytes \in Noise(role) :
          /\ line' = line \o bytes
          /\ raw' = raw \o bytes
    /\ pieces' = pieces + 1
    /\ UNCHANGED <<role, scan, assem, frameq, through, posted, taken, faults>>

\* A client is killed: the rest of what it wrote never reaches the pty.
Tear ==
    /\ faults < MaxFaults
    /\ AllMendable
    /\ \E n \in 0 .. Len(line) - 1 : line' = SubSeq(line, 1, n)
    /\ faults' = faults + 1
    /\ UNCHANGED <<role, scan, assem, frameq, through, posted, taken, raw, pieces>>
-----------------------------------------------------------------------------
(***************************************************************************)
(* Receiving.  A reader is a record of the scanner s, the reassembly a and *)
(* the queue q of completed frames.                                        *)
(***************************************************************************)
\* complete_marker(): one frame per marker.
CompleteMarker(rd, body) ==
    IF Base64Good(body) THEN [rd EXCEPT !.q = Append(@, Base64Decode(body))] ELSE rd

\* Mutant of CompleteChunk: the buffer is not cleared between frames.
CompleteChunkKeepsBuffer(rd, seq, total, body) ==
    LET a == IF seq = 0 THEN [rd.a EXCEPT !.active = TRUE, !.expected = 0, !.total = total] ELSE rd.a
        next == [a EXCEPT !.buf = @ \o Base64Decode(body), !.expected = @ + 1]
    IN IF ~Base64Good(body) \/ total = 0 \/ ~a.active \/ seq # a.expected THEN rd
       ELSE IF next.expected = next.total
       THEN [rd EXCEPT !.a = [next EXCEPT !.active = FALSE], !.q = Append(@, next.buf)]
       ELSE [rd EXCEPT !.a = next]

\* complete_chunk(): chunk 0 starts a frame, the others must follow it.
CompleteChunk(rd, seq, total, body) ==
    LET a == IF seq = 0 THEN [NoReassembly EXCEPT !.active = TRUE, !.total = total] ELSE rd.a
        next == [a EXCEPT !.buf = @ \o Base64Decode(body), !.expected = @ + 1]
    IN IF ~Base64Good(body) \/ total = 0 THEN rd
       ELSE IF ~a.active \/ seq # a.expected \/ total # a.total
       THEN [rd EXCEPT !.a = NoReassembly]
       ELSE IF next.expected = next.total
       THEN [rd EXCEPT !.a = NoReassembly, !.q = Append(@, next.buf)]
       ELSE [rd EXCEPT !.a = next]

\* body.find(';', from), 0 for npos.
FindSemicolon(body, from) ==
    LET semis == {i \in from .. Len(body) : body[i] = Semicolon}
    IN IF semis = {} THEN 0 ELSE CHOOSE i \in semis : \A j \in semis : i <= j

\* parse_and_complete(): seq ; total ; base64.
ParseAndComplete(rd, body) ==
    LET first == FindSemicolon(body, 1)
        second == FindSemicolon(body, first + 1)
        seq == SubSeq(body, 1, first - 1)
        total == SubSeq(body, first + 1, second - 1)
    IN IF first # 0 /\ second # 0 /\ IsUint(seq) /\ IsUint(total)
       THEN CompleteChunk(rd, ParseUint(seq), ParseUint(total),
                          SubSeq(body, second + 1, Len(body)))
       ELSE rd

\* complete_sequence().
CompleteSequence(r, rd) ==
    LET done == IF OscFormat(r) THEN ParseAndComplete(rd, rd.s.capture)
                ELSE CompleteMarker(rd, rd.s.capture)
    IN [done EXCEPT !.s = [@ EXCEPT !.capture = << >>, !.inSeq = FALSE, !.match = 0]]

\* term_reader::feed_byte() inside a sequence that the byte does not complete.
FeedInSequence(r, s, b) ==
    IF OscFormat(r) /\ Len(s.capture) >= MaxCapture
    THEN [s EXCEPT !.capture = << >>, !.inSeq = FALSE]
    ELSE [s EXCEPT !.capture = Append(@, b)]

\* feed_byte() inside a CSI sequence.
FeedInCsi(s, b) ==
    [s EXCEPT !.pending = Append(@, b), !.csi = ~(b \in 64 .. 126)]

\* Mutant of FeedPrefix: what was held of the prefix is dropped on a mismatch.
FeedPrefixDropsHeld(r, s, b) ==
    IF b = ScanPrefix(r)[s.match + 1]
    THEN IF s.match + 1 = Len(ScanPrefix(r))
         THEN [s EXCEPT !.inSeq = TRUE, !.capture = << >>, !.match = 0, !.timer = FALSE]
         ELSE [s EXCEPT !.match = @ + 1, !.timer = TRUE]
    ELSE [s EXCEPT !.match = 0, !.timer = FALSE, !.pending = Append(@, b)]

\* feed_byte() on the prefix: the next byte of it, or a mismatch that gives
\* back what was held and looks at the byte again.
FeedPrefix(r, s, b) ==
    IF b = ScanPrefix(r)[s.match + 1]
    THEN IF s.match + 1 = Len(ScanPrefix(r))
         THEN [s EXCEPT !.inSeq = TRUE, !.capture = << >>, !.match = 0, !.timer = FALSE]
         ELSE [s EXCEPT !.match = @ + 1, !.timer = TRUE]
    ELSE LET held == s.pending \o SubSeq(ScanPrefix(r), 1, s.match)
         IN IF b = ESC
            THEN [s EXCEPT !.esc = TRUE, !.match = 0, !.timer = FALSE,
                           !.pending = Append(held, b)]
            ELSE IF b = ScanPrefix(r)[1]
            THEN [s EXCEPT !.match = 1, !.timer = TRUE, !.pending = held]
            ELSE [s EXCEPT !.match = 0, !.timer = FALSE, !.pending = Append(held, b)]

\* feed_byte() outside a sequence.
FeedOutside(r, s, b) ==
    IF s.csi THEN FeedInCsi(s, b)
    ELSE IF s.esc /\ b = OpenBracket
    THEN [s EXCEPT !.esc = FALSE, !.csi = TRUE, !.pending = Append(@, b)]
    ELSE FeedPrefix(r, [s EXCEPT !.esc = FALSE], b)

FeedTermByte(r, rd, b) ==
    IF ~rd.s.inSeq THEN [rd EXCEPT !.s = FeedOutside(r, @, b)]
    ELSE IF b = ScanTerminator(r) THEN CompleteSequence(r, rd)
    ELSE [rd EXCEPT !.s = FeedInSequence(r, @, b)]

FeedTerm(r, rd, bytes) ==
    LET state[i \in 0 .. Len(bytes)] ==
            IF i = 0 THEN rd ELSE FeedTermByte(r, state[i - 1], bytes[i])
    IN state[Len(bytes)]

\* on_read() with n bytes: feed_byte() on each, then flush_pending().
ReadLine(n) ==
    LET rd == FeedTerm(role, [s |-> scan, a |-> assem, q |-> frameq], SubSeq(line, 1, n))
    IN /\ scan' = [rd.s EXCEPT !.pending = << >>]
       /\ assem' = rd.a
       /\ frameq' = rd.q
       /\ through' = through \o rd.s.pending
       /\ line' = SubSeq(line, n + 1, Len(line))
       /\ UNCHANGED <<role, posted, taken, raw, pieces, faults>>

\* on_idle_timeout(): a prefix that is not followed up was terminal bytes.
\* With bytes still in the pty it means that they come later than kIdleFlushMs.
OnIdleTimeout ==
    /\ scan.timer
    /\ IF line = << >> THEN UNCHANGED faults
       ELSE /\ faults < MaxFaults
            /\ AllMendable
            /\ faults' = faults + 1
    /\ through' = through \o SubSeq(ScanPrefix(role), 1, scan.match)
    /\ scan' = [scan EXCEPT !.timer = FALSE, !.match = 0]
    /\ UNCHANGED <<role, line, assem, frameq, posted, taken, raw, pieces>>

\* term_reader::dequeue_frame().
DequeueTermFrame ==
    /\ frameq # << >>
    /\ taken' = Append(taken, Head(frameq))
    /\ frameq' = Tail(frameq)
    /\ UNCHANGED <<role, line, scan, assem, through, posted, raw, pieces, faults>>

TermWireNext ==
    \/ SendFrame \/ SendRaw \/ Tear
    \/ \E n \in 1 .. Len(line) : ReadLine(n)
    \/ OnIdleTimeout
    \/ DequeueTermFrame
-----------------------------------------------------------------------------
\* Number of the frame that came out: the next one of ps after the last-th that
\* has its bytes, 0 if there is none.
FrameNumber(ps, last, frame) ==
    LET later == {i \in last + 1 .. Len(ps) : ps[i] = frame}
    IN IF later = {} THEN 0 ELSE CHOOSE i \in later : \A j \in later : i <= j

\* The numbers of the frames ts that came out of ps.
Numbered(ps, ts) ==
    LET number[k \in 0 .. Len(ts)] ==
            IF k = 0 THEN 0 ELSE FrameNumber(ps, number[k - 1], ts[k])
    IN [k \in 1 .. Len(ts) |-> number[k]]

TermChannel == INSTANCE FrameChannel WITH
    Lossy <- TRUE,
    accepted <- Len(posted),
    delivered <- Numbered(posted, taken),
    over <- FALSE

\* Whatever the terminal carries between frames, wherever a read splits them
\* (feed_byte()) and whenever a client is killed in the middle of one, what
\* dequeue_frame() returns is a frame that was sent, at most once and in order.
TermRefines == TermChannel!Spec

\* With no client killed and no read later than kIdleFlushMs, every frame comes
\* out once its bytes are in; and of the terminal's own bytes none is lost,
\* added or reordered on the way to passthrough().
TermLossless ==
    faults = 0 =>
        /\ line = << >> => taken \o frameq = posted
        /\ IsPrefix(through, raw)
        /\ line = << >> /\ ~scan.timer => through = raw
=============================================================================
