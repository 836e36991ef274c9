---------------------------- MODULE StreamProofs ----------------------------
(***************************************************************************)
(* StreamTransport implements FrameChannel: on every transport, whatever   *)
(* pieces the bytes arrive in and whenever an end closes, the frames come  *)
(* out whole, once, in order, and none behind the reported end.            *)
(*                                                                         *)
(* The argument: all the bytes ever sent are one stream (all), in which    *)
(* the frames lie one behind the other (Laid).  Everything the program     *)
(* holds of it is a piece at a known place (At): the parser's header and   *)
(* payload, the ciphertext held back for the handshake, what the kernel    *)
(* has and what is not written yet.  frame_parser::feed() is followed byte *)
(* by byte, by induction over the bytes (FeedAt).                          *)
(***************************************************************************)
EXTENDS StreamTransport, SeqFacts

-----------------------------------------------------------------------------
(***************************************************************************)
(* Bytes at a place of a stream.                                           *)
(***************************************************************************)
Bytes == Seq(Nat)

\* s is in the stream all, from the byte behind pos on.
At(all, pos, s) ==
    /\ pos + Len(s) <= Len(all)
    /\ \A k \in 1 .. Len(s) : s[k] = all[pos + k]

\* An empty piece is anywhere.
LEMMA AtEmpty ==
    ASSUME NEW all \in Bytes, NEW pos \in 0 .. Len(all)
    PROVE  At(all, pos, << >>)
  BY DEF At, Bytes

\* A stream that grows keeps its pieces.
LEMMA AtGrows ==
    ASSUME NEW all \in Bytes, NEW x \in Bytes, NEW pos \in Nat, NEW s \in Bytes, At(all, pos, s)
    PROVE  At(all \o x, pos, s)
  <1>1. /\ Len(s) \in Nat /\ Len(all) \in Nat /\ Len(x) \in Nat
        /\ Len(all \o x) = Len(all) + Len(x) /\ \A k \in 1 .. Len(all) : (all \o x)[k] = all[k]
    BY ConcatFacts DEF Bytes
  <1>2. \A k \in 1 .. Len(s) : pos + k \in 1 .. Len(all)
    BY <1>1 DEF At
  <1>3. pos + Len(s) <= Len(all) + Len(x)
    BY <1>1 DEF At
  <1> QED BY <1>1, <1>2, <1>3 DEF At

\* What is appended to a stream is at its end.
LEMMA AtEnd ==
    ASSUME NEW all \in Bytes, NEW x \in Bytes
    PROVE  At(all \o x, Len(all), x)
  BY ConcatFacts DEF At, Bytes

\* Two pieces that follow each other.
LEMMA AtJoin ==
    ASSUME NEW all \in Bytes, NEW pos \in Nat, NEW s \in Bytes, NEW t \in Bytes,
           At(all, pos, s), At(all, pos + Len(s), t)
    PROVE  At(all, pos, s \o t)
  <1> DEFINE u == s \o t
             m == Len(s)
             n == Len(t)
  <1>1. /\ m \in Nat /\ n \in Nat /\ Len(u) = m + n /\ Len(all) \in Nat
        /\ (\A k \in 1 .. m : u[k] = s[k]) /\ (\A k \in 1 .. n : u[m + k] = t[k])
    BY ConcatFacts DEF Bytes
  <1>2. /\ pos + m + n <= Len(all)
        /\ (\A k \in 1 .. m : s[k] = all[pos + k]) /\ (\A k \in 1 .. n : t[k] = all[pos + m + k])
    BY DEF At
  <1> HIDE DEF u, m, n
  <1>3. ASSUME NEW k \in 1 .. Len(u) PROVE u[k] = all[pos + k]
    <2>1. CASE k <= m
      BY <1>1, <1>2, <2>1
    <2>2. CASE k > m
      <3>1. k - m \in 1 .. n /\ m + (k - m) = k /\ pos + m + (k - m) = pos + k
        BY <1>1, <2>2
      <3> QED BY <1>1, <1>2, <3>1
    <2> QED BY <1>1, <2>1, <2>2
  <1>4. pos + Len(u) <= Len(all)
    BY <1>1, <1>2
  <1> QED BY <1>3, <1>4 DEF At, u

\* A byte more.
LEMMA AtAppend ==
    ASSUME NEW all \in Bytes, NEW pos \in Nat, NEW s \in Bytes, At(all, pos, s),
           pos + Len(s) < Len(all)
    PROVE  At(all, pos, Append(s, all[pos + Len(s) + 1]))
  <1> DEFINE b == all[pos + Len(s) + 1]
             t == Append(s, b)
  <1>1. Len(s) \in Nat /\ Len(all) \in Nat /\ pos + Len(s) + 1 \in 1 .. Len(all)
    BY DEF Bytes
  <1>2. b \in Nat
    BY <1>1 DEF Bytes
  <1> HIDE DEF b
  <1>3. Len(t) = Len(s) + 1 /\ t[Len(s) + 1] = b /\ \A k \in 1 .. Len(s) : t[k] = s[k]
    BY <1>2 DEF Bytes
  <1> HIDE DEF t
  <1>4. ASSUME NEW k \in 1 .. Len(t) PROVE t[k] = all[pos + k]
    <2>1. CASE k \in 1 .. Len(s)
      BY <1>3, <2>1 DEF At
    <2>2. CASE k = Len(s) + 1
      <3>1. pos + k = pos + Len(s) + 1
        BY <1>1, <2>2
      <3> QED BY <1>3, <2>2, <3>1 DEF b
    <2> QED BY <1>1, <1>3, <2>1, <2>2
  <1>5. pos + Len(t) <= Len(all)
    BY <1>1, <1>3
  <1> QED BY <1>4, <1>5 DEF At, t, b

\* A piece cut in two.
LEMMA AtCut ==
    ASSUME NEW all \in Bytes, NEW pos \in Nat, NEW s \in Bytes, At(all, pos, s),
           NEW n \in 0 .. Len(s)
    PROVE  /\ SubSeq(s, 1, n) \in Bytes /\ Len(SubSeq(s, 1, n)) = n
           /\ SubSeq(s, n + 1, Len(s)) \in Bytes /\ Len(SubSeq(s, n + 1, Len(s))) = Len(s) - n
           /\ At(all, pos, SubSeq(s, 1, n))
           /\ At(all, pos + n, SubSeq(s, n + 1, Len(s)))
  <1> DEFINE a == SubSeq(s, 1, n)
             b == SubSeq(s, n + 1, Len(s))
  <1>1. Len(s) \in Nat /\ n \in Nat /\ n <= Len(s) /\ Len(all) \in Nat
    BY DEF Bytes
  <1>2. a \in Bytes /\ Len(a) = n /\ \A k \in 1 .. n : a[k] = s[k]
    BY <1>1 DEF Bytes
  <1>3. b \in Bytes /\ Len(b) = Len(s) - n /\ \A k \in 1 .. Len(s) - n : b[k] = s[n + k]
    BY <1>1 DEF Bytes
  <1> HIDE DEF a, b
  <1>4. At(all, pos, a)
    <2>1. pos + n <= Len(all) /\ \A k \in 1 .. n : k \in 1 .. Len(s)
      BY <1>1 DEF At
    <2> QED BY <1>2, <2>1 DEF At
  <1>5. At(all, pos + n, b)
    <2>1. (pos + n) + (Len(s) - n) <= Len(all)
      BY <1>1 DEF At
    <2>2. ASSUME NEW k \in 1 .. Len(s) - n PROVE s[n + k] = all[(pos + n) + k]
      <3>1. n + k \in 1 .. Len(s) /\ pos + (n + k) = (pos + n) + k
        BY <1>1
      <3>2. s[n + k] = all[pos + (n + k)]
        BY <3>1 DEF At
      <3> QED BY <3>1, <3>2
    <2> QED BY <1>3, <2>1, <2>2 DEF At
  <1> QED BY <1>2, <1>3, <1>4, <1>5 DEF a, b

\* Two pieces of the same length at the same place.
LEMMA AtSame ==
    ASSUME NEW all \in Bytes, NEW pos \in Nat, NEW s \in Bytes, NEW t \in Bytes,
           At(all, pos, s), At(all, pos, t), Len(s) = Len(t)
    PROVE  s = t
  <1>1. \A k \in 1 .. Len(s) : s[k] = t[k]
    BY DEF At
  <1> QED BY <1>1, SameSeq DEF Bytes
-----------------------------------------------------------------------------
(***************************************************************************)
(* Frames in a stream.                                                     *)
(***************************************************************************)
Frames == {f \in Bytes : FitsPrefix(Len(f))}

\* The frames fs are in the stream all with their prefixes, one behind the
\* other; c[i] is where the i-th one ends.
Laid(all, c, fs) ==
    /\ c \in [0 .. Len(fs) -> Nat]
    /\ c[0] = 0
    /\ c[Len(fs)] = Len(all)
    /\ \A i \in 1 .. Len(fs) : c[i] = c[i - 1] + 4 + Len(fs[i])
    /\ \A i \in 1 .. Len(fs) : At(all, c[i - 1], Encoded(fs[i]))

\* stream_read_frame() and frame_parser read the length that was written.
LEMMA PrefixFacts ==
    ASSUME NEW n \in Nat, FitsPrefix(n)
    PROVE  /\ Prefix(n) \in Bytes /\ Len(Prefix(n)) = 4
           /\ PrefixValue(Prefix(n)) = n
  <1> DEFINE u == n \div 256
             v == (n \div 256) \div 256
             w == ((n \div 256) \div 256) \div 256
             a == w % 256
             b == v % 256
             d == u % 256
             e == n % 256
  <1>1. u \in Nat /\ e \in Nat /\ n = u * 256 + e
    OBVIOUS
  <1>2. Prefix(n) = <<a, b, d, e>>
    BY DEF Prefix
  <1>3. w < 256
    BY DEF FitsPrefix
  <1>4. v = u \div 256 /\ w = v \div 256
    OBVIOUS
  <1> HIDE DEF u, v, w, e
  <1>5. v \in Nat /\ d \in Nat /\ u = v * 256 + d
    BY <1>1, <1>4
  <1>6. w \in Nat /\ b \in Nat /\ v = w * 256 + b
    BY <1>4, <1>5
  <1>7. a = w
    BY <1>3, <1>6
  <1> HIDE DEF a, b, d
  <1>8. a \in Nat /\ ((a * 256 + b) * 256 + d) * 256 + e = n
    BY <1>1, <1>5, <1>6, <1>7
  <1>9. <<a, b, d, e>> \in Seq(Nat) /\ Len(<<a, b, d, e>>) = 4
    BY <1>1, <1>5, <1>6, <1>8
  <1>10. PrefixValue(<<a, b, d, e>>) = ((a * 256 + b) * 256 + d) * 256 + e
    BY DEF PrefixValue
  <1> QED BY <1>2, <1>8, <1>9, <1>10 DEF Bytes

\* A frame with its prefix.
LEMMA EncodedFacts ==
    ASSUME NEW f \in Frames
    PROVE  /\ Encoded(f) \in Bytes /\ Len(Encoded(f)) = 4 + Len(f) /\ Len(f) \in Nat
           /\ \A all \in Bytes, pos \in Nat :
                At(all, pos, Encoded(f)) =>
                  /\ At(all, pos, Prefix(Len(f))) /\ At(all, pos + 4, f)
                  /\ pos + 4 + Len(f) <= Len(all)
  <1> DEFINE n == Len(f)
             p == Prefix(n)
             u == p \o f
  <1>1. FitsPrefix(n) /\ f \in Bytes /\ n \in Nat
    BY DEF Frames, Bytes
  <1>2. p \in Bytes /\ Len(p) = 4
    BY <1>1, PrefixFacts
  <1> HIDE DEF p
  <1>3. /\ u \in Bytes /\ Len(u) = 4 + n
        /\ (\A k \in 1 .. 4 : u[k] = p[k]) /\ (\A k \in 1 .. n : u[4 + k] = f[k])
    <2>1. p \in Seq(Nat) /\ f \in Seq(Nat)
      BY <1>1, <1>2 DEF Bytes
    <2>2. /\ u \in Seq(Nat) /\ Len(u) = Len(p) + Len(f)
          /\ (\A k \in 1 .. Len(p) : u[k] = p[k]) /\ (\A k \in 1 .. Len(f) : u[Len(p) + k] = f[k])
      BY <2>1, ConcatFacts
    <2> QED BY <1>2, <2>2 DEF Bytes
  <1>4. Encoded(f) = u
    BY DEF Encoded, p
  <1> HIDE DEF u
  <1>5. ASSUME NEW all \in Bytes, NEW pos \in Nat, At(all, pos, u)
        PROVE  At(all, pos, p) /\ At(all, pos + 4, f) /\ pos + 4 + n <= Len(all)
    <2>1. Len(all) \in Nat /\ pos + (4 + n) <= Len(all)
      BY <1>3, <1>5 DEF At, Bytes
    <2>2. ASSUME NEW k \in 1 .. 4 PROVE p[k] = all[pos + k]
      <3>1. k \in 1 .. Len(u)
        BY <1>1, <1>3
      <3> QED BY <1>3, <1>5, <3>1 DEF At
    <2>3. ASSUME NEW k \in 1 .. n PROVE f[k] = all[(pos + 4) + k]
      <3>1. 4 + k \in 1 .. Len(u) /\ pos + (4 + k) = (pos + 4) + k
        <4> HIDE DEF n
        <4> QED BY <1>1, <1>3
      <3>2. u[4 + k] = all[pos + (4 + k)]
        BY <1>5, <3>1 DEF At
      <3> QED BY <1>3, <3>1, <3>2
    <2>4. pos + 4 <= Len(all) /\ (pos + 4) + n <= Len(all)
      BY <1>1, <2>1
    <2> QED BY <1>2, <2>2, <2>3, <2>4 DEF At
  <1> QED BY <1>1, <1>3, <1>4, <1>5 DEF p

\* A frame is appended to the stream.
LEMMA LaidAppend ==
    ASSUME NEW all \in Bytes, NEW fs \in Seq(Frames), NEW c, Laid(all, c, fs), NEW f \in Frames
    PROVE  \E d : /\ Laid(all \o Encoded(f), d, Append(fs, f))
                  /\ \A i \in 0 .. Len(fs) : d[i] = c[i]
  <1> DEFINE m == Len(fs)
             x == Encoded(f)
             big == all \o x
             gs == Append(fs, f)
             d == [i \in 0 .. m + 1 |-> IF i = m + 1 THEN Len(big) ELSE c[i]]
  <1>1. x \in Bytes /\ Len(x) = 4 + Len(f) /\ Len(f) \in Nat
    BY EncodedFacts
  <1> HIDE DEF x
  <1>2. big \in Bytes /\ Len(big) = Len(all) + (4 + Len(f)) /\ Len(big) \in Nat /\ Len(all) \in Nat
    <2>1. x \in Seq(Nat) /\ all \in Seq(Nat)
      BY <1>1 DEF Bytes
    <2>2. big \in Seq(Nat) /\ Len(big) = Len(all) + Len(x) /\ Len(all) \in Nat
      BY <2>1, ConcatFacts
    <2> HIDE DEF big
    <2>3. Len(big) \in Nat
      BY <2>2
    <2> QED BY <1>1, <2>2, <2>3 DEF Bytes
  <1>3. m \in Nat /\ Len(gs) = m + 1 /\ gs[m + 1] = f /\ \A i \in 1 .. m : gs[i] = fs[i] /\ fs[i] \in Frames
    OBVIOUS
  <1>4. c \in [0 .. m -> Nat] /\ c[0] = 0 /\ c[m] = Len(all)
    BY DEF Laid
  <1>5. d \in [0 .. m + 1 -> Nat] /\ d[0] = 0 /\ d[m + 1] = Len(big)
        /\ \A i \in 0 .. m : d[i] = c[i]
    <2>1. \A i \in 0 .. m + 1 : i # m + 1 => i \in 0 .. m
      BY <1>3
    <2>2. \A i \in 0 .. m : i \in 0 .. m + 1 /\ i # m + 1
      BY <1>3
    <2>3. 0 \in 0 .. m /\ m + 1 \in 0 .. m + 1
      BY <1>3
    <2> HIDE DEF big
    <2> QED BY <1>2, <1>4, <2>1, <2>2, <2>3
  <1> HIDE DEF d, gs
  <1>6. ASSUME NEW i \in 1 .. m + 1
        PROVE  d[i] = d[i - 1] + 4 + Len(gs[i]) /\ At(big, d[i - 1], Encoded(gs[i]))
    <2>1. CASE i = m + 1
      <3>1. d[i] = Len(big) /\ i - 1 = m /\ m \in 0 .. m /\ gs[i] = f
        BY <1>3, <1>5, <2>1
      <3>2. d[i - 1] = Len(all)
        BY <1>4, <1>5, <3>1
      <3>3. At(big, Len(all), x)
        BY <1>1, AtEnd
      <3> QED BY <1>1, <1>2, <3>1, <3>2, <3>3 DEF x
    <2>2. CASE i # m + 1
      <3>1. i \in 1 .. m /\ i - 1 \in 0 .. m /\ i \in 0 .. m
        BY <1>3, <2>2
      <3>2. d[i] = c[i] /\ d[i - 1] = c[i - 1] /\ gs[i] = fs[i] /\ fs[i] \in Frames /\ c[i - 1] \in Nat
        BY <1>3, <1>4, <1>5, <3>1
      <3>3. c[i] = c[i - 1] + 4 + Len(fs[i]) /\ At(all, c[i - 1], Encoded(fs[i]))
        BY <3>1 DEF Laid
      <3>4. Encoded(fs[i]) \in Bytes
        BY <3>2, EncodedFacts
      <3>5. At(big, c[i - 1], Encoded(fs[i]))
        BY <1>1, <3>2, <3>3, <3>4, AtGrows
      <3> QED BY <3>2, <3>3, <3>5
    <2> QED BY <2>1, <2>2
  <1>7. Laid(big, d, gs)
    BY <1>3, <1>5, <1>6 DEF Laid
  <1> QED BY <1>5, <1>7 DEF x, gs
-----------------------------------------------------------------------------
(***************************************************************************)
(* frame_parser.                                                           *)
(***************************************************************************)
Buffers == [data : Bytes, cap : Nat]

ParserRecs == [hdr : Bytes, left : Nat, partial : Bytes, cap : Nat, out : Seq(Buffers), ok : BOOLEAN]

\* The parser has taken the bytes up to pos: r whole frames, and the start of
\* the next one's prefix, or its prefix and the start of its payload.
ParserAt(p, all, c, fs, r, pos) ==
    /\ r \in 0 .. Len(fs)
    /\ pos \in 0 .. Len(all)
    /\ \/ /\ Len(p.hdr) < 4
          /\ pos = c[r] + Len(p.hdr)
          /\ At(all, c[r], p.hdr)
       \/ /\ Len(p.hdr) = 4
          /\ r < Len(fs)
          /\ p.left # 0
          /\ pos + p.left = c[r + 1]
          /\ pos = c[r] + 4 + Len(p.partial)
          /\ At(all, c[r] + 4, p.partial)

\* The frame that the next byte belongs to.
LEMMA NextFrame ==
    ASSUME NEW all \in Bytes, NEW fs \in Seq(Frames), NEW c, Laid(all, c, fs),
           NEW r \in 0 .. Len(fs), NEW pos \in Nat, c[r] <= pos, pos < Len(all)
    PROVE  /\ r < Len(fs) /\ r + 1 \in 1 .. Len(fs) /\ fs[r + 1] \in Frames
           /\ c[r] \in Nat /\ c[r + 1] = c[r] + 4 + Len(fs[r + 1]) /\ Len(fs[r + 1]) \in Nat
           /\ At(all, c[r], Prefix(Len(fs[r + 1]))) /\ At(all, c[r] + 4, fs[r + 1])
           /\ c[r + 1] <= Len(all) /\ Len(all) \in Nat
  <1>1. Len(fs) \in Nat /\ Len(all) \in Nat /\ r \in Nat
    BY DEF Bytes
  <1>2. c \in [0 .. Len(fs) -> Nat] /\ c[Len(fs)] = Len(all)
    BY DEF Laid
  <1>3. c[r] \in Nat
    BY <1>2
  <1>4. r # Len(fs)
    BY <1>1, <1>2, <1>3
  <1>5. r < Len(fs) /\ r + 1 \in 1 .. Len(fs) /\ (r + 1) - 1 = r
    BY <1>1, <1>4
  <1>6. fs[r + 1] \in Frames
    BY <1>5
  <1>7. c[r + 1] = c[r] + 4 + Len(fs[r + 1]) /\ At(all, c[r], Encoded(fs[r + 1]))
    BY <1>5 DEF Laid
  <1>8. /\ Len(fs[r + 1]) \in Nat /\ c[r] + 4 + Len(fs[r + 1]) <= Len(all)
        /\ At(all, c[r], Prefix(Len(fs[r + 1]))) /\ At(all, c[r] + 4, fs[r + 1])
    BY <1>3, <1>6, <1>7, EncodedFacts
  <1> QED BY <1>1, <1>3, <1>5, <1>6, <1>7, <1>8

\* What a byte does to the parser: the frame goes on, it is complete, or it is
\* over-long.
FedAt(q, p, all, c, fs, r, pos) ==
    /\ q \in ParserRecs
    /\ \/ q.ok /\ q.out = p.out /\ ParserAt(q, all, c, fs, r, pos)
       \/ /\ q.ok /\ r < Len(fs) /\ ParserAt(q, all, c, fs, r + 1, pos)
          /\ \E b \in Buffers : b.data = fs[r + 1] /\ q.out = Append(p.out, b)
       \/ ~q.ok /\ q.out = p.out /\ \E i \in 1 .. Len(fs) : Len(fs[i]) > MaxFrame

\* A complete frame leaves the parser at the start of the next one.
LEMMA CompletedAt ==
    ASSUME NEW all \in Bytes, NEW fs \in Seq(Frames), NEW c, Laid(all, c, fs),
           NEW r \in 0 .. Len(fs), r < Len(fs), NEW p \in ParserRecs, p.ok,
           p.partial = fs[r + 1]
    PROVE  /\ Completed(p) \in ParserRecs /\ Completed(p).ok
           /\ ParserAt(Completed(p), all, c, fs, r + 1, c[r + 1])
           /\ \E b \in Buffers : b.data = fs[r + 1] /\ Completed(p).out = Append(p.out, b)
  <1> DEFINE b == [data |-> p.partial, cap |-> p.cap]
             q == [p EXCEPT !.hdr = << >>, !.partial = << >>, !.cap = 0, !.out = Append(@, b)]
  <1>1. Completed(p) = q
    BY DEF Completed
  <1>2. b \in Buffers /\ b.data = fs[r + 1]
    BY DEF ParserRecs, Buffers
  <1> HIDE DEF b
  <1>3. << >> \in Bytes /\ Append(p.out, b) \in Seq(Buffers)
    BY <1>2 DEF ParserRecs, Bytes
  <1>4. q \in ParserRecs /\ q.ok = p.ok /\ q.hdr = << >> /\ q.out = Append(p.out, b)
    BY <1>3 DEF ParserRecs
  <1> HIDE DEF q
  <1>5. Len(fs) \in Nat /\ r \in Nat /\ r + 1 \in 0 .. Len(fs) /\ r + 1 \in 1 .. Len(fs)
    OBVIOUS
  <1>6. c[r + 1] \in Nat /\ c[r + 1] <= Len(all) /\ Len(all) \in Nat
    <2>1. c \in [0 .. Len(fs) -> Nat] /\ Len(all) \in Nat
      BY DEF Laid, Bytes
    <2>2. c[r + 1] = c[r] + 4 + Len(fs[r + 1]) /\ At(all, c[r], Encoded(fs[r + 1]))
      BY <1>5 DEF Laid
    <2>3. fs[r + 1] \in Frames /\ c[r] \in Nat /\ c[r + 1] \in Nat
      BY <1>5, <2>1
    <2>4. c[r] + 4 + Len(fs[r + 1]) <= Len(all)
      BY <2>2, <2>3, EncodedFacts
    <2> QED BY <2>1, <2>2, <2>3, <2>4
  <1>7. Len(q.hdr) = 0 /\ c[r + 1] = c[r + 1] + 0 /\ At(all, c[r + 1], q.hdr)
    <2>1. c[r + 1] \in 0 .. Len(all)
      BY <1>6
    <2>2. At(all, c[r + 1], << >>)
      BY <2>1, AtEmpty
    <2> QED BY <1>4, <1>6, <2>2
  <1>8. ParserAt(q, all, c, fs, r + 1, c[r + 1])
    BY <1>5, <1>6, <1>7 DEF ParserAt
  <1> QED BY <1>1, <1>2, <1>4, <1>8

\* A byte of a prefix.
LEMMA HeaderByte ==
    ASSUME NEW all \in Bytes, NEW fs \in Seq(Frames), NEW c, Laid(all, c, fs),
           NEW r, NEW pos, NEW p \in ParserRecs, p.ok,
           ParserAt(p, all, c, fs, r, pos), pos < Len(all), Len(p.hdr) < 4
    PROVE  FedAt(FeedByte(p, all[pos + 1]), p, all, c, fs, r, pos + 1)
  <1> DEFINE b == all[pos + 1]
             hdr == Append(p.hdr, b)
             f == fs[r + 1]
             n == Len(f)
  <1>1. r \in 0 .. Len(fs) /\ pos = c[r] + Len(p.hdr) /\ At(all, c[r], p.hdr) /\ pos \in Nat
        /\ pos + 1 \in 1 .. Len(all) /\ pos + 1 \in 0 .. Len(all) /\ Len(all) \in Nat
    <2>1. r \in 0 .. Len(fs) /\ pos \in 0 .. Len(all) /\ Len(all) \in Nat
      BY DEF ParserAt, Bytes
    <2>2. Len(p.hdr) # 4
      <3>1. p.hdr \in Seq(Nat)
        BY DEF ParserRecs, Bytes
      <3> DEFINE k == Len(p.hdr)
      <3>2. k \in Nat /\ k < 4
        BY <3>1
      <3> HIDE DEF k
      <3>3. k # 4
        BY <3>2
      <3> QED BY <3>3 DEF k
    <2>3. pos = c[r] + Len(p.hdr) /\ At(all, c[r], p.hdr)
      BY <2>2 DEF ParserAt
    <2>4. pos \in Nat /\ pos + 1 \in 1 .. Len(all) /\ pos + 1 \in 0 .. Len(all)
      BY <2>1
    <2> QED BY <2>1, <2>3, <2>4
  <1>2. p.hdr \in Bytes /\ Len(p.hdr) \in Nat /\ p.ok = TRUE
    BY DEF ParserRecs, Bytes
  <1>3. c[r] \in Nat /\ r \in Nat /\ Len(fs) \in Nat
    BY <1>1 DEF Laid
  <1>4. c[r] <= pos
    BY <1>1, <1>2, <1>3
  <1>5. /\ r < Len(fs) /\ r + 1 \in 1 .. Len(fs) /\ f \in Frames
        /\ c[r + 1] = c[r] + 4 + n /\ n \in Nat
        /\ At(all, c[r], Prefix(n)) /\ At(all, c[r] + 4, f) /\ c[r + 1] <= Len(all)
    BY <1>1, <1>4, NextFrame
  <1>6. b \in Nat
    BY <1>1 DEF Bytes
  <1>7. At(all, c[r], hdr)
    <2>1. c[r] + Len(p.hdr) < Len(all) /\ pos + 1 = c[r] + Len(p.hdr) + 1
      BY <1>1
    <2>2. At(all, c[r], Append(p.hdr, all[c[r] + Len(p.hdr) + 1]))
      BY <1>1, <1>2, <1>3, <2>1, AtAppend
    <2> QED BY <2>1, <2>2
  <1> HIDE DEF b
  <1>8. hdr \in Bytes /\ Len(hdr) = Len(p.hdr) + 1
    BY <1>2, <1>6 DEF Bytes
  <1> HIDE DEF hdr, f, n
  <1>9. pos + 1 = c[r] + Len(hdr)
    BY <1>1, <1>2, <1>3, <1>8
  <1>10. CASE Len(hdr) < 4
    <2> DEFINE q == [p EXCEPT !.hdr = hdr]
    <2>1. FeedByte(p, b) = q
      BY <1>2, <1>10 DEF FeedByte, hdr
    <2>2. q \in ParserRecs /\ q.hdr = hdr /\ q.ok = p.ok /\ q.out = p.out
      BY <1>8 DEF ParserRecs
    <2> HIDE DEF q
    <2>3. ParserAt(q, all, c, fs, r, pos + 1)
      BY <1>1, <1>7, <1>9, <1>10, <2>2 DEF ParserAt
    <2>4. FedAt(q, p, all, c, fs, r, pos + 1)
      BY <2>2, <2>3 DEF FedAt
    <2> QED BY <2>1, <2>4 DEF b
  <1>11. CASE ~(Len(hdr) < 4)
    <2>1. Len(hdr) = 4 /\ pos + 1 = c[r] + 4
      BY <1>2, <1>8, <1>9, <1>11
    <2>2. PrefixValue(hdr) = n
      <3>1. Prefix(n) \in Bytes /\ Len(Prefix(n)) = 4 /\ PrefixValue(Prefix(n)) = n
        BY <1>5, PrefixFacts DEF Frames, n
      <3>2. hdr = Prefix(n)
        BY <1>3, <1>5, <1>7, <1>8, <2>1, <3>1, AtSame
      <3> QED BY <3>1, <3>2
    <2>3. CASE n > MaxFrame
      <3> DEFINE q == [p EXCEPT !.hdr = hdr, !.left = n, !.ok = FALSE]
      <3>1. FeedByte(p, b) = q
        BY <1>2, <1>11, <2>2, <2>3 DEF FeedByte, hdr
      <3>2. q \in ParserRecs /\ q.ok = FALSE /\ q.out = p.out
        BY <1>5, <1>8 DEF ParserRecs
      <3> HIDE DEF q
      <3>3. \E i \in 1 .. Len(fs) : Len(fs[i]) > MaxFrame
        BY <1>5, <2>3 DEF f, n
      <3>4. FedAt(q, p, all, c, fs, r, pos + 1)
        BY <3>2, <3>3 DEF FedAt
      <3> QED BY <3>1, <3>4 DEF b
    <2>4. CASE ~(n > MaxFrame)
      <3> DEFINE cap == Larger(p.cap, n)
                 q == [p EXCEPT !.hdr = hdr, !.left = n, !.partial = << >>, !.cap = cap]
      <3>1. cap \in Nat /\ << >> \in Bytes
        BY <1>5 DEF Larger, ParserRecs, Bytes
      <3>2. FeedByte(p, b) = IF n = 0 THEN Completed(q) ELSE q
        BY <1>2, <1>11, <2>2, <2>4 DEF FeedByte, hdr
      <3> HIDE DEF cap
      <3>3. q \in ParserRecs /\ q.ok = TRUE /\ q.out = p.out /\ q.hdr = hdr /\ q.left = n
            /\ q.partial = << >>
        BY <1>2, <1>5, <1>8, <3>1 DEF ParserRecs
      <3> HIDE DEF q
      <3>4. CASE n = 0
        <4>1. f = << >>
          BY <1>5, <3>4 DEF n, Frames, Bytes
        <4>2. pos + 1 = c[r + 1]
          BY <1>3, <1>5, <2>1, <3>4
        <4>3. /\ Completed(q) \in ParserRecs /\ Completed(q).ok
              /\ ParserAt(Completed(q), all, c, fs, r + 1, pos + 1)
              /\ \E x \in Buffers : x.data = fs[r + 1] /\ Completed(q).out = Append(p.out, x)
          <5>1. q.partial = fs[r + 1] /\ q.ok
            BY <3>3, <4>1 DEF f
          <5>2. /\ Completed(q) \in ParserRecs /\ Completed(q).ok
                /\ ParserAt(Completed(q), all, c, fs, r + 1, c[r + 1])
                /\ \E x \in Buffers : x.data = fs[r + 1] /\ Completed(q).out = Append(q.out, x)
            BY <1>1, <1>5, <3>3, <5>1, CompletedAt
          <5> QED BY <3>3, <4>2, <5>2
        <4>4. FedAt(Completed(q), p, all, c, fs, r, pos + 1)
          BY <1>5, <4>3 DEF FedAt
        <4> QED BY <3>2, <3>4, <4>4 DEF b
      <3>5. CASE n # 0
        <4>1. (pos + 1) + n = c[r + 1] /\ pos + 1 = c[r] + 4 + 0
          BY <1>1, <1>3, <1>5, <2>1
        <4>2. At(all, c[r] + 4, << >>)
          <5>1. c[r] + 4 \in 0 .. Len(all)
            BY <1>1, <2>1
          <5> QED BY <5>1, AtEmpty
        <4>3. ParserAt(q, all, c, fs, r, pos + 1)
          <5>1. Len(q.partial) = 0 /\ Len(q.hdr) = 4
            BY <2>1, <3>3
          <5> QED BY <1>1, <1>5, <3>3, <3>5, <4>1, <4>2, <5>1 DEF ParserAt
        <4>4. FedAt(q, p, all, c, fs, r, pos + 1)
          BY <3>3, <4>3 DEF FedAt
        <4> QED BY <3>2, <3>5, <4>4 DEF b
      <3> QED BY <3>4, <3>5
    <2> QED BY <2>3, <2>4
  <1> QED BY <1>10, <1>11

\* A byte of a payload.
LEMMA PayloadByte ==
    ASSUME NEW all \in Bytes, NEW fs \in Seq(Frames), NEW c, Laid(all, c, fs),
           NEW r, NEW pos, NEW p \in ParserRecs, p.ok,
           ParserAt(p, all, c, fs, r, pos), pos < Len(all), ~(Len(p.hdr) < 4)
    PROVE  FedAt(FeedByte(p, all[pos + 1]), p, all, c, fs, r, pos + 1)
  <1> DEFINE b == all[pos + 1]
             f == fs[r + 1]
             part == Append(p.partial, b)
             q == [p EXCEPT !.partial = part, !.left = p.left - 1]
  <1>1. /\ r \in 0 .. Len(fs) /\ r < Len(fs) /\ p.left # 0 /\ pos + p.left = c[r + 1]
        /\ pos = c[r] + 4 + Len(p.partial) /\ At(all, c[r] + 4, p.partial)
        /\ Len(p.hdr) = 4 /\ pos \in 0 .. Len(all)
    BY DEF ParserAt
  <1>2. p.partial \in Bytes /\ Len(p.partial) \in Nat /\ p.left \in Nat /\ p.ok = TRUE
    BY DEF ParserRecs, Bytes
  <1>3. c[r] \in Nat /\ r \in Nat /\ Len(fs) \in Nat /\ Len(all) \in Nat /\ pos \in Nat
        /\ pos + 1 \in 1 .. Len(all) /\ pos + 1 \in 0 .. Len(all)
    <2>1. c[r] \in Nat
      BY <1>1 DEF Laid
    <2>2. Len(fs) \in Nat /\ Len(all) \in Nat
      BY DEF Bytes
    <2> QED BY <1>1, <2>1, <2>2
  <1>4. c[r] <= pos
    BY <1>1, <1>2, <1>3
  <1>5. /\ r + 1 \in 1 .. Len(fs) /\ f \in Frames /\ c[r + 1] = c[r] + 4 + Len(f)
        /\ Len(f) \in Nat /\ At(all, c[r] + 4, f)
    BY <1>1, <1>3, <1>4, NextFrame
  <1>6. b \in Nat
    BY <1>3 DEF Bytes
  <1>7. At(all, c[r] + 4, part)
    <2>1. c[r] + 4 \in Nat /\ (c[r] + 4) + Len(p.partial) < Len(all)
          /\ pos + 1 = (c[r] + 4) + Len(p.partial) + 1
      BY <1>1, <1>2, <1>3
    <2> QED BY <1>1, <1>2, <2>1, AtAppend
  <1> HIDE DEF b
  <1>8. part \in Bytes /\ Len(part) = Len(p.partial) + 1
    BY <1>2, <1>6 DEF Bytes
  <1>9. FeedByte(p, b) = IF p.left - 1 = 0 THEN Completed(q) ELSE q
    <2>1. q.left = p.left - 1
      BY DEF ParserRecs
    <2>2. q = [p EXCEPT !.partial = Append(@, b), !.left = @ - 1]
      BY DEF ParserRecs
    <2> HIDE DEF q
    <2> QED BY <1>2, <2>1, <2>2 DEF FeedByte
  <1> HIDE DEF part, f
  <1>10. q \in ParserRecs /\ q.ok = TRUE /\ q.out = p.out /\ q.hdr = p.hdr /\ q.left = p.left - 1
         /\ q.partial = part
    <2>1. p.left - 1 \in Nat
      BY <1>1, <1>2
    <2> QED BY <1>2, <1>8, <2>1 DEF ParserRecs
  <1> HIDE DEF q
  <1>11. (pos + 1) + (p.left - 1) = c[r + 1] /\ pos + 1 = c[r] + 4 + Len(part)
    <2> DEFINE k == p.left
               m == Len(p.partial)
               x == c[r]
               y == c[r + 1]
               z == Len(part)
    <2>1. k \in Nat /\ m \in Nat /\ x \in Nat /\ pos \in Nat /\ pos + k = y /\ pos = x + 4 + m
          /\ z = m + 1
      BY <1>1, <1>2, <1>3, <1>8
    <2> HIDE DEF k, m, x, y, z
    <2>2. (pos + 1) + (k - 1) = y /\ pos + 1 = x + 4 + z
      BY <2>1
    <2> QED BY <2>2 DEF k, m, x, y, z
  <1>12. CASE p.left - 1 = 0
    <2>1. pos + 1 = c[r + 1] /\ Len(part) = Len(f)
      <3> DEFINE k == p.left - 1
                 x == c[r]
                 y == c[r + 1]
                 z == Len(part)
                 w == Len(f)
      <3>1. k = 0 /\ x \in Nat /\ z \in Nat /\ w \in Nat /\ (pos + 1) + k = y /\ pos + 1 = x + 4 + z
            /\ y = x + 4 + w /\ pos \in Nat
        BY <1>2, <1>3, <1>5, <1>8, <1>11, <1>12
      <3> HIDE DEF k, x, y, z, w
      <3>2. pos + 1 = y /\ z = w
        BY <3>1
      <3> QED BY <3>2 DEF y, z, w
    <2>2. part = f
      <3>1. c[r] + 4 \in Nat /\ f \in Bytes
        BY <1>3, <1>5 DEF Frames
      <3> QED BY <1>5, <1>7, <1>8, <2>1, <3>1, AtSame
    <2>3. /\ Completed(q) \in ParserRecs /\ Completed(q).ok
          /\ ParserAt(Completed(q), all, c, fs, r + 1, pos + 1)
          /\ \E x \in Buffers : x.data = fs[r + 1] /\ Completed(q).out = Append(p.out, x)
      <3>1. q.partial = fs[r + 1] /\ q.ok
        BY <1>10, <2>2 DEF f
      <3>2. /\ Completed(q) \in ParserRecs /\ Completed(q).ok
            /\ ParserAt(Completed(q), all, c, fs, r + 1, c[r + 1])
            /\ \E x \in Buffers : x.data = fs[r + 1] /\ Completed(q).out = Append(q.out, x)
        BY <1>1, <1>10, <3>1, CompletedAt
      <3> QED BY <1>10, <2>1, <3>2
    <2>4. FedAt(Completed(q), p, all, c, fs, r, pos + 1)
      BY <1>1, <2>3 DEF FedAt
    <2> QED BY <1>9, <1>12, <2>4 DEF b
  <1>13. CASE p.left - 1 # 0
    <2>1. ParserAt(q, all, c, fs, r, pos + 1)
      BY <1>1, <1>3, <1>7, <1>10, <1>11, <1>13 DEF ParserAt
    <2>2. FedAt(q, p, all, c, fs, r, pos + 1)
      BY <1>10, <2>1 DEF FedAt
    <2> QED BY <1>9, <1>13, <2>2 DEF b
  <1> QED BY <1>12, <1>13

\* The buffers hold the frames behind the r0-th, up to the r-th.
Continues(buffers, fs, r0, r) ==
    /\ Len(buffers) = r - r0
    /\ \A k \in 1 .. r - r0 : buffers[k].data = fs[r0 + k]

\* What the parser has passed on since it was at the end of frame r0.
RunAt(q, all, c, fs, r0, pos) ==
    /\ q \in ParserRecs
    /\ \E r \in r0 .. Len(fs) :
          /\ Continues(q.out, fs, r0, r)
          /\ q.ok => ParserAt(q, all, c, fs, r, pos)
    /\ ~q.ok => \E i \in 1 .. Len(fs) : Len(fs[i]) > MaxFrame

\* A byte more.
LEMMA RunByte ==
    ASSUME NEW all \in Bytes, NEW fs \in Seq(Frames), NEW c, Laid(all, c, fs),
           NEW r0 \in 0 .. Len(fs), NEW pos \in Nat, pos < Len(all), NEW p,
           RunAt(p, all, c, fs, r0, pos)
    PROVE  RunAt(FeedByte(p, all[pos + 1]), all, c, fs, r0, pos + 1)
  <1> DEFINE q == FeedByte(p, all[pos + 1])
  <1>1. PICK r \in r0 .. Len(fs) : /\ Len(p.out) = r - r0
                                   /\ \A k \in 1 .. r - r0 : p.out[k].data = fs[r0 + k]
                                   /\ p.ok => ParserAt(p, all, c, fs, r, pos)
    BY DEF RunAt, Continues
  <1>2. p \in ParserRecs /\ p.ok \in BOOLEAN /\ p.out \in Seq(Buffers)
    BY DEF RunAt, ParserRecs
  <1>3. Len(fs) \in Nat /\ r0 \in Nat /\ r \in Nat /\ r >= r0 /\ r <= Len(fs)
    OBVIOUS
  <1>4. CASE ~p.ok
    <2>1. q = p
      BY <1>4 DEF FeedByte
    <2> QED BY <1>4, <2>1 DEF RunAt
  <1>5. CASE p.ok
    <2>1. FedAt(q, p, all, c, fs, r, pos + 1)
      <3>1. ParserAt(p, all, c, fs, r, pos)
        BY <1>1, <1>5
      <3>2. CASE Len(p.hdr) < 4
        BY <1>2, <1>5, <3>1, <3>2, HeaderByte
      <3>3. CASE ~(Len(p.hdr) < 4)
        BY <1>2, <1>5, <3>1, <3>3, PayloadByte
      <3> QED BY <3>2, <3>3
    <2> HIDE DEF q
    <2>0. q \in ParserRecs
      BY <2>1 DEF FedAt
    <2>2. CASE q.ok /\ q.out = p.out /\ ParserAt(q, all, c, fs, r, pos + 1)
      <3>1. RunAt(q, all, c, fs, r0, pos + 1)
        BY <1>1, <2>0, <2>2 DEF RunAt, Continues
      <3> QED BY <3>1 DEF q
    <2>3. CASE ~q.ok /\ q.out = p.out /\ \E i \in 1 .. Len(fs) : Len(fs[i]) > MaxFrame
      <3>1. RunAt(q, all, c, fs, r0, pos + 1)
        BY <1>1, <2>0, <2>3 DEF RunAt, Continues
      <3> QED BY <3>1 DEF q
    <2>4. CASE /\ q.ok /\ r < Len(fs) /\ ParserAt(q, all, c, fs, r + 1, pos + 1)
               /\ \E b \in Buffers : b.data = fs[r + 1] /\ q.out = Append(p.out, b)
      <3>1. PICK b \in Buffers : b.data = fs[r + 1] /\ q.out = Append(p.out, b)
        BY <2>4
      <3> DEFINE n == Len(p.out)
      <3>2. /\ n \in Nat /\ Len(q.out) = n + 1 /\ q.out[n + 1] = b
            /\ \A k \in 1 .. n : q.out[k] = p.out[k]
        BY <1>2, <3>1
      <3>3. n = r - r0
        BY <1>1
      <3> HIDE DEF n
      <3>4. r + 1 \in r0 .. Len(fs) /\ (r + 1) - r0 = n + 1 /\ r0 + (n + 1) = r + 1
        BY <1>3, <2>4, <3>2, <3>3
      <3>5. ASSUME NEW k \in 1 .. (r + 1) - r0 PROVE q.out[k].data = fs[r0 + k]
        <4>1. CASE k = n + 1
          BY <3>1, <3>2, <3>4, <4>1
        <4>2. CASE k # n + 1
          <5>1. k \in 1 .. n /\ k \in 1 .. r - r0
            BY <3>2, <3>3, <3>4, <4>2
          <5> QED BY <1>1, <3>2, <5>1
        <4> QED BY <4>1, <4>2
      <3>6. Len(q.out) = (r + 1) - r0
        BY <3>2, <3>4
      <3>7. RunAt(q, all, c, fs, r0, pos + 1)
        BY <2>0, <2>4, <3>4, <3>5, <3>6 DEF RunAt, Continues
      <3> QED BY <3>7 DEF q
    <2> QED BY <2>1, <2>2, <2>3, <2>4 DEF FedAt
  <1> QED BY <1>2, <1>4, <1>5

\* The states of the parser over some bytes.
Fresh(p) == [p EXCEPT !.out = << >>, !.ok = TRUE]
IsRun(st, p, bytes, n) ==
    st = [i \in 0 .. n |-> IF i = 0 THEN Fresh(p) ELSE FeedByte(st[i - 1], bytes[i])]

\* They exist, so that feed() is what its definition says.
LEMMA RunExists ==
    ASSUME NEW p, NEW bytes
    PROVE  \A n \in Nat : \E st : IsRun(st, p, bytes, n)
  <1> DEFINE T == {n \in Nat : \E st : IsRun(st, p, bytes, n)}
  <1>1. 0 \in T
    <2> DEFINE st == [i \in 0 .. 0 |-> Fresh(p)]
    <2>1. \A i \in 0 .. 0 : i = 0
      OBVIOUS
    <2>2. st = [i \in 0 .. 0 |-> IF i = 0 THEN Fresh(p) ELSE FeedByte(st[i - 1], bytes[i])]
      BY <2>1
    <2> QED BY <2>2 DEF IsRun
  <1>2. ASSUME NEW n \in T PROVE n + 1 \in T
    <2>1. PICK st : IsRun(st, p, bytes, n)
      OBVIOUS
    <2>2. n \in Nat
      OBVIOUS
    <2> DEFINE next == [i \in 0 .. n + 1 |-> IF i = n + 1 THEN FeedByte(st[n], bytes[n + 1]) ELSE st[i]]
               again == [i \in 0 .. n + 1 |-> IF i = 0 THEN Fresh(p)
                                              ELSE FeedByte(next[i - 1], bytes[i])]
    <2>3. ASSUME NEW i \in 0 .. n + 1 PROVE next[i] = again[i]
      <3>1. CASE i = n + 1
        <4>1. next[i] = FeedByte(st[n], bytes[n + 1]) /\ i # 0 /\ i - 1 = n /\ n \in 0 .. n + 1
              /\ n # n + 1
          BY <2>2, <3>1
        <4>2. next[n] = st[n]
          BY <4>1
        <4> HIDE DEF next
        <4> QED BY <3>1, <4>1, <4>2
      <3>2. CASE i = 0
        <4>1. 0 \in 0 .. n /\ 0 # n + 1
          BY <2>2
        <4>2. next[0] = st[0] /\ st[0] = Fresh(p)
          BY <2>1, <3>2, <4>1 DEF IsRun
        <4> HIDE DEF next
        <4> QED BY <3>2, <4>2
      <3>3. CASE i # n + 1 /\ i # 0
        <4>1. i \in 0 .. n /\ i - 1 \in 0 .. n + 1 /\ i - 1 # n + 1
          BY <2>2, <3>3
        <4>2. next[i] = st[i] /\ next[i - 1] = st[i - 1]
          BY <3>3, <4>1
        <4>3. st[i] = FeedByte(st[i - 1], bytes[i])
          BY <2>1, <3>3, <4>1 DEF IsRun
        <4> HIDE DEF next
        <4> QED BY <3>3, <4>2, <4>3
      <3> QED BY <3>1, <3>2, <3>3
    <2>4. next = again
      BY <2>3
    <2>5. IsRun(next, p, bytes, n + 1)
      <3> HIDE DEF next
      <3> QED BY <2>4 DEF IsRun
    <2> QED BY <2>2, <2>5
  <1> HIDE DEF T
  <1>3. T = Nat
    <2>1. T \in SUBSET Nat
      BY DEF T
    <2> QED BY <1>1, <1>2, <2>1, SetInduction
  <1> QED BY <1>3 DEF T

\* Feed is the last of these states.
LEMMA FeedUnfolds ==
    ASSUME NEW p, NEW bytes \in Bytes
    PROVE  \E st : IsRun(st, p, bytes, Len(bytes)) /\ Feed(p, bytes) = st[Len(bytes)]
  <1> DEFINE n == Len(bytes)
             st == CHOOSE state : state = [i \in 0 .. n |->
                       IF i = 0 THEN Fresh(p) ELSE FeedByte(state[i - 1], bytes[i])]
  <1>1. n \in Nat
    BY DEF Bytes
  <1>2. \E g : IsRun(g, p, bytes, n)
    BY <1>1, RunExists
  <1>3. IsRun(st, p, bytes, n)
    BY <1>2 DEF IsRun
  <1>4. Feed(p, bytes) = st[n]
    BY DEF Feed, Fresh
  <1> QED BY <1>3, <1>4

\* frame_parser::feed(): a piece of the stream of any size.
LEMMA FeedAt ==
    ASSUME NEW all \in Bytes, NEW fs \in Seq(Frames), NEW c, Laid(all, c, fs),
           NEW r0, NEW pos, NEW p \in ParserRecs, ParserAt(p, all, c, fs, r0, pos),
           NEW bytes \in Bytes, At(all, pos, bytes)
    PROVE  RunAt(Feed(p, bytes), all, c, fs, r0, pos + Len(bytes))
  <1> DEFINE n == Len(bytes)
  <1>1. PICK st : IsRun(st, p, bytes, n) /\ Feed(p, bytes) = st[n]
    BY FeedUnfolds
  <1>2. n \in Nat /\ Len(all) \in Nat /\ Len(fs) \in Nat
    BY DEF Bytes
  <1>3. r0 \in 0 .. Len(fs) /\ pos \in 0 .. Len(all)
    BY DEF ParserAt
  <1>4. pos + n <= Len(all) /\ \A k \in 1 .. n : bytes[k] = all[pos + k]
    BY DEF At
  <1>5. RunAt(Fresh(p), all, c, fs, r0, pos)
    <2>1. << >> \in Seq(Buffers) /\ Len(<< >>) = 0
      OBVIOUS
    <2> DEFINE q == Fresh(p)
    <2>2. q \in ParserRecs /\ q.ok = TRUE /\ q.out = << >> /\ q.hdr = p.hdr /\ q.left = p.left
          /\ q.partial = p.partial
      BY <2>1 DEF ParserRecs, Fresh
    <2> HIDE DEF q
    <2>3. ParserAt(q, all, c, fs, r0, pos)
      BY <2>2 DEF ParserAt
    <2>4. r0 \in r0 .. Len(fs) /\ r0 - r0 = 0 /\ \A k \in 1 .. r0 - r0 : FALSE
      BY <1>2, <1>3
    <2>5. RunAt(q, all, c, fs, r0, pos)
      BY <2>1, <2>2, <2>3, <2>4 DEF RunAt, Continues
    <2> QED BY <2>5 DEF q
  <1> HIDE DEF n
  <1> DEFINE T == {i \in Nat : i <= n => RunAt(st[i], all, c, fs, r0, pos + i)}
  <1>6. 0 \in T
    <2>1. 0 \in 0 .. n /\ pos + 0 = pos
      BY <1>2, <1>3
    <2>2. st[0] = Fresh(p)
      BY <1>1, <2>1 DEF IsRun
    <2> QED BY <1>5, <2>1, <2>2
  <1>7. ASSUME NEW i \in T PROVE i + 1 \in T
    <2> SUFFICES ASSUME i + 1 <= n PROVE RunAt(st[i + 1], all, c, fs, r0, pos + (i + 1))
      OBVIOUS
    <2>1. i \in Nat /\ i <= n /\ i + 1 \in 0 .. n /\ i + 1 # 0 /\ (i + 1) - 1 = i /\ i + 1 \in 1 .. n
      BY <1>2
    <2>2. RunAt(st[i], all, c, fs, r0, pos + i)
      BY <2>1
    <2>3. st[i + 1] = FeedByte(st[i], bytes[i + 1])
      BY <1>1, <2>1 DEF IsRun
    <2>4. pos + i \in Nat /\ pos + i < Len(all) /\ (pos + i) + 1 = pos + (i + 1)
      BY <1>2, <1>3, <1>4, <2>1
    <2>5. bytes[i + 1] = all[(pos + i) + 1]
      BY <1>4, <2>1, <2>4
    <2>6. RunAt(FeedByte(st[i], all[(pos + i) + 1]), all, c, fs, r0, (pos + i) + 1)
      BY <1>3, <2>2, <2>4, RunByte
    <2> QED BY <2>3, <2>4, <2>5, <2>6
  <1> HIDE DEF T
  <1>8. T = Nat
    <2>1. T \in SUBSET Nat
      BY DEF T
    <2> QED BY <1>6, <1>7, <2>1, SetInduction
  <1>9. RunAt(st[n], all, c, fs, r0, pos + n)
    BY <1>2, <1>8 DEF T
  <1> QED BY <1>1, <1>9 DEF n
-----------------------------------------------------------------------------
(***************************************************************************)
(* The life of the two ends.                                               *)
(***************************************************************************)
EndRecs == [loop : {"none", "handshake", "run", "done", "failed"}, handle : BOOLEAN,
            reading : BOOLEAN, secure : BOOLEAN, closed : BOOLEAN, stopAsync : BOOLEAN,
            recvClosed : BOOLEAN, joiner : {"no", "wait", "back"}]

\* Nothing that still arrives at an end in state x reaches its queue; peer is
\* the state of the other end.
Deaf(x, peer) ==
    \/ ~x.handle
    \/ x.loop = "run" /\ (~x.reading \/ ~x.secure)
    \/ ~x.reading /\ ~peer.handle /\ peer.loop # "none"

Alive(x, peer) ==
    /\ x.loop = "none" => ~x.handle /\ ~x.recvClosed /\ ~x.secure
    /\ x.loop = "handshake" => kind = "tls" /\ ~x.secure
    /\ x.recvClosed => Deaf(x, peer)
    /\ kind \notin LoopKinds => ~x.handle /\ x.loop # "handshake"

\* recv_closed is reported when nothing more is queued, and before an end is
\* connected it has nothing.
LifeInv ==
    /\ kind \in AllKinds /\ source \in Ends
    /\ end \in [Ends -> EndRecs]
    /\ \A e \in Ends : Alive(end[e], end[Peer(e)])

\* An end goes from state x to state y.
Goes(x, y) ==
    /\ y.loop = "none" => x.loop = "none"
    /\ y.handle => x.handle \/ x.loop = "none"
    /\ y.reading => x.reading \/ x.loop = "none"
    /\ x.secure => y.secure
    /\ x.recvClosed => y.recvClosed
    /\ x.loop \notin {"none", "handshake"} => y.loop \notin {"none", "handshake"}
    /\ kind \in LoopKinds /\ x.loop = "failed" => y.loop = "failed"

Onward == \A e \in Ends : Goes(end[e], end'[e])

\* The end at the other side.
LEMMA PeerFacts ==
    /\ \A e \in Ends : Peer(e) \in Ends /\ Peer(e) # e /\ Peer(Peer(e)) = e
    /\ \A e, d \in Ends : d # e => d = Peer(e)
  BY DEF Peer, Ends

\* A step of one end.
LEMMA EndGoes ==
    ASSUME LifeInv, NEW e \in Ends, NEW y \in EndRecs, end' = [end EXCEPT ![e] = y],
           UNCHANGED <<kind, source>>, Goes(end[e], y), Alive(y, end[Peer(e)])
    PROVE  LifeInv' /\ Onward
  <1>1. end' \in [Ends -> EndRecs] /\ end'[e] = y /\ \A d \in Ends : d # e => end'[d] = end[d]
    BY DEF LifeInv
  <1>2. Onward
    <2>1. \A d \in Ends : Goes(end[d], end[d])
      BY DEF Goes
    <2> QED BY <1>1, <2>1 DEF Onward
  <1>3. end'[Peer(e)] = end[Peer(e)] /\ Peer(e) \in Ends
    BY <1>1, PeerFacts
  <1> DEFINE p == end[Peer(e)]
  <1>4. Alive(p, end[e])
    BY <1>3, PeerFacts DEF LifeInv
  <1>5. Alive(p, y)
    BY <1>4 DEF Alive, Deaf, Goes
  <1>6. ASSUME NEW d \in Ends PROVE Alive(end'[d], end'[Peer(d)])
    <2>1. CASE d = e
      BY <1>1, <1>3, <2>1
    <2>2. CASE d # e
      <3>1. d = Peer(e) /\ Peer(d) = e
        BY <2>2, PeerFacts
      <3> QED BY <1>1, <1>3, <1>5, <3>1
    <2> QED BY <2>1, <2>2
  <1>7. \A d \in Ends : Alive(end[d], end[Peer(d)])'
    BY <1>6 DEF Alive, Deaf
  <1>8. (kind \in AllKinds /\ source \in Ends)'
    BY DEF LifeInv
  <1> QED BY <1>1, <1>2, <1>7, <1>8 DEF LifeInv

\* The ends rest.
LEMMA EndsRest ==
    ASSUME LifeInv, UNCHANGED <<kind, source, end>>
    PROVE  LifeInv' /\ Onward
  <1>1. LifeInv'
    BY DEF LifeInv, Alive, Deaf
  <1>2. Onward
    BY DEF Onward, Goes
  <1> QED BY <1>1, <1>2

\* A flag that only the caller reads.
LEMMA FlagsGo ==
    ASSUME LifeInv, UNCHANGED <<kind, source>>,
           end' = [e \in Ends |-> [end[e] EXCEPT !.closed = TRUE]]
    PROVE  LifeInv' /\ Onward
  <1>1. ASSUME NEW e \in Ends
        PROVE  /\ end'[e] \in EndRecs
               /\ end'[e].loop = end[e].loop /\ end'[e].handle = end[e].handle
               /\ end'[e].reading = end[e].reading /\ end'[e].secure = end[e].secure
               /\ end'[e].recvClosed = end[e].recvClosed
    BY DEF LifeInv, EndRecs
  <1>2. end' \in [Ends -> EndRecs]
    BY <1>1
  <1>3. Onward
    BY <1>1 DEF Onward, Goes
  <1>4. ASSUME NEW e \in Ends PROVE Alive(end[e], end[Peer(e)])'
    <2>1. Peer(e) \in Ends
      BY PeerFacts
    <2> QED BY <1>1, <2>1 DEF LifeInv, Alive, Deaf
  <1>5. (kind \in AllKinds /\ source \in Ends)'
    BY DEF LifeInv
  <1> QED BY <1>2, <1>3, <1>4, <1>5 DEF LifeInv

\* An end that is connected, by open() or by the accept thread.
LEMMA ConnectGoes ==
    ASSUME LifeInv, UNCHANGED <<kind, source>>, kind \in LoopKinds, NEW e \in Ends,
           NEW loop \in {"run", "handshake"}, loop = "handshake" => kind = "tls",
           end[e].loop = "none",
           end' = [end EXCEPT ![e] = [@ EXCEPT !.loop = loop, !.handle = TRUE, !.reading = TRUE,
                                               !.secure = loop = "run"]]
    PROVE  LifeInv' /\ Onward
  <1> DEFINE x == end[e]
             sec == loop = "run"
             y == [x EXCEPT !.loop = loop, !.handle = TRUE, !.reading = TRUE, !.secure = sec]
  <1>1. x \in EndRecs /\ Alive(x, end[Peer(e)]) /\ x.loop = "none"
    BY DEF LifeInv
  <1>2. end' = [end EXCEPT ![e] = y]
    OBVIOUS
  <1>3. sec \in BOOLEAN /\ (sec <=> loop = "run")
    OBVIOUS
  <1> HIDE DEF x, sec
  <1>4. y \in EndRecs /\ y.loop = loop /\ y.handle = TRUE /\ y.reading = TRUE /\ y.secure = sec
        /\ y.recvClosed = x.recvClosed
    BY <1>1, <1>3 DEF EndRecs
  <1> HIDE DEF y
  <1>5. ~x.recvClosed /\ ~x.secure
    BY <1>1 DEF Alive
  <1>6. Goes(x, y)
    BY <1>1, <1>4, <1>5 DEF Goes
  <1>7. Alive(y, end[Peer(e)])
    BY <1>3, <1>4, <1>5 DEF Alive
  <1> QED BY <1>2, <1>4, <1>6, <1>7, EndGoes DEF x

\* An end whose loop is given up before it runs.
LEMMA DropGoes ==
    ASSUME LifeInv, UNCHANGED <<kind, source>>, kind \in LoopKinds, NEW e \in Ends,
           end[e].loop = "none", end' = [end EXCEPT ![e].loop = "failed"]
    PROVE  LifeInv' /\ Onward
  <1> DEFINE x == end[e]
             y == [x EXCEPT !.loop = "failed"]
  <1>1. x \in EndRecs /\ Alive(x, end[Peer(e)]) /\ x.loop = "none"
    BY DEF LifeInv
  <1>2. end' = [end EXCEPT ![e] = y]
    BY DEF LifeInv
  <1> HIDE DEF x
  <1>3. y \in EndRecs /\ y.loop = "failed" /\ y.handle = x.handle /\ y.reading = x.reading
        /\ y.secure = x.secure /\ y.recvClosed = x.recvClosed
    BY <1>1 DEF EndRecs
  <1> HIDE DEF y
  <1>4. Goes(x, y) /\ Alive(y, end[Peer(e)])
    BY <1>1, <1>3 DEF Goes, Alive
  <1> QED BY <1>2, <1>3, <1>4, EndGoes DEF x

\* An end without a loop of its own.
LEMMA PlainGoes ==
    ASSUME LifeInv, UNCHANGED <<kind, source>>, kind \notin LoopKinds, NEW e \in Ends,
           end' = [end EXCEPT ![e].loop = "run"]
    PROVE  LifeInv' /\ Onward
  <1> DEFINE x == end[e]
             y == [x EXCEPT !.loop = "run"]
  <1>1. x \in EndRecs /\ Alive(x, end[Peer(e)])
    BY DEF LifeInv
  <1>2. end' = [end EXCEPT ![e] = y]
    BY DEF LifeInv
  <1> HIDE DEF x
  <1>3. y \in EndRecs /\ y.loop = "run" /\ y.handle = x.handle /\ y.reading = x.reading
        /\ y.secure = x.secure /\ y.recvClosed = x.recvClosed
    BY <1>1 DEF EndRecs
  <1> HIDE DEF y
  <1>4. Goes(x, y) /\ Alive(y, end[Peer(e)])
    BY <1>1, <1>3 DEF Goes, Alive, Deaf
  <1> QED BY <1>2, <1>3, <1>4, EndGoes DEF x

\* The steps of the server transports.
LEMMA ServerGoes ==
    ASSUME LifeInv, ServerStep
    PROVE  LifeInv' /\ Onward /\ UNCHANGED <<linkVars, dataVars, userVars>>
  <1>0. "server" \in Ends
    BY DEF Ends
  <1>1. ASSUME UNCHANGED <<linkVars, end, dataVars, userVars>>
        PROVE  LifeInv' /\ Onward /\ UNCHANGED <<linkVars, dataVars, userVars>>
    BY <1>1, EndsRest DEF linkVars
  <1>2. ASSUME NEW thread, Listening(thread)
        PROVE  LifeInv' /\ Onward /\ UNCHANGED <<linkVars, dataVars, userVars>>
    BY <1>1, <1>2 DEF Listening
  <1>3. ASSUME NEW loop \in {"run", "handshake"}, TakeConnection(loop), kind \in LoopKinds,
               loop = "handshake" => kind = "tls"
        PROVE  LifeInv' /\ Onward /\ UNCHANGED <<linkVars, dataVars, userVars>>
    BY <1>0, <1>3, ConnectGoes DEF TakeConnection, linkVars
  <1>4. ASSUME DropConnection, kind \in LoopKinds
        PROVE  LifeInv' /\ Onward /\ UNCHANGED <<linkVars, dataVars, userVars>>
    BY <1>0, <1>4, DropGoes DEF DropConnection, linkVars
  <1>5. CASE SocketStart \/ TlsStart \/ PipeStart \/ MemoryStart \/ StreamStart
    BY <1>2, <1>5 DEF SocketStart, TlsStart, PipeStart, MemoryStart, StreamStart
  <1>6. CASE SocketOnNewConnection \/ TlsOnNewConnection \/ PipeOnNewConnection
    BY <1>3, <1>4, <1>6 DEF SocketOnNewConnection, TlsOnNewConnection, PipeOnNewConnection, LoopKinds
  <1>7. CASE SocketAccept \/ TlsAccept \/ PipeAccept
    BY <1>1, <1>7 DEF SocketAccept, TlsAccept, PipeAccept, TakeQueued
  <1>8. CASE MemoryAccept
    BY <1>0, <1>8, PlainGoes DEF MemoryAccept, TakeQueued, linkVars, LoopKinds
  <1>9. CASE StreamAccept
    BY <1>0, <1>9, PlainGoes DEF StreamAccept, linkVars, LoopKinds
  <1>10. CASE SocketStop \/ TlsStop \/ PipeStop \/ MemoryStop \/ StreamStop
    BY <1>1, <1>10 DEF SocketStop, TlsStop, PipeStop, MemoryStop, StreamStop, StopListening
  <1>11. CASE SocketOnAcceptStop \/ TlsOnAcceptStop \/ PipeOnStop
    BY <1>1, <1>11 DEF SocketOnAcceptStop, TlsOnAcceptStop, PipeOnStop, AcceptLoopEnds
  <1> QED BY <1>5, <1>6, <1>7, <1>8, <1>9, <1>10, <1>11 DEF ServerStep

\* The steps of open().
LEMMA OpenGoes ==
    ASSUME LifeInv, OpenStep
    PROVE  LifeInv' /\ Onward /\ UNCHANGED <<linkVars, dataVars, userVars>>
  <1>0. "client" \in Ends
    BY DEF Ends
  <1>1. ASSUME NEW loop \in {"run", "handshake"}, Connect(loop), kind \in LoopKinds,
               loop = "handshake" => kind = "tls"
        PROVE  LifeInv' /\ Onward /\ UNCHANGED <<linkVars, dataVars, userVars>>
    BY <1>0, <1>1, ConnectGoes DEF Connect, linkVars
  <1>2. CASE SocketOpen \/ PipeOpen
    BY <1>1, <1>2 DEF SocketOpen, PipeOpen, LoopKinds
  <1>3. CASE TlsOpen
    <2>1. kind = "tls" /\ kind \in LoopKinds
      BY <1>3 DEF TlsOpen, LoopKinds
    <2>2. CASE ConfiguredAsClient(tls.client)
      BY <1>1, <1>3, <2>1, <2>2 DEF TlsOpen
    <2>3. CASE ~ConfiguredAsClient(tls.client)
      BY <1>0, <1>3, <2>1, <2>3, DropGoes DEF TlsOpen, linkVars
    <2> QED BY <2>2, <2>3
  <1>4. CASE MemoryConnect
    BY <1>0, <1>4, PlainGoes DEF MemoryConnect, linkVars, LoopKinds
  <1>5. CASE StreamOpen
    BY <1>0, <1>5, PlainGoes DEF StreamOpen, linkVars, LoopKinds
  <1> QED BY <1>2, <1>3, <1>4, <1>5 DEF OpenStep

\* The steps that close an end.
LEMMA CloseGoes ==
    ASSUME LifeInv, NEW e \in Ends,
           HandshakeFails(e) \/ CloseLoop(e) \/ CloseFlag(e) \/ LoopStep(e) \/ Joined(e)
    PROVE  LifeInv' /\ Onward /\ UNCHANGED <<linkVars, dataVars, userVars>>
  <1> DEFINE x == end[e]
             peer == end[Peer(e)]
  <1>1. x \in EndRecs /\ Alive(x, peer)
    BY DEF LifeInv
  <1>2. UNCHANGED <<linkVars, dataVars, userVars>> /\ UNCHANGED <<kind, source>>
    BY DEF HandshakeFails, CloseLoop, CloseFlag, LoopStep, OnStop, LoopEnds, Eof, Joined, linkVars
  <1>3. ASSUME NEW y \in EndRecs, end' = [end EXCEPT ![e] = y], Goes(x, y), Alive(y, peer)
        PROVE  LifeInv' /\ Onward
    BY <1>2, <1>3, EndGoes
  <1>4. ASSUME NEW y, end' = [end EXCEPT ![e] = y], y \in EndRecs, y.loop = x.loop,
               y.handle = x.handle, y.reading = x.reading, y.secure = x.secure,
               y.recvClosed = x.recvClosed
        PROVE  LifeInv' /\ Onward
    <2> HIDE DEF x, peer
    <2>1. Goes(x, y) /\ Alive(y, peer)
      BY <1>1, <1>4 DEF Goes, Alive, Deaf
    <2> QED BY <1>3, <1>4, <2>1
  <1>5. end \in [Ends -> EndRecs]
    BY DEF LifeInv
  <1>6. CASE HandshakeFails(e)
    <2>1. x.loop = "handshake" /\ kind = "tls" /\ ~x.secure
      BY <1>1, <1>6 DEF HandshakeFails, Alive
    <2>2. CASE e = "client"
      <3> DEFINE y == [x EXCEPT !.loop = "failed", !.handle = FALSE]
      <3>1. end' = [end EXCEPT ![e] = y]
        BY <1>5, <1>6, <2>2 DEF HandshakeFails
      <3> HIDE DEF x, peer
      <3>2. y \in EndRecs /\ y.loop = "failed" /\ y.handle = FALSE /\ y.reading = x.reading
            /\ y.secure = x.secure /\ y.recvClosed = x.recvClosed
        BY <1>1 DEF EndRecs
      <3> HIDE DEF y
      <3>3. Goes(x, y) /\ Alive(y, peer)
        BY <1>1, <2>1, <3>2 DEF Goes, Alive, Deaf, LoopKinds
      <3> QED BY <1>2, <1>3, <3>1, <3>2, <3>3
    <2>3. CASE e # "client"
      <3> DEFINE y == [x EXCEPT !.loop = "run", !.recvClosed = TRUE]
      <3>1. end' = [end EXCEPT ![e] = y]
        BY <1>5, <1>6, <2>3 DEF HandshakeFails
      <3> HIDE DEF x, peer
      <3>2. y \in EndRecs /\ y.loop = "run" /\ y.handle = x.handle /\ y.reading = x.reading
            /\ y.secure = x.secure /\ y.recvClosed = TRUE
        BY <1>1 DEF EndRecs
      <3> HIDE DEF y
      <3>3. Goes(x, y) /\ Alive(y, peer)
        BY <1>1, <2>1, <3>2 DEF Goes, Alive, Deaf, LoopKinds
      <3> QED BY <1>2, <1>3, <3>1, <3>2, <3>3
    <2> QED BY <2>2, <2>3
  <1>7. CASE CloseLoop(e)
    <2> DEFINE y == [x EXCEPT !.closed = TRUE, !.stopAsync = TRUE, !.joiner = "wait"]
    <2>1. end' = [end EXCEPT ![e] = y]
      BY <1>5, <1>7 DEF CloseLoop
    <2>2. y \in EndRecs /\ y.loop = x.loop /\ y.handle = x.handle /\ y.reading = x.reading
          /\ y.secure = x.secure /\ y.recvClosed = x.recvClosed
      BY <1>1 DEF EndRecs
    <2> HIDE DEF y
    <2> QED BY <1>2, <1>4, <2>1, <2>2
  <1>8. CASE CloseFlag(e)
    <2>1. CASE kind = "memory"
      BY <1>2, <1>8, <2>1, FlagsGo DEF CloseFlag
    <2>2. CASE kind # "memory"
      <3> DEFINE y == [x EXCEPT !.closed = TRUE]
      <3>1. end' = [end EXCEPT ![e] = y]
        BY <1>5, <1>8, <2>2 DEF CloseFlag
      <3>2. y \in EndRecs /\ y.loop = x.loop /\ y.handle = x.handle /\ y.reading = x.reading
            /\ y.secure = x.secure /\ y.recvClosed = x.recvClosed
        BY <1>1 DEF EndRecs
      <3> HIDE DEF y
      <3> QED BY <1>2, <1>4, <3>1, <3>2
    <2> QED BY <2>1, <2>2
  <1>9. CASE OnStop(e)
    <2> DEFINE y == [x EXCEPT !.handle = FALSE, !.reading = FALSE]
    <2>1. end' = [end EXCEPT ![e] = y]
      BY <1>5, <1>9 DEF OnStop
    <2> HIDE DEF x, peer
    <2>2. y \in EndRecs /\ y.loop = x.loop /\ y.handle = FALSE /\ y.reading = FALSE
          /\ y.secure = x.secure /\ y.recvClosed = x.recvClosed
      BY <1>1 DEF EndRecs
    <2> HIDE DEF y
    <2>3. Goes(x, y) /\ Alive(y, peer)
      BY <1>1, <2>2 DEF Goes, Alive, Deaf
    <2> QED BY <1>2, <1>3, <2>1, <2>2, <2>3
  <1>10. CASE LoopEnds(e)
    <2> DEFINE y == [x EXCEPT !.loop = "done", !.recvClosed = TRUE]
    <2>1. end' = [end EXCEPT ![e] = y] /\ x.loop = "run" /\ ~x.handle
      BY <1>5, <1>10 DEF LoopEnds
    <2> HIDE DEF x, peer
    <2>2. y \in EndRecs /\ y.loop = "done" /\ y.handle = x.handle /\ y.reading = x.reading
          /\ y.secure = x.secure /\ y.recvClosed = TRUE
      BY <1>1 DEF EndRecs
    <2> HIDE DEF y
    <2>3. Goes(x, y) /\ Alive(y, peer)
      BY <1>1, <2>1, <2>2 DEF Goes, Alive, Deaf
    <2> QED BY <1>2, <1>3, <2>1, <2>2, <2>3
  <1>11. CASE Eof(e)
    <2> DEFINE y == [x EXCEPT !.recvClosed = TRUE, !.reading = FALSE]
    <2>1. end' = [end EXCEPT ![e] = y] /\ ~peer.handle /\ peer.loop # "none" /\ x.handle
      BY <1>5, <1>11 DEF Eof
    <2> HIDE DEF x, peer
    <2>2. y \in EndRecs /\ y.loop = x.loop /\ y.handle = x.handle /\ y.reading = FALSE
          /\ y.secure = x.secure /\ y.recvClosed = TRUE
      BY <1>1 DEF EndRecs
    <2> HIDE DEF y
    <2>3. Goes(x, y) /\ Alive(y, peer)
      BY <1>1, <2>1, <2>2 DEF Goes, Alive, Deaf
    <2> QED BY <1>2, <1>3, <2>1, <2>2, <2>3
  <1>12. CASE Joined(e)
    <2> DEFINE y == [x EXCEPT !.joiner = "back"]
    <2>1. end' = [end EXCEPT ![e] = y]
      BY <1>5, <1>12 DEF Joined
    <2>2. y \in EndRecs /\ y.loop = x.loop /\ y.handle = x.handle /\ y.reading = x.reading
          /\ y.secure = x.secure /\ y.recvClosed = x.recvClosed
      BY <1>1 DEF EndRecs
    <2> HIDE DEF y
    <2> QED BY <1>2, <1>4, <2>1, <2>2
  <1>13. LifeInv' /\ Onward
    BY <1>6, <1>7, <1>8, <1>9, <1>10, <1>11, <1>12 DEF LoopStep
  <1> QED BY <1>2, <1>13
-----------------------------------------------------------------------------
(***************************************************************************)
(* The invariant.                                                          *)
(***************************************************************************)
DataInv ==
    /\ parser \in ParserRecs
    /\ sendq \in Bytes /\ wire \in Bytes /\ cipher \in Bytes
    /\ recvq \in Seq(Buffers)
    /\ caller = 0 /\ spare = 0
    /\ polled \in BOOLEAN /\ ended \in BOOLEAN
    /\ sent \in Seq(Frames) /\ got \in Seq(Bytes)

\* What the receiving end has been told, and what cannot have arrived yet.
SinkInv ==
    /\ ~parser.ok => ~end[Sink].reading /\ end[Sink].loop \notin {"none", "handshake"}
    /\ polled \/ ended => kind \in LoopKinds /\ end[Sink].recvClosed
    /\ ended => recvq = << >>
    /\ kind \in LoopKinds /\ end[source].loop = "none" => wire = << >>
    /\ kind = "tls" => /\ ~end[source].secure => sent = << >>
                       /\ \A i \in 1 .. Len(sent) : ~(Len(sent[i]) > MaxFrame)
                       /\ parser.ok

\* The first r frames of fs are out of the parser: received, or queued.
Delivered(r, fs, out, queue) ==
    /\ r \in 0 .. Len(fs)
    /\ Len(out) + Len(queue) = r
    /\ \A i \in 1 .. Len(out) : out[i] = fs[i]
    /\ \A k \in 1 .. Len(queue) : queue[k].data = fs[Len(out) + k]

\* The places of the bytes of fs that are not parsed yet: behind pos, those
\* held back for the handshake, then those of the kernel; at the end, those
\* that are not written.
Placed(all, c, pos, fs, held, kernel, unsent) ==
    /\ all \in Bytes /\ pos \in Nat
    /\ Laid(all, c, fs)
    /\ At(all, pos, held)
    /\ At(all, pos + Len(held), kernel)
    /\ Len(unsent) <= Len(all)
    /\ At(all, Len(all) - Len(unsent), unsent)

\* Nothing has been lost.
Whole(all, pos, held, kernel, unsent) ==
    pos + Len(held) + Len(kernel) + Len(unsent) = Len(all)

Unbroken == (end[source].handle \/ end[source].loop = "none") /\ end[Sink].loop # "failed"

LoopFlow(all, c, pos, r) ==
    /\ Placed(all, c, pos, sent, cipher, wire, sendq)
    /\ Unbroken => Whole(all, pos, cipher, wire, sendq)
    /\ parser.ok => ParserAt(parser, all, c, sent, r, pos)
    /\ Delivered(r, sent, got, recvq)

\* The iostream ends read and write the stream itself.
FileFlow(all, c) ==
    /\ all \in Bytes
    /\ Laid(all, c, sent)
    /\ Delivered(Len(got), sent, got, recvq)
    /\ recvq = << >>
    /\ At(all, c[Len(got)], wire)
    /\ c[Len(got)] + Len(wire) = Len(all)

FlowInv ==
    /\ kind \in LoopKinds => \E all, c, pos, r : LoopFlow(all, c, pos, r)
    /\ kind = "memory" => Delivered(Len(sent), sent, got, recvq)
    /\ kind = "iostream" => \E all, c : FileFlow(all, c)
-----------------------------------------------------------------------------
(***************************************************************************)
(* Steps of the parts of the invariant.                                    *)
(***************************************************************************)
\* Frames come out of the parser.
LEMMA DeliveredFed ==
    ASSUME NEW fs \in Seq(Frames), NEW out \in Seq(Bytes), NEW queue \in Seq(Buffers),
           NEW r0, Delivered(r0, fs, out, queue), NEW more \in Seq(Buffers),
           NEW r \in r0 .. Len(fs), Continues(more, fs, r0, r)
    PROVE  Delivered(r, fs, out, queue \o more)
  <1> DEFINE q == queue \o more
             m == Len(queue)
             n == Len(more)
             g == Len(out)
  <1>1. /\ m \in Nat /\ n \in Nat /\ Len(q) = m + n /\ g \in Nat /\ Len(fs) \in Nat
        /\ (\A k \in 1 .. m : q[k] = queue[k]) /\ (\A k \in 1 .. n : q[m + k] = more[k])
    <2>1. g \in Nat /\ Len(fs) \in Nat
      OBVIOUS
    <2>2. /\ m \in Nat /\ n \in Nat /\ Len(q) = m + n
          /\ (\A k \in 1 .. m : q[k] = queue[k]) /\ (\A k \in 1 .. n : q[m + k] = more[k])
      BY ConcatFacts
    <2> QED BY <2>1, <2>2
  <1>2. r0 \in 0 .. Len(fs) /\ g + m = r0 /\ (\A i \in 1 .. g : out[i] = fs[i])
        /\ \A k \in 1 .. m : queue[k].data = fs[g + k]
    BY DEF Delivered
  <1>3. n = r - r0 /\ \A k \in 1 .. r - r0 : more[k].data = fs[r0 + k]
    BY DEF Continues
  <1> HIDE DEF q, m, n, g
  <1>4. r \in 0 .. Len(fs) /\ g + Len(q) = r
    BY <1>1, <1>2, <1>3
  <1>5. ASSUME NEW k \in 1 .. Len(q) PROVE q[k].data = fs[g + k]
    <2>1. CASE k <= m
      <3>1. k \in 1 .. m
        BY <1>1, <2>1
      <3> QED BY <1>1, <1>2, <3>1
    <2>2. CASE k > m
      <3>1. k - m \in 1 .. n /\ m + (k - m) = k /\ r0 + (k - m) = g + k
        BY <1>1, <1>2, <2>2
      <3>2. q[k] = more[k - m]
        BY <1>1, <3>1
      <3>3. more[k - m].data = fs[r0 + (k - m)]
        BY <1>3, <3>1
      <3> QED BY <3>1, <3>2, <3>3
    <2> QED BY <1>1, <2>1, <2>2
  <1>6. Delivered(r, fs, out, q)
    BY <1>2, <1>4, <1>5 DEF Delivered, g
  <1> QED BY <1>6 DEF q

\* A frame is sent.
LEMMA DeliveredSend ==
    ASSUME NEW fs \in Seq(Frames), NEW out \in Seq(Bytes), NEW queue \in Seq(Buffers),
           NEW r, Delivered(r, fs, out, queue), NEW f \in Frames
    PROVE  Delivered(r, Append(fs, f), out, queue)
  <1> DEFINE gs == Append(fs, f)
             n == Len(fs)
             g == Len(out)
             m == Len(queue)
  <1>1. n \in Nat /\ g \in Nat /\ m \in Nat /\ Len(gs) = n + 1 /\ \A k \in 1 .. n : gs[k] = fs[k]
    OBVIOUS
  <1>2. r \in 0 .. n /\ g + m = r /\ (\A i \in 1 .. g : out[i] = fs[i])
        /\ \A k \in 1 .. m : queue[k].data = fs[g + k]
    BY DEF Delivered
  <1> HIDE DEF gs, n, g, m
  <1>3. r \in 0 .. n + 1 /\ (\A i \in 1 .. g : i \in 1 .. n) /\ \A k \in 1 .. m : g + k \in 1 .. n
    BY <1>1, <1>2
  <1>4. (\A i \in 1 .. g : out[i] = gs[i]) /\ \A k \in 1 .. m : queue[k].data = gs[g + k]
    BY <1>1, <1>2, <1>3
  <1>5. Delivered(r, gs, out, queue)
    BY <1>1, <1>2, <1>3, <1>4 DEF Delivered, g, m
  <1> QED BY <1>5 DEF gs

\* The oldest frame of the queue is received.
LEMMA DeliveredReceive ==
    ASSUME NEW fs \in Seq(Frames), NEW out \in Seq(Bytes), NEW queue \in Seq(Buffers),
           NEW r, Delivered(r, fs, out, queue), queue # << >>
    PROVE  Delivered(r, fs, Append(out, Head(queue).data), Tail(queue))
  <1> DEFINE h == Head(queue).data
             t == Tail(queue)
             o == Append(out, h)
             g == Len(out)
             m == Len(queue)
  <1>1. /\ g \in Nat /\ m \in Nat /\ m # 0 /\ Len(t) = m - 1 /\ \A k \in 1 .. m - 1 : t[k] = queue[k + 1]
    OBVIOUS
  <1>2. queue[1] \in Buffers /\ h = queue[1].data
    OBVIOUS
  <1>3. h \in Bytes
    BY <1>2 DEF Buffers
  <1> HIDE DEF h
  <1>4. Len(o) = g + 1 /\ o[g + 1] = h /\ \A i \in 1 .. g : o[i] = out[i]
    BY <1>3
  <1>5. r \in 0 .. Len(fs) /\ g + m = r /\ (\A i \in 1 .. g : out[i] = fs[i])
        /\ \A k \in 1 .. m : queue[k].data = fs[g + k]
    BY DEF Delivered
  <1> HIDE DEF t, o, g, m
  <1>6. (g + 1) + (m - 1) = r /\ 1 \in 1 .. m
    BY <1>1, <1>5
  <1>7. ASSUME NEW i \in 1 .. g + 1 PROVE o[i] = fs[i]
    <2>1. CASE i = g + 1
      BY <1>2, <1>4, <1>5, <1>6, <2>1
    <2>2. CASE i # g + 1
      <3>1. i \in 1 .. g
        BY <1>1, <2>2
      <3> QED BY <1>4, <1>5, <3>1
    <2> QED BY <2>1, <2>2
  <1>8. ASSUME NEW k \in 1 .. m - 1 PROVE t[k].data = fs[(g + 1) + k]
    <2>1. k + 1 \in 1 .. m /\ g + (k + 1) = (g + 1) + k
      BY <1>1
    <2> QED BY <1>1, <1>5, <2>1
  <1>9. Delivered(r, fs, o, t)
    BY <1>1, <1>4, <1>5, <1>6, <1>7, <1>8 DEF Delivered
  <1> QED BY <1>9 DEF o, t, h

\* The parser is where it was when the stream grows.
LEMMA ParserGrows ==
    ASSUME NEW all \in Bytes, NEW fs \in Seq(Frames), NEW c, Laid(all, c, fs), NEW f \in Frames,
           NEW d, \A i \in 0 .. Len(fs) : d[i] = c[i],
           NEW p \in ParserRecs, NEW r, NEW pos, ParserAt(p, all, c, fs, r, pos)
    PROVE  ParserAt(p, all \o Encoded(f), d, Append(fs, f), r, pos)
  <1> DEFINE x == Encoded(f)
             big == all \o x
             gs == Append(fs, f)
             n == Len(fs)
  <1>1. x \in Bytes
    BY EncodedFacts
  <1>2. n \in Nat /\ Len(gs) = n + 1
    OBVIOUS
  <1> HIDE DEF x, gs
  <1>3. Len(big) = Len(all) + Len(x) /\ Len(x) \in Nat /\ Len(all) \in Nat
    BY <1>1, ConcatFacts DEF Bytes
  <1>4. \A q \in Nat, s \in Bytes : At(all, q, s) => At(big, q, s)
    BY <1>1, AtGrows
  <1>5. r \in 0 .. n /\ pos \in 0 .. Len(all)
    BY DEF ParserAt
  <1> HIDE DEF big
  <1>6. r \in 0 .. n + 1 /\ pos \in 0 .. Len(big)
    BY <1>2, <1>3, <1>5
  <1>7. d[r] = c[r] /\ c[r] \in Nat /\ c[r] + 4 \in Nat
    BY <1>5 DEF Laid
  <1>8. p.hdr \in Bytes /\ p.partial \in Bytes
    BY DEF ParserRecs
  <1>9. CASE Len(p.hdr) < 4 /\ pos = c[r] + Len(p.hdr) /\ At(all, c[r], p.hdr)
    <2>1. ParserAt(p, big, d, gs, r, pos)
      BY <1>2, <1>4, <1>6, <1>7, <1>8, <1>9 DEF ParserAt
    <2> QED BY <2>1 DEF big, x, gs
  <1>10. CASE /\ Len(p.hdr) = 4 /\ r < n /\ p.left # 0 /\ pos + p.left = c[r + 1]
              /\ pos = c[r] + 4 + Len(p.partial) /\ At(all, c[r] + 4, p.partial)
    <2>1. r + 1 \in 0 .. n /\ r < n + 1
      BY <1>2, <1>5, <1>10
    <2>2. d[r + 1] = c[r + 1]
      BY <2>1
    <2>3. ParserAt(p, big, d, gs, r, pos)
      BY <1>2, <1>4, <1>6, <1>7, <1>8, <1>10, <2>1, <2>2 DEF ParserAt
    <2> QED BY <2>3 DEF big, x, gs
  <1> QED BY <1>9, <1>10 DEF ParserAt

\* send() puts a frame into the queue.
LEMMA PlacedSend ==
    ASSUME NEW fs \in Seq(Frames), NEW held \in Bytes, NEW kernel \in Bytes, NEW unsent \in Bytes,
           NEW all, NEW c, NEW pos, Placed(all, c, pos, fs, held, kernel, unsent), NEW f \in Frames
    PROVE  LET big == all \o Encoded(f)
           IN \E d : /\ Placed(big, d, pos, Append(fs, f), held, kernel, unsent \o Encoded(f))
                     /\ \A i \in 0 .. Len(fs) : d[i] = c[i]
                     /\ Whole(all, pos, held, kernel, unsent) =>
                          Whole(big, pos, held, kernel, unsent \o Encoded(f))
  <1> DEFINE x == Encoded(f)
             big == all \o x
             more == unsent \o x
  <1>1. all \in Bytes /\ pos \in Nat /\ Laid(all, c, fs) /\ At(all, pos, held)
        /\ At(all, pos + Len(held), kernel)
        /\ Len(unsent) <= Len(all) /\ At(all, Len(all) - Len(unsent), unsent)
    BY DEF Placed
  <1>2. PICK d : Laid(big, d, Append(fs, f)) /\ \A i \in 0 .. Len(fs) : d[i] = c[i]
    BY <1>1, LaidAppend
  <1>3. x \in Bytes
    BY EncodedFacts
  <1> HIDE DEF x
  <1>4. /\ big \in Bytes /\ Len(big) = Len(all) + Len(x) /\ Len(all) \in Nat /\ Len(x) \in Nat
        /\ more \in Bytes /\ Len(more) = Len(unsent) + Len(x) /\ Len(unsent) \in Nat
        /\ Len(held) \in Nat /\ Len(kernel) \in Nat
    <2>1. x \in Seq(Nat) /\ all \in Seq(Nat) /\ unsent \in Seq(Nat) /\ held \in Seq(Nat)
          /\ kernel \in Seq(Nat)
      BY <1>1, <1>3 DEF Bytes
    <2>2. big \in Seq(Nat) /\ Len(big) = Len(all) + Len(x) /\ Len(all) \in Nat /\ Len(x) \in Nat
      BY <2>1, ConcatFacts
    <2>3. more \in Seq(Nat) /\ Len(more) = Len(unsent) + Len(x) /\ Len(unsent) \in Nat
      BY <2>1, ConcatFacts
    <2>4. Len(held) \in Nat /\ Len(kernel) \in Nat
      BY <2>1
    <2> QED BY <2>2, <2>3, <2>4 DEF Bytes
  <1> HIDE DEF big, more
  <1>5. /\ pos + Len(held) \in Nat /\ Len(all) - Len(unsent) \in Nat
        /\ (Len(all) - Len(unsent)) + Len(unsent) = Len(all)
        /\ Len(big) - Len(more) = Len(all) - Len(unsent) /\ Len(more) <= Len(big)
    <2> DEFINE a == Len(all)
               u == Len(unsent)
               b == Len(big)
               m == Len(more)
               h == Len(held)
    <2>1. a \in Nat /\ u \in Nat /\ h \in Nat /\ Len(x) \in Nat /\ b = a + Len(x) /\ m = u + Len(x)
          /\ u <= a /\ pos \in Nat
      BY <1>1, <1>4
    <2> HIDE DEF a, u, b, m, h
    <2>2. pos + h \in Nat /\ a - u \in Nat /\ (a - u) + u = a /\ b - m = a - u /\ m <= b
      BY <2>1
    <2> QED BY <2>2 DEF a, u, b, m, h
  <1>6. At(big, pos, held) /\ At(big, pos + Len(held), kernel)
    BY <1>1, <1>3, <1>5, AtGrows DEF big
  <1>7. At(big, Len(all) - Len(unsent), more)
    <2>1. At(big, Len(all) - Len(unsent), unsent)
      BY <1>1, <1>3, <1>5, AtGrows DEF big
    <2>2. At(big, Len(all), x)
      BY <1>1, <1>3, AtEnd DEF big
    <2>3. At(big, (Len(all) - Len(unsent)) + Len(unsent), x)
      BY <1>5, <2>2
    <2> QED BY <1>3, <1>4, <1>5, <2>1, <2>3, AtJoin DEF more
  <1>8. Placed(big, d, pos, Append(fs, f), held, kernel, more)
    BY <1>1, <1>2, <1>4, <1>5, <1>6, <1>7 DEF Placed
  <1>9. Whole(all, pos, held, kernel, unsent) => Whole(big, pos, held, kernel, more)
    <2> DEFINE a == Len(all)
               u == Len(unsent)
               b == Len(big)
               m == Len(more)
               h == Len(held)
               k == Len(kernel)
    <2>1. a \in Nat /\ u \in Nat /\ h \in Nat /\ k \in Nat /\ Len(x) \in Nat /\ pos \in Nat
          /\ b = a + Len(x) /\ m = u + Len(x)
      BY <1>1, <1>4
    <2> HIDE DEF a, u, b, m, h, k
    <2>2. pos + h + k + u = a => pos + h + k + m = b
      BY <2>1
    <2> QED BY <2>2 DEF Whole, a, u, b, m, h, k
  <1> QED BY <1>2, <1>8, <1>9 DEF big, more, x

\* on_send() writes the queue.
LEMMA PlacedFlush ==
    ASSUME NEW fs \in Seq(Frames), NEW held \in Bytes, NEW kernel \in Bytes, NEW unsent \in Bytes,
           NEW all, NEW c, NEW pos, Placed(all, c, pos, fs, held, kernel, unsent)
    PROVE  /\ Placed(all, c, pos, fs, held, kernel, << >>)
           /\ Whole(all, pos, held, kernel, unsent) =>
                /\ Placed(all, c, pos, fs, held, kernel \o unsent, << >>)
                /\ Whole(all, pos, held, kernel \o unsent, << >>)
  <1> DEFINE a == Len(all)
             u == Len(unsent)
             h == Len(held)
             k == Len(kernel)
             both == kernel \o unsent
  <1>1. all \in Bytes /\ pos \in Nat /\ Laid(all, c, fs) /\ At(all, pos, held)
        /\ At(all, pos + h, kernel) /\ At(all, a - u, unsent)
    BY DEF Placed
  <1>2. a \in Nat /\ u \in Nat /\ h \in Nat /\ k \in Nat
    BY <1>1 DEF Bytes
  <1>3. both \in Bytes /\ Len(both) = k + u
    BY ConcatFacts DEF Bytes
  <1>4. /\ Len(<< >>) = 0 /\ 0 <= a /\ a - 0 = a /\ a \in 0 .. a
    <2> HIDE DEF a
    <2> QED BY <1>2
  <1>5. At(all, a - 0, << >>)
    BY <1>1, <1>4, AtEmpty
  <1>6. Placed(all, c, pos, fs, held, kernel, << >>)
    BY <1>1, <1>4, <1>5 DEF Placed
  <1>7. ASSUME Whole(all, pos, held, kernel, unsent)
        PROVE  Placed(all, c, pos, fs, held, both, << >>) /\ Whole(all, pos, held, both, << >>)
    <2>1. pos + h + k + u = a
      BY <1>7 DEF Whole
    <2> HIDE DEF a, u, h, k, both
    <2>2. a - u = (pos + h) + k /\ pos + h \in Nat /\ pos + h + (k + u) + 0 = a
      BY <1>1, <1>2, <2>1
    <2>3. At(all, (pos + h) + k, unsent)
      BY <1>1, <2>2
    <2>4. At(all, pos + h, both)
      BY <1>1, <2>2, <2>3, AtJoin DEF k, both
    <2>5. Placed(all, c, pos, fs, held, both, << >>)
      BY <1>1, <1>4, <1>5, <2>4 DEF Placed, a, h
    <2>6. Whole(all, pos, held, both, << >>)
      BY <1>3, <1>4, <2>2 DEF Whole, a, h
    <2> QED BY <2>5, <2>6
  <1> QED BY <1>6, <1>7

\* on_read() takes bytes from the kernel.
LEMMA PlacedRead ==
    ASSUME NEW fs \in Seq(Frames), NEW held \in Bytes, NEW kernel \in Bytes, NEW unsent \in Bytes,
           NEW all, NEW c, NEW pos, Placed(all, c, pos, fs, held, kernel, unsent),
           NEW n \in 1 .. Len(kernel)
    PROVE  LET more == held \o SubSeq(kernel, 1, n)
               rest == SubSeq(kernel, n + 1, Len(kernel))
           IN /\ more \in Bytes /\ rest \in Bytes
              /\ Placed(all, c, pos, fs, more, rest, unsent)
              /\ Whole(all, pos, held, kernel, unsent) => Whole(all, pos, more, rest, unsent)
  <1> DEFINE a == SubSeq(kernel, 1, n)
             rest == SubSeq(kernel, n + 1, Len(kernel))
             more == held \o a
             h == Len(held)
             k == Len(kernel)
  <1>1. all \in Bytes /\ pos \in Nat /\ Laid(all, c, fs) /\ At(all, pos, held)
        /\ At(all, pos + h, kernel)
        /\ Len(unsent) <= Len(all) /\ At(all, Len(all) - Len(unsent), unsent)
    BY DEF Placed
  <1>2. h \in Nat /\ k \in Nat /\ Len(unsent) \in Nat /\ n \in 0 .. Len(kernel) /\ n \in Nat
    BY DEF Bytes
  <1>3. pos + h \in Nat
    BY <1>1, <1>2
  <1>4. a \in Bytes /\ Len(a) = n /\ rest \in Bytes /\ Len(rest) = k - n
        /\ At(all, pos + h, a) /\ At(all, (pos + h) + n, rest)
    BY <1>1, <1>2, <1>3, AtCut
  <1> HIDE DEF a, rest
  <1>5. more \in Bytes /\ Len(more) = h + n
    BY <1>4, ConcatFacts DEF Bytes
  <1>6. At(all, pos, more)
    BY <1>1, <1>4, AtJoin
  <1> HIDE DEF more
  <1>7. At(all, pos + Len(more), rest)
    <2>1. (pos + h) + n = pos + Len(more)
      <3> HIDE DEF h
      <3> QED BY <1>1, <1>2, <1>5
    <2> QED BY <1>4, <2>1
  <1>8. Placed(all, c, pos, fs, more, rest, unsent)
    BY <1>1, <1>6, <1>7 DEF Placed
  <1>9. Whole(all, pos, held, kernel, unsent) => Whole(all, pos, more, rest, unsent)
    <2> DEFINE m == Len(more)
               s == Len(rest)
               u == Len(unsent)
    <2>1. h \in Nat /\ k \in Nat /\ u \in Nat /\ n \in Nat /\ m = h + n /\ s = k - n /\ pos \in Nat
      BY <1>1, <1>2, <1>4, <1>5
    <2> HIDE DEF m, s, u, h, k
    <2>2. pos + h + k + u = pos + m + s + u
      BY <2>1
    <2> QED BY <2>2 DEF Whole, m, s, u, h, k
  <1> QED BY <1>4, <1>5, <1>8, <1>9 DEF a, rest, more

\* What was held back goes to the parser.
LEMMA PlacedFed ==
    ASSUME NEW fs \in Seq(Frames), NEW held \in Bytes, NEW kernel \in Bytes, NEW unsent \in Bytes,
           NEW all, NEW c, NEW pos, Placed(all, c, pos, fs, held, kernel, unsent)
    PROVE  /\ Placed(all, c, pos + Len(held), fs, << >>, kernel, unsent)
           /\ Whole(all, pos, held, kernel, unsent) =>
                Whole(all, pos + Len(held), << >>, kernel, unsent)
  <1> DEFINE a == Len(all)
             h == Len(held)
             k == Len(kernel)
             u == Len(unsent)
  <1>1. all \in Bytes /\ pos \in Nat /\ Laid(all, c, fs) /\ pos + h <= a
        /\ At(all, pos + h, kernel) /\ u <= a /\ At(all, a - u, unsent)
    BY DEF Placed, At
  <1>2. a \in Nat /\ h \in Nat /\ k \in Nat /\ u \in Nat /\ Len(<< >>) = 0
    BY <1>1 DEF Bytes
  <1> HIDE DEF a, h, k, u
  <1>3. pos + h \in Nat /\ pos + h \in 0 .. a /\ (pos + h) + 0 = pos + h
    BY <1>1, <1>2
  <1>4. At(all, pos + h, << >>)
    BY <1>1, <1>3, AtEmpty DEF a
  <1>5. At(all, (pos + h) + Len(<< >>), kernel)
    BY <1>1, <1>2, <1>3
  <1>6. Placed(all, c, pos + h, fs, << >>, kernel, unsent)
    BY <1>1, <1>3, <1>4, <1>5 DEF Placed, a, u
  <1>7. pos + h + k + u = a => (pos + h) + 0 + k + u = a
    BY <1>1, <1>2
  <1>8. Whole(all, pos, held, kernel, unsent) => Whole(all, pos + h, << >>, kernel, unsent)
    BY <1>2, <1>7 DEF Whole, a, h, k, u
  <1> QED BY <1>6, <1>8 DEF h

\* The kernel loses a tail.
LEMMA PlacedLost ==
    ASSUME NEW fs \in Seq(Frames), NEW held \in Bytes, NEW kernel \in Bytes, NEW unsent \in Bytes,
           NEW all, NEW c, NEW pos, Placed(all, c, pos, fs, held, kernel, unsent),
           NEW n \in 0 .. Len(kernel)
    PROVE  SubSeq(kernel, 1, n) \in Bytes /\ Placed(all, c, pos, fs, held, SubSeq(kernel, 1, n), unsent)
  <1> DEFINE a == SubSeq(kernel, 1, n)
  <1>1. all \in Bytes /\ pos \in Nat /\ Laid(all, c, fs) /\ At(all, pos, held)
        /\ At(all, pos + Len(held), kernel)
        /\ Len(unsent) <= Len(all) /\ At(all, Len(all) - Len(unsent), unsent)
    BY DEF Placed
  <1>2. pos + Len(held) \in Nat
    BY <1>1 DEF Bytes
  <1>3. a \in Bytes /\ At(all, pos + Len(held), a)
    BY <1>1, <1>2, AtCut
  <1> HIDE DEF a
  <1>4. Placed(all, c, pos, fs, held, a, unsent)
    BY <1>1, <1>3 DEF Placed
  <1> QED BY <1>3, <1>4 DEF a
-----------------------------------------------------------------------------
(***************************************************************************)
(* The steps of the transports.                                            *)
(***************************************************************************)
StreamInv == LifeInv /\ DataInv /\ SinkInv /\ FlowInv

\* The two ends.
LEMMA SinkFacts ==
    ASSUME LifeInv
    PROVE  Sink \in Ends /\ source \in Ends /\ Sink # source /\ Sink = Peer(source)
           /\ Peer(Sink) = source /\ (UNCHANGED source => Sink' = Sink)
           /\ end[Sink] \in EndRecs /\ end[source] \in EndRecs
  <1>1. source \in Ends /\ end \in [Ends -> EndRecs]
    BY DEF LifeInv
  <1>2. Sink = Peer(source)
    BY DEF Sink
  <1>3. Peer(source) \in Ends /\ Peer(source) # source /\ Peer(Peer(source)) = source
    BY <1>1, PeerFacts
  <1>4. UNCHANGED source => Sink' = Sink
    BY DEF Sink, Peer
  <1> QED BY <1>1, <1>2, <1>3, <1>4

\* What was lost stays lost.
LEMMA UnbrokenBefore ==
    ASSUME LifeInv, Onward, UNCHANGED <<kind, source>>, kind \in LoopKinds, Unbroken'
    PROVE  Unbroken
  <1>1. Sink \in Ends /\ source \in Ends /\ Sink' = Sink
    BY SinkFacts
  <1>2. Goes(end[source], end'[source]) /\ Goes(end[Sink], end'[Sink])
    BY <1>1 DEF Onward
  <1>3. (end'[source].handle \/ end'[source].loop = "none") /\ end'[Sink].loop # "failed"
    BY <1>1 DEF Unbroken
  <1> QED BY <1>2, <1>3 DEF Unbroken, Goes

\* A step of the ends alone.
LEMMA LifeKeeps ==
    ASSUME StreamInv, LifeInv', Onward, UNCHANGED <<linkVars, dataVars, userVars>>
    PROVE  StreamInv'
  <1>1. LifeInv /\ DataInv /\ SinkInv /\ FlowInv
    BY DEF StreamInv
  <1>2. UNCHANGED <<kind, source, sendq, wire, cipher, parser, recvq, caller, spare, polled, ended,
                    sent, got>>
    BY DEF linkVars, dataVars, userVars
  <1>3. DataInv'
    BY <1>1, <1>2 DEF DataInv
  <1>4. Sink \in Ends /\ source \in Ends /\ Sink' = Sink
    BY <1>1, <1>2, SinkFacts
  <1>5. Goes(end[source], end'[source]) /\ Goes(end[Sink], end'[Sink])
    BY <1>4 DEF Onward
  <1>6. SinkInv'
    BY <1>1, <1>2, <1>4, <1>5 DEF SinkInv, Goes
  <1>7. FlowInv'
    <2>1. ASSUME kind \in LoopKinds PROVE (\E all, c, pos, r : LoopFlow(all, c, pos, r))'
      <3>1. PICK all, c, pos, r : LoopFlow(all, c, pos, r)
        BY <1>1, <2>1 DEF FlowInv
      <3>2. Unbroken' => Unbroken
        BY <1>1, <1>2, <2>1, UnbrokenBefore
      <3>3. LoopFlow(all, c, pos, r)'
        BY <1>2, <3>1, <3>2 DEF LoopFlow
      <3> QED BY <3>3
    <2>2. ASSUME kind = "memory" PROVE Delivered(Len(sent), sent, got, recvq)'
      BY <1>1, <1>2, <2>2 DEF FlowInv
    <2>3. ASSUME kind = "iostream" PROVE (\E all, c : FileFlow(all, c))'
      <3>1. PICK all, c : FileFlow(all, c)
        BY <1>1, <2>3 DEF FlowInv
      <3>2. FileFlow(all, c)'
        BY <1>2, <3>1 DEF FileFlow
      <3> QED BY <3>2
    <2> QED BY <1>2, <2>1, <2>2, <2>3 DEF FlowInv
  <1> QED BY <1>3, <1>6, <1>7 DEF StreamInv

\* A step of the data alone, whatever it does to the stream.
LEMMA EndsKeep ==
    ASSUME LifeInv, UNCHANGED <<linkVars, end>>
    PROVE  LifeInv' /\ Onward /\ Sink' = Sink /\ kind' = kind /\ source' = source /\ Unbroken' = Unbroken
  <1>1. kind' = kind /\ source' = source
    BY DEF linkVars
  <1>2. Sink' = Sink
    BY <1>1, SinkFacts
  <1>3. Unbroken' = Unbroken
    BY <1>1, <1>2 DEF Unbroken
  <1> QED BY <1>1, <1>2, <1>3, EndsRest

\* pump_decrypt() and frame_parser::feed(): what the parser makes of the next
\* bytes of the stream.
LEMMA FedFlow ==
    ASSUME DataInv, SinkInv, parser.ok, NEW all, NEW c, NEW pos, NEW r, NEW plain \in Bytes,
           NEW rest \in Bytes, Placed(all, c, pos, sent, plain, rest, sendq),
           ParserAt(parser, all, c, sent, r, pos), Delivered(r, sent, got, recvq)
    PROVE  LET p == Feed(OfferReuse(parser, spare), plain)
               q == [p EXCEPT !.out = << >>]
           IN /\ p.ok \in BOOLEAN /\ p.out \in Seq(Buffers) /\ (kind = "tls" => p.ok)
              /\ q \in ParserRecs /\ q.ok = p.ok
              /\ \E r2 : /\ Delivered(r2, sent, got, recvq \o p.out)
                         /\ q.ok => ParserAt(q, all, c, sent, r2, pos + Len(plain))
  <1> DEFINE p == Feed(OfferReuse(parser, spare), plain)
             q == [p EXCEPT !.out = << >>]
  <1>1. parser \in ParserRecs /\ spare = 0 /\ sent \in Seq(Frames) /\ got \in Seq(Bytes)
        /\ recvq \in Seq(Buffers)
    BY DEF DataInv
  <1>2. OfferReuse(parser, spare) = parser
    <2>1. parser.cap \in Nat
      BY <1>1 DEF ParserRecs
    <2>2. ~(0 > parser.cap)
      BY <2>1
    <2> QED BY <1>1, <2>2 DEF OfferReuse
  <1>3. all \in Bytes /\ Laid(all, c, sent) /\ At(all, pos, plain)
    BY DEF Placed
  <1>4. RunAt(Feed(parser, plain), all, c, sent, r, pos + Len(plain))
    BY <1>1, <1>3, FeedAt
  <1>5. RunAt(p, all, c, sent, r, pos + Len(plain))
    BY <1>2, <1>4
  <1> HIDE DEF p
  <1>6. p \in ParserRecs /\ (~p.ok => \E i \in 1 .. Len(sent) : Len(sent[i]) > MaxFrame)
    BY <1>5 DEF RunAt
  <1>7. p.ok \in BOOLEAN /\ p.out \in Seq(Buffers)
    BY <1>6 DEF ParserRecs
  <1>8. kind = "tls" => p.ok
    BY <1>6 DEF SinkInv
  <1>9. q \in ParserRecs /\ q.ok = p.ok /\ q.hdr = p.hdr /\ q.left = p.left /\ q.partial = p.partial
    <2>1. << >> \in Seq(Buffers)
      OBVIOUS
    <2> QED BY <1>6, <2>1 DEF ParserRecs
  <1> HIDE DEF q
  <1>10. PICK r2 \in r .. Len(sent) : /\ Continues(p.out, sent, r, r2)
                                      /\ p.ok => ParserAt(p, all, c, sent, r2, pos + Len(plain))
    BY <1>5 DEF RunAt
  <1>11. Delivered(r2, sent, got, recvq \o p.out)
    BY <1>1, <1>7, <1>10, DeliveredFed
  <1>12. q.ok => ParserAt(q, all, c, sent, r2, pos + Len(plain))
    BY <1>9, <1>10 DEF ParserAt
  <1> QED BY <1>7, <1>8, <1>9, <1>11, <1>12 DEF p, q

\* Bytes go through Ingest at an end that reads them: they are held back, or
\* they go through the parser into the receive queue.
LEMMA IngestKeeps ==
    ASSUME StreamInv, kind \in LoopKinds, NEW e \in Ends, NEW bytes, NEW secure \in BOOLEAN,
           Ingest(e, bytes, secure), UNCHANGED <<linkVars, sendq, caller, userVars>>,
           end[e].loop \in {"run", "handshake"}, end[e].secure => secure,
           end[e].recvClosed => ~secure,
           cipher \o bytes \in Bytes, wire' \in Bytes, end[source].loop = "none" => wire' = << >>,
           e = Sink \/ ~secure \/ cipher \o bytes = << >>, parser.ok,
           NEW all, NEW c, NEW pos, NEW r,
           Placed(all, c, pos, sent, cipher \o bytes, wire', sendq),
           Unbroken => Whole(all, pos, cipher \o bytes, wire', sendq),
           ParserAt(parser, all, c, sent, r, pos), Delivered(r, sent, got, recvq)
    PROVE  StreamInv'
  <1> DEFINE plain == cipher \o bytes
             rest == wire'
             x == end[e]
             p == Feed(OfferReuse(parser, spare), plain)
             q == [p EXCEPT !.out = << >>]
  <1>1. LifeInv /\ DataInv /\ SinkInv
    BY DEF StreamInv
  <1>2. /\ UNCHANGED <<kind, source, sendq, caller, polled, ended, sent, got>>
        /\ UNCHANGED <<kind, source>> /\ plain \in Bytes
    BY DEF linkVars, userVars
  <1>3. x \in EndRecs /\ Alive(x, end[Peer(e)]) /\ end \in [Ends -> EndRecs]
    BY <1>1 DEF LifeInv
  <1>4. Sink \in Ends /\ source \in Ends /\ Sink' = Sink /\ Sink # source
    BY <1>1, <1>2, SinkFacts
  <1>5. CASE ~secure \/ plain = << >>
    <2> DEFINE y == [x EXCEPT !.secure = secure, !.loop = "run"]
    <2>1. end' = [end EXCEPT ![e] = y] /\ cipher' = plain /\ UNCHANGED <<parser, recvq, spare>>
      BY <1>3, <1>5 DEF Ingest
    <2> HIDE DEF x
    <2>2. y \in EndRecs /\ y.loop = "run" /\ y.handle = x.handle /\ y.reading = x.reading
          /\ y.secure = secure /\ y.recvClosed = x.recvClosed
      BY <1>3 DEF EndRecs
    <2>3. x.loop \in {"run", "handshake"} /\ (x.secure => secure) /\ (x.recvClosed => ~secure)
      BY DEF x
    <2> HIDE DEF y, plain
    <2>4. Goes(x, y)
      BY <2>2, <2>3 DEF Goes
    <2>5. Alive(y, end[Peer(e)])
      BY <1>3, <2>2, <2>3 DEF Alive, Deaf
    <2>6. LifeInv' /\ Onward
      BY <1>1, <1>2, <2>1, <2>2, <2>4, <2>5, EndGoes DEF x
    <2>7. DataInv'
      BY <1>1, <1>2, <2>1 DEF DataInv
    <2>8. Goes(end[source], end'[source]) /\ Goes(end[Sink], end'[Sink])
      BY <1>4, <2>6 DEF Onward
    <2>9. SinkInv'
      BY <1>1, <1>2, <1>4, <2>1, <2>8 DEF SinkInv, Goes
    <2>10. LoopFlow(all, c, pos, r)'
      <3>1. Unbroken' => Unbroken
        BY <1>1, <1>2, <2>6, UnbrokenBefore
      <3> QED BY <1>2, <2>1, <3>1 DEF LoopFlow, plain
    <2>11. FlowInv'
      BY <1>2, <2>10 DEF FlowInv, LoopKinds
    <2> QED BY <2>6, <2>7, <2>9, <2>11 DEF StreamInv
  <1>6. CASE secure /\ plain # << >>
    <2> DEFINE y == [x EXCEPT !.secure = TRUE, !.loop = "run", !.recvClosed = @ \/ ~p.ok,
                              !.reading = @ /\ (p.ok \/ kind = "tls")]
    <2>1. /\ end' = [end EXCEPT ![e] = y] /\ cipher' = << >> /\ parser' = q
          /\ recvq' = recvq \o p.out /\ spare' = 0
      <3> HIDE DEF p
      <3>1. /\ cipher' = << >> /\ parser' = q /\ recvq' = recvq \o p.out /\ spare' = 0
            /\ end' = [end EXCEPT ![e].secure = TRUE, ![e].loop = "run",
                                  ![e].recvClosed = @ \/ ~p.ok,
                                  ![e].reading = @ /\ (p.ok \/ kind = "tls")]
        BY <1>6 DEF Ingest, p
      <3> QED BY <1>3, <3>1
    <2>2. e = Sink /\ x = end[Sink]
      BY <1>6
    <2>3. /\ p.ok \in BOOLEAN /\ p.out \in Seq(Buffers) /\ (kind = "tls" => p.ok)
          /\ q \in ParserRecs /\ q.ok = p.ok
          /\ \E r2 : /\ Delivered(r2, sent, got, recvq \o p.out)
                     /\ q.ok => ParserAt(q, all, c, sent, r2, pos + Len(plain))
      BY <1>1, <1>2, FedFlow
    <2>4. PICK r2 : /\ Delivered(r2, sent, got, recvq \o p.out)
                    /\ q.ok => ParserAt(q, all, c, sent, r2, pos + Len(plain))
      BY <2>3
    <2> HIDE DEF x, p, q
    <2>5. y \in EndRecs /\ y.loop = "run" /\ y.handle = x.handle
          /\ y.reading = (x.reading /\ (p.ok \/ kind = "tls"))
          /\ y.secure = TRUE /\ y.recvClosed = (x.recvClosed \/ ~p.ok)
      BY <1>3 DEF EndRecs
    <2>6. x.loop \in {"run", "handshake"} /\ ~x.recvClosed
      BY <1>6 DEF x
    <2> HIDE DEF y, plain
    <2>7. Goes(x, y)
      BY <2>5, <2>6 DEF Goes
    <2>8. Alive(y, end[Peer(e)])
      <3>1. y.recvClosed => y.loop = "run" /\ ~y.reading
        BY <2>3, <2>5, <2>6
      <3> QED BY <2>5, <3>1 DEF Alive, Deaf
    <2>9. LifeInv' /\ Onward
      BY <1>1, <1>2, <2>1, <2>5, <2>7, <2>8, EndGoes DEF x
    <2>10. DataInv'
      <3>1. recvq \o p.out \in Seq(Buffers) /\ << >> \in Bytes
        BY <1>1, <2>3, ConcatFacts DEF DataInv, Bytes
      <3> QED BY <1>1, <1>2, <2>1, <2>3, <3>1 DEF DataInv
    <2>11. SinkInv'
      <3>1. end'[Sink] = y /\ end'[source] = end[source]
        BY <1>3, <1>4, <2>1, <2>2
      <3>2. ~(polled \/ ended)
        BY <1>1, <2>2, <2>6 DEF SinkInv
      <3>3. ~parser'.ok => ~y.reading /\ y.loop \notin {"none", "handshake"}
        BY <2>1, <2>3, <2>5
      <3>4. kind = "tls" => parser'.ok
        BY <2>1, <2>3
      <3> QED BY <1>1, <1>2, <1>4, <3>1, <3>2, <3>3, <3>4 DEF SinkInv
    <2>12. PICK here : here = pos + Len(plain)
      OBVIOUS
    <2>13. LoopFlow(all, c, here, r2)'
      <3>1. Unbroken' => Unbroken
        BY <1>1, <1>2, <2>9, UnbrokenBefore
      <3>2. sent \in Seq(Frames) /\ sendq \in Bytes
        BY <1>1 DEF DataInv
      <3>3. /\ Placed(all, c, here, sent, << >>, rest, sendq)
            /\ Unbroken => Whole(all, here, << >>, rest, sendq)
        BY <1>2, <2>12, <3>2, PlacedFed DEF plain
      <3> QED BY <1>2, <2>1, <2>4, <2>12, <3>1, <3>3 DEF LoopFlow
    <2>14. FlowInv'
      BY <1>2, <2>13 DEF FlowInv, LoopKinds
    <2> QED BY <2>9, <2>10, <2>11, <2>14 DEF StreamInv
  <1> QED BY <1>5, <1>6

\* Before the first frame there is nothing to read.
LEMMA NothingSent ==
    ASSUME NEW held \in Bytes, NEW all, NEW c, NEW pos, NEW fs, fs = << >>, NEW kernel, NEW unsent,
           Placed(all, c, pos, fs, held, kernel, unsent)
    PROVE  held = << >>
  <1>1. all \in Bytes /\ pos \in Nat /\ c[0] = 0 /\ c[Len(fs)] = Len(all) /\ pos + Len(held) <= Len(all)
    BY DEF Placed, Laid, At
  <1>2. Len(fs) = 0 /\ Len(held) \in Nat
    BY DEF Bytes
  <1>3. Len(held) = 0
    BY <1>1, <1>2
  <1> QED BY <1>3 DEF Bytes

\* handshake_sync() succeeds; what was held back meanwhile is parsed.
LEMMA HandshakeKeeps ==
    ASSUME StreamInv, NEW e \in Ends, HandshakeDone(e)
    PROVE  StreamInv'
  <1> DEFINE x == end[e]
             peer == end[Peer(e)]
  <1>1. LifeInv /\ DataInv /\ SinkInv /\ FlowInv
    BY DEF StreamInv
  <1>2. /\ x.loop = "handshake" /\ x.handle /\ peer.handle /\ Ingest(e, << >>, TRUE)
        /\ UNCHANGED <<linkVars, sendq, caller, userVars>> /\ wire' = wire
    BY DEF HandshakeDone
  <1>3. kind = "tls" /\ kind \in LoopKinds /\ ~x.secure /\ ~x.recvClosed
    BY <1>1, <1>2 DEF LifeInv, Alive, Deaf, LoopKinds
  <1>4. parser.ok /\ (~end[source].secure => sent = << >>)
    BY <1>1, <1>3 DEF SinkInv
  <1>5. PICK all, c, pos, r : LoopFlow(all, c, pos, r)
    BY <1>1, <1>3 DEF FlowInv
  <1>6. /\ Placed(all, c, pos, sent, cipher, wire, sendq) /\ Delivered(r, sent, got, recvq)
        /\ Unbroken => Whole(all, pos, cipher, wire, sendq)
        /\ ParserAt(parser, all, c, sent, r, pos)
    BY <1>4, <1>5 DEF LoopFlow
  <1>7. cipher \in Bytes /\ wire \in Bytes /\ cipher \o << >> = cipher
    BY <1>1, ConcatFacts DEF DataInv, Bytes
  <1>8. e = Sink \/ cipher = << >>
    <2>1. CASE e = source
      <3>1. sent = << >>
        BY <1>3, <1>4, <2>1
      <3> QED BY <1>6, <1>7, <3>1, NothingSent
    <2>2. CASE e # source
      BY <1>1, <2>2, PeerFacts, SinkFacts
    <2> QED BY <2>1, <2>2
  <1>9. end[source].loop = "none" => wire' = << >>
    BY <1>1, <1>2, <1>3 DEF SinkInv
  <1> QED BY <1>2, <1>3, <1>4, <1>6, <1>7, <1>8, <1>9, IngestKeeps

\* on_read(), on_tls_read(): the next bytes, as many as there are.
LEMMA ReadKeeps ==
    ASSUME StreamInv, NEW n \in 1 .. Len(wire), Read(n)
    PROVE  StreamInv'
  <1> DEFINE x == end[Sink]
             piece == SubSeq(wire, 1, n)
             rest == SubSeq(wire, n + 1, Len(wire))
             more == cipher \o piece
  <1>1. LifeInv /\ DataInv /\ SinkInv /\ FlowInv
    BY DEF StreamInv
  <1>2. /\ x.handle /\ x.reading /\ x.loop \in {"handshake", "run"} /\ wire' = rest
        /\ UNCHANGED <<linkVars, sendq, caller, userVars>>
    BY DEF Read, Reading
  <1>3. Sink \in Ends /\ x \in EndRecs /\ Alive(x, end[Peer(Sink)])
    BY <1>1, SinkFacts DEF LifeInv
  <1>4. kind \in LoopKinds /\ parser.ok
    BY <1>1, <1>2, <1>3 DEF SinkInv, Alive
  <1>5. PICK all, c, pos, r : LoopFlow(all, c, pos, r)
    BY <1>1, <1>4 DEF FlowInv
  <1>6. /\ Placed(all, c, pos, sent, cipher, wire, sendq) /\ Delivered(r, sent, got, recvq)
        /\ Unbroken => Whole(all, pos, cipher, wire, sendq)
        /\ ParserAt(parser, all, c, sent, r, pos)
    BY <1>4, <1>5 DEF LoopFlow
  <1>7. cipher \in Bytes /\ wire \in Bytes /\ sendq \in Bytes /\ sent \in Seq(Frames)
    BY <1>1 DEF DataInv
  <1>8. /\ more \in Bytes /\ rest \in Bytes
        /\ Placed(all, c, pos, sent, more, rest, sendq)
        /\ Whole(all, pos, cipher, wire, sendq) => Whole(all, pos, more, rest, sendq)
    BY <1>6, <1>7, PlacedRead
  <1>9. end[source].loop # "none"
    <2>1. wire # << >>
      BY <1>7
    <2> QED BY <1>1, <1>4, <2>1 DEF SinkInv
  <1> HIDE DEF rest
  <1>10. CASE x.loop = "run"
    <2>1. Ingest(Sink, piece, x.secure)
      BY <1>10 DEF Read
    <2>2. x.secure \in BOOLEAN
      BY <1>3 DEF EndRecs
    <2>3. x.recvClosed => ~x.secure
      BY <1>2, <1>3 DEF Alive, Deaf
    <2> HIDE DEF piece
    <2> QED BY <1>2, <1>3, <1>4, <1>6, <1>8, <1>9, <2>1, <2>2, <2>3, IngestKeeps
  <1>11. CASE x.loop # "run"
    <2>1. cipher' = more /\ UNCHANGED <<end, parser, recvq, spare>>
      BY <1>11 DEF Read
    <2> HIDE DEF more
    <2>2. UNCHANGED <<kind, source, sendq, caller, polled, ended, sent, got>>
      BY <1>2 DEF linkVars, userVars
    <2>3. LifeInv' /\ Sink' = Sink /\ Unbroken' = Unbroken
      BY <1>1, <1>2, <2>1, EndsKeep
    <2>4. DataInv'
      BY <1>1, <1>2, <1>8, <2>1, <2>2 DEF DataInv
    <2>5. SinkInv'
      BY <1>1, <1>9, <2>1, <2>2, <2>3 DEF SinkInv
    <2>6. LoopFlow(all, c, pos, r)'
      BY <1>2, <1>6, <1>8, <2>1, <2>2, <2>3 DEF LoopFlow
    <2>7. FlowInv'
      BY <1>4, <2>2, <2>6 DEF FlowInv, LoopKinds
    <2> QED BY <2>3, <2>4, <2>5, <2>7 DEF StreamInv
  <1> QED BY <1>10, <1>11

\* on_send(), on_tls_send().
LEMMA FlushKeeps ==
    ASSUME StreamInv, Flush
    PROVE  StreamInv'
  <1>1. LifeInv /\ DataInv /\ SinkInv /\ FlowInv
    BY DEF StreamInv
  <1>2. /\ end[source].loop = "run" /\ end[source].handle /\ sendq' = << >>
        /\ UNCHANGED <<linkVars, end, cipher, parser, recvq, caller, spare, userVars>>
        /\ wire' = IF end[Sink].loop = "failed" THEN wire ELSE wire \o sendq
    BY DEF Flush
  <1>3. UNCHANGED <<kind, source, end, cipher, parser, recvq, caller, spare, polled, ended, sent, got>>
    BY <1>2 DEF linkVars, userVars
  <1>4. LifeInv' /\ Sink' = Sink /\ Unbroken' = Unbroken
    BY <1>1, <1>2, EndsKeep
  <1>5. kind \in LoopKinds
    BY <1>1, <1>2, SinkFacts DEF LifeInv, Alive
  <1>6. PICK all, c, pos, r : LoopFlow(all, c, pos, r)
    BY <1>1, <1>5 DEF FlowInv
  <1>7. cipher \in Bytes /\ wire \in Bytes /\ sendq \in Bytes /\ sent \in Seq(Frames)
        /\ wire \o sendq \in Bytes /\ << >> \in Bytes
    BY <1>1, ConcatFacts DEF DataInv, Bytes
  <1>8. DataInv'
    BY <1>1, <1>2, <1>3, <1>7 DEF DataInv
  <1>9. SinkInv'
    BY <1>1, <1>2, <1>3, <1>4 DEF SinkInv
  <1>10. /\ Placed(all, c, pos, sent, cipher, wire, << >>)
         /\ Whole(all, pos, cipher, wire, sendq) =>
              /\ Placed(all, c, pos, sent, cipher, wire \o sendq, << >>)
              /\ Whole(all, pos, cipher, wire \o sendq, << >>)
    <2>1. Placed(all, c, pos, sent, cipher, wire, sendq)
      BY <1>6 DEF LoopFlow
    <2> QED BY <1>7, <2>1, PlacedFlush
  <1>11. LoopFlow(all, c, pos, r)'
    <2>1. CASE end[Sink].loop = "failed"
      <3>1. ~Unbroken /\ wire' = wire
        BY <1>2, <2>1 DEF Unbroken
      <3> QED BY <1>2, <1>3, <1>4, <1>6, <1>10, <3>1 DEF LoopFlow
    <2>2. CASE end[Sink].loop # "failed"
      <3>1. Unbroken /\ wire' = wire \o sendq
        BY <1>2, <2>2 DEF Unbroken
      <3>2. Whole(all, pos, cipher, wire, sendq)
        BY <1>6, <3>1 DEF LoopFlow
      <3> QED BY <1>2, <1>3, <1>4, <1>6, <1>10, <3>1, <3>2 DEF LoopFlow
    <2> QED BY <2>1, <2>2
  <1>12. FlowInv'
    BY <1>3, <1>5, <1>11 DEF FlowInv, LoopKinds
  <1> QED BY <1>4, <1>8, <1>9, <1>12 DEF StreamInv

\* A closed connection loses a tail of what the kernel has.
LEMMA LoseKeeps ==
    ASSUME StreamInv, LoseTail
    PROVE  StreamInv'
  <1>1. LifeInv /\ DataInv /\ SinkInv /\ FlowInv
    BY DEF StreamInv
  <1>2. /\ wire # << >> /\ kind \in LoopKinds /\ ~end[source].handle
        /\ UNCHANGED <<linkVars, end, sendq, cipher, parser, recvq, caller, spare, userVars>>
    BY DEF LoseTail
  <1>3. UNCHANGED <<kind, source, end, sendq, cipher, parser, recvq, caller, spare, polled, ended, sent, got>>
    BY <1>2 DEF linkVars, userVars
  <1>4. LifeInv' /\ Sink' = Sink /\ Unbroken' = Unbroken
    BY <1>1, <1>2, EndsKeep
  <1>5. PICK n \in 0 .. Len(wire) - 1 : wire' = SubSeq(wire, 1, n)
    BY DEF LoseTail
  <1>6. PICK all, c, pos, r : LoopFlow(all, c, pos, r)
    BY <1>1, <1>2 DEF FlowInv
  <1>7. cipher \in Bytes /\ wire \in Bytes /\ sendq \in Bytes /\ sent \in Seq(Frames)
    BY <1>1 DEF DataInv
  <1>8. n \in 0 .. Len(wire)
    BY <1>7 DEF Bytes
  <1>9. wire' \in Bytes /\ Placed(all, c, pos, sent, cipher, wire', sendq)
    <2>1. Placed(all, c, pos, sent, cipher, wire, sendq)
      BY <1>6 DEF LoopFlow
    <2> QED BY <1>5, <1>7, <1>8, <2>1, PlacedLost
  <1>10. end[source].loop # "none" /\ ~Unbroken
    BY <1>1, <1>2 DEF SinkInv, Unbroken
  <1>11. DataInv'
    BY <1>1, <1>3, <1>9 DEF DataInv
  <1>12. SinkInv'
    BY <1>1, <1>3, <1>4, <1>10 DEF SinkInv
  <1>13. LoopFlow(all, c, pos, r)'
    BY <1>3, <1>4, <1>6, <1>9, <1>10 DEF LoopFlow
  <1>14. FlowInv'
    BY <1>2, <1>3, <1>13 DEF FlowInv, LoopKinds
  <1> QED BY <1>4, <1>11, <1>12, <1>14 DEF StreamInv

\* receive() from the queue.
LEMMA ReceiveKeeps ==
    ASSUME StreamInv, Reuse = FALSE, Receive
    PROVE  StreamInv'
  <1>1. LifeInv /\ DataInv /\ SinkInv /\ FlowInv
    BY DEF StreamInv
  <1>2. /\ kind # "iostream" /\ recvq # << >> /\ got' = Append(got, Head(recvq).data)
        /\ recvq' = Tail(recvq) /\ caller' = 0
        /\ UNCHANGED <<linkVars, end, sendq, wire, cipher, parser, polled, ended, sent>>
    BY DEF Receive
  <1>3. spare' = 0
    BY <1>1 DEF Receive, Larger, DataInv
  <1>4. UNCHANGED <<kind, source, end, sendq, wire, cipher, parser, polled, ended, sent>>
    BY <1>2 DEF linkVars
  <1>5. LifeInv' /\ Sink' = Sink /\ Unbroken' = Unbroken
    BY <1>1, <1>2, EndsKeep
  <1>6. sent \in Seq(Frames) /\ got \in Seq(Bytes) /\ recvq \in Seq(Buffers)
    BY <1>1 DEF DataInv
  <1>7. Tail(recvq) \in Seq(Buffers) /\ Append(got, Head(recvq).data) \in Seq(Bytes)
    <2>1. Tail(recvq) \in Seq(Buffers) /\ Head(recvq) \in Buffers
      BY <1>2, <1>6
    <2>2. Head(recvq).data \in Bytes
      BY <2>1 DEF Buffers
    <2> QED BY <1>6, <2>1, <2>2
  <1>8. DataInv'
    BY <1>1, <1>2, <1>3, <1>4, <1>7 DEF DataInv
  <1>9. SinkInv'
    BY <1>1, <1>2, <1>4, <1>5 DEF SinkInv
  <1>10. \A r : Delivered(r, sent, got, recvq) => Delivered(r, sent', got', recvq')
    BY <1>2, <1>4, <1>6, DeliveredReceive
  <1>11. FlowInv'
    <2>1. ASSUME kind \in LoopKinds PROVE (\E all, c, pos, r : LoopFlow(all, c, pos, r))'
      <3>1. PICK all, c, pos, r : LoopFlow(all, c, pos, r)
        BY <1>1, <2>1 DEF FlowInv
      <3>2. LoopFlow(all, c, pos, r)'
        BY <1>4, <1>5, <1>10, <3>1 DEF LoopFlow
      <3> QED BY <3>2
    <2>2. ASSUME kind = "memory" PROVE Delivered(Len(sent), sent, got, recvq)'
      BY <1>1, <1>4, <1>10, <2>2 DEF FlowInv
    <2> QED BY <1>2, <1>4, <2>1, <2>2 DEF FlowInv
  <1> QED BY <1>5, <1>8, <1>9, <1>11 DEF StreamInv

\* is_closed().
LEMMA PollKeeps ==
    ASSUME StreamInv, IsClosedFlag \/ IsClosedQueue
    PROVE  StreamInv'
  <1>1. LifeInv /\ DataInv /\ SinkInv /\ FlowInv
    BY DEF StreamInv
  <1>2. UNCHANGED <<linkVars, end, dataVars, sent, got>>
    BY DEF IsClosedFlag, IsClosedQueue
  <1>3. UNCHANGED <<kind, source, end, sendq, wire, cipher, parser, recvq, caller, spare, sent, got>>
    BY <1>2 DEF linkVars, dataVars
  <1>4. LifeInv' /\ Sink' = Sink /\ Unbroken' = Unbroken
    BY <1>1, <1>2, EndsKeep
  <1>5. polled' \in BOOLEAN /\ ended' \in BOOLEAN
    BY <1>1 DEF DataInv, IsClosedFlag, IsClosedQueue
  <1>6. DataInv'
    BY <1>1, <1>3, <1>5 DEF DataInv
  <1>7. (polled' \/ ended' => kind \in LoopKinds /\ end[Sink].recvClosed) /\ (ended' => recvq = << >>)
    <2>1. CASE IsClosedFlag
      <3>1. kind \in LoopKinds /\ end[Sink].recvClosed
        BY <2>1 DEF IsClosedFlag
      <3>2. ended' => recvq = << >>
        BY <1>1, <2>1 DEF SinkInv, IsClosedFlag
      <3> QED BY <3>1, <3>2
    <2>2. CASE IsClosedQueue
      <3>1. polled /\ polled' = FALSE /\ (ended' => recvq = << >>)
        BY <2>2 DEF IsClosedQueue
      <3> QED BY <1>1, <3>1 DEF SinkInv
    <2> QED BY <2>1, <2>2
  <1>8. SinkInv'
    BY <1>1, <1>3, <1>4, <1>7 DEF SinkInv
  <1>9. FlowInv'
    BY <1>1, <1>3, <1>4 DEF FlowInv, LoopFlow, FileFlow
  <1> QED BY <1>4, <1>6, <1>8, <1>9 DEF StreamInv

\* A frame that is sent has a length that its prefix can hold.
LEMMA FrameSent ==
    ASSUME NEW n \in Lengths, NEW m \in Nat
    PROVE  [i \in 1 .. n |-> m] \in Frames /\ Len([i \in 1 .. n |-> m]) = n /\ n \in Nat
  <1>1. n \in Nat /\ FitsPrefix(n)
    BY StreamAssumption
  <1>2. [i \in 1 .. n |-> m] \in Seq(Nat) /\ Len([i \in 1 .. n |-> m]) = n
    BY <1>1
  <1> QED BY <1>1, <1>2 DEF Frames, Bytes

\* send(), on each of the transports.
LEMMA SendKeeps ==
    ASSUME StreamInv, Send
    PROVE  StreamInv'
  <1>1. LifeInv /\ DataInv /\ SinkInv /\ FlowInv
    BY DEF StreamInv
  <1>2. /\ kind = "tls" => end[source].secure
        /\ UNCHANGED <<linkVars, end, cipher, parser, caller, spare, polled, ended, got>>
    BY DEF Send
  <1>3. UNCHANGED <<kind, source, end, cipher, parser, caller, spare, polled, ended, got>>
    BY <1>2 DEF linkVars
  <1>4. LifeInv' /\ Sink' = Sink /\ Unbroken' = Unbroken
    BY <1>1, <1>2, EndsKeep
  <1>5. /\ sent \in Seq(Frames) /\ got \in Seq(Bytes) /\ recvq \in Seq(Buffers) /\ sendq \in Bytes
        /\ wire \in Bytes /\ cipher \in Bytes /\ parser \in ParserRecs
    BY <1>1 DEF DataInv
  <1>6. Len(sent) + 1 \in Nat
    BY <1>5
  <1>7. PICK n \in Lengths :
          LET frame == [i \in 1 .. n |-> Len(sent) + 1]
          IN /\ Sendable(n)
             /\ sent' = Append(sent, frame)
             /\ CASE kind \in LoopKinds ->
                       /\ sendq' = sendq \o Encoded(frame)
                       /\ UNCHANGED <<wire, recvq>>
                  [] kind = "memory" ->
                       /\ recvq' = Append(recvq, [data |-> frame, cap |-> n])
                       /\ UNCHANGED <<sendq, wire>>
                  [] kind = "iostream" ->
                       /\ wire' = wire \o Encoded(frame)
                       /\ UNCHANGED <<sendq, recvq>>
    BY DEF Send
  <1>8. PICK f : f = [i \in 1 .. n |-> Len(sent) + 1]
    OBVIOUS
  <1>9. f \in Frames /\ Len(f) = n /\ n \in Nat
    BY <1>6, <1>8, FrameSent
  <1>10. /\ Sendable(n) /\ sent' = Append(sent, f)
         /\ kind \in LoopKinds => sendq' = sendq \o Encoded(f) /\ wire' = wire /\ recvq' = recvq
         /\ kind = "memory" => /\ recvq' = Append(recvq, [data |-> f, cap |-> n])
                               /\ sendq' = sendq /\ wire' = wire
         /\ kind = "iostream" => wire' = wire \o Encoded(f) /\ sendq' = sendq /\ recvq' = recvq
    BY <1>7, <1>8 DEF LoopKinds
  <1>11. kind \in LoopKinds \/ kind = "memory" \/ kind = "iostream"
    BY <1>1 DEF LifeInv, AllKinds, LoopKinds
  <1>12. Encoded(f) \in Bytes /\ sendq \o Encoded(f) \in Bytes /\ wire \o Encoded(f) \in Bytes
    <2>1. Encoded(f) \in Bytes
      BY <1>9, EncodedFacts
    <2> QED BY <1>5, <2>1, ConcatFacts DEF Bytes
  <1>13. Append(sent, f) \in Seq(Frames) /\ f \in Bytes
    BY <1>5, <1>9 DEF Frames
  <1> DEFINE b == [data |-> f, cap |-> n]
  <1>14. b \in Buffers /\ b.data = f /\ Append(recvq, b) \in Seq(Buffers)
    BY <1>5, <1>9, <1>13 DEF Buffers
  <1>15. DataInv'
    BY <1>1, <1>3, <1>5, <1>10, <1>11, <1>12, <1>13, <1>14 DEF DataInv
  <1>16. SinkInv'
    <2>1. ended => recvq' = << >>
      BY <1>1, <1>10, <1>11 DEF SinkInv, LoopKinds
    <2>2. kind \in LoopKinds => wire' = wire
      BY <1>10
    <2>3. ASSUME kind = "tls" PROVE \A i \in 1 .. Len(sent') : ~(Len(sent'[i]) > MaxFrame)
      <3>1. ~(n > MaxFrame)
        BY <1>10, <2>3 DEF Sendable
      <3>2. /\ Len(sent') = Len(sent) + 1 /\ sent'[Len(sent) + 1] = f /\ Len(sent) \in Nat
            /\ \A i \in 1 .. Len(sent) : sent'[i] = sent[i]
        BY <1>5, <1>9, <1>10
      <3>3. \A i \in 1 .. Len(sent) : ~(Len(sent[i]) > MaxFrame)
        BY <1>1, <2>3 DEF SinkInv
      <3>4. ASSUME NEW i \in 1 .. Len(sent') PROVE ~(Len(sent'[i]) > MaxFrame)
        <4>1. CASE i = Len(sent) + 1
          BY <1>9, <3>1, <3>2, <4>1
        <4>2. CASE i # Len(sent) + 1
          <5>1. i \in 1 .. Len(sent)
            BY <3>2, <4>2
          <5> QED BY <3>2, <3>3, <5>1
        <4> QED BY <4>1, <4>2
      <3> QED BY <3>4
    <2> QED BY <1>1, <1>2, <1>3, <1>4, <2>1, <2>2, <2>3 DEF SinkInv
  <1>17. CASE kind \in LoopKinds
    <2>1. PICK all, c, pos, r : LoopFlow(all, c, pos, r)
      BY <1>1, <1>17 DEF FlowInv
    <2>2. Placed(all, c, pos, sent, cipher, wire, sendq) /\ Delivered(r, sent, got, recvq)
      BY <2>1 DEF LoopFlow
    <2>3. PICK big : big = all \o Encoded(f)
      OBVIOUS
    <2>4. PICK d : /\ Placed(big, d, pos, sent', cipher, wire, sendq')
                   /\ \A i \in 0 .. Len(sent) : d[i] = c[i]
                   /\ Whole(all, pos, cipher, wire, sendq) => Whole(big, pos, cipher, wire, sendq')
      <3>1. \E d : /\ Placed(all \o Encoded(f), d, pos, Append(sent, f), cipher, wire, sendq \o Encoded(f))
                   /\ \A i \in 0 .. Len(sent) : d[i] = c[i]
                   /\ Whole(all, pos, cipher, wire, sendq) =>
                        Whole(all \o Encoded(f), pos, cipher, wire, sendq \o Encoded(f))
        BY <1>5, <1>9, <2>2, PlacedSend
      <3>2. sent' = Append(sent, f) /\ sendq' = sendq \o Encoded(f)
        BY <1>10, <1>17
      <3> QED BY <2>3, <3>1, <3>2
    <2>5. all \in Bytes /\ Laid(all, c, sent)
      BY <2>2 DEF Placed
    <2>6. parser.ok => ParserAt(parser, big, d, sent', r, pos)
      <3>1. parser.ok => ParserAt(parser, all, c, sent, r, pos)
        BY <2>1 DEF LoopFlow
      <3> QED BY <1>5, <1>9, <1>10, <2>3, <2>4, <2>5, <3>1, ParserGrows
    <2>7. Delivered(r, sent', got, recvq)
      BY <1>5, <1>9, <1>10, <2>2, DeliveredSend
    <2>8. LoopFlow(big, d, pos, r)'
      BY <1>3, <1>4, <1>10, <1>17, <2>1, <2>4, <2>6, <2>7 DEF LoopFlow
    <2>9. FlowInv'
      BY <1>3, <1>17, <2>8 DEF FlowInv, LoopKinds
    <2> QED BY <1>4, <1>15, <1>16, <2>9 DEF StreamInv
  <1>18. CASE kind = "memory"
    <2> DEFINE m == Len(sent)
    <2>1. Delivered(m, sent, got, recvq)
      BY <1>1, <1>18 DEF FlowInv
    <2>2. Delivered(m, sent', got, recvq)
      BY <1>5, <1>9, <1>10, <2>1, DeliveredSend
    <2>3. sent' \in Seq(Frames) /\ Len(sent') = m + 1 /\ sent'[m + 1] = f /\ m \in Nat
      BY <1>5, <1>9, <1>10
    <2> HIDE DEF m, b
    <2>4. m + 1 \in m .. Len(sent') /\ (m + 1) - m = 1 /\ \A k \in 1 .. (m + 1) - m : k = 1
      BY <2>3
    <2>5. <<b>> \in Seq(Buffers) /\ Len(<<b>>) = 1 /\ <<b>>[1] = b
      BY <1>14
    <2>6. Continues(<<b>>, sent', m, m + 1)
      BY <1>14, <2>3, <2>4, <2>5 DEF Continues
    <2>7. Delivered(m + 1, sent', got, recvq \o <<b>>)
      BY <1>5, <2>2, <2>3, <2>4, <2>5, <2>6, DeliveredFed
    <2>8. recvq \o <<b>> = Append(recvq, b)
      BY <1>5, <1>14
    <2>9. recvq' = Append(recvq, b)
      BY <1>10, <1>18 DEF b
    <2>10. Delivered(Len(sent'), sent', got', recvq')
      BY <1>3, <2>3, <2>7, <2>8, <2>9
    <2>11. FlowInv'
      BY <1>3, <1>18, <2>10 DEF FlowInv, LoopKinds
    <2> QED BY <1>4, <1>15, <1>16, <2>11 DEF StreamInv
  <1>19. CASE kind = "iostream"
    <2>1. PICK all, c : FileFlow(all, c)
      BY <1>1, <1>19 DEF FlowInv
    <2> DEFINE g == Len(got)
    <2>2. /\ all \in Bytes /\ Laid(all, c, sent) /\ Delivered(g, sent, got, recvq) /\ recvq = << >>
          /\ At(all, c[g], wire) /\ c[g] + Len(wire) = Len(all)
      BY <2>1 DEF FileFlow
    <2>3. PICK big : big = all \o Encoded(f)
      OBVIOUS
    <2>4. PICK d : Laid(big, d, sent') /\ \A i \in 0 .. Len(sent) : d[i] = c[i]
      BY <1>5, <1>9, <1>10, <2>2, <2>3, LaidAppend
    <2>5. g \in 0 .. Len(sent) /\ d[g] = c[g] /\ c[g] \in Nat
      <3>1. g \in 0 .. Len(sent)
        BY <2>2 DEF Delivered
      <3> QED BY <2>2, <2>4, <3>1 DEF Laid
    <2>6. Delivered(g, sent', got, recvq)
      BY <1>5, <1>9, <1>10, <2>2, DeliveredSend
    <2>7. big \in Bytes /\ Len(big) = Len(all) + Len(Encoded(f)) /\ Len(all) \in Nat
          /\ Len(Encoded(f)) \in Nat
      BY <1>12, <2>2, <2>3, ConcatFacts DEF Bytes
    <2>8. Len(wire \o Encoded(f)) = Len(wire) + Len(Encoded(f)) /\ Len(wire) \in Nat
      BY <1>5, <1>12, ConcatFacts DEF Bytes
    <2>9. At(big, c[g], wire \o Encoded(f))
      <3>1. At(big, c[g], wire)
        BY <1>5, <1>12, <2>2, <2>3, <2>5, AtGrows
      <3>2. At(big, c[g] + Len(wire), Encoded(f))
        BY <1>12, <2>2, <2>3, AtEnd
      <3> QED BY <1>5, <1>12, <2>5, <2>7, <3>1, <3>2, AtJoin
    <2>10. c[g] + Len(wire \o Encoded(f)) = Len(big)
      <3> DEFINE x == c[g]
                 w == Len(wire)
                 y == Len(Encoded(f))
                 z == Len(all)
                 v == Len(wire \o Encoded(f))
                 t == Len(big)
      <3>1. x \in Nat /\ w \in Nat /\ y \in Nat /\ z \in Nat /\ x + w = z /\ v = w + y /\ t = z + y
        BY <2>2, <2>5, <2>7, <2>8
      <3> HIDE DEF x, w, y, z, v, t
      <3>2. x + v = t
        BY <3>1
      <3> QED BY <3>2 DEF x, v, t
    <2>11. FileFlow(big, d)'
      BY <1>3, <1>10, <1>19, <2>2, <2>4, <2>5, <2>6, <2>7, <2>9, <2>10 DEF FileFlow
    <2>12. FlowInv'
      BY <1>3, <1>19, <2>11 DEF FlowInv, LoopKinds
    <2> QED BY <1>4, <1>15, <1>16, <2>12 DEF StreamInv
  <1> QED BY <1>11, <1>17, <1>18, <1>19

\* A piece out of the middle of a piece.
LEMMA AtMiddle ==
    ASSUME NEW all \in Bytes, NEW pos \in Nat, NEW s \in Bytes, At(all, pos, s),
           NEW m \in Nat, NEW n \in Nat, m + n <= Len(s)
    PROVE  LET t == SubSeq(s, m + 1, m + n)
           IN t \in Bytes /\ Len(t) = n /\ At(all, pos + m, t)
  <1> DEFINE t == SubSeq(s, m + 1, m + n)
             a == Len(all)
             z == Len(s)
  <1>1. z \in Nat /\ a \in Nat /\ pos + z <= a /\ m + n <= z
    BY DEF Bytes, At
  <1>2. t \in Bytes /\ Len(t) = n /\ \A k \in 1 .. n : t[k] = s[m + k]
    <2>1. s \in Seq(Nat) /\ m + 1 \in Nat /\ m + n \in Nat /\ m + 1 >= 1 /\ m + n <= Len(s)
      BY DEF Bytes
    <2>2. t = [k \in 1 .. (m + n) - (m + 1) + 1 |-> s[k + (m + 1) - 1]]
      BY <2>1 DEF SubSeq
    <2>3. (m + n) - (m + 1) + 1 = n /\ \A k \in 1 .. n : k + (m + 1) - 1 = m + k /\ m + k \in 1 .. Len(s)
      <3> HIDE DEF z
      <3> QED BY <2>1
    <2>4. t = [k \in 1 .. n |-> s[m + k]]
      BY <2>2, <2>3
    <2> HIDE DEF t
    <2>5. t \in [1 .. n -> Nat]
      BY <2>1, <2>3, <2>4
    <2>6. t \in Seq(Nat) /\ Len(t) = n
      BY <2>5
    <2> QED BY <2>4, <2>6 DEF Bytes
  <1> HIDE DEF t, a, z
  <1>3. (pos + m) + n <= a
    BY <1>1
  <1>4. ASSUME NEW k \in 1 .. n PROVE t[k] = all[(pos + m) + k]
    <2>1. m + k \in 1 .. z /\ pos + (m + k) = (pos + m) + k
      BY <1>1
    <2>2. s[m + k] = all[pos + (m + k)]
      BY <2>1 DEF At, z
    <2> QED BY <1>2, <2>1, <2>2
  <1>5. At(all, pos + m, t)
    BY <1>2, <1>3, <1>4 DEF At, a
  <1> QED BY <1>2, <1>5 DEF t

\* stream_read_frame() reads the frame that comes next.
LEMMA ReceiveStreamKeeps ==
    ASSUME StreamInv, ReceiveStream
    PROVE  StreamInv' /\ Len(got') = Len(got) + 1
  <1> DEFINE n == PrefixValue(SubSeq(wire, 1, 4))
             g == Len(got)
             f == sent[g + 1]
             body == SubSeq(wire, 5, 4 + n)
             rest == SubSeq(wire, 5 + n, Len(wire))
             w == Len(wire)
  <1>1. LifeInv /\ DataInv /\ SinkInv /\ FlowInv
    BY DEF StreamInv
  <1>2. /\ kind = "iostream" /\ w >= 4 /\ got' = Append(got, body) /\ wire' = rest
        /\ UNCHANGED <<linkVars, end, sendq, cipher, parser, recvq, caller, spare, polled, ended, sent>>
    BY DEF ReceiveStream
  <1>3. UNCHANGED <<kind, source, end, sendq, cipher, parser, recvq, caller, spare, polled, ended, sent>>
    BY <1>2 DEF linkVars
  <1>4. LifeInv' /\ Sink' = Sink
    BY <1>1, <1>2, EndsKeep
  <1>5. sent \in Seq(Frames) /\ got \in Seq(Bytes) /\ wire \in Bytes /\ g \in Nat /\ w \in Nat
        /\ Len(sent) \in Nat
    BY <1>1 DEF DataInv, Bytes
  <1>6. PICK all, c : FileFlow(all, c)
    BY <1>1, <1>2 DEF FlowInv
  <1> DEFINE a == Len(all)
             pos == c[g]
  <1>7. /\ all \in Bytes /\ Laid(all, c, sent) /\ g \in 0 .. Len(sent) /\ recvq = << >>
        /\ \A i \in 1 .. g : got[i] = sent[i]
        /\ At(all, pos, wire) /\ pos + w = a
    BY <1>6 DEF FileFlow, Delivered
  <1>8. pos \in Nat /\ a \in Nat
    BY <1>7 DEF Laid, Bytes
  <1>9. pos < a /\ pos <= pos
    <2> HIDE DEF pos, a, w
    <2> QED BY <1>2, <1>5, <1>7, <1>8
  <1>10. /\ g + 1 \in 1 .. Len(sent) /\ f \in Frames /\ c[g + 1] = pos + 4 + Len(f) /\ Len(f) \in Nat
         /\ At(all, pos, Prefix(Len(f))) /\ At(all, pos + 4, f) /\ c[g + 1] <= a
    <2>1. PICK here : here = pos
      OBVIOUS
    <2>2. here \in Nat /\ c[g] <= here /\ here < Len(all)
      BY <1>8, <1>9, <2>1
    <2> HIDE DEF g
    <2> QED BY <1>5, <1>7, <2>2, NextFrame
  <1>11. n = Len(f)
    <2>1. Prefix(Len(f)) \in Bytes /\ Len(Prefix(Len(f))) = 4 /\ PrefixValue(Prefix(Len(f))) = Len(f)
      BY <1>10, PrefixFacts DEF Frames
    <2>2. 4 \in 0 .. Len(wire)
      <3> HIDE DEF w
      <3>1. 4 \in 0 .. w
        BY <1>2, <1>5
      <3> QED BY <3>1 DEF w
    <2>3. SubSeq(wire, 1, 4) \in Bytes /\ Len(SubSeq(wire, 1, 4)) = 4 /\ At(all, pos, SubSeq(wire, 1, 4))
      BY <1>5, <1>7, <1>8, <2>2, AtCut
    <2>4. SubSeq(wire, 1, 4) = Prefix(Len(f))
      BY <1>7, <1>8, <1>10, <2>1, <2>3, AtSame
    <2> QED BY <2>1, <2>4
  <1> HIDE DEF n
  <1>12. n \in Nat /\ 4 + n <= w /\ pos + 4 \in Nat /\ pos + (4 + n) = c[g + 1]
    <2> DEFINE l == Len(f)
               y == c[g + 1]
    <2>1. n = l /\ l \in Nat /\ y = pos + 4 + l /\ y <= a /\ pos + w = a
      BY <1>7, <1>10, <1>11
    <2> HIDE DEF l, y, pos, a, w
    <2>2. n \in Nat /\ 4 + n <= w /\ pos + 4 \in Nat /\ pos + (4 + n) = y
      BY <1>5, <1>8, <2>1
    <2> QED BY <2>2 DEF y
  <1>13. body = f
    <2>1. 4 \in Nat /\ 4 + 1 = 5
      OBVIOUS
    <2> DEFINE t == SubSeq(wire, 4 + 1, 4 + n)
    <2>2. t \in Bytes /\ Len(t) = n /\ At(all, pos + 4, t)
      BY <1>5, <1>7, <1>8, <1>12, <2>1, AtMiddle
    <2>3. t = body
      BY <2>1
    <2> HIDE DEF t
    <2>4. f \in Bytes
      BY <1>10 DEF Frames
    <2>5. t = f
      <3>1. PICK here : here = pos + 4
        OBVIOUS
      <3>2. here \in Nat /\ At(all, here, t) /\ At(all, here, f) /\ Len(t) = Len(f)
        BY <1>10, <1>11, <1>12, <2>2, <3>1
      <3> HIDE DEF f
      <3> QED BY <1>7, <2>2, <2>4, <3>2, AtSame
    <2> QED BY <2>3, <2>5
  <1>14. rest \in Bytes /\ Len(rest) = w - (4 + n) /\ At(all, c[g + 1], rest)
    <2>1. 4 + n \in 0 .. Len(wire) /\ (4 + n) + 1 = 5 + n
      <3> HIDE DEF w
      <3>1. 4 + n \in 0 .. w /\ (4 + n) + 1 = 5 + n
        BY <1>5, <1>12
      <3> QED BY <3>1 DEF w
    <2> DEFINE t == SubSeq(wire, (4 + n) + 1, Len(wire))
    <2>2. t \in Bytes /\ Len(t) = Len(wire) - (4 + n) /\ At(all, pos + (4 + n), t)
      BY <1>5, <1>7, <1>8, <2>1, AtCut
    <2>3. t = rest
      BY <2>1
    <2> HIDE DEF t
    <2> QED BY <1>12, <2>2, <2>3
  <1>15. f \in Bytes
    BY <1>10 DEF Frames
  <1> HIDE DEF f, body, rest
  <1>16. /\ Append(got, f) \in Seq(Bytes) /\ Len(Append(got, f)) = g + 1 /\ Append(got, f)[g + 1] = f
         /\ \A i \in 1 .. g : Append(got, f)[i] = got[i]
    BY <1>5, <1>15
  <1>17. got' = Append(got, f) /\ Len(got') = g + 1
    BY <1>2, <1>13, <1>16
  <1>18. Delivered(g + 1, sent, got', << >>)
    <2>1. Len(<< >>) = 0 /\ (g + 1) + 0 = g + 1 /\ g + 1 \in 0 .. Len(sent)
          /\ \A k \in 1 .. Len(<< >>) : FALSE
      <3> HIDE DEF g
      <3> QED BY <1>5, <1>10
    <2>2. ASSUME NEW i \in 1 .. g + 1 PROVE got'[i] = sent[i]
      <3>1. CASE i = g + 1
        BY <1>16, <1>17, <3>1 DEF f
      <3>2. CASE i # g + 1
        <4>1. i \in 1 .. g
          <5> HIDE DEF g
          <5> QED BY <1>5, <3>2
        <4> QED BY <1>7, <1>16, <1>17, <4>1
      <3> QED BY <3>1, <3>2
    <2> QED BY <1>17, <2>1, <2>2 DEF Delivered
  <1>19. c[g + 1] + Len(rest) = a
    <2> DEFINE y == c[g + 1]
    <2>1. y = pos + (4 + n) /\ Len(rest) = w - (4 + n) /\ pos + w = a /\ n \in Nat
      BY <1>7, <1>12, <1>14
    <2> HIDE DEF y, pos, w, a
    <2>2. y + Len(rest) = a
      BY <1>5, <1>8, <2>1
    <2> QED BY <2>2 DEF y
  <1>20. FileFlow(all, c)'
    BY <1>2, <1>3, <1>7, <1>14, <1>17, <1>18, <1>19 DEF FileFlow
  <1>21. FlowInv'
    BY <1>2, <1>3, <1>20 DEF FlowInv, LoopKinds
  <1>22. DataInv'
    BY <1>1, <1>2, <1>3, <1>14, <1>16, <1>17 DEF DataInv
  <1>23. SinkInv'
    BY <1>1, <1>2, <1>3, <1>4 DEF SinkInv, LoopKinds
  <1> QED BY <1>4, <1>17, <1>21, <1>22, <1>23 DEF StreamInv
-----------------------------------------------------------------------------
(***************************************************************************)
(* The refinement.                                                         *)
(***************************************************************************)
StreamSpec == StreamInit /\ [][StreamNext]_streamVars

\* Every state: the bytes between the two ends are where FlowInv says.
LEMMA StreamInvHolds ==
    ASSUME Reuse = FALSE
    PROVE  StreamSpec => []StreamInv
  <1>1. StreamInit => StreamInv
    <2> SUFFICES ASSUME StreamInit PROVE StreamInv
      OBVIOUS
    <2>1. /\ kind \in AllKinds /\ source \in Ends /\ end = [e \in Ends |-> NewEnd]
          /\ sendq = << >> /\ wire = << >> /\ cipher = << >> /\ parser = IdleParser /\ recvq = << >>
          /\ caller = 0 /\ spare = 0 /\ polled = FALSE /\ ended = FALSE /\ sent = << >> /\ got = << >>
      BY StreamAssumption DEF StreamInit
    <2>2. NewEnd \in EndRecs /\ NewEnd.loop = "none" /\ ~NewEnd.handle /\ ~NewEnd.recvClosed
          /\ ~NewEnd.secure
      BY DEF NewEnd, EndRecs
    <2>3. LifeInv
      <3>1. end \in [Ends -> EndRecs] /\ \A e \in Ends : end[e] = NewEnd
        BY <2>1, <2>2
      <3>2. \A e \in Ends : Peer(e) \in Ends
        BY PeerFacts
      <3> QED BY <2>1, <2>2, <3>1, <3>2 DEF LifeInv, Alive
    <2>4. IdleParser \in ParserRecs /\ IdleParser.ok = TRUE /\ IdleParser.hdr = << >>
      BY DEF IdleParser, ParserRecs, Bytes
    <2>5. DataInv
      <3>1. << >> \in Bytes /\ << >> \in Seq(Buffers) /\ << >> \in Seq(Frames) /\ << >> \in Seq(Bytes)
        BY EmptyHas DEF Bytes
      <3> QED BY <2>1, <2>4, <3>1 DEF DataInv
    <2>6. SinkInv
      BY <2>1, <2>4 DEF SinkInv
    <2>7. Delivered(0, sent, got, recvq)
      <3>1. Len(<< >>) = 0 /\ 0 + 0 = 0 /\ 0 \in 0 .. 0 /\ \A k \in 1 .. 0 : FALSE
        OBVIOUS
      <3> QED BY <2>1, <3>1 DEF Delivered
    <2> DEFINE c == [i \in 0 .. 0 |-> 0]
    <2>8. << >> \in Bytes /\ Len(<< >>) = 0 /\ 0 \in 0 .. Len(<< >>) /\ \A k \in 1 .. 0 : FALSE
      BY DEF Bytes
    <2>9. At(<< >>, 0, << >>)
      BY <2>8, AtEmpty
    <2>10. c \in [0 .. 0 -> Nat] /\ c[0] = 0
      OBVIOUS
    <2> HIDE DEF c
    <2>11. Laid(<< >>, c, sent)
      BY <2>1, <2>8, <2>10 DEF Laid
    <2>12. 0 + 0 = 0 /\ 0 - 0 = 0 /\ 0 <= 0 /\ 0 + 0 + 0 + 0 = 0 /\ 0 < 4 /\ 0 \in 0 .. 0 /\ 0 \in Nat
      OBVIOUS
    <2>13. Placed(<< >>, c, 0, sent, cipher, wire, sendq) /\ Whole(<< >>, 0, cipher, wire, sendq)
      BY <2>1, <2>8, <2>9, <2>11, <2>12 DEF Placed, Whole
    <2>14. ParserAt(parser, << >>, c, sent, 0, 0)
      BY <2>1, <2>4, <2>8, <2>9, <2>10, <2>12 DEF ParserAt
    <2>15. LoopFlow(<< >>, c, 0, 0)
      BY <2>7, <2>13, <2>14 DEF LoopFlow
    <2>16. FileFlow(<< >>, c)
      BY <2>1, <2>7, <2>8, <2>9, <2>10, <2>11, <2>12 DEF FileFlow
    <2>17. FlowInv
      BY <2>1, <2>7, <2>8, <2>15, <2>16 DEF FlowInv
    <2> QED BY <2>3, <2>5, <2>6, <2>17 DEF StreamInv
  <1>2. StreamInv /\ [StreamNext]_streamVars => StreamInv'
    <2> SUFFICES ASSUME StreamInv, [StreamNext]_streamVars PROVE StreamInv'
      OBVIOUS
    <2>1. LifeInv
      BY DEF StreamInv
    <2>2. CASE ServerStep
      BY <2>1, <2>2, ServerGoes, LifeKeeps
    <2>3. CASE OpenStep
      BY <2>1, <2>3, OpenGoes, LifeKeeps
    <2>4. ASSUME NEW e \in Ends, HandshakeDone(e) PROVE StreamInv'
      BY <2>4, HandshakeKeeps
    <2>5. ASSUME NEW e \in Ends,
                 HandshakeFails(e) \/ CloseLoop(e) \/ CloseFlag(e) \/ LoopStep(e) \/ Joined(e)
          PROVE  StreamInv'
      BY <2>1, <2>5, CloseGoes, LifeKeeps
    <2>6. CASE Send
      BY <2>6, SendKeeps
    <2>7. CASE Flush
      BY <2>7, FlushKeeps
    <2>8. CASE LoseTail
      BY <2>8, LoseKeeps
    <2>9. ASSUME NEW n \in 1 .. Len(wire), Read(n) PROVE StreamInv'
      BY <2>9, ReadKeeps
    <2>10. CASE Receive
      BY <2>10, ReceiveKeeps
    <2>11. CASE ReceiveStream
      BY <2>11, ReceiveStreamKeeps
    <2>12. CASE IsClosedFlag \/ IsClosedQueue
      BY <2>12, PollKeeps
    <2>13. CASE UNCHANGED streamVars
      <3>1. UNCHANGED <<kind, source, end>> /\ UNCHANGED <<linkVars, dataVars, userVars>>
        BY <2>13 DEF streamVars, linkVars
      <3>2. LifeInv' /\ Onward
        BY <2>1, <3>1, EndsRest
      <3> QED BY <3>1, <3>2, LifeKeeps
    <2> QED BY <2>2, <2>3, <2>4, <2>5, <2>6, <2>7, <2>8, <2>9, <2>10, <2>11, <2>12, <2>13
            DEF StreamNext
  <1> QED BY <1>1, <1>2, PTL DEF StreamSpec

\* The numbers of the frames that came out, as StreamRefines maps them.
Numbers(k) == [i \in 1 .. k |-> i]

\* A number more, and the last one.
LEMMA NumbersFacts ==
    ASSUME NEW k \in Nat
    PROVE  /\ Numbers(k) \in Seq(Nat) /\ Len(Numbers(k)) = k
           /\ Append(Numbers(k), k + 1) = Numbers(k + 1)
           /\ (IF Numbers(k) = << >> THEN 0 ELSE Numbers(k)[Len(Numbers(k))]) = k
  <1>1. Numbers(k) \in Seq(Nat) /\ Len(Numbers(k)) = k /\ \A i \in 1 .. k : Numbers(k)[i] = i
    BY DEF Numbers
  <1>2. Numbers(k + 1) \in Seq(Nat) /\ Len(Numbers(k + 1)) = k + 1
        /\ \A i \in 1 .. k + 1 : Numbers(k + 1)[i] = i
    BY DEF Numbers
  <1>3. Append(Numbers(k), k + 1) = Numbers(k + 1)
    <2> DEFINE a == Append(Numbers(k), k + 1)
    <2>1. a \in Seq(Nat) /\ Len(a) = k + 1 /\ a[k + 1] = k + 1 /\ \A i \in 1 .. k : a[i] = Numbers(k)[i]
      BY <1>1
    <2> HIDE DEF a
    <2>2. ASSUME NEW i \in 1 .. k + 1 PROVE a[i] = Numbers(k + 1)[i]
      <3>1. i = k + 1 \/ i \in 1 .. k
        OBVIOUS
      <3> QED BY <1>1, <1>2, <2>1, <3>1
    <2>3. a = Numbers(k + 1)
      BY <1>2, <2>1, <2>2, SameSeq
    <2> QED BY <2>3 DEF a
  <1>4. (IF Numbers(k) = << >> THEN 0 ELSE Numbers(k)[Len(Numbers(k))]) = k
    <2>1. CASE k = 0
      <3>1. Numbers(k) = << >>
        BY <1>1, <2>1
      <3> QED BY <2>1, <3>1
    <2>2. CASE k # 0
      <3>1. k \in 1 .. k /\ Numbers(k) # << >>
        BY <1>1, <2>2
      <3> QED BY <1>1, <3>1
    <2> QED BY <2>1, <2>2
  <1> QED BY <1>1, <1>3, <1>4

\* The mapping of StreamRefines: every frame that was received has a number.
Mapped == [i \in 1 .. Len(got) |-> IF i <= Len(sent) /\ got[i] = sent[i] THEN i ELSE 0]

\* The frames that were received are the first that were sent.
LEMMA MappedNumbers ==
    ASSUME StreamInv
    PROVE  /\ Mapped = Numbers(Len(got)) /\ Len(got) \in Nat /\ Len(sent) \in Nat
           /\ Len(got) <= Len(sent)
  <1>1. LifeInv /\ DataInv /\ FlowInv
    BY DEF StreamInv
  <1>2. sent \in Seq(Frames) /\ got \in Seq(Bytes) /\ recvq \in Seq(Buffers)
    BY <1>1 DEF DataInv
  <1>3. \E r : Delivered(r, sent, got, recvq)
    <2>1. kind \in LoopKinds \/ kind = "memory" \/ kind = "iostream"
      BY <1>1 DEF LifeInv, AllKinds, LoopKinds
    <2> QED BY <1>1, <2>1 DEF FlowInv, LoopFlow, FileFlow
  <1>4. PICK r : Delivered(r, sent, got, recvq)
    BY <1>3
  <1> DEFINE g == Len(got)
             m == Len(sent)
             q == Len(recvq)
  <1>5. /\ g \in Nat /\ m \in Nat /\ q \in Nat /\ r \in 0 .. m /\ g + q = r
        /\ \A i \in 1 .. g : got[i] = sent[i]
    BY <1>2, <1>4 DEF Delivered
  <1> HIDE DEF g, m, q
  <1>6. g <= m /\ \A i \in 1 .. g : i <= m
    BY <1>5
  <1>7. Mapped = Numbers(g)
    BY <1>5, <1>6 DEF Mapped, Numbers, g, m
  <1> QED BY <1>5, <1>6, <1>7 DEF g, m

\* The frames of a connection are those of a FrameChannel that loses nothing:
\* send() is its Accept, receive() its Deliver and is_closed() its End.  With
\* a buffer offered to receive() (Reuse) it does not hold.
THEOREM StreamRefinesHolds ==
    ASSUME Reuse = FALSE
    PROVE  StreamSpec => StreamRefines
  <1>1. StreamInit => Channel!Init
    <2> SUFFICES ASSUME StreamInit PROVE Channel!Init
      OBVIOUS
    <2>1. sent = << >> /\ got = << >> /\ ended = FALSE
      BY DEF StreamInit
    <2>2. Len(sent) = 0 /\ Len(got) = 0
      BY <2>1
    <2>3. Mapped = << >>
      BY <2>2 DEF Mapped
    <2> QED BY <2>1, <2>2, <2>3 DEF Channel!Init, Mapped
  <1>2. StreamInv /\ StreamInv' /\ [StreamNext]_streamVars => [Channel!Next]_Channel!channelVars
    <2> SUFFICES ASSUME StreamInv, StreamInv', [StreamNext]_streamVars
                 PROVE  [Channel!Next]_Channel!channelVars
      OBVIOUS
    <2> DEFINE g == Len(got)
               m == Len(sent)
    <2>1. Mapped = Numbers(g) /\ g \in Nat /\ m \in Nat /\ g <= m
      BY MappedNumbers
    <2>2. Mapped' = Numbers(Len(got')) /\ Len(got') \in Nat /\ Len(sent') \in Nat /\ Len(got') <= Len(sent')
      <3>1. (Mapped = Numbers(Len(got)) /\ Len(got) \in Nat /\ Len(sent) \in Nat /\ Len(got) <= Len(sent))'
        BY MappedNumbers, PTL
      <3> QED BY <3>1 DEF Numbers
    <2>3. sent \in Seq(Frames) /\ got \in Seq(Bytes) /\ LifeInv /\ SinkInv /\ ended \in BOOLEAN
      BY DEF StreamInv, DataInv
    <2>4. ASSUME UNCHANGED <<sent, got, ended>> PROVE [Channel!Next]_Channel!channelVars
      BY <2>4 DEF Channel!channelVars
    <2>5. ASSUME UNCHANGED userVars PROVE [Channel!Next]_Channel!channelVars
      BY <2>4, <2>5 DEF userVars
    <2>6. ASSUME ~ended, Len(got') = g + 1, UNCHANGED <<sent, ended>>
          PROVE  [Channel!Next]_Channel!channelVars
      <3>1. g + 1 \in g + 1 .. m
        <4>1. g + 1 <= m
          BY <2>2, <2>6
        <4> HIDE DEF g, m
        <4> QED BY <2>1, <4>1
      <3>2. Mapped' = Append(Mapped, g + 1)
        BY <2>1, <2>2, <2>6, NumbersFacts
      <3>3. (IF Mapped = << >> THEN 0 ELSE Mapped[Len(Mapped)]) = g
        BY <2>1, NumbersFacts
      <3>4. Channel!LastDelivered = g
        BY <3>3 DEF Channel!LastDelivered, Mapped
      <3>5. Channel!Deliver
        <4> HIDE DEF g
        <4> QED BY <2>6, <3>1, <3>2, <3>4 DEF Channel!Deliver, Mapped
      <3> QED BY <3>5 DEF Channel!Next
    <2>7. CASE Send
      <3>1. got' = got /\ ended' = ended /\ Len(sent') = m + 1
        <4>1. PICK n \in Lengths : sent' = Append(sent, [i \in 1 .. n |-> Len(sent) + 1])
          BY <2>7 DEF Send
        <4>2. [i \in 1 .. n |-> Len(sent) + 1] \in Frames
          <5>1. Len(sent) + 1 \in Nat
            BY <2>1
          <5> QED BY <5>1, FrameSent
        <4>3. got' = got /\ ended' = ended
          BY <2>7 DEF Send
        <4> QED BY <2>3, <4>1, <4>2, <4>3
      <3>2. Mapped' = Mapped
        BY <2>1, <2>2, <3>1
      <3>3. Channel!Accept
        BY <3>1, <3>2 DEF Channel!Accept, Mapped
      <3> QED BY <3>3 DEF Channel!Next
    <2>8. CASE Receive
      <3>1. recvq # << >> /\ got' = Append(got, Head(recvq).data) /\ UNCHANGED <<sent, ended>>
        BY <2>8 DEF Receive
      <3>2. ~ended
        BY <2>3, <3>1 DEF SinkInv
      <3>3. Len(got') = g + 1
        <4>1. recvq \in Seq(Buffers)
          BY DEF StreamInv, DataInv
        <4>2. Head(recvq).data \in Bytes
          <5>1. Head(recvq) \in Buffers
            BY <3>1, <4>1
          <5> QED BY <5>1 DEF Buffers
        <4> QED BY <2>3, <3>1, <4>2
      <3> QED BY <2>6, <3>1, <3>2, <3>3
    <2>9. CASE ReceiveStream
      <3>1. kind = "iostream" /\ UNCHANGED <<sent, ended>>
        BY <2>9 DEF ReceiveStream
      <3>2. ~ended
        BY <2>3, <3>1 DEF SinkInv, LoopKinds
      <3>3. Len(got') = g + 1
        BY <2>9, ReceiveStreamKeeps
      <3> QED BY <2>6, <3>1, <3>2, <3>3
    <2>10. CASE IsClosedFlag
      BY <2>4, <2>10 DEF IsClosedFlag
    <2>11. CASE IsClosedQueue
      <3>1. UNCHANGED <<sent, got>> /\ (ended' <=> recvq = << >>) /\ ended' \in BOOLEAN
        BY <2>11 DEF IsClosedQueue
      <3>2. CASE ended' = TRUE
        BY <3>1, <3>2 DEF Channel!Next, Channel!End
      <3>3. CASE ended' = FALSE
        <4>1. ended = FALSE
          BY <2>3, <3>1, <3>3 DEF SinkInv
        <4> QED BY <2>4, <3>1, <3>3, <4>1
      <3> QED BY <3>1, <3>2, <3>3
    <2>12. CASE ServerStep
      BY <2>3, <2>5, <2>12, ServerGoes
    <2>13. CASE OpenStep
      BY <2>3, <2>5, <2>13, OpenGoes
    <2>14. ASSUME NEW e \in Ends,
                  HandshakeFails(e) \/ CloseLoop(e) \/ CloseFlag(e) \/ LoopStep(e) \/ Joined(e)
           PROVE  [Channel!Next]_Channel!channelVars
      <3>1. UNCHANGED userVars
        BY <2>3, <2>14, CloseGoes
      <3> QED BY <2>5, <3>1
    <2>15. ASSUME NEW e \in Ends, HandshakeDone(e) PROVE [Channel!Next]_Channel!channelVars
      <3>1. UNCHANGED userVars
        BY <2>15 DEF HandshakeDone
      <3> QED BY <2>5, <3>1
    <2>16. CASE Flush \/ LoseTail \/ UNCHANGED streamVars
      <3>1. UNCHANGED userVars
        BY <2>16 DEF Flush, LoseTail, streamVars
      <3> QED BY <2>5, <3>1
    <2>17. ASSUME NEW n \in 1 .. Len(wire), Read(n) PROVE [Channel!Next]_Channel!channelVars
      <3>1. UNCHANGED userVars
        BY <2>17 DEF Read
      <3> QED BY <2>5, <3>1
    <2> QED BY <2>7, <2>8, <2>9, <2>10, <2>11, <2>12, <2>13, <2>14, <2>15, <2>16, <2>17 DEF StreamNext
  <1> QED BY <1>1, <1>2, StreamInvHolds, PTL DEF StreamSpec, StreamRefines, Channel!Spec
=============================================================================
