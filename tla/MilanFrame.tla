------------------------------ MODULE MilanFrame ------------------------------
(***************************************************************************)
(* The Milan-SPI framing as the kernel driver and the Python tools each    *)
(* implement it: the 4-byte transport header, the inner message with its   *)
(* checksum, the parsers, and a wire between a sender and a receiver that  *)
(* may flip a byte of a frame or have nobody driving it.                   *)
(*                                                                         *)
(* Bytes are numbers; C's u8 arithmetic and Python's masks are % 256.      *)
(***************************************************************************)
EXTENDS Integers, Sequences

CONSTANTS
  Cmd0, Cmd1,  \* command nibbles and subcommands the sender uses
  Payloads,    \* payloads the sender uses
  Flips,       \* byte values a disturbed byte may become
  BufMax       \* the longest body a receiver reads

Byte == 0..255

ASSUME FrameAssumption ==
  /\ Cmd0 \subseteq 0..15 /\ Cmd1 \subseteq 0..7
  /\ Payloads \subseteq Seq(Byte)
  /\ Flips \subseteq Byte
  /\ BufMax \in Nat
  /\ \A p \in Payloads : Len(p) + 4 <= BufMax /\ Len(p) + 4 < 65536

VARIABLES
  phase,  \* "idle", "sent" (a frame is on the wire) or "got" (it was received)
  sent,   \* what the sender framed
  hdr,    \* the header the receiver clocks in
  body,   \* the body the receiver clocks in
  hurt,   \* history: what the wire did to the frame
  got     \* what the receiver made of it

vars == <<phase, sent, hdr, body, hurt, got>>

-----------------------------------------------------------------------------
(* Headers.                                                                *)

Msg == 10       \* PKT_MSG
Tls == 11       \* PKT_TLS
NoChecksum == 136

\* Mutant: the low byte is not cut to eight bits.
LoUncut(x) == x

Lo(x) == x % 256
Hi(x) == (x \div 256) % 256

Header(type, len) ==
  LET h0 == (type * 16) % 256 IN <<h0, Lo(len), Hi(len), (h0 + Hi(len) + Lo(len)) % 256>>

\* Mutant: the high length byte is left out of the sum.
SumOKLow(h) == h[4] = ((h[1] + h[2]) % 256)

SumOK(h) == h[4] = ((h[1] + h[3] + h[2]) % 256)

Length(h) == h[2] + 256 * h[3]

\* What a receiver takes for the body length: gxfp_check_spi_hdr in the driver,
\* check_header in gxfp.py and the test in framing.py are this one; -1 refuses.
CheckHeader(h) ==
  IF (h[1] \div 16) \in {Msg, Tls} /\ SumOK(h) THEN Length(h) ELSE -1

\* refseq.py looks at the sum alone.
HeaderOK(h) == IF SumOK(h) THEN Length(h) ELSE -1

\* A receiver reads no empty body and none longer than its buffer.
BodyLength(n) == IF n = -1 \/ n = 0 \/ n > BufMax THEN -1 ELSE n

-----------------------------------------------------------------------------
(* Messages.                                                               *)

\* The sum of a sequence, by halves: sum[a][b] adds what follows place a, up to b.
Total(s) ==
  LET sum[a \in 0..Len(s)] ==
        [b \in 0..Len(s) |->
           IF b <= a THEN 0
           ELSE IF b = a + 1 THEN s[b]
           ELSE sum[a][(a + b) \div 2] + sum[(a + b) \div 2][b]]
  IN  sum[0][Len(s)]

\* Mutant: the checksum does not cover the command byte.
ChecksumNoCmd(cmd, lo, hi, payload) ==
  (170 - ((lo + hi + Total(payload)) % 256)) % 256

Checksum(cmd, lo, hi, payload) ==
  (170 - ((cmd + lo + hi + Total(payload)) % 256)) % 256

Command(cmd0, cmd1) == cmd0 * 16 + cmd1 * 2

Message(cmd0, cmd1, payload, checksum) ==
  LET cmd == Command(cmd0, cmd1)
      len == Len(payload) + 1
  IN  <<cmd, Lo(len), Hi(len)>> \o payload \o
      <<IF checksum THEN Checksum(cmd, Lo(len), Hi(len), payload) ELSE NoChecksum>>

\* Mutant: the length field is taken for the payload's length.
InnerLengthLong(b) == b[2] + 256 * b[3]

\* The length field counts the checksum.
InnerLength(b) == b[2] + 256 * b[3] - 1

\* What lies beyond the end of the body is not there.
PayloadIn(b) ==
  LET n == InnerLength(b) IN SubSeq(b, 4, IF 3 + n < Len(b) THEN 3 + n ELSE Len(b))

ChecksumIn(b) ==
  LET n == InnerLength(b) IN IF Len(b) > 3 + n THEN b[4 + n] ELSE -1

ChecksumOK(b) ==
  ChecksumIn(b) \in {NoChecksum, Checksum(b[1], b[2], b[3], PayloadIn(b))}

ParseMessage(b) == <<b[1] \div 16, (b[1] \div 2) % 8, PayloadIn(b)>>

-----------------------------------------------------------------------------
(* The wire.                                                               *)

Frames == [cmd0 : Cmd0, cmd1 : Cmd1, payload : Payloads, checksum : BOOLEAN]

Nothing == [len |-> -1, by |-> "nobody"]

Init ==
  /\ phase = "idle"
  /\ sent \in Frames
  /\ hdr = <<255, 255, 255, 255>>
  /\ body = <<>>
  /\ hurt = "none"
  /\ got = Nothing

Send(f) ==
  /\ phase = "idle"
  /\ phase' = "sent"
  /\ sent' = f
  /\ body' = Message(f.cmd0, f.cmd1, f.payload, f.checksum)
  /\ hdr' = Header(Msg, Len(body'))
  /\ UNCHANGED <<hurt, got>>

\* One byte of the header arrives as another.
HurtHeader(k, x) ==
  /\ phase = "sent" /\ hurt = "none"
  /\ x # hdr[k]
  /\ hdr' = [hdr EXCEPT ![k] = x]
  /\ hurt' = "header"
  /\ UNCHANGED <<phase, sent, body, got>>

\* One byte of the body arrives as another; the length field is bytes 2 and 3.
HurtBody(k, x) ==
  /\ phase = "sent" /\ hurt = "none"
  /\ x # body[k]
  /\ body' = [body EXCEPT ![k] = x]
  /\ hurt' = IF k \in {2, 3} THEN "length" ELSE "body"
  /\ UNCHANGED <<phase, sent, hdr, got>>

\* Nobody drives the wire: every bit reads the same.
Silent(x) ==
  /\ phase = "sent" /\ hurt = "none"
  /\ hdr' = <<x, x, x, x>>
  /\ hurt' = "silent"
  /\ UNCHANGED <<phase, sent, body, got>>

Receive(by, n) ==
  /\ phase = "sent"
  /\ phase' = "got"
  /\ got' = [len |-> BodyLength(n), by |-> by]
  /\ UNCHANGED <<sent, hdr, body, hurt>>

\* Between frames the wire idles high.
Idle ==
  /\ phase = "got"
  /\ phase' = "idle"
  /\ hdr' = <<255, 255, 255, 255>>
  /\ body' = <<>>
  /\ hurt' = "none"
  /\ got' = Nothing
  /\ UNCHANGED sent

Next ==
  \/ \E f \in Frames : Send(f)
  \/ \E k \in 1..4, x \in Flips : HurtHeader(k, x)
  \/ \E k \in DOMAIN body, x \in Flips : HurtBody(k, x)
  \/ \E x \in {0, 255} : Silent(x)
  \/ Receive("gxfp", CheckHeader(hdr))
  \/ Receive("refseq", HeaderOK(hdr))
  \/ Idle

Spec == Init /\ [][Next]_vars

-----------------------------------------------------------------------------
(* Properties.                                                             *)

TypeOK ==
  /\ phase \in {"idle", "sent", "got"}
  /\ sent \in Frames
  /\ hdr \in [1..4 -> Byte]
  /\ hurt \in {"none", "header", "body", "length", "silent"}
  /\ got \in [len : -1..BufMax, by : {"nobody", "gxfp", "refseq"}]

\* An undisturbed frame is read whole by every receiver and parses to what was
\* sent, also when its length spills into the high byte.
Delivered ==
  phase = "got" /\ hurt = "none" =>
    /\ got.len = Len(body)
    /\ ChecksumOK(body)
    /\ ParseMessage(body) = <<sent.cmd0, sent.cmd1, sent.payload>>

\* No receiver reads a body behind a header with one wrong byte or behind the
\* header of a wire nobody drives.
BadHeaderRefused ==
  phase = "got" /\ hurt \in {"header", "silent"} => got.len = -1

\* One wrong byte outside the length field of a checksummed message is noticed, unless
\* it turned the checksum into the mark of an omitted one (or the sum is that mark).
BadBodyNoticed ==
  hurt = "body" /\ sent.checksum =>
    ~ChecksumOK(body) \/ body[Len(body)] = NoChecksum

=============================================================================
