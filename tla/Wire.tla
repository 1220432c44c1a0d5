-------------------------------- MODULE Wire --------------------------------
(***************************************************************************)
(* The byte encoding of transactions and blocks and their frames           *)
(* (internal/codec/canonical.go, limits.go), on small bytes and widths:    *)
(* bytes are 0..Base-1, sequences of them are Go's strings and slices.     *)
(*                                                                         *)
(* Frames are written to a stream one after the other, and a reader calls  *)
(* unframe on what has arrived of it.                                      *)
(***************************************************************************)
EXTENDS Integers, Sequences

CONSTANTS
    Base,       \* how many values a byte has (256)
    StringSize, \* bytes of a string's length (2)
    NumberSize, \* bytes of a number (8)
    CountSize,  \* bytes of Size and of a transaction's length in a block (4)
    FrameSize,  \* bytes of a frame's length (4)
    MaxBytes,   \* MaxBlockBytes, and Limits.MaxBytes (2^21)
    WireTxs,    \* transactions to encode
    WireBlocks, \* blocks to encode
    MaxFrames   \* bound on the frames written

Bytes == 0 .. Base - 1
Widths == {StringSize, NumberSize, CountSize, FrameSize}

\* As in the code, four bytes hold the length of every payload that is allowed.
ASSUME WireAssumption ==
    /\ Base \in Nat \ {0, 1} /\ Widths \subseteq Nat \ {0}
    /\ MaxBytes \in Nat /\ MaxFrames \in Nat
    /\ MaxBytes < Base^FrameSize /\ MaxBytes < Base^CountSize
    /\ Base^CountSize <= Base^NumberSize

\* Powers are what they are; a proof has to be told.
ASSUME PowerAssumption ==
    \A w \in Widths : \A k \in 0..(w - 1) :
        /\ Base^k \in Nat \ {0} /\ Base^(k + 1) = Base^k * Base
        /\ Base^0 = 1 /\ Base^w \in Nat \ {0}

\* A field of type uint64, int64 or uint32.
Unsigned(n) == n \in Nat /\ n < Base^NumberSize
IsSigned(n) == n \in Int /\ 2 * n < Base^NumberSize /\ 0 <= 2 * n + Base^NumberSize
Short(n) == n \in Nat /\ n < Base^CountSize

\* A transaction is its six strings and its five numbers, in the order in which
\* they are written (nonce, fee, gas, expiry and size); a block is its five
\* strings, its four numbers and its transactions.
IsTx(t) ==
    /\ t = [strings |-> t.strings, numbers |-> t.numbers]
    /\ t.strings \in Seq(Seq(Bytes)) /\ Len(t.strings) = 6
    /\ t.numbers \in Seq(Int) /\ Len(t.numbers) = 5
    /\ \A i \in 1..3 : Unsigned(t.numbers[i])
    /\ IsSigned(t.numbers[4]) /\ Short(t.numbers[5])

IsBlock(b) ==
    /\ b = [strings |-> b.strings, numbers |-> b.numbers, txs |-> b.txs]
    /\ b.strings \in Seq(Seq(Bytes)) /\ Len(b.strings) = 5
    /\ b.numbers \in Seq(Int) /\ Len(b.numbers) = 4
    /\ \A i \in {1, 2, 4} : Unsigned(b.numbers[i])
    /\ IsSigned(b.numbers[3])
    /\ b.txs = [i \in 1..Len(b.txs) |-> b.txs[i]] /\ Unsigned(Len(b.txs))
    /\ \A i \in 1..Len(b.txs) : IsTx(b.txs[i])

ASSUME ItemAssumption ==
    (\A t \in WireTxs : IsTx(t)) /\ (\A b \in WireBlocks : IsBlock(b))

VARIABLES
    written,    \* what was encoded, framed and written so far
    stream,     \* the bytes of the frames
    arrived     \* how many of them have arrived

WireVars == <<written, stream, arrived>>

\* A big-endian number of w bytes; a negative one is two's complement.
BigEndian(n, w) == [i \in 1..w |-> (n \div Base^(w - i)) % Base]
Number(bytes) ==
    LET n[i \in 0..Len(bytes)] == IF i = 0 THEN 0 ELSE n[i-1] * Base + bytes[i]
    IN n[Len(bytes)]
Signed(n) == IF 2 * n >= Base^NumberSize THEN n - Base^NumberSize ELSE n

\* What a buffer holds after all of parts have been written to it.
Concat(parts) ==
    LET buf[i \in 0..Len(parts)] == IF i = 0 THEN <<>> ELSE buf[i-1] \o parts[i]
    IN buf[Len(parts)]
-----------------------------------------------------------------------------
(* canonical.go. *)

Puttable(s) == Len(s) < Base^StringSize

\* Also the limit on an encoding, MaxBlockBytes, which is the same.
CheckBytes(bytes) == Len(bytes) <= MaxBytes

\* A string after its length, in w bytes.
Prefixed(s, w) == BigEndian(Len(s), w) \o s

Put(s) == Prefixed(s, StringSize)

Fields(strings, numbers) ==
    [i \in 1..Len(strings) |-> Put(strings[i])]
    \o [i \in 1..Len(numbers) |-> BigEndian(numbers[i], NumberSize)]

EncodeTx(t) == Concat(Fields(t.strings, t.numbers))

EncodeBlock(b) ==
    Concat(Fields(b.strings, Append(b.numbers, Len(b.txs)))
           \o [i \in 1..Len(b.txs) |-> Prefixed(EncodeTx(b.txs[i]), CountSize)])

Encode(x) == IF "txs" \in DOMAIN x THEN EncodeBlock(x) ELSE EncodeTx(x)

\* EncodeTx(x), or EncodeBlock(x), returns no error.
Encodable(x) ==
    LET parts == {x} \cup IF "txs" \in DOMAIN x THEN {x.txs[i] : i \in 1..Len(x.txs)} ELSE {}
    IN \A p \in parts :
          /\ \A i \in 1..Len(p.strings) : Puttable(p.strings[i])
          /\ CheckBytes(Encode(p))

\* A reader: whether it has failed, what is left to read and what was read.
Reader(bytes) == [ok |-> TRUE, rest |-> bytes, read |-> <<>>]

Take(r, n, value) ==
    IF r.ok /\ n <= Len(r.rest)
    THEN [ok |-> TRUE, rest |-> SubSeq(r.rest, n + 1, Len(r.rest)),
          read |-> Append(r.read, value)]
    ELSE [r EXCEPT !.ok = FALSE]

Get(r) ==
    IF Len(r.rest) < StringSize THEN [r EXCEPT !.ok = FALSE]
    ELSE LET n == StringSize + Number(SubSeq(r.rest, 1, StringSize))
         IN Take(r, n, SubSeq(r.rest, StringSize + 1, n))

GetNumber(r) == Take(r, NumberSize, Number(SubSeq(r.rest, 1, NumberSize)))

\* Bytes that follow the last number are ignored; Size loses its high bytes.
DecodeTx(data) ==
    LET r[i \in 0..11] ==
            IF i = 0 THEN Reader(data)
            ELSE IF i <= 6 THEN Get(r[i-1]) ELSE GetNumber(r[i-1])
        nums == SubSeq(r[11].read, 7, 11)
    IN IF CheckBytes(data) /\ r[11].ok
       THEN {[strings |-> SubSeq(r[11].read, 1, 6),
              numbers |-> <<nums[1], nums[2], nums[3], Signed(nums[4]),
                            nums[5] % Base^CountSize>>]}
       ELSE {}
-----------------------------------------------------------------------------
(* limits.go.  A refusal is the empty set.                                  *)
Frame(payload) == Prefixed(payload, FrameSize)

\* Bug: what follows the frame is taken for a part of it.
UnframeLong(data) ==
    LET payload == SubSeq(data, FrameSize + 1, Len(data))
    IN IF /\ Len(data) >= FrameSize
          /\ Number(SubSeq(data, 1, FrameSize)) <= Len(payload)
          /\ CheckBytes(payload)
       THEN {payload} ELSE {}

Unframe(data) ==
    LET payload == SubSeq(data, FrameSize + 1, Len(data))
    IN IF /\ Len(data) >= FrameSize
          /\ Number(SubSeq(data, 1, FrameSize)) = Len(payload)
          /\ CheckBytes(payload)
       THEN {payload} ELSE {}
-----------------------------------------------------------------------------
WriteFrame(x) ==
    /\ Len(written) < MaxFrames
    /\ Encodable(x) /\ CheckBytes(Encode(x))
    /\ written' = Append(written, x)
    /\ stream' = stream \o Frame(Encode(x))
    /\ UNCHANGED arrived

Arrive ==
    /\ arrived < Len(stream)
    /\ arrived' = arrived + 1
    /\ UNCHANGED <<written, stream>>

WireInit == written = <<>> /\ stream = <<>> /\ arrived = 0

WireNext == (\E x \in WireTxs \cup WireBlocks : WriteFrame(x)) \/ Arrive

WireSpec == WireInit /\ [][WireNext]_WireVars
-----------------------------------------------------------------------------
\* Unframe accepts what has arrived exactly when it is one whole frame, the
\* first: never a part of it, nor it and some of the next.  A transaction in it
\* is decoded to the one that was written, a part of it to none, and different
\* transactions, or blocks, are never written as the same bytes
\* (canonical.go:16-99, limits.go:89-113).
WireFaithful ==
    /\ LET data == SubSeq(stream, 1, arrived)
       IN IF written # <<>> /\ arrived = FrameSize + Len(Encode(written[1]))
          THEN /\ Unframe(data) = {Encode(written[1])}
               /\ written[1] \in WireTxs =>
                     DecodeTx(Encode(written[1])) = {written[1]}
          ELSE /\ Unframe(data) = {}
               /\ (/\ written # <<>> /\ written[1] \in WireTxs
                   /\ arrived < FrameSize + Len(Encode(written[1]))) =>
                     DecodeTx(SubSeq(data, FrameSize + 1, arrived)) = {}
    /\ \A i, j \in 1..Len(written) :
         /\ Encode(written[i]) = Encode(written[j])
         /\ written[i] \in WireTxs <=> written[j] \in WireTxs
         => written[i] = written[j]
=============================================================================
