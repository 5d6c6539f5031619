------------------------------- MODULE Framing -------------------------------
(***************************************************************************)
(* JSON-RPC messages over a byte stream: crates/pair-rpc (framing.rs,      *)
(* lib.rs).  The stream is a sequence of byte values, except that the key  *)
(* of the header and its number are one symbol each.  A body is a compact  *)
(* JSON object: it holds no CR or LF, none is a prefix of another, and its *)
(* length fits into the four bytes of LengthPrefixedBE.  The stream may    *)
(* end after any symbol.                                                   *)
(***************************************************************************)
EXTENDS Integers, SequencesExt

CONSTANTS
    Bodies,        \* JSON-RPC messages in compact JSON
    MaxMessages    \* bound on the messages written

CR == 13
LF == 10
KEY == 256                \* "Content-Length:"
Number(n) == KEY + 1 + n  \* n in decimal, as one symbol
Framings == {"JsonLines", "LengthPrefixedBE", "ContentLength"}

ASSUME FramingAssumption ==
    /\ MaxMessages \in Nat
    /\ Bodies \subseteq Seq((0..255) \ {CR, LF})
    /\ \A b \in Bodies : Len(b) > 0 /\ Len(b) \div (256 * 256 * 256) < 256
    /\ \A a, b \in Bodies : IsPrefix(a, b) => a = b

VARIABLES
    framing,    \* the scheme both sides use
    stream,     \* written and not yet read
    closed,     \* no further bytes will come
    lost,       \* the symbols that were written and never arrive
    sent, got,  \* the messages written, and those read
    reader,     \* "open", or how reading ended: "eof", "error"
    tape, cuts  \* history: all symbols written, and where each message begins

framed == <<framing, stream, closed, lost, sent, got, reader, tape, cuts>>

-----------------------------------------------------------------------------
(* Framing::encode.                                                        *)

\* u32::to_be_bytes and u32::from_be_bytes.
to_be_bytes(n) ==
    <<n \div (256 * 256 * 256), (n \div (256 * 256)) % 256, (n \div 256) % 256, n % 256>>
from_be_bytes(s) == 256 * (256 * (256 * s[1] + s[2]) + s[3]) + s[4]

encode(body) ==
    CASE framing = "JsonLines"        -> body \o <<LF>>
      [] framing = "LengthPrefixedBE" -> to_be_bytes(Len(body)) \o body
      [] framing = "ContentLength"    ->
            <<KEY, Number(Len(body)), CR, LF, CR, LF>> \o body

-----------------------------------------------------------------------------
(* Framing::read_frame: what one call returns on the stream s.  "wait"     *)
(* stands for a read that finds no byte yet; at the end of the stream it   *)
(* finds none for good.                                                    *)

Frame(kind, body, rest) == [kind |-> kind, body |-> body, rest |-> rest]
Wait == Frame("wait", <<>>, <<>>)
Ended(kind, body) == Frame(kind, body, <<>>)
After(s, k) == SubSeq(s, k + 1, Len(s))

\* The bytes of the line that ends before position k, without a trailing CR.
Line(s, k) ==
    LET from == {j \in 1..(k - 1) : s[j] = LF} \cup {0}
        raw  == SubSeq(s, Max(from) + 1, k - 1)
    IN  IF raw # <<>> /\ Last(raw) = CR THEN Front(raw) ELSE raw

\* The rest of a line that has no end.
Tail0(s) == After(s, Max({j \in 1..Len(s) : s[j] = LF} \cup {0}))

\* A line that is cut off is dropped.
read_line_drops_rest(s) ==
    LET ends == {k \in 1..Len(s) : s[k] = LF /\ Line(s, k) # <<>>}
    IN  IF ends # {}
        THEN Frame("body", Line(s, Min(ends)), After(s, Min(ends)))
        ELSE IF ~closed THEN Wait
        ELSE Ended("none", <<>>)

\* Blank lines are skipped, and what precedes the end of the stream counts
\* as a line.
read_line(s) ==
    LET ends == {k \in 1..Len(s) : s[k] = LF /\ Line(s, k) # <<>>}
    IN  IF ends # {}
        THEN Frame("body", Line(s, Min(ends)), After(s, Min(ends)))
        ELSE IF ~closed THEN Wait
        ELSE IF Tail0(s) = <<>> THEN Ended("none", <<>>)
        ELSE Ended("body", Tail0(s))

\* read_exact of n bytes after position k.
Exactly(s, k, n) ==
    IF Len(s) >= k + n THEN Frame("body", SubSeq(s, k + 1, k + n), After(s, k + n))
    ELSE IF ~closed THEN Wait
    ELSE Ended("error", <<>>)

\* An end of the stream anywhere inside the length is a clean one.
read_len_prefixed(s) ==
    IF Len(s) < 4 THEN IF closed THEN Ended("none", <<>>) ELSE Wait
    ELSE Exactly(s, 4, from_be_bytes(s))

\* The header ends at the first blank line; its end of stream gives an empty
\* body, a header without a length is an error.  The limit of 8192 bytes on a
\* header is left out: what encode writes is far below it.
read_content_length(s) ==
    LET blank == {k \in 4..Len(s) : SubSeq(s, k - 3, k) = <<CR, LF, CR, LF>>}
        keys  == {k \in 1..Min(blank) : s[k] = KEY}
    IN  IF blank = {}
        THEN IF ~closed THEN Wait
             ELSE IF s = <<>> THEN Ended("none", <<>>) ELSE Ended("body", <<>>)
        ELSE IF keys = {} THEN Frame("error", <<>>, After(s, Min(blank)))
        ELSE Exactly(s, Min(blank), s[Max(keys) + 1] - Number(0))

read_frame(s) ==
    CASE framing = "JsonLines"        -> read_line(s)
      [] framing = "LengthPrefixedBE" -> read_len_prefixed(s)
      [] framing = "ContentLength"    -> read_content_length(s)

-----------------------------------------------------------------------------
FramingInit ==
    /\ framing \in Framings
    /\ stream = <<>> /\ closed = FALSE /\ lost = <<>>
    /\ sent = <<>> /\ got = <<>> /\ reader = "open"
    /\ tape = <<>> /\ cuts = <<0>>

Written(body, symbols) ==
    /\ ~closed /\ Len(sent) < MaxMessages
    /\ stream' = stream \o symbols
    /\ sent' = Append(sent, body)
    /\ tape' = tape \o symbols
    /\ cuts' = Append(cuts, Len(tape \o symbols))
    /\ UNCHANGED <<framing, closed, lost, got, reader>>

write_message(body) == Written(body, encode(body))

\* Another implementation's line: CRLF, after a blank line.
ForeignLine(body) == <<CR, LF>> \o body \o <<CR, LF>>
WriteForeignLine(body) ==
    /\ framing = "JsonLines"
    /\ Written(body, ForeignLine(body))

\* The writer's process ends: the last k symbols never leave it.
Close(k) ==
    /\ ~closed
    /\ closed' = TRUE
    /\ stream' = SubSeq(stream, 1, Len(stream) - k)
    /\ lost' = After(stream, Len(stream) - k)
    /\ UNCHANGED <<framing, sent, got, reader, tape, cuts>>

\* serde_json::from_slice takes one object and the white space around it; a CR
\* is left of a line whose LF never came.
from_slice(bytes) ==
    IF bytes # <<>> /\ Last(bytes) = CR THEN Front(bytes) ELSE bytes

\* Looks at the frame and leaves it in the buffer.
read_message_unconsumed ==
    LET f  == read_frame(stream)
        ok == f.kind = "body" /\ from_slice(f.body) \in Bodies
    IN  /\ reader = "open" /\ f.kind # "wait" /\ Len(got) <= Len(sent)
        /\ got' = IF ok THEN Append(got, from_slice(f.body)) ELSE got
        /\ reader' = IF ok THEN "open" ELSE IF f.kind = "none" THEN "eof" ELSE "error"
        /\ UNCHANGED <<framing, stream, closed, lost, sent, tape, cuts>>

\* read_message: a body that is not one JSON object is an error.
read_message ==
    LET f  == read_frame(stream)
        ok == f.kind = "body" /\ from_slice(f.body) \in Bodies
    IN  /\ reader = "open" /\ f.kind # "wait"
        /\ stream' = f.rest
        /\ got' = IF ok THEN Append(got, from_slice(f.body)) ELSE got
        /\ reader' = IF ok THEN "open" ELSE IF f.kind = "none" THEN "eof" ELSE "error"
        /\ UNCHANGED <<framing, closed, lost, sent, tape, cuts>>

FramingNext ==
    \/ \E body \in Bodies : write_message(body) \/ WriteForeignLine(body)
    \/ \E k \in 0..Len(stream) : Close(k)
    \/ read_message

FramingSpec == FramingInit /\ [][FramingNext]_framed

-----------------------------------------------------------------------------
(* Properties.                                                             *)

\* Whatever the framing and wherever the stream ends, the reader gets the
\* messages as they were written, in order, none twice and none made up from
\* the pieces of others.
ReadsPrefix == IsPrefix(got, sent)

\* A clean end is reported for a message that arrived in part only if that part
\* lies inside the four length bytes of LengthPrefixedBE, and an error only if
\* symbols were lost.  The exception is what the code does (framing.rs:88) and
\* not what its comment says: "None at clean EOF (before any partial frame)"
\* (framing.rs:49).
EndIsHonest ==
    LET arrived == Len(tape) - Len(lost)
        first   == cuts[Len(got) + 1]
    IN  /\ reader = "eof" =>
              \/ \A k \in (first + 1)..arrived : tape[k] \in {CR, LF}
              \/ framing = "LengthPrefixedBE" /\ arrived - first \in 1..3
        /\ reader = "error" => lost # <<>>
=============================================================================
