----------------------------- MODULE LogStderr ------------------------------
(***************************************************************************)
(* io/log-stderr.h: a line for stderr is put together in one buffer, from  *)
(* a timestamp, a prefix, the caller's text and an error, and written at   *)
(* once.  Every length is worked out before anything is copied.            *)
(***************************************************************************)
EXTENDS Integers, Sequences, SequencesExt, FiniteSetsExt

CONSTANTS
  Stamps,     \* timestamps, empty when there is no time to be had
  LogPrefixes,
  TextsOf,    \* what the caller's format makes
  Heads,      \* "error N: ", with the path if there is one, or the path alone
  Messages,   \* what strerror_r() says, empty when there is no error
  LogBuffer,  \* LOG_BUFFER_SIZE
  SizeSpan    \* 2^w, w the bits of size_t

Space == " "
Nul   == "nul"
Junk  == "junk"  \* a byte nobody initialised

Chars == STRING \ {Nul}

\* Assumed of the constants by whoever takes an instance: strings of C, which
\* end before their first NUL, and timestamps for which the buffer was made.
LogAssumption ==
  /\ \A s \in Stamps \cup LogPrefixes \cup TextsOf \cup Heads \cup Messages : s \in Seq(Chars)
  /\ LogBuffer \in Nat \ {0} /\ SizeSpan \in Nat /\ SizeSpan > 2 * LogBuffer
  /\ \A s \in Stamps : Len(s) < LogBuffer - 2

VARIABLES
  call,  \* what is being logged
  step,  \* what comes next in the line
  line,  \* the bytes of the buffer in use
  over   \* whether more was written than a buffer holds

lvars == <<call, step, line, over>>

-----------------------------------------------------------------------------
(* Texts. *)

Least(a, b) == Min({a, b})

\* trim_whitespace_ro()
Trim(text) ==
  LET kept == {i \in DOMAIN text : text[i] # Space}
  IN  IF kept = {} THEN <<>> ELSE SubSeq(text, Min(kept), Max(kept))

MaxLen == LogBuffer - 1

\* What vlog_stderr_error() and vlog_stderr_path_error() leave in their
\* buffer: the head as snprintf() cuts it, the message as strncpy() does,
\* which is told the room left after the message, and a NUL after both.
ErrorBytes(head, message) ==
  LET cut    == Least(Len(head), MaxLen - 1)
      length == Least(Len(message), MaxLen - Len(head))
      room   == MaxLen - Len(head) - length
  IN  [i \in 1 .. LogBuffer |->
         IF message # <<>> /\ i \in Len(head) + 1 .. Len(head) + room
         THEN IF i - Len(head) <= Len(message) THEN message[i - Len(head)] ELSE Nul
         ELSE IF i = Len(head) + length + 1 \/ i = cut + 1 THEN Nul
         ELSE IF i <= cut THEN head[i] ELSE Junk]

\* The string in it; a head longer than the buffer runs over it.
Suffix(head, message) ==
  IF Len(head) > MaxLen THEN <<>>
  ELSE LET bytes == ErrorBytes(head, message)
       IN  SubSeq(bytes, 1, Min({i \in DOMAIN bytes : bytes[i] = Nul}) - 1)

TooLong(head) == Len(head) > MaxLen

-----------------------------------------------------------------------------
Room(text) == IF text = <<>> THEN 0 ELSE Len(text) + 1

\* Mutants of LenMax: no space is counted, or no line feed is.
LenMaxBare(c) ==
  (Least(Len(c.stamp) + Len(c.prefix) + Len(c.text) + Len(c.suffix) + 1, LogBuffer) - 1) % SizeSpan
LenMaxFull(c) ==
  Least(Room(c.stamp) + Room(c.prefix) + Room(c.text) + Room(c.suffix), LogBuffer + 1) % SizeSpan

\* len_max: each part with a space, and the line feed for the last one.
LenMax(c) ==
  (Least(Room(c.stamp) + Room(c.prefix) + Room(c.text) + Room(c.suffix), LogBuffer) - 1) % SizeSpan

LInit ==
  /\ call \in {[stamp |-> t, prefix |-> p, text |-> x, head |-> h, message |-> m, suffix |-> Suffix(h, m)] :
                 t \in Stamps, p \in LogPrefixes, x \in TextsOf, h \in Heads, m \in Messages}
  /\ call.message # <<>> => call.head # <<>>
  /\ over = TooLong(call.head)
  /\ line = call.stamp /\ step = IF over THEN "over" ELSE "prefix"

\* A part that has been found not to be empty is put after a space, cut to
\* what room is left; without room for it the line ends.
Put(parted, text, next) ==
  LET with == IF parted THEN Append(line, Space) ELSE line
  IN  IF parted /\ Len(line) >= LenMax(call) - 1 THEN step' = "eol" /\ UNCHANGED line
      ELSE step' = next /\ line' = with \o SubSeq(text, 1, Least(Len(text), LenMax(call) - Len(with)))

PutPrefix ==
  /\ step = "prefix" /\ Put(Trim(call.prefix) # <<>>, Trim(call.prefix), "text")
  /\ UNCHANGED <<call, over>>

\* _vlog_string(): the text is formatted once more, into a buffer of its own,
\* and trimmed only then.
PutText ==
  /\ step = "text" /\ UNCHANGED call
  /\ IF Len(call.text) >= LogBuffer /\ Len(line) < LenMax(call) - 1
     THEN over' = TRUE /\ step' = "over" /\ UNCHANGED line
     ELSE Put(call.text # <<>>, Trim(call.text), "suffix") /\ UNCHANGED over

PutSuffix ==
  /\ step = "suffix" /\ Put(Trim(call.suffix) # <<>>, Trim(call.suffix), "eol")
  /\ UNCHANGED <<call, over>>

\* The line feed, in the byte after the last, and write(2).
Eol ==
  /\ step = "eol" /\ step' = "written"
  /\ over' = (Len(line) + 1 > LogBuffer) /\ UNCHANGED <<call, line>>

Logged == step \in {"written", "over"} /\ UNCHANGED lvars

LNext == PutPrefix \/ PutText \/ PutSuffix \/ Eol \/ Logged

LSpec == LInit /\ [][LNext]_lvars

-----------------------------------------------------------------------------
(* Properties. *)

Part(text) == IF Trim(text) = <<>> THEN <<>> ELSE <<Space>> \o Trim(text)

\* The line as it is meant.
Meant(c) == c.stamp \o Part(c.prefix) \o Part(c.text) \o Part(c.head \o c.message)

\* Room for the message twice, which is what strncpy() takes at
\* log-stderr.h:247; and no text of nothing but spaces.
Usual(c) ==
  /\ Len(c.head) + 2 * Len(c.message) <= MaxLen
  /\ c.text # <<>> => Trim(c.text) # <<>>

RoomForAll(c) ==
  Room(c.stamp) + Room(c.prefix) + Room(c.text) + Room(c.head \o c.message) <= LogBuffer

\* LineIsWhole: a line for which there is room is written with all of its
\* parts, trimmed, in order and one space apart, when there is a timestamp
\* (log-stderr.h vlog_stderr, vlog_stderr_error).
LineIsWhole ==
  step = "written" /\ Usual(call) /\ RoomForAll(call) /\ call.stamp # <<>> => line = Meant(call)

\* LineIsCut: a line that is too long is cut at its end, within the buffer
\* and with its line feed, and no buffer is overrun but for a text or a path
\* that is longer than one (log-stderr.h vlog_stderr, _vlog_string).
LineIsCut ==
  /\ over => Len(call.text) >= LogBuffer \/ TooLong(call.head)
  /\ step = "written" /\ Usual(call) => IsPrefix(line, Meant(call))

\* LineIsMeant: lines are written as meant, whole or cut at their end
\* (log-stderr.h vlog_stderr).
LineIsMeant == LineIsWhole /\ LineIsCut
=============================================================================
