---------------------------- MODULE ReplyStream ----------------------------
(***************************************************************************)
(* A reply streamed by the LLM: the request and its retries, the fragments *)
(* of JSON that arrive split anywhere, the parser that takes the decoded   *)
(* assistant_message out of them, and the two consumers of its text, the   *)
(* chunker of the media streams and the first sentence of Gather calls.    *)
(*                                                                         *)
(* Characters are symbols.  In the JSON a character is written as one or   *)
(* more symbols; four hexadecimal digits are one.                          *)
(***************************************************************************)
EXTENDS Naturals, Sequences, SequencesExt

CONSTANTS
  Characters,  \* of messages
  Messages,    \* the assistant messages the model may write
  Retries,     \* max_retries
  Window,      \* 256: what the parser keeps while it looks for the key
  Minimum,     \* minimum_chars of StreamingTextChunker
  FirstMin,    \* minimum_chars of FirstSpeechChunkBuffer
  Maximum      \* maximum_chars of both

ASSUME StreamAssumption ==
  /\ Retries \in Nat /\ Window \in Nat \ {0}
  /\ {Minimum, FirstMin, Maximum} \subseteq Nat \ {0}
  /\ Minimum <= Maximum /\ FirstMin <= Maximum
  \* what ends a string, begins an escape or makes up the key is not written as it is
  /\ Messages \subseteq Seq(Characters)
  /\ Characters \cap {"quote", "bs", "k1", "k2"} = {}

VARIABLES phase,    \* of the request: "ready" to be sent, "streaming", or ended
          attempt,  \* attempts made before this one
          message,  \* what this attempt's answer says: a set of at most one
          sent,     \* symbols of it that arrived
          parser,   \* AssistantMessageStreamParser
          heard,    \* the text the parser has put out
          buffer,   \* StreamingTextChunker._buffer
          chunks,   \* chunks sent to the speech provider
          first     \* FirstSpeechChunkBuffer

vars == <<phase, attempt, message, sent, parser, heard, buffer, chunks, first>>

Blanks == {" ", "newline"}
Encoding(c) == CASE c = "newline" -> <<"bs", "n">>
                 [] c = "uni" -> <<"bs", "u", "hex">>
                 [] c = "pair" -> <<"bs", "u", "high", "bs", "u", "low">>
                 [] c = "junk" -> <<"bs", "q">>    \* not an escape
                 [] OTHER -> <<c>>

\* Another field, the key in two parts, the message, its quote, the rest.
Prelude == <<"x", "k1", "k2">>
Encoded(m) == FlattenSeq([i \in 1..Len(m) |-> Encoding(m[i])])
Json(m) == Prelude \o Encoded(m) \o <<"quote", "x">>

TypeOK ==
  /\ phase \in {"ready", "streaming", "said", "failed"} /\ attempt \in 0..Retries
  /\ message \subseteq Messages /\ sent \in Nat
  /\ {parser.started, parser.complete, first.emitted} \subseteq BOOLEAN
  /\ Len(parser.search) <= Window
  \* an escape is never kept longer than it takes to be complete
  /\ Len(parser.value) < 6
  /\ parser.complete => parser.started /\ parser.value = <<>>

Init ==
  /\ phase = "ready" /\ attempt = 0 /\ message = {} /\ sent = 0
  /\ parser = [search |-> <<>>, value |-> <<>>, started |-> FALSE, complete |-> FALSE]
  /\ heard = <<>> /\ buffer = <<>> /\ chunks = <<>>
  /\ first = [buffer |-> <<>>, emitted |-> FALSE]

text == <<parser, heard, buffer, chunks, first>>

-----------------------------------------------------------------------------
(* AssistantMessageStreamParser *)

\* mutant: does not wait for the second half of a surrogate pair
WidthOfHalf(v, i) ==
  LET whole(w) == IF i + w - 1 <= Len(v) THEN w ELSE 0
  IN  IF v[i] # "bs" THEN 1
      ELSE IF whole(2) = 0 THEN 0 ELSE IF v[i + 1] # "u" THEN 2 ELSE whole(3)

\* The symbols the character at i takes, 0 if some are still missing.
Width(v, i) ==
  LET whole(w) == IF i + w - 1 <= Len(v) THEN w ELSE 0
  IN  CASE v[i] # "bs" -> 1
        [] v[i] = "bs" /\ whole(2) = 0 -> 0
        [] v[i] = "bs" /\ whole(2) = 2 /\ v[i + 1] # "u" -> 2
        [] OTHER -> IF whole(3) = 0 THEN 0
                    ELSE IF v[i + 2] = "high" THEN whole(6) ELSE 3

Decoded(v, i) == IF v[i] # "bs" THEN v[i]
                 ELSE CASE v[i + 1] = "n" -> "newline"
                        [] v[i + 1] = "u" -> IF v[i + 2] = "high" THEN "pair" ELSE "uni"

\* What is not decoded yet is kept for the next fragment.
KeptWhole(v, i) == v    \* mutant
Kept(v, i) == SubSeq(v, i, Len(v))

Drain(v) ==
  LET from[i \in 1..Len(v) + 1] ==
        IF i > Len(v) THEN [out |-> <<>>, rest |-> <<>>, end |-> "open"]
        ELSE IF v[i] = "quote" THEN [out |-> <<>>, rest |-> <<>>, end |-> "quote"]
        ELSE IF Width(v, i) = 0 THEN [out |-> <<>>, rest |-> Kept(v, i), end |-> "open"]
        ELSE IF v[i] = "bs" /\ v[i + 1] = "q" THEN [out |-> <<>>, rest |-> <<>>, end |-> "error"]
        ELSE LET r == from[i + Width(v, i)]
             IN  [r EXCEPT !.out = <<Decoded(v, i)>> \o @]
  IN  from[1]

KeyEnds(s) == {i \in 2..Len(s) : s[i - 1] = "k1" /\ s[i] = "k2"}
LastOf(s, n) == IF Len(s) <= n THEN s ELSE SubSeq(s, Len(s) - n + 1, Len(s))

\* The parser after a fragment, with what it puts out.
Fed(p, fragment) ==
  LET seen == p.search \o fragment
      value == IF p.started THEN p.value \o fragment
               ELSE SubSeq(seen, (CHOOSE i \in KeyEnds(seen) : TRUE) + 1, Len(seen))
      d == Drain(value)
  IN  IF p.complete THEN [parser |-> p, out |-> <<>>, error |-> FALSE]
      ELSE IF ~p.started /\ KeyEnds(seen) = {}
      THEN [parser |-> [p EXCEPT !.search = LastOf(seen, Window)], out |-> <<>>, error |-> FALSE]
      ELSE [parser |-> [search |-> <<>>, value |-> d.rest, started |-> TRUE,
                        complete |-> d.end = "quote"],
            out |-> d.out, error |-> d.end = "error"]

-----------------------------------------------------------------------------
(* The consumers *)

IsBlank(c) == c \in Blanks
Strip(s) == LET solid == {i \in 1..Len(s) : ~IsBlank(s[i])}
            IN  IF solid = {} THEN <<>> ELSE SubSeq(s, Min(solid), Max(solid))

\* mutant: waits for a mark however long that takes
CutAtMarks(b) ==
  LET marks == {i \in 1..Min({Len(b), Maximum + 1}) : b[i] \in {"."} \cup Blanks /\ i > Minimum}
  IN  IF Len(b) < Minimum \/ marks = {} THEN 0 ELSE Max(marks)

\* How many characters StreamingTextChunker.feed takes off b; 0: it waits.
Cut(b) ==
  LET limit == Min({Len(b), Maximum}) + 1
      marks == {i \in 1..Min({limit, Len(b)}) : b[i] \in {"."} \cup Blanks}
      split == IF marks = {} THEN 0 ELSE Max(marks)
  IN  IF Len(b) < Minimum THEN 0
      ELSE IF split > Minimum THEN split
      ELSE IF Len(b) < Maximum THEN 0 ELSE Maximum

\* The chunks it makes of b, and what stays in the buffer.
Chunked(b) ==
  LET from[i \in 0..Len(b)] ==
        LET s == SubSeq(b, i + 1, Len(b))
            piece == Strip(SubSeq(s, 1, Cut(s)))
        IN  IF Cut(s) = 0 THEN [pieces |-> <<>>, rest |-> s]
            ELSE [from[i + Cut(s)] EXCEPT
                    !.pieces = (IF piece = <<>> THEN <<>> ELSE <<piece>>) \o @]
  IN  from[0]

\* FirstSpeechChunkBuffer.feed: a sentence, or at the maximum the words so far.
\* A blank beginning is not emitted, and stays.
FirstEnd(b) ==
  LET stops == {i \in FirstMin..Len(b) : b[i] \in {".", "newline"}}
      spaces == {i \in 1..Min({Len(b), Maximum + 1}) : b[i] = " " /\ i > FirstMin}
  IN  IF stops # {} THEN Min(stops)
      ELSE IF Len(b) < Maximum THEN 0
      ELSE IF spaces # {} THEN Max(spaces) - 1 ELSE Maximum

FirstFed(f, out) ==
  LET b == f.buffer \o out
      end == FirstEnd(b)
  IN  IF f.emitted \/ out = <<>> THEN f
      ELSE IF Strip(SubSeq(b, 1, end)) = <<>> THEN [f EXCEPT !.buffer = b]
      ELSE [buffer |-> SubSeq(b, end + 1, Len(b)), emitted |-> TRUE]

-----------------------------------------------------------------------------
(* stream_generate and _llm_turn *)

\* A failed attempt may be repeated only if none of its text was passed on.
MayRetryAnyway == attempt < Retries    \* mutant
MayRetry == sent = 0 /\ attempt < Retries
Again == IF MayRetry THEN phase' = "ready" /\ attempt' = attempt + 1
         ELSE phase' = "failed" /\ UNCHANGED attempt

\* A connection error, a time-out, or a status that may be retried.
RequestFails ==
  /\ phase = "ready" /\ Again /\ UNCHANGED <<message, sent, text>>

\* Any other status of 400 or more.
Refused == /\ phase = "ready" /\ phase' = "failed"
           /\ UNCHANGED <<attempt, message, sent, text>>

Opened == /\ phase = "ready" /\ phase' = "streaming"
          /\ \E m \in Messages : message' = {m}
          /\ sent' = 0 /\ UNCHANGED <<attempt, text>>

\* What the consumers do with the text of an event; the speech provider may fail
\* at any chunk.
Consumed(fragment) ==
  LET f == Fed(parser, fragment)
      c == Chunked(buffer \o f.out)
  IN  IF f.error
      THEN phase' = "failed" /\ UNCHANGED text
      ELSE /\ parser' = f.parser /\ heard' = heard \o f.out
           /\ buffer' = c.rest /\ first' = FirstFed(first, f.out)
           /\ \E i \in 0..Len(c.pieces) :
                /\ chunks' = chunks \o SubSeq(c.pieces, 1, i)
                /\ phase' = IF i = Len(c.pieces) THEN "streaming" ELSE "failed"

\* The texts the next event of the stream may have: the JSON is split anywhere.
Fragments(json) == {SubSeq(json, sent + 1, sent + n) : n \in 1..Len(json) - sent}

\* An event with text.  It is consumed before the next one is read.
Delta(json) ==
  /\ phase = "streaming"
  /\ \E fragment \in Fragments(json) :
       sent' = sent + Len(fragment) /\ Consumed(fragment)
  /\ UNCHANGED <<attempt, message>>

\* The connection breaks: a retry, if nothing was passed on.
Breaks == phase = "streaming" /\ Again /\ UNCHANGED <<message, sent, text>>

\* An event that is not JSON, or an error sent as an event; the speech provider
\* fails; or the JSON as a whole is not the structure asked for.
Spoils == /\ phase = "streaming" /\ phase' = "failed"
          /\ UNCHANGED <<attempt, message, sent, text>>

\* finish, and the chunker's remainder.
Finished ==
  IF parser.complete
  THEN /\ phase' = "said" /\ buffer' = <<>>
       /\ chunks' = IF Strip(buffer) = <<>> THEN chunks ELSE Append(chunks, Strip(buffer))
  ELSE phase' = "failed" /\ UNCHANGED <<buffer, chunks>>

\* The stream ends, with or without [DONE].
Ends ==
  /\ phase = "streaming" /\ Finished
  /\ UNCHANGED <<attempt, message, sent, parser, heard, first>>

Next == \/ RequestFails \/ Refused \/ Opened \/ Breaks \/ Spoils \/ Ends
        \/ \E m \in message : Delta(Json(m))

Spec == Init /\ [][Next]_vars

-----------------------------------------------------------------------------
(* Properties *)

\* However the JSON is split into events, in the middle of the key, an escape or
\* a surrogate pair: the text put out is the message, from its beginning, up to
\* the last character that has arrived whole.  Nothing waits for the next event.
HeardIsWhatArrived ==
  \A m \in message :
    LET arrived == {j \in 0..Len(m) :
                      Len(Prelude) + Len(Encoded(SubSeq(m, 1, j))) <= sent}
    IN  /\ IsPrefix(heard, m)
        /\ phase \in {"streaming", "said"} /\ arrived # {} => Len(heard) = Max(arrived)

\* "A bounded word-boundary fallback prevents a punctuation-free model reply from
\* delaying speech indefinitely" (streaming_json.py): neither consumer holds back
\* Maximum characters, unless the reply begins with blanks, and no chunk is longer
\* than one more than that.
SpeechIsNotDelayed ==
  /\ Len(buffer) < Maximum
  /\ \A i \in 1..Len(chunks) : Len(chunks[i]) <= Maximum + 1
  /\ ~first.emitted /\ Len(first.buffer) >= Maximum => IsBlank(first.buffer[1])

Solid(s) == FlattenSeq([i \in 1..Len(s) |-> IF IsBlank(s[i]) THEN <<>> ELSE <<s[i]>>])
Promise == INSTANCE SpokenReply WITH
  Answers <- {Solid(m) : m \in Messages},
  answer <- {Solid(m) : m \in message},
  told <- Solid(FlattenSeq(chunks)),
  end <- CASE phase = "said" -> "said" [] phase = "failed" -> "broken" [] OTHER -> "no"
\* Retries, splits, failures and chunks together keep the promise of SpokenReply:
\* one answer is told, without repetition or gap, to its end if the reply succeeds.
OneAnswerIsTold == Promise!Spec

=============================================================================
