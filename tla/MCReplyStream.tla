--------------------------- MODULE MCReplyStream ---------------------------
(* ReplyStream for TLC: all short messages, of plain text or with escapes. *)
EXTENDS ReplyStream

CONSTANTS MaxPlain, MaxEscaped    \* bounds: their lengths

MCPlain == {"a", " ", "."}
MCEscaped == {"a", "newline", "uni", "pair", "junk"}
MCCharacters == MCPlain \cup MCEscaped
MCMessages == BoundedSeq(MCPlain, MaxPlain) \cup BoundedSeq(MCEscaped, MaxEscaped)

=============================================================================
