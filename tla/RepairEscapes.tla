--------------------------- MODULE RepairEscapes ---------------------------
(***************************************************************************)
(* RepairInvalidEscapes of internal/thscore, as a scanner over a payload   *)
(* of any length: one step is one iteration of its loop, which consumes a  *)
(* byte, or a backslash and the byte after it.  Next to it runs the string *)
(* lexer of JSON (RFC 8259, what encoding/json accepts), once over what    *)
(* the scanner consumes and once over what it puts out.                    *)
(***************************************************************************)
EXTENDS Integers

\* The bytes, by what a string makes of them: "escape" is one of / n r t, legal after a
\* backslash, "hexescape" one of b f, hexadecimal digits too, "hex" any other digit.
Byte == {"quote", "backslash", "escape", "hexescape", "u", "hex", "other"}

VARIABLES
  inStr,      \* the scanner believes it is inside a string
  source,     \* the lexer over the input: its state
  result,     \* ... over the output
  same,       \* the output is the input so far
  ended       \* the input is over

repairVars == <<inStr, source, result, same, ended>>

LexState == {"text", "string", "escape", "u1", "u2", "u3", "u4", "badEscape", "badHex"}

RepairTypeOK ==
  /\ inStr \in BOOLEAN /\ same \in BOOLEAN /\ ended \in BOOLEAN
  /\ source \in LexState /\ result \in LexState

Escapable == {"quote", "backslash", "escape", "hexescape"}
Hex       == {"hex", "hexescape"}

(***************************************************************************)
(* The lexer                                                               *)
(***************************************************************************)
AfterHex(s) == CASE s = "u1" -> "u2" [] s = "u2" -> "u3" [] s = "u3" -> "u4" [] s = "u4" -> "string"

Lex(s, c) ==
  CASE s \in {"badEscape", "badHex"} -> s
    [] s = "text"   -> IF c = "quote" THEN "string" ELSE "text"
    [] s = "string" -> IF c = "quote" THEN "text"
                       ELSE IF c = "backslash" THEN "escape" ELSE "string"
    [] s = "escape" -> IF c \in Escapable THEN "string" ELSE IF c = "u" THEN "u1" ELSE "badEscape"
    [] s \in {"u1", "u2", "u3", "u4"} -> IF c \in Hex THEN AfterHex(s) ELSE "badHex"

Lex2(s, c, d) == Lex(Lex(s, c), d)

(***************************************************************************)
(* The scanner                                                             *)
(***************************************************************************)
RepairInit ==
  /\ inStr = FALSE /\ same = TRUE /\ ended = FALSE
  /\ source = "text" /\ result = "text"

\* Consumes c and puts it out.
Copy(c) ==
  /\ source' = Lex(source, c) /\ result' = Lex(result, c)
  /\ UNCHANGED <<same, ended>>

Outside(c) ==
  /\ ~ended /\ ~inStr
  /\ inStr' = (c = "quote")
  /\ Copy(c)

Inside(c) ==
  /\ ~ended /\ inStr /\ c # "backslash"
  /\ inStr' = (c # "quote")
  /\ Copy(c)

\* No \u among the legal escapes: RoundTrip.
LegalEscapes_Bug == Escapable
LegalEscapes == Escapable \cup {"u"}

LegalEscape(d) ==
  /\ ~ended /\ inStr /\ d \in LegalEscapes
  /\ source' = Lex2(source, "backslash", d) /\ result' = Lex2(result, "backslash", d)
  /\ UNCHANGED <<inStr, same, ended>>

\* The backslash is kept: EscapesRepaired.
IllegalEscape_Bug(d) ==
  /\ ~ended /\ inStr /\ d \notin LegalEscapes
  /\ source' = Lex2(source, "backslash", d) /\ result' = Lex2(result, "backslash", d)
  /\ UNCHANGED <<inStr, same, ended>>

\* The backslash is dropped.
IllegalEscape(d) ==
  /\ ~ended /\ inStr /\ d \notin LegalEscapes
  /\ source' = Lex2(source, "backslash", d) /\ result' = Lex(result, d)
  /\ same' = FALSE
  /\ UNCHANGED <<inStr, ended>>

\* A backslash that is the last byte is dropped.
TrailingBackslash ==
  /\ ~ended /\ inStr /\ ended' = TRUE
  /\ source' = Lex(source, "backslash")
  /\ same' = FALSE
  /\ UNCHANGED <<inStr, result>>

EndOfInput == ~ended /\ ended' = TRUE /\ UNCHANGED <<inStr, source, result, same>>

RepairNext ==
  \/ \E c \in Byte : Outside(c) \/ Inside(c) \/ LegalEscape(c) \/ IllegalEscape(c)
  \/ TrailingBackslash \/ EndOfInput

RepairSpec == RepairInit /\ [][RepairNext]_repairVars

(***************************************************************************)
(* Properties                                                              *)
(***************************************************************************)
\* parse.go: the repair "drops the backslash of any escape that isn't legal JSON".  What
\* comes out has none, for any input, unless it is a \u without its four digits; and the
\* scanner is inside a string exactly when a JSON lexer of its output is.
EscapesRepaired ==
  /\ result # "badEscape"
  /\ result # "badHex" => inStr = (result # "text")

\* "well-formed payloads round-trip byte-identical": whatever is changed was not JSON.
RoundTrip ==
  /\ ~same => \/ source \in {"badEscape", "badHex"}
              \/ ended /\ source = "escape"
  /\ same => result = source
=============================================================================
