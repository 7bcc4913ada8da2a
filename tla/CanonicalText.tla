----------------------------- MODULE CanonicalText -----------------------------
(***************************************************************************)
(* The text fields of a rating on their way from the tool that signs to    *)
(* the browser that re-verifies: internal/adr036 and web/src/adr036.ts     *)
(* each write the bytes that are signed, the envelope and the listing      *)
(* carry the text as JSON, and the database keeps it.  A text is a         *)
(* sequence of characters, told apart by how an encoder treats them, and   *)
(* the bytes are a sequence of units: a character written as it is, by a   *)
(* short escape, or by its number.                                         *)
(***************************************************************************)
EXTENDS Naturals, SequencesExt

CONSTANT MaxLength   \* bound: the characters of a text

ASSUME CanonicalTextAssumption == MaxLength \in Nat

\* "plain" stands for all that no encoder touches, "control" for the control
\* characters without a class of their own, "invalid" for what is not Unicode:
\* bytes that are not UTF-8 in Go, a lone surrogate in a browser.
Named == {"quote", "backslash", "newline", "return", "tab"}
Paged == {"backspace", "formfeed"}
Html == {"less", "greater", "ampersand", "separator"}
Char == Named \cup Paged \cup Html
          \cup {"nul", "control", "invalid", "replacement", "plain"}

VARIABLES
  signer,   \* who signs: the command line tool or the web page
  text,     \* the text where it is now
  signed,   \* the bytes that were signed
  at        \* how far the rating has come

textVars == <<signer, text, signed, at>>

Each(Op(_), s) == [k \in DOMAIN s |-> Op(s[k])]

Raw(c) == [form |-> "raw", char |-> c]
Short(c) == [form |-> "short", char |-> c]
Hex(c) == [form |-> "hex", char |-> c]

\* Variant: bytes that are not UTF-8 are copied.
GoEscape_copy(c) ==
  IF c \in Named \cup Paged THEN Short(c)
  ELSE IF c \in Html \cup {"nul", "control"} THEN Hex(c)
  ELSE Raw(c)

\* encoding/json with HTML escaping, as of Go 1.22.
GoEscape(c) ==
  IF c \in Named \cup Paged THEN Short(c)
  ELSE IF c \in Html \cup {"nul", "control"} THEN Hex(c)
  ELSE IF c = "invalid" THEN Hex("replacement")
  ELSE Raw(c)

GoMarshal(s) == Each(GoEscape, s)

Unescape(u) == u.char

Unmarshal(bytes) == Each(Unescape, bytes)

\* Variant: the value is marshalled once, and its keys would be sorted by
\* encoding/json.
CanonicalBytes_once(s) == GoMarshal(s)

\* Marshalled, read back as a generic value and marshalled with sorted keys.
CanonicalBytes(s) == GoMarshal(Unmarshal(GoMarshal(s)))

\* Variant: the escapes for HTML are left out.
GoJsonString_noHtml(c) ==
  IF c \in Named THEN Short(c)
  ELSE IF c \in Paged \cup {"nul", "control", "separator"} THEN Hex(c)
  ELSE IF c = "invalid" THEN Raw("replacement")
  ELSE Raw(c)

\* The TypeScript port; the bytes are UTF-8, in which a lone surrogate becomes
\* the replacement character.
GoJsonString(c) ==
  IF c \in Named THEN Short(c)
  ELSE IF c \in Paged \cup Html \cup {"nul", "control"} THEN Hex(c)
  ELSE IF c = "invalid" THEN Raw("replacement")
  ELSE Raw(c)

CanonicalFeedbackBytes(s) == Each(GoJsonString, s)

\* A text that went through JSON, from either side.
Carry(c) == IF c = "invalid" THEN "replacement" ELSE c

Carried(s) == Each(Carry, s)

-----------------------------------------------------------------------------
TextInit ==
  /\ signer \in {"tool", "page"}
  /\ text \in BoundedSeq(Char, MaxLength)
  /\ signed = << >> /\ at = "written"

SignText ==
  /\ at = "written" /\ at' = "posted"
  /\ signed' = IF signer = "tool" THEN CanonicalBytes(text)
               ELSE CanonicalFeedbackBytes(text)
  /\ text' = Carried(text)
  /\ UNCHANGED signer

\* The server makes the bytes anew; the column takes any text without a NUL.
CheckText ==
  /\ at = "posted"
  /\ at' = IF CanonicalBytes(text) # signed THEN "unauthorized"
           ELSE IF "nul" \in ToSet(text) THEN "insert failed" ELSE "stored"
  /\ UNCHANGED <<signer, text, signed>>

\* GET /feedback, and the browser makes the bytes once more.
ReverifyText ==
  /\ at = "stored" /\ text' = Carried(text)
  /\ at' = IF CanonicalFeedbackBytes(text') = signed THEN "verified" ELSE "invalid"
  /\ UNCHANGED <<signer, signed>>

TextNext == SignText \/ CheckText \/ ReverifyText

TextSpec == TextInit /\ [][TextNext]_textVars

-----------------------------------------------------------------------------
\* Properties.

TextTypeOK ==
  /\ signer \in {"tool", "page"}
  /\ text \in Seq(Char) /\ Len(text) <= MaxLength
  /\ signed \in Seq([form: {"raw", "short", "hex"}, char: Char \ {"invalid"}])
  /\ at \in {"written", "posted", "stored", "verified", "unauthorized",
             "invalid", "insert failed"}

\* What the tool signs the server verifies, for every text that a command line
\* can carry, also one that is not UTF-8: both marshal twice
\* (internal/adr036/adr036.go:238-251).
ToolSignaturesVerify == signer = "tool" => at # "unauthorized"

\* But for backspace and form feed the two encoders agree on every text: the
\* server takes the signatures of the page, and the page finds what is listed
\* valid, whoever signed it.
PortAgrees ==
  at \in {"unauthorized", "invalid"} => Paged \cap ToSet(text) # {}

\* web/src/adr036.ts:1-4: "It must produce byte-identical canonical message +
\* ADR-036 sign-doc to the Go code, so that (a) wallet signatures verify
\* server-side and (b) we can re-verify stored ratings in the browser".
ByteIdentical == at \notin {"unauthorized", "invalid"}
=============================================================================
