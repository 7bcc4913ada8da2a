----------------------------- MODULE Vocabulary -----------------------------
(***************************************************************************)
(* The values that the components exchange.                                *)
(*                                                                         *)
(* A deployment sequence number and a timestamp reach the service as text, *)
(* are compared as text in one place and read as values in another.  What  *)
(* the service can tell apart is what a text denotes and whether it is the *)
(* spelling the service itself would produce, so a text is a record of     *)
(* those two.  A lease is numbered by dseq, gseq and oseq; the last two    *)
(* always travel together and are one number here.                         *)
(***************************************************************************)
EXTENDS Integers

CONSTANTS
  Address,    \* the texts that decode as akash addresses
  BadAddress, \* every text that does not
  Provider,   \* PROVIDER_ADDR, the provider this instance runs for
  DSeq,       \* deployment sequence numbers
  GOSeq       \* (gseq, oseq) pairs

ASSUME VocabularyAssumption ==
  /\ BadAddress \notin Address
  /\ Provider \in Address
  /\ DSeq \subseteq Nat
  /\ GOSeq \subseteq Nat \ {0}

Spelling == {"canonical", "alternate", "unreadable", "empty"}

Text(Values) == [value: Values, spelling: Spelling]

\* The text that the program, or the chain, produces for a value.
Canonical(v) == [value |-> v, spelling |-> "canonical"]

\* A reader of the text obtains its value and not an error.
Readable(t) == t.spelling \in {"canonical", "alternate"}

IsSet(t) == t.spelling # "empty"

\* A text in base64: what it decodes to, and whether it is broken into lines,
\* which Go's decoder overlooks and the browser's does not.
Base64(Values) == [bytes: Values, broken: BOOLEAN]

Encoded(v) == [bytes |-> v, broken |-> FALSE]
=============================================================================
