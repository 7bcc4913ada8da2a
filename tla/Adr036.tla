------------------------------- MODULE Adr036 -------------------------------
(***************************************************************************)
(* internal/adr036: the signable feedback message, its author and subject, *)
(* and the signature over it.  The cryptography is symbolic: a signature   *)
(* is a record of the key that made it and of the document it covers, so   *)
(* only the holder of a key produces one that verifies under that key.     *)
(* The canonical JSON of a message is injective on its fields, so the sign *)
(* document is a record of the message itself, of the signer, and of the   *)
(* one thing in which the encoder of web/src/adr036.ts writes it otherwise *)
(* (CanonicalText): how a backspace and a form feed are escaped.           *)
(***************************************************************************)
EXTENDS Vocabulary

CONSTANTS
  Key,                \* compressed secp256k1 public keys
  AddressFromPubKey,  \* the address derived from each key
  Instant,            \* points in time, to the second
  Comment             \* comments, told apart by their lengths and by controls:
                      \* whether there is a backspace or a form feed in them

ASSUME Adr036Assumption ==
  /\ AddressFromPubKey \in [Key -> Address]
  /\ Instant \subseteq Nat
  /\ Comment \subseteq [chars: Nat, bytes: Nat, controls: BOOLEAN]

MessageVersion == "akash-reputation/v1"

RoleProvider == "provider"
RoleDeployer == "deployer"

\* What a submitted message may look like; gseq and oseq are 0 when one of them
\* is missing.
Feedback ==
  [v: STRING, role: STRING,
   provider: Address \cup {BadAddress}, deployer: Address \cup {BadAddress},
   dseq: Text(DSeq), goseq: GOSeq \cup {0}, score: Int, comment: Comment,
   issued_at: Text(Instant)]

Signature ==
  [key: Key, doc: [data: Feedback, signer: Address,
                   escapes: {"none", "short", "unicode"}]]

DecodesAsAddress(text) == text \in Address

Author(f) == IF f.role = RoleProvider THEN f.provider ELSE f.deployer

Subject(f) == IF f.role = RoleProvider THEN f.deployer ELSE f.provider

Validate(f) ==
  /\ f.v = MessageVersion
  /\ f.role \in {RoleProvider, RoleDeployer}
  /\ f.score \in {1, -1}
  /\ DecodesAsAddress(f.provider) /\ DecodesAsAddress(f.deployer)
  /\ IsSet(f.dseq) /\ f.goseq # 0
  /\ IsSet(f.issued_at)

Escapes(f, form) == IF f.comment.controls THEN form ELSE "none"

SignDoc(f, signer) ==
  [data |-> f, signer |-> signer, escapes |-> Escapes(f, "short")]

Sign(f, key) == [key |-> key, doc |-> SignDoc(f, AddressFromPubKey[key])]

\* pubKey is a key, its address is the party that f names as its author, and it
\* made sig over exactly the document of f.
Verify(f, pubKey, sig) ==
  /\ pubKey \in Key
  /\ AddressFromPubKey[pubKey] = Author(f)
  /\ sig = [key |-> pubKey, doc |-> SignDoc(f, Author(f))]

-----------------------------------------------------------------------------
\* The re-verification of a listed rating in the browser.

BuildSignDoc(f, signer) ==
  [data |-> f, signer |-> signer, escapes |-> Escapes(f, "unicode")]

FeedbackFromRecord(r) ==
  [v |-> MessageVersion, role |-> r.role, provider |-> r.provider,
   deployer |-> r.owner, dseq |-> r.dseq, goseq |-> r.goseq,
   score |-> r.score, comment |-> r.comment, issued_at |-> r.issued_at]

\* Variant: the signature is checked and whose key made it is not.
VerifyRecord_anyKey(r) ==
  r.signature.bytes = [key |-> r.pubkey.bytes,
                       doc |-> BuildSignDoc(FeedbackFromRecord(r), r.author)]

\* Base64 that is broken into lines is an error, and so not valid.
VerifyRecord(r) ==
  /\ ~r.pubkey.broken /\ ~r.signature.broken
  /\ AddressFromPubKey[r.pubkey.bytes] = r.author
  /\ r.signature.bytes =
       [key |-> r.pubkey.bytes,
        doc |-> BuildSignDoc(FeedbackFromRecord(r), r.author)]
=============================================================================
