------------------------------ MODULE ReputeSign ------------------------------
(***************************************************************************)
(* cmd/repute-sign: a run reads its key and flags, signs one rating and    *)
(* prints it or posts it to the service, whose handler is that of          *)
(* FeedbackApi.  A run that got no answer is repeated by its user as       *)
(* another run, dated anew and so with another signature, while the        *)
(* handler of the first one may still be at work.                          *)
(***************************************************************************)
EXTENDS FeedbackApi

CONSTANTS
  Invocation,  \* the command lines and environments of the runs
  NotRun       \* the place of one in a run that has not begun

\* A text without a key in it, one that is not given being "".
NoKey == "no key in it"

ASSUME ReputeSignAssumption ==
  /\ {"", NoKey} \cap Key = {} /\ "" \notin Address /\ NotRun \notin Invocation
  /\ Invocation \subseteq
       [role: {RoleProvider, RoleDeployer, ""},
        provider: Address \cup {BadAddress, ""},
        deployer: Address \cup {BadAddress, ""},
        dseq: Text(DSeq), goseq: GOSeq \cup {0},
        up: BOOLEAN, down: BOOLEAN, score: Int, comment: Comment,
        keyHex: Key \cup {"", NoKey}, env: Key \cup {"", NoKey},
        stdin: Key \cup {"", NoKey}, api: BOOLEAN]

VARIABLES
  ran,      \* the invocation of each run, once there is one
  runPc,    \* "idle", "posting" or "done"
  made,     \* the envelope it signed
  exit      \* its exit code, or none yet

cliVars == <<ran, runPc, made, exit>>
serverVars == <<chain, leases, feedback, nextId, reqPc, body, answer>>
runsVars == <<serverVars, faults, cliVars>>

NoExit == -1

RunsTypeOK ==
  /\ ChainTypeOK /\ LeaseTableTypeOK /\ FeedbackTableTypeOK /\ FaultsTypeOK
  /\ ApiTypeOK
  /\ ran \in [Req -> Invocation \cup {NotRun}]
  /\ runPc \in [Req -> {"idle", "posting", "done"}]
  /\ made \in [Req -> [feedback: Feedback, pubkey: Base64(Key),
                     signature: Base64(Signature)] \cup {NotJSON}]
  /\ exit \in [Req -> {NoExit, 0, 1}]

RunsInit ==
  /\ ChainInit /\ LeaseTableInit /\ FeedbackTableInit /\ FaultsInit /\ ApiInit
  /\ ran = [r \in Req |-> NotRun] /\ runPc = [r \in Req |-> "idle"]
  /\ made = [r \in Req |-> NotJSON] /\ exit = [r \in Req |-> NoExit]

-----------------------------------------------------------------------------
\* What a run makes of its flags.

\* Variant: what is piped in comes before the environment.
LoadKey_stdinFirst(i) ==
  CASE i.keyHex # "" -> i.keyHex [] i.keyHex = "" /\ i.stdin # "" -> i.stdin
    [] OTHER -> i.env

\* The first source that is not empty decides, with or without a key in it.
LoadKey(i) ==
  CASE i.keyHex # "" -> i.keyHex [] i.keyHex = "" /\ i.env # "" -> i.env
    [] OTHER -> i.stdin

\* Variant: the two flags come before the explicit score.
ResolveScore_flagsFirst(i) ==
  CASE i.up /\ ~i.down -> 1 [] i.down /\ ~i.up -> -1
    [] i.up /\ i.down -> 0 [] OTHER -> i.score

\* 0 stands for the error of both flags, or of none.
ResolveScore(i) ==
  CASE i.score # 0 -> i.score
    [] i.score = 0 /\ i.up /\ ~i.down -> 1
    [] i.score = 0 /\ i.down /\ ~i.up -> -1
    [] OTHER -> 0

OwnSide(role, i, flag, signer) ==
  IF i.role = role /\ flag = "" THEN signer ELSE flag

\* The message, dated at the second t.
Message(i, t) ==
  LET signer == AddressFromPubKey[LoadKey(i)]
  IN  [v |-> MessageVersion, role |-> i.role,
       provider |-> OwnSide(RoleProvider, i, i.provider, signer),
       deployer |-> OwnSide(RoleDeployer, i, i.deployer, signer),
       dseq |-> i.dseq, goseq |-> i.goseq, score |-> ResolveScore(i),
       comment |-> i.comment, issued_at |-> Canonical(t)]

\* Variant: whether the key belongs to the author is left to the server.
Signable_anyKey(i, t) ==
  LoadKey(i) \in Key /\ ResolveScore(i) # 0 /\ Validate(Message(i, t))

Signable(i, t) ==
  /\ LoadKey(i) \in Key /\ ResolveScore(i) # 0 /\ Validate(Message(i, t))
  /\ AddressFromPubKey[LoadKey(i)] = Author(Message(i, t))

Signed(i, t) ==
  [feedback |-> Message(i, t), pubkey |-> Encoded(LoadKey(i)),
   signature |-> Encoded(Sign(Message(i, t), LoadKey(i)))]

\* What a run may post is JSON and among the bodies that requests may carry.
ASSUME EnvelopeAssumption ==
  \A i \in Invocation, t \in Instant :
    Signable(i, t) => Signed(i, t) \in Envelope \ {NotJSON}

-----------------------------------------------------------------------------
\* A run.

Ends(r, code) ==
  /\ runPc' = [runPc EXCEPT ![r] = "done"]
  /\ exit' = [exit EXCEPT ![r] = code]

\* From the flags to the signed envelope, printed if there is no --api.
Invoke(r, i, t) ==
  /\ runPc[r] = "idle"
  /\ ran' = [ran EXCEPT ![r] = i]
  /\ IF Signable(i, t)
     THEN /\ made' = [made EXCEPT ![r] = Signed(i, t)]
          /\ IF i.api THEN runPc' = [runPc EXCEPT ![r] = "posting"] /\ UNCHANGED exit
             ELSE Ends(r, 0)
     ELSE Ends(r, 1) /\ UNCHANGED made
  /\ UNCHANGED <<serverVars, faults>>

\* The POST arrives at the server.
Deliver(r) ==
  runPc[r] = "posting" /\ Receive(r, made[r]) /\ UNCHANGED cliVars

\* Variant: any answer is a success.
ExitCode_anyAnswer(status) == 0

\* Variant: the status is taken for the exit code.
ExitCode_status(status) == IF status >= 300 THEN status ELSE 0

ExitCode(status) == IF status >= 300 THEN 1 ELSE 0

Answered(r) ==
  /\ runPc[r] = "posting" /\ reqPc[r] = "answered"
  /\ Ends(r, ExitCode(answer[r].status))
  /\ UNCHANGED <<serverVars, faults, ran, made>>

\* The connection breaks before the request, or before the answer to it, is
\* through; or the user gives up on a run that has no timeout.
PostFails(r) ==
  /\ runPc[r] = "posting" /\ Fault
  /\ Ends(r, 1)
  /\ UNCHANGED <<serverVars, ran, made>>

RunStep ==
  \E r \in Req :
    \/ \E i \in Invocation, t \in Instant : Invoke(r, i, t)
    \/ Deliver(r) \/ Answered(r) \/ PostFails(r)

ServerStep ==
  (\E r \in Req : HandlerStep(r) \/ HandlerFails(r)) /\ UNCHANGED cliVars

ChainGoesOn ==
  ChainNext /\ UNCHANGED <<leases, feedback, nextId, apiVars, faults, cliVars>>

RunsNext == RunStep \/ ServerStep \/ ChainGoesOn

RunsSpec == RunsInit /\ [][RunsNext]_runsVars

-----------------------------------------------------------------------------
\* Properties.

\* docs/repute-sign.md:145-151: a run with --api that ends with exit code 0 has
\* its rating stored, signed as it signed it and under the id that it printed,
\* and no other run was told the same.
SuccessMeansStored ==
  \A r \in Req : exit[r] = 0 /\ ran[r].api =>
    /\ \E row \in feedback :
         row.id = answer[r].id /\ row.signature = made[r].signature
    /\ \A s \in Req \ {r} :
         exit[s] = 0 /\ ran[s].api => answer[s].id # answer[r].id

\* What the tool signs, the server does not find malformed or forged: the two
\* make the same checks (cmd/repute-sign/main.go:99-104, internal/api/api.go:
\* 76-106), but for the length of the comment, which the tool leaves to the
\* server.
ToolAndServerAgree ==
  \A r \in Req : reqPc[r] = "answered" /\ answer[r].status \in {400, 401} =>
    made[r].feedback.comment.bytes > MaxCommentBytes

\* A stored rating says what the command line of some run asked for, by the key
\* that docs/repute-sign.md:47-53 says is used and with the score of :88-90,
\* over the addresses that it names or leaves to be filled in.
StoredAsAsked ==
  \A row \in feedback : \E r \in Req :
    LET i == ran[r]
        key == IF i.keyHex # "" THEN i.keyHex
               ELSE IF i.env # "" THEN i.env ELSE i.stdin
    IN  /\ i # NotRun
        /\ i.api /\ key \in Key
        /\ row.role = i.role /\ row.author = AddressFromPubKey[key]
        /\ row.score = (IF i.score # 0 THEN i.score ELSE IF i.up THEN 1 ELSE -1)
        /\ i.provider \in {"", row.provider} /\ i.deployer \in {"", row.owner}
        /\ row.dseq = i.dseq /\ row.goseq = i.goseq /\ row.comment = i.comment

\* A run that is repeated because it had no answer finds out what became of the
\* first: it succeeds, or it is told 409 and the rating there is by the same
\* author on the same deployment and was sent by another run.
RepeatsAreTold ==
  \A r \in Req : exit[r] = 1 /\ answer[r].status = 409 =>
    \E row \in feedback, s \in Req \ {r} :
      /\ row.signature = made[s].signature
      /\ row.author = Author(made[r].feedback)
      /\ row.owner = made[r].feedback.deployer
      /\ row.dseq = made[r].feedback.dseq
=============================================================================
