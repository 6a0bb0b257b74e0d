------------------------------ MODULE NodeClient ------------------------------
(***************************************************************************)
(* Client (nodeclient/http_api_client.go, http.go) and the API provider it *)
(* owns.  New asks the node once for the versions and their parameters;    *)
(* later answers to Info move only the committed slot, also when they come *)
(* late.  The other calls differ in the API that decodes their answer.     *)
(***************************************************************************)
EXTENDS EpochBasedProvider

VARIABLES
    phase,      \* of the client: "new", "adding", "ready", "failed", or "none"
    listed,     \* versions of the answer to Info that New has yet to add
    call,       \* the call whose answer is awaited, or NoCall
    result,     \* of the last call
    misled      \* by an answer that the client takes for granted

clientVars == <<phase, listed, call, result, misled>>

NoCall == [method |-> "none", api |-> NoVersion]

(* An entry of ProtocolParameters in the answer to Info: the node lists    *)
(* none, one or two versions, in any order and from any epochs.            *)
Listing == [version : Version, epoch : {0, 1}]
Listings == UNION {[1..n -> Listing] : n \in 0..2}

(* A panic of the client that the answer of the node provokes. *)
Panics ==
    /\ panicked' = TRUE /\ misled' = TRUE
    /\ UNCHANGED <<versions, params, future, latest, committed, committedSlot, highestSlot, pending, callback>>
    /\ UNCHANGED <<phase, listed, call, result>>

-----------------------------------------------------------------------------
(* interpretBody: what a status code stands for, by httpCodeToErr. *)
Status == {200, 201, 204, 400, 401, 404, 418, 500, 501, 503}
StatusError(code) ==
    IF code = 503 THEN "unavailable" ELSE IF code = 404 THEN "notFound" ELSE "refused"
interpretBody(code, decodes) ==
    IF code = 204 THEN "ok"
    ELSE IF code \in {200, 201} THEN IF decodes THEN "ok" ELSE "undecodable"
    ELSE StatusError(code)

(* A body that is taken as raw data is decoded afterwards; no content does *)
(* not decode.                                                             *)
RawBody(code, decodes) ==
    IF interpretBody(code, TRUE) = "ok" /\ ~(decodes /\ code # 204) THEN "undecodable" ELSE interpretBody(code, TRUE)

(* New, up to the answer of Info.  Without an answer in time, New fails.   *)
New(vs, s) ==
    /\ phase = "new"
    /\ SetCommittedSlot(s)
    /\ phase' = "adding" /\ listed' = vs
    /\ UNCHANGED <<call, result, misled>>

NewFails ==
    /\ phase = "new" /\ Running
    /\ phase' = "failed"
    /\ UNCHANGED <<vars, listed, call, result, misled>>

(* Info, called by New or later, is answered with 204 and without content: *)
(* the Status of the response, a pointer, is nil and is dereferenced.      *)
InfoNoContent == phase \in {"new", "ready"} /\ Running /\ Panics

(* The loop of New; nobody else has the client yet. *)
AddListed ==
    /\ phase = "adding" /\ listed # <<>>
    /\ IF Head(listed).version \in pending
       THEN AddVersionHalf(Head(listed).version, Head(listed).epoch) /\ listed' = Tail(listed)
       ELSE AddParametersHalf(Head(listed).version) /\ UNCHANGED listed
    /\ UNCHANGED <<phase, call, result, misled>>

NewReturns ==
    /\ phase = "adding" /\ listed = <<>> /\ Running
    /\ phase' = "ready"
    /\ UNCHANGED <<vars, listed, call, result, misled>>

-----------------------------------------------------------------------------
Ready == phase = "ready" /\ Running
Returns(r) == result' = r /\ call' = NoCall /\ UNCHANGED <<phase, listed, misled>>
(* The next request of a method that makes several. *)
Asks(method) == call' = [method |-> method, api |-> committed] /\ UNCHANGED <<phase, listed, result, misled>>

(* The methods, by what becomes of the answer; one name stands for all     *)
(* methods that do the same.  JSON is decoded by the API that was the      *)
(* committed one at the call.                                              *)
HealthQueries == {"Health"}
PluginQueries == {"Plugin"}
IdQueries == {"CommitmentByID"}
ParameterQueries == {"Congestion"}
AccountQueries == {"Rewards"}
ManagementQueries == {"Peers"}
JSONQueries == IdQueries \cup ParameterQueries \cup AccountQueries \cup ManagementQueries \cup {"IssuePayload"}
(* Blocks are decoded by the API of the version that the block names.      *)
BlockQueries == {"BlockByBlockID", "BlockWithMetadataByBlockID"}
(* Outputs and transactions are decoded by the API that is the committed   *)
(* one when the answer arrives.                                            *)
OutputQueries == {"OutputByID"}
TransactionQueries == {"TransactionByID"}
(* SendPayload asks the block issuer for the proof of work it demands.     *)
(* With a transaction builder, it asks for the issuer's address and for    *)
(* the latest commitment of the node too.                                  *)
PayloadQueries == {"SendPayload"}
BuilderQueries == {"SendPayloadWithTransactionBuilder"}
(* The indexer's queries for one output: its ID first, then the output.    *)
SingleOutputQueries == {"Account"}

(* Do and DoWithRequestHeaderHook take the serializer of the committed API *)
(* before the request is made.                                             *)
Do(method) ==
    /\ Ready /\ call = NoCall
    /\ IF committed = NoVersion
       THEN panicked' = TRUE /\ UNCHANGED call
       ELSE call' = [method |-> method, api |-> committed] /\ UNCHANGED panicked
    /\ result' = "none"
    /\ UNCHANGED <<versions, params, future, latest, committed, committedSlot, highestSlot,
                   pending, callback, phase, listed, misled>>

Answered(methods) == Ready /\ call.method \in methods

(* Health and NetworkHealth: a node that is not available is not healthy. *)
HealthAnswer(code) ==
    /\ Answered(HealthQueries)
    /\ Returns(IF interpretBody(code, TRUE) = "unavailable" THEN "unhealthy" ELSE interpretBody(code, TRUE))
    /\ UNCHANGED vars

PluginAnswer(code, supported) ==
    /\ Answered(PluginQueries)
    /\ Returns(IF interpretBody(code, TRUE) = "ok" /\ ~(supported /\ code # 204) THEN "pluginNotAvailable"
               ELSE interpretBody(code, TRUE))
    /\ UNCHANGED vars

JSONAnswer(code) ==
    /\ Answered(JSONQueries)
    /\ \E decodes \in BOOLEAN : Returns(interpretBody(code, decodes))
    /\ UNCHANGED vars

(* Mutant: the error of an unknown version is dropped. *)
BlockAnswerUnchecked(code, v, s) ==
    /\ Answered(BlockQueries)
    /\ Returns(interpretBody(code, TRUE))
    /\ panicked' = ~APIForVersion(v)
    /\ UNCHANGED <<versions, params, future, latest, committed, committedSlot, highestSlot, pending, callback>>

(* BlockFromBytes with the version v of the block; metadata that follow    *)
(* it are decoded by the API of the block's slot s.                        *)
BlockAnswer(code, v, s) ==
    /\ Answered(BlockQueries)
    /\ LET decoded == RawBody(code, TRUE) = "ok" /\ APIForVersion(v)
       IN  /\ Returns(IF RawBody(code, TRUE) = "ok" /\ ~decoded THEN "unknownVersion" ELSE RawBody(code, TRUE))
           /\ panicked' = (decoded /\ call.method = "BlockWithMetadataByBlockID" /\ ~APIForSlot(s))
    /\ UNCHANGED <<versions, params, future, latest, committed, committedSlot, highestSlot, pending, callback>>

(* The output ID that the proof yields has to be the one asked for.  Of an *)
(* output that a query for one output found, the kind is asserted: the     *)
(* client panics if it is another one.                                     *)
OutputAnswer(code, output) ==
    /\ Answered(OutputQueries \cup {"OutputOfKind"})
    /\ IF RawBody(code, TRUE) = "ok" /\ output = "otherKind" /\ call.method = "OutputOfKind"
       THEN Panics
       ELSE /\ Returns(IF RawBody(code, output # "malformed") = "ok" /\ output = "otherID" THEN "mismatch"
                       ELSE RawBody(code, output # "malformed"))
            /\ UNCHANGED vars

TransactionAnswer(code) ==
    /\ Answered(TransactionQueries)
    /\ \E decodes \in BOOLEAN : Returns(RawBody(code, decodes))
    /\ UNCHANGED vars

(* mineNonceAndSendPayload: the payload is encoded and the nonce mined,    *)
(* unless the context ends first, and sent.                                *)
SendPayload(code, mined) ==
    /\ Answered(PayloadQueries)
    /\ IF interpretBody(code, TRUE) = "ok" /\ mined
       THEN Asks("IssuePayload")
       ELSE Returns(IF mined THEN interpretBody(code, TRUE) ELSE "canceled")
    /\ UNCHANGED vars

(* SendPayloadWithTransactionBuilder: the issuer's address has to be that  *)
(* of an account.                                                          *)
IssuerAnswer(code, account) ==
    /\ Answered(BuilderQueries)
    /\ IF RawBody(code, account) = "ok" THEN Asks("BlockIssuance") ELSE Returns(RawBody(code, account))
    /\ UNCHANGED vars

(* Then its latest commitment, which is nil without content, is read, and  *)
(* the transaction is built and sent as above.                             *)
BlockIssuanceAnswer(code, mined) ==
    /\ Answered({"BlockIssuance"})
    /\ IF code = 204
       THEN Panics
       ELSE /\ IF interpretBody(code, TRUE) = "ok" /\ mined
               THEN Asks("IssuePayload")
               ELSE Returns(IF mined THEN interpretBody(code, TRUE) ELSE "canceled")
            /\ UNCHANGED vars

(* The items of an indexer's answer: none, as in an answer without content,*)
(* IDs, or texts that are not hexadecimal, on which MustOutputIDs panics.  *)
singleOutputQuery(code, items) ==
    /\ Answered(SingleOutputQueries)
    /\ LET found == interpretBody(code, TRUE) = "ok" /\ code # 204 /\ items # "none"
       IN  IF found /\ items = "malformed"
           THEN Panics
           ELSE /\ IF found
                   THEN Asks("OutputOfKind")
                   ELSE Returns(IF interpretBody(code, TRUE) = "ok" THEN "indexerNotFound" ELSE interpretBody(code, TRUE))
                /\ UNCHANGED vars

(* IndexerResultSet.Outputs, of a page that was answered before: the first *)
(* output of it is fetched, and so on.                                     *)
Outputs(items) ==
    /\ Ready /\ call = NoCall /\ committed # NoVersion
    /\ IF items = "malformed"
       THEN Panics
       ELSE /\ IF items = "ids" THEN Asks("OutputByID") ELSE Returns("ok")
            /\ UNCHANGED vars

(* SubmitBlock: the header's version decides how the block is encoded. *)
SubmitBlock(v, code) ==
    /\ Ready /\ call = NoCall
    /\ Returns(IF APIForVersion(v) THEN interpretBody(code, TRUE) ELSE "unknownVersion")
    /\ UNCHANGED vars

(* Info, its answer s however late; calls in flight stay as they are. *)
Info(s) ==
    /\ Ready
    /\ SetCommittedSlot(s)
    /\ UNCHANGED clientVars

-----------------------------------------------------------------------------
ClientInit ==
    /\ phase \in {"none", "new"}
    /\ phase = "new" => ~callback
    /\ listed = <<>> /\ call = NoCall /\ result = "none" /\ misled = FALSE

Create(vs, s) == New(vs, s) \/ NewFails \/ AddListed \/ NewReturns

ClientStep ==
    \/ \E vs \in Listings, s \in 0..MaxSlot : Create(vs, s)
    \/ \E s \in 0..MaxSlot : Info(s)
    \/ InfoNoContent
    \/ \E q \in HealthQueries \cup PluginQueries \cup JSONQueries \cup BlockQueries \cup OutputQueries
                \cup TransactionQueries \cup PayloadQueries \cup BuilderQueries \cup SingleOutputQueries : Do(q)
    \/ \E code \in Status :
          \/ HealthAnswer(code) \/ JSONAnswer(code) \/ TransactionAnswer(code)
          \/ \E ok \in BOOLEAN :
                \/ PluginAnswer(code, ok) \/ SendPayload(code, ok)
                \/ IssuerAnswer(code, ok) \/ BlockIssuanceAnswer(code, ok)
          \/ \E output \in {"ok", "malformed", "otherID", "otherKind"} : OutputAnswer(code, output)
          \/ \E items \in {"none", "malformed", "ids"} : singleOutputQuery(code, items)
          \/ \E v \in Version : SubmitBlock(v, code) \/ \E s \in {0, MaxSlot} : BlockAnswer(code, v, s)
    \/ \E items \in {"none", "malformed", "ids"} : Outputs(items)

-----------------------------------------------------------------------------
(* A client that New returned panics on these answers of a node only: it   *)
(* listed no version or another start epoch than agreed on; Info or the    *)
(* block issuance came without content; an output ID of the indexer is not *)
(* hexadecimal; or the output it names is of another kind than asked for.  *)
(* Whatever else the node answers and whenever, late answers to Info       *)
(* included, the client goes on: blocks of versions that came up after New *)
(* are refused, and slots of any epoch have an API.  New itself panics if  *)
(* the node lists a version without an API.                                *)
ReadyClientNeverPanics ==
    phase = "ready" /\ Agreed /\ versions # <<>> /\ ~misled => ~panicked
=============================================================================
