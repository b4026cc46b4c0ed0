------------------------------ MODULE MetaRuntime ------------------------------
(***************************************************************************)
(* experiments/bfcl_v4_public_v2_meta_runtime.py and its contracts: how a  *)
(* candidate of the BFCL v2 campaign is proposed.  In every cell, an arm   *)
(* of a replicate, each pipeline asks for a diagnosis of the cell's own    *)
(* parent-FIT calls and then for one mutation of a closed catalogue; once  *)
(* all pipelines have answered, duplicates are closed.                     *)
(*                                                                         *)
(* The functions are pure and their caller pairs the arguments: the model  *)
(* offers them every event, request, reply and result there is of every    *)
(* cell and pipeline, and the like of a run under another runtime.  An     *)
(* artifact stands for its fingerprint.                                    *)
(***************************************************************************)
EXTENDS Naturals, Sequences, FiniteSets, SequencesExt

CONSTANTS Cells,        \* the arms of a replicate, "score" or "full", in order
          Tasks,        \* FIT tasks of a cell; the plan has ten
          Pipelines,    \* pipelines of a cell; the plan has three
          Mutations, Components, ComponentOf,   \* the closed catalogue
          Shapes,       \* what a reply may look like
          FitOutcomes,  \* grade and response of a parent-FIT call
          Missing,
          MaxLapses     \* bound: replies and pairings no careful caller produces

ASSUME MetaAssumption ==
  /\ Cells \in Seq({"score", "full"})
  /\ Tasks \in Nat \ {0} /\ Pipelines \in Nat \ {0} /\ MaxLapses \in Nat
  /\ ComponentOf \in [Mutations -> Components]
  /\ Missing \notin Mutations

VARIABLES fits,       \* the events of the parent-FIT calls, all journaled before
          journal,    \* the events of the meta calls, node by node
          requests,   \* the request materialized for each of them
          parsed,     \* every parse result so far
          batches,    \* the resolved batch of each cell
          lapses

metaVars == <<fits, journal, requests, parsed, batches, lapses>>

MetaNode(kind, cell, index) == [kind |-> kind, cell |-> cell, index |-> index]
MetaKinds == <<"DIAGNOSIS", "PROPOSAL">>
FitNodes == {MetaNode("PARENT_FIT", c, t) : c \in DOMAIN Cells, t \in 1 .. Tasks}
MetaNodes == {MetaNode(MetaKinds[k], c, p) :
                k \in DOMAIN MetaKinds, c \in DOMAIN Cells, p \in 1 .. Pipelines}

\* allowed_evidence_from
AllowedEvidence(node) ==
  IF node.kind = "DIAGNOSIS"
  THEN [t \in 1 .. Tasks |-> MetaNode("PARENT_FIT", node.cell, t)]
  ELSE <<MetaNode("DIAGNOSIS", node.cell, node.index)>>

MetaEvent(node, request, response, grade) ==
  [node |-> node, runtime |-> "LIVE", request |-> request, response |-> response,
   grade |-> grade]

\* What is there, and the same of a run under another runtime.
Both(things) == things \cup {[thing EXCEPT !.runtime = "STALE"] : thing \in things}
Answered == {n \in MetaNodes : journal[n] # Missing}
OfferedEvents == Both({fits[n] : n \in FitNodes} \cup {journal[n] : n \in Answered})
OfferedRequests == Both({requests[n] : n \in {m \in MetaNodes : requests[m] # Missing}})

\* The order of the plan: stage by stage, pipeline by pipeline, the arms of each.
Rank(node) ==
  <<IF node.kind = "DIAGNOSIS" THEN 1 ELSE 2, node.index, node.cell>>
Precedes(m, n) ==
  \E i \in 1 .. 3 : Rank(m)[i] < Rank(n)[i] /\ \A j \in 1 .. i - 1 : Rank(m)[j] = Rank(n)[j]
Turn(node) == node \notin Answered /\ \A n \in MetaNodes : Precedes(n, node) => n \in Answered

-----------------------------------------------------------------------------
(* Requests                                                                *)

\* validate_source_event
ValidSource(event, source) == event.node = source /\ event.runtime = "LIVE"

\* A parent-FIT event is graded, and right only if it was answered.
TerminalFit(event) ==
  event.grade \in BOOLEAN /\ (event.response = Missing => ~event.grade)

\* Exactly the events the plan allows, in its order.
EvidenceOf(node, events) ==
  /\ Len(events) = Len(AllowedEvidence(node))
  /\ \A t \in DOMAIN events : ValidSource(events[t], AllowedEvidence(node)[t])

\* FULL gets the task of each event, bound to its node and request; SCORE none.
ProjectionsOf(events) ==
  [t \in DOMAIN events |-> [node |-> events[t].node, request |-> events[t].request]]
Projected(node, events, projections) ==
  IF Cells[node.cell] = "score" THEN projections = <<>>
  ELSE /\ Len(projections) = Tasks
       /\ \A t \in 1 .. Tasks : /\ projections[t].node = AllowedEvidence(node)[t]
                                /\ projections[t].request = events[t].request

\* What the diagnoser sees: two counts, or the cell's own calls in order.
DiagnosisPayload(node, events) ==
  IF Cells[node.cell] = "score"
  THEN LET correct == Cardinality({t \in DOMAIN events : events[t].grade})
       IN  [correct |-> correct, incorrect |-> Tasks - correct]
  ELSE [t \in DOMAIN events |-> [request |-> events[t].request,
                                 response |-> events[t].response, grade |-> events[t].grade]]

\* What the proposer sees of a diagnosis.
ProposalPayload(result) == [failure |-> result.failure, said |-> result.said]

\* _materialize: the prompt with the private lineage it rests on.
MetaRequest(node, events, payload, diagnosis) ==
  [node |-> node, runtime |-> "LIVE", evidence |-> events, payload |-> payload,
   diagnosis |-> diagnosis]

Materialized(node, request) ==
  /\ requests' = [requests EXCEPT ![node] = request]
  /\ UNCHANGED <<fits, journal, parsed, batches, lapses>>

\* materialize_bfcl_v4_public_v2_diagnosis_request
MaterializeDiagnosis(node) ==
  /\ node.kind = "DIAGNOSIS" /\ Turn(node) /\ requests[node] = Missing
  /\ \E events \in [1 .. Tasks -> {e \in OfferedEvents : e.node.kind = "PARENT_FIT"}] :
     \E projections \in {<<>>, ProjectionsOf(events)} :
       /\ EvidenceOf(node, events)
       /\ \A t \in 1 .. Tasks : TerminalFit(events[t])
       /\ Projected(node, events, projections)
       /\ Materialized(node, MetaRequest(node, events, DiagnosisPayload(node, events), Missing))

\* _checked_request: only a request of this runtime for a node of the kind stands.
RequestStands(request, kind) ==
  /\ request.node.kind = kind /\ request.runtime = "LIVE"
  /\ Len(request.evidence) = Len(AllowedEvidence(request.node))
  /\ (request.diagnosis # Missing) <=> (kind = "PROPOSAL")

\* The event holds the request that was answered and the reply that was parsed.
EventOfResult(event, request, result) ==
  /\ event.request = request
  /\ event.grade = Missing
  /\ event.response = result.reply

\* materialize_bfcl_v4_public_v2_proposal_request
MaterializeProposal(node) ==
  /\ node.kind = "PROPOSAL" /\ Turn(node) /\ requests[node] = Missing
  /\ \E request \in {r \in OfferedRequests : RequestStands(r, "DIAGNOSIS")} :
       /\ AllowedEvidence(node) = <<request.node>>
       /\ \E result \in {r \in parsed : r.request = request},
             event \in {e \in OfferedEvents : ValidSource(e, request.node)} :
            /\ EventOfResult(event, request, result)
            /\ Materialized(node, MetaRequest(node, <<event>>, ProposalPayload(result), result))

-----------------------------------------------------------------------------
(* Replies                                                                 *)

Reply(request, shape) == [request |-> request, shape |-> shape]
Clean(node, shape) ==
  /\ shape # Missing /\ shape.calls = 1 /\ ~shape.text /\ shape.tool = node.kind
  /\ node.kind = "PROPOSAL" => shape.said \in Mutations

\* The one provider attempt of a node, and its event.
Answer(node) ==
  /\ requests[node] # Missing /\ Turn(node)
  /\ \E shape \in Shapes \cup {Missing} :
       /\ Clean(node, shape) \/ lapses < MaxLapses
       /\ lapses' = IF Clean(node, shape) THEN lapses ELSE lapses + 1
       /\ journal' = [journal EXCEPT ![node] =
            MetaEvent(node, requests[node],
                      IF shape = Missing THEN Missing ELSE Reply(requests[node], shape),
                      Missing)]
  /\ UNCHANGED <<fits, requests, parsed, batches>>

\* The failures of a reply in the order they are looked for.
ReplyFailures(reply, request) ==
  <<<<reply.request # request, "RESPONSE_BINDING_MISMATCH">>,
    <<reply.shape.calls = 0, "TEXT_ONLY">>,
    <<reply.shape.calls # 1, "WRONG_CALL_COUNT">>,
    <<reply.shape.text, "ASSISTANT_TEXT_PRESENT">>,
    <<reply.shape.tool # request.node.kind, "WRONG_TOOL">>,
    <<reply.shape.said = Missing, "MISSING_ARGUMENT">>>>
FirstFailure(checks) ==
  LET failed == {i \in DOMAIN checks : checks[i][1]}
  IN  IF failed = {} THEN "NONE" ELSE checks[Min(failed)][2]

\* Mutant: a reply is read whatever request it answers.
ExtractAny(reply, request) ==
  IF reply = Missing THEN "NO_VERIFIED_RESPONSE"
  ELSE FirstFailure(Tail(ReplyFailures(reply, request)))

\* extract_submit_argument: what is wrong with a reply as an answer to the request.
Extract(reply, request) ==
  IF reply = Missing THEN "NO_VERIFIED_RESPONSE"
  ELSE FirstFailure(ReplyFailures(reply, request))

\* A result with a failure holds nothing but the reply.
Result(request, reply, failure, batch) ==
  [request |-> request, failure |-> failure, reply |-> reply,
   said |-> IF failure = "NONE" THEN reply.shape.said ELSE Missing,
   batch |-> IF failure = "NONE" THEN batch ELSE Missing]
Valid(result) == result.failure = "NONE"

\* The solver prompt of a role and the stage instructions of a mutation.
TreatmentPrompt(role, mutation) ==
  CASE role = "CANDIDATE" -> <<"parent", mutation>>
    [] role = "NEGATIVE_CONTROL" -> <<"parent", "generic">>
    [] OTHER -> <<"parent">>
Roles == {"STATIC_PARENT", "CANDIDATE", "REVERT", "NEGATIVE_CONTROL"}
RuntimeBatch(mutation) ==
  [overlays |-> [component \in Components |->
                   IF component = ComponentOf[mutation] THEN mutation ELSE Missing],
   prompts |-> [role \in Roles |-> TreatmentPrompt(role, mutation)]]

\* Missing stands for no batch.
ASSUME BatchAssumption == \A mutation \in Mutations : RuntimeBatch(mutation) # Missing

\* One stage changes, the candidate does differ, and its revert is the parent.
BatchStands(batch) ==
  /\ Cardinality({component \in Components : batch.overlays[component] # Missing}) = 1
  /\ batch.prompts["CANDIDATE"] # batch.prompts["STATIC_PARENT"]
  /\ batch.prompts["REVERT"] = batch.prompts["STATIC_PARENT"]

\* parse_bfcl_v4_public_v2_diagnosis_response
ParsedDiagnosis(request, reply) == Result(request, reply, Extract(reply, request), Missing)

\* parse_bfcl_v4_public_v2_proposal_response
ParsedProposal(request, reply) ==
  LET extracted == Extract(reply, request)
      failure == CASE extracted # "NONE" -> extracted
                   [] extracted = "NONE" /\ reply.shape.said \notin Mutations ->
                        "UNKNOWN_CATALOGUE_ID"
                   [] OTHER -> IF BatchStands(RuntimeBatch(reply.shape.said)) THEN "NONE"
                               ELSE "MATERIALIZATION_INVALID"
  IN  Result(request, reply, failure,
             IF failure = "NONE" THEN RuntimeBatch(reply.shape.said) ELSE Missing)

\* The reply of some node, or none, is parsed against the request of a node.
Parse(node, source, reply) ==
  LET request == requests[node]
      lapse == node # source \/ reply # journal[source].response
      result == IF node.kind = "DIAGNOSIS" THEN ParsedDiagnosis(request, reply)
                ELSE ParsedProposal(request, reply)
  IN  /\ lapse => lapses < MaxLapses
      /\ RequestStands(request, node.kind)
      /\ result \notin parsed
      /\ parsed' = parsed \cup {result}
      /\ lapses' = IF lapse THEN lapses + 1 ELSE lapses
      /\ UNCHANGED <<fits, journal, requests, batches>>

-----------------------------------------------------------------------------
(* Duplicates                                                              *)

Admissible(result) == Valid(result) /\ Valid(result.request.diagnosis)

\* The pipelines before one whose admissible results have its mutation.
Earlier(results, p) ==
  {q \in 1 .. p - 1 : Admissible(results[q]) /\ results[q].said = results[p].said}

Disposition(results, p) ==
  CASE Admissible(results[p]) /\ Earlier(results, p) # {} -> "DUPLICATE"
    [] Admissible(results[p]) /\ Earlier(results, p) = {} -> "VALID"
    [] ~Admissible(results[p]) /\ results[p].failure = "NO_VERIFIED_RESPONSE" -> "PROVIDER_FAILURE"
    [] OTHER -> "INVALID"

Resolved(results) ==
  [p \in DOMAIN results |->
     LET disposition == Disposition(results, p) IN
     [result |-> results[p], disposition |-> disposition,
      duplicateOf |-> IF disposition = "DUPLICATE" THEN Min(Earlier(results, p)) ELSE Missing,
      admitted |-> IF disposition = "VALID" THEN results[p].batch ELSE Missing]]

\* One cell, in the order of the pipelines.
OneBatch(results) ==
  \A p \in DOMAIN results : /\ results[p].request.node.index = p
                            /\ results[p].request.node.cell = results[1].request.node.cell

OwnProposals == {r \in parsed : r.request.node.kind = "PROPOSAL"}

\* What a run under another runtime parsed of a proposal request like one here.
ForeignProposals ==
  {ParsedProposal(request, Reply(request, shape)) :
     request \in {r \in OfferedRequests : /\ lapses < MaxLapses
                                        /\ r.node.kind = "PROPOSAL" /\ r.runtime = "STALE"},
     shape \in Shapes}

\* resolve_bfcl_v4_public_v2_proposal_batch: it looks at the nodes of the results,
\* not at the requests and the runtime they were parsed under.
Resolve(cell) ==
  /\ batches[cell] = Missing
  /\ \E results \in [1 .. Pipelines -> OwnProposals \cup ForeignProposals] :
       LET lapse == \E p \in 1 .. Pipelines : results[p] \notin OwnProposals IN
       /\ OneBatch(results) /\ results[1].request.node.cell = cell
       /\ batches' = [batches EXCEPT ![cell] = Resolved(results)]
       /\ lapses' = IF lapse THEN lapses + 1 ELSE lapses
  /\ UNCHANGED <<fits, journal, requests, parsed>>

-----------------------------------------------------------------------------
FitEvents == UNION {{MetaEvent(n, n, outcome.response, outcome.grade) : outcome \in FitOutcomes}
                      : n \in FitNodes}

MetaInit ==
  /\ fits \in {f \in [FitNodes -> FitEvents] : \A n \in FitNodes : f[n].node = n}
  /\ journal = [n \in MetaNodes |-> Missing]
  /\ requests = [n \in MetaNodes |-> Missing]
  /\ parsed = {}
  /\ batches = [c \in DOMAIN Cells |-> Missing]
  /\ lapses = 0

MetaNext ==
  \/ \E node \in MetaNodes :
       \/ MaterializeDiagnosis(node) \/ MaterializeProposal(node) \/ Answer(node)
       \/ /\ requests[node] # Missing
          /\ \E source \in {n \in Answered : n.kind = node.kind} :
             \E reply \in {journal[source].response, Missing} : Parse(node, source, reply)
  \/ \E cell \in DOMAIN Cells : Resolve(cell)

MetaSpec == MetaInit /\ [][MetaNext]_metaVars

-----------------------------------------------------------------------------
\* The documented information boundary, along the whole chain: an admitted
\* mutation that was parsed under this runtime was what the provider answered to
\* this pipeline's own proposal request, which showed what it had answered to
\* this pipeline's own diagnosis request, which rested on exactly this cell's
\* own FIT calls of this runtime.  Of another runtime's result in the batch
\* nothing is said: to keep it out is left to the caller.
FeedbackIsOwn ==
  \A cell \in DOMAIN Cells : batches[cell] # Missing =>
    \A p \in {q \in 1 .. Pipelines : /\ batches[cell][q].admitted # Missing
                                    /\ batches[cell][q].result.request.runtime = "LIVE"} :
      LET proposal == journal[MetaNode("PROPOSAL", cell, p)]
          diagnosis == journal[MetaNode("DIAGNOSIS", cell, p)]
          result == batches[cell][p].result
      IN  /\ result.request.node = MetaNode("PROPOSAL", cell, p)
          /\ {MetaNode("PROPOSAL", cell, p), MetaNode("DIAGNOSIS", cell, p)} \subseteq Answered
          /\ proposal.response # Missing /\ diagnosis.response # Missing
          /\ result.said = proposal.response.shape.said
          /\ proposal.request.payload =
               [failure |-> "NONE", said |-> diagnosis.response.shape.said]
          /\ diagnosis.request.evidence =
               [t \in 1 .. Tasks |-> fits[MetaNode("PARENT_FIT", cell, t)]]

\* The lowest pipeline keeps a repeated mutation, whatever runtime the results
\* are of: no two admitted ones of a cell are alike, a duplicate cites the
\* admitted one, and every clean pipeline is admitted or has its like admitted.
DuplicatesClosed ==
  \A cell \in DOMAIN Cells : batches[cell] # Missing =>
    LET batch == batches[cell]
        Admitted == {p \in 1 .. Pipelines : batch[p].admitted # Missing}
    IN  \A p \in 1 .. Pipelines :
          Admissible(batch[p].result) =>
            \E q \in Admitted :
              /\ batch[q].result.said = batch[p].result.said /\ q <= p
              /\ \A other \in Admitted :
                   batch[other].result.said = batch[p].result.said => other = q
              /\ q # p => batch[p].duplicateOf = q

\* What this runtime has admitted is the cell's own, and what is admitted is
\* admitted once.
ProposalsStand == FeedbackIsOwn /\ DuplicatesClosed
=============================================================================
