------------------------- MODULE HttpPipelineProofs -------------------------
(***************************************************************************)
(* Proofs about HttpPipeline, for any number of requests, addresses, ids   *)
(* and errors.                                                             *)
(***************************************************************************)
EXTENDS HttpPipeline, PerIPLimiterProofs

LEMMA StatusIsError ==
  \A e \in DOMAIN Status : Status[e] \in Nat /\ Status[e] >= 400
  BY DEF Status

Layers == {"arriving", "limited", "identified", "routing", "converting",
           "leaving", "securing", "answered"}
Bodies == Ids \cup {NoField}
Results == [Request -> [status : Nat, body : Bodies, header : Ids,
                        secured : BOOLEAN]]

\* What is true of a request in each layer.
Inwards(r) ==
  place[r] \in {"arriving", "limited", "identified", "routing", "converting"} =>
    r \notin thrown
Known(r) ==
  place[r] \in {"identified", "routing", "converting"} => ctx[r].inside = rid(r)
Leaving(r) ==
  place[r] = "leaving" /\ r \notin thrown =>
    /\ result[r].header = NoId
    /\ result[r].body \in {rid(r), NoField}
Named(r) ==
  place[r] \in {"securing", "answered"} /\ (r \notin thrown \/ place[r] = "answered") =>
    /\ result[r].header \in {rid(r), NoId}
    /\ result[r].body # NoField => result[r].body = result[r].header
Secured(r) ==
  place[r] = "answered" /\ enable_security_headers =>
    result[r].secured \/ r \in thrown

Layered(r) ==
  /\ ctx[r].outside = NoId
  /\ Inwards(r) /\ Known(r) /\ Leaving(r) /\ Named(r) /\ Secured(r)

HttpInv ==
  /\ HttpTypeOK
  /\ \A r \in Request : Layered(r)

USE DEF Inwards, Known, Leaving, Named, Secured, Layered

\* A step of one request leaves the others alone.
LEMMA OthersStay ==
  ASSUME HttpInv, NEW r \in Request, NEW q \in Request, q # r,
         place'[q] = place[q], ctx'[q] = ctx[q], result'[q] = result[q],
         q \in thrown' <=> q \in thrown
  PROVE  Layered(q)'
  BY DEF HttpInv, rid

LEMMA HttpStarts == HttpInit => HttpInv
<1> SUFFICES ASSUME HttpInit
             PROVE  HttpInv
  OBVIOUS
<1>1. HttpTypeOK
  BY DEF HttpInit, HttpTypeOK, NoResult, Response, Ids
<1>2. \A r \in Request : Layered(r)
  BY DEF HttpInit
<1> QED
  BY <1>1, <1>2 DEF HttpInv

\* It is enough to look at the request that moves.
LEMMA StepOfOne ==
  ASSUME HttpInv, NEW r \in Request, NEW layer,
         layer \in Layers,
         Moves(r, layer), ctx' \in [Request -> [outside : Ids, own : Ids, inside : Ids]],
         result' \in Results,
         thrown' \subseteq Request,
         \A q \in Request \ {r} : /\ ctx'[q] = ctx[q] /\ result'[q] = result[q]
                                  /\ q \in thrown' <=> q \in thrown,
         Layered(r)'
  PROVE  HttpInv'
<1>1. /\ place'[r] = layer /\ \A q \in Request \ {r} : place'[q] = place[q]
      /\ place' \in [Request -> Layers]
  BY DEF HttpInv, HttpTypeOK, Moves, Layers
<1>2. HttpTypeOK'
  BY <1>1 DEF HttpTypeOK, Ids, rid, Layers, Results, Bodies
<1>3. \A q \in Request \ {r} : Layered(q)'
  BY <1>1, OthersStay
<1> QED
  BY <1>2, <1>3 DEF HttpInv

LEMMA ResponseOf ==
  ASSUME HttpInv, NEW r \in Request, NEW status \in Nat, NEW id \in Bodies,
         Responds(r, status, id)
  PROVE  /\ result' \in Results
         /\ result'[r].status = status /\ result'[r].body = id
         /\ result'[r].header = NoId
         /\ \A q \in Request \ {r} : result'[q] = result[q]
<1>1. Response(status, id) =
        [status |-> status, body |-> id, header |-> NoId, secured |-> FALSE]
  BY DEF Response
<1>2. NoId \in Ids
  BY DEF Ids
<1> QED
  BY <1>1, <1>2 DEF Responds, HttpInv, HttpTypeOK, Results, Bodies

LEMMA ErrorResponse ==
  ASSUME HttpInv, NEW r \in Request, NEW e \in DOMAIN Status, Fails(r, e),
         place[r] \in {"routing", "converting"}
  PROVE  /\ Moves(r, "leaving") /\ Status[e] \in Nat
         /\ result' \in Results
         /\ result'[r].body = rid(r) /\ result'[r].header = NoId
         /\ \A q \in Request \ {r} : result'[q] = result[q]
<1>1. Status[e] \in Nat /\ ctx[r].inside = rid(r) /\ rid(r) \in Ids
  BY StatusIsError DEF HttpInv, Ids
<1>2. Responds(r, Status[e], rid(r)) /\ Moves(r, "leaving")
  BY <1>1 DEF Fails
<1> DEFINE status == Status[e]
<1>3. status \in Nat /\ Responds(r, status, rid(r))
  BY <1>1, <1>2
<1> HIDE DEF status
<1>4. /\ result' \in Results
      /\ result'[r].body = rid(r) /\ result'[r].header = NoId
      /\ \A q \in Request \ {r} : result'[q] = result[q]
  BY <1>1, <1>3, ResponseOf DEF Bodies
<1> QED
  BY <1>1, <1>2, <1>4

LEMMA HttpSteps == HttpInv /\ [HttpNext]_httpVars => HttpInv'
<1> SUFFICES ASSUME HttpInv, [HttpNext]_httpVars
             PROVE  HttpInv'
  OBVIOUS
<1> USE DEF vars, slots
<1>0. /\ HttpTypeOK
      /\ place \in [Request -> Layers]
      /\ ctx \in [Request -> [outside : Ids, own : Ids, inside : Ids]]
      /\ result \in Results
      /\ thrown \subseteq Request
      /\ \A r \in Request : Layered(r)
      /\ NoId \in Ids /\ \A r \in Request : rid(r) \in Ids
      /\ NoId \in Bodies /\ NoField \in Bodies
      /\ \A r \in Request : rid(r) \in Bodies /\ NoField # rid(r)
      /\ NoField # NoId
  BY PipelineAssumption DEF HttpInv, HttpTypeOK, Ids, Results, Layers, Bodies
<1>1. ASSUME NEW r \in Request, BodyLimit(r)
      PROVE  HttpInv'
  <2>1. place[r] = "arriving" /\ UNCHANGED <<ctx, thrown>>
    BY <1>1 DEF BodyLimit
  <2>2. CASE Responds(r, Status.PayloadTooLargeError, ctx[r].outside)
             /\ Moves(r, "securing")
    <3>1. Responds(r, 413, NoId) /\ 413 \in Nat
      BY <1>0, <2>2 DEF Status
    <3>2. Layered(r)'
      BY <1>0, <2>1, <2>2, <3>1, ResponseOf DEF Moves, rid
    <3>3. /\ result' \in Results
          /\ \A q \in Request \ {r} : result'[q] = result[q]
      BY <1>0, <3>1, ResponseOf, Zenon
    <3> QED
      BY <1>0, <2>1, <2>2, <3>2, <3>3, StepOfOne DEF Layers
  <2>3. CASE Moves(r, "limited") /\ UNCHANGED result
    <3>1. Layered(r)'
      BY <1>0, <2>1, <2>3 DEF Moves, rid
    <3> QED
      BY <1>0, <2>1, <2>3, <3>1, StepOfOne DEF Layers
  <2> QED
    BY <1>1, <2>2, <2>3 DEF BodyLimit
<1>2. ASSUME NEW r \in Request, SetId(r)
      PROVE  HttpInv'
  <2>1. /\ place[r] = "limited" /\ Moves(r, "identified")
        /\ UNCHANGED <<result, thrown>>
        /\ ctx' \in [Request -> [outside : Ids, own : Ids, inside : Ids]]
        /\ ctx'[r].outside = NoId /\ ctx'[r].inside = rid(r)
        /\ \A q \in Request \ {r} : ctx'[q] = ctx[q]
    BY <1>0, <1>2 DEF SetId
  <2>2. Layered(r)'
    BY <1>0, <2>1 DEF Moves, rid
  <2> QED
    BY <1>0, <2>1, <2>2, StepOfOne DEF Layers
<1>3. ASSUME NEW r \in Request, NEW status \in Nat, Responds(r, status, NoField),
             Moves(r, "leaving"), place[r] \in {"identified", "routing"},
             UNCHANGED <<ctx, thrown>>
      PROVE  HttpInv'
  <2>1. Layered(r)'
    BY <1>0, <1>3, ResponseOf DEF Moves, rid
  <2> QED
    BY <1>0, <1>3, <2>1, ResponseOf, StepOfOne DEF Layers
<1>4. ASSUME NEW r \in Request, NEW e \in DOMAIN Status, Fails(r, e),
             place[r] \in {"routing", "converting"}, UNCHANGED <<ctx, thrown>>
      PROVE  HttpInv'
  <2>1. Layered(r)'
    BY <1>0, <1>4, ErrorResponse DEF Moves, rid
  <2> QED
    BY <1>0, <1>4, <2>1, ErrorResponse, StepOfOne DEF Layers
<1>5. ASSUME NEW r \in Request, RejectForm(r)
      PROVE  HttpInv'
  <2>1. PICK e \in Raised : Fails(r, e)
    BY <1>5 DEF RejectForm
  <2>2. e \in DOMAIN Status
    BY PipelineAssumption
  <2>3. place[r] = "routing" /\ UNCHANGED <<ctx, thrown>>
    BY <1>5 DEF RejectForm
  <2> QED
    BY <1>4, <2>1, <2>2, <2>3 DEF Fails
<1>6. ASSUME NEW r \in Request, Admit(r)
      PROVE  HttpInv'
  <2>1. /\ place[r] = "routing" /\ Moves(r, "converting")
        /\ UNCHANGED <<ctx, result, thrown>>
    BY <1>6 DEF Admit
  <2>2. Layered(r)'
    BY <1>0, <2>1 DEF Moves, rid
  <2> QED
    BY <1>0, <2>1, <2>2, StepOfOne DEF Layers
<1>7. ASSUME NEW r \in Request, Reject(r)
      PROVE  HttpInv'
  <2>1. /\ place[r] = "routing"
        /\ Fails(r, "TooManyRequestsError") /\ UNCHANGED <<ctx, thrown>>
    BY <1>7 DEF Reject
  <2>2. "TooManyRequestsError" \in DOMAIN Status
    BY DEF Status
  <2> QED
    BY <1>4, <2>1, <2>2 DEF Fails
<1>8. ASSUME NEW r \in Request, Convert(r)
      PROVE  HttpInv'
  <2>1. place[r] = "converting" /\ ctx' = ctx
    BY <1>8 DEF Convert
  <2>2. CASE Responds(r, 200, NoField) /\ Moves(r, "leaving") /\ UNCHANGED thrown
    <3>1. Layered(r)'
      BY <1>0, <2>1, <2>2, ResponseOf DEF Moves, rid
    <3> QED
      BY <1>0, <2>1, <2>2, <3>1, ResponseOf, StepOfOne DEF Layers
  <2>3. ASSUME NEW e \in Raised, Fails(r, e), UNCHANGED thrown
        PROVE  HttpInv'
    BY <1>4, <2>1, <2>3, PipelineAssumption DEF Fails
  <2>4. CASE thrown' = thrown \cup {r} /\ Moves(r, "leaving") /\ UNCHANGED result
    <3>1. Layered(r)'
      BY <1>0, <2>1, <2>4 DEF Moves, rid
    <3> QED
      BY <1>0, <2>1, <2>4, <3>1, StepOfOne DEF Layers
  <2> QED
    BY <1>8, <2>2, <2>3, <2>4 DEF Convert
<1>9. ASSUME NEW r \in Request, ResetId(r)
      PROVE  HttpInv'
  <2>1. /\ place[r] = "leaving" /\ Moves(r, "securing")
        /\ UNCHANGED <<thrown>>
        /\ ctx' \in [Request -> [outside : Ids, own : Ids, inside : Ids]]
        /\ ctx'[r].outside = NoId
        /\ \A q \in Request \ {r} : ctx'[q] = ctx[q]
    BY <1>0, <1>9 DEF ResetId
  <2>2. /\ result' \in Results
        /\ \A q \in Request \ {r} : result'[q] = result[q]
        /\ r \notin thrown => /\ result'[r].header = rid(r)
                              /\ result'[r].status = result[r].status
                              /\ result'[r].body = result[r].body
    BY <1>0, <1>9 DEF ResetId, Results
  <2>3. Layered(r)'
    BY <1>0, <2>1, <2>2 DEF Moves, rid
  <2> QED
    BY <1>0, <2>1, <2>2, <2>3, StepOfOne DEF Layers
<1>10. ASSUME NEW r \in Request, Secure(r)
       PROVE  HttpInv'
  <2>1. /\ place[r] = "securing" /\ r \notin thrown /\ Moves(r, "answered")
        /\ UNCHANGED <<ctx, thrown>>
    BY <1>10 DEF Secure
  <2>2. /\ result' \in Results
        /\ \A q \in Request \ {r} : result'[q] = result[q]
        /\ result'[r].secured = enable_security_headers
        /\ result'[r].header = result[r].header
        /\ result'[r].status = result[r].status
        /\ result'[r].body = result[r].body
    BY <1>0, <1>10, PipelineAssumption DEF Secure, Results
  <2>3. Layered(r)'
    BY <1>0, <2>1, <2>2 DEF Moves, rid
  <2> QED
    BY <1>0, <2>1, <2>2, <2>3, StepOfOne DEF Layers
<1>11. ASSUME NEW r \in Request, Fallback(r)
       PROVE  HttpInv'
  <2>1. /\ place[r] = "securing" /\ r \in thrown /\ Moves(r, "answered")
        /\ Responds(r, 500, NoId) /\ UNCHANGED <<ctx, thrown>>
    BY <1>0, <1>11 DEF Fallback
  <2>2. Layered(r)'
    BY <1>0, <2>1, ResponseOf DEF Moves, rid
  <2> QED
    BY <1>0, <2>1, <2>2, ResponseOf, StepOfOne DEF Layers
<1>12. CASE Tick /\ UNCHANGED pipeline
  <2>1. UNCHANGED <<place, ctx, result, thrown>>
    BY <1>12 DEF Tick, pipeline
  <2> QED
    BY <1>0, <2>1 DEF HttpInv, HttpTypeOK, Ids, rid
<1>13. CASE UNCHANGED httpVars
  <2>1. UNCHANGED <<place, ctx, result, thrown>>
    BY <1>13 DEF httpVars, pipeline
  <2> QED
    BY <1>0, <2>1 DEF HttpInv, HttpTypeOK, Ids, rid
<1>14. ASSUME NEW r \in Request, Probe(r) \/ RefuseUnrouted(r)
       PROVE  HttpInv'
  <2>1. PICK status \in {200} \cup Unrouted : Responds(r, status, NoField)
    BY <1>14 DEF Probe, RefuseUnrouted
  <2>2. status \in Nat
    BY PipelineAssumption
  <2> QED
    BY <1>3, <1>14, <2>1, <2>2 DEF Probe, RefuseUnrouted
<1>15. ASSUME NEW r \in Request, Cors(r)
       PROVE  HttpInv'
  <2>1. place[r] = "identified" /\ UNCHANGED <<ctx, thrown>>
    BY <1>15 DEF Cors
  <2>2. ASSUME NEW status \in {200, 400}, Responds(r, status, NoField),
               Moves(r, "leaving")
        PROVE  HttpInv'
    BY <1>3, <2>1, <2>2
  <2>3. CASE Moves(r, "routing") /\ UNCHANGED result
    <3>1. Layered(r)'
      BY <1>0, <2>1, <2>3 DEF Moves, rid
    <3> QED
      BY <1>0, <2>1, <2>3, <3>1, StepOfOne DEF Layers
  <2> QED
    BY <1>15, <2>2, <2>3 DEF Cors
<1> QED
  BY <1>1, <1>2, <1>5, <1>6, <1>7, <1>8, <1>9, <1>10, <1>11, <1>12, <1>13, <1>14,
     <1>15 DEF HttpNext

LEMMA HttpInvariant == HttpSpec => []HttpInv
  BY HttpStarts, HttpSteps, PTL DEF HttpSpec

\* The types of the pipeline.
THEOREM PipelineTyping == HttpSpec => []HttpTypeOK
<1>1. HttpInv => HttpTypeOK
  BY DEF HttpInv
<1> QED
  BY <1>1, HttpInvariant, PTL

\* Ids never mix, however many requests interleave: in a header and in a body
\* that names a request it is the answered one.
THEOREM IdsNeverMix == HttpSpec => []IdsAgree
<1>1. HttpInv => IdsAgree
  BY DEF HttpInv, IdsAgree, Answered
<1> QED
  BY <1>1, HttpInvariant, PTL

\* Every answer but the one to an unhandled exception is secured.
THEOREM AnswersAreSecured == HttpSpec => []SecuredUnlessUnhandled
<1>1. HttpInv => SecuredUnlessUnhandled
  BY DEF HttpInv, SecuredUnlessUnhandled, Answered
<1> QED
  BY <1>1, HttpInvariant, PTL

\* The pipeline uses the limiter as the limiter's specification says ...
LEMMA PipelineUsesLimiter == HttpSpec => Spec
<1>1. HttpInit => Init
  BY DEF HttpInit
<1>2. [HttpNext]_httpVars => [Next]_vars
  <2> SUFFICES ASSUME [HttpNext]_httpVars
               PROVE  [Next]_vars
    OBVIOUS
  <2>1. ASSUME NEW r \in Request, Admit(r) \/ Reject(r) \/ Convert(r)
        PROVE  Next
    BY <2>1 DEF Admit, Reject, Convert, Next
  <2>2. ASSUME NEW r \in Request,
               \/ BodyLimit(r) \/ SetId(r) \/ Cors(r) \/ RefuseUnrouted(r)
               \/ Probe(r) \/ RejectForm(r) \/ ResetId(r) \/ Secure(r) \/ Fallback(r)
        PROVE  UNCHANGED vars
    BY <2>2 DEF BodyLimit, SetId, Cors, RefuseUnrouted, Probe, RejectForm, ResetId, Secure, Fallback
  <2>3. CASE Tick
    BY <2>3 DEF Next
  <2>4. CASE UNCHANGED httpVars
    BY <2>4 DEF httpVars
  <2> QED
    BY <2>1, <2>2, <2>3, <2>4 DEF HttpNext
<1> QED
  BY <1>1, <1>2, PTL DEF HttpSpec, Spec

\* ... so no address ever has more conversions in progress than its share.
THEOREM PipelineIsFair == HttpSpec => []FairShare
  BY PipelineUsesLimiter, LimiterIsFair, PTL
=============================================================================
