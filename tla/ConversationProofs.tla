-------------------------- MODULE ConversationProofs --------------------------
(***************************************************************************)
(* Proofs about the conversation around one ticket, for every value of its *)
(* constants: any gateways, declarations, files, clients and requests.     *)
(***************************************************************************)
EXTENDS ConversationProperties, TLAPS, WellFoundedInduction, FiniteSetTheorems, FunctionTheorems,
        SequenceTheorems

(* Who is there at each point, and what is known of the request.           *)
Askable(req) ==
  /\ req.body.size \in Nat
  /\ BearerToken(req.credential) \in {"none"} \cup DOMAIN TokenClaims

Control ==
  /\ gw \in Gateways
  /\ "status" \in DOMAIN record
  /\ at \in {"declaring", "refused", "ready", "sent", "judged", "streaming", "answered"}
  /\ at \in {"declaring", "refused", "ready"} => from = "none"
  /\ at \in {"sent", "judged", "streaming", "answered"} => Askable(request)
  /\ at # "answered" => heard = "nothing" /\ (mine <=> at = "streaming")
  /\ at = "streaming" => record.status = "redeemed"

(* What was counted, and what an answer says of the ticket.                *)
Counted ==
  IF at = "answered"
    THEN /\ counts = <<>> \/ counts = <<counts[1]>>
         /\ answer.code # "server_error" => counts = <<answer.code>> \/ (~mine /\ counts = <<>>)
         /\ mine /\ record.status # "redeemed" =>
              counts # <<>> /\ (record.status = "completed" <=> counts = <<"completed">>)
    ELSE counts = <<>>
Verdict ==
  at = "answered" =>
    /\ answer.code = "completed" => mine /\ record.status = "completed"
    /\ answer.code = "too_many_uploads" => ~mine

(* What the drain has done, and what the page shows.                       *)
Drained ==
  /\ left \in Nat /\ drained \in Nat \cup {None}
  /\ drained = None => left = 0 \/ (at = "answered" /\ answer.code = "server_error")
Shown == from = "page" /\ heard = "nothing" => page = "sending"

IInv == Control /\ Counted /\ Verdict /\ Drained /\ Shown /\ AnswerHeard

----------------------------------------------------------------------------
(* What the operators on one request and one record return.                *)

LEMMA LeastIsIn ==
  ASSUME NEW S \in SUBSET Nat, S # {}
  PROVE  Min(S) \in S /\ \A y \in S : Min(S) <= y
<1>1. \E x \in S : \A y \in S : ~(<<y, x>> \in OpToRel(<, Nat))
  BY NatLessThanWellFounded, WFMin
<1>2. \E x \in S : \A y \in S : ~(y < x)
  BY <1>1 DEF OpToRel
<1>3. PICK x \in S : \A y \in S : x <= y
  BY <1>2
<1> QED BY <1>3 DEF Min

(* FirstOf answers with one of the codes, the first if that refuses, and   *)
(* with none only if all of them are.                                      *)
LEMMA FirstRefusal ==
  ASSUME NEW codes, DOMAIN codes \subseteq Nat \ {0}
  PROVE  /\ FirstOf(codes) = "none" \/ \E i \in DOMAIN codes : FirstOf(codes) = codes[i]
         /\ FirstOf(codes) = "none" <=> \A i \in DOMAIN codes : codes[i] = "none"
         /\ 1 \in DOMAIN codes /\ codes[1] # "none" => FirstOf(codes) = codes[1]
<1> DEFINE bad == {i \in DOMAIN codes : codes[i] # "none"}
<1>1. FirstOf(codes) = IF bad = {} THEN "none" ELSE codes[Min(bad)]
  BY DEF FirstOf
<1>2. bad # {} => Min(bad) \in bad /\ \A y \in bad : Min(bad) <= y
  <2>1. bad \in SUBSET Nat
    OBVIOUS
  <2> QED BY <2>1, LeastIsIn
<1>3. ASSUME 1 \in DOMAIN codes, codes[1] # "none" PROVE FirstOf(codes) = codes[1]
  <2>1. 1 \in bad
    BY <1>3
  <2>2. Min(bad) \in Nat \ {0} /\ Min(bad) <= 1
    BY <1>2, <2>1
  <2>3. Min(bad) = 1
    BY <2>2
  <2> QED BY <1>1, <2>1, <2>3
<1> QED BY <1>1, <1>2, <1>3

(* Codes that no check of a request and no check of a body gives.          *)
Outcomes == {"completed", "too_many_uploads"}

LEMMA HeaderCodes ==
  ASSUME NEW g, NEW req PROVE HeaderRefusal(g, req) \notin Outcomes
BY DEF HeaderRefusal, MultipartError, Outcomes

LEMMA MediaCodes ==
  ASSUME NEW type, NEW accept PROVE MediaTypeError(type, accept) \notin Outcomes
BY DEF MediaTypeError, Outcomes

(* The refusals of a request by its token and its record, in their order.  *)
SlotRefusals(g, req, rec) ==
  <<IF g.auth THEN AuthRefusal(g, req) ELSE "none",
    IF ~Present(rec) THEN "unknown_ticket" ELSE "none",
    OwnerRefusal(g, req, rec),
    TicketRefusal(g, rec),
    IF TooLong(IsRaw(g, req), req, rec) THEN "too_large" ELSE "none",
    IF IsRaw(g, req) THEN MediaTypeError(req.type, rec.accept) ELSE "none",
    IF ~Registered(rec.destination) THEN "misconfigured" ELSE "none">>

LEMMA SlotCodes ==
  ASSUME NEW g, NEW req, NEW rec
  PROVE  /\ SlotRefusal(g, req, rec) \notin Outcomes
         /\ g.auth /\ AuthRefusal(g, req) # "none" => SlotRefusal(g, req, rec) = AuthRefusal(g, req)
         /\ SlotRefusal(g, req, rec) = "none" =>
              \A i \in 1..7 : SlotRefusals(g, req, rec)[i] = "none"
<1> DEFINE codes == SlotRefusals(g, req, rec)
<1>1. SlotRefusal(g, req, rec) = FirstOf(codes) /\ DOMAIN codes = 1..7
  BY DEF SlotRefusal, SlotRefusals
<1>2. codes[1] = IF g.auth THEN AuthRefusal(g, req) ELSE "none"
  BY DEF SlotRefusals
<1>3. \A i \in DOMAIN codes : codes[i] \notin Outcomes
  <2>1. AuthRefusal(g, req) \notin Outcomes
    BY DEF AuthRefusal, Authenticate, Outcomes
  <2>2. OwnerRefusal(g, req, rec) \notin Outcomes /\ TicketRefusal(g, rec) \notin Outcomes
    BY DEF OwnerRefusal, TicketRefusal, Outcomes
  <2> QED BY <2>1, <2>2, MediaCodes DEF SlotRefusals, Outcomes
<1>4. FirstOf(codes) = "none" \/ \E i \in DOMAIN codes : FirstOf(codes) = codes[i]
  BY <1>1, FirstRefusal
<1>5. FirstOf(codes) = "none" <=> \A i \in DOMAIN codes : codes[i] = "none"
  BY <1>1, FirstRefusal
<1>6. codes[1] # "none" => FirstOf(codes) = codes[1]
  BY <1>1, FirstRefusal
<1> QED BY <1>1, <1>2, <1>3, <1>4, <1>5, <1>6 DEF Outcomes

LEMMA BodyCodes ==
  ASSUME NEW raw, NEW req, NEW rec PROVE BodyError(raw, req, rec).code \notin Outcomes
<1>1. MediaTypeError(req.body.type, rec.accept) \notin Outcomes
  BY MediaCodes
<1> QED BY <1>1 DEF BodyError, Outcomes

LEMMA Responses ==
  /\ \A g, req, known, code : /\ ErrorResponse(g, req, known, code).code = code
                              /\ ErrorResponse(g, req, known, code).id = known
  /\ \A o : SuccessResponse(o).code = "completed"
BY DEF ErrorResponse, SuccessResponse, NoAnswer

LEMMA RecordsHaveStatus ==
  /\ "status" \in DOMAIN AbsentRecord
  /\ \A g \in Gateways : \A d : "status" \in DOMAIN Kept(g.store, IssuedRecord(d))
<1>1. \A d : "status" \in DOMAIN IssuedRecord(d)
  BY DEF IssuedRecord
<1>2. \A f : "status" \in DOMAIN FromFields(f)
  BY DEF FromFields
<1> QED BY <1>1, <1>2, ConversationAssumption DEF AbsentRecord, Kept, Kinds, RowToRecord

(* What is sent is a request.                                              *)
LEMMA Requests ==
  /\ \A f \in Files : Askable(PageForm(f)) /\ Askable(ScriptForm(f))
  /\ \A c \in Clients : \A t : /\ Askable(SendFile(t, c.file, c.credential))
                                /\ Askable(SendFile(t, c.file, NoCredential))
  /\ \A req \in Strays : Askable(req)
<1>1. ASSUME NEW f, NEW type, NEW credential, NEW accepts,
             f.size \in Nat, BearerToken(credential) \in {"none"} \cup DOMAIN TokenClaims
      PROVE  Askable(FormRequest(f, type, credential, accepts))
  BY <1>1 DEF Askable, FormRequest, Body
<1>2. BearerToken(NoCredential) = "none"
  BY DEF BearerToken, NoCredential
<1>3. \A f \in Files : Askable(PageForm(f)) /\ Askable(ScriptForm(f))
  <2> SUFFICES ASSUME NEW f \in Files PROVE Askable(PageForm(f)) /\ Askable(ScriptForm(f))
    OBVIOUS
  <2>1. Askable(PageForm(f))
    BY <1>1, <1>2, ConversationAssumption DEF PageForm
  <2> QED BY <2>1 DEF PageForm, ScriptForm, Askable, FormRequest
<1>4. ASSUME NEW f, NEW t, NEW credential,
             f.size \in Nat, BearerToken(credential) \in {"none"} \cup DOMAIN TokenClaims
      PROVE  Askable(SendFile(t, f, credential))
  <2>1. \A type : Askable(FormRequest(f, type, credential, <<"json">>))
    BY <1>1, <1>4
  <2> QED BY <2>1 DEF SendFile, Askable, FormRequest
<1>5. \A req \in Strays : Askable(req)
  BY ConversationAssumption DEF Askable
<1> QED BY <1>2, <1>3, <1>4, <1>5, ConversationAssumption

----------------------------------------------------------------------------
(* The invariant.                                                          *)

LEMMA IInvInit == Init => IInv
BY RecordsHaveStatus DEF Init, IInv, Control, Counted, Verdict, Drained, Shown, AnswerHeard, None

LEMMA BodyLengthType == Askable(request) => BodyLength \in Nat
BY AdmissionAssumption DEF BodyLength, Askable

(* A refusal is answered with its code, which is counted or not, and       *)
(* nothing of the body has been read.                                      *)
LEMMA Refusing ==
  ASSUME NEW rec, NEW code, Refuse(rec, code), Askable(request)
  PROVE  /\ at' = "answered" /\ answer'.code = code /\ answer'.id = Present(rec)
         /\ counts' \in {counts, Append(counts, code)} /\ UNCHANGED <<heard, stopped>>
         /\ left' \in Nat /\ drained' = 0
BY BodyLengthType, Responses DEF Refuse, Respond, CountRefused

(* So is the request that meets it, wherever that is before the ticket is  *)
(* spent.                                                                  *)
LEMMA RefusingKeeps ==
  ASSUME IInv, NEW rec, NEW code, Refuse(rec, code), code # "completed",
         at \in {"sent", "judged"}, UNCHANGED <<page, mine, record, gw>>, UNCHANGED asked
  PROVE  IInv'
<1> USE DEF IInv, Control, Counted, Verdict, Drained, Shown, AnswerHeard, asked
<1>1. /\ at' = "answered" /\ answer'.code = code
      /\ counts' \in {<<>>, <<code>>} /\ heard' = "nothing" /\ left' \in Nat /\ drained' = 0
  <2>1. counts = <<>> /\ Append(<<>>, code) = <<code>> /\ heard = "nothing" /\ Askable(request)
    OBVIOUS
  <2> QED BY <2>1, Refusing
<1>2. ~mine' /\ Control' /\ Counted'
  BY <1>1
<1>3. 0 <= DrainLimit + MaxMessage
  BY ConversationAssumption
<1>4. Verdict' /\ Drained' /\ Shown' /\ AnswerHeard'
  BY <1>1, <1>2, <1>3 DEF None
<1> QED BY <1>2, <1>4

(* How an upload may end.                                                  *)
LEMMA EndingsAre ==
  ASSUME NEW e \in Endings
  PROVE  /\ e.code \notin Outcomes /\ (Said(e.code) = "completed" <=> e.code = "none")
         /\ \/ e = BodyError(IsRaw(gw, request), request, read)
            \/ e.code = "upstream_rejected"
<1>1. \/ e = BodyError(IsRaw(gw, request), request, read)
      \/ e = [code |-> "upstream_rejected", sure |-> 0]
  BY DEF Endings
<1>2. e.code \notin Outcomes
  BY <1>1, BodyCodes DEF Outcomes
<1> QED BY <1>1, <1>2 DEF Outcomes, Said

(* What the end of an upload leaves behind.                                *)
LEMMA Ending ==
  ASSUME UploadEnds, "status" \in DOMAIN record, counts = <<>>, Askable(request)
  PROVE  /\ at' = "answered" /\ counts' = <<answer'.code>>
         /\ answer'.code # "too_many_uploads"
         /\ answer'.code = "completed" <=> record'.status = "completed"
         /\ "status" \in DOMAIN record'
         /\ left' \in Nat /\ drained' \in {None, 0} /\ (drained' = None => left' = 0)
         /\ UNCHANGED <<mine, page, heard, stopped, gw>> /\ UNCHANGED asked
<1> DEFINE reply(code) ==
             IF code = "none"
               THEN SuccessResponse(KeptOutcome(gw.store, Outcome(IsRaw(gw, request), request)))
               ELSE ErrorResponse(gw, request, TRUE, code)
           ends(code, n, ended) ==
             /\ record' = Finally(code)
             /\ counts' = IF code # "none" /\ CountsRefusal(TRUE, record')
                            THEN CountRefused(CountFinished(counts, Said(code)), code)
                            ELSE CountFinished(counts, Said(code))
             /\ ended => n = BodyLength
             /\ Respond(reply(code), n, ended)
<1>0. PICK e \in Endings : \E n \in e.sure..BodyLength, ended \in BOOLEAN : ends(e.code, n, ended)
  BY DEF UploadEnds
<1>1. PICK n \in e.sure..BodyLength, ended \in BOOLEAN : ends(e.code, n, ended)
  BY <1>0
<1>2. /\ e.code \notin {"completed", "too_many_uploads"}
      /\ Said(e.code) = IF e.code = "none" THEN "completed" ELSE e.code
  BY EndingsAre DEF Outcomes, Said
<1>3. /\ record'.status = IF e.code = "none" THEN "completed" ELSE "failed"
      /\ "status" \in DOMAIN record'
  BY <1>1 DEF Finally
<1>4. counts' = <<Said(e.code)>>
  <2>1. ~CountsRefusal(TRUE, record')
    BY <1>3 DEF CountsRefusal
  <2>2. counts' = Append(<<>>, Said(e.code))
    BY <1>1, <2>1 DEF CountFinished
  <2> QED BY <2>2
<1>5. answer'.code = Said(e.code)
  <2>1. answer' = reply(e.code)
    BY <1>1 DEF Respond
  <2>2. CASE e.code = "none"
    BY <2>1, <2>2, <1>2, Responses
  <2>3. CASE e.code # "none"
    <3>1. ErrorResponse(gw, request, TRUE, e.code).code = e.code
      BY DEF ErrorResponse, NoAnswer
    <3> QED BY <2>1, <2>3, <3>1, <1>2
  <2> QED BY <2>2, <2>3
<1>6. left' \in Nat /\ drained' \in {None, 0} /\ (drained' = None => left' = 0)
  <2>1. n \in Int /\ n <= BodyLength
    BY <1>1, BodyLengthType
  <2> QED BY <1>1, <2>1, BodyLengthType DEF Respond, None
<1> QED
  BY <1>1, <1>2, <1>3, <1>4, <1>5, <1>6 DEF UploadEnds, Respond

(* What the handler leaves behind where one of its calls raises.           *)
Raises == LookupRaises \/ RedeemRaises \/ ForwardRaises \/ FinishRaises

LEMMA Raising ==
  ASSUME IInv, Raises
  PROVE  /\ at \in {"sent", "judged", "streaming"} /\ at' = "answered"
         /\ answer' = ServerError /\ answer'.code = "server_error"
         /\ UNCHANGED <<gw, decl, target, page, read, heard, stopped>> /\ UNCHANGED asked
         /\ left' \in Nat /\ drained' = None
         /\ "status" \in DOMAIN record'
         /\ record' # record => /\ record.status \in {"issued", "redeemed"}
                               /\ \E s \in {"redeemed", "completed", "failed"} :
                                    record' = [record EXCEPT !.status = s]
         /\ Counted'
         /\ mine' => at \in {"judged", "streaming"}
<1> USE DEF IInv, Control, Raised
<1>1. Askable(request) /\ BodyLength \in Nat
  BY BodyLengthType DEF Raises, LookupRaises, RedeemRaises, ForwardRaises, FinishRaises
<1>2. counts = <<>> /\ (mine <=> at = "streaming") /\ (at = "streaming" => record.status = "redeemed")
  BY DEF Counted, Raises, LookupRaises, RedeemRaises, ForwardRaises, FinishRaises
<1>3. ServerError.code = "server_error"
  BY DEF ServerError, NoAnswer
<1>4. CASE LookupRaises
  BY <1>1, <1>2, <1>3, <1>4 DEF LookupRaises, Counted
<1>5. CASE RedeemRaises
  BY <1>1, <1>2, <1>3, <1>5 DEF RedeemRaises, Counted, Redeemable
<1>6. CASE ForwardRaises
  BY <1>1, <1>2, <1>3, <1>6 DEF ForwardRaises, Counted
<1>7. CASE FinishRaises
  <2>1. PICK e \in Endings : /\ \E n \in e.sure..BodyLength : Raised(n)
                             /\ counts' = CountFinished(counts, Said(e.code))
                             /\ record' \in {record, Finally(e.code)}
    BY <1>7 DEF FinishRaises
  <2>2. \A n \in e.sure..BodyLength : n \in Int /\ n <= BodyLength
    BY <1>1
  <2>3. left' \in Nat /\ drained' = None /\ at' = "answered" /\ answer' = ServerError
    BY <1>1, <2>1, <2>2
  <2>4. counts' = <<Said(e.code)>>
    BY <1>2, <2>1 DEF CountFinished
  <2>5. PICK s \in {"completed", "failed"} :
               /\ s = "completed" <=> e.code = "none"
               /\ record' \in {record, [record EXCEPT !.status = s]}
    <3>1. CASE e.code = "none"
      BY <2>1, <3>1 DEF Finally
    <3>2. CASE e.code # "none"
      BY <2>1, <3>2 DEF Finally
    <3> QED BY <3>1, <3>2
  <2>6. /\ "status" \in DOMAIN record'
        /\ record'.status # "redeemed" => (record'.status = "completed" <=> e.code = "none")
    <3>1. CASE record' = record
      BY <1>2, <1>7, <3>1 DEF FinishRaises
    <3>2. CASE record' # record
      <4>1. record' = [record EXCEPT !.status = s]
        BY <2>5, <3>2
      <4>2. record'.status = s /\ "status" \in DOMAIN record'
        BY <4>1
      <4> QED BY <2>5, <4>2
    <3> QED BY <3>1, <3>2
  <2>7. Counted'
    <3>1. PICK c : c = Said(e.code)
      OBVIOUS
    <3>2. counts' = <<c>> /\ counts'[1] = c /\ (c = "completed" <=> e.code = "none")
      BY <2>4, <3>1, EndingsAre
    <3>3. <<c>> = <<"completed">> <=> c = "completed"
      OBVIOUS
    <3> QED BY <1>3, <2>3, <2>6, <3>2, <3>3 DEF Counted
  <2>8. /\ at = "streaming" /\ mine' = mine
        /\ UNCHANGED <<gw, decl, target, page, read, heard, stopped>> /\ UNCHANGED asked
    BY <1>7, <2>1 DEF FinishRaises
  <2>9. record' # record => /\ record.status \in {"issued", "redeemed"}
                            /\ \E t \in {"redeemed", "completed", "failed"} :
                                 record' = [record EXCEPT !.status = t]
    <3>1. record' # record => record' = [record EXCEPT !.status = s]
      BY <2>5
    <3>2. s \in {"redeemed", "completed", "failed"} /\ record.status = "redeemed"
      BY <1>2, <2>8
    <3> QED BY <3>1, <3>2
  <2> QED BY <1>3, <2>3, <2>6, <2>7, <2>8, <2>9
<1> QED BY <1>4, <1>5, <1>6, <1>7 DEF Raises

LEMMA IInvStep == IInv /\ [Next]_vars => IInv'
<1> SUFFICES ASSUME IInv, [Next]_vars PROVE IInv'
  OBVIOUS
<1>16. CASE Raises
  <2>1. Verdict' /\ Drained' /\ Shown' /\ AnswerHeard' /\ Control'
    BY <1>16, Raising DEF IInv, Control, Verdict, Drained, Shown, AnswerHeard, asked, None, Raises,
                          LookupRaises, RedeemRaises, ForwardRaises, FinishRaises
  <2> QED BY <1>16, <2>1, Raising DEF IInv
<1> USE DEF IInv, Control, Counted, Verdict, Drained, Shown, AnswerHeard, ticket, asked, wire
<1>1. CASE Declare
  BY <1>1, RecordsHaveStatus DEF Declare
<1>2. CASE OpenPage
  BY <1>2 DEF OpenPage
<1>3. ASSUME NEW who \in {"client", "page", "stray"}, NEW f, NEW req, MaySend, Send(who, f, req),
             Askable(req), IF who = "page" THEN page' = "sending" ELSE UNCHANGED page
      PROVE  IInv'
  BY <1>3 DEF MaySend, Send
<1>4. CASE ClientSends
  BY <1>4, <1>3, Requests DEF ClientSends
<1>5. CASE PersonSubmits
  BY <1>5, <1>3, Requests DEF PersonSubmits
<1>6. CASE StraySends
  BY <1>6, <1>3, Requests DEF StraySends
<1>7. CASE RefuseArrival
  <2>1. PICK rec, code : Refuse(rec, code) /\ code # "completed"
    BY <1>7, HeaderCodes DEF RefuseArrival, Outcomes
  <2> QED BY <1>7, <2>1, RefusingKeeps DEF RefuseArrival
<1>8. CASE Judge
  <2>1. CASE at' = "judged"
    BY <1>8, <2>1, Refusing DEF Judge
  <2>2. CASE at' # "judged"
    <3>1. PICK rec, code : Refuse(rec, code) /\ code # "completed"
      BY <1>8, <2>2, SlotCodes DEF Judge, Outcomes
    <3> QED BY <1>8, <3>1, RefusingKeeps DEF Judge
  <2> QED BY <2>1, <2>2
<1>9. CASE Redeem
  <2>1. CASE mine'
    BY <1>9, <2>1 DEF Redeem
  <2>2. CASE ~mine'
    <3>1. PICK rec, code : Refuse(rec, code) /\ code # "completed"
      BY <1>9, <2>2 DEF Redeem
    <3> QED BY <1>9, <2>2, <3>1, RefusingKeeps DEF Redeem
  <2> QED BY <2>1, <2>2
<1>10. CASE UploadEnds
  <2>1. /\ at = "streaming" /\ mine /\ counts = <<>> /\ heard = "nothing" /\ Askable(request)
        /\ from = "page" => page = "sending"
    BY <1>10 DEF UploadEnds
  <2>2. /\ at' = "answered" /\ counts' = <<answer'.code>> /\ answer'.code # "too_many_uploads"
        /\ answer'.code = "completed" <=> record'.status = "completed"
        /\ "status" \in DOMAIN record'
        /\ left' \in Nat /\ drained' \in {None, 0} /\ (drained' = None => left' = 0)
        /\ UNCHANGED <<mine, page, heard, stopped, gw>> /\ UNCHANGED asked
    BY <1>10, <2>1, Ending
  <2>3. UNCHANGED from /\ Askable(request)'
    BY <2>1, <2>2
  <2>4. Control' /\ Verdict' /\ Drained' /\ Shown'
    BY <2>1, <2>2, <2>3
  <2>5. Counted'
    <3>1. <<answer'.code>> = <<"completed">> <=> answer'.code = "completed"
      OBVIOUS
    <3> QED BY <2>1, <2>2, <3>1
  <2>6. AnswerHeard'
    <3>1. 0 <= DrainLimit + MaxMessage
      BY ConversationAssumption
    <3> QED BY <2>1, <2>2, <2>3, <3>1 DEF None
  <2> QED BY <2>4, <2>5, <2>6
<1>11. CASE Drain
  BY <1>11, ConversationAssumption DEF Drain, Draining, None
<1>12. CASE ClientGets
  <2>1. /\ at = "answered" /\ at' = "answered" /\ heard' # "nothing" /\ request' = request
        /\ UNCHANGED <<gw, record, from, mine, answer, counts, left, drained, stopped>>
        /\ page' = IF from = "page" THEN PageAfter(heard') ELSE page
    BY <1>12 DEF ClientGets
  <2>2. heard' = "reset" => stopped' \/ drained' > DrainLimit \/ answer'.code = "server_error"
    BY <1>12, <2>1, ConversationAssumption DEF ClientGets, Draining, None
  <2>3. AnswerHeard'
    BY <2>1, <2>2 DEF PageAfter
  <2> QED BY <2>1, <2>3
<1>13. CASE NextRequest
  BY <1>13 DEF NextRequest, None
<1>14. CASE Meanwhile
  BY <1>14, RecordsHaveStatus DEF Meanwhile, Expire, SpentElsewhere, Swept
<1>15. CASE UNCHANGED vars
  BY <1>15 DEF vars
<1> QED
  BY <1>1, <1>2, <1>4, <1>5, <1>6, <1>7, <1>8, <1>9, <1>10, <1>11, <1>12, <1>13, <1>14, <1>15,
     <1>16 DEF Next, Raises

(* No request is counted twice, and none as what it was not answered,      *)
(* unless the handler raised; and a ticket its request recorded as         *)
(* completed or failed was counted as just that.                           *)
THEOREM RequestsAreCountedOnce == Spec => []CountedOnce
<1>1. IInv => CountedOnce
  <2> SUFFICES ASSUME IInv, Answered PROVE Len(counts) <= 1
    BY DEF CountedOnce, IInv, Counted, Answered
  <2>1. counts = <<>> \/ counts = <<counts[1]>>
    BY DEF IInv, Counted, Answered
  <2>2. PICK c : c = counts[1]
    OBVIOUS
  <2>3. Len(<<>>) = 0 /\ Len(<<c>>) = 1
    OBVIOUS
  <2>4. CASE counts = <<>>
    BY <2>3, <2>4
  <2>5. CASE counts = <<counts[1]>>
    <3>1. counts = <<c>>
      BY <2>2, <2>5
    <3> QED BY <2>3, <3>1
  <2> QED BY <2>1, <2>4, <2>5
<1> QED BY IInvInit, IInvStep, <1>1, PTL DEF Spec

(* A client is reset only if the drain read all it may or stopped, or the  *)
(* handler raised; the drain reads no more than its limit and a message;   *)
(* and a page invites its person to try again, or reports success, only of *)
(* an upload that left the ticket alone, or completed.                     *)
THEOREM AnswersAreHeard == Spec => []AnswerHeard
<1>1. IInv => AnswerHeard
  BY DEF IInv
<1> QED BY IInvInit, IInvStep, <1>1, PTL DEF Spec

----------------------------------------------------------------------------
(* What a request without a valid token learns and spends.                 *)

(* A gate at least as strict as the server's own endpoint.                 *)
AsStrict(g) ==
  /\ g.server.scopes \subseteq g.gate.scopes
  /\ g.server.validates =>
       /\ g.gate.resource # NoResource
       /\ CanonicalResource(g.gate.resource) = CanonicalResource(g.server.url)

(* Both adapters make one for a server that names its resource if it       *)
(* checks it; FastMCP's provider checks none.                              *)
LEMMA DefaultGates ==
  ASSUME NEW g, g.server.validates => g.server.url # NoResource,
         \/ g.gate = McpAuthenticator(g.server, Null, Null)
         \/ ~g.server.validates /\ g.gate = FastMcpAuthenticator(g.server, Null, Null)
  PROVE  AsStrict(g)
<1>1. CASE g.gate = McpAuthenticator(g.server, Null, Null)
  BY <1>1 DEF AsStrict, McpAuthenticator, OrUnset
<1>2. CASE ~g.server.validates /\ g.gate = FastMcpAuthenticator(g.server, Null, Null)
  BY <1>2 DEF AsStrict, FastMcpAuthenticator, OrUnset
<1> QED BY <1>1, <1>2

Prover == Authenticate(gw.gate, request.credential).principal
Admitted == AuthRefusal(gw, request) = "none"

SilenceInv ==
  gw.auth =>
    /\ page \in {"none", "failed"} /\ from # "page"
    /\ at = "judged" \/ mine => Admitted
    /\ at = "answered" /\ Prover = Nobody =>
         /\ ~mine /\ ~answer.id
         /\ answer.code \in {HeaderRefusal(gw, request), "too_many_uploads", AuthRefusal(gw, request)}

(* Whoever is admitted has proved who it is, with a token the server's     *)
(* endpoint would take; any other refusal is said without the record.      *)
LEMMA Admissions ==
  /\ Admitted <=> Prover # Nobody
  /\ ~Admitted => Unseen(AuthRefusal(gw, request))
  /\ Admitted /\ Askable(request) /\ AsStrict(gw) =>
       EndpointTakes(TokenClaims[BearerToken(request.credential)])
<1> DEFINE token == BearerToken(request.credential)
           t == TokenClaims[token]
           a == Authenticate(gw.gate, request.credential)
<1>1. /\ a.refusal \in {"none", "internal", "invalid_token", "insufficient_scope"}
      /\ a.refusal # "none" => a.principal = Nobody
  BY DEF Authenticate
<1>2. Admitted <=> a.principal # Nobody
  <2> HIDE DEF a
  <2>1. CASE a.refusal # "none"
    BY <1>1, <2>1 DEF Admitted, AuthRefusal, a
  <2>2. CASE a.refusal = "none" /\ a.principal # Nobody
    BY <2>2 DEF Admitted, AuthRefusal, a
  <2>3. CASE a.refusal = "none" /\ a.principal = Nobody
    BY <2>3 DEF Admitted, AuthRefusal, a
  <2> QED BY <2>1, <2>2, <2>3
<1>3. ~Admitted => Unseen(AuthRefusal(gw, request))
  BY <1>1 DEF Admitted, AuthRefusal, Unseen
<1>4. ASSUME a.principal # Nobody
      PROVE  /\ token # "none" /\ t.verifier \notin {"raises", "refuses"} /\ t.fresh
             /\ gw.gate.resource = NoResource \/ IssuedFor(t, CanonicalResource(gw.gate.resource))
             /\ gw.gate.scopes \ t.scopes = {}
  BY <1>4 DEF Authenticate
<1>5. ASSUME Admitted, Askable(request), AsStrict(gw) PROVE EndpointTakes(t)
  <2>1. t.verifier = "accepts"
    BY <1>2, <1>4, <1>5, AdmissionAssumption DEF Askable
  <2> QED BY <1>2, <1>4, <1>5, <2>1 DEF EndpointTakes, AsStrict
<1> QED BY <1>2, <1>3, <1>5 DEF Prover

LEMMA SilenceInit == Init => SilenceInv
BY DEF Init, SilenceInv

LEMMA SilenceStep == IInv /\ SilenceInv /\ [Next]_vars => SilenceInv'
<1> SUFFICES ASSUME IInv, SilenceInv, [Next]_vars PROVE SilenceInv'
  OBVIOUS
<1> USE DEF IInv, Control, SilenceInv, ticket, asked, wire
<1>0. ASSUME UNCHANGED <<gw, request>>
      PROVE  /\ Admitted' = Admitted /\ Prover' = Prover
             /\ HeaderRefusal(gw, request)' = HeaderRefusal(gw, request)
             /\ AuthRefusal(gw, request)' = AuthRefusal(gw, request)
  BY <1>0 DEF Admitted, Prover
<1>1. CASE Declare
  BY <1>1 DEF Declare
<1>2. CASE OpenPage
  BY <1>2 DEF OpenPage, RenderForm
<1>3. CASE ClientSends \/ StraySends
  BY <1>3 DEF ClientSends, StraySends, MaySend, Send
<1>4. CASE PersonSubmits
  BY <1>4 DEF PersonSubmits, MaySend, Send
<1>5. CASE RefuseArrival
  <2>1. PICK code : /\ Refuse(AbsentRecord, code)
                    /\ code \in {HeaderRefusal(gw, request), "too_many_uploads"}
    BY <1>5 DEF RefuseArrival
  <2>2. answer'.code = code /\ answer'.id = Present(AbsentRecord)
    BY <1>5, <2>1, Refusing DEF RefuseArrival
  <2>3. ~Present(AbsentRecord)
    BY DEF Present, AbsentRecord
  <2> QED BY <1>5, <1>0, <2>1, <2>2, <2>3, Refusing DEF RefuseArrival
<1>6. CASE Judge
  <2> DEFINE rec == LookedUp(request, record)
             code == SlotRefusal(gw, request, rec)
  <2>1. CASE at' = "judged"
    <3>1. code = "none"
      BY <1>6, <2>1, Refusing DEF Judge
    <3>2. gw.auth => Admitted
      BY <3>1, SlotCodes DEF Admitted
    <3> QED BY <1>6, <1>0, <2>1, <3>2 DEF Judge
  <2>2. CASE at' # "judged"
    <3>1. code # "none" /\ Refuse(IF Unseen(code) THEN AbsentRecord ELSE rec, code)
      BY <1>6, <2>2 DEF Judge
    <3>2. answer'.code = code /\ answer'.id = Present(IF Unseen(code) THEN AbsentRecord ELSE rec)
      BY <1>6, <3>1, Refusing DEF Judge
    <3>3. ASSUME gw.auth, Prover = Nobody
          PROVE  code = AuthRefusal(gw, request) /\ ~answer'.id
      <4>1. ~Admitted
        BY <3>3, Admissions
      <4>2. code = AuthRefusal(gw, request) /\ Unseen(code)
        BY <3>3, <4>1, Admissions, SlotCodes DEF Admitted
      <4> QED BY <3>2, <4>2 DEF Present, AbsentRecord
    <3> QED BY <1>6, <1>0, <2>2, <3>2, <3>3 DEF Judge
  <2> QED BY <2>1, <2>2
<1>7. CASE Redeem
  BY <1>7, <1>0, Refusing, Admissions DEF Redeem
<1>8. CASE UploadEnds
  BY <1>8, <1>0, Admissions DEF UploadEnds
<1>14. CASE Raises
  <2>1. gw.auth => Admitted
    BY <1>14 DEF Raises, LookupRaises, RedeemRaises, ForwardRaises, FinishRaises, Admitted
  <2>2. at' = "answered" /\ UNCHANGED <<gw, page, request, from>>
    BY <1>14, Raising
  <2> QED BY <1>0, <2>1, <2>2, Admissions
<1>9. CASE Drain
  BY <1>9, <1>0 DEF Drain, Draining
<1>10. CASE ClientGets
  BY <1>10, <1>0 DEF ClientGets
<1>11. CASE NextRequest
  BY <1>11 DEF NextRequest
<1>12. CASE Meanwhile
  BY <1>12, <1>0 DEF Meanwhile
<1>13. CASE UNCHANGED vars
  BY <1>13, <1>0 DEF vars
<1> QED
  BY <1>1, <1>2, <1>3, <1>4, <1>5, <1>6, <1>7, <1>8, <1>9, <1>10, <1>11, <1>12, <1>13,
     <1>14 DEF Next, Raises

(* A request without a valid token gets an answer that does not depend on  *)
(* the record, and spends nothing; and where the gates are as strict as    *)
(* the servers' endpoints, no ticket is spent with a token those refuse.   *)
THEOREM StrangersLearnNothing ==
  ASSUME \A g \in Gateways : g.auth => AsStrict(g)
  PROVE  Spec => []NothingLearned
<1>1. IInv /\ SilenceInv => NothingLearned
  <2> SUFFICES ASSUME IInv, SilenceInv, gw.auth PROVE NothingLearned
    BY DEF NothingLearned
  <2>1. mine => EndpointTakes(TokenClaims[BearerToken(request.credential)])
    BY Admissions DEF IInv, Control, SilenceInv
  <2>2. page \notin {"form", "sending"}
    BY DEF SilenceInv
  <2>3. ASSUME Answered, Prover = Nobody, NEW rec
        PROVE  /\ ~mine /\ ~answer.id
               /\ answer.code \in {HeaderRefusal(gw, request), "too_many_uploads",
                                   SlotRefusal(gw, request, rec)}
    BY <2>3, Admissions, SlotCodes DEF SilenceInv, Answered, Admitted
  <2> QED BY <2>1, <2>2, <2>3 DEF NothingLearned, Prover
<1> QED BY IInvInit, IInvStep, SilenceInit, SilenceStep, <1>1, PTL DEF Spec

----------------------------------------------------------------------------
(* What was declared, through the record, to what is accepted and promised.*)

Terms(rec) == <<rec.destination, rec.owner, rec.max, rec.accept, rec.size, rec.digest>>
Ours == IssuedRecord(Declared(decl))

(* From the description on, the declaration was one to be issued, and the  *)
(* record, while there is one, says what was declared.                     *)
Described ==
  at \notin {"declaring", "refused"} =>
    /\ IssueError(gw, Declared(decl)) = "none"
    /\ Declared(decl).raw => gw.raw
    /\ target = <<Target(gw, Ours, Declared(decl))>>
    /\ Present(record) => Terms(record) = Terms(Ours)

(* What a client sends is what was described to it, what a page sends is   *)
(* its form, and only where no token is asked for.                         *)
Asking ==
  /\ from = "client" =>
       \E c \in Clients : /\ file = c.file
                          /\ request = SendFile(target[1], file, IF target[1].bearer THEN c.credential
                                                                                     ELSE NoCredential)
  /\ from = "page" => ~gw.auth /\ file \in Files /\ request \in {PageForm(file), ScriptForm(file)}
  /\ at \in {"sent", "judged", "streaming"} =>
       /\ IsMediaType(request.type) /\ IsMediaType(request.body.type)
       /\ request.body.content # "none"

(* A request is let through against a record that says the same.           *)
Passed ==
  /\ at \in {"judged", "streaming"} =>
       /\ HeaderRefusal(gw, request) = "none" /\ SlotRefusal(gw, request, read) = "none"
       /\ Terms(read) = Terms(Ours)
  /\ at = "streaming" => Present(record)

PromiseInv == decl \in Declarations /\ Described /\ Asking /\ Passed /\ PromisesKept

(* What a store gives back of a record as issued, and of an outcome, is    *)
(* what it was given.                                                      *)
LEMMA OrBack ==
  /\ \A value, unset : OrUnset(OrNull(value, unset), unset) = value
  /\ \A value, unset : OrUnset(<<value>>, unset) = value
BY DEF OrUnset, OrNull, Null

LEMMA ConstraintsComeBack ==
  ASSUME NEW c
  PROVE  LoadConstraints(DumpConstraints(c)) =
           [max |-> c.max, accept |-> c.accept, size |-> c.size, digest |-> c.digest]
<1> DEFINE data == DumpConstraints(c)
<1>1. /\ DOMAIN data = {"max_size", "accept", "expected_size", "expected_sha256"}
      /\ data["max_size"] = OrNull(c.max, None) /\ data["accept"] = <<c.accept>>
      /\ data["expected_size"] = OrNull(c.size, None)
      /\ data["expected_sha256"] = OrNull(c.digest, "none")
  BY DEF DumpConstraints
<1> HIDE DEF data
<1>2. /\ Get(data, "max_size") = OrNull(c.max, None) /\ Get(data, "accept") = <<c.accept>>
      /\ Get(data, "expected_size") = OrNull(c.size, None)
      /\ Get(data, "expected_sha256") = OrNull(c.digest, "none")
  BY <1>1 DEF Get
<1>3. LoadConstraints(data) = [max |-> c.max, accept |-> c.accept, size |-> c.size, digest |-> c.digest]
  BY <1>2, OrBack DEF LoadConstraints
<1> QED BY <1>3 DEF data

(* Either way of keeping a record has its fields, where they are set.      *)
LEMMA FieldsComeBack ==
  ASSUME NEW rec, NEW f, DOMAIN f \subseteq DOMAIN Row(rec),
         \A k \in DOMAIN Row(rec) : Row(rec)[k] # Null => k \in DOMAIN f,
         \A k \in DOMAIN f : f[k] = Row(rec)[k]
  PROVE  FromFields(f) = [status |-> rec.status, owner |-> rec.owner, expired |-> rec.expired,
                          destination |-> rec.destination, max |-> rec.max, accept |-> rec.accept,
                          size |-> rec.size, digest |-> rec.digest]
<1> DEFINE row == Row(rec)
           c == DumpConstraints(rec)
<1>1. /\ DOMAIN row = {"destination", "constraints", "status", "expires_at", "owner"}
      /\ row["destination"] = <<rec.destination>> /\ row["constraints"] = <<c>>
      /\ row["status"] = <<rec.status>> /\ row["expires_at"] = <<rec.expired>>
      /\ row["owner"] = OrNull(rec.owner, Nobody)
  BY DEF Row
<1> HIDE DEF row, c
<1>2. \A value : <<value>> # Null
  BY DEF Null
<1>3. /\ f["destination"] = <<rec.destination>> /\ f["constraints"] = <<c>>
      /\ f["status"] = <<rec.status>> /\ f["expires_at"] = <<rec.expired>>
  BY <1>1, <1>2 DEF row
<1>4. OrUnset(Get(f, "owner"), Nobody) = rec.owner
  <2>1. CASE "owner" \in DOMAIN f
    <3>1. Get(f, "owner") = OrNull(rec.owner, Nobody)
      BY <1>1, <2>1 DEF Get, row
    <3> QED BY <3>1, OrBack
  <2>2. CASE "owner" \notin DOMAIN f
    <3>1. OrNull(rec.owner, Nobody) = Null
      BY <1>1, <2>2 DEF row
    <3>2. rec.owner = Nobody
      BY <3>1, <1>2 DEF OrNull
    <3> QED BY <2>2, <3>2 DEF Get, OrUnset
  <2> QED BY <2>1, <2>2
<1>5. LoadConstraints(f["constraints"][1]) =
        [max |-> rec.max, accept |-> rec.accept, size |-> rec.size, digest |-> rec.digest]
  BY <1>3, ConstraintsComeBack DEF c
<1> QED BY <1>3, <1>4, <1>5 DEF FromFields

(* What every kind of store gives back of an issued record is the record.  *)
THEOREM RecordsComeBack ==
  ASSUME NEW kind \in Kinds, NEW d
  PROVE  Kept(kind, IssuedRecord(d)) = IssuedRecord(d)
<1> DEFINE rec == IssuedRecord(d)
<1>0. rec = [status |-> rec.status, owner |-> rec.owner, expired |-> rec.expired,
             destination |-> rec.destination, max |-> rec.max, accept |-> rec.accept,
             size |-> rec.size, digest |-> rec.digest]
  BY DEF IssuedRecord
<1> HIDE DEF rec
<1>1. FromFields(Row(rec)) = rec
  BY <1>0, FieldsComeBack
<1>2. FromFields(ToFields(rec)) = rec
  <2> DEFINE f == ToFields(rec)
  <2>1. /\ DOMAIN f = {k \in DOMAIN Row(rec) : Row(rec)[k] # Null}
        /\ \A k \in DOMAIN f : f[k] = Row(rec)[k]
    BY DEF ToFields
  <2> HIDE DEF f
  <2>2. FromFields(f) = rec
    BY <1>0, <2>1, FieldsComeBack
  <2> QED BY <2>2 DEF f
<1> QED BY <1>1, <1>2 DEF Kept, Kinds, RowToRecord, rec

(* And of an upload's outcome, the outcome.                                *)
LEMMA OutcomesComeBack ==
  ASSUME NEW kind, NEW raw, NEW req
  PROVE  KeptOutcome(kind, Outcome(raw, req)) = Outcome(raw, req)
<1> DEFINE o == Outcome(raw, req)
           data == DumpOutcome(o)
<1>0. o = [name |-> o.name, type |-> o.type, size |-> o.size, digest |-> o.digest, error |-> o.error]
  BY DEF Outcome
<1> HIDE DEF o
<1>1. /\ DOMAIN data = {"filename", "media_type", "size", "sha256", "error"}
      /\ data["filename"] = OrNull(o.name, <<>>) /\ data["media_type"] = OrNull(o.type, NoType)
      /\ data["size"] = <<o.size>> /\ data["sha256"] = OrNull(o.digest, "none")
      /\ data["error"] = OrNull(o.error, "none")
  BY DEF DumpOutcome
<1> HIDE DEF data
<1>2. /\ Get(data, "filename") = OrNull(o.name, <<>>) /\ Get(data, "media_type") = OrNull(o.type, NoType)
      /\ Get(data, "size") = <<o.size>> /\ Get(data, "sha256") = OrNull(o.digest, "none")
      /\ Get(data, "error") = OrNull(o.error, "none")
  BY <1>1 DEF Get
<1>3. LoadOutcome(data) = o
  BY <1>0, <1>2, OrBack DEF LoadOutcome
<1> QED BY <1>3 DEF KeptOutcome, data, o

----------------------------------------------------------------------------
(* A type a narrowed list allows, both lists it was made of allow.         *)
LEMMA Narrowed ==
  ASSUME NEW allowed, NEW requested, NEW t, IsMediaType(t), \A p \in requested : IsMediaType(p),
         MayNarrow(allowed, requested)
  PROVE  Allows(Narrow(allowed, requested), t) <=> Allows(allowed, t) /\ Allows(requested, t)
<1>1. ASSUME Allows(requested, t), requested # {}, allowed # {} PROVE Allows(allowed, t)
  <2>0. t # NoType /\ t = [top |-> t.top, sub |-> t.sub, rest |-> t.rest]
    BY <1>1 DEF Allows, IsMediaType
  <2>1. PICK p \in requested : /\ p.rest = "none"
                               /\ \/ p = AnyType
                                  \/ p = ParseContentType(t)
                                  \/ p.sub = "*" /\ p.top = t.top
    BY <1>1 DEF Allows
  <2>2. Inside(allowed, p) /\ IsMediaType(p)
    BY <1>1 DEF MayNarrow
  <2>3. ParseContentType(p) = p
    BY <2>1, <2>2 DEF ParseContentType, IsMediaType
  <2>4. CASE p.sub = "*"
    BY <2>0, <2>1, <2>2, <2>4 DEF Inside, Allows, AnyType, MediaType
  <2>5. CASE p.sub # "*"
    <3>1. p = ParseContentType(t) /\ p.top = t.top
      BY <2>0, <2>1, <2>5 DEF AnyType, MediaType, ParseContentType
    <3>2. PICK q \in allowed : q.rest = "none" /\ (q = AnyType \/ q = p \/ (q.sub = "*" /\ q.top = p.top))
      BY <1>1, <2>2, <2>3, <2>5 DEF Inside, Allows
    <3> QED BY <2>0, <3>1, <3>2 DEF Allows
  <2> QED BY <2>4, <2>5
<1>2. CASE requested = {}
  BY <1>2 DEF Narrow, Allows
<1>3. CASE requested # {}
  BY <1>1, <1>3 DEF Narrow, Allows
<1> QED BY <1>2, <1>3

(* What a declaration that is issued says.                                 *)
LEMMA Issuable ==
  ASSUME NEW g, NEW d, IsDeclaration(d)
  PROVE  /\ DeclarationError(g, d) = "none" => IssueError(g, Declared(d)) = "none"
         /\ \A t \in Declared(d).accept : IsMediaType(t)
         /\ Declared(d).max \in Int /\ Declared(d).size \in Int /\ Declared(d).raw \in BOOLEAN
         /\ Declared(d).mime = d.mime /\ IsMediaType(d.mime)
         /\ Declared(d).owner = d.owner
<1>1. IsMediaType(ParseContentType(d.mime))
  BY DEF ParseContentType, IsMediaType, IsDeclaration
<1>2. /\ \A t \in Declared(d).accept : IsMediaType(t)
      /\ Declared(d).max \in Int /\ Declared(d).size \in Int /\ Declared(d).raw \in BOOLEAN
      /\ Declared(d).mime = d.mime /\ IsMediaType(d.mime) /\ Declared(d).owner = d.owner
  <2>0. /\ IsMediaType(d.mime) /\ d.max \in Int /\ d.size \in Int /\ d.raw \in BOOLEAN
        /\ \A t \in d.accept : IsMediaType(t)
    BY DEF IsDeclaration
  <2>1. CASE d.by = "authorize"
    <3> DEFINE a == Authorized(d)
    <3>1. /\ a.max = None /\ a.size = d.size /\ a.raw \in BOOLEAN /\ a.mime = d.mime /\ a.owner = d.owner
          /\ a.accept = IF d.mime = NoType THEN {} ELSE {ParseContentType(d.mime)}
      BY DEF Authorized, IsDeclaration
    <3>2. Declared(d) = a
      BY <2>1 DEF Declared
    <3> HIDE DEF a
    <3> QED BY <1>1, <2>0, <3>1, <3>2 DEF None
  <2>2. CASE d.by # "authorize"
    <3> DEFINE a == Asked(d)
    <3>1. /\ a.max = d.max /\ a.size = d.size /\ a.raw = d.raw /\ a.mime = d.mime /\ a.owner = d.owner
          /\ a.accept \in {{ParseContentType(d.mime)}, d.accept}
      BY DEF Asked, IsDeclaration
    <3>2. Declared(d) = a
      BY <2>2 DEF Declared
    <3> HIDE DEF a
    <3> QED BY <1>1, <2>0, <3>1, <3>2
  <2> QED BY <2>1, <2>2
<1>3. ASSUME DeclarationError(g, d) = "none", d.by = "authorize" PROVE IssueError(g, Declared(d)) = "none"
  <2> DEFINE codes == <<CheckError(d, Registry[Chosen(d)]),
                        IF d.owner = Nobody /\ ~g.ticketInUrl THEN "ownerRequired" ELSE "none",
                        IssueError(g, Authorized(d))>>
  <2>1. FirstOf(codes) = "none" /\ DOMAIN codes = 1..3 /\ codes[3] = IssueError(g, Authorized(d))
    BY <1>3 DEF DeclarationError, AuthorizeError, ChoiceError
  <2> HIDE DEF codes
  <2>2. codes[3] = "none"
    BY <2>1, FirstRefusal
  <2> QED BY <1>3, <2>1, <2>2 DEF Declared
<1>4. ASSUME DeclarationError(g, d) = "none", d.by # "authorize" PROVE IssueError(g, Declared(d)) = "none"
  BY <1>4 DEF DeclarationError, AskError, Declared
<1> QED BY <1>2, <1>3, <1>4

LEMMA Issued ==
  ASSUME NEW g, NEW d, IssueError(g, d) = "none"
  PROVE  LET dest == Registry[d.destination]
             limit == Least(dest.max, d.max)
         IN /\ Registered(d.destination)
            /\ d.max = None \/ ~(d.max < 0)
            /\ d.size = None \/ ~(d.size < 0 \/ (limit # None /\ d.size > limit))
            /\ MayNarrow(dest.accept, d.accept)
            /\ g.ticketInUrl \/ d.owner # Nobody
<1> DEFINE dest == Registry[d.destination]
           limit == Least(dest.max, d.max)
           codes == <<IF d.max # None /\ d.max < 0 THEN "max_size" ELSE "none",
               IF ~DigestUsable(d.digest) THEN "digest" ELSE "none",
               IF d.size # None /\ (d.size < 0 \/ (limit # None /\ d.size > limit))
                 THEN "expected_size" ELSE "none",
               IF ~MayNarrow(dest.accept, d.accept) THEN "accept" ELSE "none",
               IF d.ttl \in {"not positive", "past retention"} THEN "ttl" ELSE "none",
               IF ~g.ticketInUrl /\ d.owner = Nobody THEN "owner" ELSE "none">>
<1>1. Registered(d.destination) /\ FirstOf(codes) = "none"
  BY DEF IssueError
<1>2. /\ DOMAIN codes = 1..6
      /\ codes[1] = IF d.max # None /\ d.max < 0 THEN "max_size" ELSE "none"
      /\ codes[3] = IF d.size # None /\ (d.size < 0 \/ (limit # None /\ d.size > limit))
                      THEN "expected_size" ELSE "none"
      /\ codes[4] = IF ~MayNarrow(dest.accept, d.accept) THEN "accept" ELSE "none"
      /\ codes[6] = IF ~g.ticketInUrl /\ d.owner = Nobody THEN "owner" ELSE "none"
  OBVIOUS
<1> HIDE DEF codes
<1>3. \A i \in 1..6 : codes[i] = "none"
  BY <1>1, <1>2, FirstRefusal
<1>4. codes[1] = "none" /\ codes[3] = "none" /\ codes[4] = "none" /\ codes[6] = "none"
  BY <1>3
<1> QED BY <1>1, <1>2, <1>4

(* The record's limits are the destination's and the declaration's.        *)
LEMMA Limits ==
  ASSUME NEW g, NEW d, IssueError(g, d) = "none", d.max \in Int, d.size \in Int, NEW n \in Nat
  PROVE  LET rec == IssuedRecord(d) IN
         /\ rec.size \in {None, n} /\ Within(rec.max, n) <=>
              d.size \in {None, n} /\ Within(d.max, n) /\ Within(Registry[d.destination].max, n)
         /\ rec.max \in Int /\ rec.size \in Int
<1> DEFINE most == Registry[d.destination].max
           rec == IssuedRecord(d)
<1>1. /\ Registered(d.destination)
      /\ d.max = None \/ ~(d.max < 0)
      /\ d.size = None \/ ~(d.size < 0 \/ (Least(most, d.max) # None /\ d.size > Least(most, d.max)))
  BY Issued
<1>2. most \in Int
  BY <1>1, AdmissionAssumption DEF Registered
<1>3. rec.size = d.size /\ rec.max = IF d.size # None THEN d.size ELSE Least(most, d.max)
  BY DEF IssuedRecord
<1> HIDE DEF most, rec
<1>4. rec.size \in {None, n} /\ Within(rec.max, n) <=> d.size \in {None, n} /\ Within(d.max, n) /\ Within(most, n)
  BY <1>1, <1>2, <1>3 DEF Within, Least, None
<1>5. rec.max \in Int /\ rec.size \in Int
  BY <1>2, <1>3 DEF Least
<1> QED BY <1>4, <1>5 DEF most, rec

----------------------------------------------------------------------------
(* A request that carries a file of some type, in a form or raw.           *)

Carries(req, f, raw, goes) ==
  /\ req.named /\ req.body.given = "named" /\ req.body.size = f.size /\ req.body.content = f.content
  /\ IsMediaType(goes) /\ goes # NoType /\ IsMediaType(req.type) /\ IsMediaType(req.body.type)
  /\ IF raw THEN req.type = goes /\ req.length = None
            ELSE /\ req.type = FormData /\ req.boundary = "given" /\ req.body.type = goes
                 /\ req.length = f.size + Envelope

LEMMA KnownTypes ==
  /\ IsMediaType(NoType) /\ IsMediaType(OctetStream) /\ IsMediaType(FormData)
  /\ OctetStream # NoType
  /\ ParseContentType(FormData) = FormData
  /\ \A t : IsMediaType(t) => ParseContentType(t).top = t.top
  /\ FormData.top = "multipart"
<1>1. \A top, sub : IsMediaType(MediaType(top, sub))
  BY DEF MediaType, IsMediaType
<1>2. IsMediaType(NoType) /\ IsMediaType(OctetStream) /\ IsMediaType(FormData)
  BY <1>1 DEF NoType, OctetStream, FormData
<1>3. OctetStream.top # NoType.top /\ FormData.top = "multipart"
  BY DEF NoType, OctetStream, FormData, MediaType
<1>4. \A t : IsMediaType(t) => ParseContentType(t).top = t.top
  BY DEF IsMediaType, ParseContentType
<1>5. ParseContentType(FormData) = FormData
  BY DEF ParseContentType, FormData, MediaType
<1> QED BY <1>2, <1>3, <1>4, <1>5

LEMMA Chooses ==
  ASSUME NEW a, NEW b, IsMediaType(a), IsMediaType(b)
  PROVE  IsMediaType(OrType(a, b)) /\ (a # NoType \/ b # NoType => OrType(a, b) # NoType)
BY DEF OrType

LEMMA Forms ==
  ASSUME NEW f, NEW goes, IsMediaType(goes), goes # NoType, NEW credential, NEW accepts
  PROVE  Carries(FormRequest(f, goes, credential, accepts), f, FALSE, goes)
BY KnownTypes DEF Carries, FormRequest, Body

LEMMA PageSends ==
  ASSUME NEW f, IsMediaType(f.type), NEW req \in {PageForm(f), ScriptForm(f)}
  PROVE  Carries(req, f, FALSE, OrType(f.type, OctetStream)) /\ req.credential = NoCredential
<1> DEFINE goes == OrType(f.type, OctetStream)
<1>1. IsMediaType(goes) /\ goes # NoType
  BY KnownTypes, Chooses
<1> HIDE DEF goes
<1>2. Carries(FormRequest(f, goes, NoCredential, <<"html", "any">>), f, FALSE, goes)
  BY <1>1, Forms
<1>3. Carries(PageForm(f), f, FALSE, goes) /\ PageForm(f).credential = NoCredential
  BY <1>2 DEF PageForm, FormRequest, goes
<1>4. Carries(ScriptForm(f), f, FALSE, goes) /\ ScriptForm(f).credential = NoCredential
  BY <1>3 DEF ScriptForm, PageForm, FormRequest, Carries
<1> QED BY <1>3, <1>4 DEF goes

LEMMA SingleTypes ==
  ASSUME NEW accept, \A p \in accept : IsMediaType(p) PROVE IsMediaType(SingleType(accept))
<1>1. CASE \E p \in accept : accept = {p} /\ p.top # "*" /\ p.sub # "*"
  <2>1. PICK p \in accept : accept = {p}
    BY <1>1
  <2>2. (CHOOSE q \in accept : TRUE) \in accept
    BY <2>1
  <2> QED BY <1>1, <2>2 DEF SingleType
<1>2. CASE ~\E p \in accept : accept = {p} /\ p.top # "*" /\ p.sub # "*"
  BY <1>2, KnownTypes DEF SingleType
<1> QED BY <1>1, <1>2

LEMMA ClientSendsIt ==
  ASSUME NEW g, NEW rec, NEW d, NEW f, NEW credential,
         IsMediaType(f.type), IsMediaType(d.mime), \A p \in rec.accept : IsMediaType(p),
         d.raw \in BOOLEAN, NEW t, t = Target(g, rec, d), NEW req, req = SendFile(t, f, credential)
  PROVE  /\ Carries(req, f, d.raw, OrType(t.header, OrType(f.type, OrType(d.mime, OctetStream))))
         /\ req.credential = credential /\ t.bearer = g.auth
<1> DEFINE type == OrType(f.type, OrType(d.mime, OctetStream))
           goes == OrType(t.header, type)
           form == FormRequest(f, OrType(OrType(f.type, d.mime), OctetStream), credential, <<"json">>)
<1>1. /\ t.method = IF d.raw THEN "PUT" ELSE "POST"
      /\ t.header = IF d.raw THEN DescribeType(rec, d.mime) ELSE NoType
      /\ t.bearer = g.auth /\ t.mime = d.mime
  BY DEF Target, Describe
<1>2. IsMediaType(DescribeType(rec, d.mime))
  BY SingleTypes DEF DescribeType
<1>3. OrType(OrType(f.type, d.mime), OctetStream) = type
  BY DEF OrType
<1>4. IsMediaType(type) /\ type # NoType
  BY KnownTypes, Chooses
<1>5. IsMediaType(goes) /\ goes # NoType
  BY <1>1, <1>2, <1>4, KnownTypes, Chooses
<1>6. Carries(form, f, FALSE, type) /\ form.credential = credential
  BY <1>3, <1>4, Forms DEF FormRequest
<1>7. CASE ~d.raw
  <2>1. req = form /\ goes = type
    BY <1>1, <1>7 DEF SendFile, OrType
  <2> QED BY <1>1, <1>6, <1>7, <2>1
<1>8. CASE d.raw
  <2>1. req = [form EXCEPT !.method = "PUT", !.length = None, !.boundary = "none",
                 !.type = OrType(t.header, type),
                 !.disposition = [NoDisposition EXCEPT !.extended = f.name, !.charset = "clean"]]
    BY <1>1, <1>3, <1>8 DEF SendFile
  <2>2. /\ req.named = form.named /\ req.body = form.body /\ req.credential = form.credential
        /\ req.type = goes /\ req.length = None
    BY <2>1 DEF FormRequest
  <2> QED BY <1>1, <1>5, <1>6, <1>8, <2>2 DEF Carries
<1> QED BY <1>7, <1>8

(* Its headers are accepted.                                               *)
LEMMA HeadersPass ==
  ASSUME NEW g, NEW req, NEW f, NEW raw \in BOOLEAN, NEW goes, Carries(req, f, raw, goes),
         raw => /\ g.raw
                /\ ParseContentType(goes) # UrlEncoded /\ goes.top # "multipart"
  PROVE  HeaderRefusal(g, req) = "none" /\ (IsRaw(g, req) <=> raw)
<1>1. CASE raw
  <2>1. ParseContentType(req.type) # FormData
    BY <1>1, KnownTypes DEF Carries
  <2> QED BY <1>1, <2>1 DEF HeaderRefusal, IsRaw, MultipartError, RawBodyAllowed, Carries
<1>2. CASE ~raw
  BY <1>2, KnownTypes DEF HeaderRefusal, IsRaw, MultipartError, Carries
<1> QED BY <1>1, <1>2

LEMMA TypePasses ==
  ASSUME NEW t, NEW accept
  PROVE  /\ MediaTypeError(t, accept) = "none" => Allows(accept, IF t = NoType THEN OctetStream ELSE t)
         /\ t # NoType /\ SplitMediaType(t) /\ Allows(accept, t) => MediaTypeError(t, accept) = "none"
BY DEF MediaTypeError

(* So is its body, by a record whose limits the file keeps; and a body is  *)
(* accepted only inside them.                                              *)
LEMMA BodyPasses ==
  ASSUME NEW raw, NEW req, NEW rec, req.body.size \in Nat, rec.max \in Int, rec.size \in Int
  PROVE  /\ BodyError(raw, req, rec).code = "none" =>
              /\ Within(rec.max, req.body.size) /\ rec.size \in {None, req.body.size}
              /\ rec.digest \in {"none", req.body.content}
              /\ raw \/ MediaTypeError(req.body.type, rec.accept) = "none"
         /\ /\ Within(rec.max, req.body.size) /\ rec.size \in {None, req.body.size}
            /\ rec.digest \in {"none", req.body.content}
            /\ req.body.given = "named"
            /\ raw \/ MediaTypeError(req.body.type, rec.accept) = "none"
            => BodyError(raw, req, rec).code = "none"
<1> DEFINE part == IF raw THEN "none"
              ELSE IF req.body.given \in {"no part", "empty"} THEN "missing_file"
              ELSE MediaTypeError(req.body.type, rec.accept)
           n == req.body.size
<1>1. BodyError(raw, req, rec).code =
        IF part # "none" THEN part
        ELSE IF rec.size # None /\ n > rec.size THEN "size_mismatch"
        ELSE IF Limited(rec) /\ n > rec.max THEN "too_large"
        ELSE IF rec.size # None /\ n # rec.size THEN "size_mismatch"
        ELSE IF rec.digest # "none" /\ req.body.content # rec.digest THEN "digest_mismatch"
        ELSE "none"
  BY DEF BodyError
<1>2. (part = "none") <=> (raw \/ (req.body.given \notin {"no part", "empty"}
                                     /\ MediaTypeError(req.body.type, rec.accept) = "none"))
  OBVIOUS
<1> HIDE DEF part
<1>3. Within(rec.max, n) <=> ~(Limited(rec) /\ n > rec.max)
  BY DEF Within, Limited, None
<1>4. rec.size \in {None, n} <=> ~(rec.size # None /\ n > rec.size) /\ ~(rec.size # None /\ n # rec.size)
  OBVIOUS
<1>5. (BodyError(raw, req, rec).code = "none") <=>
        /\ part = "none" /\ Within(rec.max, n) /\ rec.size \in {None, n}
        /\ rec.digest \in {"none", req.body.content}
  BY <1>1, <1>3, <1>4, Zenon
<1>6. req.body.given = "named" => req.body.given \notin {"no part", "empty"}
  OBVIOUS
<1> QED BY <1>2, <1>5, <1>6

(* And its ticket, unless that is spent or expired.                        *)
LEMMA TicketPasses ==
  ASSUME NEW g, NEW req, NEW rec, Present(rec), Registered(rec.destination),
         g.auth => AuthRefusal(g, req) = "none",
         OwnerRefusal(g, req, rec) = "none",
         ~TooLong(IsRaw(g, req), req, rec),
         IsRaw(g, req) => MediaTypeError(req.type, rec.accept) = "none"
  PROVE  SlotRefusal(g, req, rec) \in {"none", "ticket_used", "ticket_expired"}
<1> DEFINE codes == SlotRefusals(g, req, rec)
<1>1. SlotRefusal(g, req, rec) = FirstOf(codes) /\ DOMAIN codes = 1..7
  BY DEF SlotRefusal, SlotRefusals
<1>2. \A i \in 1..7 : codes[i] = "none" \/ codes[i] = TicketRefusal(g, rec)
  BY DEF SlotRefusals
<1> HIDE DEF codes
<1>3. FirstOf(codes) = "none" \/ \E i \in DOMAIN codes : FirstOf(codes) = codes[i]
  BY <1>1, FirstRefusal
<1> QED BY <1>1, <1>2, <1>3 DEF TicketRefusal

----------------------------------------------------------------------------
(* The file as declared and inside the destination's limits, whatever      *)
(* became of the record; and what is promised of a completed upload.       *)
Fits ==
  LET d == Declared(decl)
      dest == Registry[d.destination]
  IN /\ Within(dest.max, file.size) /\ Within(d.max, file.size)
     /\ d.size \in {None, file.size}
     /\ d.digest \in {"none", file.content}
     /\ SplitMediaType(GoesBy) /\ Allows(dest.accept, GoesBy) /\ Allows(d.accept, GoesBy)
     /\ from = "client" /\ d.raw => ParseContentType(GoesBy) # UrlEncoded /\ GoesBy.top # "multipart"

Promised(o) ==
  LET d == Declared(decl)
      dest == Registry[d.destination]
  IN /\ Within(dest.max, o.size) /\ Within(d.max, o.size) /\ d.size \in {None, o.size}
     /\ d.digest \in {"none", o.digest}
     /\ Allows(dest.accept, o.type) /\ Allows(d.accept, o.type)
     /\ o.size = request.body.size /\ o.digest = request.body.content

Spares == {"completed", "too_many_uploads", "ticket_used", "ticket_expired", "upstream_rejected",
           "server_error"}

(* The issued record's terms, and what a record with the same ones says.   *)
LEMMA OurTerms ==
  ASSUME NEW rec, Terms(rec) = Terms(Ours)
  PROVE  LET d == Declared(decl) IN
         /\ rec.destination = d.destination /\ rec.owner = d.owner /\ rec.digest = d.digest
         /\ rec.accept = Narrow(Registry[d.destination].accept, d.accept)
         /\ rec.size = Ours.size /\ rec.max = Ours.max
BY DEF Terms, Ours, IssuedRecord

LEMMA Fitting ==
  /\ Terms(record) = Terms(Ours) => (AsDeclared <=> Fits)
  /\ Terms(record) = Terms(Ours) =>
       (PromisesKept <=> (Answered =>
          /\ from \in {"client", "page"} /\ Present(record) /\ Fits /\ MayUpload => answer.code \in Spares
          /\ \A o \in ToSet(answer.file) : Promised(o)))
<1> SUFFICES ASSUME Terms(record) = Terms(Ours)
    PROVE  /\ AsDeclared <=> Fits
           /\ PromisesKept <=> (Answered =>
                /\ from \in {"client", "page"} /\ Present(record) /\ Fits /\ MayUpload => answer.code \in Spares
                /\ \A o \in ToSet(answer.file) : Promised(o))
  OBVIOUS
<1>1. Dest = Registry[Declared(decl).destination]
  BY OurTerms DEF Dest
<1>2. AsDeclared <=> Fits
  BY <1>1 DEF AsDeclared, Fits
<1> QED BY <1>1, <1>2 DEF PromisesKept, Promised, Spares

(* A request the client or a page sends carries its file.                  *)
LEMMA ClientCarries ==
  ASSUME decl \in Declarations, IssueError(gw, Declared(decl)) = "none",
         NEW c \in Clients, NEW credential, NEW t, t = Target(gw, Ours, Declared(decl))
  PROVE  Carries(SendFile(t, c.file, credential), c.file, Declared(decl).raw,
                 OrType(t.header, OrType(c.file.type, OrType(Declared(decl).mime, OctetStream))))
<1> DEFINE d == Declared(decl)
           dest == Registry[d.destination]
<1>1. IsMediaType(d.mime) /\ d.raw \in BOOLEAN /\ \A p \in d.accept : IsMediaType(p)
  BY Issuable, ConversationAssumption
<1>2. \A p \in Ours.accept : IsMediaType(p)
  <2>1. \A p \in dest.accept : IsMediaType(p)
    BY Issued, AdmissionAssumption DEF Registered
  <2>2. Ours.accept \in {dest.accept, d.accept}
    BY DEF Ours, IssuedRecord, Narrow
  <2> QED BY <1>1, <2>1, <2>2
<1>3. IsMediaType(c.file.type)
  BY ConversationAssumption
<1> HIDE DEF d
<1>4. t = Target(gw, Ours, d)
  BY DEF d
<1>5. Carries(SendFile(t, c.file, credential), c.file, d.raw,
              OrType(t.header, OrType(c.file.type, OrType(d.mime, OctetStream))))
  BY <1>1, <1>2, <1>3, <1>4, ClientSendsIt
<1> QED BY <1>5 DEF d

LEMMA Carried ==
  ASSUME decl \in Declarations, Asking, from \in {"client", "page"},
         IssueError(gw, Declared(decl)) = "none", Declared(decl).raw => gw.raw,
         target = <<Target(gw, Ours, Declared(decl))>>
  PROVE  LET raw == from = "client" /\ Declared(decl).raw IN
         /\ Carries(request, file, raw, GoesBy) /\ (raw => gw.raw)
         /\ from = "page" => ~gw.auth
<1> DEFINE d == Declared(decl)
<1>1. d.mime = decl.mime /\ d.raw \in BOOLEAN
  BY Issuable, ConversationAssumption
<1>2. CASE from = "client"
  <2> DEFINE t == Target(gw, Ours, d)
  <2>1. target[1] = t
    OBVIOUS
  <2>2. PICK c \in Clients : file = c.file /\ \E credential : request = SendFile(t, file, credential)
    BY <1>2, <2>1 DEF Asking
  <2>3. PICK credential : request = SendFile(t, file, credential)
    BY <2>2
  <2>4. GoesBy = OrType(t.header, OrType(file.type, OrType(d.mime, OctetStream)))
    BY <1>1, <1>2, <2>1 DEF GoesBy
  <2>5. Carries(request, file, d.raw, GoesBy)
    <3> HIDE DEF t
    <3> QED BY <2>2, <2>3, <2>4, ClientCarries DEF t
  <2>6. (from = "client" /\ d.raw) = d.raw
    BY <1>1, <1>2
  <2>7. Carries(request, file, from = "client" /\ d.raw, GoesBy)
    BY <2>5, <2>6, Zenon
  <2> QED BY <1>2, <2>7
<1>3. CASE from = "page"
  <2>1. file \in Files /\ request \in {PageForm(file), ScriptForm(file)} /\ ~gw.auth
    BY <1>3 DEF Asking
  <2>2. IsMediaType(file.type)
    BY <2>1, ConversationAssumption
  <2>3. GoesBy = OrType(file.type, OctetStream)
    BY <1>3 DEF GoesBy
  <2>4. Carries(request, file, FALSE, GoesBy)
    BY <2>1, <2>2, <2>3, PageSends
  <2> QED BY <1>3, <2>1, <2>4
<1> QED BY <1>2, <1>3

(* If the file is as declared, nothing but the ticket's use refuses it.    *)
LEMMA Spared ==
  ASSUME Askable(request), decl \in Declarations, Asking, from \in {"client", "page"},
         IssueError(gw, Declared(decl)) = "none", Declared(decl).raw => gw.raw,
         target = <<Target(gw, Ours, Declared(decl))>>,
         Fits, NEW rec, Terms(rec) = Terms(Ours)
  PROVE  /\ HeaderRefusal(gw, request) = "none" /\ request.named
         /\ BodyError(IsRaw(gw, request), request, rec).code = "none"
         /\ Present(rec) /\ MayUpload =>
              SlotRefusal(gw, request, rec) \in {"none", "ticket_used", "ticket_expired"}
<1> DEFINE d == Declared(decl)
           raw == from = "client" /\ d.raw
           n == request.body.size
<1>1. /\ Carries(request, file, raw, GoesBy) /\ (raw => gw.raw) /\ (from = "page" => ~gw.auth)
  BY Carried
<1>2. /\ IsDeclaration(decl) /\ d.max \in Int /\ d.size \in Int /\ d.owner = decl.owner
      /\ \A p \in d.accept : IsMediaType(p)
  BY Issuable, ConversationAssumption
<1>3. /\ request.named /\ request.body.given = "named" /\ n = file.size
      /\ request.body.content = file.content /\ n \in Nat /\ GoesBy # NoType /\ IsMediaType(GoesBy)
  BY <1>1 DEF Carries, Askable
<1>4. HeaderRefusal(gw, request) = "none" /\ (IsRaw(gw, request) <=> raw)
  <2>1. raw => ParseContentType(GoesBy) # UrlEncoded /\ GoesBy.top # "multipart"
    BY DEF Fits
  <2> QED BY <1>1, <2>1, HeadersPass
<1>5. /\ rec.destination = d.destination /\ rec.owner = d.owner /\ rec.digest = d.digest
      /\ rec.accept = Narrow(Registry[d.destination].accept, d.accept)
      /\ rec.size = Ours.size /\ rec.max = Ours.max
  BY OurTerms
<1>6. MayNarrow(Registry[d.destination].accept, d.accept) /\ Registered(d.destination)
      /\ (gw.ticketInUrl \/ d.owner # Nobody)
  BY Issued
<1>7. MediaTypeError(GoesBy, rec.accept) = "none"
  <2>1. Allows(rec.accept, GoesBy)
    BY <1>2, <1>3, <1>5, <1>6, Narrowed DEF Fits
  <2> QED BY <1>3, <2>1, TypePasses DEF Fits
<1>8. /\ rec.size \in {None, n} /\ Within(rec.max, n) /\ rec.max \in Int /\ rec.size \in Int
  BY <1>2, <1>3, <1>5, Limits DEF Fits, Ours
<1>9. BodyError(IsRaw(gw, request), request, rec).code = "none"
  <2>1. rec.digest \in {"none", request.body.content}
    BY <1>3, <1>5 DEF Fits
  <2>2. raw \/ MediaTypeError(request.body.type, rec.accept) = "none"
    BY <1>1, <1>7 DEF Carries
  <2> HIDE DEF raw
  <2> QED BY <1>3, <1>4, <1>8, <2>1, <2>2, BodyPasses
<1>10. ASSUME Present(rec), MayUpload
       PROVE  SlotRefusal(gw, request, rec) \in {"none", "ticket_used", "ticket_expired"}
  <2>1. IsRaw(gw, request) => MediaTypeError(request.type, rec.accept) = "none"
    BY <1>1, <1>4, <1>7 DEF Carries
  <2>2. ~TooLong(IsRaw(gw, request), request, rec)
    BY <1>1, <1>3, <1>4, <1>8, AdmissionAssumption DEF Carries, TooLong, Limited, Within, None
  <2>3. gw.auth => Prover # Nobody /\ decl.owner \in {Nobody, Prover}
    BY <1>10 DEF MayUpload, Prover
  <2>4. gw.auth => AuthRefusal(gw, request) = "none"
    BY <2>3, Admissions DEF Admitted
  <2>5. OwnerRefusal(gw, request, rec) = "none"
    BY <1>2, <1>5, <1>6, <2>3 DEF OwnerRefusal, OwnedBy, Prover
  <2> QED BY <1>5, <1>6, <1>10, <2>1, <2>2, <2>4, <2>5, TicketPasses
<1> QED BY <1>3, <1>4, <1>9, <1>10

(* What passes every check keeps what was declared, whoever sent it.       *)
LEMMA Keeping ==
  ASSUME Askable(request), decl \in Declarations, IssueError(gw, Declared(decl)) = "none",
         IsMediaType(request.type), IsMediaType(request.body.type), request.body.content # "none",
         NEW rec, Terms(rec) = Terms(Ours), SlotRefusal(gw, request, rec) = "none",
         BodyError(IsRaw(gw, request), request, rec).code = "none"
  PROVE  Promised(FileValue(Outcome(IsRaw(gw, request), request)))
<1> DEFINE d == Declared(decl)
           raw == IsRaw(gw, request)
           o == Outcome(raw, request)
           n == request.body.size
           type == BodyType(raw, request)
<1>1. /\ o.size = n /\ o.digest = request.body.content
      /\ o.type = IF type = NoType THEN OctetStream ELSE type
      /\ DOMAIN o = {"name", "type", "size", "digest", "error"}
  BY DEF Outcome
<1>2. IsMediaType(o.type) /\ o.type # NoType
  BY <1>1, KnownTypes DEF BodyType
<1> HIDE DEF o
<1>3. /\ FileValue(o).size = n /\ FileValue(o).digest = request.body.content
      /\ FileValue(o).type = o.type
  BY <1>1, <1>2 DEF FileValue, NoOutcome
<1>4. /\ IsDeclaration(decl) /\ d.max \in Int /\ d.size \in Int
      /\ \A p \in d.accept : IsMediaType(p)
  BY Issuable, ConversationAssumption
<1>5. /\ rec.digest = d.digest /\ rec.accept = Narrow(Registry[d.destination].accept, d.accept)
      /\ rec.size = Ours.size /\ rec.max = Ours.max
  BY OurTerms
<1>6. MayNarrow(Registry[d.destination].accept, d.accept)
  BY Issued
<1>7. n \in Nat /\ rec.max \in Int /\ rec.size \in Int
  BY <1>4, <1>5, Limits DEF Askable, Ours
<1>8. /\ Within(rec.max, n) /\ rec.size \in {None, n} /\ rec.digest \in {"none", request.body.content}
      /\ (raw \/ MediaTypeError(request.body.type, rec.accept) = "none")
  BY <1>7, BodyPasses
<1>9. raw => MediaTypeError(request.type, rec.accept) = "none"
  <2>1. SlotRefusals(gw, request, rec)[6] = "none"
    BY SlotCodes
  <2> QED BY <2>1 DEF SlotRefusals
<1>10. Allows(rec.accept, o.type)
  BY <1>1, <1>8, <1>9, TypePasses DEF BodyType
<1>11. Allows(Registry[d.destination].accept, o.type) /\ Allows(d.accept, o.type)
  BY <1>2, <1>4, <1>5, <1>6, <1>10, Narrowed
<1>12. /\ Within(Registry[d.destination].max, n) /\ Within(d.max, n) /\ d.size \in {None, n}
  BY <1>4, <1>5, <1>7, <1>8, Limits DEF Ours
<1> QED BY <1>3, <1>5, <1>8, <1>11, <1>12 DEF Promised, o
LEMMA PromiseInit == Init => PromiseInv
BY DEF Init, PromiseInv, Described, Asking, Passed, PromisesKept, Answered

(* A step that leaves the ticket and the request alone, and whatever was   *)
(* answered, keeps the promises; so does a refusal for good reason.        *)
LEMMA SameQuestion ==
  ASSUME UNCHANGED <<gw, decl, record, target>>, UNCHANGED <<request, from, file>>
  PROVE  /\ AsDeclared' = AsDeclared /\ MayUpload' = MayUpload /\ Present(record)' = Present(record)
         /\ Ours' = Ours /\ Terms(record)' = Terms(record)
         /\ Dest' = Dest /\ Declared(decl)' = Declared(decl)
         /\ UNCHANGED answer /\ at' = at => PromisesKept' = PromisesKept
<1>1. /\ Dest' = Dest /\ Declared(decl)' = Declared(decl) /\ GoesBy' = GoesBy
      /\ Ours' = Ours /\ Terms(record)' = Terms(record) /\ Present(record)' = Present(record)
  BY DEF Dest, GoesBy, Ours, Terms, Present
<1>2. AsDeclared' = AsDeclared /\ MayUpload' = MayUpload
  BY <1>1 DEF AsDeclared, MayUpload
<1> QED BY <1>1, <1>2 DEF PromisesKept, Answered

LEMMA NoFile == \A g, req, known, code : ToSet(ErrorResponse(g, req, known, code).file) = {}
BY DEF ErrorResponse, NoAnswer, ToSet

LEMMA RefusingKeepsPromises ==
  ASSUME IInv, PromiseInv, NEW rec, NEW code, Refuse(rec, code), at \in {"sent", "judged"},
         UNCHANGED ticket, UNCHANGED asked,
         from \in {"client", "page"} /\ Present(record) /\ AsDeclared /\ MayUpload => code \in Spares
  PROVE  PromiseInv'
<1> USE DEF ticket, asked
<1>1. at' = "answered" /\ answer'.code = code /\ ToSet(answer'.file) = {}
  BY NoFile, Responses DEF Refuse, Respond
<1>2. PromisesKept'
  BY <1>1, SameQuestion DEF PromisesKept, Answered, Spares
<1>3. Described' /\ Asking' /\ Passed'
  BY <1>1, SameQuestion DEF PromiseInv, Described, Asking, Passed
<1> QED BY <1>2, <1>3 DEF PromiseInv

(* While a request is judged, what is known of it and its file.            *)
LEMMA Judging ==
  ASSUME IInv, PromiseInv, at \in {"sent", "judged", "streaming"}
  PROVE  /\ Askable(request) /\ IssueError(gw, Declared(decl)) = "none"
         /\ Declared(decl).raw => gw.raw
         /\ target = <<Target(gw, Ours, Declared(decl))>>
         /\ Present(record) => Terms(record) = Terms(Ours)
         /\ from \in {"client", "page"} /\ Present(record) /\ AsDeclared => Fits
BY Fitting DEF IInv, Control, PromiseInv, Described

(* The end of an upload.                                                   *)
LEMMA EndingKeepsPromises ==
  ASSUME IInv, PromiseInv, UploadEnds
  PROVE  PromiseInv'
<1> DEFINE raw == IsRaw(gw, request)
           body == BodyError(raw, request, read)
           out == KeptOutcome(gw.store, Outcome(raw, request))
<1>0. /\ at = "streaming" /\ Terms(read) = Terms(Ours) /\ SlotRefusal(gw, request, read) = "none"
      /\ Present(record) /\ Terms(record) = Terms(Ours) /\ "status" \in DOMAIN record
  BY Judging DEF UploadEnds, PromiseInv, Passed, IInv, Control
<1>1. /\ at' = "answered" /\ UNCHANGED <<gw, decl, target, read>> /\ UNCHANGED asked
      /\ \E s \in {"completed", "failed"} : record' = [record EXCEPT !.status = s]
      /\ \/ body.code = "none" /\ answer' = SuccessResponse(out)
         \/ \E code \in {body.code, "upstream_rejected"} :
              code # "none" /\ answer' = ErrorResponse(gw, request, TRUE, code)
  <2>1. PICK e \in Endings :
               /\ record' = Finally(e.code)
               /\ answer' = IF e.code = "none" THEN SuccessResponse(out)
                                              ELSE ErrorResponse(gw, request, TRUE, e.code)
    BY DEF UploadEnds, Respond
  <2>2. e.code \in {body.code, "upstream_rejected"}
    BY EndingsAre
  <2>3. \E s \in {"completed", "failed"} : record' = [record EXCEPT !.status = s]
    BY <2>1 DEF Finally
  <2>4. at' = "answered" /\ UNCHANGED <<gw, decl, target, read>> /\ UNCHANGED asked
    BY DEF UploadEnds, Respond
  <2> HIDE DEF body, out
  <2>5. CASE e.code = "none"
    BY <2>1, <2>2, <2>3, <2>4, <2>5
  <2>6. CASE e.code # "none"
    BY <2>1, <2>2, <2>3, <2>4, <2>6
  <2> QED BY <2>5, <2>6
<1>2. Present(record)' /\ Terms(record)' = Terms(record) /\ Ours' = Ours
  <2>1. PICK s \in {"completed", "failed"} : record' = [record EXCEPT !.status = s]
    BY <1>1
  <2> QED BY <1>0, <1>1, <2>1 DEF Present, Terms, Ours
<1>3. Described' /\ Asking' /\ Passed'
  BY <1>0, <1>1, <1>2 DEF PromiseInv, Described, Asking, Passed, asked
<1>4. PromisesKept' <=>
        /\ from \in {"client", "page"} /\ Fits /\ MayUpload => answer'.code \in Spares
        /\ \A o \in ToSet(answer'.file) : Promised(o)
  <2>1. GoesBy' = GoesBy /\ MayUpload' = MayUpload
    BY <1>1 DEF GoesBy, MayUpload, asked
  <2>2. Dest' = Registry[Declared(decl).destination]
    BY <1>0, <1>2, OurTerms DEF Dest, Terms
  <2>3. AsDeclared' <=> Fits
    BY <1>1, <2>1, <2>2 DEF AsDeclared, Fits, asked
  <2> QED BY <1>1, <1>2, <2>1, <2>2, <2>3 DEF PromisesKept, Promised, Spares, Answered, asked
<1>5. PromisesKept'
  <2>1. CASE body.code = "none" /\ answer' = SuccessResponse(out)
    <3>1. out = Outcome(raw, request)
      BY OutcomesComeBack
    <3>2. answer'.code = "completed" /\ answer'.file = <<FileValue(out)>>
      BY <2>1 DEF SuccessResponse, NoAnswer
    <3>3. Promised(FileValue(out))
      BY <1>0, <2>1, <3>1, Judging, Keeping DEF PromiseInv, Asking
    <3>4. \A o \in ToSet(answer'.file) : o = FileValue(out)
      BY <3>2 DEF ToSet
    <3> QED BY <1>4, <3>2, <3>3, <3>4 DEF Spares
  <2>2. ASSUME NEW code \in {body.code, "upstream_rejected"}, code # "none",
               answer' = ErrorResponse(gw, request, TRUE, code)
        PROVE  PromisesKept'
    <3>1. answer'.code = code /\ ToSet(answer'.file) = {}
      BY <2>2 DEF ErrorResponse, NoAnswer, ToSet
    <3>2. from \in {"client", "page"} /\ Fits => code \in Spares
      <4>1. SUFFICES ASSUME from \in {"client", "page"}, Fits PROVE body.code = "none"
        BY <2>2 DEF Spares
      <4> QED BY <1>0, <4>1, Judging, Spared DEF PromiseInv
    <3> QED BY <1>4, <3>1, <3>2
  <2> QED BY <1>1, <2>1, <2>2
<1> QED BY <1>1, <1>3, <1>5 DEF PromiseInv

(* So does a call that raises.                                             *)
LEMMA RaisingKeepsPromises ==
  ASSUME IInv, PromiseInv, Raises
  PROVE  PromiseInv'
<1>1. /\ at \in {"sent", "judged", "streaming"} /\ at' = "answered" /\ answer' = ServerError
      /\ answer'.code = "server_error" /\ UNCHANGED <<gw, decl, target, read>> /\ UNCHANGED asked
      /\ record' # record => /\ record.status \in {"issued", "redeemed"}
                            /\ \E s \in {"redeemed", "completed", "failed"} :
                                 record' = [record EXCEPT !.status = s]
  BY Raising
<1>2. ToSet(answer'.file) = {}
  BY <1>1 DEF ServerError, NoAnswer, ToSet
<1>3. Ours' = Ours /\ (Present(record)' => Present(record) /\ Terms(record)' = Terms(record))
  <2>1. CASE record' = record
    BY <1>1, <2>1 DEF Present, Terms, Ours
  <2>2. CASE record' # record
    <3>1. PICK s \in {"redeemed", "completed", "failed"} : record' = [record EXCEPT !.status = s]
      BY <1>1, <2>2
    <3> QED BY <1>1, <2>2, <3>1 DEF Present, Terms, Ours
  <2> QED BY <2>1, <2>2
<1>4. Described' /\ Asking' /\ Passed'
  BY <1>1, <1>3 DEF PromiseInv, Described, Asking, Passed, asked
<1>5. PromisesKept'
  BY <1>1, <1>2 DEF PromisesKept
<1> QED BY <1>1, <1>4, <1>5 DEF PromiseInv

LEMMA SendingKeepsPromises ==
  ASSUME IInv, PromiseInv, NEW who, NEW f, NEW req, MaySend, Send(who, f, req),
         IsMediaType(req.type) /\ IsMediaType(req.body.type) /\ req.body.content # "none",
         \/ who = "stray"
         \/ /\ who = "client"
            /\ \E c \in Clients : /\ f = c.file
                                  /\ req = SendFile(target[1], f, IF target[1].bearer THEN c.credential
                                                                                      ELSE NoCredential)
         \/ who = "page" /\ ~gw.auth /\ f \in Files /\ req \in {PageForm(f), ScriptForm(f)}
  PROVE  PromiseInv'
<1> USE DEF ticket
<1>1. /\ at = "ready" /\ at' = "sent" /\ request' = req /\ from' = who /\ file' = f
      /\ UNCHANGED <<gw, decl, record, target>>
  BY DEF MaySend, Send
<1>2. Described'
  BY <1>1 DEF PromiseInv, Described, Ours, Terms, Present
<1>3. Asking' /\ Passed' /\ PromisesKept'
  BY <1>1 DEF Asking, Passed, PromisesKept, Answered
<1> QED BY <1>1, <1>2, <1>3 DEF PromiseInv

LEMMA PromiseStep == IInv /\ SilenceInv /\ PromiseInv /\ [Next]_vars => PromiseInv'
<1> SUFFICES ASSUME IInv, SilenceInv, PromiseInv, [Next]_vars PROVE PromiseInv'
  OBVIOUS
<1> USE DEF ticket, asked
<1>1. CASE Declare
  <2> DEFINE d == Declared(decl)
             refused == DeclarationError(gw, decl)
             undescribed == DescribeError(gw, Ours, d.raw, d.mime)
  <2>1. /\ at = "declaring" /\ from' = "none" /\ at' \in {"ready", "refused"}
        /\ UNCHANGED <<gw, decl>>
        /\ at' = "ready" => /\ refused = "none" /\ undescribed = "none"
                            /\ target' = <<Target(gw, Ours, d)>>
                            /\ record' = Kept(gw.store, Ours)
    BY <1>1 DEF Declare, IInv, Control, Ours
  <2>2. ASSUME at' = "ready" PROVE Described'
    <3>1. IssueError(gw, d) = "none"
      BY <2>1, <2>2, Issuable, ConversationAssumption DEF PromiseInv
    <3>2. d.raw => gw.raw
      BY <2>1, <2>2 DEF DescribeError
    <3>3. record' = Ours
      BY <2>1, <2>2, RecordsComeBack, ConversationAssumption DEF IInv, Control, Ours
    <3> QED BY <2>1, <3>1, <3>2, <3>3 DEF Described, Ours, Terms
  <2>3. Described'
    BY <2>1, <2>2 DEF Described
  <2> QED BY <2>1, <2>3 DEF PromiseInv, Asking, Passed, PromisesKept, Answered
<1>2. CASE OpenPage
  BY <1>2, SameQuestion DEF OpenPage, PromiseInv, Described, Asking, Passed
<1>3. CASE ClientSends
  <2>1. PICK c \in Clients :
          /\ MaySend
          /\ Send("client", c.file, SendFile(target[1], c.file, IF target[1].bearer THEN c.credential
                                                                                    ELSE NoCredential))
    BY <1>3 DEF ClientSends
  <2> DEFINE t == target[1]
             req == SendFile(t, c.file, IF t.bearer THEN c.credential ELSE NoCredential)
  <2>2. /\ IssueError(gw, Declared(decl)) = "none" /\ t = Target(gw, Ours, Declared(decl))
        /\ decl \in Declarations
    BY <2>1 DEF MaySend, Send, PromiseInv, Described
  <2>3. Carries(req, c.file, Declared(decl).raw,
                OrType(t.header, OrType(c.file.type, OrType(Declared(decl).mime, OctetStream))))
    BY <2>2, ClientCarries
  <2>4. IsMediaType(req.type) /\ IsMediaType(req.body.type) /\ req.body.content # "none"
    BY <2>3, ConversationAssumption DEF Carries
  <2> QED BY <2>1, <2>4, SendingKeepsPromises
<1>4. CASE PersonSubmits
  <2>1. PICK f \in Files : \E req \in {PageForm(f), ScriptForm(f)} : Send("page", f, req)
    BY <1>4 DEF PersonSubmits
  <2>5. PICK req \in {PageForm(f), ScriptForm(f)} : Send("page", f, req)
    BY <2>1
  <2>2. MaySend /\ ~gw.auth
    BY <1>4 DEF PersonSubmits, SilenceInv
  <2>3. IsMediaType(f.type) /\ f.content # "none"
    BY ConversationAssumption
  <2>4. Carries(req, f, FALSE, OrType(f.type, OctetStream))
    BY <2>3, PageSends
  <2> QED BY <2>2, <2>3, <2>4, <2>5, SendingKeepsPromises DEF Carries
<1>5. CASE StraySends
  <2>1. PICK req \in Strays : MaySend /\ Send("stray", <<>>, req)
    BY <1>5 DEF StraySends
  <2>2. IsMediaType(req.type) /\ IsMediaType(req.body.type) /\ req.body.content # "none"
    BY ConversationAssumption
  <2> QED BY <2>1, <2>2, SendingKeepsPromises
<1>6. CASE RefuseArrival
  <2>1. PICK code : /\ Refuse(AbsentRecord, code)
                    /\ code # "too_many_uploads" => code = HeaderRefusal(gw, request) /\ code # "none"
    BY <1>6 DEF RefuseArrival
  <2>2. at = "sent"
    BY <1>6 DEF RefuseArrival
  <2>3. ASSUME from \in {"client", "page"}, Present(record), AsDeclared PROVE code \in Spares
    <3>1. HeaderRefusal(gw, request) = "none"
      BY <2>2, <2>3, Judging, Spared DEF PromiseInv
    <3> QED BY <2>1, <3>1 DEF Spares
  <2> QED BY <1>6, <2>1, <2>2, <2>3, RefusingKeepsPromises DEF RefuseArrival
<1>7. CASE Judge
  <2> DEFINE rec == LookedUp(request, record)
             code == SlotRefusal(gw, request, rec)
  <2>1. at = "sent" /\ read' = rec /\ HeaderRefusal(gw, request) = "none"
    BY <1>7 DEF Judge
  <2>2. CASE code = "none"
    <3>1. at' = "judged" /\ UNCHANGED ticket /\ UNCHANGED asked
      BY <1>7, <2>2 DEF Judge
    <3>2. Present(rec)
      <4>1. SlotRefusals(gw, request, rec)[2] = "none"
        BY <2>2, SlotCodes
      <4> QED BY <4>1 DEF SlotRefusals
    <3>3. rec = record
      BY <3>2 DEF LookedUp, Present, IInv, Control
    <3>4. Terms(rec) = Terms(Ours)
      BY <2>1, <3>2, <3>3, Judging
    <3>5. Passed'
      BY <2>1, <2>2, <3>1, <3>4 DEF Passed, Terms, Ours
    <3>6. Described' /\ Asking' /\ PromisesKept'
      BY <2>1, <3>1, SameQuestion DEF PromiseInv, Described, Asking, PromisesKept, Answered
    <3> QED BY <3>1, <3>5, <3>6 DEF PromiseInv
  <2>3. CASE code # "none"
    <3>1. Refuse(IF Unseen(code) THEN AbsentRecord ELSE rec, code)
      BY <1>7, <2>3 DEF Judge
    <3>2. ASSUME from \in {"client", "page"}, Present(record), AsDeclared, MayUpload PROVE code \in Spares
      <4>1. request.named
        BY <2>1, <3>2, Judging, Spared DEF PromiseInv
      <4>2. rec = record
        BY <4>1 DEF LookedUp
      <4>3. code \in {"none", "ticket_used", "ticket_expired"}
        BY <2>1, <3>2, <4>2, Judging, Spared DEF PromiseInv
      <4> QED BY <2>3, <4>3 DEF Spares
    <3> QED BY <1>7, <2>1, <3>1, <3>2, RefusingKeepsPromises DEF Judge
  <2> QED BY <2>2, <2>3
<1>8. CASE Redeem
  <2>1. at = "judged"
    BY <1>8 DEF Redeem
  <2>2. CASE at' = "streaming"
    <3>1. /\ record' = [record EXCEPT !.status = "redeemed"] /\ record.status = "issued"
          /\ UNCHANGED <<gw, decl, target, read>> /\ UNCHANGED asked
      BY <1>8, <2>2, Refusing DEF Redeem, Redeemable, IInv, Control
    <3>2. Present(record) /\ Terms(record) = Terms(Ours)
      BY <2>1, <3>1, Judging DEF Present
    <3>3. Present(record)' /\ Terms(record)' = Terms(record) /\ Ours' = Ours
      BY <3>1 DEF Present, Terms, Ours, IInv, Control
    <3>4. Described' /\ Asking' /\ Passed'
      BY <2>1, <2>2, <3>1, <3>2, <3>3 DEF PromiseInv, Described, Asking, Passed, Terms
    <3> QED BY <2>2, <3>1, <3>4 DEF PromiseInv, PromisesKept, Answered
  <2>3. CASE at' # "streaming"
    <3>1. /\ Refuse(read, IF record.status = "issued" THEN "ticket_expired" ELSE "ticket_used")
          /\ UNCHANGED <<gw, decl, target, record>> /\ UNCHANGED asked
      BY <1>8, <2>3 DEF Redeem
    <3> QED BY <2>1, <3>1, RefusingKeepsPromises DEF Spares
  <2> QED BY <2>2, <2>3
<1>9. CASE UploadEnds
  BY <1>9, EndingKeepsPromises
<1>15. CASE Raises
  BY <1>15, RaisingKeepsPromises
<1>10. CASE Drain
  BY <1>10, SameQuestion DEF Drain, Draining, PromiseInv, Described, Asking, Passed
<1>11. CASE ClientGets
  BY <1>11, SameQuestion DEF ClientGets, PromiseInv, Described, Asking, Passed
<1>12. CASE NextRequest
  <2>1. Described'
    BY <1>12, SameQuestion DEF NextRequest, PromiseInv, Described, Terms, Ours, Present
  <2> QED BY <1>12, <2>1 DEF NextRequest, PromiseInv, Asking, Passed, PromisesKept, Answered
<1>13. CASE Meanwhile
  <2>1. /\ at' = at /\ at \in {"ready", "sent", "judged"}
        /\ UNCHANGED <<gw, decl, target, read>> /\ UNCHANGED asked
    BY <1>13 DEF Meanwhile
  <2>2. Present(record)' => Present(record) /\ Terms(record)' = Terms(record)
    <3>1. CASE Expire
      BY <3>1 DEF Expire, Present, Terms
    <3>2. CASE SpentElsewhere
      BY <3>2 DEF SpentElsewhere, Present, Terms
    <3>3. CASE Swept
      BY <3>3 DEF Swept, AbsentRecord, Present
    <3> QED BY <1>13, <3>1, <3>2, <3>3 DEF Meanwhile
  <2>3. Described'
    BY <2>1, <2>2 DEF PromiseInv, Described, Ours
  <2> QED BY <2>1, <2>3 DEF PromiseInv, Asking, Passed, PromisesKept, Answered, Terms, Ours
<1>14. CASE UNCHANGED vars
  BY <1>14, SameQuestion DEF vars, PromiseInv, Described, Asking, Passed, Terms, Ours
<1> QED
  BY <1>1, <1>2, <1>3, <1>4, <1>5, <1>6, <1>7, <1>8, <1>9, <1>10, <1>11, <1>12, <1>13, <1>14,
     <1>15 DEF Next, Raises

(* A file as it was declared is not refused for what it is, its headers or *)
(* its token, by whichever store and in whichever way it is sent; and what *)
(* completes, from anyone, is inside the destination's limits and the      *)
(* declaration's, and is reported as it was sent.                          *)
THEOREM PromisesAreKept == Spec => []PromisesKept
<1>1. PromiseInv => PromisesKept
  BY DEF PromiseInv
<1> QED BY IInvInit, IInvStep, SilenceInit, SilenceStep, PromiseInit, PromiseStep, <1>1, PTL DEF Spec

----------------------------------------------------------------------------
(* File names: what is left of one, and what is said of it.                *)

(* Bounded sets of numbers have a greatest element.                        *)
LEMMA MostIsIn ==
  ASSUME NEW S \in SUBSET Nat, S # {}, NEW bound \in Nat, \A x \in S : x <= bound
  PROVE  Max(S) \in S /\ \A y \in S : y <= Max(S)
<1> DEFINE T == {bound - x : x \in S}
<1>1. T \in SUBSET Nat /\ T # {}
  <2>1. \A x \in S : x \in Nat /\ bound - x \in Nat
    OBVIOUS
  <2> QED BY <2>1
<1>2. Min(T) \in T /\ \A y \in T : Min(T) <= y
  <2> HIDE DEF T
  <2> QED BY <1>1, LeastIsIn
<1>3. PICK x \in S : Min(T) = bound - x
  BY <1>2
<1>4. \A y \in S : y <= x
  <2> SUFFICES ASSUME NEW y \in S PROVE y <= x
    OBVIOUS
  <2>1. bound - x <= bound - y /\ x \in Nat /\ y \in Nat
    BY <1>2, <1>3
  <2> QED BY <2>1
<1> QED BY <1>4 DEF Max

(* Induction, over the set of the numbers a fact is true of.               *)
LEMMA SetInduction ==
  ASSUME NEW S, 0 \in S, \A n \in Nat : n \in S => n + 1 \in S
  PROVE  Nat \subseteq S
<1> SUFFICES ASSUME Nat \ S # {} PROVE FALSE
  OBVIOUS
<1> DEFINE x == Min(Nat \ S)
<1>1. x \in Nat \ S /\ \A y \in Nat \ S : x <= y
  BY LeastIsIn
<1>2. x # 0 /\ x - 1 \in Nat /\ x - 1 \notin S
  <2> HIDE DEF x
  <2>1. x # 0 /\ x - 1 \in Nat /\ x = (x - 1) + 1
    BY <1>1
  <2> QED BY <1>1, <2>1
<1> QED BY <1>1, <1>2

(* A function on 0..n can be defined from one value to the next; so the    *)
(* recursive functions below are what their equations say.                 *)
Unrolls(f, a, n, next) == f[0] = a /\ \A i \in 1..n : f[i] = next[i][f[i - 1]]

LEMMA Recursion ==
  ASSUME NEW A, NEW a \in A, NEW n \in Nat, NEW next \in [1..n -> [A -> A]]
  PROVE  \E f \in [0..n -> A] : Unrolls(f, a, n, next)
<1> DEFINE Upto(f, k) == f[0] = a /\ \A i \in 1..k : f[i] = next[i][f[i - 1]]
           Good == {k \in Nat : k <= n => \E f \in [0..k -> A] : Upto(f, k)}
<1>1. 0 \in Good
  <2>1. [i \in 0..0 |-> a] \in [0..0 -> A] /\ Upto([i \in 0..0 |-> a], 0)
    OBVIOUS
  <2> QED BY <2>1
<1>2. ASSUME NEW k \in Nat, k \in Good PROVE k + 1 \in Good
  <2> SUFFICES ASSUME k + 1 <= n PROVE \E f \in [0..(k + 1) -> A] : Upto(f, k + 1)
    OBVIOUS
  <2>1. PICK f \in [0..k -> A] : Upto(f, k)
    BY <1>2
  <2> DEFINE g == [i \in 0..(k + 1) |-> IF i <= k THEN f[i] ELSE next[k + 1][f[k]]]
  <2>2. next[k + 1][f[k]] \in A
    OBVIOUS
  <2>3. g \in [0..(k + 1) -> A]
    BY <2>2
  <2>4. /\ \A i \in 0..k : g[i] = f[i]
        /\ g[k + 1] = next[k + 1][f[k]]
    OBVIOUS
  <2> HIDE DEF g
  <2>5. g[0] = a
    BY <2>1, <2>4
  <2>6. ASSUME NEW i \in 1..(k + 1) PROVE g[i] = next[i][g[i - 1]]
    <3>1. CASE i \in 1..k
      <4>1. g[i] = f[i] /\ g[i - 1] = f[i - 1]
        BY <2>4, <3>1
      <4> QED BY <2>1, <3>1, <4>1
    <3>2. CASE i = k + 1
      <4>1. g[i - 1] = f[k] /\ i - 1 = k
        BY <2>4, <3>2
      <4> QED BY <2>4, <3>2, <4>1
    <3> QED BY <3>1, <3>2
  <2> QED BY <2>3, <2>5, <2>6
<1>3. n \in Good
  <2> HIDE DEF Good
  <2> QED BY <1>1, <1>2, SetInduction
<1> QED BY <1>3 DEF Unrolls

(* FlattenSeq concatenates, one sequence after the other.                  *)
LEMMA Flattened ==
  ASSUME NEW S, NEW ss \in Seq(Seq(S))
  PROVE  \E flat \in [0..Len(ss) -> Seq(S)] :
           /\ flat[0] = <<>> /\ FlattenSeq(ss) = flat[Len(ss)]
           /\ \A i \in 1..Len(ss) : flat[i] = flat[i - 1] \o ss[i]
<1> DEFINE n == Len(ss)
           A == Seq(S)
           next == [i \in 1..n |-> [s \in A |-> s \o ss[i]]]
           Unrolled(f) == [i \in 1..n |-> IF i = 1 THEN ss[i] ELSE f[i - 1] \o ss[i]]
           flatten == CHOOSE f : f = Unrolled(f)
<1>0. n = 0 => FlattenSeq(ss) = <<>>
  BY DEF FlattenSeq
<1>1. n # 0 => FlattenSeq(ss) = flatten[n]
  BY DEF FlattenSeq
<1>2. n \in Nat /\ \A i \in 1..n : ss[i] \in A
  OBVIOUS
<1>3. \A s, t \in A : s \o t \in A
  OBVIOUS
<1>4. <<>> \in A /\ \A s \in A : <<>> \o s = s
  BY ConcatEmptySeq
<1> HIDE DEF n, A
<1>5. next \in [1..n -> [A -> A]]
  BY <1>2, <1>3
<1>6. PICK f \in [0..n -> A] : f[0] = <<>> /\ \A i \in 1..n : f[i] = next[i][f[i - 1]]
  <2> HIDE DEF next
  <2>1. \E f \in [0..n -> A] : Unrolls(f, <<>>, n, next)
    BY <1>2, <1>4, <1>5, Recursion
  <2> QED BY <2>1 DEF Unrolls
<1>7. \A i \in 1..n : f[i] = f[i - 1] \o ss[i]
  <2> SUFFICES ASSUME NEW i \in 1..n PROVE f[i] = f[i - 1] \o ss[i]
    OBVIOUS
  <2>1. f[i - 1] \in A
    BY <1>2
  <2> QED BY <1>6, <2>1
<1>8. n # 0 => f[1] = ss[1]
  <2> SUFFICES ASSUME n # 0 PROVE f[1] = ss[1]
    OBVIOUS
  <2>1. 1 \in 1..n /\ 1 - 1 = 0
    BY <1>2
  <2>2. f[1] = f[0] \o ss[1]
    BY <1>7, <2>1
  <2> QED BY <1>2, <1>4, <1>6, <2>1, <2>2
<1>9. CASE n = 0
  BY <1>0, <1>6, <1>7, <1>9 DEF n, A
<1>10. CASE n # 0
  <2> DEFINE g == [i \in 1..n |-> f[i]]
  <2>1. \A i \in 1..n : g[i] = IF i = 1 THEN ss[i] ELSE g[i - 1] \o ss[i]
    <3> SUFFICES ASSUME NEW i \in 1..n PROVE g[i] = IF i = 1 THEN ss[i] ELSE g[i - 1] \o ss[i]
      OBVIOUS
    <3>1. CASE i = 1
      BY <1>8, <3>1
    <3>2. CASE i # 1
      <4>1. i - 1 \in 1..n
        BY <1>2, <3>2
      <4> QED BY <1>7, <3>2, <4>1
    <3> QED BY <3>1, <3>2
  <2>2. g = Unrolled(g)
    BY <2>1
  <2>3. flatten = Unrolled(flatten)
    <3> HIDE DEF g, Unrolled
    <3> QED BY <2>2
  <2> HIDE DEF flatten
  <2>4. \A i \in 1..n : flatten[i] = IF i = 1 THEN ss[i] ELSE flatten[i - 1] \o ss[i]
    <3>1. \A i \in 1..n : Unrolled(flatten)[i] = IF i = 1 THEN ss[i] ELSE flatten[i - 1] \o ss[i]
      OBVIOUS
    <3> HIDE DEF Unrolled
    <3> QED BY <2>3, <3>1
  <2> DEFINE Same == {k \in Nat : k \in 1..n => flatten[k] = f[k]}
  <2>5. 0 \in Same
    OBVIOUS
  <2>6. ASSUME NEW k \in Nat, k \in Same PROVE k + 1 \in Same
    <3> SUFFICES ASSUME k + 1 \in 1..n PROVE flatten[k + 1] = f[k + 1]
      OBVIOUS
    <3>1. CASE k = 0
      BY <1>8, <2>4, <3>1
    <3>2. CASE k # 0
      <4>1. (k + 1) - 1 = k /\ k \in 1..n /\ k + 1 # 1
        BY <1>2, <3>2
      <4>2. flatten[k + 1] = flatten[k] \o ss[k + 1]
        BY <2>4, <4>1
      <4>3. f[k + 1] = f[k] \o ss[k + 1]
        BY <1>7, <4>1
      <4> QED BY <2>6, <4>1, <4>2, <4>3
    <3> QED BY <3>1, <3>2
  <2>7. n \in Same
    <3> HIDE DEF Same
    <3> QED BY <1>2, <2>5, <2>6, SetInduction
  <2>8. FlattenSeq(ss) = f[n] /\ n \in 0..n
    BY <1>1, <1>2, <1>10, <2>7
  <2> QED BY <1>6, <1>7, <2>8 DEF n, A
<1> QED BY <1>9, <1>10

(* How often characters occur.                                             *)
Places(s, C) == {i \in DOMAIN s : s[i] \in C}

LEMMA Counts ==
  ASSUME NEW S, NEW s \in Seq(S), NEW C
  PROVE  /\ Occurrences(s, C) \in 0..Len(s)
         /\ (\A i \in 1..Len(s) : s[i] \notin C) => Occurrences(s, C) = 0
         /\ Occurrences(s, C) = 0 => \A i \in 1..Len(s) : s[i] \notin C
         /\ IsFiniteSet(Places(s, C))
<1> DEFINE I == Places(s, C)
<1>1. Len(s) \in Nat /\ DOMAIN s = 1..Len(s) /\ I \in SUBSET (1..Len(s))
  BY DEF Places
<1>2. IsFiniteSet(1..Len(s)) /\ Cardinality(1..Len(s)) = Len(s)
  <2>1. \A n \in Nat : IsFiniteSet(1..n) /\ Cardinality(1..n) = n
    BY FS_Interval
  <2> QED BY <1>1, <2>1
<1>3. IsFiniteSet(I) /\ Cardinality(I) <= Len(s) /\ Cardinality(I) \in Nat
  BY <1>1, <1>2, FS_Subset, FS_CardinalityType
<1>4. Cardinality(I) = 0 <=> I = {}
  BY <1>3, FS_EmptySet
<1> QED BY <1>1, <1>3, <1>4 DEF Occurrences, Places

LEMMA CountsAdd ==
  ASSUME NEW S, NEW s \in Seq(S), NEW t \in Seq(S), NEW C
  PROVE  Occurrences(s \o t, C) = Occurrences(s, C) + Occurrences(t, C)
<1> DEFINE I == {i \in DOMAIN s : s[i] \in C}
           J == {i \in DOMAIN t : t[i] \in C}
           K == {i \in DOMAIN (s \o t) : (s \o t)[i] \in C}
           move == [j \in J |-> j + Len(s)]
           M == {j + Len(s) : j \in J}
<1>1. /\ Len(s) \in Nat /\ DOMAIN s = 1..Len(s) /\ Len(t) \in Nat /\ DOMAIN t = 1..Len(t)
      /\ DOMAIN (s \o t) = 1..(Len(s) + Len(t))
      /\ \A i \in 1..(Len(s) + Len(t)) : (s \o t)[i] = IF i <= Len(s) THEN s[i] ELSE t[i - Len(s)]
  BY ConcatProperties
<1>2. IsFiniteSet(I) /\ IsFiniteSet(J)
  <2>1. IsFiniteSet(Places(s, C)) /\ IsFiniteSet(Places(t, C))
    BY Counts
  <2> QED BY <2>1 DEF Places
<1>3. IsFiniteSet(M) /\ Cardinality(M) = Cardinality(J)
  <2>1. move \in [J -> M] /\ (\A a, b \in J : move[a] = move[b] => a = b)
    BY <1>1
  <2>2. \A m \in M : \E j \in J : move[j] = m
    OBVIOUS
  <2>3. move \in Bijection(J, M)
    <3> HIDE DEF move, J, M
    <3> QED BY <2>1, <2>2, Fun_IsBij
  <2>4. ExistsBijection(J, M)
    <3> HIDE DEF move, J, M
    <3> QED BY <2>3, Fun_ExistsBij
  <2> HIDE DEF J, M
  <2> QED BY <1>2, <2>4, FS_Bijection
<1>4. K = I \cup M
  <2>1. ASSUME NEW k \in K PROVE k \in I \cup M
    <3>1. CASE k <= Len(s)
      BY <1>1, <3>1
    <3>2. CASE ~(k <= Len(s))
      <4>1. k - Len(s) \in J /\ k = (k - Len(s)) + Len(s)
        BY <1>1, <3>2
      <4> QED BY <4>1
    <3> QED BY <3>1, <3>2
  <2>2. ASSUME NEW i \in I PROVE i \in K
    BY <1>1
  <2>3. ASSUME NEW j \in J PROVE j + Len(s) \in K
    <3>1. j + Len(s) \in 1..(Len(s) + Len(t)) /\ ~(j + Len(s) <= Len(s)) /\ (j + Len(s)) - Len(s) = j
      BY <1>1
    <3> QED BY <1>1, <3>1
  <2> QED BY <2>1, <2>2, <2>3
<1>5. I \cap M = {}
  BY <1>1
<1>6. Cardinality(I) \in Nat /\ Cardinality(J) \in Nat
  BY <1>2, FS_CardinalityType
<1>7. Cardinality(K) = Cardinality(I) + Cardinality(J)
  <2> HIDE DEF I, J, K, M
  <2>1. Cardinality(I \cup M) = Cardinality(I) + Cardinality(M) - Cardinality(I \cap M)
    BY <1>2, <1>3, FS_Union
  <2>2. Cardinality(I \cap M) = 0
    BY <1>5, FS_EmptySet
  <2> QED BY <1>3, <1>4, <1>6, <2>1, <2>2
<1> QED BY <1>7 DEF Occurrences

LEMMA CountsOne ==
  ASSUME NEW x, NEW C
  PROVE  Occurrences(<<x>>, C) = IF x \in C THEN 1 ELSE 0
<1>1. <<x>> \in Seq({x}) /\ Len(<<x>>) = 1 /\ <<x>>[1] = x /\ DOMAIN <<x>> = {1}
  OBVIOUS
<1>2. CASE x \notin C
  <2>1. \A i \in 1..Len(<<x>>) : <<x>>[i] \notin C
    BY <1>1, <1>2
  <2> QED BY <1>1, <1>2, <2>1, Counts
<1>3. CASE x \in C
  <2>1. {i \in DOMAIN <<x>> : <<x>>[i] \in C} = {1}
    BY <1>1, <1>3
  <2> QED BY <1>3, <2>1, FS_Singleton DEF Occurrences
<1> QED BY <1>2, <1>3

(* How many bytes a name takes.                                            *)
LEMMA BytesType ==
  ASSUME NEW S, NEW s \in Seq(S)
  PROVE  Bytes(s) \in Nat /\ Len(s) <= Bytes(s) /\ Bytes(s) <= 2 * Len(s)
<1>1. Occurrences(s, {"w"}) \in 0..Len(s)
  BY Counts, Zenon
<1>2. Len(s) \in Nat
  OBVIOUS
<1> QED BY <1>1, <1>2 DEF Bytes

LEMMA BytesAdd ==
  ASSUME NEW S, NEW s \in Seq(S), NEW t \in Seq(S)
  PROVE  Bytes(s \o t) = Bytes(s) + Bytes(t)
<1>1. Occurrences(s, {"w"}) \in 0..Len(s) /\ Occurrences(t, {"w"}) \in 0..Len(t)
  BY Counts, Zenon
<1> QED BY <1>1, CountsAdd, ConcatProperties DEF Bytes

(* Replacing every character by a text in which as much occurs changes     *)
(* nothing of how often it does.                                           *)
LEMMA FlatCounts ==
  ASSUME NEW S, NEW ss \in Seq(Seq(S)), NEW T, NEW t \in Seq(T), Len(t) = Len(ss), NEW C,
         \A i \in 1..Len(ss) : Occurrences(ss[i], C) = Occurrences(<<t[i]>>, C)
  PROVE  Occurrences(FlattenSeq(ss), C) = Occurrences(t, C)
<1>1. PICK flat \in [0..Len(ss) -> Seq(S)] :
           /\ flat[0] = <<>> /\ FlattenSeq(ss) = flat[Len(ss)]
           /\ \A i \in 1..Len(ss) : flat[i] = flat[i - 1] \o ss[i]
  BY Flattened
<1> DEFINE n == Len(ss)
           Good == {k \in Nat : k <= n => Occurrences(flat[k], C) = Occurrences(SubSeq(t, 1, k), C)}
<1>0. n \in Nat /\ Len(t) = n /\ (\A i \in 1..n : ss[i] \in Seq(S))
  OBVIOUS
<1>2. 0 \in Good
  <2>1. SubSeq(t, 1, 0) = <<>>
    BY SubSeqEmpty
  <2> QED BY <1>1, <2>1
<1>3. ASSUME NEW k \in Nat, k \in Good PROVE k + 1 \in Good
  <2> SUFFICES ASSUME k + 1 <= n
               PROVE  Occurrences(flat[k + 1], C) = Occurrences(SubSeq(t, 1, k + 1), C)
    OBVIOUS
  <2>1. k \in 0..n /\ k + 1 \in 1..n /\ (k + 1) - 1 = k
    <3> HIDE DEF n
    <3> QED BY <1>0
  <2>2. flat[k + 1] = flat[k] \o ss[k + 1] /\ flat[k] \in Seq(S) /\ ss[k + 1] \in Seq(S)
    BY <1>0, <1>1, <2>1
  <2>3. SubSeq(t, 1, k + 1) = SubSeq(t, 1, k) \o <<t[k + 1]>>
    <3>1. 1 \in 1..Len(t) /\ k + 1 \in 1..Len(t)
      BY <1>0, <2>1
    <3> QED BY <2>1, <3>1, SubSeqRecursiveSecond
  <2>4. SubSeq(t, 1, k) \in Seq(T) /\ <<t[k + 1]>> \in Seq(T)
    BY <1>0, <2>1
  <2>5. Occurrences(flat[k + 1], C) = Occurrences(flat[k], C) + Occurrences(ss[k + 1], C)
    <3>1. Occurrences(flat[k] \o ss[k + 1], C) = Occurrences(flat[k], C) + Occurrences(ss[k + 1], C)
      BY <2>2, CountsAdd
    <3> QED BY <2>2, <3>1
  <2>7. Occurrences(SubSeq(t, 1, k + 1), C) = Occurrences(SubSeq(t, 1, k), C) + Occurrences(<<t[k + 1]>>, C)
    <3> DEFINE p == SubSeq(t, 1, k)
               q == <<t[k + 1]>>
    <3> HIDE DEF p, q
    <3>1. Occurrences(p \o q, C) = Occurrences(p, C) + Occurrences(q, C)
      <4>1. p \in Seq(T) /\ q \in Seq(T)
        BY <2>4 DEF p, q
      <4> QED BY <4>1, CountsAdd
    <3> QED BY <2>3, <3>1 DEF p, q
  <2>6. Occurrences(flat[k], C) = Occurrences(SubSeq(t, 1, k), C)
    BY <1>0, <1>3, <2>1
  <2> QED BY <2>1, <2>5, <2>6, <2>7
<1>4. n \in Good
  <2> HIDE DEF Good
  <2> QED BY <1>0, <1>2, <1>3, SetInduction
<1>5. SubSeq(t, 1, n) = t
  BY SubSeqFull
<1> QED BY <1>0, <1>1, <1>4, <1>5

(* What a file name is cut down to: characters of the name it was.         *)
LEMMA Slices ==
  ASSUME NEW S, NEW s \in Seq(S), NEW m \in Nat \ {0}, NEW n \in Int, n <= Len(s)
  PROVE  /\ SubSeq(s, m, n) \in Seq(S)
         /\ Len(SubSeq(s, m, n)) = IF m <= n THEN n - m + 1 ELSE 0
         /\ \A i \in 1..(n - m + 1) : SubSeq(s, m, n)[i] = s[m + i - 1]
<1>1. \A i \in m..n : s[i] \in S
  OBVIOUS
<1> QED BY <1>1, SubSeqProperties

LEMMA Cutting ==
  ASSUME NEW S, NEW s \in Seq(S), NEW room \in Nat
  PROVE  /\ Cut(s, room) \in Seq(S) /\ Bytes(Cut(s, room)) <= room
         /\ \A n \in 0..Len(s) : 2 * n <= room => n <= Len(Cut(s, room))
<1> DEFINE fits == {n \in 0..Len(s) : Bytes(SubSeq(s, 1, n)) <= room}
<1>1. \A n \in 0..Len(s) : /\ SubSeq(s, 1, n) \in Seq(S) /\ Len(SubSeq(s, 1, n)) = n
                           /\ Bytes(SubSeq(s, 1, n)) \in Nat /\ Bytes(SubSeq(s, 1, n)) <= 2 * n
  <2> SUFFICES ASSUME NEW n \in 0..Len(s)
               PROVE  /\ SubSeq(s, 1, n) \in Seq(S) /\ Len(SubSeq(s, 1, n)) = n
                      /\ Bytes(SubSeq(s, 1, n)) \in Nat /\ Bytes(SubSeq(s, 1, n)) <= 2 * n
    OBVIOUS
  <2>1. SubSeq(s, 1, n) \in Seq(S) /\ Len(SubSeq(s, 1, n)) = n
    BY Slices
  <2> DEFINE p == SubSeq(s, 1, n)
  <2> HIDE DEF p
  <2>2. Bytes(p) \in Nat /\ Bytes(p) <= 2 * Len(p)
    <3>1. p \in Seq(S)
      BY <2>1 DEF p
    <3> QED BY <3>1, BytesType
  <2> QED BY <2>1, <2>2 DEF p
<1>2. 0 \in fits
  <2>1. 0 \in 0..Len(s)
    OBVIOUS
  <2> QED BY <1>1, <2>1
<1>3. fits \in SUBSET Nat /\ \A x \in fits : x <= Len(s)
  OBVIOUS
<1>4. Max(fits) \in fits /\ \A n \in fits : n <= Max(fits)
  <2>1. Len(s) \in Nat
    OBVIOUS
  <2> HIDE DEF fits
  <2> QED BY <1>2, <1>3, <2>1, MostIsIn
<1>5. Cut(s, room) = SubSeq(s, 1, Max(fits))
  BY DEF Cut
<1>6. \A n \in 0..Len(s) : 2 * n <= room => n \in fits
  BY <1>1
<1>7. Max(fits) \in 0..Len(s) /\ Bytes(SubSeq(s, 1, Max(fits))) <= room
  BY <1>4
<1> HIDE DEF fits
<1> QED BY <1>1, <1>4, <1>5, <1>6, <1>7

(* A name that is too long keeps at least three characters when it is cut, *)
(* so that it cannot become empty, a dot or two dots.                      *)
LEMMA FitIsPlain ==
  ASSUME NEW S, NEW name \in Seq(S), name \notin {<<>>, <<".">>, <<".", ".">>}
  PROVE  /\ Fit(name) \in Seq(S) /\ Fit(name) \notin {<<>>, <<".">>, <<".", ".">>}
         /\ Bytes(Fit(name)) <= NameLimit
<1> DEFINE dots == {i \in 2..Len(name) : name[i] = "."}
           tail == IF dots = {} THEN <<>> ELSE SubSeq(name, Max(dots), Len(name))
           suffix == IF tail # <<>> /\ Bytes(tail) - 1 <= ExtensionLimit THEN tail ELSE <<>>
           stem == SubSeq(name, 1, Len(name) - Len(suffix))
           kept == Cut(stem, NameLimit - Bytes(suffix))
<1>1. CASE Bytes(name) <= NameLimit
  BY <1>1 DEF Fit
<1>2. CASE ~(Bytes(name) <= NameLimit)
  <2>1. Fit(name) = kept \o suffix
    BY <1>2 DEF Fit
  <2>2. /\ Len(name) \in Nat /\ Bytes(name) \in Nat /\ Bytes(name) <= 2 * Len(name) /\ 6 <= NameLimit
        /\ NameLimit \in Nat /\ ExtensionLimit \in Nat /\ ExtensionLimit + 2 < NameLimit
    BY BytesType, MediaAssumption
  <2>3. dots # {} => Max(dots) \in 2..Len(name)
    <3>1. dots \in SUBSET Nat /\ \A x \in dots : x <= Len(name)
      OBVIOUS
    <3>2. dots # {} => Max(dots) \in dots
      <4> HIDE DEF dots
      <4> QED BY <2>2, <3>1, MostIsIn
    <3> QED BY <3>2
  <2>4. tail \in Seq(S) /\ Len(tail) < Len(name)
    <3>1. CASE dots = {}
      BY <1>2, <2>2, <3>1
    <3>2. CASE dots # {}
      <4> DEFINE m == Max(dots)
      <4>1. m \in 2..Len(name) /\ tail = SubSeq(name, m, Len(name))
        BY <2>3, <3>2
      <4> HIDE DEF m, tail
      <4> QED BY <2>2, <4>1, Slices
    <3> QED BY <3>1, <3>2
  <2> HIDE DEF tail
  <2>5. /\ suffix \in Seq(S) /\ Len(suffix) \in Nat /\ Len(suffix) < Len(name)
        /\ Bytes(suffix) \in Nat /\ Len(suffix) <= Bytes(suffix) /\ Bytes(suffix) <= ExtensionLimit + 1
        /\ Bytes(suffix) <= 2 * Len(suffix)
    <3>1. CASE suffix = tail /\ Bytes(tail) - 1 <= ExtensionLimit
      <4>1. Bytes(tail) \in Nat /\ Len(tail) <= Bytes(tail) /\ Bytes(tail) <= 2 * Len(tail)
        BY <2>4, BytesType
      <4> HIDE DEF suffix
      <4> QED BY <2>2, <2>4, <3>1, <4>1
    <3>2. CASE suffix = <<>>
      <4>1. <<>> \in Seq(S) /\ Len(<<>>) = 0
        OBVIOUS
      <4>2. Bytes(<<>>) \in Nat /\ Bytes(<<>>) <= 2 * Len(<<>>)
        BY <4>1, BytesType
      <4> HIDE DEF suffix
      <4> QED BY <1>2, <2>2, <3>2, <4>1, <4>2
    <3> QED BY <3>1, <3>2
  <2> HIDE DEF suffix
  <2>6. stem \in Seq(S) /\ Len(stem) = Len(name) - Len(suffix)
    <3>1. Len(name) - Len(suffix) \in Nat
      BY <2>2, <2>5
    <3> QED BY <2>2, <2>5, <3>1, Slices
  <2> HIDE DEF stem
  <2>7. /\ kept \in Seq(S) /\ Bytes(kept) <= NameLimit - Bytes(suffix)
        /\ \A n \in 0..Len(stem) : 2 * n <= NameLimit - Bytes(suffix) => n <= Len(kept)
    <3>1. NameLimit - Bytes(suffix) \in Nat
      BY <2>2, <2>5
    <3> QED BY <2>6, <3>1, Cutting
  <2> HIDE DEF kept
  <2>8. kept \o suffix \in Seq(S) /\ Len(kept \o suffix) = Len(kept) + Len(suffix)
    BY <2>5, <2>7, ConcatProperties
  <2>9. Bytes(kept \o suffix) <= NameLimit
    <3>1. Bytes(kept \o suffix) = Bytes(kept) + Bytes(suffix) /\ Bytes(kept) \in Nat
      BY <2>5, <2>7, BytesAdd, BytesType
    <3> QED BY <2>2, <2>5, <2>7, <3>1
  <2>10. 3 <= Len(kept) + Len(suffix)
    <3>0. Len(kept) \in Nat
      BY <2>7
    <3>1. CASE Len(suffix) = 0
      <4>1. 3 \in 0..Len(stem) /\ 2 * 3 <= NameLimit - Bytes(suffix)
        BY <1>2, <2>2, <2>5, <2>6, <3>1
      <4> QED BY <2>7, <3>0, <3>1, <4>1
    <3>2. CASE Len(suffix) = 1
      <4>1. 2 \in 0..Len(stem) /\ 2 * 2 <= NameLimit - Bytes(suffix)
        BY <1>2, <2>2, <2>5, <2>6, <3>2
      <4> QED BY <2>7, <3>0, <3>2, <4>1
    <3>3. CASE Len(suffix) >= 2
      <4>1. 1 \in 0..Len(stem) /\ 2 * 1 <= NameLimit - Bytes(suffix)
        BY <1>2, <2>2, <2>5, <2>6, <3>3
      <4> QED BY <2>7, <3>0, <3>3, <4>1
    <3>4. Len(suffix) = 0 \/ Len(suffix) = 1 \/ Len(suffix) >= 2
      <4>1. \A n \in Nat : n = 0 \/ n = 1 \/ n >= 2
        OBVIOUS
      <4> QED BY <2>5, <4>1
    <3> QED BY <3>1, <3>2, <3>3, <3>4
  <2> DEFINE fitted == kept \o suffix
  <2>11. fitted \in Seq(S) /\ Len(fitted) \in Nat /\ 3 <= Len(fitted) /\ Bytes(fitted) <= NameLimit
    BY <2>8, <2>9, <2>10
  <2> HIDE DEF fitted
  <2>12. fitted \notin {<<>>, <<".">>, <<".", ".">>}
    <3>1. Len(<<>>) = 0 /\ \A x, y : Len(<<x>>) = 1 /\ Len(<<x, y>>) = 2
      OBVIOUS
    <3>2. Len(fitted) # 0 /\ Len(fitted) # 1 /\ Len(fitted) # 2
      <4>1. \A n \in Nat : 3 <= n => n # 0 /\ n # 1 /\ n # 2
        OBVIOUS
      <4> QED BY <2>11, <4>1
    <3>3. fitted # <<>> /\ fitted # <<".">> /\ fitted # <<".", ".">>
      BY <3>1, <3>2
    <3> QED BY <3>3
  <2> QED BY <2>1, <2>11, <2>12 DEF fitted
<1> QED BY <1>1, <1>2

(* A component holds no separator, and what is printed nothing invisible.  *)
LEMMA ComponentsAreBetween ==
  ASSUME NEW S, NEW name \in Seq(S), NEW i \in 1..Len(name)
  PROVE  ComponentAt(name, i) \in Seq(S \ Separators)
<1> DEFINE ends == {j \in i..(Len(name) + 1) : j > Len(name) \/ name[j] \in Separators}
<1>1. Len(name) \in Nat /\ Len(name) + 1 \in ends /\ ends \in SUBSET Nat
  OBVIOUS
<1>2. Min(ends) \in ends /\ \A j \in ends : Min(ends) <= j
  <2> HIDE DEF ends
  <2> QED BY <1>1, LeastIsIn
<1>3. Min(ends) \in i..(Len(name) + 1)
  BY <1>2
<1>4. \A j \in i..(Min(ends) - 1) : name[j] \in S \ Separators
  <2> DEFINE least == Min(ends)
  <2>1. least \in i..(Len(name) + 1) /\ \A j \in i..(Len(name) + 1) : name[j] \in Separators => least <= j
    BY <1>2, <1>3
  <2> HIDE DEF least
  <2>2. \A j \in i..(least - 1) : name[j] \in S \ Separators
    BY <1>1, <2>1
  <2> QED BY <2>2 DEF least
<1>5. SubSeq(name, i, Min(ends) - 1) \in Seq(S \ Separators)
  <2> HIDE DEF ends
  <2> QED BY <1>1, <1>3, <1>4, SubSeqProperties
<1> QED BY <1>5 DEF ComponentAt

LEMMA LastComponents ==
  ASSUME NEW S, NEW name \in Seq(S)
  PROVE  LastComponent(name) \in Seq(S \ Separators)
<1> DEFINE starts == {i \in DOMAIN name : /\ i = 1 \/ name[i - 1] \in Separators
                                          /\ ComponentAt(name, i) \notin {<<>>, <<".">>}}
<1>1. CASE starts = {}
  BY <1>1 DEF LastComponent
<1>2. CASE starts # {}
  <2>1. Len(name) \in Nat /\ starts \in SUBSET Nat /\ \A x \in starts : x <= Len(name)
    OBVIOUS
  <2>2. Max(starts) \in starts
    <3> HIDE DEF starts
    <3> QED BY <1>2, <2>1, MostIsIn
  <2>3. Max(starts) \in 1..Len(name)
    BY <2>2
  <2>4. LastComponent(name) = ComponentAt(name, Max(starts))
    BY <1>2 DEF LastComponent
  <2> QED BY <2>3, <2>4, ComponentsAreBetween
<1> QED BY <1>1, <1>2

LEMMA Stripped ==
  ASSUME NEW S, NEW name \in Seq(S)
  PROVE  Strip(name) \in Seq(S)
<1> DEFINE solid == {i \in DOMAIN name : name[i] # " "}
<1>1. Strip(name) = IF solid = {} THEN <<>> ELSE SubSeq(name, Min(solid), Max(solid))
  BY Zenon DEF Strip
<1>2. solid \subseteq DOMAIN name
  BY Zenon
<1> HIDE DEF solid
<1>3. CASE solid # {}
  <2>1. Len(name) \in Nat /\ DOMAIN name = 1..Len(name)
    OBVIOUS
  <2>2. solid \in SUBSET Nat /\ \A x \in solid : x <= Len(name)
    BY <1>2, <2>1
  <2>3. Max(solid) \in solid /\ Min(solid) \in solid
    BY <1>3, <2>1, <2>2, MostIsIn, LeastIsIn
  <2>4. Max(solid) \in 1..Len(name) /\ Min(solid) \in 1..Len(name)
    BY <1>2, <2>1, <2>3
  <2> QED BY <1>1, <1>3, <2>1, <2>4, Slices
<1> QED BY <1>1, <1>3

LEMMA PrintableOnly ==
  ASSUME NEW S, NEW name \in Seq(S)
  PROVE  Printable(name) \in Seq(S \ {"i"})
<1> DEFINE pieces == [i \in DOMAIN name |-> IF name[i] = "i" THEN <<>> ELSE <<name[i]>>]
<1>1. \A i \in DOMAIN name : pieces[i] \in Seq(S \ {"i"})
  <2> SUFFICES ASSUME NEW i \in DOMAIN name PROVE pieces[i] \in Seq(S \ {"i"})
    OBVIOUS
  <2>1. name[i] \in S
    OBVIOUS
  <2>2. CASE name[i] = "i"
    BY <2>2
  <2>3. CASE name[i] # "i"
    BY <2>1, <2>3
  <2> QED BY <2>2, <2>3
<1>2. pieces \in Seq(Seq(S \ {"i"}))
  <2>1. DOMAIN name = 1..Len(name) /\ Len(name) \in Nat /\ DOMAIN pieces = DOMAIN name
    OBVIOUS
  <2> HIDE DEF pieces
  <2> DEFINE U == Seq(S \ {"i"})
  <2>2. \A i \in 1..Len(name) : pieces[i] \in U
    BY <1>1, <2>1
  <2>3. pieces = [i \in 1..Len(name) |-> pieces[i]]
    BY <2>1 DEF pieces
  <2> HIDE DEF U
  <2>4. pieces \in Seq(U)
    BY <2>1, <2>2, <2>3
  <2> QED BY <2>4 DEF U
<1>3. FlattenSeq(pieces) \in Seq(S \ {"i"})
  <2> DEFINE U == S \ {"i"}
  <2> HIDE DEF pieces, U
  <2>1. PICK flat \in [0..Len(pieces) -> Seq(U)] : FlattenSeq(pieces) = flat[Len(pieces)]
    BY <1>2, Flattened DEF U
  <2>2. Len(pieces) \in Nat
    BY <1>2
  <2> QED BY <2>1, <2>2 DEF U
<1> QED BY <1>3 DEF Printable

(* However it is spelt, a name is made a plain one.                        *)
LEMMA Sanitized ==
  ASSUME NEW S, NEW name \in Seq(S)
  PROVE  SanitizeFilename(name) \in Seq(S \cup {"upload"}) /\ PlainName(SanitizeFilename(name))
<1> DEFINE base == Strip(LastComponent(Printable(name)))
           U == (S \ {"i"}) \ Separators
<1>1. base \in Seq(U)
  BY PrintableOnly, LastComponents, Stripped
<1>2. CASE base \in {<<>>, <<".">>, <<".", ".">>}
  <2>1. SanitizeFilename(name) = <<"upload">>
    BY <1>2 DEF SanitizeFilename, DefaultName
  <2>2. Bytes(<<"upload">>) = 1
    <3>1. Len(<<"upload">>) = 1
      OBVIOUS
    <3> QED BY <3>1, CountsOne DEF Bytes
  <2>3. ToSet(<<"upload">>) = {"upload"}
    BY DEF ToSet
  <2>4. <<"upload">> \in Seq(S \cup {"upload"}) /\ <<"upload">> \notin {<<>>, <<".">>, <<".", ".">>}
    OBVIOUS
  <2> QED BY <2>1, <2>2, <2>3, <2>4, MediaAssumption DEF PlainName, Separators
<1>3. CASE base \notin {<<>>, <<".">>, <<".", ".">>}
  <2>1. SanitizeFilename(name) = Fit(base)
    BY <1>3 DEF SanitizeFilename
  <2> HIDE DEF base
  <2>2. Fit(base) \in Seq(U) /\ Fit(base) \notin {<<>>, <<".">>, <<".", ".">>} /\ Bytes(Fit(base)) <= NameLimit
    <3> HIDE DEF U
    <3> QED BY <1>1, <1>3, FitIsPlain
  <2>3. ToSet(Fit(base)) \subseteq U
    BY <2>2 DEF ToSet
  <2>4. Fit(base) \in Seq(S \cup {"upload"})
    BY <2>2
  <2> QED BY <2>1, <2>2, <2>3, <2>4 DEF PlainName
<1> QED BY <1>2, <1>3

(* A quoted name adds no separator to a URL, so the destination's segments *)
(* stay what they are.                                                     *)
Octets == {"%20", "%22", "%2F", "%5C", "%C3", "%A9"}

LEMMA PercentHides ==
  ASSUME NEW S, NEW c \in S
  PROVE  Percent(c) \in Seq(S \cup Octets) /\ Occurrences(Percent(c), Separators) = 0
<1>1. \/ Percent(c) \in {<<"%20">>, <<"%22">>, <<"%2F">>, <<"%5C">>, <<"%C3", "%A9">>}
      \/ Percent(c) = <<c>> /\ c # "/" /\ c # "\\"
  BY Zenon DEF Percent
<1>2. Percent(c) \in Seq(S \cup Octets)
  <2> DEFINE T == S \cup Octets
  <2>1. "%20" \in T /\ "%22" \in T /\ "%2F" \in T /\ "%5C" \in T /\ "%C3" \in T /\ "%A9" \in T /\ c \in T
    BY Zenon DEF Octets
  <2> HIDE DEF T
  <2>2. \A x, y \in T : <<x>> \in Seq(T) /\ <<x, y>> \in Seq(T)
    OBVIOUS
  <2>3. Percent(c) \in Seq(T)
    BY <1>1, <2>1, <2>2
  <2> QED BY <2>3 DEF T
<1>3. \A i \in 1..Len(Percent(c)) : Percent(c)[i] \notin Separators
  <2>1. CASE Percent(c) = <<c>> /\ c # "/" /\ c # "\\"
    BY <2>1 DEF Separators
  <2>2. CASE Percent(c) \in {<<"%20">>, <<"%22">>, <<"%2F">>, <<"%5C">>, <<"%C3", "%A9">>}
    BY <2>2 DEF Separators
  <2> QED BY <1>1, <2>1, <2>2
<1> QED BY <1>2, <1>3, Counts

LEMMA QuoteHides ==
  ASSUME NEW S, NEW name \in Seq(S)
  PROVE  Quote(name) \in Seq(S \cup Octets) /\ Occurrences(Quote(name), Separators) = 0
<1> DEFINE pieces == [i \in DOMAIN name |-> Percent(name[i])]
           T == S \cup Octets
           calm == [i \in DOMAIN name |-> "a"]
<1>1. DOMAIN name = 1..Len(name) /\ Len(name) \in Nat /\ \A i \in 1..Len(name) : name[i] \in S
  OBVIOUS
<1>2. \A i \in 1..Len(name) : pieces[i] \in Seq(T) /\ Occurrences(pieces[i], Separators) = 0
  BY <1>1, PercentHides
<1> HIDE DEF T
<1>3. pieces \in Seq(Seq(T)) /\ Len(pieces) = Len(name)
  <2> DEFINE U == Seq(T)
  <2>1. pieces = [i \in 1..Len(name) |-> pieces[i]] /\ \A i \in 1..Len(name) : pieces[i] \in U
    BY <1>1, <1>2
  <2> HIDE DEF U, pieces
  <2> QED BY <1>1, <2>1 DEF U
<1>4. calm \in Seq({"a"}) /\ Len(calm) = Len(name) /\ \A i \in 1..Len(name) : calm[i] = "a"
  BY <1>1
<1> HIDE DEF pieces, calm
<1>5. \A i \in 1..Len(pieces) : Occurrences(pieces[i], Separators) = Occurrences(<<calm[i]>>, Separators)
  <2>1. Occurrences(<<"a">>, Separators) = 0
    BY CountsOne DEF Separators
  <2> QED BY <1>2, <1>3, <1>4, <2>1
<1>6. Occurrences(FlattenSeq(pieces), Separators) = Occurrences(calm, Separators)
  BY <1>3, <1>4, <1>5, FlatCounts
<1>7. Occurrences(calm, Separators) = 0
  <2>1. \A i \in 1..Len(calm) : calm[i] \notin Separators
    BY <1>4 DEF Separators
  <2> QED BY <1>4, <2>1, Counts
<1>8. FlattenSeq(pieces) \in Seq(T)
  <2>1. PICK flat \in [0..Len(pieces) -> Seq(T)] : FlattenSeq(pieces) = flat[Len(pieces)]
    BY <1>3, Flattened
  <2> QED BY <1>1, <1>3, <2>1
<1> QED BY <1>6, <1>7, <1>8 DEF Quote, pieces, T

LEMMA UrlKeepsItsSegments ==
  ASSUME NEW S, NEW dest, dest.url \in Seq(S), NEW id \in Seq(S), NEW name \in Seq(S)
  PROVE  Occurrences(BuildUrl(dest, id, name), Separators) = Occurrences(dest.url, Separators)
<1> DEFINE url == dest.url
           filled(piece) == CASE piece = "{id}" -> Quote(id)
                              [] piece = "{filename}" -> Quote(name)
                              [] OTHER -> <<piece>>
           pieces == [i \in DOMAIN url |-> filled(url[i])]
           T == S \cup Octets
<1>1. DOMAIN url = 1..Len(url) /\ Len(url) \in Nat /\ \A i \in 1..Len(url) : url[i] \in S
  OBVIOUS
<1>2. ASSUME NEW piece \in S
      PROVE  filled(piece) \in Seq(T) /\ Occurrences(filled(piece), Separators) = Occurrences(<<piece>>, Separators)
  <2>1. \/ piece \notin Separators /\ \/ filled(piece) = Quote(id)
                                      \/ filled(piece) = Quote(name)
        \/ filled(piece) = <<piece>>
    BY DEF Separators
  <2>2. /\ Quote(id) \in Seq(T) /\ Quote(name) \in Seq(T)
        /\ Occurrences(Quote(id), Separators) = 0 /\ Occurrences(Quote(name), Separators) = 0
    BY QuoteHides
  <2>3. <<piece>> \in Seq(T)
    OBVIOUS
  <2>4. piece \notin Separators => Occurrences(<<piece>>, Separators) = 0
    BY CountsOne
  <2> HIDE DEF filled, T
  <2> QED BY <2>1, <2>2, <2>3, <2>4
<1>3. \A i \in 1..Len(url) : /\ pieces[i] \in Seq(T)
                             /\ Occurrences(pieces[i], Separators) = Occurrences(<<url[i]>>, Separators)
  <2> HIDE DEF filled, T, url
  <2> QED BY <1>1, <1>2
<1>4. pieces \in Seq(Seq(T)) /\ Len(pieces) = Len(url)
  <2> DEFINE U == Seq(T)
  <2> HIDE DEF filled, T, url
  <2>1. pieces = [i \in 1..Len(url) |-> pieces[i]] /\ \A i \in 1..Len(url) : pieces[i] \in U
    BY <1>1, <1>3
  <2> HIDE DEF U, pieces
  <2> QED BY <1>1, <2>1 DEF U
<1>5. BuildUrl(dest, id, name) = FlattenSeq(pieces)
  BY DEF BuildUrl
<1>6. url \in Seq(S)
  OBVIOUS
<1> HIDE DEF pieces, filled, T, url
<1>7. Occurrences(FlattenSeq(pieces), Separators) = Occurrences(url, Separators)
  BY <1>3, <1>4, <1>6, FlatCounts
<1> QED BY <1>5, <1>7 DEF url

(* What a quoted string says, one character after the other.               *)
Hearing(acc, c) == IF c = "\\" /\ ~acc.escaped THEN [acc EXCEPT !.escaped = TRUE]
                      ELSE IF c = "\"" /\ ~acc.escaped THEN [acc EXCEPT !.said = Append(@, "end")]
                      ELSE [escaped |-> FALSE, said |-> Append(acc.said, c)]
Silence == [escaped |-> FALSE, said |-> <<>>]

LEMMA Heard ==
  ASSUME NEW S, NEW text \in Seq(S)
  PROVE  \E upTo : /\ upTo[0] = Silence /\ Unquoted(text) = upTo[Len(text)].said
                   /\ \A i \in 1..Len(text) : upTo[i] = Hearing(upTo[i - 1], text[i])
<1> DEFINE n == Len(text)
           A == [escaped : BOOLEAN, said : Seq(S \cup {"end"})]
           next == [i \in 1..n |-> [acc \in A |-> Hearing(acc, text[i])]]
           Unrolled(f) == [i \in 0..n |-> IF i = 0 THEN Silence ELSE Hearing(f[i - 1], text[i])]
           upTo == CHOOSE f : f = Unrolled(f)
<1>1. n \in Nat /\ \A i \in 1..n : text[i] \in S
  OBVIOUS
<1>2. \A acc \in A, c \in S : Hearing(acc, c) \in A
  <2> SUFFICES ASSUME NEW acc \in A, NEW c \in S PROVE Hearing(acc, c) \in A
    OBVIOUS
  <2> DEFINE T == S \cup {"end"}
  <2>1. c \in T /\ "end" \in T
    OBVIOUS
  <2> HIDE DEF T
  <2>2. acc.said \in Seq(T) /\ acc.escaped \in BOOLEAN /\ acc = [escaped |-> acc.escaped, said |-> acc.said]
    BY DEF T
  <2>3. Append(acc.said, c) \in Seq(T) /\ Append(acc.said, "end") \in Seq(T)
    BY <2>1, <2>2, AppendProperties
  <2>4. Hearing(acc, c) \in [escaped : BOOLEAN, said : Seq(T)]
    BY <2>2, <2>3 DEF Hearing
  <2> QED BY <2>4 DEF T
<1>3. Silence \in A
  BY DEF Silence
<1>4. Unquoted(text) = upTo[n].said
  BY DEF Unquoted, Hearing, Silence
<1> HIDE DEF n, A
<1>5. next \in [1..n -> [A -> A]]
  BY <1>1, <1>2
<1>6. PICK f \in [0..n -> A] : f[0] = Silence /\ \A i \in 1..n : f[i] = next[i][f[i - 1]]
  <2> HIDE DEF next
  <2>1. \E f \in [0..n -> A] : Unrolls(f, Silence, n, next)
    BY <1>1, <1>3, <1>5, Recursion
  <2> QED BY <2>1 DEF Unrolls
<1>7. \A i \in 1..n : f[i] = Hearing(f[i - 1], text[i])
  <2> SUFFICES ASSUME NEW i \in 1..n PROVE f[i] = Hearing(f[i - 1], text[i])
    OBVIOUS
  <2>1. f[i - 1] \in A
    BY <1>1
  <2> QED BY <1>6, <2>1
<1>8. f = Unrolled(f)
  <2>1. \A i \in 0..n : f[i] = IF i = 0 THEN Silence ELSE Hearing(f[i - 1], text[i])
    BY <1>1, <1>6, <1>7
  <2> QED BY <2>1
<1>9. upTo = Unrolled(upTo)
  <2> HIDE DEF Unrolled
  <2> QED BY <1>8
<1> HIDE DEF upTo
<1>10. \A i \in 0..n : upTo[i] = IF i = 0 THEN Silence ELSE Hearing(upTo[i - 1], text[i])
  <2>1. \A i \in 0..n : Unrolled(upTo)[i] = IF i = 0 THEN Silence ELSE Hearing(upTo[i - 1], text[i])
    OBVIOUS
  <2> HIDE DEF Unrolled
  <2> QED BY <1>9, <2>1
<1>11. upTo[0] = Silence /\ \A i \in 1..n : upTo[i] = Hearing(upTo[i - 1], text[i])
  BY <1>1, <1>10
<1> QED BY <1>4, <1>11 DEF n

(* Every piece of a text is found in it, where the pieces before it end.   *)
LEMMA Concatenated ==
  ASSUME NEW S, NEW p \in Seq(S), NEW q \in Seq(S), NEW r, r = p \o q
  PROVE  /\ r \in Seq(S) /\ Len(p) \in Nat /\ Len(q) \in Nat /\ Len(r) = Len(p) + Len(q)
         /\ \A j \in 1..Len(p) : r[j] = p[j]
         /\ \A j \in 1..Len(q) : r[Len(p) + j] = q[j]
<1>1. Len(p) \in Nat /\ Len(q) \in Nat
  OBVIOUS
<1>2. /\ r \in Seq(S) /\ Len(r) = Len(p) + Len(q)
      /\ \A i \in 1..(Len(p) + Len(q)) : r[i] = IF i <= Len(p) THEN p[i] ELSE q[i - Len(p)]
  BY ConcatProperties
<1>3. ASSUME NEW j \in 1..Len(q) PROVE r[Len(p) + j] = q[j]
  <2>1. Len(p) + j \in 1..(Len(p) + Len(q)) /\ ~(Len(p) + j <= Len(p)) /\ (Len(p) + j) - Len(p) = j
    BY <1>1
  <2> QED BY <1>2, <2>1
<1>4. ASSUME NEW j \in 1..Len(p) PROVE r[j] = p[j]
  BY <1>1, <1>2
<1> QED BY <1>1, <1>2, <1>3, <1>4

Begins(s, t) == Len(s) <= Len(t) /\ \A j \in 1..Len(s) : s[j] = t[j]

LEMMA Beginnings ==
  ASSUME NEW T, NEW n \in Nat, NEW flat \in [0..n -> Seq(T)], NEW pieces \in [1..n -> Seq(T)],
         \A i \in 1..n : flat[i] = flat[i - 1] \o pieces[i]
  PROVE  \A k \in 0..n : Begins(flat[k], flat[n])
<1> DEFINE Pre == {k \in Nat : k <= n => Begins(flat[n - k], flat[n])}
<1>1. 0 \in Pre
  BY DEF Begins
<1>2. ASSUME NEW k \in Nat, k \in Pre PROVE k + 1 \in Pre
  <2> SUFFICES ASSUME k + 1 <= n PROVE Begins(flat[n - (k + 1)], flat[n])
    OBVIOUS
  <2>1. PICK i \in 1..n : i = n - k
    OBVIOUS
  <2>2. i - 1 \in 0..n /\ n - (k + 1) = i - 1 /\ i \in 0..n /\ k <= n
    BY <2>1
  <2>3. Begins(flat[i], flat[n])
    BY <1>2, <2>1, <2>2
  <2>4. flat[i] = flat[i - 1] \o pieces[i] /\ flat[i - 1] \in Seq(T) /\ pieces[i] \in Seq(T)
    BY <2>2
  <2>5. /\ Len(flat[i - 1]) \in Nat /\ Len(pieces[i]) \in Nat
        /\ Len(flat[i]) = Len(flat[i - 1]) + Len(pieces[i])
        /\ \A j \in 1..Len(flat[i - 1]) : flat[i][j] = flat[i - 1][j]
    BY <2>4, Concatenated
  <2>6. Len(flat[n]) \in Nat
    <3>1. flat[n] \in Seq(T)
      OBVIOUS
    <3> QED BY <3>1
  <2>7. Begins(flat[i - 1], flat[n])
    BY <2>3, <2>5, <2>6 DEF Begins
  <2> QED BY <2>2, <2>7
<1>3. Nat \subseteq Pre
  <2> HIDE DEF Pre
  <2> QED BY <1>1, <1>2, SetInduction
<1> SUFFICES ASSUME NEW k \in 0..n PROVE Begins(flat[k], flat[n])
  OBVIOUS
<1>4. n - k \in Nat /\ n - k <= n /\ n - (n - k) = k
  OBVIOUS
<1>5. n - k \in Pre
  BY <1>3, <1>4
<1> QED BY <1>4, <1>5

(* So a quoted name says the name.                                         *)
Special(c) == c \in {"\\", "\""}
Escaped(c) == IF Special(c) THEN <<"\\", c>> ELSE <<c>>

LEMMA HearingIt ==
  ASSUME NEW said, NEW c
  PROVE  /\ Special(c) => /\ Hearing([escaped |-> FALSE, said |-> said], "\\") = [escaped |-> TRUE, said |-> said]
                          /\ Hearing([escaped |-> TRUE, said |-> said], c) = [escaped |-> FALSE, said |-> Append(said, c)]
         /\ ~Special(c) => Hearing([escaped |-> FALSE, said |-> said], c) = [escaped |-> FALSE, said |-> Append(said, c)]
<1>1. Hearing([escaped |-> FALSE, said |-> said], "\\") = [[escaped |-> FALSE, said |-> said] EXCEPT !.escaped = TRUE]
  BY DEF Hearing
<1>2. Hearing([escaped |-> TRUE, said |-> said], c) = [escaped |-> FALSE, said |-> Append(said, c)]
  BY DEF Hearing
<1>3. ~Special(c) => c # "\\" /\ c # "\""
  BY Zenon DEF Special
<1>4. ~Special(c) => Hearing([escaped |-> FALSE, said |-> said], c) = [escaped |-> FALSE, said |-> Append(said, c)]
  BY <1>3 DEF Hearing
<1> QED BY <1>1, <1>2, <1>4

LEMMA QuotedSaysTheName ==
  ASSUME NEW S, NEW name \in Seq(S)
  PROVE  Unquoted(QuotedString(name)) = name
<1> DEFINE pieces == [i \in DOMAIN name |-> Escaped(name[i])]
           T == S \cup {"\\"}
           n == Len(name)
<1>1. DOMAIN name = 1..n /\ n \in Nat /\ \A i \in 1..n : name[i] \in S
  OBVIOUS
<1>2. \A i \in 1..n : Escaped(name[i]) \in Seq(T)
  <2>1. \A i \in 1..n : name[i] \in T
    BY <1>1
  <2>2. "\\" \in T
    OBVIOUS
  <2> HIDE DEF T, n
  <2>3. \A x, y \in T : <<x>> \in Seq(T) /\ <<x, y>> \in Seq(T)
    OBVIOUS
  <2> QED BY <2>1, <2>2, <2>3 DEF Escaped
<1>4. QuotedString(name) = FlattenSeq(pieces)
  BY Zenon DEF QuotedString, Escaped, Special
<1> HIDE DEF n
<1>5. pieces = [i \in 1..n |-> Escaped(name[i])]
  BY <1>1
<1> HIDE DEF pieces, T
<1>6. pieces \in [1..n -> Seq(T)]
  BY <1>2, <1>5
<1>7. pieces \in Seq(Seq(T)) /\ Len(pieces) = n
  <2> DEFINE U == Seq(T)
  <2> HIDE DEF U
  <2>1. pieces \in [1..n -> U]
    BY <1>6 DEF U
  <2> QED BY <1>1, <2>1 DEF U
<1>8. PICK flat \in [0..n -> Seq(T)] :
         /\ flat[0] = <<>> /\ FlattenSeq(pieces) = flat[n]
         /\ \A i \in 1..n : flat[i] = flat[i - 1] \o pieces[i]
  <2>1. \E flat \in [0..Len(pieces) -> Seq(T)] :
         /\ flat[0] = <<>> /\ FlattenSeq(pieces) = flat[Len(pieces)]
         /\ \A i \in 1..Len(pieces) : flat[i] = flat[i - 1] \o pieces[i]
    BY <1>7, Flattened
  <2> QED BY <1>7, <2>1
<1>9. \A k \in 0..n : Begins(flat[k], flat[n])
  BY <1>1, <1>6, <1>8, Beginnings
<1> DEFINE text == flat[n]
<1>10. text \in Seq(T) /\ Len(text) \in Nat
  <2>1. text \in Seq(T)
    BY <1>1, <1>8
  <2> QED BY <2>1
<1> HIDE DEF text
<1>11. PICK upTo : /\ upTo[0] = Silence /\ Unquoted(text) = upTo[Len(text)].said
                   /\ \A i \in 1..Len(text) : upTo[i] = Hearing(upTo[i - 1], text[i])
  BY <1>10, Heard
<1> DEFINE Told(k) == [escaped |-> FALSE, said |-> SubSeq(name, 1, k)]
           Good == {k \in Nat : k <= n => upTo[Len(flat[k])] = Told(k)}
<1>12. 0 \in Good
  <2>1. SubSeq(name, 1, 0) = <<>> /\ Len(flat[0]) = 0
    BY <1>8, SubSeqEmpty
  <2> QED BY <1>11, <2>1 DEF Silence
<1>13. ASSUME NEW k \in Nat, k \in Good PROVE k + 1 \in Good
  <2> SUFFICES ASSUME k + 1 <= n PROVE upTo[Len(flat[k + 1])] = Told(k + 1)
    OBVIOUS
  <2>1. PICK i \in 1..n : i = k + 1
    BY <1>1
  <2>2. i \in 1..n /\ i - 1 = k /\ k \in 0..n /\ i \in 0..n /\ k <= n
    BY <1>1, <2>1
  <2>3. PICK m, p, c : m = Len(flat[k]) /\ p = Escaped(c) /\ c = name[i] /\ p = pieces[i] /\ c \in S /\ p \in Seq(T)
    BY <1>1, <1>2, <1>5, <2>2
  <2>4. flat[i] = flat[k] \o p /\ flat[k] \in Seq(T) /\ Begins(flat[i], text)
    BY <1>8, <1>9, <2>2, <2>3 DEF text
  <2>5. /\ Len(flat[i]) = m + Len(p) /\ m \in Nat /\ Len(p) \in Nat
        /\ \A j \in 1..Len(p) : flat[i][m + j] = p[j]
    <3>1. PICK q, r : q = flat[k] /\ r = flat[i]
      OBVIOUS
    <3>2. r = q \o p /\ q \in Seq(T) /\ p \in Seq(T)
      BY <2>3, <2>4, <3>1
    <3>3. /\ Len(q) \in Nat /\ Len(p) \in Nat /\ Len(r) = Len(q) + Len(p)
          /\ \A j \in 1..Len(p) : r[Len(q) + j] = p[j]
      BY <3>2, Concatenated
    <3> QED BY <2>3, <3>1, <3>3
  <2>6. Len(flat[i]) <= Len(text) /\ \A j \in 1..Len(flat[i]) : flat[i][j] = text[j]
    BY <2>4 DEF Begins
  <2>7. ASSUME NEW j \in 1..Len(p)
        PROVE  m + j \in 1..Len(text) /\ (m + j) - 1 = m + (j - 1) /\ text[m + j] = p[j]
    <3>1. m + j \in 1..Len(flat[i]) /\ (m + j) - 1 = m + (j - 1)
      BY <2>5
    <3> QED BY <1>10, <2>5, <2>6, <3>1
  <2>8. upTo[m] = Told(k)
    BY <1>13, <2>2, <2>3
  <2>9. Told(i) = [escaped |-> FALSE, said |-> Append(SubSeq(name, 1, k), c)]
    <3>1. 1 \in 1..Len(name) /\ i \in 1..Len(name)
      BY <1>1, <2>2 DEF n
    <3>2. SubSeq(name, 1, i) = SubSeq(name, 1, i - 1) \o <<c>>
      BY <2>3, <3>1, SubSeqRecursiveSecond
    <3>3. SubSeq(name, 1, k) \in Seq(S)
      BY <1>1, <2>2, Slices DEF n
    <3> QED BY <2>2, <2>3, <3>2, <3>3, AppendIsConcat
  <2>10. CASE Special(c)
    <3>1. Len(p) = 2 /\ p[1] = "\\" /\ p[2] = c
      BY <2>3, <2>10 DEF Escaped
    <3>2. 1 \in 1..Len(p) /\ 2 \in 1..Len(p)
      BY <3>1
    <3>3. /\ m + 1 \in 1..Len(text) /\ (m + 1) - 1 = m /\ text[m + 1] = "\\"
          /\ m + 2 \in 1..Len(text) /\ (m + 2) - 1 = m + 1 /\ text[m + 2] = c
      BY <2>5, <2>7, <3>1, <3>2
    <3>4. upTo[m + 1] = Hearing(upTo[m], "\\") /\ upTo[m + 2] = Hearing(upTo[m + 1], c)
      BY <1>11, <3>3
    <3>5. upTo[m + 1] = [escaped |-> TRUE, said |-> SubSeq(name, 1, k)]
      BY <2>8, <2>10, <3>4, HearingIt, Zenon
    <3>6. upTo[m + 2] = Told(i)
      BY <2>9, <2>10, <3>4, <3>5, HearingIt, Zenon
    <3> QED BY <2>1, <2>5, <3>1, <3>6
  <2>11. CASE ~Special(c)
    <3>1. Len(p) = 1 /\ p[1] = c
      BY <2>3, <2>11 DEF Escaped
    <3>2. m + 1 \in 1..Len(text) /\ (m + 1) - 1 = m /\ text[m + 1] = c
      <4>1. 1 \in 1..Len(p)
        BY <3>1
      <4> QED BY <2>5, <2>7, <3>1, <4>1
    <3>3. upTo[m + 1] = Hearing(upTo[m], c)
      BY <1>11, <3>2
    <3>4. upTo[m + 1] = Told(i)
      BY <2>8, <2>9, <2>11, <3>3, HearingIt, Zenon
    <3> QED BY <2>1, <2>5, <3>1, <3>4
  <2> QED BY <2>10, <2>11
<1>14. n \in Good
  <2> HIDE DEF Good
  <2> QED BY <1>1, <1>12, <1>13, SetInduction
<1>15. upTo[Len(text)].said = SubSeq(name, 1, n)
  BY <1>1, <1>14 DEF text
<1>16. SubSeq(name, 1, n) = name
  BY SubSeqFull DEF n
<1> QED BY <1>4, <1>8, <1>11, <1>15, <1>16 DEF text

----------------------------------------------------------------------------
(* The names of a request are sequences of characters, and whatever was    *)
(* answered names its file plainly.                                        *)
Naming(req) ==
  /\ req.body.name \in Seq(STRING) /\ req.query \in Seq(STRING)
  /\ req.disposition.extended \in Seq(STRING) /\ req.disposition.plain \in Seq(STRING)
NamingInv ==
  /\ at \in {"sent", "judged", "streaming", "answered"} => Naming(request)
  /\ NamedPlainly

(* What is sent is named by characters.                                    *)
LEMMA Namings ==
  /\ \A f \in Files : Naming(PageForm(f)) /\ Naming(ScriptForm(f))
  /\ \A c \in Clients : \A t, credential : Naming(SendFile(t, c.file, credential))
  /\ \A req \in Strays : Naming(req)
<1>1. ASSUME NEW f, f.name \in Seq(STRING), NEW type, NEW credential, NEW accepts
      PROVE  Naming(FormRequest(f, type, credential, accepts))
  <2>1. <<>> \in Seq(STRING)
    BY EmptySeq
  <2> DEFINE req == FormRequest(f, type, credential, accepts)
  <2>2. /\ req.body.name = f.name /\ req.query = <<>> /\ req.disposition.extended = <<>>
        /\ req.disposition.plain = <<>>
    BY DEF FormRequest, Body, NoDisposition
  <2> HIDE DEF req
  <2> QED BY <1>1, <2>1, <2>2 DEF Naming, req
<1>2. \A f \in Files : Naming(PageForm(f)) /\ Naming(ScriptForm(f))
  <2> SUFFICES ASSUME NEW f \in Files PROVE Naming(PageForm(f)) /\ Naming(ScriptForm(f))
    OBVIOUS
  <2>1. Naming(PageForm(f))
    BY <1>1, ConversationAssumption DEF PageForm
  <2> QED BY <2>1 DEF PageForm, ScriptForm, Naming, FormRequest
<1>3. ASSUME NEW f, f.name \in Seq(STRING), NEW t, NEW credential PROVE Naming(SendFile(t, f, credential))
  <2>1. \A type : Naming(FormRequest(f, type, credential, <<"json">>))
    BY <1>1, <1>3
  <2> QED BY <1>3, <2>1 DEF SendFile, Naming, FormRequest, NoDisposition
<1>4. \A req \in Strays : Naming(req)
  BY ConversationAssumption DEF Naming
<1> QED BY <1>2, <1>3, <1>4, ConversationAssumption

(* What is told of a file at the end.                                      *)
LEMMA TellingPlainly ==
  ASSUME Naming(request), record.destination \in DOMAIN Registry, NEW raw
  PROVE  LET o == FileValue(Outcome(raw, request)) IN PlainName(o.name) /\ BackendTold(o)
<1> DEFINE name == IF raw THEN RawName(request.disposition, request.query) ELSE request.body.name
           out == Outcome(raw, request)
           o == FileValue(out)
           S == STRING \cup {"upload", "a"}
<1>1. name \in Seq(S)
  <2> DEFINE d == request.disposition
  <2>1. /\ request.body.name \in Seq(S) /\ request.query \in Seq(S) /\ d.extended \in Seq(S)
        /\ d.plain \in Seq(S) /\ <<"upload">> \in Seq(S)
    BY DEF Naming
  <2> QED BY <2>1 DEF RawName, FilenameFromDisposition, Or, DefaultName
<1>2. /\ out.name = SanitizeFilename(name) /\ out.type # NoType
      /\ DOMAIN out = {"name", "type", "size", "digest", "error"}
  BY KnownTypes DEF Outcome
<1> HIDE DEF name, S, out
<1>3. out.name \in Seq(S \cup {"upload"}) /\ PlainName(out.name)
  BY <1>1, <1>2, Sanitized
<1>4. o.name = out.name /\ o.type = out.type
  BY <1>2, <1>3 DEF FileValue, NoOutcome, PlainName
<1> HIDE DEF o
<1> DEFINE u == Upstream(Dest, <<"a">>, o.name, o.type)
<1>5. Dest.url \in Seq(S \cup {"upload"})
  <2>1. Dest.url \in Seq(STRING)
    BY RegistryAssumption DEF Dest
  <2> QED BY <2>1 DEF S
<1>6. Occurrences(u.url, Separators) = Occurrences(Dest.url, Separators)
  <2>1. <<"a">> \in Seq(S \cup {"upload"})
    BY DEF S
  <2>2. u.url = BuildUrl(Dest, <<"a">>, o.name)
    BY DEF Upstream
  <2>3. PICK T, dest, n : T = S \cup {"upload"} /\ dest = Dest /\ n = o.name
    OBVIOUS
  <2>4. dest.url \in Seq(T) /\ <<"a">> \in Seq(T) /\ n \in Seq(T)
    BY <1>3, <1>4, <1>5, <2>1, <2>3
  <2>5. Occurrences(BuildUrl(dest, <<"a">>, n), Separators) = Occurrences(dest.url, Separators)
    BY <2>4, UrlKeepsItsSegments
  <2> QED BY <2>2, <2>3, <2>5
<1>7. Unquoted(QuotedString(o.name)) = o.name
  BY <1>3, <1>4, QuotedSaysTheName
<1>8. \/ u.part = <<>> /\ u.header = o.type
      \/ u.part = <<[name |-> QuotedString(o.name), type |-> o.type]>>
  BY DEF Upstream
<1>9. /\ o.type \in {u.header} \cup {part.type : part \in ToSet(u.part)}
      /\ \A part \in ToSet(u.part) : Unquoted(part.name) = o.name
  <2> HIDE DEF u
  <2>1. CASE u.part = <<>> /\ u.header = o.type
    BY <2>1 DEF ToSet
  <2>2. CASE u.part = <<[name |-> QuotedString(o.name), type |-> o.type]>>
    <3>1. ToSet(u.part) = {[name |-> QuotedString(o.name), type |-> o.type]}
      BY <2>2 DEF ToSet
    <3> QED BY <1>7, <3>1
  <2> QED BY <1>8, <2>1, <2>2
<1>10. BackendTold(o)
  BY <1>6, <1>9 DEF BackendTold
<1> QED BY <1>3, <1>4, <1>10 DEF o, out

(* Every step keeps it: only the end of an upload answers with a file, of  *)
(* a ticket whose destination is registered.                               *)
LEMMA NamingStep == IInv /\ SilenceInv /\ PromiseInv /\ NamingInv /\ [Next]_vars => NamingInv'
<1> SUFFICES ASSUME IInv, PromiseInv, NamingInv, [Next]_vars PROVE NamingInv'
  OBVIOUS
<1> USE DEF ticket, asked
<1>0. ASSUME at' # "answered", UNCHANGED request, at' \in {"sent", "judged", "streaming"} => at = at' \/ at \in {"sent", "judged", "streaming"}
      PROVE  NamingInv'
  BY <1>0 DEF NamingInv, NamedPlainly, Answered, Naming
<1>20. ASSUME NEW rec, NEW code, Refuse(rec, code), at \in {"sent", "judged"}, UNCHANGED request
       PROVE  NamingInv'
  <2>1. at' = "answered" /\ ToSet(answer'.file) = {}
    BY <1>20, NoFile DEF Refuse, Respond
  <2> QED BY <1>20, <2>1 DEF NamingInv, NamedPlainly, Naming
<1>1. CASE Declare
  BY <1>0, <1>1 DEF Declare
<1>2. CASE OpenPage
  BY <1>0, <1>2 DEF OpenPage
<1>21. ASSUME NEW who, NEW f, NEW req, MaySend, Send(who, f, req), Naming(req) PROVE NamingInv'
  BY <1>21 DEF MaySend, Send, NamingInv, NamedPlainly, Answered, Naming
<1>3. CASE ClientSends
  BY <1>3, <1>21, Namings DEF ClientSends
<1>4. CASE PersonSubmits
  <2>1. PICK f \in Files : \E req \in {PageForm(f), ScriptForm(f)} : MaySend /\ Send("page", f, req)
    BY <1>4 DEF PersonSubmits
  <2> QED BY <2>1, <1>21, Namings
<1>5. CASE StraySends
  BY <1>5, <1>21, Namings DEF StraySends
<1>6. CASE RefuseArrival
  BY <1>6, <1>20 DEF RefuseArrival
<1>7. CASE Judge
  <2>1. CASE at' = "judged"
    BY <1>0, <1>7, <2>1 DEF Judge
  <2>2. CASE at' # "judged"
    BY <1>7, <1>20, <2>2 DEF Judge
  <2> QED BY <2>1, <2>2
<1>8. CASE Redeem
  <2>1. CASE at' = "streaming"
    BY <1>0, <1>8, <2>1 DEF Redeem
  <2>2. CASE at' # "streaming"
    BY <1>8, <1>20, <2>2 DEF Redeem
  <2> QED BY <2>1, <2>2
<1>9. CASE UploadEnds
  <2> DEFINE raw == IsRaw(gw, request)
             out == KeptOutcome(gw.store, Outcome(raw, request))
  <2>1. /\ at = "streaming" /\ Terms(read) = Terms(Ours) /\ SlotRefusal(gw, request, read) = "none"
        /\ Terms(record) = Terms(Ours) /\ "status" \in DOMAIN record
    BY <1>9, Judging DEF UploadEnds, PromiseInv, Passed, IInv, Control
  <2>2. /\ at' = "answered" /\ UNCHANGED request
        /\ \E s \in {"completed", "failed"} : record' = [record EXCEPT !.status = s]
        /\ \/ answer' = SuccessResponse(out)
           \/ \E code : answer' = ErrorResponse(gw, request, TRUE, code)
    <3>1. PICK e \in Endings :
                 /\ record' = Finally(e.code)
                 /\ answer' = IF e.code = "none" THEN SuccessResponse(out)
                                                ELSE ErrorResponse(gw, request, TRUE, e.code)
      BY <1>9 DEF UploadEnds, Respond
    <3>2. at' = "answered" /\ UNCHANGED request
      BY <1>9 DEF UploadEnds, Respond
    <3>3. \E s \in {"completed", "failed"} : record' = [record EXCEPT !.status = s]
      BY <3>1 DEF Finally
    <3>4. answer' = SuccessResponse(out) \/ \E code : answer' = ErrorResponse(gw, request, TRUE, code)
      BY <3>1
    <3> QED BY <3>2, <3>3, <3>4
  <2>3. read.destination \in DOMAIN Registry /\ record.destination = read.destination
    <3>1. SlotRefusals(gw, request, read)[7] = "none"
      BY <2>1, SlotCodes
    <3> QED BY <2>1, <3>1, OurTerms DEF SlotRefusals, Registered
  <2>4. Naming(request)
    BY <2>1 DEF NamingInv
  <2>5. Dest' = Dest
    <3>1. record'.destination = record.destination
      BY <2>2
    <3> QED BY <3>1 DEF Dest
  <2>6. ASSUME NEW o \in ToSet(answer'.file) PROVE PlainName(o.name) /\ BackendTold(o)
    <3>1. CASE answer' = SuccessResponse(out)
      <4>1. out = Outcome(raw, request)
        BY OutcomesComeBack
      <4>2. answer'.file = <<FileValue(out)>>
        BY <3>1 DEF SuccessResponse, NoAnswer
      <4>3. o = FileValue(Outcome(raw, request))
        BY <4>1, <4>2 DEF ToSet
      <4> QED BY <2>3, <2>4, <4>3, TellingPlainly
    <3>2. CASE \E code : answer' = ErrorResponse(gw, request, TRUE, code)
      BY <3>2, NoFile
    <3> QED BY <2>2, <3>1, <3>2
  <2>7. \A o : BackendTold(o)' <=> BackendTold(o)
    BY <2>5 DEF BackendTold
  <2> QED BY <2>2, <2>4, <2>6, <2>7 DEF NamingInv, NamedPlainly, Naming
<1>15. CASE Raises
  <2>1. /\ at' = "answered" /\ UNCHANGED request /\ at \in {"sent", "judged", "streaming"}
        /\ answer' = ServerError
    BY <1>15, Raising DEF asked
  <2>2. ToSet(answer'.file) = {}
    BY <2>1 DEF ServerError, NoAnswer, ToSet
  <2> QED BY <2>1, <2>2 DEF NamingInv, NamedPlainly, Naming
<1>22. ASSUME UNCHANGED <<record, request, answer, at>> PROVE NamingInv'
  BY <1>22 DEF NamingInv, NamedPlainly, Answered, Naming, BackendTold, Dest
<1>10. CASE Drain
  BY <1>10, <1>22 DEF Drain
<1>11. CASE ClientGets
  BY <1>11, <1>22 DEF ClientGets
<1>12. CASE NextRequest
  BY <1>12 DEF NextRequest, NamingInv, NamedPlainly, Answered
<1>13. CASE Meanwhile
  BY <1>0, <1>13 DEF Meanwhile
<1>14. CASE UNCHANGED vars
  BY <1>14, <1>22 DEF vars
<1> QED
  BY <1>1, <1>2, <1>3, <1>4, <1>5, <1>6, <1>7, <1>8, <1>9, <1>10, <1>11, <1>12, <1>13, <1>14,
     <1>15 DEF Next, Raises

(* What completes goes by a plain name, however it was named by whoever    *)
(* sent it: not empty, a dot or two dots, without separators or invisible  *)
(* characters, and no longer than a name may be; and the backend is told   *)
(* that name, as one segment of its URL at most and in a part's header as  *)
(* it is, and the type, although the outcome went through the store.       *)
THEOREM FilesAreNamedPlainly == Spec => []NamedPlainly
<1>1. Init => NamingInv
  BY DEF Init, NamingInv, NamedPlainly, Answered
<1>2. NamingInv => NamedPlainly
  BY DEF NamingInv
<1> QED BY IInvInit, IInvStep, SilenceInit, SilenceStep, PromiseInit, PromiseStep, <1>1, <1>2, NamingStep, PTL DEF Spec
=============================================================================
