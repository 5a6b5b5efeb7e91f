--------------------------- MODULE StablecoinProofs ---------------------------
(***************************************************************************)
(* x/stablecoin: the gateway that answers its queries, and its Params item,*)
(* for every number of requests, every set of modules and signers and every*)
(* configured authority.                                                   *)
(*                                                                         *)
(* Of the gateway: the causes of a reply never go away, and so a cause that*)
(* holds when the handler gets its result still holds when it writes it    *)
(* (CauseKept).  Of the item: its two properties lean on each other and on *)
(* the types, so their conjunction is inductive (ParamsSound).             *)
(***************************************************************************)
EXTENDS StablecoinParams, QueryGateway, SequenceTheorems, TLAPS

(* What is true of a request between its steps.                            *)
Sound(r) ==
  /\ Len(replies[r]) = IF handler[r] = "done" THEN 1 ELSE 0
  /\ \A i \in DOMAIN replies[r] : Cause(r, replies[r][i])
  /\ handler[r] = "reply" => result[r] \in Codes /\ Cause(r, result[r])
  /\ rpc[r] \in Codes => Cause(r, rpc[r])

(* Only the end of its context closes a connection that was dialled, after *)
(* its routes are registered, and no route is without one.                 *)
Connected ==
  /\ conn = "closed" /\ way = "endpoint" => done
  /\ way = "client" => conn # "none"
  /\ way = "endpoint" /\ setup = "start" => conn = "none"
  /\ closer # "none" => setup = "registered"
  /\ way = "endpoint" /\ setup \notin {"start", "failed"} => conn # "none"

Inv == TypeOK /\ Connected /\ \A r \in Requests : Sound(r)

(* What no step undoes.                                                    *)
Lasting ==
  /\ way' = way /\ item' = item
  /\ done => done'
  /\ conn = "closed" => conn' = "closed"
  /\ \A r \in Requests : ended[r] # "no" => ended'[r] = ended[r]

(* A cause lasts.                                                          *)
LEMMA CauseKept ==
  ASSUME Lasting, NEW r \in Requests, NEW code \in Codes, Cause(r, code)
  PROVE  Cause(r, code)'
BY DEF Lasting, Cause, Codes

(* A request that a step does not touch.                                   *)
LEMMA SoundKept ==
  ASSUME Inv, Lasting, NEW r \in Requests,
         handler'[r] = handler[r], result'[r] = result[r], replies'[r] = replies[r],
         rpc'[r] = rpc[r]
  PROVE  Sound(r)'
<1>1. Sound(r) /\ replies[r] \in Seq(Codes)
  BY DEF Inv, TypeOK
<1>2. \A i \in DOMAIN replies[r] : replies[r][i] \in Codes
  BY <1>1
<1>3. \A i \in DOMAIN replies[r] : Cause(r, replies[r][i])'
  <2>1. TAKE i \in DOMAIN replies[r]
  <2>2. Cause(r, replies[r][i])
    BY <1>1 DEF Sound
  <2>3. replies'[r][i] = replies[r][i]
    OBVIOUS
  <2>4. PICK code \in Codes : code = replies[r][i]
    BY <1>2
  <2>5. Cause(r, code)'
    BY <2>2, <2>4, CauseKept
  <2>6. QED
    BY <2>3, <2>4, <2>5 DEF Cause
<1>4. handler'[r] = "reply" => result'[r] \in Codes /\ Cause(r, result[r])'
  <2>1. SUFFICES ASSUME handler[r] = "reply"
                 PROVE  result[r] \in Codes /\ Cause(r, result[r])'
    OBVIOUS
  <2>2. PICK code \in Codes : code = result[r]
    BY <1>1, <2>1 DEF Sound
  <2>3. Cause(r, code)'
    BY <1>1, <2>1, <2>2, CauseKept DEF Sound
  <2>4. QED
    BY <2>2, <2>3 DEF Cause
<1>5. rpc'[r] \in Codes => Cause(r, rpc[r])'
  <2>1. SUFFICES ASSUME rpc[r] \in Codes
                 PROVE  Cause(r, rpc[r])'
    OBVIOUS
  <2>2. PICK code \in Codes : code = rpc[r]
    BY <2>1
  <2>3. Cause(r, code)'
    BY <1>1, <2>1, <2>2, CauseKept DEF Sound
  <2>4. QED
    BY <2>2, <2>3 DEF Cause
<1>6. QED
  BY <1>1, <1>3, <1>4, <1>5 DEF Sound

(***************************************************************************)
(* Steps of the registration touch no request.                             *)
(***************************************************************************)
LEMMA RegistrationInv ==
  ASSUME Inv, Lasting, UNCHANGED requests, TypeOK', Connected'
  PROVE  Inv'
<1>1. \A r \in Requests : Sound(r)'
  BY SoundKept DEF requests
<1>2. QED
  BY <1>1 DEF Inv

LEMMA RegisterInv == ASSUME Inv, Register PROVE Inv'
<1>1. UNCHANGED <<way, done, requests, item>>
  BY Zenon DEF Register, RegisterQueryHandlerServer, RegisterQueryHandlerClient, Dial, StartCloser
<1>2. Lasting
  <2>1. CASE UNCHANGED conn
    BY <1>1, <2>1 DEF Lasting, requests
  <2>2. CASE Dial
    BY <1>1, <2>2 DEF Lasting, requests, Dial, Inv, Connected
  <2>3. QED
    BY <2>1, <2>2, Zenon
       DEF Register, RegisterQueryHandlerServer, RegisterQueryHandlerClient, StartCloser
<1>3. Connected'
  <2>1. CASE RegisterQueryHandlerServer
    BY <2>1 DEF RegisterQueryHandlerServer, Inv, Connected
  <2>2. CASE RegisterQueryHandlerClient
    BY <2>2 DEF RegisterQueryHandlerClient, Inv, Connected
  <2>3. CASE Dial
    BY <2>3 DEF Dial, Inv, Connected
  <2>4. CASE StartCloser
    BY <2>4 DEF StartCloser, Inv, Connected
  <2>5. QED
    BY <2>1, <2>2, <2>3, <2>4 DEF Register
<1>4. /\ setup' \in {"start", "dialled", "returning", "registered", "failed"}
      /\ conn' \in {"none", "open", "closed"}
      /\ closer' \in {"none", "waiting", "ended"}
  <2>1. /\ setup \in {"start", "dialled", "returning", "registered", "failed"}
        /\ conn \in {"none", "open", "closed"}
        /\ closer \in {"none", "waiting", "ended"}
    BY Zenon DEF Inv, TypeOK
  <2>2. /\ setup' \in {"dialled", "returning", "registered", "failed"}
        /\ conn' \in {conn, "open"}
        /\ closer' \in {closer, "waiting"}
    BY DEF Register, RegisterQueryHandlerServer, RegisterQueryHandlerClient, Dial, StartCloser
  <2>3. QED
    BY <2>1, <2>2
<1>5. way' \in {"server", "client", "endpoint"}
  BY <1>1, WaysAssumption DEF Inv, TypeOK
<1>6. (OnRoute /\ way # "server" => conn # "none")'
  BY <1>3, <1>5 DEF Connected, OnRoute
<1>7. TypeOK'
  BY <1>1, <1>4, <1>6, Zenon DEF Inv, TypeOK, requests
<1>8. QED
  BY <1>1, <1>2, <1>3, <1>7, RegistrationInv

LEMMA ConnectionInv == ASSUME Inv, CloseConnection \/ ContextDone \/ OwnerCloses PROVE Inv'
<1>1. /\ UNCHANGED <<way, setup, requests, item>>
      /\ done => done'
      /\ conn' \in {conn, "closed"}
      /\ closer' = closer \/ (closer = "waiting" /\ closer' = "ended")
      /\ done' \in BOOLEAN
      /\ closer \in {"none", "waiting", "ended"}
  BY Zenon DEF CloseConnection, ContextDone, OwnerCloses, Inv, TypeOK
<1>2. Lasting
  BY <1>1 DEF Lasting, requests
<1>3. Connected'
  <2>1. CASE CloseConnection
    BY <2>1 DEF CloseConnection, Inv, Connected
  <2>2. CASE ContextDone
    BY <2>2 DEF ContextDone, Inv, Connected
  <2>3. CASE OwnerCloses
    BY <2>3 DEF OwnerCloses, Inv, Connected
  <2>4. QED
    BY <2>1, <2>2, <2>3
<1>4. conn' \in {"none", "open", "closed"} /\ (OnRoute /\ way # "server" => conn # "none")'
  BY <1>1 DEF Inv, TypeOK, OnRoute
<1>5. TypeOK'
  BY <1>1, <1>4, Zenon DEF Inv, TypeOK, requests
<1>6. QED
  BY <1>1, <1>2, <1>3, <1>5, RegistrationInv

(***************************************************************************)
(* Steps of one request.                                                   *)
(***************************************************************************)
LEMMA RequestInv ==
  ASSUME Inv, UNCHANGED <<registration, item>>, NEW r \in Requests,
         \A q \in Requests \ {r} :
           /\ handler'[q] = handler[q] /\ result'[q] = result[q] /\ replies'[q] = replies[q]
           /\ rpc'[q] = rpc[q] /\ ended'[q] = ended[q],
         ended[r] # "no" => ended'[r] = ended[r],
         handler' \in [Requests -> {"idle", "annotate", "call", "wait", "reply", "direct", "done"}],
         ended' \in [Requests -> {"no", "canceled", "deadline"}],
         rpc' \in [Requests -> {"none", "sent", "garbled"} \cup Codes],
         result' \in [Requests -> {"none"} \cup Codes],
         replies' \in [Requests -> Seq(Codes)],
         Lasting => Sound(r)'
  PROVE  Inv'
<1>1. Lasting
  BY DEF Lasting, registration
<1>2. \A q \in Requests : Sound(q)'
  BY <1>1, SoundKept
<1>3. TypeOK'
  BY Zenon DEF Inv, TypeOK, registration, OnRoute
<1>4. Connected'
  BY DEF Inv, Connected, registration
<1>5. QED
  BY <1>2, <1>3, <1>4 DEF Inv

(* A request that goes on without a result or a reply.                     *)
LEMMA MoveInv ==
  ASSUME Inv, NEW r \in Requests, handler[r] \notin {"reply", "done"},
         NEW to \in {"annotate", "call", "wait", "direct"},
         handler' = [handler EXCEPT ![r] = to],
         NEW call \in {"none", "sent", "garbled"},
         rpc' = [rpc EXCEPT ![r] = call] \/ rpc' = rpc,
         UNCHANGED <<registration, ended, result, replies, item>>
  PROVE  Inv'
<1>1. /\ handler \in [Requests -> {"idle", "annotate", "call", "wait", "reply", "direct", "done"}]
      /\ ended \in [Requests -> {"no", "canceled", "deadline"}]
      /\ rpc \in [Requests -> {"none", "sent", "garbled"} \cup Codes]
      /\ result \in [Requests -> {"none"} \cup Codes]
      /\ replies \in [Requests -> Seq(Codes)]
  BY Zenon DEF Inv, TypeOK
<1>2. /\ handler' \in [Requests -> {"idle", "annotate", "call", "wait", "reply", "direct", "done"}]
      /\ rpc' \in [Requests -> {"none", "sent", "garbled"} \cup Codes]
      /\ handler'[r] = to /\ (rpc'[r] = rpc[r] \/ rpc'[r] = call)
      /\ \A q \in Requests \ {r} : handler'[q] = handler[q] /\ rpc'[q] = rpc[q]
  BY <1>1
<1>3. Sound(r)
  BY DEF Inv
<1>4. ASSUME Lasting PROVE Sound(r)'
  <2>1. replies' = replies /\ Len(replies[r]) = 0
    BY <1>3 DEF Sound
  <2>2. DOMAIN replies[r] = {}
    BY <1>1, <2>1
  <2>3. ASSUME rpc'[r] \in Codes PROVE Cause(r, rpc[r])'
    <3>1. rpc'[r] = rpc[r] /\ rpc[r] \in Codes
      BY <1>2, <2>3 DEF Codes
    <3>2. PICK code \in Codes : code = rpc[r]
      BY <3>1
    <3>3. Cause(r, code)'
      BY <1>3, <1>4, <3>1, <3>2, CauseKept DEF Sound
    <3>4. QED
      BY <3>1, <3>2, <3>3 DEF Cause
  <2>4. QED
    BY <1>2, <2>1, <2>2, <2>3 DEF Sound
<1>5. QED
  BY <1>1, <1>2, <1>4, RequestInv

(* A request that gets its result.                                         *)
LEMMA GotInv ==
  ASSUME Inv, NEW r \in Requests, handler[r] \in {"call", "wait"},
         NEW code \in Codes, Cause(r, code), Got(r, code),
         UNCHANGED <<registration, ended, rpc, replies, item>>
  PROVE  Inv'
<1>1. /\ handler \in [Requests -> {"idle", "annotate", "call", "wait", "reply", "direct", "done"}]
      /\ ended \in [Requests -> {"no", "canceled", "deadline"}]
      /\ rpc \in [Requests -> {"none", "sent", "garbled"} \cup Codes]
      /\ result \in [Requests -> {"none"} \cup Codes]
      /\ replies \in [Requests -> Seq(Codes)]
  BY Zenon DEF Inv, TypeOK
<1>2. /\ handler' \in [Requests -> {"idle", "annotate", "call", "wait", "reply", "direct", "done"}]
      /\ result' \in [Requests -> {"none"} \cup Codes]
      /\ handler'[r] = "reply" /\ result'[r] = code
      /\ \A q \in Requests \ {r} : handler'[q] = handler[q] /\ result'[q] = result[q]
  BY <1>1 DEF Got
<1>3. Sound(r)
  BY DEF Inv
<1>4. ASSUME Lasting PROVE Sound(r)'
  <2>1. replies' = replies /\ Len(replies[r]) = 0
    BY <1>3 DEF Sound
  <2>2. DOMAIN replies[r] = {}
    BY <1>1, <2>1
  <2>3. Cause(r, code)'
    BY <1>4, CauseKept
  <2>4. Cause(r, result[r])'
    BY <1>2, <2>3 DEF Cause
  <2>5. ASSUME rpc'[r] \in Codes PROVE Cause(r, rpc[r])'
    <3>1. PICK reply \in Codes : reply = rpc[r]
      BY <2>5
    <3>2. Cause(r, reply)'
      BY <1>3, <1>4, <3>1, CauseKept DEF Sound
    <3>3. QED
      BY <3>1, <3>2 DEF Cause
  <2>6. QED
    BY <1>2, <2>1, <2>2, <2>4, <2>5 DEF Sound
<1>5. QED
  BY <1>1, <1>2, <1>4, RequestInv

(* A request that gets its only reply.                                     *)
LEMMA ReplyInv ==
  ASSUME Inv, NEW r \in Requests, handler[r] # "done",
         NEW code \in Codes, Cause(r, code), Reply(r, code),
         handler' = [handler EXCEPT ![r] = "done"],
         UNCHANGED <<registration, ended, rpc, result, item>>
  PROVE  Inv'
<1>1. /\ handler \in [Requests -> {"idle", "annotate", "call", "wait", "reply", "direct", "done"}]
      /\ ended \in [Requests -> {"no", "canceled", "deadline"}]
      /\ rpc \in [Requests -> {"none", "sent", "garbled"} \cup Codes]
      /\ result \in [Requests -> {"none"} \cup Codes]
      /\ replies \in [Requests -> Seq(Codes)]
  BY Zenon DEF Inv, TypeOK
<1>2. Sound(r)
  BY DEF Inv
<1>3. Len(replies[r]) = 0 /\ replies[r] \in Seq(Codes)
  BY <1>1, <1>2 DEF Sound
<1>4. /\ Append(replies[r], code) \in Seq(Codes)
      /\ Len(Append(replies[r], code)) = 1
      /\ DOMAIN Append(replies[r], code) = {1}
      /\ Append(replies[r], code)[1] = code
  BY <1>3
<1>5. /\ handler' \in [Requests -> {"idle", "annotate", "call", "wait", "reply", "direct", "done"}]
      /\ handler'[r] = "done"
      /\ \A q \in Requests \ {r} : handler'[q] = handler[q]
  BY <1>1
<1>6. /\ replies' \in [Requests -> Seq(Codes)]
      /\ replies'[r] = Append(replies[r], code)
      /\ \A q \in Requests \ {r} : replies'[q] = replies[q]
  BY <1>1, <1>4 DEF Reply
<1>7. ASSUME Lasting PROVE Sound(r)'
  <2>1. Cause(r, code)'
    BY <1>7, CauseKept
  <2>2. \A i \in DOMAIN replies'[r] : Cause(r, replies[r][i])'
    BY <1>4, <1>6, <2>1 DEF Cause
  <2>3. ASSUME rpc'[r] \in Codes PROVE Cause(r, rpc[r])'
    <3>1. PICK reply \in Codes : reply = rpc[r]
      BY <2>3
    <3>2. Cause(r, reply)'
      BY <1>2, <1>7, <3>1, CauseKept DEF Sound
    <3>3. QED
      BY <3>1, <3>2 DEF Cause
  <2>4. QED
    BY <1>4, <1>5, <1>6, <2>2, <2>3 DEF Sound
<1>8. QED
  BY <1>1, <1>5, <1>6, <1>7, RequestInv

(***************************************************************************)
(* The steps of a request and of the service.                              *)
(***************************************************************************)
(* What the store answers.                                                 *)
LEMMA ParamsCause ==
  ASSUME Inv, NEW r \in Requests
  PROVE  Params \in Codes /\ Cause(r, Params)
BY DEF Params, Codes, Cause

(* Why a call on the connection is lost.                                   *)
LEMMA LostCause ==
  ASSUME Inv, NEW r \in Requests, NEW code \in Lost(r)
  PROVE  code \in Codes /\ Cause(r, code)
<1>1. ended[r] \in {"no", "canceled", "deadline"}
  BY DEF Inv, TypeOK
<1>2. (code = "closing" /\ conn = "closed") \/ (code = ended[r] /\ code # "no")
  BY DEF Lost, CallContext
<1>3. QED
  BY <1>1, <1>2 DEF Inv, Connected, Codes, Cause

LEMMA HandleInv == ASSUME Inv, NEW r \in Requests, Handle(r) PROVE Inv'
<1>1. CASE Annotate(r)
  BY <1>1, MoveInv DEF Annotate
<1>2. CASE RejectRequest(r)
  <2>1. "bad request" \in Codes /\ Cause(r, "bad request")
    BY DEF Codes, Cause
  <2>2. QED
    BY <1>2, <2>1, ReplyInv DEF RejectRequest
<1>3. CASE local_request_Query_Params_0(r)
  BY <1>3, ParamsCause, GotInv DEF local_request_Query_Params_0
<1>4. CASE Send(r)
  BY <1>4, MoveInv DEF Send
<1>5. CASE InvokeReturns(r)
  <2>1. /\ handler[r] \in {"call", "wait"}
        /\ UNCHANGED <<registration, ended, rpc, replies, item>>
    BY <1>5 DEF InvokeReturns
  <2>2. PICK code \in Lost(r) \cup ({rpc[r]} \cap Codes) : Got(r, code)
    BY <1>5 DEF InvokeReturns
  <2>3. code \in Codes /\ Cause(r, code)
    BY <2>2, LostCause DEF Inv, Sound
  <2>4. QED
    BY <2>1, <2>2, <2>3, GotInv
<1>6. CASE Respond(r)
  <2>1. handler[r] = "reply" /\ result[r] \in Codes /\ Cause(r, result[r])
    BY <1>6 DEF Respond, Inv, Sound
  <2>2. QED
    BY <1>6, <2>1, ReplyInv DEF Respond
<1>7. CASE DirectAnswer(r)
  <2>1. rpc[r] \in Codes /\ Cause(r, rpc[r]) /\ handler[r] = "direct"
    BY <1>7 DEF DirectAnswer, Inv, Sound
  <2>2. QED
    BY <1>7, <2>1, ReplyInv DEF DirectAnswer
<1>8. QED
  BY <1>1, <1>2, <1>3, <1>4, <1>5, <1>6, <1>7 DEF Handle

LEMMA ArriveInv == ASSUME Inv, NEW r \in Requests, Arrive(r) \/ CallDirectly(r) PROVE Inv'
BY MoveInv DEF Arrive, CallDirectly

LEMMA TransportFailsInv == ASSUME Inv, NEW r \in Requests, TransportFails(r) PROVE Inv'
<1>1. "unavailable" \in Codes /\ Cause(r, "unavailable")
  BY DEF TransportFails, Codes, Cause
<1>2. QED
  BY <1>1, GotInv DEF TransportFails

LEMMA ContextEndsInv == ASSUME Inv, NEW r \in Requests, ContextEnds(r) PROVE Inv'
<1>1. /\ ended[r] = "no"
      /\ \E why \in {"canceled", "deadline"} : ended' = [ended EXCEPT ![r] = why]
      /\ UNCHANGED <<registration, handler, rpc, result, replies, item>>
  BY DEF ContextEnds
<1>2. /\ handler \in [Requests -> {"idle", "annotate", "call", "wait", "reply", "direct", "done"}]
      /\ ended \in [Requests -> {"no", "canceled", "deadline"}]
      /\ rpc \in [Requests -> {"none", "sent", "garbled"} \cup Codes]
      /\ result \in [Requests -> {"none"} \cup Codes]
      /\ replies \in [Requests -> Seq(Codes)]
  BY Zenon DEF Inv, TypeOK
<1>3. /\ ended' \in [Requests -> {"no", "canceled", "deadline"}]
      /\ \A q \in Requests \ {r} : ended'[q] = ended[q]
  BY <1>1, <1>2
<1>4. Lasting => Sound(r)'
  BY <1>1, SoundKept
<1>5. QED
  BY <1>1, <1>2, <1>3, <1>4, RequestInv

LEMMA HandlerInv == ASSUME Inv, NEW r \in Requests, _Query_Params_Handler(r) PROVE Inv'
<1>1. PICK code \in {"undecodable", Params} : rpc' = [rpc EXCEPT ![r] = code]
  BY DEF _Query_Params_Handler
<1>2. UNCHANGED <<registration, handler, ended, result, replies, item>>
  BY DEF _Query_Params_Handler
<1>3. code \in Codes /\ Cause(r, code)
  BY <1>1, ParamsCause DEF Codes, Cause
<1>4. /\ handler \in [Requests -> {"idle", "annotate", "call", "wait", "reply", "direct", "done"}]
      /\ ended \in [Requests -> {"no", "canceled", "deadline"}]
      /\ rpc \in [Requests -> {"none", "sent", "garbled"} \cup Codes]
      /\ result \in [Requests -> {"none"} \cup Codes]
      /\ replies \in [Requests -> Seq(Codes)]
  BY Zenon DEF Inv, TypeOK
<1>5. /\ rpc' \in [Requests -> {"none", "sent", "garbled"} \cup Codes]
      /\ rpc'[r] = code /\ \A q \in Requests \ {r} : rpc'[q] = rpc[q]
  BY <1>1, <1>3, <1>4
<1>6. Sound(r)
  BY DEF Inv
<1>7. ASSUME Lasting PROVE Sound(r)'
  <2>1. Cause(r, code)'
    BY <1>3, <1>7, CauseKept
  <2>2. Cause(r, rpc[r])'
    BY <1>5, <2>1 DEF Cause
  <2>3. \A i \in DOMAIN replies'[r] : Cause(r, replies[r][i])'
    <3>1. TAKE i \in DOMAIN replies'[r]
    <3>2. replies[r] \in Seq(Codes) /\ i \in DOMAIN replies[r]
      BY <1>2, <1>4
    <3>3. PICK reply \in Codes : reply = replies[r][i]
      BY <3>2
    <3>4. Cause(r, reply)'
      BY <1>6, <1>7, <3>2, <3>3, CauseKept DEF Sound
    <3>5. QED
      BY <1>2, <3>3, <3>4 DEF Cause
  <2>4. handler'[r] = "reply" => result'[r] \in Codes /\ Cause(r, result[r])'
    <3>1. SUFFICES ASSUME handler[r] = "reply"
                   PROVE  result[r] \in Codes /\ Cause(r, result[r])'
      BY <1>2
    <3>2. PICK reply \in Codes : reply = result[r]
      BY <1>6, <3>1 DEF Sound
    <3>3. Cause(r, reply)'
      BY <1>6, <1>7, <3>1, <3>2, CauseKept DEF Sound
    <3>4. QED
      BY <1>2, <3>2, <3>3 DEF Cause
  <2>5. QED
    BY <1>2, <1>6, <2>2, <2>3, <2>4 DEF Sound
<1>8. QED
  BY <1>2, <1>4, <1>5, <1>7, RequestInv

LEMMA InitInv == ASSUME Init PROVE Inv
<1>1. TypeOK
  <2>1. <<>> \in Seq(Codes)
    BY EmptySeq
  <2>2. way \in Ways /\ (OnRoute /\ way # "server" => conn # "none")
    BY DEF Init, OnRoute
  <2>3. QED
    BY <2>1, <2>2 DEF Init, TypeOK
<1>2. Connected
  BY DEF Init, Connected
<1>3. ASSUME NEW r \in Requests PROVE Sound(r)
  <2>1. handler[r] = "idle" /\ rpc[r] = "none" /\ replies[r] = <<>>
    BY DEF Init
  <2>2. Len(replies[r]) = 0 /\ DOMAIN replies[r] = {}
    BY <2>1
  <2>3. rpc[r] \notin Codes
    BY <2>1 DEF Codes
  <2>4. QED
    BY <2>1, <2>2, <2>3 DEF Sound
<1>4. QED
  BY <1>1, <1>2, <1>3 DEF Inv

LEMMA NextInv == ASSUME Inv, [Next]_vars PROVE Inv'
<1>1. CASE Next
  <2>1. CASE \E r \in Requests :
               \/ Arrive(r) \/ ContextEnds(r) \/ CallDirectly(r) \/ Handle(r)
               \/ TransportFails(r) \/ _Query_Params_Handler(r)
    BY <2>1, ArriveInv, ContextEndsInv, HandleInv, TransportFailsInv, HandlerInv
  <2>2. CASE Register \/ CloseConnection \/ ContextDone \/ OwnerCloses
    BY <2>2, RegisterInv, ConnectionInv
  <2>3. QED
    BY <1>1, <2>1, <2>2, Zenon DEF Next
<1>2. CASE UNCHANGED vars
  <2>1. Lasting /\ TypeOK' /\ Connected'
    BY <1>2 DEF vars, registration, requests, Inv, TypeOK, Connected, Lasting, OnRoute
  <2>2. QED
    BY <1>2, <2>1, RegistrationInv DEF vars
<1>3. QED
  BY <1>1, <1>2

(* The invariant holds of any set of requests.                             *)
THEOREM GatewayInvariant == Spec => []Inv
<1>1. Init => Inv
  BY InitInv
<1>2. Inv /\ [Next]_vars => Inv'
  BY NextInv
<1>3. QED
  BY <1>1, <1>2, PTL DEF Spec

(* Every variable keeps its type.                                          *)
THEOREM GatewayTypes == Spec => []TypeOK
<1>1. Inv => TypeOK
  BY DEF Inv
<1>2. QED
  BY <1>1, GatewayInvariant, PTL

(* Each request gets one reply, for the reason that the reply gives.       *)
THEOREM RepliesJustified == Spec => []OneReplyWithCause
<1>1. Inv => OneReplyWithCause
  BY DEF Inv, Sound, OneReplyWithCause, OneReply
<1>2. QED
  BY <1>1, GatewayInvariant, PTL

(***************************************************************************)
(* The Params item.                                                        *)
(***************************************************************************)

ParamsSound == ParamsTypeOK /\ StoredByGenesisOrAuthority /\ PanicCause

(* A concatenation has an authorised update when one of its parts has.     *)
LEMMA AuthorisedInConcat ==
  ASSUME NEW s \in Seq(Messages), NEW t \in Seq(Messages)
  PROVE  (\E i \in DOMAIN (s \o t) : Authorised((s \o t)[i]))
           <=> (\E i \in DOMAIN s : Authorised(s[i])) \/ (\E i \in DOMAIN t : Authorised(t[i]))
<1> DEFINE st == s \o t
<1>1. /\ st \in Seq(Messages) /\ Len(st) = Len(s) + Len(t)
      /\ DOMAIN st = 1 .. Len(st) /\ DOMAIN s = 1 .. Len(s) /\ DOMAIN t = 1 .. Len(t)
      /\ Len(s) \in Nat /\ Len(t) \in Nat
  OBVIOUS
<1>2. \A i \in 1 .. Len(s) : st[i] = s[i]
  OBVIOUS
<1>3. \A i \in 1 .. Len(t) : st[Len(s) + i] = t[i] /\ Len(s) + i \in 1 .. Len(st)
  BY <1>1
<1>4. \A i \in 1 .. Len(st) :
        i \in 1 .. Len(s) \/ (i - Len(s) \in 1 .. Len(t) /\ st[i] = t[i - Len(s)])
  BY <1>1
<1> HIDE DEF st
<1>5. (\E i \in DOMAIN s : Authorised(s[i])) => \E i \in DOMAIN st : Authorised(st[i])
  BY <1>1, <1>2
<1>6. (\E i \in DOMAIN t : Authorised(t[i])) => \E i \in DOMAIN st : Authorised(st[i])
  BY <1>1, <1>3
<1>7. (\E i \in DOMAIN st : Authorised(st[i]))
        => (\E i \in DOMAIN s : Authorised(s[i])) \/ (\E i \in DOMAIN t : Authorised(t[i]))
  BY <1>1, <1>2, <1>4
<1>8. QED
  BY <1>5, <1>6, <1>7 DEF st

(* Genesis files, not chains, exist at first.                              *)
LEMMA InitSound == ParamsInit => ParamsSound
<1> SUFFICES ASSUME ParamsInit PROVE ParamsSound
  OBVIOUS
<1>1. ParamsTypeOK
  <2>1. updates \in Seq(Messages)
    BY EmptySeq DEF ParamsInit
  <2>2. file \in Files /\ origin \in Files /\ stored \in BOOLEAN
    BY Zenon DEF ParamsInit
  <2>3. phase = "file" /\ answer = "none" /\ txs \in Nat /\ chains \in Nat
    BY DEF ParamsInit
  <2>4. QED
    BY <2>1, <2>2, <2>3, Zenon DEF ParamsTypeOK
<1>2. StoredByGenesisOrAuthority /\ PanicCause
  BY DEF ParamsInit, StoredByGenesisOrAuthority, PanicCause
<1>3. QED
  BY <1>1, <1>2 DEF ParamsSound

(* A committed transaction stores the item exactly when one of its         *)
(* messages is an authorised update.                                       *)
LEMMA DeliverSound ==
  ASSUME ParamsSound, NEW msgs \in MessageLists, DeliverTx(msgs)
  PROVE  ParamsSound'
<1>1. msgs \in Seq(Messages)
  <2>1. (\E m \in Messages : msgs = <<m>>) \/ (\E m, n \in Messages : msgs = <<m, n>>)
    BY DEF MessageLists
  <2>2. ASSUME NEW m \in Messages, msgs = <<m>> PROVE msgs \in Seq(Messages)
    BY <2>2
  <2>3. ASSUME NEW m \in Messages, NEW n \in Messages, msgs = <<m, n>>
        PROVE  msgs \in Seq(Messages)
    BY <2>3
  <2>4. QED
    BY <2>1, <2>2, <2>3
<1>2. CASE \A i \in DOMAIN msgs : Succeeds(msgs[i])
  <2>1. /\ phase = "running" /\ phase' = phase /\ origin' = origin /\ file' = file
        /\ answer' = answer /\ chains' = chains /\ txs' = txs + 1
        /\ stored' = (stored \/ \E i \in DOMAIN msgs : msgs[i].kind = "update")
        /\ updates' = updates \o msgs
    BY <1>2 DEF DeliverTx, Stores
  <2>2. updates \in Seq(Messages) /\ stored \in BOOLEAN /\ txs \in Nat
    BY DEF ParamsSound, ParamsTypeOK
  <2>3. \A i \in DOMAIN msgs : msgs[i].kind = "update" <=> Authorised(msgs[i])
    BY <1>2 DEF Succeeds, UpdateSucceeds, AuthorityMatches, Authorised
  <2>4. (\E i \in DOMAIN msgs : msgs[i].kind = "update")
          <=> \E i \in DOMAIN msgs : Authorised(msgs[i])
    BY <2>3
  <2>5. (\E i \in DOMAIN updates' : Authorised(updates'[i]))
          <=> \/ \E i \in DOMAIN updates : Authorised(updates[i])
              \/ \E i \in DOMAIN msgs : Authorised(msgs[i])
    BY <1>1, <2>1, <2>2, AuthorisedInConcat
  <2>6. ParamsTypeOK'
    <3>1. updates' \in Seq(Messages)
      BY <1>1, <2>1, <2>2
    <3>2. stored' \in BOOLEAN
      BY <2>1
    <3>3. txs' \in Nat
      BY <2>1, <2>2
    <3>4. QED
      BY <2>1, <3>1, <3>2, <3>3 DEF ParamsSound, ParamsTypeOK
  <2>7. StoredByGenesisOrAuthority'
    BY <2>1, <2>4, <2>5, Zenon DEF ParamsSound, StoredByGenesisOrAuthority, Authorised
  <2>8. PanicCause'
    BY <2>1 DEF PanicCause
  <2>9. QED
    BY <2>6, <2>7, <2>8 DEF ParamsSound
<1>3. CASE ~ \A i \in DOMAIN msgs : Succeeds(msgs[i])
  <2>1. /\ phase = "running" /\ phase' = phase /\ origin' = origin /\ file' = file
        /\ answer' = answer /\ chains' = chains /\ txs' = txs + 1
        /\ stored' = stored /\ updates' = updates
    BY <1>3 DEF DeliverTx
  <2>2. ParamsTypeOK'
    <3>1. txs' \in Nat
      <4>1. txs \in Nat
        BY DEF ParamsSound, ParamsTypeOK
      <4>2. QED
        BY <2>1, <4>1
    <3>2. QED
      BY <2>1, <3>1, Zenon DEF ParamsSound, ParamsTypeOK
  <2>3. StoredByGenesisOrAuthority' /\ PanicCause'
    BY <2>1, Zenon DEF ParamsSound, StoredByGenesisOrAuthority, PanicCause, Authorised
  <2>4. QED
    BY <2>2, <2>3 DEF ParamsSound
<1>4. QED
  BY <1>2, <1>3

(* Every step keeps ParamsSound.                                                 *)
LEMMA NextSound == ParamsSound /\ [ParamsNext]_paramsVars => ParamsSound'
<1> SUFFICES ASSUME ParamsSound, [ParamsNext]_paramsVars PROVE ParamsSound'
  OBVIOUS
<1>1. CASE StartChain
  <2>1. /\ origin' = file /\ file' = file /\ file \in Files
        /\ updates' = <<>> /\ answer' = "none" /\ chains' = chains + 1 /\ txs' = 0
        /\ chains \in Nat
    BY <1>1 DEF StartChain, ParamsSound, ParamsTypeOK
  <2>2. updates' \in Seq(Messages) /\ ~ \E i \in DOMAIN updates' : Authorised(updates'[i])
    <3>1. updates' \in Seq(Messages) /\ DOMAIN updates' = {}
      BY <2>1, EmptySeq
    <3>2. QED
      BY <3>1
  <2>3. chains' \in Nat /\ txs' \in Nat
    BY <2>1
  <2>4. CASE Stablecoin \in file.modules /\ ~file.parses
    <3>1. phase' = "panicked" /\ stored' = FALSE
      BY <1>1, <2>4 DEF StartChain
    <3>2. ParamsTypeOK'
      BY <2>1, <2>2, <2>3, <3>1, Zenon DEF ParamsTypeOK
    <3>3. StoredByGenesisOrAuthority' /\ PanicCause'
      BY <2>1, <2>2, <2>4, <3>1 DEF StoredByGenesisOrAuthority, PanicCause
    <3>4. QED
      BY <3>2, <3>3 DEF ParamsSound
  <2>5. CASE ~(Stablecoin \in file.modules /\ ~file.parses)
    <3>1. phase' = "running" /\ stored' = (Stablecoin \in file.modules)
      BY <1>1, <2>5 DEF StartChain
    <3>2. ParamsTypeOK'
      <4>1. stored' \in BOOLEAN
        BY <3>1
      <4>2. QED
        BY <2>1, <2>2, <2>3, <3>1, <4>1, Zenon DEF ParamsTypeOK
    <3>3. StoredByGenesisOrAuthority' /\ PanicCause'
      BY <2>1, <2>2, <2>5, <3>1, Zenon DEF StoredByGenesisOrAuthority, PanicCause
    <3>4. QED
      BY <3>2, <3>3 DEF ParamsSound
  <2>6. QED
    BY <2>4, <2>5
<1>2. ASSUME NEW msgs \in MessageLists, DeliverTx(msgs) PROVE ParamsSound'
  BY <1>2, DeliverSound
<1>3. ASSUME NEW given \in BOOLEAN, QueryParams(given) PROVE ParamsSound'
  <2>1. /\ phase' = phase /\ origin' = origin /\ file' = file /\ stored' = stored
        /\ updates' = updates /\ chains' = chains /\ txs' = txs
        /\ answer' \in {"params", "invalid request"}
    BY <1>3 DEF QueryParams, Answer
  <2>2. ParamsTypeOK'
    BY <2>1 DEF ParamsSound, ParamsTypeOK
  <2>3. StoredByGenesisOrAuthority' /\ PanicCause'
    BY <2>1, Zenon DEF ParamsSound, StoredByGenesisOrAuthority, PanicCause, Authorised
  <2>4. QED
    BY <2>2, <2>3 DEF ParamsSound
<1>4. ASSUME NEW modules \in SUBSET Modules, Export(modules) PROVE ParamsSound'
  <2>1. /\ origin' = origin /\ stored' = stored /\ updates' = updates /\ chains' = chains
        /\ txs' = txs /\ answer' = answer /\ phase = "running"
    BY <1>4 DEF Export
  <2>2. CASE Stablecoin \in modules /\ ~stored
    <3>1. phase' = "panicked" /\ file' = file
      BY <1>4, <2>2 DEF Export
    <3>2. ParamsTypeOK'
      BY <2>1, <3>1 DEF ParamsSound, ParamsTypeOK
    <3>3. StoredByGenesisOrAuthority' /\ PanicCause'
      BY <2>1, <2>2, <3>1, Zenon DEF ParamsSound, StoredByGenesisOrAuthority, PanicCause, Authorised
    <3>4. QED
      BY <3>2, <3>3 DEF ParamsSound
  <2>3. CASE ~(Stablecoin \in modules /\ ~stored)
    <3>1. phase' = "file" /\ file' = [modules |-> modules, parses |-> TRUE]
      BY <1>4, <2>3 DEF Export
    <3>2. ParamsTypeOK'
      BY <2>1, <3>1 DEF ParamsSound, ParamsTypeOK, Files
    <3>3. StoredByGenesisOrAuthority' /\ PanicCause'
      BY <3>1 DEF StoredByGenesisOrAuthority, PanicCause
    <3>4. QED
      BY <3>2, <3>3 DEF ParamsSound
  <2>4. QED
    BY <2>2, <2>3
<1>5. CASE UNCHANGED paramsVars
  <2>1. /\ phase' = phase /\ origin' = origin /\ file' = file /\ stored' = stored
        /\ updates' = updates /\ chains' = chains /\ txs' = txs /\ answer' = answer
    BY <1>5 DEF paramsVars
  <2>2. ParamsTypeOK'
    BY <2>1 DEF ParamsSound, ParamsTypeOK
  <2>3. StoredByGenesisOrAuthority' /\ PanicCause'
    BY <2>1, Zenon DEF ParamsSound, StoredByGenesisOrAuthority, PanicCause, Authorised
  <2>4. QED
    BY <2>2, <2>3 DEF ParamsSound
<1>6. QED
  BY <1>1, <1>2, <1>3, <1>4, <1>5 DEF ParamsNext

(* Every reachable state is ParamsSound.                                         *)
LEMMA AlwaysSound == ParamsSpec => []ParamsSound
  BY InitSound, NextSound, PTL DEF ParamsSpec

(* The type invariant.                                                     *)
THEOREM ParamsTypes == ParamsSpec => []ParamsTypeOK
<1>1. ParamsSound => ParamsTypeOK
  BY DEF ParamsSound
<1>2. QED
  BY <1>1, AlwaysSound, PTL

(* In every chain the Params item is there exactly when the genesis had it *)
(* or an authorised update was committed: whatever the transactions of     *)
(* UpdateParams (keeper/msg_update_params.go), nobody else stores it.      *)
THEOREM ItemOrigin == ParamsSpec => []StoredByGenesisOrAuthority
<1>1. ParamsSound => StoredByGenesisOrAuthority
  BY DEF ParamsSound
<1>2. QED
  BY <1>1, AlwaysSound, PTL

(* A start or an export of any chain panics only for a genesis without a   *)
(* parsing section of the module that no authorised update repaired        *)
(* (InitGenesis and ExportGenesis of module/module.go).                    *)
THEOREM PanicExplained == ParamsSpec => []PanicCause
<1>1. ParamsSound => PanicCause
  BY DEF ParamsSound
<1>2. QED
  BY <1>1, AlwaysSound, PTL

=============================================================================
