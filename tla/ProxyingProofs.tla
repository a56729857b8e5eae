---------------------------- MODULE ProxyingProofs ----------------------------
(***************************************************************************)
(* What module Proxying guarantees whatever headers callers and the        *)
(* backend send.                                                           *)
(***************************************************************************)
EXTENDS Proxying, TLAPS

Stages == {"idle", "sending", "answered", "streaming", "closing", "done"}

-----------------------------------------------------------------------------
(* Headers: what was sent was made of the request as it came, and what was *)
(* passed on of the answer as it came.                                     *)
HeadersInv ==
  /\ stage = "idle" => sent = {}
  /\ stage \in {"idle", "sending"} => returned = {}
  /\ sent = {} \/ sent = Outbound(inbound)
  /\ returned \subseteq FilterResponseHeaders(response)

\* The names under which whose headers are among hs.
NamesOf(hs, whose) == {x.name : x \in {y \in hs : y.of = whose}}

LEMMA NamesFrom ==
  ASSUME NEW mine, NEW other, mine # other, NEW S, NEW T
  PROVE  /\ NamesOf(From(mine, S) \cup From(other, T), mine) = S
         /\ NamesOf(From(other, T) \cup From(mine, S), mine) = S
<1>1. ASSUME NEW n \in S
      PROVE  /\ [name |-> n, of |-> mine] \in From(mine, S)
             /\ [name |-> n, of |-> mine].name = n
             /\ [name |-> n, of |-> mine].of = mine
  BY DEF From
<1>2. \A x \in From(mine, S) : x.name \in S /\ x.of = mine
  BY DEF From
<1>3. \A x \in From(other, T) : x.of # mine
  BY DEF From
<1> DEFINE hs == From(mine, S) \cup From(other, T)
<1>4. S \subseteq NamesOf(hs, mine)
  <2> SUFFICES ASSUME NEW n \in S PROVE n \in NamesOf(hs, mine)
    OBVIOUS
  <2>1. [name |-> n, of |-> mine] \in hs
    BY <1>1
  <2> QED BY <1>1, <2>1 DEF NamesOf
<1>5. NamesOf(hs, mine) \subseteq S
  BY <1>2, <1>3 DEF NamesOf
<1>6. hs = From(other, T) \cup From(mine, S)
  OBVIOUS
<1> QED BY <1>4, <1>5, <1>6

LEMMA OutboundNames ==
  ASSUME NEW h, sent = Outbound(h)
  PROVE  /\ SentNames("caller") = FilterRequestHeaders(h)
         /\ SentNames("ours") = {Key} \cup InjectForwardedHeaders(h)
<1>1. SentNames("caller") = NamesOf(sent, "caller") /\ SentNames("ours") = NamesOf(sent, "ours")
  BY DEF SentNames, NamesOf
<1>2. "caller" # "ours"
  OBVIOUS
<1> QED BY <1>1, <1>2, NamesFrom DEF Outbound

LEMMA HeadersNext == HeadersInv /\ [ProxyNext]_proxyVars => HeadersInv'
<1> SUFFICES ASSUME HeadersInv, [ProxyNext]_proxyVars PROVE HeadersInv'
  OBVIOUS
<1>1. ASSUME NEW h \in Inbounds, Open(h) PROVE HeadersInv'
  BY <1>1 DEF Open, HeadersInv, Outbound
<1>2. ASSUME NEW a \in Answers, BackendAnswers(a) PROVE HeadersInv'
  BY <1>2 DEF BackendAnswers, Sending, HeadersInv
<1>3. CASE \/ UNCHANGED proxyVars \/ BuildFails \/ SendFails \/ BodyBreaks \/ StreamBegins \/ StreamNeverBegins
           \/ \E gone \in BOOLEAN : StreamEnds(gone)
           \/ CloseClient
  BY <1>3 DEF proxyVars, BuildFails, SendFails, BodyBreaks, StreamBegins, StreamNeverBegins,
              StreamEnds, CloseClient, HeadersInv
<1>4. ASSUME NEW a \in Answers, AnswerNotPassedOn(a) PROVE HeadersInv'
  BY <1>4 DEF AnswerNotPassedOn, HeadersInv, Sending
<1> QED BY <1>1, <1>2, <1>3, <1>4 DEF ProxyNext

(* The backend is sent the control plane's own key, each header once, and  *)
(* nothing the caller authenticates with or meant for its own connection,  *)
(* whatever headers the connection header names; nor does the answer bring *)
(* such a header back (filter_request_headers, filter_response_headers).   *)
THEOREM HeadersCorrect == ProxySpec => []OurKeyOnly
<1>1. ProxyInit => HeadersInv
  BY DEF ProxyInit, HeadersInv
<1>2. HeadersInv => OurKeyOnly
  <2> SUFFICES ASSUME HeadersInv PROVE OurKeyOnly
    OBVIOUS
  <2>1. returned \cap (HopByHop \cup response.lists) = {}
    BY DEF HeadersInv, FilterResponseHeaders
  <2>2. CASE sent = {}
    <3>1. SentNames("caller") = {} /\ SentNames("ours") = {}
      BY <2>2 DEF SentNames
    <3> QED BY <2>1, <2>2, <3>1 DEF OurKeyOnly
  <2>3. CASE sent = Outbound(inbound)
    <3>1. /\ SentNames("caller") = FilterRequestHeaders(inbound)
          /\ SentNames("ours") = {Key} \cup InjectForwardedHeaders(inbound)
      BY <2>3, OutboundNames
    <3>2. FilterRequestHeaders(inbound) \cap (Sensitive \cup HopByHop \cup inbound.lists) = {}
      BY DEF FilterRequestHeaders
    <3>3. Key \notin FilterRequestHeaders(inbound)
      BY DEF FilterRequestHeaders, Sensitive
    <3>4. InjectForwardedHeaders(inbound) \cap FilterRequestHeaders(inbound) = {}
      BY DEF InjectForwardedHeaders
    <3> QED BY <2>1, <3>1, <3>2, <3>3, <3>4 DEF OurKeyOnly
  <2> QED BY <2>2, <2>3 DEF HeadersInv
<1> QED BY <1>1, <1>2, HeadersNext, PTL DEF ProxySpec

-----------------------------------------------------------------------------
(* The client and the answer, by how far the request is.                   *)
ClientInv ==
  /\ stage \in Stages
  /\ stage = "idle" => client = "none"
  /\ stage \in {"sending", "answered", "streaming", "closing"} => client = "open"
  /\ stage \in {"idle", "sending"} => upstream = "none"
  /\ stage = "closing" => upstream = "closed"
  /\ stage = "done" => \/ client # "open" /\ upstream # "open"
                       \/ client = "open" /\ (left \/ ~inbound.plain \/ ~response.plain)

LEMMA ClientNext == ClientInv /\ [ProxyNext]_proxyVars => ClientInv'
<1> SUFFICES ASSUME ClientInv, [ProxyNext]_proxyVars PROVE ClientInv'
  OBVIOUS
<1>1. CASE \/ \E h \in Inbounds : Open(h)
           \/ \E a \in Answers : BackendAnswers(a) \/ AnswerNotPassedOn(a)
  BY <1>1 DEF Open, BackendAnswers, AnswerNotPassedOn, Sending, ClientInv, Stages
<1>2. CASE BuildFails \/ SendFails \/ BodyBreaks
  BY <1>2 DEF BuildFails, SendFails, Sending, BodyBreaks, ClientInv, Stages
<1>3. CASE StreamBegins \/ StreamNeverBegins
  BY <1>3 DEF StreamBegins, StreamNeverBegins, ClientInv, Stages
<1>4. CASE \/ \E gone \in BOOLEAN : StreamEnds(gone)
           \/ CloseClient
  BY <1>4 DEF StreamEnds, CloseClient, ClientInv, Stages
<1>5. CASE UNCHANGED proxyVars
  BY <1>5 DEF proxyVars, ClientInv
<1> QED BY <1>1, <1>2, <1>3, <1>4, <1>5 DEF ProxyNext

(* A request whose caller stays to the end closes the answer and the       *)
(* client it opened, whether the backend cannot be reached, breaks off or  *)
(* completes, if the headers of both can be written out again (the except  *)
(* of proxy_http_to_opensandbox, the finally of _stream_and_close); and no *)
(* answer is open without its client.                                      *)
THEOREM ClosingCorrect == ProxySpec => []StayersLeaveNothingOpen
<1>1. ProxyInit => ClientInv
  BY DEF ProxyInit, ClientInv, Stages
<1>2. ClientInv => StayersLeaveNothingOpen
  BY DEF ClientInv, StayersLeaveNothingOpen, Stages
<1> QED BY <1>1, <1>2, ClientNext, PTL DEF ProxySpec
=============================================================================
