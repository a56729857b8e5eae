-------------------------------- MODULE Proxying --------------------------------
(***************************************************************************)
(* One proxied request (adapter/proxy.py): which headers go through in     *)
(* either direction, and what becomes of the httpx client that is opened   *)
(* for it.  The client outlives the handler: the answer is streamed after  *)
(* the handler has returned, and the stream closes what the handler has    *)
(* opened.  Requests have nothing in common, so one is enough; its caller  *)
(* has been let in and owns the sandbox (module Sandboxes).  ProxyInit and *)
(* so on are named to be checked side by side with Listing and Principals. *)
(***************************************************************************)
CONSTANTS
  Inbounds,  \* requests of callers: [has, lists, websocket, known, plain]
  Answers    \* answers of the backend: [has, lists, plain]

(* Header names, in lower case.  In a request or an answer, has is the set *)
(* of those present and lists what the connection header names (of several *)
(* in a request, the first alone is read); websocket says what the upgrade *)
(* header asks for, known whether the caller's address is.  A request is   *)
(* plain if httpx can build its own from it: a URL it parses, header       *)
(* values in ASCII.  An answer is plain if its header values can be        *)
(* written in latin-1, as Starlette does.                                  *)
Key == "open-sandbox-api-key"
HopByHop == {"connection", "keep-alive", "proxy-authenticate", "proxy-authorization",
             "te", "trailer", "transfer-encoding", "upgrade"}
Sensitive == {"authorization", "cookie", Key}

VARIABLES
  stage,     \* how far the request is
  inbound,   \* the caller's request
  sent,      \* the headers sent to the backend: name, and whose value it is
  response,  \* the backend's answer
  returned,  \* the names of the headers passed on with the answer
  client,    \* the httpx client of this request
  upstream,  \* the backend's answer, as something to read and to close
  left       \* the caller left before the answer was complete

proxyVars == <<stage, inbound, sent, response, returned, client, upstream, left>>

NoInbound == [has |-> {}, lists |-> {}, websocket |-> FALSE, known |-> FALSE,
              plain |-> TRUE]
NoAnswer == [has |-> {}, lists |-> {}, plain |-> TRUE]

-----------------------------------------------------------------------------
(* Headers.                                                                *)

(* Mutant: the caller's credentials go through.                            *)
FilterRequestHeaders_HopByHopOnly(h) == h.has \ ({"host"} \cup HopByHop \cup h.lists)

FilterRequestHeaders(h) ==
  h.has \ ({"host"} \cup HopByHop \cup Sensitive \cup h.lists)

(* X-Forwarded-*, unless the caller has them already.                      *)
InjectForwardedHeaders(h) ==
  ({"x-forwarded-proto"}
     \cup (IF "host" \in h.has THEN {"x-forwarded-host"} ELSE {})
     \cup (IF h.known THEN {"x-forwarded-for"} ELSE {}))
  \ FilterRequestHeaders(h)

From(whose, names) == {[name |-> n, of |-> whose] : n \in names}

Outbound(h) == From("caller", FilterRequestHeaders(h))
                 \cup From("ours", {Key} \cup InjectForwardedHeaders(h))

FilterResponseHeaders(a) == a.has \ (HopByHop \cup a.lists)

-----------------------------------------------------------------------------
(* The request.                                                            *)

(* A websocket is answered 501; for any other request a client is opened,  *)
(* without a timeout.                                                      *)
Open(h) ==
  /\ stage = "idle"
  /\ inbound' = h
  /\ IF h.websocket
     THEN stage' = "done" /\ UNCHANGED <<sent, client>>
     ELSE stage' = "sending" /\ sent' = Outbound(h) /\ client' = "open"
  /\ UNCHANGED <<response, returned, upstream, left>>

(* InvalidURL or UnicodeEncodeError out of build_request: neither is an    *)
(* HTTPError, the caller gets 500, and nothing closes the client.          *)
BuildFails ==
  /\ stage = "sending" /\ ~inbound.plain
  /\ stage' = "done"
  /\ UNCHANGED <<inbound, sent, response, returned, client, upstream, left>>

Sending == stage = "sending" /\ inbound.plain

BackendAnswers(a) ==
  /\ Sending /\ a.plain
  /\ stage' = "answered" /\ response' = a /\ upstream' = "open"
  /\ returned' = FilterResponseHeaders(a)
  /\ UNCHANGED <<inbound, sent, client, left>>

(* The answer is there, but no response can be made of it: 500, and what   *)
(* would have been streamed stays open.                                    *)
AnswerNotPassedOn(a) ==
  /\ Sending /\ ~a.plain
  /\ stage' = "done" /\ response' = a /\ upstream' = "open"
  /\ UNCHANGED <<inbound, sent, returned, client, left>>

(* Mutant: the client is forgotten when the backend cannot be reached.     *)
SendFails_KeepsClient ==
  /\ Sending
  /\ stage' = "done"
  /\ UNCHANGED <<inbound, sent, response, returned, client, upstream, left>>

(* httpx.HTTPError: 502.                                                   *)
SendFails ==
  /\ Sending
  /\ stage' = "done" /\ client' = "closed"
  /\ UNCHANGED <<inbound, sent, response, returned, upstream, left>>

(* The caller leaves while its body is being read: the exception is not    *)
(* one of httpx, and nothing closes the client.                            *)
BodyBreaks ==
  /\ Sending
  /\ stage' = "done" /\ left' = TRUE
  /\ UNCHANGED <<inbound, sent, response, returned, client, upstream>>

StreamBegins ==
  /\ stage = "answered"
  /\ stage' = "streaming"
  /\ UNCHANGED <<inbound, sent, response, returned, client, upstream, left>>

(* The caller leaves before the first chunk is asked for: the generator    *)
(* never runs, nor does its finally.                                       *)
StreamNeverBegins ==
  /\ stage = "answered"
  /\ stage' = "done" /\ left' = TRUE
  /\ UNCHANGED <<inbound, sent, response, returned, client, upstream>>

(* The stream is complete, the backend breaks it off, or the caller leaves *)
(* (gone): the generator's finally closes the answer, then the client.     *)
StreamEnds(gone) ==
  /\ stage = "streaming"
  /\ stage' = "closing" /\ upstream' = "closed"
  /\ left' = gone
  /\ UNCHANGED <<inbound, sent, response, returned, client>>

CloseClient ==
  /\ stage = "closing"
  /\ stage' = "done" /\ client' = "closed"
  /\ UNCHANGED <<inbound, sent, response, returned, upstream, left>>

-----------------------------------------------------------------------------
ProxyInit ==
  /\ stage = "idle"
  /\ inbound = NoInbound /\ sent = {}
  /\ response = NoAnswer /\ returned = {}
  /\ client = "none" /\ upstream = "none"
  /\ left = FALSE

ProxyNext ==
  \/ \E h \in Inbounds : Open(h)
  \/ BuildFails
  \/ \E a \in Answers : BackendAnswers(a) \/ AnswerNotPassedOn(a)
  \/ SendFails
  \/ BodyBreaks
  \/ StreamBegins
  \/ StreamNeverBegins
  \/ \E gone \in BOOLEAN : StreamEnds(gone)
  \/ CloseClient

ProxySpec == ProxyInit /\ [][ProxyNext]_proxyVars

-----------------------------------------------------------------------------
(* Properties.                                                             *)

(* The backend gets one key, the control plane's own, and of each header   *)
(* one value; nothing the caller authenticates with, or meant for its own  *)
(* connection only, leaves with the request, whatever the connection       *)
(* header names; and the answer brings nothing back that is about the      *)
(* connection to the backend.                                              *)
SentNames(whose) == {x.name : x \in {y \in sent : y.of = whose}}
OurKeyOnly ==
  /\ sent # {} => Key \in SentNames("ours")
  /\ SentNames("caller") \cap SentNames("ours") = {}
  /\ SentNames("caller") \cap (Sensitive \cup HopByHop \cup inbound.lists) = {}
  /\ returned \cap (HopByHop \cup response.lists) = {}

(* Whoever waits for an answer to its end leaves nothing open behind, if   *)
(* the headers of request and answer can be written out again; and while   *)
(* there is an answer to stream there is a client to read it with.  (What  *)
(* does stay open: the client of a caller who leaves while the body is     *)
(* being read or before the stream has begun, and that of a request or an  *)
(* answer whose headers cannot be written out.)                            *)
StayersLeaveNothingOpen ==
  /\ stage = "done" /\ ~left /\ inbound.plain /\ response.plain =>
       client # "open" /\ upstream # "open"
  /\ upstream = "open" => client = "open"
=============================================================================
