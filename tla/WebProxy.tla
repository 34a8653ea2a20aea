------------------------------ MODULE WebProxy ------------------------------
(***************************************************************************)
(* The gRPC-Web proxy (src/server/web_proxy*.go, headers.go): how one      *)
(* request reaches a gRPC method, and how what the gRPC server writes to   *)
(* its http.ResponseWriter reaches the browser.                            *)
(*                                                                         *)
(* grpc.Server.ServeHTTP is external: it refuses what is not a gRPC POST   *)
(* with http.Error, answers an unknown method with a status, and otherwise *)
(* runs the handler, whose headers it sets when the first of them, of a    *)
(* message or of the status is due.  Trailers it sets under a prefix, into *)
(* the same header map, when the handler returns.                          *)
(*                                                                         *)
(* A header map is a function from raw keys <<prefix, name>>; a body is a  *)
(* sequence with one entry, the frame's tag, per byte.                     *)
(***************************************************************************)
EXTENDS Integers, Sequences, FiniteSets

CONSTANTS
  Names,        \* metadata names a handler may set
  MaxMessages,  \* messages it may send
  Sizes         \* bytes of a message

ASSUME SizesAssumption == Sizes \subseteq Nat
ASSUME MaxMessagesAssumption == MaxMessages \in Nat
ASSUME NamesAssumption == IsFiniteSet(Names) /\ Names \cap {"type", "status", "trailer"} = {}

WebTypes == {"grpc-web", "grpc-web-text"}

\* mount: by Build, or by a program that calls GetWebProxy itself, at every path.
Requests ==
  [mount : {"builder", "direct"}, path : {"/api", "/Method", "/api/Method"},
   method : {"POST", "GET"}, type : WebTypes \cup {"grpc", "json"}]

VARIABLES
  request,   \* the request, a member of Requests
  step,      \* "arrived", "proxied", "handling", "answered" or "done"
  outcome,   \* how it was answered
  response,  \* the webProxyResponse, with the writers it wraps
  header,    \* the metadata the handler set as headers,
  trailer,   \* and as trailers
  messages,  \* messages sent
  written    \* every byte written to the proxy or by it (history)

metadata == <<header, trailer, messages>>
vars     == <<request, step, outcome, response, metadata, written>>

Plain(n)   == <<"plain", n>>
Trailer(n) == <<"trailer", n>>   \* http2.TrailerPrefix + n
RawKeys    == {"plain", "trailer"} \X (Names \cup {"type", "status", "trailer"})

\* A header map with one key, and one laid over another.
Header(k, v) == [x \in {k} |-> v]
Over(f, g)   == [k \in DOMAIN f \cup DOMAIN g |-> IF k \in DOMAIN f THEN f[k] ELSE g[k]]

Frame(tag, length) == [i \in 1 .. length |-> tag]
FrameHeader == 5

------------------------------------------------------------------------------
(***************************************************************************)
(* The writers.  response.sent are the headers on the wire.                *)
(***************************************************************************)
\* getWebProxyResponse.
NewResponse(isText) ==
  [text |-> isText, wroteHeaders |-> FALSE, wroteBody |-> FALSE,
   headers |-> <<>>, wrapped |-> <<>>, exposed |-> {}, committed |-> FALSE, sent |-> <<>>,
   trailers |-> <<>>, pending |-> <<>>, buffered |-> <<>>, client |-> <<>>]

\* net/http sends the headers it has with the first byte, code or flush.
Commit(w) == IF w.committed THEN w ELSE [w EXCEPT !.committed = TRUE, !.sent = w.wrapped]

\* The base64 encoder puts out groups of three bytes and keeps what is left.
Emit(w, bytes) ==
  LET all == w.pending \o bytes
      n   == IF w.text THEN Len(all) - (Len(all) % 3) ELSE Len(all)
  IN  [Commit(w) EXCEPT !.buffered = @ \o SubSeq(all, 1, n),
                        !.pending = SubSeq(all, n + 1, Len(all))]

\* Wrong: the encoder is not closed before the flush.
FlushOpen(w) == [Commit(w) EXCEPT !.client = @ \o w.buffered, !.buffered = <<>>]

\* flushWriter and base64ResponseWriter.Flush: close the encoder, then flush.
FlushWriter(w) ==
  [Commit(w) EXCEPT !.client = @ \o w.buffered \o w.pending,
                    !.buffered = <<>>, !.pending = <<>>]

\* Every result of copyHeader, which ranges over the map src: where two raw
\* keys become one name, the later one wins.
CopyHeader(dst, src, skip) ==
  LET kept  == DOMAIN src \ skip
      names == {k[2] : k \in kept}
  IN  {Over([n \in names |-> src[last[n]]], dst) :
         last \in {f \in [names -> kept] : \A n \in names : f[n][2] = n}}

\* Wrong: names on the wire are skipped whatever their prefix.
TrailingSkipsNames(flushed) == {Plain("trailer")} \cup {"plain", "trailer"} \X flushed

\* The keys extractTrailingHeaders skips.
TrailingSkips(flushed) == {Plain("trailer")} \cup {Plain(n) : n \in flushed}

\* The content type a browser is sent back.
WebType(w, type) ==
  IF type # "grpc" THEN type ELSE IF w.text THEN "grpc-web-text" ELSE "grpc-web"

\* Wrong: the exposed names are listed before the headers are copied.
PrepareHeadersEarly(w) ==
  {[w EXCEPT !.wrapped = [n \in DOMAIN f |-> IF n = "type" THEN WebType(w, f[n]) ELSE f[n]],
             !.exposed = DOMAIN w.wrapped \cup {"status"}] :
     f \in CopyHeader(w.wrapped, w.headers, {Plain("trailer")})}

\* prepareHeaders, with the names it exposes to scripts.
PrepareHeaders(w) ==
  {[w EXCEPT !.wrapped = [n \in DOMAIN f |-> IF n = "type" THEN WebType(w, f[n]) ELSE f[n]],
             !.exposed = DOMAIN f \cup {"status"}] :
     f \in CopyHeader(w.wrapped, w.headers, {Plain("trailer")})}

\* webProxyResponse.Write, WriteHeader and Flush.
BeforeWrite(w) == IF w.wroteHeaders THEN {w} ELSE PrepareHeaders(w)
Write(w, bytes) == Emit([w EXCEPT !.wroteHeaders = TRUE, !.wroteBody = TRUE], bytes)
WriteHeader(w) == {[Commit(v) EXCEPT !.wroteHeaders = TRUE] : v \in PrepareHeaders(w)}
\* Wrong: without its workaround.
FlushAlways(w) == FlushWriter(w)
Flush(w) == IF w.wroteHeaders \/ w.wroteBody THEN FlushWriter(w) ELSE w

------------------------------------------------------------------------------
(***************************************************************************)
(* The request's way to the handler.                                       *)
(***************************************************************************)
Init ==
  /\ request \in Requests
  /\ step = "arrived"
  /\ outcome = "none"
  /\ response = NewResponse(FALSE)
  /\ header = {}
  /\ trailer = {}
  /\ messages = 0
  /\ written = <<>>

\* The mux of Build has the proxy at "/api", which matches no other path.
Routed == request.mount = "builder" => request.path = "/api"

NotFound ==
  /\ step = "arrived" /\ ~Routed
  /\ outcome' = "notFound"
  /\ step' = "done"
  /\ UNCHANGED <<request, response, metadata, written>>

\* interceptGrpcRequest: the request's type as the gRPC server sees it.
IsText == request.type = "grpc-web-text"
GrpcType == IF request.type \in WebTypes THEN "grpc" ELSE request.type

Proxy ==
  /\ step = "arrived" /\ Routed
  /\ response' = NewResponse(IsText)
  /\ step' = "proxied"
  /\ UNCHANGED <<request, outcome, metadata, written>>

Accepted == request.method = "POST" /\ GrpcType = "grpc"

\* http.Error.
Refuse ==
  /\ step = "proxied" /\ ~Accepted
  /\ \E w \in WriteHeader([response EXCEPT !.headers = Header(Plain("type"), "text")]) :
       response' = Write(w, Frame("error", 1))
  /\ written' = written \o Frame("error", 1)
  /\ outcome' = "refused"
  /\ step' = "answered"
  /\ UNCHANGED <<request, metadata>>

\* writePendingHeaders.
PendingHeaders(w, names) ==
  [w EXCEPT !.headers = Over(Header(Plain("type"), GrpcType), Over(Header(Plain("trailer"), "declared"),
                             Over([k \in {"plain"} \X names |-> "header"], @)))]

\* writeStatus: pending headers, a flush, and the status and trailers.
WriteStatus(w, names) ==
  LET pended == IF DOMAIN w.headers = {} THEN PendingHeaders(w, header) ELSE w
  IN  [Flush(pended) EXCEPT !.headers =
         Over(Header(Plain("status"), "status"), Over([k \in {"trailer"} \X names |-> "trailer"], @))]

UnknownMethod ==
  /\ step = "proxied" /\ Accepted /\ request.path # "/Method"
  /\ response' = WriteStatus(response, {})
  /\ outcome' = "unknown"
  /\ step' = "answered"
  /\ UNCHANGED <<request, metadata, written>>

Handle ==
  /\ step = "proxied" /\ Accepted /\ request.path = "/Method"
  /\ header' \in SUBSET Names
  /\ outcome' = "handled"
  /\ step' = "handling"
  /\ UNCHANGED <<request, response, trailer, messages, written>>

------------------------------------------------------------------------------
(***************************************************************************)
(* The handler.                                                            *)
(***************************************************************************)
SendHeader ==
  /\ step = "handling" /\ DOMAIN response.headers = {}
  /\ \E w \in WriteHeader(PendingHeaders(response, header)) : response' = Flush(w)
  /\ UNCHANGED <<request, step, outcome, metadata, written>>

\* A message is two writes and a flush.
SendMessage ==
  /\ step = "handling" /\ messages < MaxMessages
  /\ messages' = messages + 1
  /\ \E size \in Sizes :
       LET first == Frame(messages', FrameHeader)
           rest  == Frame(messages', size)
           w     == IF DOMAIN response.headers = {}
                      THEN PendingHeaders(response, header) ELSE response
       IN  /\ \E v \in BeforeWrite(w) : response' = Flush(Write(Write(v, first), rest))
           /\ written' = written \o first \o rest
  /\ UNCHANGED <<request, step, outcome, header, trailer>>

SendStatus ==
  /\ step = "handling"
  /\ trailer' \in SUBSET Names
  /\ response' = WriteStatus(response, trailer')
  /\ step' = "answered"
  /\ UNCHANGED <<request, outcome, header, messages, written>>

\* The browser goes away: no status is written.
Abort ==
  /\ step = "handling"
  /\ outcome' = "aborted"
  /\ step' = "answered"
  /\ UNCHANGED <<request, response, metadata, written>>

------------------------------------------------------------------------------
(***************************************************************************)
(* finishRequest, when grpc.Server.ServeHTTP has returned.                 *)
(***************************************************************************)
WroteAny == response.wroteHeaders \/ response.wroteBody

\* copyTrailersToPayload.
FinishWithFrame ==
  /\ step = "answered" /\ WroteAny
  /\ \E trailers \in CopyHeader(<<>>, response.headers, TrailingSkips(DOMAIN response.wrapped)) :
       LET first == Frame("trailers", FrameHeader)
           rest  == Frame("trailers", Cardinality(DOMAIN trailers))
       IN  /\ response' = FlushWriter(Emit(Emit([response EXCEPT !.trailers = trailers], first), rest))
           /\ written' = written \o first \o rest
  /\ step' = "done"
  /\ UNCHANGED <<request, outcome, metadata>>

FinishWithHeaders ==
  /\ step = "answered" /\ ~WroteAny
  /\ \E w \in WriteHeader(response) : response' = FlushWriter(w)
  /\ step' = "done"
  /\ UNCHANGED <<request, outcome, metadata, written>>

Next ==
  \/ NotFound \/ Proxy \/ Refuse \/ UnknownMethod \/ Handle
  \/ SendHeader \/ SendMessage \/ SendStatus \/ Abort
  \/ FinishWithFrame \/ FinishWithHeaders

Spec == Init /\ [][Next]_vars

------------------------------------------------------------------------------
\* The type invariant.
TypeOK ==
  /\ request \in Requests
  /\ step \in {"arrived", "proxied", "handling", "answered", "done"}
  /\ outcome \in {"none", "notFound", "refused", "unknown", "handled", "aborted"}
  /\ DOMAIN response.headers \subseteq RawKeys
  /\ response.exposed \subseteq Names \cup {"type", "status"}
  /\ DOMAIN response.wrapped \subseteq response.exposed
  /\ Len(response.pending) <= IF response.text THEN 2 ELSE 0
  /\ header \subseteq Names /\ trailer \subseteq Names
  /\ messages \in 0 .. MaxMessages

\* A browser has every byte at once: when the handler goes on after a message,
\* and at the end, nothing is left in the encoder or in net/http's buffer, and
\* what has arrived is what was written, in order, base64 or not.
Prompt == step \in {"handling", "done"} => response.client = written

\* Headers on the wire that a browser's script can read.
Readable(n, value) == n \in DOMAIN response.sent \cap response.exposed /\ response.sent[n] = value

\* All metadata a handler sets arrives, in the right place and once: headers as
\* headers, trailers and the status in the trailer frame, or as headers where
\* there is no payload and no name is both.
MetadataDelivered ==
  step = "done" /\ outcome = "handled" =>
    IF response.client # <<>>
      THEN /\ \A n \in header : Readable(n, "header")
           /\ response.trailers = [n \in trailer \cup {"status"} |-> IF n = "status" THEN "status" ELSE "trailer"]
      ELSE /\ \A n \in header \ trailer : Readable(n, "header")
           /\ \A n \in trailer \ header : Readable(n, "trailer")
           /\ \A n \in trailer \cap header : Readable(n, "header") \/ Readable(n, "trailer")
           /\ Readable("status", "status")

\* A gRPC-Web POST that reaches the proxy is not refused, and is answered in
\* the content type it was asked in, text or binary.
TypeReturned ==
  step = "done" /\ outcome # "notFound" /\ request.method = "POST" /\ request.type \in WebTypes =>
    /\ outcome # "refused"
    /\ outcome # "aborted" => Readable("type", request.type)

\* A service built by Build serves a browser: its methods' URLs, under the
\* proxy's prefix or not, reach their handlers.
BrowserServed ==
  step = "done" /\ request.mount = "builder" /\ request.method = "POST"
    /\ request.type \in WebTypes /\ request.path \in {"/Method", "/api/Method"}
    => outcome \in {"handled", "aborted"}
=============================================================================
