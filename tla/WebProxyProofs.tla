--------------------------- MODULE WebProxyProofs ---------------------------
(***************************************************************************)
(* Theorems about the gRPC-Web proxy, for every set of metadata names, any *)
(* number of messages and every size of a message.                         *)
(*                                                                         *)
(* The argument follows the bytes and the headers apart.  Bytes: what the  *)
(* client has, what net/http buffers and what the base64 encoder holds, in *)
(* that order, are at all times everything written (HeldInv), and a flush  *)
(* moves all of it to the client.  Headers: they are copied to the wire    *)
(* once, from a map whose keys are known at each step of the gRPC server   *)
(* (HandlingInv, AnsweredInv), so that what is on the wire is known too.   *)
(***************************************************************************)
EXTENDS WebProxy, TLAPS, SequenceTheorems, FiniteSetTheorems

\* A writer, by its fields and by what its base64 encoder may hold.
Tags   == Nat \cup {"error", "trailers"}
Fields == {"text", "wroteHeaders", "wroteBody", "headers", "wrapped", "exposed", "committed",
           "sent", "trailers", "pending", "buffered", "client"}

IsWriter(w) ==
  /\ DOMAIN w = Fields
  /\ {w.text, w.wroteHeaders, w.wroteBody, w.committed} \subseteq BOOLEAN
  /\ {w.pending, w.buffered, w.client} \subseteq Seq(Tags)
  /\ Len(w.pending) <= IF w.text THEN 2 ELSE 0

\* The bytes a writer was given, in the order of the places they are in.
Held(w) == (w.client \o w.buffered) \o w.pending

\* The fields no write and no flush touches.
Same(v, w) ==
  /\ v.text = w.text /\ v.wroteHeaders = w.wroteHeaders /\ v.wroteBody = w.wroteBody
  /\ v.headers = w.headers /\ v.wrapped = w.wrapped /\ v.exposed = w.exposed
  /\ v.trailers = w.trailers

\* A write or a flush sends the headers, unless they are sent.
Commits(v, w) == v.committed /\ v.sent = IF w.committed THEN w.sent ELSE w.wrapped

------------------------------------------------------------------------------
\* The names a copied header map gets, and what one of them becomes.
Kept(src, skip) == {k[2] : k \in DOMAIN src \ skip}

Copy(f, n, src, skip) == \E k \in DOMAIN src \ skip : k[2] = n /\ f[n] = src[k]

\* A copy has the kept names, each with the value of one of its keys.
LEMMA Copied ==
  ASSUME NEW dst, NEW src, NEW skip, NEW f \in CopyHeader(dst, src, skip),
         DOMAIN src \subseteq RawKeys
  PROVE  /\ DOMAIN f = Kept(src, skip) \cup DOMAIN dst
         /\ \A n \in Kept(src, skip) : Copy(f, n, src, skip)
<1> DEFINE kept == DOMAIN src \ skip
           names == Kept(src, skip)
<1>1. PICK last \in [names -> kept] :
        /\ \A n \in names : last[n][2] = n
        /\ f = Over([n \in names |-> src[last[n]]], dst)
  BY DEF CopyHeader, Kept
<1> DEFINE g == [n \in names |-> src[last[n]]]
<1>2. DOMAIN g = names /\ \A n \in names : g[n] = src[last[n]]
  OBVIOUS
<1> HIDE DEF g, names, kept
<1>3. f = Over(g, dst) /\ DOMAIN g = names
  BY <1>1, <1>2 DEF g
<1>4. f = [k \in names \cup DOMAIN dst |-> IF k \in names THEN g[k] ELSE dst[k]]
  BY <1>3 DEF Over
<1>5. \A n \in names : f[n] = src[last[n]] /\ last[n] \in kept /\ last[n][2] = n
  BY <1>1, <1>2, <1>4
<1>6. \A n \in names : \E k \in kept : k[2] = n /\ f[n] = src[k]
  BY <1>5
<1> QED
  BY <1>4, <1>6 DEF names, kept, Copy

LEMMA CopiedFunction ==
  ASSUME NEW dst, NEW src, NEW skip, NEW f \in CopyHeader(dst, src, skip)
  PROVE  f = [n \in DOMAIN f |-> f[n]]
BY DEF CopyHeader, Over

------------------------------------------------------------------------------
(***************************************************************************)
(* The inductive invariant.                                                *)
(***************************************************************************)
\* The keys a header map may have: a prefix only marks a name of Names.
HeaderKeys == {"plain"} \X (Names \cup {"type", "status", "trailer"}) \cup {"trailer"} \X Names

\* Where the request is.
ControlInv ==
  /\ request \in Requests
  /\ step \in {"arrived", "proxied", "handling", "answered", "done"}
  /\ outcome \in {"none", "notFound", "refused", "unknown", "handled", "aborted"}
  /\ messages \in 0 .. MaxMessages

\* Which keys the header maps may have.
KeysInv ==
  /\ DOMAIN response.headers \subseteq HeaderKeys
  /\ response.exposed \subseteq Names \cup {"type", "status"}
  /\ DOMAIN response.wrapped \subseteq response.exposed
  /\ header \subseteq Names /\ trailer \subseteq Names

\* Nothing is lost, doubled or out of order.
HeldInv == written \in Seq(Tags) /\ Held(response) = written

\* Headers are on the wire when the proxy has written them.
FlagInv ==
  /\ response.wroteBody => response.wroteHeaders
  /\ response.committed = response.wroteHeaders

\* The value of a key when the pending headers, the status and trailers are set.
Declared(k) ==
  IF k = Plain("type") THEN "grpc" ELSE IF k = Plain("trailer") THEN "declared"
  ELSE IF k = Plain("status") THEN "status" ELSE IF k[1] = "plain" THEN "header" ELSE "trailer"

PendedKeys(names) == {Plain("type"), Plain("trailer")} \cup {"plain"} \X names
StatusKeys(names, others) ==
  {Plain("status")} \cup {"trailer"} \X others \cup PendedKeys(names)

Pended(w)   == w.headers = [k \in PendedKeys(header) |-> Declared(k)]
Statused(w) == w.headers = [k \in StatusKeys(header, trailer) |-> Declared(k)]

\* Nothing is on the wire, or the pending headers are, each readable.
Unsent(w) == ~w.wroteHeaders /\ w.wrapped = <<>> /\ w.client = <<>>
Sent(w) ==
  /\ w.wroteHeaders
  /\ w.sent = w.wrapped
  /\ DOMAIN w.wrapped = {"type"} \cup header
  /\ w.wrapped["type"] = WebType(w, "grpc")
  /\ \A n \in header : w.wrapped[n] = "header"
  /\ DOMAIN w.wrapped \subseteq w.exposed

Flushed(w) == w.buffered = <<>> /\ w.pending = <<>>

\* Until the gRPC server has the request nothing has been written.
StartInv ==
  step \in {"arrived", "proxied"} =>
    /\ outcome = "none"
    /\ response = NewResponse(response.text)
    /\ header = {} /\ trailer = {} /\ written = <<>>

\* The writer encodes when the request asked for text.
TextInv == step # "arrived" /\ outcome # "notFound" => response.text = IsText

\* Between two calls of the handler everything written is flushed, and the headers
\* are all on the wire, as pending headers, or all unset.
HandlingInv ==
  step = "handling" =>
    /\ Accepted /\ outcome = "handled"
    /\ Flushed(response)
    /\ \/ Unsent(response) /\ DOMAIN response.headers = {}
       \/ Sent(response) /\ Pended(response)

\* What finishRequest finds: the status and the trailers are set, except where the
\* client went away, and on the wire are the pending headers or nothing.
AnsweredInv ==
  step = "answered" =>
    /\ outcome \in {"refused", "unknown", "handled", "aborted"}
    /\ outcome = "refused" <=> ~Accepted
    /\ outcome = "refused" => response.wroteHeaders
    /\ ~response.wroteHeaders => Unsent(response) /\ Flushed(response)
    /\ outcome \in {"unknown", "handled"} =>
         /\ Statused(response)
         /\ response.wroteHeaders => Sent(response)

DoneInv == Prompt /\ MetadataDelivered /\ TypeReturned

Inv ==
  /\ ControlInv /\ KeysInv
  /\ IsWriter(response) /\ HeldInv /\ FlagInv
  /\ StartInv /\ TextInv /\ HandlingInv /\ AnsweredInv /\ DoneInv

------------------------------------------------------------------------------
(***************************************************************************)
(* What the writers do with bytes.                                         *)
(***************************************************************************)
LEMMA CommitKeeps ==
  ASSUME NEW w, IsWriter(w)
  PROVE  /\ IsWriter(Commit(w)) /\ Same(Commit(w), w) /\ Commits(Commit(w), w)
         /\ Commit(w).client = w.client /\ Commit(w).buffered = w.buffered
         /\ Commit(w).pending = w.pending
<1>1. CASE w.committed
  BY <1>1 DEF Commit, IsWriter, Same, Commits
<1>2. CASE ~w.committed
  <2> DEFINE v == [w EXCEPT !.committed = TRUE, !.sent = w.wrapped]
  <2>1. Commit(w) = v
    BY <1>2 DEF Commit
  <2>2. /\ DOMAIN v = Fields
        /\ v.committed = TRUE /\ v.sent = w.wrapped
        /\ v.text = w.text /\ v.wroteHeaders = w.wroteHeaders /\ v.wroteBody = w.wroteBody
        /\ v.headers = w.headers /\ v.wrapped = w.wrapped /\ v.exposed = w.exposed
        /\ v.trailers = w.trailers /\ v.pending = w.pending /\ v.buffered = w.buffered
        /\ v.client = w.client
    BY DEF IsWriter, Fields
  <2> QED
    BY <1>2, <2>1, <2>2 DEF IsWriter, Same, Commits
<1> QED
  BY <1>1, <1>2 DEF IsWriter

\* A sequence cut in two.
LEMMA Cut ==
  ASSUME NEW s \in Seq(Tags), NEW n \in 0 .. Len(s)
  PROVE  /\ SubSeq(s, 1, n) \in Seq(Tags) /\ SubSeq(s, n + 1, Len(s)) \in Seq(Tags)
         /\ Len(SubSeq(s, n + 1, Len(s))) = Len(s) - n
         /\ SubSeq(s, 1, n) \o SubSeq(s, n + 1, Len(s)) = s
<1>1. Len(s) \in Nat /\ \A i \in 1 .. Len(s) : s[i] \in Tags
  BY LenProperties, ElementOfSeq
<1>2. SubSeq(s, 1, n) \in Seq(Tags)
  BY <1>1, SubSeqProperties
<1>3. SubSeq(s, n + 1, Len(s)) \in Seq(Tags) /\ Len(SubSeq(s, n + 1, Len(s))) = Len(s) - n
  <2>1. \A i \in n + 1 .. Len(s) : s[i] \in Tags
    BY <1>1
  <2>2. n + 1 \in Int /\ Len(s) \in Int
    BY <1>1
  <2>3. Len(SubSeq(s, n + 1, Len(s))) = IF n + 1 <= Len(s) THEN Len(s) - (n + 1) + 1 ELSE 0
    BY <2>1, <2>2, SubSeqProperties
  <2> QED
    BY <1>1, <2>1, <2>2, <2>3, SubSeqProperties
<1>4. SubSeq(s, 1, n) \o SubSeq(s, n + 1, Len(s)) = SubSeq(s, 1, Len(s))
  <2>1. 1 \in 1 .. Len(s) + 1 /\ n \in 1 - 1 .. Len(s) /\ Len(s) \in n .. Len(s)
    BY <1>1
  <2> QED
    BY <2>1, ConcatAdjacentSubSeq
<1> QED
  BY <1>2, <1>3, <1>4, SubSeqFull

LEMMA Associative == \A x, y, z \in Seq(Tags) : (x \o y) \o z = x \o (y \o z)
OBVIOUS

\* Bytes written are held, behind those before them.
LEMMA EmitKeeps ==
  ASSUME NEW w, IsWriter(w), NEW bytes \in Seq(Tags)
  PROVE  /\ IsWriter(Emit(w, bytes)) /\ Same(Emit(w, bytes), w) /\ Commits(Emit(w, bytes), w)
         /\ Held(Emit(w, bytes)) = Held(w) \o bytes
<1> DEFINE c   == Commit(w)
           all == w.pending \o bytes
           n   == IF w.text THEN Len(all) - (Len(all) % 3) ELSE Len(all)
           out  == SubSeq(all, 1, n)
           rest == SubSeq(all, n + 1, Len(all))
           v   == [c EXCEPT !.buffered = @ \o out, !.pending = rest]
<1>1. Emit(w, bytes) = v
  BY DEF Emit
<1>2. /\ IsWriter(c) /\ Same(c, w) /\ Commits(c, w)
      /\ c.client = w.client /\ c.buffered = w.buffered /\ c.pending = w.pending
  BY CommitKeeps
<1>3. w.pending \in Seq(Tags) /\ w.buffered \in Seq(Tags) /\ w.client \in Seq(Tags) /\ w.text \in BOOLEAN
  BY DEF IsWriter
<1>4. all \in Seq(Tags) /\ Len(all) \in Nat
  BY <1>3, ConcatProperties, LenProperties
<1>5. n \in 0 .. Len(all) /\ Len(all) - n <= IF w.text THEN 2 ELSE 0
  <2>1. \A k \in Nat : k % 3 \in 0 .. 2 /\ k % 3 <= k
    OBVIOUS
  <2> HIDE DEF all
  <2> QED
    BY <1>3, <1>4, <2>1
<1> HIDE DEF all, n
<1>6. /\ out \in Seq(Tags) /\ rest \in Seq(Tags) /\ out \o rest = all
      /\ Len(rest) <= IF w.text THEN 2 ELSE 0
  BY <1>4, <1>5, Cut
<1> HIDE DEF out, rest, c
<1>7. /\ DOMAIN v = Fields
      /\ v.buffered = c.buffered \o out /\ v.pending = rest
      /\ v.committed = c.committed /\ v.sent = c.sent
      /\ v.text = c.text /\ v.wroteHeaders = c.wroteHeaders /\ v.wroteBody = c.wroteBody
      /\ v.headers = c.headers /\ v.wrapped = c.wrapped /\ v.exposed = c.exposed
      /\ v.trailers = c.trailers /\ v.client = c.client
  BY <1>2 DEF IsWriter, Fields
<1> HIDE DEF v
<1>8. Same(v, w) /\ Commits(v, w)
  BY <1>2, <1>7 DEF Same, Commits
<1>9. v.buffered \in Seq(Tags)
  BY <1>2, <1>3, <1>6, <1>7, ConcatProperties
<1>10. IsWriter(v)
  BY <1>2, <1>3, <1>6, <1>7, <1>9 DEF IsWriter, Same
<1>11. Held(v) = Held(w) \o bytes
  <2>1. Held(v) = (w.client \o (w.buffered \o out)) \o rest
    BY <1>2, <1>7 DEF Held
  <2>2. out \o rest = w.pending \o bytes
    BY <1>6 DEF all
  <2>3. (w.client \o (w.buffered \o out)) \o rest
          = ((w.client \o w.buffered) \o w.pending) \o bytes
    <3>1. /\ w.client \in Seq(Tags) /\ w.buffered \in Seq(Tags) /\ w.pending \in Seq(Tags)
          /\ out \in Seq(Tags) /\ rest \in Seq(Tags) /\ bytes \in Seq(Tags)
      BY <1>3, <1>6
    <3>2. PICK a, b, p, o, r \in Seq(Tags) :
            a = w.client /\ b = w.buffered /\ p = w.pending /\ o = out /\ r = rest
      BY <3>1
    <3>3. o \o r = p \o bytes
      BY <3>2, <2>2, Zenon
    <3>4. a \o b \in Seq(Tags)
      BY ConcatProperties
    <3>5. a \o (b \o o) = (a \o b) \o o
      BY Associative, Zenon
    <3>6. ((a \o b) \o o) \o r = (a \o b) \o (o \o r)
      BY <3>4, Associative, Zenon
    <3>7. ((a \o b) \o p) \o bytes = (a \o b) \o (p \o bytes)
      BY <3>4, Associative, Zenon
    <3> QED
      BY <3>2, <3>3, <3>5, <3>6, <3>7, Zenon
  <2> QED
    BY <2>1, <2>3 DEF Held
<1> QED
  BY <1>1, <1>8, <1>10, <1>11

\* After a flush the client has every byte held.
LEMMA FlushKeeps ==
  ASSUME NEW w, IsWriter(w)
  PROVE  /\ IsWriter(FlushWriter(w)) /\ Same(FlushWriter(w), w) /\ Commits(FlushWriter(w), w)
         /\ Flushed(FlushWriter(w))
         /\ FlushWriter(w).client = Held(w) /\ Held(FlushWriter(w)) = Held(w)
<1> DEFINE c == Commit(w)
           v == [c EXCEPT !.client = @ \o w.buffered \o w.pending, !.buffered = <<>>, !.pending = <<>>]
<1>1. FlushWriter(w) = v
  BY DEF FlushWriter
<1>2. /\ IsWriter(c) /\ Same(c, w) /\ Commits(c, w)
      /\ c.client = w.client /\ c.buffered = w.buffered /\ c.pending = w.pending
  BY CommitKeeps
<1> HIDE DEF c
<1>3. /\ DOMAIN v = Fields
      /\ v.client = c.client \o w.buffered \o w.pending /\ v.buffered = <<>> /\ v.pending = <<>>
      /\ v.committed = c.committed /\ v.sent = c.sent
      /\ v.text = c.text /\ v.wroteHeaders = c.wroteHeaders /\ v.wroteBody = c.wroteBody
      /\ v.headers = c.headers /\ v.wrapped = c.wrapped /\ v.exposed = c.exposed
      /\ v.trailers = c.trailers
  BY <1>2 DEF IsWriter, Fields
<1> HIDE DEF v
<1>4. Same(v, w) /\ Commits(v, w) /\ Flushed(v) /\ v.client = Held(w)
  BY <1>2, <1>3 DEF Same, Commits, Flushed, Held
<1>5. Held(w) \in Seq(Tags)
  <2>1. w.pending \in Seq(Tags) /\ w.buffered \in Seq(Tags) /\ w.client \in Seq(Tags)
    BY DEF IsWriter
  <2> QED
    BY <2>1, ConcatProperties DEF Held
<1>6. Held(v) = Held(w)
  BY <1>3, <1>4, <1>5, ConcatEmptySeq DEF Held
<1>7. IsWriter(v)
  <2>1. <<>> \in Seq(Tags) /\ Len(<<>>) = 0
    OBVIOUS
  <2> QED
    BY <1>2, <1>3, <1>4, <1>5, <2>1 DEF IsWriter, Same
<1> QED
  BY <1>1, <1>4, <1>6, <1>7

------------------------------------------------------------------------------
(***************************************************************************)
(* What the writers do with headers.                                       *)
(***************************************************************************)
\* The fields that copying headers leaves alone.
SameBytes(v, w) ==
  /\ v.text = w.text /\ v.wroteBody = w.wroteBody
  /\ v.headers = w.headers /\ v.trailers = w.trailers
  /\ v.pending = w.pending /\ v.buffered = w.buffered /\ v.client = w.client

\* The wrapped writer has w's headers, and exposes them.
Copies(wrapped, exposed, w) ==
  /\ DOMAIN wrapped = Kept(w.headers, {Plain("trailer")}) \cup DOMAIN w.wrapped
  /\ exposed = DOMAIN wrapped \cup {"status"}
  /\ \A n \in Kept(w.headers, {Plain("trailer")}) :
       \E k \in DOMAIN w.headers \ {Plain("trailer")} :
         /\ k[2] = n
         /\ wrapped[n] = IF n = "type" THEN WebType(w, w.headers[k]) ELSE w.headers[k]

LEMMA PrepareKeeps ==
  ASSUME NEW w, IsWriter(w), DOMAIN w.headers \subseteq RawKeys, NEW v \in PrepareHeaders(w)
  PROVE  /\ IsWriter(v) /\ SameBytes(v, w) /\ Copies(v.wrapped, v.exposed, w)
         /\ v.wroteHeaders = w.wroteHeaders
         /\ v.committed = w.committed /\ v.sent = w.sent
<1> DEFINE skip == {Plain("trailer")}
           Sends(f) == [n \in DOMAIN f |-> IF n = "type" THEN WebType(w, f[n]) ELSE f[n]]
<1>1. PICK f \in CopyHeader(w.wrapped, w.headers, skip) :
        v = [w EXCEPT !.wrapped = Sends(f), !.exposed = DOMAIN f \cup {"status"}]
  BY DEF PrepareHeaders
<1>2. /\ DOMAIN f = Kept(w.headers, skip) \cup DOMAIN w.wrapped
      /\ \A n \in Kept(w.headers, skip) : Copy(f, n, w.headers, skip)
  <2> HIDE DEF skip
  <2> QED
    BY Copied
<1> DEFINE g == Sends(f)
<1>3. DOMAIN g = DOMAIN f /\ \A n \in DOMAIN f : g[n] = IF n = "type" THEN WebType(w, f[n]) ELSE f[n]
  OBVIOUS
<1>4. v = [w EXCEPT !.wrapped = g, !.exposed = DOMAIN f \cup {"status"}]
  BY <1>1
<1> HIDE DEF g, skip
<1>5. /\ DOMAIN v = Fields
      /\ v.wrapped = g /\ v.exposed = DOMAIN f \cup {"status"}
      /\ v.text = w.text /\ v.wroteHeaders = w.wroteHeaders /\ v.wroteBody = w.wroteBody
      /\ v.headers = w.headers /\ v.committed = w.committed /\ v.sent = w.sent
      /\ v.trailers = w.trailers /\ v.pending = w.pending /\ v.buffered = w.buffered
      /\ v.client = w.client
  BY <1>4 DEF IsWriter, Fields
<1>6. IsWriter(v)
  BY <1>5 DEF IsWriter
<1>7. \A n \in Kept(w.headers, skip) : \E k \in DOMAIN w.headers \ skip :
         k[2] = n /\ g[n] = IF n = "type" THEN WebType(w, w.headers[k]) ELSE w.headers[k]
  BY <1>2, <1>3 DEF Copy
<1>8. Copies(v.wrapped, v.exposed, w)
  BY <1>2, <1>3, <1>5, <1>7 DEF Copies, skip
<1> QED
  BY <1>5, <1>6, <1>8 DEF SameBytes

\* WriteHeader copies the headers and sends them.
LEMMA WriteHeaderKeeps ==
  ASSUME NEW w, IsWriter(w), DOMAIN w.headers \subseteq RawKeys, NEW u \in WriteHeader(w)
  PROVE  /\ IsWriter(u) /\ SameBytes(u, w) /\ Copies(u.wrapped, u.exposed, w)
         /\ u.wroteHeaders /\ u.committed /\ u.sent = IF w.committed THEN w.sent ELSE u.wrapped
<1>1. PICK v \in PrepareHeaders(w) : u = [Commit(v) EXCEPT !.wroteHeaders = TRUE]
  BY DEF WriteHeader
<1>2. /\ IsWriter(v) /\ SameBytes(v, w) /\ Copies(v.wrapped, v.exposed, w)
      /\ v.committed = w.committed /\ v.sent = w.sent
  BY PrepareKeeps
<1>3. PICK c : c = Commit(v)
  OBVIOUS
<1>4. /\ IsWriter(c) /\ Same(c, v) /\ Commits(c, v)
      /\ c.client = v.client /\ c.buffered = v.buffered /\ c.pending = v.pending
  BY <1>2, <1>3, CommitKeeps
<1>5. u = [c EXCEPT !.wroteHeaders = TRUE]
  BY <1>1, <1>3
<1>6. /\ DOMAIN u = Fields /\ u.wroteHeaders = TRUE
      /\ u.text = c.text /\ u.wroteBody = c.wroteBody
      /\ u.headers = c.headers /\ u.committed = c.committed /\ u.sent = c.sent
      /\ u.trailers = c.trailers /\ u.pending = c.pending /\ u.buffered = c.buffered
      /\ u.client = c.client /\ u.wrapped = c.wrapped /\ u.exposed = c.exposed
  BY <1>4, <1>5 DEF IsWriter, Fields
<1>7. IsWriter(u)
  BY <1>4, <1>6 DEF IsWriter
<1>8. SameBytes(u, w) /\ u.committed /\ u.sent = IF w.committed THEN w.sent ELSE u.wrapped
  BY <1>2, <1>4, <1>6 DEF SameBytes, Same, Commits
<1>9. u.wrapped = v.wrapped /\ u.exposed = v.exposed
  BY <1>4, <1>6 DEF Same
<1>10. Copies(u.wrapped, u.exposed, w)
  BY <1>2, <1>9
<1> QED
  BY <1>6, <1>7, <1>8, <1>10

\* A write holds the bytes, and sends the headers it finds copied.
LEMMA WriteKeeps ==
  ASSUME NEW w, IsWriter(w), NEW bytes \in Seq(Tags)
  PROVE  LET v == Write(w, bytes)
         IN  /\ IsWriter(v) /\ Held(v) = Held(w) \o bytes
             /\ v.wroteHeaders /\ v.wroteBody /\ v.text = w.text /\ v.headers = w.headers
             /\ v.wrapped = w.wrapped /\ v.exposed = w.exposed /\ v.trailers = w.trailers
             /\ Commits(v, w)
<1> DEFINE u == [w EXCEPT !.wroteHeaders = TRUE, !.wroteBody = TRUE]
           v == Write(w, bytes)
<1>1. /\ DOMAIN u = Fields /\ u.wroteHeaders = TRUE /\ u.wroteBody = TRUE
      /\ u.text = w.text /\ u.committed = w.committed
      /\ u.headers = w.headers /\ u.sent = w.sent
      /\ u.trailers = w.trailers /\ u.pending = w.pending /\ u.buffered = w.buffered
      /\ u.client = w.client /\ u.wrapped = w.wrapped /\ u.exposed = w.exposed
  BY DEF IsWriter, Fields
<1>2. v = Emit(u, bytes)
  BY DEF Write
<1> HIDE DEF u, v
<1>3. IsWriter(u) /\ Held(u) = Held(w)
  BY <1>1 DEF IsWriter, Held
<1>4. IsWriter(v) /\ Same(v, u) /\ Commits(v, u) /\ Held(v) = Held(u) \o bytes
  BY <1>2, <1>3, EmitKeeps
<1>5. /\ v.wroteHeaders /\ v.wroteBody /\ v.text = w.text /\ v.headers = w.headers
      /\ v.wrapped = w.wrapped /\ v.exposed = w.exposed /\ v.trailers = w.trailers
      /\ Commits(v, w)
  BY <1>1, <1>4 DEF Same, Commits
<1> QED
  BY <1>3, <1>4, <1>5 DEF v

\* What the copied headers of a handler are, name by name.
LEMMA PendedKept ==
  ASSUME NEW names \in SUBSET Names, NEW src, DOMAIN src = PendedKeys(names)
  PROVE  /\ Kept(src, {Plain("trailer")}) = {"type"} \cup names
         /\ \A k \in DOMAIN src \ {Plain("trailer")} :
              /\ k[2] = "type" => k = Plain("type")
              /\ k[2] \in names => k = Plain(k[2])
<1>1. {"type", "status", "trailer"} \cap names = {}
  BY NamesAssumption
<1>2. \A n \in names : Plain(n) \in DOMAIN src \ {Plain("trailer")} /\ Plain(n)[2] = n
  BY <1>1 DEF PendedKeys, Plain
<1>3. Plain("type") \in DOMAIN src \ {Plain("trailer")} /\ Plain("type")[2] = "type"
  BY DEF PendedKeys, Plain
<1>4. \A k \in DOMAIN src \ {Plain("trailer")} :
        k = Plain("type") \/ \E n \in names : k = Plain(n) /\ k[2] = n
  BY DEF PendedKeys, Plain
<1>5. Kept(src, {Plain("trailer")}) = {"type"} \cup names
  BY <1>2, <1>3, <1>4 DEF Kept
<1> QED
  BY <1>1, <1>3, <1>4, <1>5

LEMMA StatusKept ==
  ASSUME NEW names \in SUBSET Names, NEW others \in SUBSET Names, NEW src,
         DOMAIN src = StatusKeys(names, others)
  PROVE  /\ Kept(src, {Plain("trailer")}) = {"type", "status"} \cup names \cup others
         /\ \A k \in DOMAIN src \ {Plain("trailer")} :
              /\ k[2] = "type" => k = Plain("type")
              /\ k[2] = "status" => k = Plain("status")
              /\ k[2] \in names \ others => k = Plain(k[2])
              /\ k[2] \in others \ names => k = Trailer(k[2])
              /\ k[2] \in names \cap others => k \in {Plain(k[2]), Trailer(k[2])}
<1>1. {"type", "status", "trailer"} \cap names = {} /\ {"type", "status", "trailer"} \cap others = {}
  BY NamesAssumption
<1>2. \A n \in names : Plain(n) \in DOMAIN src \ {Plain("trailer")} /\ Plain(n)[2] = n
  BY <1>1 DEF StatusKeys, PendedKeys, Plain
<1>3. \A n \in others : Trailer(n) \in DOMAIN src \ {Plain("trailer")} /\ Trailer(n)[2] = n
  BY DEF StatusKeys, Trailer, Plain
<1>4. /\ Plain("type") \in DOMAIN src \ {Plain("trailer")} /\ Plain("type")[2] = "type"
      /\ Plain("status") \in DOMAIN src \ {Plain("trailer")} /\ Plain("status")[2] = "status"
  BY DEF StatusKeys, PendedKeys, Plain
<1>5. \A k \in DOMAIN src \ {Plain("trailer")} :
        \/ k = Plain("type") \/ k = Plain("status")
        \/ \E n \in names : k = Plain(n) /\ k[2] = n
        \/ \E n \in others : k = Trailer(n) /\ k[2] = n
  BY DEF StatusKeys, PendedKeys, Plain, Trailer
<1>6. Kept(src, {Plain("trailer")}) = {"type", "status"} \cup names \cup others
  BY <1>2, <1>3, <1>4, <1>5 DEF Kept
<1>7. ASSUME NEW k \in DOMAIN src \ {Plain("trailer")}
      PROVE  /\ k[2] = "type" => k = Plain("type")
             /\ k[2] = "status" => k = Plain("status")
             /\ k[2] \in names \ others => k = Plain(k[2])
             /\ k[2] \in others \ names => k = Trailer(k[2])
             /\ k[2] \in names \cap others => k \in {Plain(k[2]), Trailer(k[2])}
  BY <1>1, <1>4, <1>5
<1> QED
  BY <1>6, <1>7

\* Writing the pending headers sends them all.
LEMMA PendedSent ==
  ASSUME NEW w, Pended(w), DOMAIN w.wrapped = {}, header \subseteq Names,
         NEW v, Copies(v.wrapped, v.exposed, w)
  PROVE  /\ DOMAIN v.wrapped = {"type"} \cup header
         /\ v.wrapped["type"] = WebType(w, "grpc")
         /\ \A n \in header : v.wrapped[n] = "header"
         /\ v.exposed = {"type", "status"} \cup header
<1> DEFINE skip == {Plain("trailer")}
<1>1. DOMAIN w.headers = PendedKeys(header) /\ \A k \in PendedKeys(header) : w.headers[k] = Declared(k)
  BY DEF Pended
<1>2. /\ Kept(w.headers, skip) = {"type"} \cup header
      /\ \A k \in DOMAIN w.headers \ skip :
              /\ k[2] = "type" => k = Plain("type")
              /\ k[2] \in header => k = Plain(k[2])
  BY <1>1, PendedKept
<1>3. DOMAIN v.wrapped = {"type"} \cup header /\ v.exposed = {"type", "status"} \cup header
  BY <1>2 DEF Copies
<1>4. Declared(Plain("type")) = "grpc"
      /\ \A n \in header : Declared(Plain(n)) = "header" /\ n # "type"
  BY NamesAssumption DEF Declared, Plain
<1>5. \A n \in {"type"} \cup header :
        \E k \in DOMAIN w.headers \ skip :
          k[2] = n /\ v.wrapped[n] = IF n = "type" THEN WebType(w, w.headers[k]) ELSE w.headers[k]
  BY <1>2 DEF Copies
<1>6. v.wrapped["type"] = WebType(w, "grpc")
  BY <1>1, <1>2, <1>4, <1>5
<1>7. ASSUME NEW n \in header
      PROVE  v.wrapped[n] = "header"
  <2>1. PICK k \in DOMAIN w.headers \ skip :
          k[2] = n /\ v.wrapped[n] = IF n = "type" THEN WebType(w, w.headers[k]) ELSE w.headers[k]
    BY <1>5
  <2>2. k = Plain(n) /\ n # "type"
    BY <1>2, <1>4, <2>1
  <2> QED
    BY <1>1, <1>4, <2>1, <2>2
<1> QED
  BY <1>3, <1>6, <1>7

\* Where nothing is written before the status, everything is sent with it.
LEMMA StatusSent ==
  ASSUME NEW w, Statused(w), DOMAIN w.wrapped = {}, header \subseteq Names, trailer \subseteq Names,
         NEW v, Copies(v.wrapped, v.exposed, w)
  PROVE  /\ DOMAIN v.wrapped = {"type", "status"} \cup header \cup trailer
         /\ v.exposed = DOMAIN v.wrapped
         /\ v.wrapped["type"] = WebType(w, "grpc") /\ v.wrapped["status"] = "status"
         /\ \A n \in header \ trailer : v.wrapped[n] = "header"
         /\ \A n \in trailer \ header : v.wrapped[n] = "trailer"
         /\ \A n \in header \cap trailer : v.wrapped[n] \in {"header", "trailer"}
<1> DEFINE skip == {Plain("trailer")}
           all  == {"type", "status"} \cup header \cup trailer
<1>1. /\ DOMAIN w.headers = StatusKeys(header, trailer)
      /\ \A k \in StatusKeys(header, trailer) : w.headers[k] = Declared(k)
  BY DEF Statused
<1>2. /\ Kept(w.headers, skip) = all
      /\ \A k \in DOMAIN w.headers \ skip :
              /\ k[2] = "type" => k = Plain("type")
              /\ k[2] = "status" => k = Plain("status")
              /\ k[2] \in header \ trailer => k = Plain(k[2])
              /\ k[2] \in trailer \ header => k = Trailer(k[2])
              /\ k[2] \in header \cap trailer => k \in {Plain(k[2]), Trailer(k[2])}
  <2>1. header \in SUBSET Names /\ trailer \in SUBSET Names
    OBVIOUS
  <2>2. PICK src : src = w.headers
    OBVIOUS
  <2>3. DOMAIN src = StatusKeys(header, trailer)
    BY <1>1, <2>2
  <2> QED
    BY <2>1, <2>2, <2>3, StatusKept
<1>3. DOMAIN v.wrapped = all /\ v.exposed = DOMAIN v.wrapped
  BY <1>2 DEF Copies
<1>4. /\ Declared(Plain("type")) = "grpc" /\ Declared(Plain("status")) = "status"
      /\ \A n \in header : Declared(Plain(n)) = "header"
      /\ \A n \in trailer : Declared(Trailer(n)) = "trailer"
      /\ \A n \in header \cup trailer : n # "type"
  BY NamesAssumption DEF Declared, Plain, Trailer
<1>5. \A n \in all :
        \E k \in DOMAIN w.headers \ skip :
          k[2] = n /\ v.wrapped[n] = IF n = "type" THEN WebType(w, w.headers[k]) ELSE w.headers[k]
  BY <1>2 DEF Copies
<1>6. v.wrapped["type"] = WebType(w, "grpc") /\ v.wrapped["status"] = "status"
  BY <1>1, <1>2, <1>4, <1>5
<1>7. ASSUME NEW n \in header \cup trailer
      PROVE  /\ n \notin trailer => v.wrapped[n] = "header"
             /\ n \notin header => v.wrapped[n] = "trailer"
             /\ v.wrapped[n] \in {"header", "trailer"}
  <2>1. PICK k \in DOMAIN w.headers \ skip :
          k[2] = n /\ v.wrapped[n] = IF n = "type" THEN WebType(w, w.headers[k]) ELSE w.headers[k]
    BY <1>5
  <2>2. v.wrapped[n] = Declared(k)
    BY <1>1, <1>4, <2>1
  <2>3. /\ n \in header \ trailer => k = Plain(n)
        /\ n \in trailer \ header => k = Trailer(n)
        /\ n \in header \cap trailer => k \in {Plain(n), Trailer(n)}
    BY <1>2, <2>1
  <2> QED
    BY <1>4, <2>2, <2>3
<1> QED
  BY <1>3, <1>6, <1>7

------------------------------------------------------------------------------
(***************************************************************************)
(* What the gRPC server does with headers.                                 *)
(***************************************************************************)
\* Every field but the headers.
OnlyHeaders(v, w) ==
  /\ v.text = w.text /\ v.wroteHeaders = w.wroteHeaders /\ v.wroteBody = w.wroteBody
  /\ v.wrapped = w.wrapped /\ v.exposed = w.exposed
  /\ v.committed = w.committed /\ v.sent = w.sent /\ v.trailers = w.trailers
  /\ v.pending = w.pending /\ v.buffered = w.buffered /\ v.client = w.client

LEMMA SetHeaders ==
  ASSUME NEW w, IsWriter(w), NEW h
  PROVE  LET v == [w EXCEPT !.headers = h]
         IN  IsWriter(v) /\ OnlyHeaders(v, w) /\ v.headers = h
<1> DEFINE v == [w EXCEPT !.headers = h]
<1>1. DOMAIN v = Fields /\ OnlyHeaders(v, w) /\ v.headers = h
  BY DEF IsWriter, Fields, OnlyHeaders
<1> HIDE DEF v
<1>2. IsWriter(v)
  BY <1>1 DEF IsWriter, OnlyHeaders
<1> QED
  BY <1>1, <1>2 DEF v

LEMMA PendingKeeps ==
  ASSUME NEW w, IsWriter(w), DOMAIN w.headers = {}, GrpcType = "grpc", header \subseteq Names
  PROVE  LET v == PendingHeaders(w, header)
         IN  IsWriter(v) /\ OnlyHeaders(v, w) /\ Pended(v)
<1> DEFINE h == Over(Header(Plain("type"), GrpcType), Over(Header(Plain("trailer"), "declared"),
                             Over([k \in {"plain"} \X header |-> "header"], w.headers)))
<1>1. PendingHeaders(w, header) = [w EXCEPT !.headers = h]
  BY DEF PendingHeaders
<1>2. Plain("type") # Plain("trailer")
  BY DEF Plain
<1>3. \A k \in {"plain"} \X header :
         k # Plain("type") /\ k # Plain("trailer") /\ k # Plain("status") /\ k[1] = "plain"
  BY NamesAssumption DEF Plain
<1> DEFINE inner == Over([k \in {"plain"} \X header |-> "header"], w.headers)
<1>4. inner = [k \in {"plain"} \X header |-> "header"]
  BY DEF Over
<1>5. h = Over(Header(Plain("type"), "grpc"), Over(Header(Plain("trailer"), "declared"), inner))
  OBVIOUS
<1> HIDE DEF inner, h
<1>6. h = [k \in PendedKeys(header) |-> Declared(k)]
  <2>1. h = [k \in PendedKeys(header) |->
               IF k = Plain("type") THEN "grpc" ELSE IF k = Plain("trailer") THEN "declared" ELSE "header"]
    BY <1>2, <1>3, <1>4, <1>5 DEF Over, Header, PendedKeys
  <2>2. \A k \in PendedKeys(header) :
          Declared(k) = IF k = Plain("type") THEN "grpc" ELSE IF k = Plain("trailer") THEN "declared" ELSE "header"
    BY <1>3 DEF Declared, PendedKeys
  <2> QED
    BY <2>1, <2>2
<1> QED
  BY <1>1, <1>6, SetHeaders DEF Pended

LEMMA StatusKeeps ==
  ASSUME NEW w, IsWriter(w), GrpcType = "grpc", header \subseteq Names, NEW names \in SUBSET Names,
         w.wroteBody => w.wroteHeaders,
         \/ DOMAIN w.headers = {} /\ ~w.wroteHeaders
         \/ Pended(w)
  PROVE  LET v == WriteStatus(w, names)
         IN  /\ IsWriter(v) /\ Held(v) = Held(w)
             /\ v.headers = [k \in StatusKeys(header, names) |-> Declared(k)]
             /\ ~w.wroteHeaders => OnlyHeaders(v, w)
             /\ v.text = w.text /\ v.wroteHeaders = w.wroteHeaders /\ v.wroteBody = w.wroteBody
             /\ v.wrapped = w.wrapped /\ v.exposed = w.exposed /\ v.trailers = w.trailers
             /\ w.wroteHeaders => Commits(v, w)
<1>1. PICK u : u = IF DOMAIN w.headers = {} THEN PendingHeaders(w, header) ELSE w
  OBVIOUS
<1>2. IsWriter(u) /\ OnlyHeaders(u, w) /\ Pended(u)
  <2>1. CASE DOMAIN w.headers = {}
    BY <1>1, <2>1, PendingKeeps
  <2>2. CASE DOMAIN w.headers # {}
    BY <1>1, <2>2 DEF OnlyHeaders
  <2> QED
    BY <2>1, <2>2
<1>3. PICK f : f = Flush(u)
  OBVIOUS
<1>4. /\ IsWriter(f) /\ Same(f, u) /\ Held(f) = Held(u)
      /\ ~w.wroteHeaders => f = u
      /\ w.wroteHeaders => Commits(f, u)
  <2>1. f = IF w.wroteHeaders THEN FlushWriter(u) ELSE u
    BY <1>2, <1>3 DEF Flush, OnlyHeaders
  <2>2. CASE w.wroteHeaders
    BY <1>2, <2>1, <2>2, FlushKeeps
  <2>3. CASE ~w.wroteHeaders
    BY <1>2, <2>1, <2>3 DEF Same
  <2> QED
    BY <2>2, <2>3
<1>5. PICK h : h = Over(Header(Plain("status"), "status"), Over([k \in {"trailer"} \X names |-> "trailer"], f.headers))
  OBVIOUS
<1>6. PICK v : v = WriteStatus(w, names)
  OBVIOUS
<1>7. v = [f EXCEPT !.headers = h]
  BY <1>1, <1>3, <1>5, <1>6 DEF WriteStatus
<1>8. IsWriter(v) /\ OnlyHeaders(v, f) /\ v.headers = h
  BY <1>4, <1>7, SetHeaders
<1>9. h = [k \in StatusKeys(header, names) |-> Declared(k)]
  <2>1. f.headers = [k \in PendedKeys(header) |-> Declared(k)]
    BY <1>2, <1>4 DEF Same, Pended
  <2>2. Plain("status") \notin PendedKeys(header) /\ \A k \in PendedKeys(header) : k[1] = "plain"
    BY NamesAssumption DEF Plain, PendedKeys
  <2>3. Declared(Plain("status")) = "status"
    BY DEF Plain, Declared
  <2>4. \A k \in {"trailer"} \X names : Declared(k) = "trailer" /\ k # Plain("status") /\ k[1] = "trailer"
    BY DEF Plain, Declared
  <2>5. DOMAIN h = StatusKeys(header, names)
    BY <1>5, <2>1 DEF Over, Header, StatusKeys
  <2>6. \A k \in StatusKeys(header, names) : h[k] = Declared(k)
    BY <1>5, <2>1, <2>2, <2>3, <2>4 DEF Over, Header, StatusKeys
  <2>7. h = [k \in StatusKeys(header, names) |-> h[k]]
    BY <1>5, <2>5 DEF Over
  <2> QED
    BY <2>6, <2>7
<1>10. Held(v) = Held(w)
  BY <1>2, <1>4, <1>8 DEF OnlyHeaders, Held
<1>11. /\ v.text = w.text /\ v.wroteHeaders = w.wroteHeaders /\ v.wroteBody = w.wroteBody
       /\ v.wrapped = w.wrapped /\ v.exposed = w.exposed /\ v.trailers = w.trailers
  BY <1>2, <1>4, <1>8 DEF OnlyHeaders, Same
<1>12. w.wroteHeaders => Commits(v, w)
  BY <1>2, <1>4, <1>8 DEF OnlyHeaders, Commits
<1>13. ~w.wroteHeaders => OnlyHeaders(v, w)
  BY <1>2, <1>4, <1>8 DEF OnlyHeaders
<1> QED
  BY <1>6, <1>8, <1>9, <1>10, <1>11, <1>12, <1>13

------------------------------------------------------------------------------
(***************************************************************************)
(* Every step keeps the invariant.                                         *)
(***************************************************************************)
LEMMA InvType == Inv => TypeOK
BY DEF Inv, ControlInv, KeysInv, IsWriter, TypeOK, HeaderKeys, RawKeys

LEMMA HeaderKeysRaw == HeaderKeys \subseteq RawKeys
BY DEF HeaderKeys, RawKeys

LEMMA KeysOfHeaders ==
  ASSUME NEW names \in SUBSET Names, NEW others \in SUBSET Names
  PROVE  /\ Plain("type") \in PendedKeys(names)
         /\ PendedKeys(names) \subseteq HeaderKeys
         /\ StatusKeys(names, others) \subseteq HeaderKeys
BY DEF PendedKeys, StatusKeys, HeaderKeys, Plain

LEMMA FrameSeq ==
  ASSUME NEW tag \in Tags, NEW n \in Nat
  PROVE  Frame(tag, n) \in Seq(Tags) /\ Len(Frame(tag, n)) = n
BY DEF Frame

LEMMA KeptNames ==
  ASSUME NEW src, DOMAIN src \subseteq HeaderKeys
  PROVE  Kept(src, {Plain("trailer")}) \subseteq Names \cup {"type", "status"}
BY NamesAssumption DEF Kept, HeaderKeys, Plain

LEMMA NewKeeps ==
  ASSUME NEW text \in BOOLEAN
  PROVE  LET w == NewResponse(text)
         IN  /\ IsWriter(w) /\ Held(w) = <<>> /\ Flushed(w) /\ Unsent(w)
             /\ w.text = text /\ w.wroteHeaders = FALSE /\ w.wroteBody = FALSE /\ w.committed = FALSE
             /\ DOMAIN w.headers = {} /\ DOMAIN w.wrapped = {} /\ w.exposed = {}
<1> DEFINE w == NewResponse(text)
<1>1. /\ DOMAIN w = Fields /\ w.text = text /\ w.wroteHeaders = FALSE /\ w.wroteBody = FALSE
      /\ w.headers = <<>> /\ w.wrapped = <<>> /\ w.exposed = {} /\ w.committed = FALSE
      /\ w.pending = <<>> /\ w.buffered = <<>> /\ w.client = <<>>
  BY DEF NewResponse, Fields
<1> HIDE DEF w
<1>2. <<>> \in Seq(Tags) /\ Len(<<>>) = 0 /\ DOMAIN <<>> = {} /\ (<<>> \o <<>>) \o <<>> = <<>>
  BY ConcatEmptySeq
<1>3. IsWriter(w)
  <2>1. {w.text, w.wroteHeaders, w.wroteBody, w.committed} \subseteq BOOLEAN
    BY <1>1
  <2>2. {w.pending, w.buffered, w.client} \subseteq Seq(Tags)
    BY <1>1, <1>2
  <2>3. Len(w.pending) <= IF w.text THEN 2 ELSE 0
    BY <1>1, <1>2
  <2> QED
    BY <1>1, <2>1, <2>2, <2>3 DEF IsWriter
<1> QED
  BY <1>1, <1>2, <1>3 DEF w, Held, Flushed, Unsent

LEMMA InitInv == Init => Inv
<1> SUFFICES ASSUME Init PROVE Inv
  OBVIOUS
<1>1. /\ IsWriter(response) /\ Held(response) = <<>> /\ Flushed(response) /\ Unsent(response)
      /\ response.text = FALSE /\ response.wroteHeaders = FALSE
      /\ response.wroteBody = FALSE /\ response.committed = FALSE
      /\ DOMAIN response.headers = {} /\ DOMAIN response.wrapped = {} /\ response.exposed = {}
  BY NewKeeps DEF Init
<1>2. ControlInv
  BY MaxMessagesAssumption DEF Init, ControlInv
<1>3. KeysInv
  BY <1>1 DEF Init, KeysInv
<1>4. HeldInv
  <2>1. <<>> \in Seq(Tags)
    OBVIOUS
  <2> QED
    BY <1>1, <2>1 DEF Init, HeldInv
<1>5. FlagInv
  BY <1>1 DEF FlagInv
<1>6. StartInv
  BY <1>1 DEF Init, StartInv
<1>7. TextInv /\ HandlingInv /\ AnsweredInv /\ DoneInv
  BY DEF Init, TextInv, HandlingInv, AnsweredInv, DoneInv, Prompt, MetadataDelivered, TypeReturned
<1> QED
  BY <1>1, <1>2, <1>3, <1>4, <1>5, <1>6, <1>7 DEF Inv

LEMMA NotFoundInv == Inv /\ NotFound => Inv'
<1> SUFFICES ASSUME Inv, NotFound PROVE Inv'
  OBVIOUS
<1> USE DEF NotFound, metadata
<1>1. response.client = <<>> /\ written = <<>>
  BY DEF Inv, StartInv, NewResponse
<1>2. ControlInv' /\ KeysInv' /\ IsWriter(response)' /\ HeldInv' /\ FlagInv'
  BY DEF Inv, ControlInv, KeysInv, HeldInv, FlagInv
<1>3. StartInv' /\ TextInv' /\ HandlingInv' /\ AnsweredInv'
  BY DEF StartInv, TextInv, HandlingInv, AnsweredInv
<1>4. DoneInv'
  BY <1>1 DEF DoneInv, Prompt, MetadataDelivered, TypeReturned
<1> QED
  BY <1>2, <1>3, <1>4 DEF Inv

LEMMA ProxyInv == Inv /\ Proxy => Inv'
<1> SUFFICES ASSUME Inv, Proxy PROVE Inv'
  OBVIOUS
<1> USE DEF Proxy, metadata
<1>1. PICK v : v = response'
  OBVIOUS
<1>2. v = NewResponse(IsText) /\ IsText \in BOOLEAN
  BY <1>1 DEF IsText
<1>3. /\ IsWriter(v) /\ Held(v) = <<>> /\ Unsent(v) /\ v.text = IsText
      /\ v.wroteHeaders = FALSE /\ v.wroteBody = FALSE /\ v.committed = FALSE
      /\ DOMAIN v.headers = {} /\ DOMAIN v.wrapped = {} /\ v.exposed = {}
  BY <1>2, NewKeeps
<1>4. header = {} /\ trailer = {} /\ written = <<>> /\ outcome = "none"
  BY DEF Inv, StartInv
<1>5. ControlInv'
  BY DEF Inv, ControlInv
<1>6. KeysInv'
  BY <1>1, <1>3, <1>4 DEF KeysInv
<1>7. IsWriter(response)' /\ HeldInv'
  BY <1>1, <1>3, <1>4 DEF HeldInv
<1>8. FlagInv'
  BY <1>1, <1>3 DEF FlagInv
<1>9. StartInv' /\ TextInv'
  BY <1>1, <1>2, <1>3, <1>4 DEF StartInv, TextInv, IsText
<1>10. HandlingInv' /\ AnsweredInv' /\ DoneInv'
  BY DEF HandlingInv, AnsweredInv, DoneInv, Prompt, MetadataDelivered, TypeReturned
<1> QED
  BY <1>5, <1>6, <1>7, <1>8, <1>9, <1>10 DEF Inv

LEMMA RefuseInv == Inv /\ Refuse => Inv'
<1> SUFFICES ASSUME Inv, Refuse PROVE Inv'
  OBVIOUS
<1> USE DEF metadata
<1>1. /\ response = NewResponse(response.text) /\ response.text \in BOOLEAN /\ response.text = IsText
      /\ outcome = "none" /\ header = {} /\ trailer = {} /\ written = <<>>
  BY DEF Inv, StartInv, TextInv, IsWriter, Refuse
<1>2. /\ IsWriter(response) /\ Held(response) = <<>>
      /\ response.committed = FALSE /\ DOMAIN response.wrapped = {}
  BY <1>1, NewKeeps
<1>3. PICK r : r = [response EXCEPT !.headers = Header(Plain("type"), "text")]
  OBVIOUS
<1>4. /\ IsWriter(r) /\ OnlyHeaders(r, response) /\ r.headers = Header(Plain("type"), "text")
  BY <1>2, <1>3, SetHeaders
<1>5. DOMAIN r.headers = {Plain("type")} /\ {Plain("type")} \subseteq HeaderKeys
  BY <1>4 DEF Header, HeaderKeys, Plain
<1>6. PICK bytes : bytes = Frame("error", 1)
  OBVIOUS
<1>7. bytes \in Seq(Tags)
  BY <1>6, FrameSeq DEF Tags
<1>8. PICK w \in WriteHeader(r) : response' = Write(w, bytes)
  BY <1>3, <1>6 DEF Refuse
<1>9. /\ IsWriter(w) /\ SameBytes(w, r) /\ Copies(w.wrapped, w.exposed, r)
  BY <1>4, <1>5, <1>8, HeaderKeysRaw, WriteHeaderKeeps
<1>10. Held(w) = <<>>
  BY <1>2, <1>4, <1>9 DEF SameBytes, OnlyHeaders, Held
<1>11. PICK v : v = response'
  OBVIOUS
<1>12. /\ IsWriter(v) /\ Held(v) = Held(w) \o bytes
       /\ v.wroteHeaders /\ v.wroteBody /\ v.text = w.text /\ v.headers = w.headers
       /\ v.wrapped = w.wrapped /\ v.exposed = w.exposed /\ Commits(v, w)
  BY <1>7, <1>8, <1>9, <1>11, WriteKeeps
<1>13. Kept(r.headers, {Plain("trailer")}) \subseteq Names \cup {"type", "status"}
  BY <1>5, KeptNames
<1>14. DOMAIN v.wrapped \subseteq v.exposed /\ v.exposed \subseteq Names \cup {"type", "status"}
  BY <1>2, <1>4, <1>9, <1>12, <1>13 DEF Copies, OnlyHeaders
<1>15. KeysInv'
  <2>1. v.headers = r.headers
    BY <1>9, <1>12 DEF SameBytes
  <2> QED
    BY <1>1, <1>5, <1>11, <1>14, <2>1 DEF KeysInv, Refuse
<1>16. HeldInv'
  <2>1. written' = bytes /\ Held(v) = bytes
    BY <1>1, <1>6, <1>7, <1>10, <1>12, ConcatEmptySeq DEF Refuse
  <2> QED
    BY <1>7, <1>11, <2>1 DEF HeldInv
<1>17. FlagInv'
  BY <1>11, <1>12 DEF FlagInv, IsWriter, Commits
<1>18. TextInv'
  <2>1. v.text = response.text
    BY <1>4, <1>9, <1>12 DEF OnlyHeaders, SameBytes
  <2> QED
    BY <1>1, <1>11, <2>1 DEF TextInv, IsText, Refuse
<1>19. ControlInv' /\ StartInv' /\ HandlingInv' /\ DoneInv'
  BY DEF Refuse, Inv, ControlInv, StartInv, HandlingInv, DoneInv, Prompt, MetadataDelivered, TypeReturned
<1>20. AnsweredInv'
  BY <1>11, <1>12 DEF Refuse, AnsweredInv, Accepted, GrpcType
<1> QED
  BY <1>11, <1>12, <1>15, <1>16, <1>17, <1>18, <1>19, <1>20 DEF Inv

LEMMA HandleInv == Inv /\ Handle => Inv'
<1> SUFFICES ASSUME Inv, Handle PROVE Inv'
  OBVIOUS
<1> USE DEF Handle
<1>1. /\ response = NewResponse(response.text) /\ response.text \in BOOLEAN
      /\ header = {} /\ trailer = {} /\ written = <<>>
  BY DEF Inv, StartInv, IsWriter
<1>2. /\ Flushed(response) /\ Unsent(response) /\ DOMAIN response.headers = {}
  BY <1>1, NewKeeps
<1>3. ControlInv' /\ IsWriter(response)' /\ HeldInv' /\ FlagInv'
  BY DEF Inv, ControlInv, HeldInv, FlagInv
<1>4. KeysInv'
  BY <1>1 DEF Inv, KeysInv
<1>5. StartInv' /\ TextInv' /\ AnsweredInv'
  BY DEF Inv, StartInv, TextInv, IsText, AnsweredInv
<1>6. HandlingInv'
  BY <1>2 DEF HandlingInv, Accepted, GrpcType, Flushed, Unsent
<1>7. DoneInv'
  BY <1>1, <1>2 DEF DoneInv, Prompt, MetadataDelivered, TypeReturned, Unsent
<1> QED
  BY <1>3, <1>4, <1>5, <1>6, <1>7 DEF Inv

LEMMA AbortInv == Inv /\ Abort => Inv'
<1> SUFFICES ASSUME Inv, Abort PROVE Inv'
  OBVIOUS
<1> USE DEF Abort, metadata
<1>1. ControlInv' /\ IsWriter(response)' /\ HeldInv' /\ FlagInv' /\ KeysInv'
  BY DEF Inv, ControlInv, HeldInv, FlagInv, KeysInv
<1>2. StartInv' /\ TextInv' /\ HandlingInv'
  BY DEF Inv, StartInv, TextInv, IsText, HandlingInv
<1>3. /\ Accepted /\ Flushed(response)
      /\ ~response.wroteHeaders => Unsent(response)
  BY DEF Inv, HandlingInv, Sent
<1>4. AnsweredInv'
  BY <1>3 DEF AnsweredInv, Accepted, GrpcType, Flushed, Unsent
<1>5. DoneInv'
  BY DEF DoneInv, Prompt, MetadataDelivered, TypeReturned
<1> QED
  BY <1>1, <1>2, <1>4, <1>5 DEF Inv

\* The pending headers go out before the first message or on their own.
LEMMA SendHeaderInv == Inv /\ SendHeader => Inv'
<1> SUFFICES ASSUME Inv, SendHeader PROVE Inv'
  OBVIOUS
<1> USE DEF metadata
<1>1. /\ Accepted /\ GrpcType = "grpc" /\ outcome = "handled" /\ header \subseteq Names
      /\ IsWriter(response) /\ Held(response) = written
      /\ response.committed = response.wroteHeaders
      /\ DOMAIN response.headers = {}
  BY DEF Inv, HandlingInv, HeldInv, FlagInv, KeysInv, Accepted, SendHeader
<1>2. Unsent(response)
  BY <1>1, KeysOfHeaders DEF Inv, HandlingInv, Pended, SendHeader
<1>3. PICK p : p = PendingHeaders(response, header)
  OBVIOUS
<1>4. IsWriter(p) /\ OnlyHeaders(p, response) /\ Pended(p)
  BY <1>1, <1>3, PendingKeeps
<1>5. DOMAIN p.headers \subseteq HeaderKeys
  BY <1>1, <1>4, KeysOfHeaders DEF Pended
<1>6. PICK w \in WriteHeader(p) : response' = Flush(w)
  BY <1>3 DEF SendHeader
<1>7. /\ IsWriter(w) /\ SameBytes(w, p) /\ Copies(w.wrapped, w.exposed, p)
      /\ w.wroteHeaders /\ w.committed /\ w.sent = IF p.committed THEN p.sent ELSE w.wrapped
  BY <1>4, <1>5, <1>6, HeaderKeysRaw, WriteHeaderKeeps
<1>8. w.sent = w.wrapped /\ w.headers = p.headers /\ w.text = response.text /\ Held(w) = written
  BY <1>1, <1>2, <1>4, <1>7 DEF OnlyHeaders, SameBytes, Unsent, Held
<1>9. DOMAIN p.wrapped = {}
  BY <1>2, <1>4 DEF Unsent, OnlyHeaders
<1>10. /\ DOMAIN w.wrapped = {"type"} \cup header
       /\ w.wrapped["type"] = WebType(p, "grpc")
       /\ \A n \in header : w.wrapped[n] = "header"
       /\ w.exposed = {"type", "status"} \cup header
  BY <1>1, <1>4, <1>7, <1>9, PendedSent
<1>11. PICK v : v = response'
  OBVIOUS
<1>12. /\ IsWriter(v) /\ Same(v, w) /\ Commits(v, w) /\ Flushed(v)
       /\ v.client = written /\ Held(v) = written
  BY <1>6, <1>7, <1>8, <1>11, FlushKeeps DEF Flush
<1>13. Sent(v) /\ Pended(v)
  <2>1. WebType(v, "grpc") = WebType(p, "grpc")
    BY <1>4, <1>8, <1>12 DEF WebType, Same, OnlyHeaders
  <2>2. Pended(v)
    BY <1>4, <1>8, <1>12 DEF Pended, Same
  <2>3. v.wroteHeaders /\ v.sent = v.wrapped /\ v.wrapped = w.wrapped /\ v.exposed = w.exposed
    BY <1>7, <1>8, <1>12 DEF Same, Commits
  <2> QED
    BY <1>10, <2>1, <2>2, <2>3 DEF Sent
<1>14. ControlInv' /\ StartInv' /\ AnsweredInv'
  BY DEF SendHeader, Inv, ControlInv, StartInv, AnsweredInv
<1>15. KeysInv'
  BY <1>1, <1>5, <1>8, <1>10, <1>11, <1>12 DEF Inv, KeysInv, Same, SendHeader
<1>16. HeldInv'
  BY <1>11, <1>12 DEF Inv, HeldInv, SendHeader
<1>17. FlagInv'
  BY <1>7, <1>11, <1>12 DEF FlagInv, IsWriter, Same, Commits
<1>18. TextInv'
  BY <1>8, <1>11, <1>12 DEF Inv, TextInv, IsText, Same, SendHeader
<1>19. HandlingInv'
  BY <1>1, <1>11, <1>12, <1>13 DEF HandlingInv, SendHeader, Accepted, GrpcType, Sent, Pended, Flushed
<1>20. DoneInv'
  BY <1>11, <1>12 DEF DoneInv, Prompt, MetadataDelivered, TypeReturned, SendHeader
<1> QED
  BY <1>11, <1>12, <1>14, <1>15, <1>16, <1>17, <1>18, <1>19, <1>20 DEF Inv

\* A message's bytes and the headers before them are with the client when its
\* second write is flushed.
LEMMA MessageKeeps ==
  ASSUME NEW w, NEW first \in Seq(Tags), NEW rest \in Seq(Tags), NEW v \in BeforeWrite(w),
         IsWriter(w), Pended(w), header \subseteq Names,
         w.committed = w.wroteHeaders,
         w.wroteHeaders => Sent(w),
         ~w.wroteHeaders => DOMAIN w.wrapped = {},
         w.exposed \subseteq Names \cup {"type", "status"}
  PROVE  LET u == Flush(Write(Write(v, first), rest))
         IN  /\ IsWriter(u) /\ Flushed(u) /\ Held(u) = (Held(w) \o first) \o rest
             /\ u.client = Held(u)
             /\ Sent(u) /\ Pended(u) /\ u.committed /\ u.text = w.text
             /\ u.exposed \subseteq Names \cup {"type", "status"}
<1>1. /\ IsWriter(v) /\ Held(v) = Held(w) /\ v.text = w.text /\ v.headers = w.headers
      /\ v.committed = w.committed /\ v.exposed \subseteq Names \cup {"type", "status"}
      /\ w.committed => v.sent = v.wrapped
      /\ DOMAIN v.wrapped = {"type"} \cup header
      /\ v.wrapped["type"] = WebType(w, "grpc")
      /\ \A n \in header : v.wrapped[n] = "header"
      /\ DOMAIN v.wrapped \subseteq v.exposed
  <2>1. CASE w.wroteHeaders
    <3>1. v = w
      BY <2>1 DEF BeforeWrite
    <3> QED
      BY <2>1, <3>1 DEF Sent
  <2>2. CASE ~w.wroteHeaders
    <3>1. v \in PrepareHeaders(w)
      BY <2>2 DEF BeforeWrite
    <3>2. DOMAIN w.headers \subseteq RawKeys
      BY KeysOfHeaders, HeaderKeysRaw DEF Pended
    <3>3. /\ IsWriter(v) /\ SameBytes(v, w) /\ Copies(v.wrapped, v.exposed, w)
          /\ v.committed = w.committed
      BY <3>1, <3>2, PrepareKeeps
    <3>4. /\ DOMAIN v.wrapped = {"type"} \cup header
          /\ v.wrapped["type"] = WebType(w, "grpc")
          /\ \A n \in header : v.wrapped[n] = "header"
          /\ v.exposed = {"type", "status"} \cup header
      BY <2>2, <3>3, PendedSent
    <3>5. Held(v) = Held(w) /\ v.text = w.text /\ v.headers = w.headers
      BY <3>3 DEF SameBytes, Held
    <3> QED
      BY <2>2, <3>3, <3>4, <3>5
  <2> QED
    BY <2>1, <2>2
<1>2. PICK a : a = Write(v, first)
  OBVIOUS
<1>3. /\ IsWriter(a) /\ Held(a) = Held(v) \o first
      /\ a.text = v.text /\ a.headers = v.headers
      /\ a.wrapped = v.wrapped /\ a.exposed = v.exposed /\ Commits(a, v)
  <2>1. IsWriter(v) /\ first \in Seq(Tags)
    BY <1>1
  <2> QED
    BY ONLY <1>2, <2>1, WriteKeeps
<1>4. PICK b : b = Write(a, rest)
  OBVIOUS
<1>5. /\ IsWriter(b) /\ Held(b) = Held(a) \o rest /\ b.wroteHeaders
      /\ b.text = a.text /\ b.headers = a.headers
      /\ b.wrapped = a.wrapped /\ b.exposed = a.exposed /\ Commits(b, a)
  BY <1>3, <1>4, WriteKeeps
<1>6. PICK u : u = Flush(b)
  OBVIOUS
<1>7. /\ IsWriter(u) /\ Same(u, b) /\ Commits(u, b) /\ Flushed(u)
      /\ u.client = Held(b) /\ Held(u) = Held(b)
  BY <1>5, <1>6, FlushKeeps DEF Flush
<1>8. u.sent = u.wrapped
  BY <1>1, <1>3, <1>5, <1>7 DEF Commits, Same
<1>9. Sent(u)
  <2>1. WebType(u, "grpc") = WebType(w, "grpc")
    BY <1>1, <1>3, <1>5, <1>7 DEF WebType, Same
  <2>2. u.wrapped = v.wrapped /\ u.exposed = v.exposed /\ u.wroteHeaders
    BY <1>3, <1>5, <1>7 DEF Same
  <2> QED
    BY <1>1, <1>8, <2>1, <2>2 DEF Sent
<1>10. Pended(u) /\ u.text = w.text /\ u.committed
       /\ u.exposed \subseteq Names \cup {"type", "status"}
  BY <1>1, <1>3, <1>5, <1>7 DEF Pended, Same, Commits
<1>11. Held(u) = (Held(w) \o first) \o rest
  BY <1>1, <1>3, <1>5, <1>7
<1> QED
  BY <1>2, <1>4, <1>6, <1>7, <1>9, <1>10, <1>11

LEMMA SendMessageInv == Inv /\ SendMessage => Inv'
<1> SUFFICES ASSUME Inv, SendMessage PROVE Inv'
  OBVIOUS
<1>1. PICK size \in Sizes :
        LET first == Frame(messages', FrameHeader)
            rest  == Frame(messages', size)
            w     == IF DOMAIN response.headers = {}
                       THEN PendingHeaders(response, header) ELSE response
        IN  /\ \E v \in BeforeWrite(w) : response' = Flush(Write(Write(v, first), rest))
            /\ written' = written \o first \o rest
  BY DEF SendMessage
<1>2. PICK first, rest, w :
        /\ first = Frame(messages', FrameHeader) /\ rest = Frame(messages', size)
        /\ w = IF DOMAIN response.headers = {} THEN PendingHeaders(response, header) ELSE response
  OBVIOUS
<1>3. PICK v \in BeforeWrite(w) : response' = Flush(Write(Write(v, first), rest))
  BY <1>1, <1>2
<1>4. written' = (written \o first) \o rest
  BY <1>1, <1>2
<1>5. first \in Seq(Tags) /\ rest \in Seq(Tags) /\ messages' \in 0 .. MaxMessages
  <2>1. messages' \in Nat /\ messages' \in 0 .. MaxMessages
    BY MaxMessagesAssumption DEF SendMessage, Inv, ControlInv
  <2>2. messages' \in Tags /\ FrameHeader \in Nat /\ size \in Nat
    BY <2>1, SizesAssumption DEF Tags, FrameHeader
  <2> QED
    BY <1>2, <2>1, <2>2, FrameSeq
<1>6. /\ step = "handling" /\ step' = step /\ outcome' = outcome /\ request' = request
      /\ header' = header /\ trailer' = trailer
  BY DEF SendMessage
<1>7. /\ Accepted /\ GrpcType = "grpc" /\ outcome = "handled" /\ header \subseteq Names
      /\ IsWriter(response) /\ Held(response) = written /\ written \in Seq(Tags)
      /\ response.committed = response.wroteHeaders
      /\ response.exposed \subseteq Names \cup {"type", "status"}
      /\ \/ Unsent(response) /\ DOMAIN response.headers = {}
         \/ Sent(response) /\ Pended(response)
  BY <1>6 DEF Inv, HandlingInv, HeldInv, FlagInv, KeysInv, Accepted
<1>8. /\ IsWriter(w) /\ Pended(w) /\ OnlyHeaders(w, response)
      /\ w.wroteHeaders => Sent(w)
      /\ ~w.wroteHeaders => DOMAIN w.wrapped = {}
  <2>1. CASE DOMAIN response.headers = {}
    <3>1. Unsent(response)
      BY <1>7, <2>1, KeysOfHeaders DEF Pended
    <3>2. IsWriter(w) /\ OnlyHeaders(w, response) /\ Pended(w)
      BY <1>2, <1>7, <2>1, PendingKeeps
    <3> QED
      BY <3>1, <3>2 DEF OnlyHeaders, Unsent
  <2>2. CASE DOMAIN response.headers # {}
    BY <1>2, <1>7, <2>2 DEF OnlyHeaders, Sent
  <2> QED
    BY <2>1, <2>2
<1>9. /\ Held(w) = written /\ w.text = response.text /\ w.committed = w.wroteHeaders
      /\ w.exposed \subseteq Names \cup {"type", "status"}
  BY <1>7, <1>8 DEF OnlyHeaders, Held
<1>10. PICK u : u = response'
  OBVIOUS
<1>11. /\ IsWriter(u) /\ Flushed(u) /\ Held(u) = (written \o first) \o rest
       /\ u.client = Held(u)
       /\ Sent(u) /\ Pended(u) /\ u.committed /\ u.text = response.text
       /\ u.exposed \subseteq Names \cup {"type", "status"}
  <2>1. /\ IsWriter(u) /\ Flushed(u) /\ Held(u) = (Held(w) \o first) \o rest
        /\ u.client = Held(u)
        /\ Sent(u) /\ Pended(u) /\ u.committed /\ u.text = w.text
        /\ u.exposed \subseteq Names \cup {"type", "status"}
    <3>1. u = Flush(Write(Write(v, first), rest)) /\ first \in Seq(Tags) /\ rest \in Seq(Tags)
      BY <1>3, <1>5, <1>10
    <3>2. /\ IsWriter(w) /\ Pended(w) /\ header \subseteq Names
          /\ w.committed = w.wroteHeaders
          /\ w.wroteHeaders => Sent(w)
          /\ ~w.wroteHeaders => DOMAIN w.wrapped = {}
          /\ w.exposed \subseteq Names \cup {"type", "status"}
      BY <1>7, <1>8, <1>9
    <3> QED
      BY ONLY <3>1, <3>2, v \in BeforeWrite(w), MessageKeeps
  <2> QED
    BY <1>9, <2>1
<1>12. HeldInv'
  <2>1. (written \o first) \o rest \in Seq(Tags)
    BY <1>5, <1>7, ConcatProperties
  <2> QED
    BY <1>4, <1>10, <1>11, <2>1 DEF HeldInv
<1>13. ControlInv' /\ StartInv' /\ AnsweredInv'
  BY <1>5, <1>6 DEF Inv, ControlInv, StartInv, AnsweredInv
<1>14. KeysInv'
  <2>1. DOMAIN u.headers \subseteq HeaderKeys
    BY <1>7, <1>11, KeysOfHeaders DEF Pended
  <2> QED
    BY <1>6, <1>10, <1>11, <2>1 DEF Inv, KeysInv, Sent
<1>15. FlagInv'
  BY <1>10, <1>11 DEF FlagInv, IsWriter, Sent
<1>16. TextInv'
  BY <1>6, <1>10, <1>11 DEF Inv, TextInv, IsText
<1>17. HandlingInv'
  BY <1>6, <1>7, <1>10, <1>11 DEF HandlingInv, Accepted, GrpcType, Sent, Pended, Flushed
<1>18. DoneInv'
  BY <1>4, <1>6, <1>10, <1>11 DEF DoneInv, Prompt, MetadataDelivered, TypeReturned
<1> QED
  BY <1>10, <1>11, <1>12, <1>13, <1>14, <1>15, <1>16, <1>17, <1>18 DEF Inv

LEMMA SendStatusInv == Inv /\ SendStatus => Inv'
<1> SUFFICES ASSUME Inv, SendStatus PROVE Inv'
  OBVIOUS
<1>1. /\ step = "handling" /\ step' = "answered" /\ outcome' = outcome /\ request' = request
      /\ header' = header /\ messages' = messages /\ written' = written
      /\ trailer' \in SUBSET Names /\ response' = WriteStatus(response, trailer')
  BY DEF SendStatus
<1>2. /\ Accepted /\ GrpcType = "grpc" /\ outcome = "handled" /\ header \subseteq Names
      /\ IsWriter(response) /\ Held(response) = written /\ written \in Seq(Tags)
      /\ response.committed = response.wroteHeaders
      /\ response.wroteBody => response.wroteHeaders
      /\ response.exposed \subseteq Names \cup {"type", "status"}
      /\ DOMAIN response.wrapped \subseteq response.exposed
      /\ Flushed(response)
      /\ \/ Unsent(response) /\ DOMAIN response.headers = {}
         \/ Sent(response) /\ Pended(response)
  BY <1>1 DEF Inv, HandlingInv, HeldInv, FlagInv, KeysInv, Accepted
<1>3. \/ DOMAIN response.headers = {} /\ ~response.wroteHeaders
      \/ Pended(response)
  BY <1>2 DEF Unsent
<1>4. PICK names \in SUBSET Names : names = trailer'
  BY <1>1
<1>5. PICK v : v = response' /\ v = WriteStatus(response, names)
  BY <1>1, <1>4
<1>6. /\ IsWriter(v) /\ Held(v) = Held(response)
      /\ v.headers = [k \in StatusKeys(header, names) |-> Declared(k)]
      /\ ~response.wroteHeaders => OnlyHeaders(v, response)
      /\ v.text = response.text /\ v.wroteHeaders = response.wroteHeaders
      /\ v.wroteBody = response.wroteBody
      /\ v.wrapped = response.wrapped /\ v.exposed = response.exposed
      /\ response.wroteHeaders => Commits(v, response)
  BY <1>2, <1>3, <1>5, StatusKeeps
<1>7. Statused(response)'
  BY <1>1, <1>4, <1>5, <1>6 DEF Statused
<1>8. ControlInv' /\ StartInv' /\ HandlingInv'
  BY <1>1 DEF Inv, ControlInv, StartInv, HandlingInv
<1>9. KeysInv'
  <2>1. DOMAIN v.headers \subseteq HeaderKeys
    BY <1>2, <1>6, KeysOfHeaders
  <2> QED
    BY <1>1, <1>2, <1>4, <1>5, <1>6, <2>1 DEF KeysInv
<1>10. HeldInv' /\ IsWriter(response)'
  BY <1>1, <1>2, <1>5, <1>6 DEF HeldInv
<1>11. v.committed = v.wroteHeaders
  BY <1>2, <1>6 DEF OnlyHeaders, Commits, IsWriter
<1>12. FlagInv'
  BY <1>2, <1>5, <1>6, <1>11 DEF FlagInv
<1>13. TextInv'
  BY <1>1, <1>5, <1>6 DEF Inv, TextInv, IsText
<1>14. v.wroteHeaders => Sent(v)
  BY <1>2, <1>6 DEF Sent, Unsent, Commits, WebType
<1>15. ~v.wroteHeaders => Unsent(v) /\ Flushed(v)
  BY <1>2, <1>6 DEF Sent, Unsent, Flushed, OnlyHeaders
<1>16. AnsweredInv'
  <2>1. Accepted' /\ outcome' = "handled"
    BY <1>1, <1>2 DEF Accepted, GrpcType
  <2>2. response'.wroteHeaders => Sent(response)'
    BY <1>1, <1>5, <1>14 DEF Sent
  <2>3. ~response'.wroteHeaders => Unsent(response)' /\ Flushed(response)'
    BY <1>5, <1>15 DEF Unsent, Flushed
  <2> QED
    BY <1>7, <2>1, <2>2, <2>3 DEF AnsweredInv
<1>17. DoneInv'
  BY <1>1 DEF DoneInv, Prompt, MetadataDelivered, TypeReturned
<1> QED
  BY <1>8, <1>9, <1>10, <1>12, <1>13, <1>16, <1>17 DEF Inv

LEMMA UnknownMethodInv == Inv /\ UnknownMethod => Inv'
<1> SUFFICES ASSUME Inv, UnknownMethod PROVE Inv'
  OBVIOUS
<1>1. /\ step = "proxied" /\ step' = "answered" /\ outcome' = "unknown" /\ request' = request
      /\ header' = header /\ trailer' = trailer /\ messages' = messages /\ written' = written
      /\ response' = WriteStatus(response, {}) /\ Accepted /\ GrpcType = "grpc"
  BY DEF UnknownMethod, metadata, Accepted
<1>2. /\ response = NewResponse(response.text) /\ response.text \in BOOLEAN
      /\ header = {} /\ trailer = {}
      /\ IsWriter(response) /\ Held(response) = written /\ written \in Seq(Tags)
  BY <1>1 DEF Inv, StartInv, HeldInv, IsWriter
<1>3. /\ Flushed(response) /\ Unsent(response)
      /\ response.wroteHeaders = FALSE /\ response.wroteBody = FALSE /\ response.committed = FALSE
      /\ DOMAIN response.headers = {} /\ DOMAIN response.wrapped = {} /\ response.exposed = {}
  BY <1>2, NewKeeps
<1>4. PICK v : v = response' /\ v = WriteStatus(response, {})
  BY <1>1
<1>5. /\ IsWriter(v) /\ Held(v) = Held(response)
      /\ v.headers = [k \in StatusKeys(header, {}) |-> Declared(k)]
      /\ OnlyHeaders(v, response)
  <2>1. {} \in SUBSET Names /\ header \subseteq Names
    BY <1>2
  <2> QED
    BY <1>1, <1>2, <1>3, <1>4, <2>1, StatusKeeps
<1>6. /\ v.wroteHeaders = FALSE /\ v.wroteBody = FALSE /\ v.committed = FALSE
      /\ v.exposed = {} /\ DOMAIN v.wrapped = {} /\ Unsent(v) /\ Flushed(v)
      /\ v.text = response.text
  BY <1>3, <1>5 DEF OnlyHeaders, Unsent, Flushed
<1>7. Statused(response)'
  BY <1>1, <1>2, <1>4, <1>5 DEF Statused
<1>8. ControlInv' /\ StartInv' /\ HandlingInv'
  BY <1>1 DEF Inv, ControlInv, StartInv, HandlingInv
<1>9. KeysInv'
  <2>1. DOMAIN v.headers \subseteq HeaderKeys
    <3>1. header \in SUBSET Names /\ {} \in SUBSET Names
      BY <1>2
    <3> QED
      BY <1>5, <3>1, KeysOfHeaders
  <2> QED
    BY <1>1, <1>2, <1>4, <1>6, <2>1 DEF KeysInv
<1>10. HeldInv' /\ IsWriter(response)'
  BY <1>1, <1>2, <1>4, <1>5 DEF HeldInv
<1>11. FlagInv'
  BY <1>4, <1>6 DEF FlagInv
<1>12. TextInv'
  BY <1>1, <1>4, <1>6 DEF Inv, StartInv, TextInv, IsText
<1>13. AnsweredInv'
  <2>1. Accepted'
    BY <1>1 DEF Accepted, GrpcType
  <2>2. response'.wroteHeaders = FALSE /\ Unsent(response)' /\ Flushed(response)'
    BY <1>4, <1>6 DEF Unsent, Flushed
  <2> QED
    BY <1>1, <1>7, <2>1, <2>2 DEF AnsweredInv
<1>14. DoneInv'
  BY <1>1 DEF DoneInv, Prompt, MetadataDelivered, TypeReturned
<1> QED
  BY <1>8, <1>9, <1>10, <1>11, <1>12, <1>13, <1>14 DEF Inv

\* What the frame's trailers are: of a handler's headers, those not on the wire.
LEMMA TrailersKept ==
  ASSUME NEW names \in SUBSET Names, NEW others \in SUBSET Names, NEW src,
         DOMAIN src = StatusKeys(names, others)
  PROVE  /\ Kept(src, TrailingSkips({"type"} \cup names)) = {"status"} \cup others
         /\ \A k \in DOMAIN src \ TrailingSkips({"type"} \cup names) :
              /\ k[2] = "status" => k = Plain("status")
              /\ k[2] \in others => k = Trailer(k[2])
<1> DEFINE kept == DOMAIN src \ TrailingSkips({"type"} \cup names)
<1>1. {"type", "status", "trailer"} \cap names = {} /\ {"type", "status", "trailer"} \cap others = {}
  BY NamesAssumption
<1>2. kept = {Plain("status")} \cup {"trailer"} \X others
  <2> DEFINE skip == TrailingSkips({"type"} \cup names)
  <2>1. \A k : k \in skip <=> k = Plain("trailer") \/ k = Plain("type") \/ k \in {"plain"} \X names
    <3>1. {Plain(n) : n \in {"type"} \cup names} = {Plain("type")} \cup {"plain"} \X names
      <4>1. {Plain(n) : n \in names} = {"plain"} \X names
        BY DEF Plain
      <4> QED
        BY <4>1
    <3> QED
      BY <3>1 DEF TrailingSkips
  <2>2. Plain("status") \notin skip
    BY <1>1, <2>1 DEF Plain
  <2>3. \A k \in {"trailer"} \X others : k \notin skip
    BY <2>1 DEF Plain
  <2>4. \A k : k \in DOMAIN src <=>
           \/ k = Plain("status") \/ k \in {"trailer"} \X others
           \/ k = Plain("trailer") \/ k = Plain("type") \/ k \in {"plain"} \X names
    BY DEF StatusKeys, PendedKeys
  <2> HIDE DEF skip
  <2>5. \A k : k \in DOMAIN src \ skip <=> k = Plain("status") \/ k \in {"trailer"} \X others
    BY <2>1, <2>2, <2>3, <2>4
  <2> QED
    BY <2>5 DEF skip
<1>3. \A n \in others : Trailer(n) \in kept /\ Trailer(n)[2] = n
  BY <1>2 DEF Trailer
<1>4. Plain("status") \in kept /\ Plain("status")[2] = "status"
  BY <1>2 DEF Plain
<1>5. \A k \in kept :
        k = Plain("status") \/ \E n \in others : k = Trailer(n) /\ k[2] = n
  BY <1>2 DEF Trailer
<1>6. Kept(src, TrailingSkips({"type"} \cup names)) = {"status"} \cup others
  BY <1>3, <1>4, <1>5 DEF Kept
<1> QED
  BY <1>1, <1>4, <1>5, <1>6

LEMMA TrailersCopied ==
  ASSUME NEW names \in SUBSET Names, NEW others \in SUBSET Names, NEW src, NEW trailers,
         src = [k \in StatusKeys(names, others) |-> Declared(k)],
         trailers \in CopyHeader(<<>>, src, TrailingSkips({"type"} \cup names))
  PROVE  trailers = [n \in others \cup {"status"} |-> IF n = "status" THEN "status" ELSE "trailer"]
<1> DEFINE skip == TrailingSkips({"type"} \cup names)
<1>1. DOMAIN src = StatusKeys(names, others) /\ \A k \in DOMAIN src : src[k] = Declared(k)
  OBVIOUS
<1>2. DOMAIN src \subseteq RawKeys
  BY <1>1, KeysOfHeaders, HeaderKeysRaw
<1>3. /\ Kept(src, skip) = {"status"} \cup others
      /\ \A k \in DOMAIN src \ skip :
           (k[2] = "status" => k = Plain("status")) /\ (k[2] \in others => k = Trailer(k[2]))
  BY <1>1, TrailersKept
<1> HIDE DEF skip
<1>4. trailers \in CopyHeader(<<>>, src, skip)
  BY DEF skip
<1>5. /\ DOMAIN trailers = Kept(src, skip) \cup DOMAIN <<>>
      /\ \A n \in Kept(src, skip) : Copy(trailers, n, src, skip)
  BY <1>2, <1>4, Copied
<1>6. trailers = [n \in DOMAIN trailers |-> trailers[n]]
  BY <1>4, CopiedFunction
<1>7. DOMAIN trailers = others \cup {"status"}
  BY <1>3, <1>5
<1>8. ASSUME NEW n \in others \cup {"status"}
      PROVE  trailers[n] = IF n = "status" THEN "status" ELSE "trailer"
  <2>1. PICK k \in DOMAIN src \ skip : k[2] = n /\ trailers[n] = src[k]
    BY <1>3, <1>5 DEF Copy
  <2>2. Declared(Plain("status")) = "status" /\ \A m \in others : Declared(Trailer(m)) = "trailer"
    BY DEF Declared, Plain, Trailer
  <2>3. n = "status" => k = Plain("status")
    BY <1>3, <2>1
  <2>4. n # "status" => k = Trailer(n) /\ n \in others
    BY <1>3, <2>1
  <2>5. trailers[n] = Declared(k)
    BY <1>1, <2>1
  <2> QED
    BY <2>2, <2>3, <2>4, <2>5
<1> QED
  BY <1>6, <1>7, <1>8

\* The trailer frame is as long as a set of names.
LEMMA TrailersFinite ==
  ASSUME NEW src, NEW skip, NEW trailers \in CopyHeader(<<>>, src, skip), DOMAIN src \subseteq HeaderKeys
  PROVE  Cardinality(DOMAIN trailers) \in Nat
<1>1. DOMAIN trailers = Kept(src, skip) \cup DOMAIN <<>>
  BY HeaderKeysRaw, Copied
<1>2. Kept(src, skip) \subseteq Names \cup {"type", "status", "trailer"}
  BY DEF Kept, HeaderKeys
<1>3. IsFiniteSet({"type", "status", "trailer"})
  <2>1. {"type", "status", "trailer"} = ({"type"} \cup {"status"}) \cup {"trailer"}
    OBVIOUS
  <2>2. IsFiniteSet(({"type"} \cup {"status"}) \cup {"trailer"})
    BY FS_Singleton, FS_Union
  <2> QED
    BY <2>2, <2>1
<1>4. IsFiniteSet(Names \cup {"type", "status", "trailer"})
  BY <1>3, NamesAssumption, FS_Union
<1>5. DOMAIN trailers \subseteq Names \cup {"type", "status", "trailer"}
  BY <1>1, <1>2
<1> QED
  BY <1>4, <1>5, FS_Subset, FS_CardinalityType

\* What finishRequest finds when the headers are on the wire.
LEMMA AnsweredSent ==
  ASSUME Inv, step = "answered", outcome \in {"unknown", "handled"}, response.wroteHeaders
  PROVE  /\ Sent(response)
         /\ request.type \in WebTypes => WebType(response, "grpc") = request.type
BY DEF Inv, AnsweredInv, TextInv, IsText, WebType, WebTypes

LEMMA FinishWithHeadersInv == Inv /\ FinishWithHeaders => Inv'
<1> SUFFICES ASSUME Inv, FinishWithHeaders PROVE Inv'
  OBVIOUS
<1>1. /\ step = "answered" /\ step' = "done" /\ outcome' = outcome /\ request' = request
      /\ header' = header /\ trailer' = trailer /\ messages' = messages /\ written' = written
      /\ ~response.wroteHeaders
  BY DEF FinishWithHeaders, metadata, WroteAny
<1>2. /\ IsWriter(response) /\ Held(response) = written /\ written \in Seq(Tags)
      /\ response.committed = FALSE
      /\ Unsent(response) /\ Flushed(response)
      /\ DOMAIN response.headers \subseteq HeaderKeys
      /\ header \subseteq Names /\ trailer \subseteq Names
  BY <1>1 DEF Inv, HeldInv, FlagInv, KeysInv, AnsweredInv, IsWriter
<1>3. Held(response) = <<>> /\ DOMAIN response.wrapped = {}
  <2>1. (<<>> \o <<>>) \o <<>> = <<>> /\ DOMAIN <<>> = {}
    OBVIOUS
  <2> QED
    BY <1>2, <2>1 DEF Held, Unsent, Flushed
<1>4. PICK w \in WriteHeader(response) : response' = FlushWriter(w)
  BY DEF FinishWithHeaders
<1>5. /\ IsWriter(w) /\ SameBytes(w, response) /\ Copies(w.wrapped, w.exposed, response)
      /\ w.wroteHeaders /\ w.committed /\ w.sent = w.wrapped
  BY <1>2, <1>4, HeaderKeysRaw, WriteHeaderKeeps
<1>6. PICK v : v = response'
  OBVIOUS
<1>7. /\ IsWriter(v) /\ Same(v, w) /\ Commits(v, w) /\ v.client = Held(w) /\ Held(v) = Held(w)
  BY <1>4, <1>5, <1>6, FlushKeeps
<1>8. /\ Held(w) = <<>> /\ v.client = <<>> /\ written = <<>>
      /\ v.headers = response.headers /\ v.text = response.text
      /\ v.wrapped = w.wrapped /\ v.exposed = w.exposed /\ v.sent = w.wrapped
  BY <1>2, <1>3, <1>5, <1>7 DEF SameBytes, Same, Commits, Held
<1>9. ControlInv' /\ StartInv' /\ HandlingInv' /\ AnsweredInv'
  BY <1>1 DEF Inv, ControlInv, StartInv, HandlingInv, AnsweredInv
<1>10. HeldInv' /\ IsWriter(response)'
  BY <1>1, <1>2, <1>3, <1>6, <1>7, <1>8 DEF HeldInv
<1>11. FlagInv'
  BY <1>5, <1>6, <1>7 DEF FlagInv, Same, Commits, IsWriter
<1>12. TextInv'
  BY <1>1, <1>6, <1>8 DEF Inv, TextInv, IsText
<1>13. KeysInv'
  <2>1. Kept(response.headers, {Plain("trailer")}) \subseteq Names \cup {"type", "status"}
    BY <1>2, KeptNames
  <2>2. DOMAIN w.wrapped \subseteq Names \cup {"type", "status"} /\ w.exposed = DOMAIN w.wrapped \cup {"status"}
    BY <1>3, <1>5, <2>1 DEF Copies
  <2> QED
    BY <1>1, <1>2, <1>6, <1>8, <2>2 DEF KeysInv
<1>14. ASSUME outcome \in {"unknown", "handled"}
       PROVE  /\ v.sent = v.wrapped /\ v.exposed = DOMAIN v.wrapped
              /\ DOMAIN v.wrapped = {"type", "status"} \cup header \cup trailer
              /\ v.wrapped["type"] = WebType(response, "grpc") /\ v.wrapped["status"] = "status"
              /\ \A n \in header \ trailer : v.wrapped[n] = "header"
              /\ \A n \in trailer \ header : v.wrapped[n] = "trailer"
              /\ \A n \in header \cap trailer : v.wrapped[n] \in {"header", "trailer"}
  <2>1. Statused(response)
    BY <1>1, <1>14 DEF Inv, AnsweredInv
  <2> QED
    BY <1>2, <1>3, <1>5, <1>8, <2>1, StatusSent
<1>15. Prompt'
  BY <1>1, <1>6, <1>8 DEF Prompt
<1>16. MetadataDelivered'
  BY <1>1, <1>6, <1>8, <1>14 DEF MetadataDelivered, Readable
<1>17. TypeReturned'
  <2>1. request.type \in WebTypes => WebType(response, "grpc") = request.type
    BY <1>1 DEF Inv, TextInv, AnsweredInv, IsText, WebType, WebTypes
  <2>2. request.method = "POST" /\ request.type \in WebTypes => outcome # "refused"
    BY <1>1 DEF Inv, AnsweredInv, Accepted, GrpcType
  <2>3. outcome \in {"refused", "unknown", "handled", "aborted"}
    BY <1>1 DEF Inv, AnsweredInv
  <2> QED
    BY <1>1, <1>6, <1>14, <2>1, <2>2, <2>3 DEF TypeReturned, Readable
<1> QED
  BY <1>9, <1>10, <1>11, <1>12, <1>13, <1>15, <1>16, <1>17 DEF Inv, DoneInv

LEMMA NeverEmpty ==
  ASSUME NEW s \in Seq(Tags), NEW f \in Seq(Tags), NEW r \in Seq(Tags), Len(f) = 5
  PROVE  (s \o f) \o r \in Seq(Tags) /\ (s \o f) \o r # <<>>
<1>1. PICK t \in Seq(Tags) : t = s \o f
  BY ConcatProperties
<1>2. Len(t) = Len(s) + 5 /\ Len(s) \in Nat /\ Len(r) \in Nat
  <2>1. Len(s) \in Nat /\ Len(r) \in Nat
    BY LenProperties
  <2>2. Len(s \o f) = Len(s) + Len(f)
    BY ONLY s \in Seq(Tags), f \in Seq(Tags)
  <2> QED
    BY <1>1, <2>1, <2>2
<1>3. t \o r \in Seq(Tags) /\ Len(t \o r) = Len(t) + Len(r)
  BY ConcatProperties
<1>4. t \o r # <<>>
  BY <1>2, <1>3
<1> QED
  BY <1>1, <1>3, <1>4

LEMMA FinishWithFrameInv == Inv /\ FinishWithFrame => Inv'
<1> SUFFICES ASSUME Inv, FinishWithFrame PROVE Inv'
  OBVIOUS
<1>1. /\ step = "answered" /\ step' = "done" /\ outcome' = outcome /\ request' = request
      /\ header' = header /\ trailer' = trailer /\ messages' = messages
      /\ response.wroteHeaders
  BY DEF FinishWithFrame, metadata, WroteAny, Inv, FlagInv
<1>2. /\ IsWriter(response) /\ Held(response) = written /\ written \in Seq(Tags)
      /\ response.committed
      /\ DOMAIN response.headers \subseteq HeaderKeys
      /\ header \in SUBSET Names /\ trailer \in SUBSET Names
  BY <1>1 DEF Inv, HeldInv, FlagInv, KeysInv
<1>3. PICK trailers \in CopyHeader(<<>>, response.headers, TrailingSkips(DOMAIN response.wrapped)) :
        LET first == Frame("trailers", FrameHeader)
            rest  == Frame("trailers", Cardinality(DOMAIN trailers))
        IN  /\ response' = FlushWriter(Emit(Emit([response EXCEPT !.trailers = trailers], first), rest))
            /\ written' = written \o first \o rest
  BY DEF FinishWithFrame
<1>4. PICK first, rest : first = Frame("trailers", FrameHeader)
                         /\ rest = Frame("trailers", Cardinality(DOMAIN trailers))
  OBVIOUS
<1>5. first \in Seq(Tags) /\ rest \in Seq(Tags) /\ Len(first) = 5
  <2>1. Cardinality(DOMAIN trailers) \in Nat
    BY <1>2, TrailersFinite
  <2> QED
    BY <1>4, <2>1, FrameSeq DEF Tags, FrameHeader
<1>6. written' = (written \o first) \o rest
  BY <1>3, <1>4
<1>7. PICK r : r = [response EXCEPT !.trailers = trailers]
  OBVIOUS
<1>8. /\ DOMAIN r = Fields /\ r.trailers = trailers
      /\ r.text = response.text /\ r.wroteHeaders = response.wroteHeaders
      /\ r.wroteBody = response.wroteBody /\ r.headers = response.headers
      /\ r.wrapped = response.wrapped /\ r.exposed = response.exposed
      /\ r.committed = response.committed /\ r.sent = response.sent
      /\ r.pending = response.pending /\ r.buffered = response.buffered
      /\ r.client = response.client
  BY <1>2, <1>7 DEF IsWriter, Fields
<1>9. IsWriter(r) /\ Held(r) = written
  BY <1>2, <1>8 DEF IsWriter, Held
<1>10. PICK a : a = Emit(r, first)
  OBVIOUS
<1>11. IsWriter(a) /\ Same(a, r) /\ Commits(a, r) /\ Held(a) = written \o first
  BY <1>5, <1>9, <1>10, EmitKeeps
<1>12. PICK b : b = Emit(a, rest)
  OBVIOUS
<1>13. IsWriter(b) /\ Same(b, a) /\ Commits(b, a) /\ Held(b) = Held(a) \o rest
  BY <1>5, <1>11, <1>12, EmitKeeps
<1>14. PICK v : v = response'
  OBVIOUS
<1>15. /\ IsWriter(v) /\ Same(v, b) /\ Commits(v, b) /\ v.client = Held(b) /\ Held(v) = Held(b)
  <2>1. v = FlushWriter(b)
    BY <1>3, <1>4, <1>7, <1>10, <1>12, <1>14
  <2> QED
    BY <1>13, <2>1, FlushKeeps
<1>16. /\ Held(v) = written' /\ v.client = written' /\ v.trailers = trailers
       /\ v.text = response.text /\ v.headers = response.headers
       /\ v.wrapped = response.wrapped /\ v.exposed = response.exposed
       /\ v.committed /\ v.sent = response.sent
       /\ v.wroteHeaders = response.wroteHeaders /\ v.wroteBody = response.wroteBody
  BY <1>2, <1>6, <1>8, <1>11, <1>13, <1>15 DEF Same, Commits
<1>17. written' \in Seq(Tags) /\ written' # <<>>
  BY <1>2, <1>5, <1>6, NeverEmpty
<1>18. ControlInv' /\ StartInv' /\ HandlingInv' /\ AnsweredInv'
  BY <1>1 DEF Inv, ControlInv, StartInv, HandlingInv, AnsweredInv
<1>19. HeldInv' /\ IsWriter(response)'
  BY <1>14, <1>15, <1>16, <1>17 DEF HeldInv
<1>20. FlagInv'
  BY <1>1, <1>14, <1>15, <1>16 DEF FlagInv, IsWriter
<1>21. TextInv'
  BY <1>1, <1>14, <1>16 DEF Inv, TextInv, IsText
<1>22. KeysInv'
  BY <1>1, <1>14, <1>16 DEF Inv, KeysInv
<1>23. Prompt'
  BY <1>14, <1>16 DEF Prompt
<1>24. ASSUME outcome \in {"unknown", "handled"}
       PROVE  /\ v.sent = v.wrapped /\ DOMAIN v.wrapped \subseteq v.exposed
              /\ DOMAIN v.wrapped = {"type"} \cup header
              /\ v.wrapped["type"] = WebType(response, "grpc")
              /\ \A n \in header : v.wrapped[n] = "header"
              /\ request.type \in WebTypes => WebType(response, "grpc") = request.type
              /\ trailers = [n \in trailer \cup {"status"} |-> IF n = "status" THEN "status" ELSE "trailer"]
  <2>1. /\ Sent(response)
        /\ request.type \in WebTypes => WebType(response, "grpc") = request.type
    BY <1>1, <1>24, AnsweredSent
  <2>2. PICK src : src = response.headers
    OBVIOUS
  <2>3. src = [k \in StatusKeys(header, trailer) |-> Declared(k)]
    BY <1>1, <1>24, <2>2 DEF Inv, AnsweredInv, Statused
  <2>4. trailers \in CopyHeader(<<>>, src, TrailingSkips({"type"} \cup header))
    BY <1>3, <2>1, <2>2 DEF Sent
  <2>5. trailers = [n \in trailer \cup {"status"} |-> IF n = "status" THEN "status" ELSE "trailer"]
    BY ONLY <1>2, <2>3, <2>4, TrailersCopied
  <2> QED
    BY <1>16, <2>1, <2>5 DEF Sent
<1>25. MetadataDelivered'
  BY <1>1, <1>14, <1>16, <1>17, <1>24 DEF MetadataDelivered, Readable
<1>26. TypeReturned'
  <2>1. request.method = "POST" /\ request.type \in WebTypes => outcome # "refused"
    BY <1>1 DEF Inv, AnsweredInv, Accepted, GrpcType
  <2>2. outcome \in {"refused", "unknown", "handled", "aborted"}
    BY <1>1 DEF Inv, AnsweredInv
  <2> QED
    BY <1>1, <1>14, <1>16, <1>24, <2>1, <2>2 DEF TypeReturned, Readable
<1> QED
  BY <1>18, <1>19, <1>20, <1>21, <1>22, <1>23, <1>25, <1>26 DEF Inv, DoneInv

LEMMA StutterInv == Inv /\ UNCHANGED vars => Inv'
<1> SUFFICES ASSUME Inv, UNCHANGED vars PROVE Inv'
  OBVIOUS
<1> USE DEF vars, metadata
<1>1. ControlInv' /\ KeysInv' /\ IsWriter(response)' /\ HeldInv' /\ FlagInv'
  BY DEF Inv, ControlInv, KeysInv, HeldInv, FlagInv
<1>2. StartInv' /\ TextInv'
  BY DEF Inv, StartInv, TextInv, IsText
<1>3. HandlingInv'
  BY DEF Inv, HandlingInv, Accepted, GrpcType, Flushed, Unsent, Sent, Pended
<1>4. AnsweredInv'
  BY DEF Inv, AnsweredInv, Accepted, GrpcType, Flushed, Unsent, Sent, Statused
<1>5. DoneInv'
  BY DEF Inv, DoneInv, Prompt, MetadataDelivered, TypeReturned, Readable
<1> QED
  BY <1>1, <1>2, <1>3, <1>4, <1>5 DEF Inv

------------------------------------------------------------------------------
(***************************************************************************)
(* The theorems.                                                           *)
(***************************************************************************)
\* What the proxy and the gRPC server keep true of one request: no byte is
\* lost on its way through the encoder and the buffers, and at every step of
\* the handler the headers are either all on the wire or all still to be sent.
THEOREM Invariance == Spec => []Inv
<1>1. Inv /\ [Next]_vars => Inv'
  BY NotFoundInv, ProxyInv, RefuseInv, UnknownMethodInv, HandleInv, SendHeaderInv, SendMessageInv,
     SendStatusInv, AbortInv, FinishWithFrameInv, FinishWithHeadersInv, StutterInv DEF Next
<1> QED
  BY <1>1, InitInv, PTL DEF Spec

\* Type correctness: the header maps hold no key the proxy and the gRPC server
\* do not set, what is on the wire is exposed to scripts, and the base64 encoder
\* never keeps a whole group of three bytes.
THEOREM TypeCorrect == Spec => []TypeOK
BY Invariance, InvType, PTL

\* For messages of any size and number, and both content types, the browser has
\* every byte written so far whenever the handler runs on after a message, and
\* when the request is done: a flush closes the base64 encoder first.
THEOREM NothingHeldBack == Spec => []Prompt
<1>1. Inv => Prompt
  BY DEF Inv, DoneInv
<1> QED
  BY <1>1, Invariance, PTL

\* Whatever names a handler sets as headers and as trailers, finishRequest
\* delivers all of them in their place: the trailers in the frame and only
\* there if there is a payload, and as headers if there is none, with either
\* value where copyHeader's map order decides.
THEOREM Metadata == Spec => []MetadataDelivered
<1>1. Inv => MetadataDelivered
  BY DEF Inv, DoneInv
<1> QED
  BY <1>1, Invariance, PTL

\* A gRPC-Web POST is not refused by the gRPC server the proxy rewrites it for,
\* and its answer has the content type it was asked in, readable by scripts.
THEOREM SameType == Spec => []TypeReturned
<1>1. Inv => TypeReturned
  BY DEF Inv, DoneInv
<1> QED
  BY <1>1, Invariance, PTL

------------------------------------------------------------------------------
(***************************************************************************)
(* The proxy as Build mounts it.                                           *)
(***************************************************************************)
\* No request to a service built by Build reaches a gRPC handler.
NoHandler == request.mount = "builder" => outcome \notin {"handled", "aborted"}

\* The only path that gets past the mux.
MountInv ==
  /\ NoHandler
  /\ request.mount = "builder" /\ step = "proxied" => request.path = "/api"
  /\ request.mount = "builder" => step # "handling"

\* Build mounts the proxy at exactly "/api" and the proxy passes a path on as it
\* is, so no method's name ever comes through it.
THEOREM NeverHandled == Spec => []NoHandler
<1>1. Init => MountInv
  BY DEF Init, MountInv, NoHandler
<1>2. ASSUME MountInv, [Next]_vars PROVE MountInv'
  <2> USE <1>2 DEF MountInv, NoHandler
  <2>1. CASE NotFound
    BY <2>1 DEF NotFound
  <2>2. CASE Proxy
    BY <2>2 DEF Proxy, Routed
  <2>3. CASE Refuse \/ UnknownMethod \/ FinishWithFrame \/ FinishWithHeaders
    BY <2>3 DEF Refuse, UnknownMethod, FinishWithFrame, FinishWithHeaders
  <2>4. CASE Handle
    BY <2>4 DEF Handle
  <2>5. CASE SendHeader \/ SendMessage \/ SendStatus \/ Abort
    BY <2>5 DEF SendHeader, SendMessage, SendStatus, Abort
  <2>6. CASE UNCHANGED vars
    BY <2>6 DEF vars, metadata
  <2>7. QED
    BY <2>1, <2>2, <2>3, <2>4, <2>5, <2>6 DEF Next
<1>3. MountInv => NoHandler
  BY DEF MountInv
<1>4. QED
  BY <1>1, <1>2, <1>3, PTL DEF Spec
=============================================================================
