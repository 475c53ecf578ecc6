----------------------------- MODULE RequestPath -----------------------------
(* The path of one HTTP request: Burp's handler decides whether to send it   *)
(* through the embedded proxy (TlsPlusHttpHandler.kt), the local connection  *)
(* may lower its HTTP version, the proxy classifies and checks it            *)
(* (proxy/service.rs, proxy/websocket), strips headers and sends it to its   *)
(* target - which may be the proxy itself, so that it comes round again. The *)
(* answer is relayed, or the connection is handed over to a bridge. Header   *)
(* values are abstracted to what the checks tell apart.                      *)
EXTENDS Integers

CONSTANTS MaxHops       \* bound: passes through the proxy that are followed

ASSUME PathAssumption == MaxHops \in Nat

\* Where a request is addressed: the proxy's endpoint, the endpoint under a
\* name the handler does not recognise (a DNS name of the machine), another port
\* of 127.0.0.1 or localhost, or elsewhere.
Hosts == {"proxy", "alias", "local", "remote"}
Absent == [target |-> "absent", profile |-> "absent", timeout |-> "absent", version |-> "absent"]

\* The X-Tlsplus-* headers a client may send: "dup" is a repeated header,
\* "binary" a value that is not text, "huge" a number of seconds no clock reaches.
Metas == [target : {"absent", "empty", "http", "ws", "relative", "dup", "binary"},
          profile : {"absent", "known", "dup"},
          timeout : {"absent", "number", "huge", "text", "dup"},
          version : {"absent", "HTTP/2", "other"}]

\* Those a user may have typed into a request of Burp's, for the handler to
\* replace; requests typed for the endpoint itself are clients' requests.
TypedMetas == [target : {"absent", "relative"}, profile : {"absent"},
               timeout : {"absent", "huge", "text"},
               version : {"absent", "HTTP/2", "other"}]

\* What the upstream may answer; upgrade: with Connection: upgrade and Upgrade:
\* websocket. A 101 exists in HTTP/1.1 only.
Replies == {r \in [status : {101, 200, 403}, version : {"h1", "h2"}, upgrade : BOOLEAN] :
                r.status = 101 \/ r.upgrade => r.version = "h1"}
NoReply == [status |-> 0, version |-> "none", upgrade |-> FALSE]

\* version: HTTP/1.0, 1.1 or 2; protocol: the :protocol of an extended CONNECT;
\* conn: the tokens of the Connection header, one of which may nominate the end
\* to end looking header "custom"; upgrade: Upgrade: websocket is present.
Shapes ==
    {s \in [method : {"GET", "POST", "CONNECT"}, version : {"h10", "h1", "h2"},
            protocol : {"none", "websocket", "other"},
            conn : SUBSET {"upgrade", "custom"}, upgrade : BOOLEAN] :
        /\ s.protocol # "none" => s.version = "h2" /\ s.method = "CONNECT"
        /\ s.version = "h2" => s.conn = {} /\ ~s.upgrade}

VARIABLES
    stage,      \* "burp", "wire", "outbound", "replied", "direct", "answered"
    origin,     \* who made the request: "burp" or another client of the proxy
    shape, host, meta,      \* the request as it is now
    headers,    \* the names of its other headers
    first,      \* the shape it had when it was made
    mode,       \* [active, running]: passThroughOnly is off, the server is up
    hops,       \* passes through the proxy
    reply,      \* what the upstream answered
    bridged,    \* a bridge job was handed to the connection's task
    status      \* what the client is answered, 0 before

asked == <<origin, host, first, mode>>
answer == <<reply, bridged, status>>
vars == <<stage, shape, meta, headers, hops, asked, answer>>

HopByHop == {"connection", "proxy-connection", "keep-alive", "proxy-authorization",
             "proxy-authenticate", "te", "trailer", "transfer-encoding", "upgrade"}
PlainHeaders == {"accept", "custom", "te", "proxy-authorization", "host"}
HeadersOf(s) ==
    PlainHeaders \cup (IF s.conn # {} THEN {"connection"} ELSE {})
                 \cup (IF s.upgrade THEN {"upgrade"} ELSE {})

TypeOK ==
    /\ stage \in {"burp", "wire", "outbound", "replied", "direct", "answered"}
    /\ origin \in {"burp", "client"}
    /\ shape \in Shapes /\ first \in Shapes
    /\ host \in Hosts /\ meta \in Metas
    /\ headers \subseteq PlainHeaders \cup HopByHop \cup {"x-tlsplus"}
    /\ mode \in [active : BOOLEAN, running : BOOLEAN]
    /\ hops \in 0..MaxHops + 1
    /\ reply \in Replies \cup {NoReply} /\ bridged \in BOOLEAN
    /\ status \in {0, 101, 200, 400, 403, 500, 502, 504}

\* Burp makes a request, into which internal headers may have been typed, or a
\* client connects to the proxy and sends any.
Init ==
    /\ shape \in Shapes /\ first = shape
    /\ host \in Hosts
    /\ mode \in [active : BOOLEAN, running : BOOLEAN]
    /\ \/ origin = "burp" /\ stage = "burp" /\ meta \in TypedMetas
       \/ /\ origin = "client" /\ stage = "wire" /\ meta \in Metas
          /\ mode = [active |-> TRUE, running |-> TRUE]
    /\ headers = HeadersOf(shape) \cup (IF meta = Absent THEN {} ELSE {"x-tlsplus"})
    /\ hops = 0 /\ status = 0 /\ reply = NoReply /\ bridged = FALSE

\* classify: an extended protocol decides alone, else the two h1 tokens do.
Classify(s) ==
    IF s.protocol # "none" THEN
        IF s.method = "CONNECT" /\ s.version = "h2" /\ s.protocol = "websocket"
        THEN "websocket" ELSE "invalid"
    ELSE IF "upgrade" \notin s.conn /\ ~s.upgrade THEN "none"
    ELSE IF s.method = "GET" /\ s.version = "h1" /\ "upgrade" \in s.conn /\ s.upgrade
         THEN "websocket" ELSE "invalid"

-----------------------------------------------------------------------------
(* TlsPlusHttpHandler.handleHttpRequestToBeSent.                             *)

\* Pass-through mode, no running server, or the proxy's own endpoint.
Unchanged == ~mode.active \/ ~mode.running \/ host = "proxy"

GoesOnUnchanged ==
    /\ stage' = IF host \in {"proxy", "alias"} /\ mode.running THEN "wire" ELSE "direct"
    /\ UNCHANGED <<shape, meta, headers, hops, asked, answer>>

Continue == stage = "burp" /\ Unchanged /\ GoesOnUnchanged

\* Any exception while the request is rebuilt leaves it as it was.
FailsOpen == stage = "burp" /\ ~Unchanged /\ GoesOnUnchanged

\* Mutated: a timeout that is already there is kept.
Declare_keepsTimeout(s, m, target) ==
    [target |-> target, profile |-> "known",
     timeout |-> IF m.timeout = "absent" THEN "number" ELSE m.timeout,
     version |-> IF s.version = "h2" THEN "HTTP/2" ELSE "absent"]

\* Every internal header is replaced, or removed when it does not apply.
Declare(s, m, target) ==
    [m EXCEPT !.target = target, !.profile = "known", !.timeout = "number",
              !.version = IF s.version = "h2" THEN "HTTP/2" ELSE "absent"]

\* The request is readdressed to the endpoint and carries where it was going.
Redirect ==
    /\ stage = "burp" /\ ~Unchanged
    /\ stage' = "wire"
    /\ \E target \in {"http"} \cup (IF Classify(shape) = "websocket" THEN {"ws"} ELSE {}) :
         meta' = Declare(shape, meta, target)
    /\ headers' = headers \cup {"x-tlsplus"}
    /\ UNCHANGED <<shape, hops, asked, answer>>

-----------------------------------------------------------------------------
(* The connection between Burp and the proxy.                                *)

\* Burp may send an HTTP/2 request over an HTTP/1.1 connection; an extended
\* CONNECT then becomes an upgrade or a plain CONNECT.
Downgrade ==
    /\ stage = "wire" /\ origin = "burp" /\ shape.version = "h2" /\ hops = 0
    /\ \E s \in Shapes :
         /\ s.version = "h1"
         /\ \/ shape.protocol = "none" /\ s.method = shape.method /\ s.conn = {} /\ ~s.upgrade
            \/ shape.protocol # "none" /\ s.method = "GET" /\ s.conn = {"upgrade"} /\ s.upgrade
            \/ shape.protocol # "none" /\ s.method = "CONNECT" /\ s.conn = {} /\ ~s.upgrade
         /\ shape' = s
         /\ headers' = (headers \ {"connection", "upgrade"})
                          \cup (HeadersOf(s) \cap {"connection", "upgrade"})
    /\ UNCHANGED <<stage, meta, hops, asked, answer>>

-----------------------------------------------------------------------------
(* proxy_service.                                                            *)

\* Mutated: the check of the declared version is left out.
VersionChanged_never(s, m) == s.version # s.version /\ m = m

\* A tunnel must arrive in the HTTP version its sender declared.
VersionChanged(s, m) ==
    /\ s.method = "CONNECT" \/ Classify(s) # "none"
    /\ m.version = "HTTP/2" /\ s.version # "h2"

\* The ordinary path rejects repeated, malformed or missing metadata.
PlainMetaOk(m) ==
    /\ m.target = "http" /\ m.profile # "dup" /\ m.timeout \in {"absent", "number", "huge"}

\* The tunnel path reads the first value and falls back to the default timeout.
TunnelMetaOk(m) == m.target \in {"http", "ws", "dup"}

Rejected(s, m) ==
    \/ m.version = "other"
    \/ VersionChanged(s, m)
    \/ Classify(s) = "invalid"
    \/ Classify(s) = "websocket" /\ ~TunnelMetaOk(m)
    \/ Classify(s) = "none" /\ ~PlainMetaOk(m)

\* A tunnel's deadline is a point in time, which must exist.
NoDeadline(s, m) == Classify(s) = "websocket" /\ m.timeout = "huge"

\* The proxy answers itself: the metadata is refused, or there is no client for
\* the profile, which is found before the deadline is computed.
Refuse ==
    /\ stage = "wire" /\ hops <= MaxHops
    /\ stage' = "answered" /\ hops' = hops + 1
    /\ status' \in IF Rejected(shape, meta) THEN {400}
                   ELSE IF NoDeadline(shape, meta) THEN {400, 502} ELSE {502}
    /\ UNCHANGED <<shape, meta, headers, reply, bridged, asked>>

\* Mutated: the internal headers are passed on.
Kept_internal(s, h) == h \ (HopByHop \cup {"host"})

\* The ordinary path drops the internal headers, host, and a fixed list; the
\* tunnel path also drops what Connection nominates, and on h1 sets its own.
Kept(s, h) ==
    LET base == h \ (HopByHop \cup {"host", "x-tlsplus"}) IN
    IF Classify(s) = "none" THEN base
    ELSE (base \ s.conn) \cup (IF s.version = "h1" THEN {"connection", "upgrade"} ELSE {})

\* Mutated: the version of the local connection is used.
OutboundVersion_wire(s, m) == s.version

\* The version asked of the client. A declared version wins over the version of
\* the local connection; a tunnel keeps its transport.
OutboundVersion(s, m) ==
    IF Classify(s) = "none" /\ m.version = "HTTP/2" THEN "h2" ELSE s.version

\* What the client makes of it: HTTP/2 for HTTP/2, and HTTP/1.1 for every
\* HTTP/1.x (proxy_http2.rs:85, 167, proxy_protocol_compat.rs:87-90).
SentVersion(v) == IF v = "h2" THEN "h2" ELSE "h1"

\* Mutated: the ordinary path passes the Connection header on.
ShapeOut_keepsConnection(s, m) ==
    [s EXCEPT !.version = SentVersion(OutboundVersion(s, m)),
              !.upgrade = Classify(s) = "websocket" /\ s.version = "h1"]

\* The request as its target sees it.
ShapeOut(s, m) ==
    [s EXCEPT !.version = SentVersion(OutboundVersion(s, m)),
              !.conn = IF Classify(s) = "none" THEN {} ELSE @ \ {"custom"},
              !.upgrade = Classify(s) = "websocket" /\ s.version = "h1"]

Forward ==
    /\ stage = "wire" /\ hops <= MaxHops
    /\ ~Rejected(shape, meta) /\ ~NoDeadline(shape, meta)
    /\ stage' = "outbound" /\ hops' = hops + 1
    /\ headers' = Kept(shape, headers)
    /\ meta' = IF "x-tlsplus" \in headers' THEN meta ELSE Absent
    /\ shape' = ShapeOut(shape, meta)
    /\ UNCHANGED <<asked, answer>>

\* The target is the proxy itself: the request comes in again.
ComeRound ==
    /\ stage = "outbound" /\ host \in {"proxy", "alias"}
    /\ stage' = "wire"
    /\ UNCHANGED <<shape, meta, headers, hops, asked, answer>>

Answer(code) ==
    /\ stage' = "answered" /\ status' = code
    /\ UNCHANGED <<shape, meta, headers, hops, reply, asked>>

-----------------------------------------------------------------------------
(* The way back: proxy_service and websocket::proxy.                         *)

\* The request fails, or the timeout elapses.
Fails ==
    /\ stage = "outbound"
    /\ \E code \in {502, 504} : Answer(code)
    /\ UNCHANGED bridged

\* The upstream answers, as it likes.
Replied ==
    /\ stage = "outbound" /\ host \in {"local", "remote"}
    /\ stage' = "replied" /\ reply' \in Replies
    /\ UNCHANGED <<shape, meta, headers, hops, bridged, status, asked>>

\* Mutated: one test of the status for both transports.
IsSuccess_anyStatus(version, r) == r.version = version /\ r.status < 300

\* outbound::is_success: an answer in the version asked for that opens a tunnel.
IsSuccess(version, r) ==
    r.version = version /\ r.status = IF version = "h1" THEN 101 ELSE 200

\* What websocket::proxy finds in an answer to a tunnel it asked for.
Verdict(version, r) ==
    IF ~IsSuccess(version, r) THEN "relay"
    ELSE IF version = "h1" /\ ~r.upgrade THEN "malformed" ELSE "switch"

\* An ordinary answer, or one that opens no tunnel, is the client's answer.
Relay ==
    /\ stage = "replied"
    /\ Classify(shape) = "websocket" => Verdict(shape.version, reply) = "relay"
    /\ Answer(reply.status) /\ UNCHANGED bridged

\* The upstream accepts without switching to WebSocket.
Malformed ==
    /\ stage = "replied" /\ Classify(shape) = "websocket"
    /\ Verdict(shape.version, reply) = "malformed"
    /\ Answer(502) /\ UNCHANGED bridged

\* The upgrade fails or takes too long, or the connection's task is gone.
UpgradeFails ==
    /\ stage = "replied" /\ Classify(shape) = "websocket"
    /\ Verdict(shape.version, reply) = "switch"
    /\ \E code \in {500, 502, 504} : Answer(code)
    /\ UNCHANGED bridged

\* Both ends go to a bridge and the client is told what the upstream said.
Bridge ==
    /\ stage = "replied" /\ Classify(shape) = "websocket"
    /\ Verdict(shape.version, reply) = "switch"
    /\ bridged' = TRUE /\ Answer(reply.status)

Next ==
    \/ Continue \/ FailsOpen \/ Redirect \/ Downgrade
    \/ Refuse \/ Forward \/ ComeRound \/ Fails \/ Replied
    \/ Relay \/ Malformed \/ UpgradeFails \/ Bridge

Spec == Init /\ [][Next]_vars

-----------------------------------------------------------------------------
(* Properties.                                                               *)

\* A request whose target is the proxy itself goes round once at most: the
\* first pass strips the metadata the second one needs (service.rs:145,
\* headers.rs:57). The handler recognises the endpoint by name only, so an alias
\* of it depends on this.
NoProxyLoop == hops <= 2

\* Whatever happens on the local connection, and whatever version was typed into
\* the request, an ordinary Burp request reaches its target over HTTP/2 if Burp
\* made it one of HTTP/2, and as HTTP/1.1 if it was one of HTTP/1.1 or 1.0
\* (service.rs:147-153); a plain CONNECT does so or is refused.
VersionSurvives ==
    (stage = "outbound" /\ origin = "burp" /\ Classify(first) = "none") =>
        shape.version = IF first.version = "h2" THEN "h2" ELSE "h1"

\* A tunnel Burp asked for over HTTP/2 is never opened as an HTTP/1.1 upgrade:
\* it is forwarded as an extended CONNECT or refused.
TunnelNotDowngraded ==
    (stage = "outbound" /\ origin = "burp" /\ first.protocol # "none") =>
        shape.version = "h2" /\ shape.protocol = "websocket"

\* The handler and the proxy agree on the metadata: a request the handler sent on
\* its way is refused only because its version changed on the way or because it
\* is no upgrade the proxy knows - never for a header, on either of the two paths
\* that read them differently (service.rs:82-110, websocket/mod.rs:71-114), and
\* whatever internal headers were typed into it. Requests addressed elsewhere
\* reach the proxy only by way of the handler.
RedirectedIsAccepted ==
    (stage = "answered" /\ status = 400 /\ origin = "burp" /\ host \in {"local", "remote"}) =>
        VersionChanged(shape, meta) \/ Classify(shape) = "invalid"

\* A client is told that its tunnel is open exactly when its connection has been
\* handed to a bridge, and that happens only after the upstream switched to
\* WebSocket (websocket/mod.rs:134-182). Of answers in another version than the
\* one asked for, only those an HTTP/2 client could not take for an open tunnel.
TunnelAnnouncedIsReal ==
    (stage = "answered" /\ Classify(shape) = "websocket") =>
        /\ bridged =>
             /\ status = reply.status /\ reply.version = shape.version
             /\ IF shape.version = "h1" THEN status = 101 /\ reply.upgrade ELSE status = 200
        /\ (status = (IF shape.version = "h1" THEN 101 ELSE 200)
              /\ reply.version = shape.version) => bridged

\* The request made of the target has no metadata, none of the headers of the
\* hop before, and not its Host, on either path (service.rs:145, headers.rs:57);
\* only a tunnel over HTTP/1.1 has the two headers that ask for its upgrade.
OneHopStaysBehind ==
    stage \in {"outbound", "replied"} =>
        /\ meta = Absent
        /\ headers \cap (HopByHop \cup {"host", "x-tlsplus"}) \subseteq
             IF Classify(shape) = "websocket" /\ shape.version = "h1"
             THEN {"connection", "upgrade"} ELSE {}

\* Documented (README.md:187): requests to 127.0.0.1 and localhost are not
\* redirected.
LoopbackNotRedirected == [][Redirect => host # "local"]_vars
=============================================================================
