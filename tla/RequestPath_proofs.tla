------------------------- MODULE RequestPath_proofs -------------------------
(* Proofs about the path of a request: no request goes round the proxy more  *)
(* than once, whatever it carries and wherever it is addressed; what Burp    *)
(* asked for keeps its HTTP version; what the handler declares the proxy     *)
(* accepts; a tunnel is announced exactly when there is one; and nothing of  *)
(* one hop leaves with the request.                                          *)
EXTENDS RequestPath, TLAPS

(* Why no loop is possible: after the first pass the request carries no      *)
(* metadata, and a request without metadata is rejected on any path.         *)
Stripped ==
    /\ hops \in {0, 1, 2}
    /\ stage = "burp" => hops = 0
    /\ stage \in {"wire", "outbound"} /\ hops = 1 => meta = Absent
    /\ hops = 2 => stage = "answered"
    /\ stage = "outbound" => hops = 1

(* A request without metadata is refused, ordinary or tunnel                 *)
(* (service.rs:84-91, websocket/mod.rs:77-79).                               *)
LEMMA NoMetaNoPass == \A s : Rejected(s, Absent)
<1> TAKE s
<1>1. Classify(s) \in {"none", "websocket", "invalid"}
  BY DEF Classify
<1>2. ~PlainMetaOk(Absent) /\ ~TunnelMetaOk(Absent)
  BY DEF PlainMetaOk, TunnelMetaOk, Absent
<1> QED BY <1>1, <1>2 DEF Rejected

(* Whatever path it takes, a request that is forwarded keeps no internal     *)
(* header (service.rs:145, headers.rs:57).                                   *)
LEMMA NothingInternalKept == \A s, h : "x-tlsplus" \notin Kept(s, h)
<1> TAKE s, h
<1> DEFINE base == h \ (HopByHop \cup {"host", "x-tlsplus"})
<1>1. "x-tlsplus" \notin base
  OBVIOUS
<1>2. "x-tlsplus" \notin (base \ s.conn) \cup (IF s.version = "h1" THEN {"connection", "upgrade"} ELSE {})
  BY <1>1
<1> QED BY <1>1, <1>2 DEF Kept

(* Each step keeps the reason why no loop is possible.                       *)
LEMMA StrippedStep == Stripped /\ [Next]_vars => Stripped'
<1> SUFFICES ASSUME Stripped, [Next]_vars PROVE Stripped'
  OBVIOUS
<1> USE DEF Stripped
<1>1. CASE Continue \/ FailsOpen
  BY <1>1 DEF Continue, FailsOpen, GoesOnUnchanged
<1>2. CASE Redirect
  <2>1. hops = 0
    BY <1>2 DEF Redirect
  <2> QED BY <1>2, <2>1 DEF Redirect
<1>3. CASE Downgrade
  BY <1>3 DEF Downgrade
<1>4. CASE Refuse
  <2>1. hops \in {0, 1}
    BY <1>4 DEF Refuse
  <2> QED BY <1>4, <2>1 DEF Refuse
<1>5. CASE Forward
  <2>1. meta # Absent
    BY <1>5, NoMetaNoPass DEF Forward
  <2>2. hops = 0
    BY <1>5, <2>1 DEF Forward
  <2>3. meta' = Absent
    BY <1>5, NothingInternalKept DEF Forward
  <2> QED BY <1>5, <2>2, <2>3 DEF Forward
<1>6. CASE Fails \/ Replied \/ Relay \/ Malformed \/ UpgradeFails \/ Bridge
  BY <1>6 DEF Fails, Replied, Relay, Malformed, UpgradeFails, Bridge, Answer
<1>7. CASE ComeRound
  BY <1>7 DEF ComeRound
<1>8. CASE UNCHANGED vars
  BY <1>8 DEF vars
<1> QED BY <1>1, <1>2, <1>3, <1>4, <1>5, <1>6, <1>7, <1>8 DEF Next

(* No request passes through the proxy more than twice, the second time only *)
(* to be answered with a 400: for every bound on the passes followed, and    *)
(* under every name of the endpoint.                                         *)
THEOREM NoLoop == Spec => []NoProxyLoop
<1>1. Init => Stripped
  BY DEF Init, Stripped
<1>2. Stripped => NoProxyLoop
  BY DEF Stripped, NoProxyLoop
<1> QED BY <1>1, <1>2, StrippedStep, PTL DEF Spec

-----------------------------------------------------------------------------
(* Types.                                                                    *)

(* What the classification can say.                                          *)
LEMMA Classes == \A s : Classify(s) \in {"none", "websocket", "invalid"}
BY DEF Classify

(* A request that is sent out is a request: only an ordinary one changes its *)
(* version, and it has lost its Connection header.                           *)
LEMMA ShapeOutType ==
    ASSUME NEW s \in Shapes, NEW m, ~VersionChanged(s, m), Classify(s) # "invalid"
    PROVE ShapeOut(s, m) \in Shapes
<1>1. CASE Classify(s) = "none"
  <2>1. s.protocol = "none"
    BY <1>1 DEF Classify
  <2>2. s.conn \in SUBSET {"upgrade", "custom"} /\ s.version \in {"h10", "h1", "h2"}
    BY DEF Shapes
  <2> QED BY <1>1, <2>1, <2>2 DEF ShapeOut, SentVersion, OutboundVersion, Shapes
<1>2. CASE Classify(s) = "websocket"
  <2>1. CASE s.version = "h2"
    BY <1>2, <2>1 DEF ShapeOut, SentVersion, OutboundVersion, Shapes
  <2>2. CASE s.version # "h2"
    BY <1>2, <2>2 DEF ShapeOut, SentVersion, OutboundVersion, Shapes
  <2> QED BY <2>1, <2>2
<1> QED BY <1>1, <1>2, Classes

(* What the handler writes is metadata.                                      *)
LEMMA DeclareType ==
    ASSUME NEW s, NEW m \in Metas, NEW target \in {"http", "ws"}
    PROVE Declare(s, m, target) \in Metas
<1> DEFINE version == IF s.version = "h2" THEN "HTTP/2" ELSE "absent"
<1>1. version \in {"absent", "HTTP/2", "other"}
  OBVIOUS
<1>2. Declare(s, m, target) =
         [m EXCEPT !.target = target, !.profile = "known", !.timeout = "number", !.version = version]
  BY DEF Declare
<1> HIDE DEF version
<1> QED BY <1>1, <1>2 DEF Metas

(* Every variable keeps its type.                                            *)
LEMMA TypeStep == TypeOK /\ Stripped /\ [Next]_vars => TypeOK'
<1> SUFFICES ASSUME TypeOK, Stripped, [Next]_vars PROVE TypeOK'
  OBVIOUS
<1>a. MaxHops \in Nat
  BY PathAssumption
<1> USE DEF TypeOK
<1>1. CASE Continue \/ FailsOpen \/ ComeRound
  BY <1>1 DEF Continue, FailsOpen, GoesOnUnchanged, ComeRound, asked, answer
<1>2. CASE Redirect
  <2>1. PICK target \in {"http", "ws"} : meta' = Declare(shape, meta, target)
    BY <1>2 DEF Redirect
  <2>2. meta' \in Metas
    BY <2>1, DeclareType
  <2> QED BY <1>2, <2>2 DEF Redirect, asked, answer
<1>3. CASE Downgrade
  <2>1. headers' \subseteq PlainHeaders \cup HopByHop \cup {"x-tlsplus"}
    BY <1>3 DEF Downgrade, PlainHeaders, HopByHop
  <2> QED BY <1>3, <2>1 DEF Downgrade, asked, answer
<1>4. CASE Refuse
  <2>1. hops' \in 0..MaxHops + 1
    BY <1>4, <1>a DEF Refuse
  <2> QED BY <1>4, <2>1 DEF Refuse, asked
<1>5. CASE Forward
  <2>1. hops' \in 0..MaxHops + 1
    BY <1>5, <1>a DEF Forward
  <2>2. shape' \in Shapes
    BY <1>5, ShapeOutType DEF Forward, Rejected
  <2>3. meta' \in Metas
    BY <1>5 DEF Forward, Absent, Metas
  <2>4. Kept(shape, headers) \subseteq PlainHeaders \cup HopByHop \cup {"x-tlsplus"}
    BY DEF Kept, HopByHop
  <2> QED BY <1>5, <2>1, <2>2, <2>3, <2>4 DEF Forward, asked, answer
<1>6. CASE Fails
  BY <1>6 DEF Fails, Answer, asked
<1>7. CASE Replied
  BY <1>7 DEF Replied, asked
<1>8. CASE Relay \/ Bridge
  <2>1. stage = "replied" /\ status' = reply.status
    BY <1>8 DEF Relay, Bridge, Answer
  <2>2. reply.status \in {0, 101, 200, 403}
    BY DEF Replies, NoReply
  <2>3. stage' = "answered" /\ bridged' \in BOOLEAN
    BY <1>8 DEF Relay, Bridge, Answer
  <2>4. UNCHANGED <<shape, meta, headers, hops, reply, asked>>
    BY <1>8 DEF Relay, Bridge, Answer
  <2> QED BY <2>1, <2>2, <2>3, <2>4 DEF asked
<1>9. CASE Malformed \/ UpgradeFails
  BY <1>9 DEF Malformed, UpgradeFails, Answer, asked
<1>10. CASE UNCHANGED vars
  BY <1>10 DEF vars, asked, answer
<1> QED BY <1>1, <1>2, <1>3, <1>4, <1>5, <1>6, <1>7, <1>8, <1>9, <1>10 DEF Next

(* The first states have their types.                                        *)
LEMMA TypeInit == Init => TypeOK /\ Stripped
<1> SUFFICES ASSUME Init PROVE TypeOK /\ Stripped
  OBVIOUS
<1>1. meta \in Metas
  BY DEF Init, Metas, TypedMetas
<1>2. headers \subseteq PlainHeaders \cup HopByHop \cup {"x-tlsplus"}
  BY DEF Init, HeadersOf, HopByHop, PlainHeaders
<1>3. origin \in {"burp", "client"} /\ stage \in {"burp", "wire"} /\ mode \in [active : BOOLEAN, running : BOOLEAN]
  BY DEF Init
<1>4. shape \in Shapes /\ first \in Shapes /\ host \in Hosts /\ hops = 0 /\ status = 0
        /\ reply = NoReply /\ bridged = FALSE
  BY DEF Init
<1>5. hops \in 0..MaxHops + 1
  BY <1>4, PathAssumption
<1>7. bridged \in BOOLEAN /\ reply \in Replies \cup {NoReply}
  BY <1>4
<1>6. Stripped
  BY <1>3, <1>4 DEF Stripped
<1> QED BY <1>1, <1>2, <1>3, <1>4, <1>5, <1>6, <1>7 DEF TypeOK

(* Type correctness, for every bound on the passes followed.                 *)
THEOREM TypeCorrect == Spec => []TypeOK
<1> QED BY TypeInit, TypeStep, StrippedStep, PTL DEF Spec

-----------------------------------------------------------------------------
(* What the handler declares.                                                *)

(* The metadata the handler writes for a request that was made as f.         *)
DeclaredFor(f, m) ==
    /\ m.target \in {"http"} \cup (IF Classify(f) = "websocket" THEN {"ws"} ELSE {})
    /\ m.timeout = "number" /\ m.profile = "known"
    /\ m.version = IF f.version = "h2" THEN "HTTP/2" ELSE "absent"

(* What the connection to the proxy may have made of a request.              *)
ArrivesAs(f, s) ==
    \/ s = f
    \/ /\ f.version = "h2" /\ s.version = "h1"
       /\ \/ f.protocol = "none" /\ s.method = f.method /\ s.protocol = "none"
               /\ s.conn = {} /\ ~s.upgrade
          \/ f.protocol # "none" /\ (s.method = "CONNECT" \/ Classify(s) # "none")

(* What holds of Burp's requests until they have passed the proxy.           *)
DeclaredInv ==
    origin = "burp" =>
      /\ stage = "burp" => shape = first /\ hops = 0 /\ meta \in TypedMetas
      /\ (stage = "wire" /\ hops = 0) =>
           /\ ArrivesAs(first, shape)
           /\ DeclaredFor(first, meta) \/ (meta \in TypedMetas /\ host \in {"proxy", "alias"})
      /\ (stage = "wire" /\ hops # 0) => host \in {"proxy", "alias"}
      /\ VersionSurvives /\ TunnelNotDowngraded /\ RedirectedIsAccepted

(* Metadata typed by hand carries no target to go to: it is refused.         *)
LEMMA TypedRefused == \A s, m : m \in TypedMetas => Rejected(s, m)
<1> TAKE s, m
<1> HAVE m \in TypedMetas
<1>1. ~PlainMetaOk(m) /\ ~TunnelMetaOk(m)
  BY DEF PlainMetaOk, TunnelMetaOk, TypedMetas
<1> QED BY <1>1, Classes DEF Rejected

(* Declared metadata is refused for the version or for the upgrade only.     *)
LEMMA DeclaredAccepted ==
    ASSUME NEW f \in Shapes, NEW s \in Shapes, NEW m,
           ArrivesAs(f, s), DeclaredFor(f, m), Rejected(s, m) \/ NoDeadline(s, m)
    PROVE VersionChanged(s, m) \/ Classify(s) = "invalid"
<1>1. ~NoDeadline(s, m) /\ m.version # "other" /\ TunnelMetaOk(m)
  BY DEF NoDeadline, DeclaredFor, TunnelMetaOk
<1>2. CASE Classify(s) = "none" /\ ~PlainMetaOk(m)
  <2>1. m.target = "ws" /\ Classify(f) = "websocket" /\ s # f
    BY <1>2 DEF PlainMetaOk, DeclaredFor
  <2>2. f.version = "h2" /\ s.version = "h1"
    BY <2>1 DEF ArrivesAs
  <2>3. f.conn = {} /\ ~f.upgrade
    BY <2>2 DEF Shapes
  <2>4. f.protocol # "none"
    BY <2>1, <2>3 DEF Classify
  <2>5. s.method = "CONNECT"
    BY <1>2, <2>1, <2>4 DEF ArrivesAs
  <2> QED BY <2>2, <2>5 DEF VersionChanged, DeclaredFor
<1> QED BY <1>1, <1>2 DEF Rejected

(* A declared request that is accepted is sent in the version it was made in, *)
(* one of HTTP/1.0 as HTTP/1.1.                                              *)
LEMMA ForwardKeepsVersion ==
    ASSUME NEW f \in Shapes, NEW s \in Shapes, NEW m,
           ArrivesAs(f, s), DeclaredFor(f, m), ~Rejected(s, m)
    PROVE /\ Classify(f) = "none" =>
               ShapeOut(s, m).version = IF f.version = "h2" THEN "h2" ELSE "h1"
          /\ f.protocol # "none" =>
               ShapeOut(s, m).version = "h2" /\ ShapeOut(s, m).protocol = "websocket"
<1>1. ~VersionChanged(s, m) /\ Classify(s) # "invalid"
  BY DEF Rejected
<1>2. /\ ShapeOut(s, m).version = SentVersion(OutboundVersion(s, m))
      /\ ShapeOut(s, m).protocol = s.protocol
  BY DEF ShapeOut, Shapes
<1>3. ASSUME Classify(f) = "none"
      PROVE OutboundVersion(s, m) = f.version
  <2>1. f.protocol = "none"
    BY <1>3 DEF Classify
  <2>2. Classify(s) = "none"
    BY <1>3, <2>1 DEF ArrivesAs, Classify
  <2>3. CASE f.version = "h2"
    BY <2>2, <2>3 DEF OutboundVersion, DeclaredFor
  <2>4. CASE f.version # "h2"
    BY <2>2, <2>4 DEF OutboundVersion, DeclaredFor, ArrivesAs
  <2> QED BY <2>3, <2>4
<1>4. ASSUME f.protocol # "none"
      PROVE OutboundVersion(s, m) = "h2" /\ s.protocol = "websocket"
  <2>1. f.version = "h2" /\ m.version = "HTTP/2"
    BY <1>4 DEF Shapes, DeclaredFor
  <2>2. s = f
    BY <1>1, <1>4, <2>1 DEF ArrivesAs, VersionChanged
  <2>3. s.protocol = "websocket"
    BY <1>1, <1>4, <2>2 DEF Classify
  <2> QED BY <2>1, <2>2, <2>3 DEF OutboundVersion
<1> QED BY <1>2, <1>3, <1>4 DEF SentVersion

(* A request on the way back was answered by an upstream, never with a 400.  *)
LEMMA ReplyStatus == TypeOK => reply.status # 400
BY DEF TypeOK, Replies, NoReply

(* A request remains its maker's.                                            *)
LEMMA OriginKept == [Next]_vars => origin' = origin
<1> SUFFICES ASSUME [Next]_vars PROVE origin' = origin
  OBVIOUS
<1>1. CASE Continue \/ FailsOpen \/ Redirect \/ Downgrade \/ ComeRound
  BY <1>1 DEF Continue, FailsOpen, GoesOnUnchanged, Redirect, Downgrade, ComeRound, asked
<1>2. CASE Refuse \/ Forward
  BY <1>2 DEF Refuse, Forward, asked
<1>3. CASE Fails \/ Replied \/ Relay \/ Malformed \/ UpgradeFails \/ Bridge
  BY <1>3 DEF Fails, Replied, Relay, Malformed, UpgradeFails, Bridge, Answer, asked
<1>4. CASE UNCHANGED vars
  BY <1>4 DEF vars, asked
<1> QED BY <1>1, <1>2, <1>3, <1>4 DEF Next

(* Each step keeps what holds of Burp's requests.                            *)
LEMMA DeclaredStep == TypeOK /\ Stripped /\ DeclaredInv /\ [Next]_vars => DeclaredInv'
<1> SUFFICES ASSUME TypeOK, Stripped, DeclaredInv, [Next]_vars, origin = "burp" PROVE DeclaredInv'
  BY OriginKept DEF DeclaredInv
<1>t. shape \in Shapes /\ first \in Shapes
  BY DEF TypeOK
<1> USE DEF DeclaredInv, VersionSurvives, TunnelNotDowngraded, RedirectedIsAccepted
<1>1. CASE Continue \/ FailsOpen
  <2>1. stage = "burp" /\ shape = first /\ hops = 0 /\ meta \in TypedMetas
    BY <1>1 DEF Continue, FailsOpen
  <2>2. stage' \in {"wire", "direct"} /\ (stage' = "wire" => host \in {"proxy", "alias"})
    BY <1>1 DEF Continue, FailsOpen, GoesOnUnchanged
  <2>3. UNCHANGED <<shape, meta, hops, origin, host, first>>
    BY <1>1 DEF Continue, FailsOpen, GoesOnUnchanged, asked
  <2> QED BY <2>1, <2>2, <2>3 DEF ArrivesAs
<1>2. CASE Redirect
  <2>1. PICK target \in {"http"} \cup (IF Classify(shape) = "websocket" THEN {"ws"} ELSE {}) :
             meta' = Declare(shape, meta, target)
    BY <1>2 DEF Redirect
  <2>2. stage = "burp" /\ shape = first /\ hops = 0 /\ meta \in TypedMetas /\ stage' = "wire"
    BY <1>2 DEF Redirect
  <2>3. UNCHANGED <<shape, hops, origin, host, first>>
    BY <1>2 DEF Redirect, asked
  <2>4. DeclaredFor(first, meta')
    BY <2>1, <2>2 DEF Declare, DeclaredFor, TypedMetas
  <2> QED BY <2>2, <2>3, <2>4 DEF ArrivesAs
<1>3. CASE Downgrade
  <2>1. UNCHANGED <<stage, meta, hops, origin, host, first>> /\ stage = "wire" /\ hops = 0
    BY <1>3 DEF Downgrade, asked
  <2>2. first.version = "h2" /\ shape = first
    BY <1>3, <2>1 DEF Downgrade, ArrivesAs
  <2>3. shape' \in Shapes /\ shape'.version = "h1"
    BY <1>3 DEF Downgrade
  <2>4. shape'.protocol = "none"
    BY <2>3 DEF Shapes
  <2>5. ArrivesAs(first, shape')
    BY <1>3, <2>2, <2>3, <2>4 DEF Downgrade, ArrivesAs, Classify
  <2> QED BY <2>1, <2>5
<1>4. CASE Refuse
  <2>1. UNCHANGED <<shape, meta, origin, host, first>> /\ stage = "wire" /\ stage' = "answered"
    BY <1>4 DEF Refuse, asked
  <2>2. ASSUME status' = 400, host \in {"local", "remote"}
        PROVE VersionChanged(shape, meta) \/ Classify(shape) = "invalid"
    <3>1. Rejected(shape, meta) \/ NoDeadline(shape, meta)
      BY <1>4, <2>2 DEF Refuse
    <3>2. ArrivesAs(first, shape) /\ DeclaredFor(first, meta)
      BY <2>1, <2>2
    <3> QED BY <1>t, <3>1, <3>2, DeclaredAccepted
  <2> QED BY <2>1, <2>2
<1>5. CASE Forward
  <2>1. UNCHANGED <<origin, host, first>> /\ stage = "wire" /\ stage' = "outbound" /\ ~Rejected(shape, meta)
    BY <1>5 DEF Forward, asked
  <2>2. hops = 0
    BY <1>5, NoMetaNoPass DEF Forward, Stripped
  <2>3. ArrivesAs(first, shape) /\ DeclaredFor(first, meta)
    BY <2>1, <2>2, TypedRefused
  <2>4. shape' = ShapeOut(shape, meta)
    BY <1>5 DEF Forward
  <2> QED BY <1>t, <2>1, <2>3, <2>4, ForwardKeepsVersion
<1>6. CASE ComeRound
  <2>1. stage' = "wire" /\ hops' = 1 /\ host' \in {"proxy", "alias"}
    BY <1>6 DEF ComeRound, Stripped, asked
  <2> QED BY <2>1
<1>7. CASE Fails \/ Replied \/ Relay \/ Malformed \/ UpgradeFails \/ Bridge
  <2>1. stage' \in {"replied", "answered"} /\ (stage' = "answered" => status' # 400)
    BY <1>7, ReplyStatus DEF Fails, Replied, Relay, Malformed, UpgradeFails, Bridge, Answer
  <2> QED BY <2>1
<1>8. CASE UNCHANGED vars
  BY <1>8 DEF vars, asked, answer
<1> QED BY <1>1, <1>2, <1>3, <1>4, <1>5, <1>6, <1>7, <1>8 DEF Next

(* The argument of the three theorems that follow.                           *)
LEMMA DeclaredAlways == Spec => [](origin = "burp" => VersionSurvives /\ TunnelNotDowngraded /\ RedirectedIsAccepted)
<1>1. Init => DeclaredInv
  BY DEF Init, DeclaredInv, VersionSurvives, TunnelNotDowngraded, RedirectedIsAccepted
<1>2. DeclaredInv => (origin = "burp" => VersionSurvives /\ TunnelNotDowngraded /\ RedirectedIsAccepted)
  BY DEF DeclaredInv
<1> QED BY <1>1, <1>2, TypeInit, TypeStep, StrippedStep, DeclaredStep, PTL DEF Spec

(* An ordinary request of Burp's reaches its target over HTTP/2 exactly if   *)
(* Burp made it one of HTTP/2, and as HTTP/1.1 otherwise, whatever the       *)
(* connection to the proxy made of it and whatever was typed into it.        *)
THEOREM VersionKept == Spec => []VersionSurvives
<1>1. (origin = "burp" => VersionSurvives) => VersionSurvives
  BY DEF VersionSurvives
<1> QED BY <1>1, DeclaredAlways, PTL

(* A tunnel asked for over HTTP/2 leaves as one, or does not leave.          *)
THEOREM TunnelKept == Spec => []TunnelNotDowngraded
<1>1. (origin = "burp" => TunnelNotDowngraded) => TunnelNotDowngraded
  BY DEF TunnelNotDowngraded
<1> QED BY <1>1, DeclaredAlways, PTL

(* What the handler writes is never the reason for a refusal.                *)
THEOREM Accepted == Spec => []RedirectedIsAccepted
<1>1. (origin = "burp" => RedirectedIsAccepted) => RedirectedIsAccepted
  BY DEF RedirectedIsAccepted
<1> QED BY <1>1, DeclaredAlways, PTL

-----------------------------------------------------------------------------
(* What the client is told of its tunnel.                                    *)

(* Until an answer is made nothing is bridged.                               *)
ToldInv ==
    /\ stage # "answered" => ~bridged
    /\ stage \notin {"replied", "answered"} => reply = NoReply
    /\ TunnelAnnouncedIsReal

(* Each step keeps it.                                                       *)
LEMMA ToldStep == TypeOK /\ ToldInv /\ [Next]_vars => ToldInv'
<1> SUFFICES ASSUME TypeOK, ToldInv, [Next]_vars PROVE ToldInv'
  OBVIOUS
<1>t. shape.version \in {"h10", "h1", "h2"}
  BY DEF TypeOK, Shapes
<1> USE DEF ToldInv, TunnelAnnouncedIsReal
<1>1. CASE Continue \/ FailsOpen \/ Redirect \/ Downgrade \/ Forward \/ ComeRound \/ Replied
  BY <1>1 DEF Continue, FailsOpen, GoesOnUnchanged, Redirect, Downgrade, Forward, ComeRound, Replied, answer
<1>2. CASE Refuse
  BY <1>2 DEF Refuse
<1>3. CASE Fails
  BY <1>3 DEF Fails, Answer
<1>4. CASE Relay
  <2>1. UNCHANGED <<shape, reply, bridged>> /\ ~bridged /\ stage' = "answered" /\ status' = reply.status
    BY <1>4 DEF Relay, Answer
  <2>2. ASSUME Classify(shape) = "websocket"
        PROVE ~IsSuccess(shape.version, reply)
    BY <1>4, <2>2 DEF Relay, Verdict
  <2>3. Classify(shape) = "websocket" =>
          ~(reply.status = (IF shape.version = "h1" THEN 101 ELSE 200) /\ reply.version = shape.version)
    BY <2>2 DEF IsSuccess
  <2> QED BY <2>1, <2>3
<1>5. CASE Malformed \/ UpgradeFails
  BY <1>5 DEF Malformed, UpgradeFails, Answer
<1>6. CASE Bridge
  BY <1>6 DEF Bridge, Answer, Verdict, IsSuccess
<1>7. CASE UNCHANGED vars
  BY <1>7 DEF vars, answer
<1> QED BY <1>1, <1>2, <1>3, <1>4, <1>5, <1>6, <1>7 DEF Next

(* A tunnel is announced exactly when both its ends were handed to a bridge, *)
(* and that only after the upstream switched to WebSocket.                   *)
THEOREM Announced == Spec => []TunnelAnnouncedIsReal
<1>1. Init => ToldInv
  BY DEF Init, ToldInv, TunnelAnnouncedIsReal
<1>2. ToldInv => TunnelAnnouncedIsReal
  BY DEF ToldInv
<1> QED BY <1>1, <1>2, TypeInit, TypeStep, StrippedStep, ToldStep, PTL DEF Spec

-----------------------------------------------------------------------------
(* What the target sees.                                                     *)

(* A tunnel over HTTP/1.1 is still one after its request was rewritten.      *)
LEMMA StillTunnel ==
    ASSUME NEW s \in Shapes, NEW m, Classify(s) = "websocket", s.version = "h1"
    PROVE Classify(ShapeOut(s, m)) = "websocket" /\ ShapeOut(s, m).version = "h1"
<1>1. s.protocol = "none" /\ s.method = "GET" /\ "upgrade" \in s.conn /\ s.upgrade
  BY DEF Classify
<1>2. ShapeOut(s, m) = [s EXCEPT !.version = "h1", !.conn = s.conn \ {"custom"}, !.upgrade = TRUE]
  BY DEF ShapeOut, SentVersion, OutboundVersion
<1>3. /\ ShapeOut(s, m).protocol = "none" /\ ShapeOut(s, m).method = "GET"
      /\ ShapeOut(s, m).version = "h1" /\ ShapeOut(s, m).upgrade
      /\ "upgrade" \in ShapeOut(s, m).conn
  BY <1>1, <1>2 DEF Shapes
<1> QED BY <1>3 DEF Classify

(* Nothing that belongs to one hop leaves with a request.                    *)
LEMMA LeavesStep == TypeOK /\ OneHopStaysBehind /\ [Next]_vars => OneHopStaysBehind'
<1> SUFFICES ASSUME TypeOK, OneHopStaysBehind, [Next]_vars PROVE OneHopStaysBehind'
  OBVIOUS
<1>1. CASE Forward
  <2> DEFINE base == headers \ (HopByHop \cup {"host", "x-tlsplus"})
  <2>1. Classify(shape) \in {"none", "websocket"}
    BY <1>1, Classes DEF Forward, Rejected
  <2>2. meta' = Absent
    BY <1>1, NothingInternalKept DEF Forward
  <2>3. headers' = Kept(shape, headers) /\ shape' = ShapeOut(shape, meta)
    BY <1>1 DEF Forward
  <2>4. CASE Classify(shape) = "websocket" /\ shape.version = "h1"
    <3>1. Classify(shape') = "websocket" /\ shape'.version = "h1"
      BY <2>3, <2>4, StillTunnel DEF TypeOK
    <3>2. Kept(shape, headers) \subseteq base \cup {"connection", "upgrade"}
      BY <2>4 DEF Kept
    <3> QED BY <2>2, <2>3, <3>1, <3>2 DEF OneHopStaysBehind
  <2>5. CASE ~(Classify(shape) = "websocket" /\ shape.version = "h1")
    <3>1. Kept(shape, headers) \subseteq base
      BY <2>1, <2>5 DEF Kept
    <3>2. headers' \cap (HopByHop \cup {"host", "x-tlsplus"}) = {}
      BY <2>3, <3>1
    <3> QED BY <2>2, <3>2 DEF OneHopStaysBehind
  <2> QED BY <2>4, <2>5
<1>2. CASE Continue \/ FailsOpen \/ Redirect \/ Downgrade \/ Refuse \/ ComeRound
  BY <1>2 DEF Continue, FailsOpen, GoesOnUnchanged, Redirect, Downgrade, Refuse, ComeRound, OneHopStaysBehind
<1>3. CASE Fails \/ Relay \/ Malformed \/ UpgradeFails \/ Bridge
  BY <1>3 DEF Fails, Relay, Malformed, UpgradeFails, Bridge, Answer, OneHopStaysBehind
<1>4. CASE Replied \/ UNCHANGED vars
  BY <1>4 DEF Replied, vars, OneHopStaysBehind
<1> QED BY <1>1, <1>2, <1>3, <1>4 DEF Next

(* The target never sees what was meant for the proxy or for one hop,        *)
(* whatever the client sent and on both paths.                               *)
THEOREM Hidden == Spec => []OneHopStaysBehind
<1>1. Init => OneHopStaysBehind
  BY DEF Init, OneHopStaysBehind
<1> QED BY <1>1, TypeInit, TypeStep, StrippedStep, LeavesStep, PTL DEF Spec
=============================================================================
