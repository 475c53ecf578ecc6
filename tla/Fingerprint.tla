----------------------------- MODULE Fingerprint -----------------------------
(* The JA3 and JA4 results for a pasted ClientHello: the hex text that        *)
(* TlsPlusCore turns into bytes, and ja4.rs.  The parser and the hash are     *)
(* libraries: an input carries the signature the parser finds in it, and a    *)
(* fingerprint stands for what it is computed from.                           *)
EXTENDS Naturals

\* Unknown(v) of the parser is the version "unknown"; wire is the number the
\* hello itself carries.
Versions == {"TLS 1.3", "TLS 1.2", "TLS 1.1", "TLS 1.0", "SSL 3.0", "SSL 2.0"}
None == "none"

\* TlsPlusCore.parseHex throws on an odd number of digits.
HexThrows(input) == input.kind = "odd"
Parses(input) == input.kind = "hello"

Ja4Error(reason) ==
    [ok |-> FALSE, error |-> reason, ja4 |-> None, version |-> None, sni |-> None, alpn |-> None]

\* A version without a name is an error that still tells the names asked for.
ComputeJa4(input) ==
    LET sig == input.sig IN
    IF ~Parses(input) THEN Ja4Error("parse")
    ELSE IF sig.version \notin Versions
    THEN [Ja4Error("unknown version") EXCEPT !.sni = sig.sni, !.alpn = sig.alpn]
    ELSE [ok |-> TRUE, error |-> None, ja4 |-> sig.lists, version |-> sig.version,
          sni |-> sig.sni, alpn |-> sig.alpn]

\* The number a JA3 text starts with.
Ja3VersionId(sig) ==
    CASE sig.version = "TLS 1.3" -> 771
      [] sig.version = "TLS 1.2" -> 770
      [] sig.version = "TLS 1.1" -> 769
      [] sig.version \in {"TLS 1.0", "SSL 3.0"} -> 768
      [] sig.version = "SSL 2.0" -> 767
      [] OTHER -> sig.wire

ComputeJa3(input) ==
    IF ~Parses(input) THEN [ok |-> FALSE, error |-> "parse", ja3 |-> None]
    ELSE [ok |-> TRUE, error |-> None, ja3 |-> <<Ja3VersionId(input.sig), input.sig.lists>>]
=============================================================================
