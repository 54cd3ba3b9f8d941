------------------------------- MODULE Policy -------------------------------
(***************************************************************************)
(* What a phone may call and what may be gzipped (src/src/http.ts): the    *)
(* pure functions in front of the harness.  A request target is an         *)
(* authority flag and a sequence of segments; a header is what its parser  *)
(* reads from it.                                                          *)
(***************************************************************************)
EXTENDS Integers, Sequences, SequencesExt

CONSTANTS
  Word,            \* segments that match ENDPOINT_SEGMENT
  ExtraAllowlist,  \* MobileServerOptions.apiAllowlist, as paths
  MinGzip          \* MIN_GZIP_BYTES, in chunks

ASSUME PolicyAssumption == Word \cap {"", ".", ".."} = {} /\ MinGzip \in Nat

Null == <<"null">>

ControlPrefix   == <<"api", "mobileBridge">>
SessionListPath == <<"api", "session", "list">>

DefaultApiAllowlist ==
  {<<"api", "file">>, <<"api", "session", "uploadFileBinary">>, <<"api", "remote.mux">>,
   <<"api", "rpc.mux">>, <<"api", "changes.summary">>, <<"api", "changes.diff">>}

Allowlist == DefaultApiAllowlist \cup ExtraAllowlist

(* `new URL` takes a path segment by segment and resolves dot segments,    *)
(* which may be spelled with %2e; one at the end leaves an empty segment.  *)
Resolve(done, seg) ==
  CASE seg = ".." -> IF done = <<>> THEN done ELSE Front(done)
    [] seg = "."  -> done
    [] OTHER      -> Append(done, seg)

Normal(path) ==
  LET walked[k \in 0..Len(path)] == IF k = 0 THEN <<>> ELSE Resolve(walked[k - 1], path[k])
      done == walked[Len(path)]
  IN  IF path # <<>> /\ Last(path) \in {".", ".."} THEN Append(done, "") ELSE done

ParseMobileUrl(target) == IF target.authority THEN Null ELSE Normal(target.path)

StartsWith(path, prefix) == Len(path) > Len(prefix) /\ IsPrefix(prefix, path)

IsRpcEndpoint(path) ==
  /\ Len(path) = 3 /\ path[1] = "api"
  /\ \A k \in 2..3 : path[k] \in Word

(* Mutant of ClassifyApiRequest: the allowlist is consulted first.         *)
ClassifyListFirst(path, method, json) ==
  IF path \in Allowlist THEN "allow"
  ELSE IF StartsWith(path, ControlPrefix) THEN "control"
  ELSE IF IsRpcEndpoint(path) /\ method = "POST" /\ json THEN "allow"
  ELSE "deny"

ClassifyApiRequest(path, method, json) ==
  IF StartsWith(path, ControlPrefix) THEN "control"
  ELSE IF path \in Allowlist THEN "allow"
  ELSE IF IsRpcEndpoint(path) /\ method = "POST" /\ json THEN "allow"
  ELSE "deny"

(* The fence, as both transports use it; for a frame of the RPC pipe the   *)
(* method is POST and the type JSON, whatever the phone meant.             *)
Verdict(target, method, json) ==
  LET url == ParseMobileUrl(target) IN
  IF url = Null THEN "deny" ELSE ClassifyApiRequest(url, method, json)

RefusalStatus(verdict) == IF verdict = "control" THEN 403 ELSE 404

-----------------------------------------------------------------------------
(* Mutant of AcceptsGzip: any part that names gzip or * will do.           *)
AcceptsAny(accept) == \E k \in 1..Len(accept) : accept[k].name \in {"gzip", "*"} /\ accept[k].q > 0

(* `acceptsGzip`: the last part of each name counts; a quality that does   *)
(* not parse is NaN, which compares like -1, the absent one.               *)
Quality(accept, name) ==
  LET upTo[k \in 0..Len(accept)] == IF k = 0 THEN -1
                                    ELSE IF accept[k].name = name THEN accept[k].q ELSE upTo[k - 1]
  IN  upTo[Len(accept)]

AcceptsGzip(accept) ==
  (IF Quality(accept, "gzip") >= 0 THEN Quality(accept, "gzip") ELSE Quality(accept, "*")) > 0

IsCompressible(type) == type \in {"text", "json", "xml"}

(* -1: no content-length.                                                  *)
IsNegligiblySmall(length) == length \in 0..(MinGzip - 1)

(* Does the caller want the projections of a session list trimmed?  The    *)
(* keys it declares are known only when the body was buffered.             *)
RequestedProjections(url, method, declares) ==
  url = SessionListPath /\ method = "POST" /\ declares

=============================================================================
