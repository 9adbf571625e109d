---------------------------- MODULE MCActiveScan ----------------------------
(* Five requests: one command with its argv in two orders, one with a flag   *)
(* given once and given twice, and one command under two scope files.        *)
(* nuclei's manifest, and scans that have either control host in scope.      *)
EXTENDS ActiveScan

CONSTANTS flag, a, b, target, one, eight

request(args, host, run) ==
  [tool |-> "liveness-probe", argv |-> args, targets |-> <<host>>,
   is_active |-> TRUE, phase |-> "ENUMERATION", run_id |-> run]

MCRequests ==
  {request(<<flag, a>>, a, 1), request(<<a, flag>>, a, 1),
   request(<<flag, b>>, b, 1), request(<<flag, flag, b>>, b, 1), request(<<flag, a>>, a, 2)}

MCIps == {target, one, eight}
MCAllowedSets == {{target}, {target, one}, {one, eight}}

flagged(name, text) == [flag |-> name, text |-> text]
MCForced == {flagged("-exclude-tags", "-exclude-tags"), flagged("-dast", "-dast=false")}
MCForbidden == {"-dast", "-include-tags"}
MCAllowedExtra == {"-tags", "-severity"}
MCFlags == {flagged("-dast", "-dast=true"), flagged("-tags", "-tags=rce")}
MCTags == {"cve", "rce"}
MCTagAllowlist == {"cve"}
=============================================================================
