----------------------------- MODULE MCService -----------------------------
(* Requests about two files for Service.                                   *)
EXTENDS Service

CONSTANTS r1, r2, h1, h2, p1, t1

Stream(content, claims, http2) ==
  [kind |-> "stream", http2 |-> http2, content |-> content, claims |-> claims,
   path |-> p1, type |-> t1]

Append(claims, http2) == [Stream(claims, claims, http2) EXCEPT !.kind = "append"]

MCCalls ==
  {Stream(h1, h1, FALSE), Stream(h1, h1, TRUE), Stream(h2, h1, FALSE),
   Stream(h2, h2, FALSE), Append(h1, FALSE)}

Left(n) == [h \in Hashes |-> IF h = h1 THEN n ELSE None]

MCEarlier ==
  {Left(None),
   Left([names |-> {}, completed |-> FALSE, type |-> None]),
   Left([names |-> {p1}, completed |-> TRUE, type |-> None])}

MCSpoilt == {{}, {h1}}
=============================================================================
