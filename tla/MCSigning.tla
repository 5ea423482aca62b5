----------------------------- MODULE MCSigning -----------------------------
(* A stream signed in batches: one that is refused half way, one that ends *)
(* between two signing positions, one that closes it, one after the close. *)
EXTENDS SignRuns, TLC

CONSTANTS C1, C2, C3, C4, b0, b1, b2, b3, b4, b5, again, used, K1

MCStreams  == {0}
MCSessions == {}
MCBodies   == {b0, b1, b2, b3, b4, b5, again, used}
MCKeys     == {K1}
MCTrustStore ==
  K1 :> [collector |-> TRUE, revoked |-> FALSE, window |-> <<>>, replaces |-> NoKey]
MCFreshness == [enabled |-> FALSE, asOf |-> 0, maxAge |-> 0, maxSkew |-> 0]

MCCalls == {C1, C2, C3, C4}

Batch(lines, close, append) == [lines |-> lines, close |-> close, append |-> append]

MCInput ==
  C1 :> Batch(<<b0, b1>>, FALSE, FALSE) @@
  C2 :> Batch(<<b2, b3, BadLine, b4>>, TRUE, TRUE) @@
  C3 :> Batch(<<b4, b5>>, TRUE, TRUE) @@
  C4 :> Batch(<<again, used>>, FALSE, TRUE)

MCUnsignable == {used}

MCMaxTries == C1 :> 2 @@ C2 :> 1 @@ C3 :> 2 @@ C4 :> 1
=============================================================================
