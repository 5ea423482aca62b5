------------------------------ MODULE MCScores ------------------------------
(* Runs that share ledgers: a stream fed in batches, fed again and forked. *)
EXTENDS ScoreRuns, TLC

CONSTANTS R1, R2, R3, b0, b1, b2, b3, b4, b5, bad, K1, n1, n2

MCStreams  == {0}
MCSessions == {}
MCBodies   == {b0, b1, b2, b3, b4, b5, bad}
MCKeys     == {K1}
MCTrustStore ==
  K1 :> [collector |-> TRUE, revoked |-> FALSE, window |-> <<>>, replaces |-> NoKey]
MCFreshness == [enabled |-> FALSE, asOf |-> 0, maxAge |-> 0, maxSkew |-> 0]

MCRuns   == {R1, R2, R3}
MCNonces == {n1, n2}

History == << <<0, K1>>, b0, b1, b2, b3, b4, b5 >>

(* The chain head after position n of the collector's history.             *)
HeadAt(n) == SubSeq(History, 1, n + 2)

Stretch(first, last, nonces, uses) ==
  [stream |-> 0, first |-> first, prev |-> HeadAt(first - 1),
   heads |-> [i \in 1 .. last - first + 1 |-> HeadAt(first + i - 1)],
   closed |-> FALSE, admit |-> TRUE, nonces |-> nonces, uses |-> uses]

(* R1 feeds positions 0 and 1; R2 continues it, and R3 continues it with    *)
(* another history.  Both nonces are presented more than once.              *)
MCBatch ==
  R1 :> Stretch(0, 1, <<n1, n1>>, LedgerNames) @@
  R2 :> Stretch(2, 3, <<n1, n2>>, LedgerNames) @@
  R3 :> [Stretch(2, 2, <<n2>>, LedgerNames) EXCEPT !.heads = <<Append(HeadAt(1), bad)>>]

(* R2 overlaps R1 instead.                                                 *)
MCOverlap ==
  R1 :> Stretch(0, 1, <<n1, n1>>, LedgerNames) @@
  R2 :> Stretch(1, 3, <<n1, n2>>, LedgerNames)

MCMaxTries == [r \in MCRuns |-> IF r = R1 THEN 2 ELSE 1]
MCOnce     == [r \in MCRuns |-> 1]
MCPair     == {R1, R2}
MCPairTries == [r \in MCPair |-> 2]

(* A stream fed in subsets: the middle one last.                           *)
MCSubsets ==
  R1 :> Stretch(0, 1, <<NoNonce>>, {"streams"}) @@
  R2 :> Stretch(4, 5, <<NoNonce>>, {"streams"}) @@
  R3 :> Stretch(2, 3, <<NoNonce>>, {"streams"})
=============================================================================
