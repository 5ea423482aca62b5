------------------------------ MODULE MCTamper ------------------------------
(* One stream whose records may arrive genuine or altered in five ways,    *)
(* judged against ledgers an earlier run could have left.                  *)
EXTENDS StreamVerifierProps, TLC

CONSTANTS A, B, C, D, b0, b1, b2, b3, bad, K1

MCStreams  == {0, 1}
MCSessions == {A, B, C, D}
MCKeys     == {K1}
MCBodies   == {b0, b1, b2, b3, bad}

MCTrustStore ==
  K1 :> [collector |-> TRUE, revoked |-> FALSE, window |-> <<>>, replaces |-> NoKey]

MCFreshness == [enabled |-> FALSE, asOf |-> 0, maxAge |-> 0, maxSkew |-> 0]

MCWritten == [s \in MCStreams |-> IF s = 0 THEN <<b0, b1, b2, b3>> ELSE <<b0>>]
MCSeedKey == [s \in MCStreams |-> K1]

SessionAt == <<A, B, C, D>>

MCHead(s, n) == << <<s, K1>> >> \o SubSeq(MCWritten[s], 1, n)

SignedAt(n) == <<K1, <<0, n, MCHead(0, n + 1), FALSE>> >>

GenuineRecord(n) ==
  [stream |-> 0, seq |-> n, session |-> SessionAt[n + 1], body |-> MCWritten[0][n + 1],
   prev |-> MCHead(0, n), chain |-> MCHead(0, n + 1), key |-> K1, sig |-> SignedAt(n),
   final |-> FALSE, clock |-> NoClock]

(* The genuine record unsigned; its body replaced under the same sidecar;  *)
(* replaced with the chain value, or both links and the signature, gone;   *)
(* replaced with the links gone and the signature left; and re-chained.    *)
VariantsAt(n) ==
  LET g        == GenuineRecord(n)
      unsigned == [g EXCEPT !.key = IF n = 0 THEN K1 ELSE NoKey, !.sig = NoSig]
      altered  == [unsigned EXCEPT !.body = bad]
  IN { g, unsigned,
       [g EXCEPT !.body = bad],
       [altered EXCEPT !.chain = NoHead],
       [altered EXCEPT !.chain = NoHead, !.prev = NoHead],
       [g EXCEPT !.body = bad, !.chain = NoHead, !.prev = NoHead],
       [altered EXCEPT !.chain = Append(MCHead(0, n), bad)] }

MCRecords == UNION {VariantsAt(n) : n \in 0 .. 3}

Entry(s, first, last, closed) ==
  [entries   |-> s :> [first |-> first, last |-> last, head |-> MCHead(s, last + 1),
                       closed |-> closed],
   exhausted |-> FALSE]

MCLedgers ==
  {EmptyLedger, Entry(0, 0, 0, FALSE), Entry(0, 0, 0, TRUE), Entry(0, 0, 2, FALSE),
   Entry(1, 0, 0, FALSE)}
(* These records are the ones the theorem about BreaksAreLocal speaks of.  *)
ASSUME TamperingAssumption == OnlyAltered

(* The histories no property of this run reads are left out of the state.  *)
MCView == <<phase, arrived, streams, sessions, pendingTotal, handler, sigSpent,
            ledger, judged>>
=============================================================================
