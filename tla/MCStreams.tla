----------------------------- MODULE MCStreams ------------------------------
(***************************************************************************)
(* Two instances of whole chains.  Delivery: three streams of genuine and  *)
(* signed records, lost, repeated and reordered.  Keys: one stream whose   *)
(* signatures are by every kind of key and clock, and a second one past    *)
(* the stream budget.                                                      *)
(***************************************************************************)
EXTENDS StreamVerifierProps, TLC

CONSTANTS A, B, b0, b1, b2, b3, b4, K1, K2, K3, KX, KPolicy, KRevoked, KUnknown

MCSessions == {A, B}
MCBodies   == {b0, b1, b2, b3, b4}

Collector(replaces) ==
  [collector |-> TRUE, revoked |-> FALSE, window |-> <<>>, replaces |-> replaces]

HeadAt(s, n) == << <<s, K1>> >> \o SubSeq(Written[s], 1, n)

(* The record of stream s at n, as written, in some session.               *)
RecordAt(s, n, session, key, clock, final) ==
  [stream |-> s, seq |-> n, session |-> session,
   body |-> Written[s][n + 1], prev |-> HeadAt(s, n), chain |-> HeadAt(s, n + 1),
   key |-> key, sig |-> <<key, <<s, n, HeadAt(s, n + 1), final>> >>, final |-> final,
   clock |-> clock]

MCLedgers == {EmptyLedger}

-----------------------------------------------------------------------------
(* Delivery.                                                               *)

DeliveryStreams    == {0, 1, 2}
DeliveryKeys       == {K1}
DeliveryTrustStore == K1 :> Collector(NoKey)
DeliveryFreshness  == [enabled |-> FALSE, asOf |-> 0, maxAge |-> 0, maxSkew |-> 0]

DeliveryWritten ==
  [s \in DeliveryStreams |-> << <<b0, b1, b2, b3, b4>>, <<b0, b1, b2>>, <<b0>> >>[s + 1]]
DeliverySeedKey == [s \in DeliveryStreams |-> K1]

(* Stream 0 interleaves two sessions and one record that assembly dropped; *)
(* stream 1 is all of session B, and stream 2 a record of session A.       *)
SessionAt == << <<A, B, A, NoSession, B>>, <<B, B, B>>, <<A>> >>

DeliveryRecords ==
  UNION {{RecordAt(s, n, SessionAt[s + 1][n + 1], K1, NoClock, FALSE) :
            n \in 0 .. Len(Written[s]) - 1} : s \in Streams}

-----------------------------------------------------------------------------
(* Keys.                                                                   *)

KeysStreams == {0, 1}
KeysKeys    == {K1, K2, K3, KX, KPolicy, KRevoked, KUnknown}

(* K3 replaces K2, which is good from 10 to 22 and replaces K1.            *)
KeysTrustStore ==
  K1 :> Collector(NoKey) @@
  K2 :> [Collector(K1) EXCEPT !.window = <<10, 22>>] @@
  K3 :> Collector(K2) @@
  KX :> Collector(NoKey) @@
  KPolicy :> [Collector(NoKey) EXCEPT !.collector = FALSE] @@
  KRevoked :> [Collector(K1) EXCEPT !.revoked = TRUE]

KeysFreshness == [enabled |-> TRUE, asOf |-> 20, maxAge |-> 12, maxSkew |-> 1]

KeysWritten == [s \in KeysStreams |-> IF s = 0 THEN <<b0, b1, b2>> ELSE <<b0>>]
KeysSeedKey == [s \in KeysStreams |-> K1]

KeysRecord(s, n, key, clock, final) ==
  RecordAt(s, n, IF n = 1 THEN B ELSE A, key, clock, final)

KeysRecords ==
  {KeysRecord(s, 0, K1, 15, FALSE) : s \in Streams}
  \cup {KeysRecord(0, n, k, 15, FALSE) : n \in {1, 2}, k \in {K1, K2, K3, KX}}
  \cup {KeysRecord(0, 1, k, 15, FALSE) : k \in {KPolicy, KRevoked, KUnknown}}
  \cup {KeysRecord(0, 2, K2, c, FALSE) : c \in {NoClock, 5, 9, 22, 23}}
  \cup {KeysRecord(0, n, K1, 15, TRUE) : n \in {1, 2}}
  \cup {[KeysRecord(0, 2, KX, 15, TRUE) EXCEPT !.sig = NoSig],
        [KeysRecord(0, 2, K1, 15, TRUE) EXCEPT !.final = FALSE]}

(* The histories no property of Keys reads are left out of the state.      *)
KeysView == <<phase, arrived, streams, sessions, pendingTotal, handler, sigSpent,
              ledger, judged>>
=============================================================================
