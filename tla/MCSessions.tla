----------------------------- MODULE MCSessions -----------------------------
(***************************************************************************)
(* From a file to sessions of calls with their approvals, one part of it   *)
(* in each behaviour: reading (Ingest), grouping (Assembly), sealing       *)
(* (SealedSession), pairing (Pairing) and covering (Approvals).            *)
(*                                                                         *)
(* The parts share no state, so a behaviour runs one of them: `part` says  *)
(* which, and the others stay at an initial state.                         *)
(***************************************************************************)
EXTENDS Ingest, Assembly, SealedSession, Pairing, Approvals, TLC

CONSTANTS s1, s2

VARIABLE part

-----------------------------------------------------------------------------
(* Ingest: files of up to thirteen bytes in lines of up to six, read in    *)
(* chunks of four; every budget can be the one that ends the read.         *)
Line(n, text, form, containers, keys) ==
  [nbytes |-> n, text |-> text, form |-> form, containers |-> containers, keys |-> keys]

MCLines ==
  {Line(0, 0, "blank", 0, 0), Line(2, 0, "blank", 0, 0), Line(6, 0, "blank", 0, 0),
   Line(1, 1, "object", 1, 0), Line(2, 1, "object", 2, 1), Line(4, 4, "object", 1, 2),
   Line(2, 2, "object", 3, 0), Line(2, 2, "object", 1, 4),
   Line(1, 1, "malformed", 0, 0), Line(2, 2, "too_deep", 0, 0), Line(3, 3, "undecodable", 0, 0),
   Line(1, 1, "not_an_object", 0, 0), Line(2, 2, "too_many_keys", 1, 3),
   Line(3, 2, "unreadable", 1, 1), Line(5, 5, "object", 1, 1)}

-----------------------------------------------------------------------------
(* Assembly: events of a session, of a trace that has the session's name,  *)
(* of a scope with and without a clock, of nothing at all; and scopes      *)
(* whose clocks span several windows.  In every order of arrival.          *)
Says(id, trace, scope, ts) == [session |-> id, trace |-> trace, scope |-> scope, ts |-> ts]

Mixed ==
  <<Says(Absent, Absent, "h1", 2), Says(Absent, Absent, "h1", NoTime), Says(Absent, Absent, "h1", NoTime),
    Says(s1, s2, "h1", 4), Says(Absent, s1, Absent, NoTime), Says(s1, Absent, Absent, 2),
    Says(Absent, Absent, Absent, 1)>>

Windows ==
  <<Says(Absent, Absent, "h1", 1), Says(Absent, Absent, "h1", 3), Says(Absent, Absent, "h1", 4),
    Says(Absent, Absent, "h1", 6), Says(Absent, Absent, "h2", 6), Says(Absent, Absent, "h2", 9)>>

ArrivalsOf(file) ==
  LET orders == {o \in SeqOf(DOMAIN file, Len(file)) : IsInjective(o)}
  IN {[i \in DOMAIN o |-> file[o[i]]] : o \in orders}

MCFiles == ArrivalsOf(Mixed) \cup ArrivalsOf(Windows)

-----------------------------------------------------------------------------
(* Pairing: starts and ends of two names, with two spans and none; and     *)
(* copies of a start with another stamp, body or id.                       *)
Event(type, span, name, id, body, stamp) ==
  [type |-> type, span |-> span, name |-> name, id |-> id, body |-> body, stamp |-> stamp]

PairedEvents ==
  {Event("tool_start", s, "n1", NoId, 1, 1) : s \in {NoId, "sp1"}} \cup
  {Event("tool_start", "sp1", "n1", NoId, 2, 1), Event("tool_start", "sp1", "n2", NoId, 1, 1)} \cup
  {Event("tool_end", s, "n1", NoId, 1, 1) : s \in {NoId, "sp1", "sp2"}} \cup
  {Event("tool_error", "sp1", "n1", NoId, 2, 1), Event("tool_end", "sp1", "n2", NoId, 1, 1)}

CopiedEvents ==
  {Event("tool_start", NoId, "n1", i, b, s) : i \in {NoId, "id1", "id2"}, b \in 1 .. 2, s \in 1 .. 2}
  \cup {Event("other", NoId, "n1", "id1", 1, 1)}

MCDeliveries == PairedEvents \cup CopiedEvents

MCHistories == SeqOf(PairedEvents, 5) \cup SeqOf(CopiedEvents, 4)

-----------------------------------------------------------------------------
(* Approvals: one issuer, two nonces, and a third of an approval that has  *)
(* expired, which fills the ledger; a producer that replays, rewrites the  *)
(* arguments of an approval, forges one, sends one late or drops its       *)
(* arguments.                                                              *)
Content(decision, args, nonce, granted, expires) ==
  [decision |-> decision, span |-> "sp", tool |-> "tool", args |-> args, nonce |-> nonce,
   granted |-> granted, expires |-> expires]

Allow1 == Content("allow", "args1", "n1", 1, 2)
Deny   == Content("deny", "args2", "n2", 1, 2)
Later  == Content("allow", "args1", "n1", 3, 4)
Other  == Content("allow", "args2", "n1", 1, 2)
Wide   == Content("allow", None, None, None, None)
Old    == Content("allow", "args1", "n3", 0, 0)

MCContents == {Allow1, Content("allow", "args1", "n2", 1, 3), Deny, Other, Wide, Later, Old}

Moment(t) == [ts |-> t, stream |-> None, seq |-> 0]

Record(content, key, over, t) ==
  [content |-> content, sig |-> IF key = None THEN None ELSE [key |-> key, over |-> over],
   at |-> Moment(t)]

MCPresentable ==
  {Record(c, "k1", c, 1) : c \in MCContents \ {Other, Wide, Old}} \cup
  {Record(Allow1, "k1", Allow1, 4),        \* late
   Record(Allow1, "k1", Allow1, NoClock),
   Record(Other, "k1", Allow1, 1),         \* rewritten
   Record(Allow1, "k2", Allow1, 1),        \* under another key
   Record(Wide, None, None, 1)}            \* unsigned

Call(args, t) ==
  [span |-> "sp", name |-> "tool", args |-> args, unbindable |-> FALSE, at |-> Moment(t)]

MCKeyWindow == [k \in {"k1", "k2"} |-> <<None, 2>>]

MCEarly == {Call("args1", 2)}

MCCalls == {Call("args1", 2), Call("args1", 3), Call("args2", 2)}

ASSUME PartsAssumption ==
  /\ AssemblyAssumption /\ SealingAssumption /\ PairingAssumption
  /\ MomentsAssumption /\ ApprovalsAssumption

-----------------------------------------------------------------------------
mcVars == <<vars, assemblyVars, sealingVars, pairingVars, approvalsVars, part>>

(* A part that is not the behaviour's has nothing to do.                   *)
OnlyThePart ==
  /\ part = "read"  \/ size = 0
  /\ part = "group" \/ incoming = <<>>
  /\ part = "seal"  \/ manifest = "m1"
  /\ part = "pair"  \/ events = <<>>
  /\ part = "cover" \/ loaded = {}

MCInit ==
  /\ part \in {"read", "group", "seal", "pair", "cover"}
  /\ OnlyThePart
  /\ Init /\ AssemblyInit /\ SealingInit /\ PairingInit /\ ApprovalsInit

MCNext ==
  /\ UNCHANGED part
  /\ \/ /\ part = "read" /\ Next
        /\ UNCHANGED <<assemblyVars, sealingVars, pairingVars, approvalsVars>>
     \/ /\ part = "group" /\ AssemblyNext
        /\ UNCHANGED <<vars, sealingVars, pairingVars, approvalsVars>>
     \/ /\ part = "seal" /\ SealingNext
        /\ UNCHANGED <<vars, assemblyVars, pairingVars, approvalsVars>>
     \/ /\ part = "pair" /\ PairingNext
        /\ UNCHANGED <<vars, assemblyVars, sealingVars, approvalsVars>>
     \/ /\ part = "cover" /\ ApprovalsNext
        /\ UNCHANGED <<vars, assemblyVars, sealingVars, pairingVars>>

MCSpec == MCInit /\ [][MCNext]_mcVars

(* The statements of the repository that these instances refute are in the *)
(* modules of the parts (README, section 6).                               *)
=============================================================================
