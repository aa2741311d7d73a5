----------------------------- MODULE Discovery -----------------------------
(***************************************************************************)
(* internal/opstack/discover.go: how the contracts of a chain pair are     *)
(* derived from the chains, one read of a node at a time, and remembered   *)
(* in a cache that every call in the process shares.                       *)
(*                                                                         *)
(* Calls run concurrently.  Any read may fail: a node that is down or      *)
(* answers with an error.  The contracts do not change (what the comment   *)
(* at DiscoverCached relies on).                                           *)
(*                                                                         *)
(* A definition that stands right before another of the same parameters and*)
(* is used nowhere is a mistake one could make in it; the README says which*)
(* property notices.                                                       *)
(***************************************************************************)
EXTENDS Integers, Sequences

CONSTANTS
  Calls,    \* concurrent or successive calls of route.Resolve
  Chains,   \* the chains there are; a chain ID is the chain it is the ID of
  Address,  \* contract addresses
  Code,     \* Code[c]: the addresses with code on chain c
  Getters,  \* [on, at, sig, is]: what a getter call on a contract answers
  Requests, \* what a call may be asked: [src, dst] chain IDs, and addresses
            \* the operator supplies
  MaybeMisdialed  \* the calls whose endpoints may serve other chains

NoAddress == "0x0"
L2StandardBridge == "0x42..10"
L2ToL1MessagePasser == "0x42..16"
Predeploys == <<L2StandardBridge, L2ToL1MessagePasser>>

\* The three hops from the L2 to the portal, each with its known spellings.
Sigs == << <<"otherBridge()", "OTHER_BRIDGE()">>,
           <<"messenger()", "MESSENGER()">>,
           <<"portal()", "PORTAL()">> >>
Hops == 1 .. 3
Spellings == 1 .. 2

Ends == [src : Chains, dst : Chains]
Addresses == [l1Bridge : Address \cup {NoAddress},
              l2Bridge : Address \cup {NoAddress},
              portal : Address \cup {NoAddress}]
NoAddresses == [l1Bridge |-> NoAddress, l2Bridge |-> NoAddress, portal |-> NoAddress]

\* A getter that answers with the zero address, or with something that is no
\* address, counts as absent.
ASSUME WorldAssumption ==
  /\ {L2StandardBridge, L2ToL1MessagePasser} \subseteq Address
  /\ NoAddress \notin Address
  /\ Code \in [Chains -> SUBSET Address]
  /\ \A g \in Getters : g.on \in Chains /\ g.is \in Address
  /\ Requests \subseteq [src : Chains, dst : Chains, over : Addresses]
  /\ MaybeMisdialed \subseteq Calls

\* The two spellings are names of one field (what the comment at getter says):
\* a getter has one answer, and two that name deployed contracts agree.
SameField(s, t) == \E hop \in Hops : \E i, j \in Spellings : s = Sigs[hop][i] /\ t = Sigs[hop][j]
ASSUME FieldAssumption ==
  \A g, h \in Getters : g.on = h.on /\ g.at = h.at =>
    /\ g.sig = h.sig => g.is = h.is
    /\ \A c \in Chains : SameField(g.sig, h.sig) /\ {g.is, h.is} \subseteq Code[c] => g.is = h.is

VARIABLES
  request,   \* request[o]: what the call was asked
  serves,    \* serves[o]: the chains behind the endpoints of the call
  at,        \* at[o]: the read the call makes next
  predeploy, \* predeploy[o]: which predeploy IsOPStack looks at
  spelling,  \* spelling[o]: which spelling of the getter is tried
  cand,      \* cand[o]: the getter's answer, not yet verified
  found,     \* found[o]: the contracts of the hops made so far
  answer,    \* answer[o]: what DiscoverCached returned
  kind,      \* kind[o]: the route's kind, once both ends are classified
  cache,     \* cache[k]: empty, or the one answer remembered for the pair k
  failed     \* failed[o]: one of its reads has failed

discoveryVars == <<request, serves, at, predeploy, spelling, cand, found, answer, kind,
                   cache, failed>>
-----------------------------------------------------------------------------
\* The settlement layer and the rollup, whichever way the transfer goes.
L1of(o, ends) == IF kind[o] = "deposit" THEN ends.src ELSE ends.dst
L2of(o, ends) == IF kind[o] = "deposit" THEN ends.dst ELSE ends.src

Keys == [l1 : Chains, l2 : Chains]
KeyByL1(o) == [l1 |-> L1of(o, request[o]), l2 |-> L1of(o, request[o])]
KeyByL2(o) == [l1 |-> L2of(o, request[o]), l2 |-> L2of(o, request[o])]
Key(o) == [l1 |-> L1of(o, request[o]), l2 |-> L2of(o, request[o])]

Goto(o, stage) == at' = [at EXCEPT ![o] = stage]
ReadOk == UNCHANGED failed
ReadFails(o) == failed' = [failed EXCEPT ![o] = TRUE]

\* DiscoverCached returns: an error, or the addresses.
Answer(o, e, addrs) ==
  /\ Goto(o, "answered")
  /\ answer' = [answer EXCEPT ![o] = [err |-> e, addrs |-> addrs]]

-----------------------------------------------------------------------------
(* IsOPStack on a chain: both predeploys carry code.                       *)

HasCode(c, a) == a \in Code[c]
HasMorePastEnd(o) == predeploy[o] <= Len(Predeploys)
HasMore(o) == predeploy[o] < Len(Predeploys)

\* Code at this predeploy, and another one to look at.
ProbeMore(o, c) ==
  /\ HasCode(c, Predeploys[predeploy[o]]) /\ HasMore(o)
  /\ predeploy' = [predeploy EXCEPT ![o] = @ + 1]
  /\ ReadOk

ProbeEndsEarly(o, c, isL2) ==
  /\ isL2 = HasCode(c, Predeploys[predeploy[o]])
  /\ predeploy' = [predeploy EXCEPT ![o] = 1]
  /\ ReadOk

\* The last predeploy has code, or this one has none.
ProbeEnds(o, c, isL2) ==
  /\ isL2 = HasCode(c, Predeploys[predeploy[o]])
  /\ isL2 => ~HasMore(o)
  /\ predeploy' = [predeploy EXCEPT ![o] = 1]
  /\ ReadOk

-----------------------------------------------------------------------------
(* DiscoverCached and Discover.                                            *)

Lookup(o) ==
  /\ at[o] = "lookup"
  /\ \/ \E hit \in cache[Key(o)] : Answer(o, "nil", hit)
     \/ cache[Key(o)] = {} /\ Goto(o, "probeL2") /\ UNCHANGED answer
  /\ UNCHANGED <<request, serves, predeploy, spelling, cand, found, kind, cache, failed>>

ProbeL2(o) ==
  LET l2 == L2of(o, serves[o])
  IN  /\ at[o] = "probeL2"
      /\ \/ ProbeMore(o, l2) /\ UNCHANGED <<at, answer>>
         \/ ProbeEnds(o, l2, TRUE) /\ Goto(o, "call") /\ UNCHANGED answer
         \/ ProbeEnds(o, l2, FALSE) /\ Answer(o, "ErrNotOPStack", NoAddresses)
         \/ ReadFails(o) /\ Answer(o, "read code", NoAddresses) /\ UNCHANGED predeploy
      /\ UNCHANGED <<request, serves, spelling, cand, found, kind, cache>>

\* The contract asked in this hop, and the chain it is asked on.
Hop(o) == Len(found[o]) + 1
AskedAt(o) == IF Hop(o) = 1 THEN L2StandardBridge ELSE found[o][Hop(o) - 1]
AskedOn(o) == IF Hop(o) = 1 THEN L2of(o, serves[o]) ELSE L1of(o, serves[o])

Replies(o) ==
  {g.is : g \in {h \in Getters :
     h.on = AskedOn(o) /\ h.at = AskedAt(o) /\ h.sig = Sigs[Hop(o)][spelling[o]]}}

SameSpelling(o) == Goto(o, "call") /\ UNCHANGED <<spelling, answer>>

\* This spelling gave nothing usable: the next one, or the hop has failed and
\* pairingError says so.
NextSpelling(o) ==
  \/ /\ spelling[o] < Len(Sigs[Hop(o)])
     /\ spelling' = [spelling EXCEPT ![o] = @ + 1]
     /\ Goto(o, "call")
     /\ UNCHANGED answer
  \/ /\ spelling[o] = Len(Sigs[Hop(o)])
     /\ Answer(o, "ErrNotPaired", NoAddresses)
     /\ UNCHANGED spelling

\* callAddress: a call that fails is one more unusable answer.
Call(o) ==
  /\ at[o] = "call"
  /\ \/ /\ \E a \in Replies(o) : cand' = [cand EXCEPT ![o] = a]
        /\ Goto(o, "verify")
        /\ ReadOk
        /\ UNCHANGED <<spelling, answer>>
     \/ Replies(o) = {} /\ ReadOk /\ NextSpelling(o) /\ UNCHANGED cand
     \/ ReadFails(o) /\ NextSpelling(o) /\ UNCHANGED cand
  /\ UNCHANGED <<request, serves, predeploy, found, kind, cache>>

\* The answer has to be a contract on the L1 that was supplied.
AnyAddress(o) == TRUE
OnL1(o) == HasCode(L1of(o, serves[o]), cand[o])

Verify(o) ==
  /\ at[o] = "verify"
  /\ \/ /\ OnL1(o)
        /\ found' = [found EXCEPT ![o] = Append(@, cand[o])]
        /\ Goto(o, IF Hop(o) = Len(Sigs) THEN "store" ELSE "call")
        /\ spelling' = [spelling EXCEPT ![o] = 1]
        /\ ReadOk
        /\ UNCHANGED answer
     \/ ~OnL1(o) /\ ReadOk /\ NextSpelling(o) /\ UNCHANGED found
     \/ /\ ReadFails(o)
        /\ Answer(o, "ErrNotPaired", NoAddresses)
        /\ UNCHANGED <<spelling, found>>
  /\ UNCHANGED <<request, serves, predeploy, cand, kind, cache>>

Derived(o) == [l1Bridge |-> found[o][1], l2Bridge |-> L2StandardBridge,
               portal |-> found[o][3]]

Store(o) ==
  /\ at[o] = "store"
  /\ cache' = [cache EXCEPT ![Key(o)] = {Derived(o)}]
  /\ Answer(o, "nil", Derived(o))
  /\ UNCHANGED <<request, serves, predeploy, spelling, cand, found, kind, failed>>
=============================================================================
