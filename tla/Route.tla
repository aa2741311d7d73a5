------------------------------- MODULE Route -------------------------------
(***************************************************************************)
(* internal/route/route.go: what the configured pair of chains means, and  *)
(* which contract addresses a bridge operation will use.  Discovery makes  *)
(* the reads of a bridge route; registry.Addresses is the fallback.        *)
(*                                                                         *)
(* A definition that stands right before another of the same parameters and*)
(* is used nowhere is a mistake one could make in it; the README says which*)
(* property notices.                                                       *)
(***************************************************************************)
EXTENDS Discovery

\* The vendored rows, in order: a chain, the L1 it settles on (none for an L1),
\* its contracts there.  A document that does not parse has no rows.
CONSTANT Snapshot

NoChain == "none"

\* An address that does not parse is NoAddress.
ASSUME SnapshotAssumption ==
  Snapshot \in Seq([id : Chains, l1 : Chains \cup {NoChain},
                    l1Bridge : Address \cup {NoAddress}, portal : Address \cup {NoAddress}])

VARIABLES
  srcIsL2, \* srcIsL2[o]: the source turned out to be a rollup
  err,    \* err[o]: the error Resolve returned, "running" before
  route   \* route[o]: the Route that goes with it

vars == <<discoveryVars, srcIsL2, err, route>>

Stages == {"start", "probeSrc", "probeDst", "lookup", "probeL2", "call",
           "verify", "store", "answered", "done"}
Kinds == {"unknown", "same-chain", "deposit", "withdraw"}
Errors == {"nil", "read code", "ErrUnsupportedRoute", "ErrNotOPStack", "ErrNotPaired"}
Origins == {"", "discovery", "registry", "override"}
Sources == [l1Bridge : Origins, l2Bridge : Origins, portal : Origins]
Routes == [kind : Kinds, addrs : Addresses, sources : Sources]

All(origin) == [l1Bridge |-> origin, l2Bridge |-> origin, portal |-> origin]
NoRoute == [kind |-> "unknown", addrs |-> NoAddresses, sources |-> All("")]

TypeOK ==
  /\ request \in [Calls -> Requests]
  /\ serves \in [Calls -> Ends]
  /\ srcIsL2 \in [Calls -> BOOLEAN]
  /\ at \in [Calls -> Stages]
  /\ predeploy \in [Calls -> 1 .. 2]
  /\ spelling \in [Calls -> Spellings]
  /\ cand \in [Calls -> Address \cup {NoAddress}]
  /\ found \in [Calls -> Seq(Address)]
  /\ \A o \in Calls : Len(found[o]) <= 3
  /\ answer \in [Calls -> [err : Errors, addrs : Addresses]]
  /\ kind \in [Calls -> Kinds]
  /\ cache \in [Keys -> SUBSET Addresses]
  /\ failed \in [Calls -> BOOLEAN]
  /\ err \in [Calls -> Errors \cup {"running"}]
  /\ route \in [Calls -> Routes]

Init ==
  /\ request \in [Calls -> Requests]
  /\ serves \in [Calls -> Ends]
  /\ \A o \in Calls \ MaybeMisdialed :
       serves[o] = [src |-> request[o].src, dst |-> request[o].dst]
  /\ srcIsL2 = [o \in Calls |-> FALSE]
  /\ at = [o \in Calls |-> "start"]
  /\ predeploy = [o \in Calls |-> 1]
  /\ spelling = [o \in Calls |-> 1]
  /\ cand = [o \in Calls |-> NoAddress]
  /\ found = [o \in Calls |-> <<>>]
  /\ answer = [o \in Calls |-> [err |-> "nil", addrs |-> NoAddresses]]
  /\ kind = [o \in Calls |-> "unknown"]
  /\ cache = [k \in Keys |-> {}]
  /\ failed = [o \in Calls |-> FALSE]
  /\ err = [o \in Calls |-> "running"]
  /\ route = [o \in Calls |-> NoRoute]

-----------------------------------------------------------------------------
Return(o, e, r) ==
  /\ Goto(o, "done")
  /\ err' = [err EXCEPT ![o] = e]
  /\ route' = [route EXCEPT ![o] = r]
Continue(o, stage) == Goto(o, stage) /\ UNCHANGED <<err, route>>

\* build: a later row for a chain replaces an earlier one.
Index == {Snapshot[i] : i \in {i \in DOMAIN Snapshot :
                                \A j \in DOMAIN Snapshot : j > i => Snapshot[j].id # Snapshot[i].id}}

\* registry.Addresses for a pair: none, or the row's contracts.
RowsAnyL1(k) == {r \in Index : r.id = k.l2}
Rows(k) == {r \in Index : r.id = k.l2 /\ r.l1 = k.l1}
Registry(k) ==
  {[l1Bridge |-> r.l1Bridge, l2Bridge |-> L2StandardBridge, portal |-> r.portal] :
     r \in {s \in Rows(k) : s.l1Bridge # NoAddress /\ s.portal # NoAddress}}

Complete(addrs) == \A f \in DOMAIN addrs : addrs[f] # NoAddress

\* Each address the operator supplied wins, and is labelled as his.
Overlay(o, addrs) ==
  [f \in DOMAIN addrs |-> IF request[o].over[f] # NoAddress THEN request[o].over[f] ELSE addrs[f]]
SourcesOfBase(o, origin) == [f \in DOMAIN NoAddresses |-> origin]
OverlaySources(o, origin) ==
  [f \in DOMAIN NoAddresses |->
     IF request[o].over[f] # NoAddress THEN "override" ELSE origin]

RouteVia(o, k, addrs, origin) ==
  [kind |-> k, addrs |-> Overlay(o, addrs), sources |-> OverlaySources(o, origin)]

Start(o) ==
  /\ at[o] = "start"
  /\ \/ /\ request[o].src = request[o].dst
        /\ Return(o, "nil", [NoRoute EXCEPT !.kind = "same-chain"])
     \/ request[o].src # request[o].dst /\ Continue(o, "probeSrc")
  /\ UNCHANGED <<request, serves, srcIsL2, predeploy, spelling, cand, found,
                 answer, kind, cache, failed>>

ProbeSrc(o) ==
  /\ at[o] = "probeSrc"
  /\ \/ ProbeMore(o, serves[o].src) /\ UNCHANGED <<at, srcIsL2, err, route>>
     \/ \E isL2 \in BOOLEAN :
          /\ ProbeEnds(o, serves[o].src, isL2)
          /\ srcIsL2' = [srcIsL2 EXCEPT ![o] = isL2]
          /\ Continue(o, "probeDst")
     \/ /\ ReadFails(o)
        /\ Return(o, "read code", NoRoute)
        /\ UNCHANGED <<predeploy, srcIsL2>>
  /\ UNCHANGED <<request, serves, spelling, cand, found, answer, kind, cache>>

\* Exactly one of the two ends is a rollup, or the pair is refused.
Classify(o, dstIsL2) ==
  LET k == IF dstIsL2 THEN "deposit" ELSE "withdraw"
      over == request[o].over
  IN  \/ /\ srcIsL2[o] = dstIsL2
         /\ Return(o, "ErrUnsupportedRoute", NoRoute)
         /\ UNCHANGED kind
      \/ /\ srcIsL2[o] # dstIsL2
         /\ kind' = [kind EXCEPT ![o] = k]
         /\ \/ Complete(over) /\ Return(o, "nil", RouteVia(o, k, over, "override"))
            \/ ~Complete(over) /\ Continue(o, "lookup")

ProbeDst(o) ==
  /\ at[o] = "probeDst"
  /\ \/ ProbeMore(o, serves[o].dst) /\ UNCHANGED <<at, kind, err, route>>
     \/ \E isL2 \in BOOLEAN : ProbeEnds(o, serves[o].dst, isL2) /\ Classify(o, isL2)
     \/ /\ ReadFails(o)
        /\ Return(o, "read code", NoRoute)
        /\ UNCHANGED <<predeploy, kind>>
  /\ UNCHANGED <<request, serves, srcIsL2, spelling, cand, found, answer, cache>>

\* discoverOrFallBack and resolveAddresses, once DiscoverCached has returned.
Finish(o) ==
  /\ at[o] = "answered"
  /\ \/ /\ answer[o].err = "nil"
        /\ Return(o, "nil", RouteVia(o, kind[o], answer[o].addrs, "discovery"))
     \/ /\ answer[o].err # "nil"
        /\ \E row \in Registry(Key(o)) :
             Return(o, "nil", RouteVia(o, kind[o], row, "registry"))
     \/ /\ answer[o].err # "nil"
        /\ Registry(Key(o)) = {}
        /\ Return(o, answer[o].err, NoRoute)
  /\ UNCHANGED <<request, serves, srcIsL2, predeploy, spelling, cand, found,
                 answer, kind, cache, failed>>

\* DiscoverCached runs inside Resolve.
resolveVars == <<srcIsL2, err, route>>

RouteStep(o) ==
  \/ Start(o) \/ ProbeSrc(o) \/ ProbeDst(o) \/ Finish(o)
  \/ Lookup(o) /\ UNCHANGED resolveVars
  \/ ProbeL2(o) /\ UNCHANGED resolveVars
  \/ Call(o) /\ UNCHANGED resolveVars
  \/ Verify(o) /\ UNCHANGED resolveVars
  \/ Store(o) /\ UNCHANGED resolveVars

Finished == (\A o \in Calls : at[o] = "done") /\ UNCHANGED vars

Next == (\E o \in Calls : RouteStep(o)) \/ Finished

Spec == Init /\ [][Next]_vars

\* Every read of a node is answered in the end, if only with an error.
FairSpec == Spec /\ \A o \in Calls : WF_vars(RouteStep(o))
=============================================================================
