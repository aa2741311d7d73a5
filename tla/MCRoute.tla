------------------------------ MODULE MCRoute ------------------------------
(***************************************************************************)
(* A small world for Route: an L1 with two rollups, the second of an older *)
(* contract version, and an L1 that neither settles on.                    *)
(***************************************************************************)
EXTENDS RouteProperties, TLC

CONSTANTS a, b  \* two calls

TwoCalls == {a, b}
World == {"L1", "otherL1", "R1", "R2"}

\* The addresses of R1's and R2's contracts on L1; "stale" is an answer that
\* is deployed nowhere.
Deployed == {"bridge1", "messenger1", "portal1", "bridge2", "messenger2", "portal2"}
Contracts == Deployed \cup {"stale", L2StandardBridge, L2ToL1MessagePasser}

\* otherL1 has something at one of the predeploys, but not at both.
CodeOn == ("L1" :> Deployed) @@ ("otherL1" :> {L2StandardBridge})
          @@ [c \in {"R1", "R2"} |-> {L2StandardBridge, L2ToL1MessagePasser}]

G(on, at0, sig, is) == [on |-> on, at |-> at0, sig |-> sig, is |-> is]
GettersOf ==
  { G("R1", L2StandardBridge, "otherBridge()", "bridge1"),
    G("L1", "bridge1", "messenger()", "messenger1"),
    G("L1", "messenger1", "portal()", "portal1"),
    G("R2", L2StandardBridge, "otherBridge()", "stale"),
    G("R2", L2StandardBridge, "OTHER_BRIDGE()", "bridge2"),
    G("L1", "bridge2", "MESSENGER()", "messenger2"),
    G("L1", "messenger2", "portal()", "stale"),
    G("L1", "messenger2", "PORTAL()", "portal2") }

Row(l1Bridge, portal) ==
  [l1Bridge |-> l1Bridge, l2Bridge |-> L2StandardBridge, portal |-> portal]
PortalOnly == [NoAddresses EXCEPT !.portal = "stale"]

Ask(src, dst, over) == [src |-> src, dst |-> dst, over |-> over]

\* Pairs both ways, older contracts, chains that are no pair, one chain twice;
\* and every way to override: nothing, one address, all.
Bridged == {Ask("L1", "R1", NoAddresses), Ask("R1", "L1", NoAddresses),
            Ask("R2", "L1", NoAddresses), Ask("R1", "otherL1", NoAddresses)}
Anything ==
  Bridged \cup {Ask("L1", "L1", NoAddresses), Ask("L1", "otherL1", NoAddresses),
               Ask("R1", "R2", NoAddresses), Ask("L1", "R1", PortalOnly),
               Ask("R2", "L1", PortalOnly), Ask("L1", "R1", Row("stale", "portal1"))}
Nothing == {}

\* Bound: not both endpoints of a call are wrong.
OneEndWrong ==
  \A o \in Calls : serves[o].src = request[o].src \/ serves[o].dst = request[o].dst

\* A row for L1, an outdated and a good one for R1, and a damaged one for R2.
NoRows == <<>>
SomeRows ==
  << [id |-> "L1", l1 |-> NoChain, l1Bridge |-> NoAddress, portal |-> NoAddress],
     [id |-> "R1", l1 |-> "L1", l1Bridge |-> "bridge1", portal |-> "stale"],
     [id |-> "R1", l1 |-> "L1", l1Bridge |-> "bridge1", portal |-> "portal1"],
     [id |-> "R2", l1 |-> "L1", l1Bridge |-> "bridge2", portal |-> NoAddress] >>
=============================================================================
