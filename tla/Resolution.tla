----------------------------- MODULE Resolution -----------------------------
(***************************************************************************)
(* What route.Resolve promises its callers, each call answered in a single *)
(* step: no probes, hops, spellings or labels made on the way.             *)
(*                                                                         *)
(* A verdict is a function of what the chains behind the endpoints are, of *)
(* what the operator supplied, of the snapshot, and of the contracts that  *)
(* calls for the same chain IDs can have learnt.  A read that failed turns *)
(* an answer into an error or into the snapshot's, never into another one. *)
(***************************************************************************)
CONSTANTS
  Calls,
  Pairs,      \* [l1, l2]: a chain that may settle another
  Rollups,    \* the chains that are OP Stack rollups
  Contracts,  \* [pair, addrs]: the contracts of a pair, if it is one
  Vendored,   \* [pair, addrs]: what the snapshot has for it
  NoAddress,
  NoRoute     \* the route that goes with an error

VARIABLES
  asked,    \* asked[o]: the chain IDs, and the addresses that are supplied
  behind,   \* behind[o]: the chains that the endpoints serve
  known,    \* known[k]: the contracts remembered for the pair k
  trouble,  \* trouble[o]: a read of the call has failed
  verdict   \* verdict[o]: the error and the route returned, Open before

Open == [err |-> "running", route |-> NoRoute]
Ways == {"deposit", "withdraw"}

\* The settlement layer and the rollup, for a transfer that goes this way.
Pair(ends, way) ==
  IF way = "deposit" THEN [l1 |-> ends.src, l2 |-> ends.dst]
                     ELSE [l1 |-> ends.dst, l2 |-> ends.src]

\* From an L1 to a rollup, or back.
Goes(o, way) ==
  /\ asked[o].src # asked[o].dst
  /\ Pair(behind[o], way).l2 \in Rollups /\ Pair(behind[o], way).l1 \notin Rollups

For(k, table) == {t.addrs : t \in {e \in table : e.pair = k}}

\* The pairs that answer to the chain IDs k, and what there is to learn of them.
Backing(k) ==
  UNION {{Pair(behind[o], way) : way \in {w \in Ways : Goes(o, w) /\ Pair(asked[o], w) = k}} :
           o \in Calls}
Offers(k) == UNION {For(l, Contracts) : l \in Backing(k)}
OfOnePair(k) == \A l, m \in Backing(k) : l = m

Supplied(o) == \A f \in DOMAIN asked[o].over : asked[o].over[f] # NoAddress

\* One base, and over it what the operator supplied.
RouteOf(o, way, base, origin) ==
  LET own == {f \in DOMAIN base : asked[o].over[f] # NoAddress}
  IN  [kind |-> way,
       addrs |-> [f \in DOMAIN base |-> IF f \in own THEN asked[o].over[f] ELSE base[f]],
       sources |-> [f \in DOMAIN base |-> IF f \in own THEN "override" ELSE origin]]

RInit ==
  /\ known = [k \in Pairs |-> {}]
  /\ trouble = [o \in Calls |-> FALSE]
  /\ verdict = [o \in Calls |-> Open]

-----------------------------------------------------------------------------
Asking == UNCHANGED <<asked, behind>>

End(o, e, r) ==
  /\ verdict[o] = Open
  /\ verdict' = [verdict EXCEPT ![o] = [err |-> e, route |-> r]]
  /\ UNCHANGED known

ReadGoesWrong(o) ==
  /\ verdict[o] = Open
  /\ trouble' = [trouble EXCEPT ![o] = TRUE]
  /\ UNCHANGED <<known, verdict>>

\* Nobody looks for the contracts of a pair he has been given.
Learn(o, way) ==
  LET k == Pair(asked[o], way)
  IN  /\ verdict[o] = Open /\ Goes(o, way) /\ ~Supplied(o)
      /\ \E c \in For(Pair(behind[o], way), Contracts) : known' = [known EXCEPT ![k] = {c}]
      /\ UNCHANGED <<trouble, verdict>>

SameChain(o) ==
  /\ asked[o].src = asked[o].dst
  /\ End(o, "nil", [NoRoute EXCEPT !.kind = "same-chain"])
  /\ UNCHANGED trouble

Unsupported(o) ==
  /\ asked[o].src # asked[o].dst
  /\ behind[o].src \in Rollups <=> behind[o].dst \in Rollups
  /\ End(o, "ErrUnsupportedRoute", NoRoute)
  /\ UNCHANGED trouble

Unread(o) ==
  /\ asked[o].src # asked[o].dst
  /\ End(o, "read code", NoRoute)
  /\ trouble' = [trouble EXCEPT ![o] = TRUE]

Supply(o, way) ==
  /\ Goes(o, way) /\ Supplied(o)
  /\ End(o, "nil", RouteOf(o, way, asked[o].over, "override"))
  /\ UNCHANGED trouble

\* What somebody has learnt; the remembered contracts, if only one pair answers.
Discover(o, way) ==
  LET k == Pair(asked[o], way)
  IN  /\ Goes(o, way) /\ ~Supplied(o) /\ known[k] # {}
      /\ \E base \in Offers(k) : /\ OfOnePair(k) => base \in known[k]
                                 /\ End(o, "nil", RouteOf(o, way, base, "discovery"))
      /\ UNCHANGED trouble

\* Nothing can be learnt, or nothing could.
Undiscovered(o, way) ==
  /\ Goes(o, way) /\ ~Supplied(o)
  /\ trouble[o] \/ For(Pair(behind[o], way), Contracts) = {}

FallBack(o, way) ==
  /\ Undiscovered(o, way)
  /\ \E row \in For(Pair(asked[o], way), Vendored) :
       End(o, "nil", RouteOf(o, way, row, "registry"))
  /\ UNCHANGED trouble

Unpaired(o, way) ==
  /\ Undiscovered(o, way)
  /\ For(Pair(asked[o], way), Vendored) = {}
  /\ End(o, "ErrNotPaired", NoRoute)
  /\ UNCHANGED trouble

Step(o) ==
  \/ ReadGoesWrong(o) \/ SameChain(o) \/ Unsupported(o) \/ Unread(o)
  \/ \E way \in Ways : \/ Learn(o, way) \/ Supply(o, way) \/ Discover(o, way)
                       \/ FallBack(o, way) \/ Unpaired(o, way)

RNext == Asking /\ \E o \in Calls : Step(o)

RSpec == RInit /\ [][RNext]_<<asked, behind, known, trouble, verdict>>
=============================================================================
