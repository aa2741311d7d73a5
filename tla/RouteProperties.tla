-------------------------- MODULE RouteProperties --------------------------
(***************************************************************************)
(* What a resolved route must be, for calls that overlap, reads that fail  *)
(* and contracts of different versions.                                    *)
(***************************************************************************)
EXTENDS Route

OPStack(c) == \A i \in DOMAIN Predeploys : HasCode(c, Predeploys[i])

\* Contract a on chain c names contract b in this hop, under some spelling.
Names(c, a, hop, b) ==
  \E g \in Getters :
    g.on = c /\ g.at = a /\ g.is = b /\ \E i \in Spellings : g.sig = Sigs[hop][i]

\* The contracts are those of the rollup l2 on the L1 it settles on: each
\* named by the one before and deployed on that L1.
Paired(l1, l2, addrs) ==
  /\ OPStack(l2)
  /\ addrs.l2Bridge = L2StandardBridge
  /\ Names(l2, L2StandardBridge, 1, addrs.l1Bridge)
  /\ \E m \in Address : /\ Names(l1, addrs.l1Bridge, 2, m)
                        /\ Names(l1, m, 3, addrs.portal)
                        /\ {addrs.l1Bridge, m, addrs.portal} \subseteq Code[l1]

Candidates == [l1Bridge : Address, l2Bridge : {L2StandardBridge}, portal : Address]
ArePaired(l1, l2) == \E addrs \in Candidates : Paired(l1, l2, addrs)

Resolved(o) == err[o] = "nil" /\ route[o].kind \in {"deposit", "withdraw"}

\* The pair a call was asked about, and the one its endpoints serve.
Asked(o) == [l1 |-> L1of(o, request[o]), l2 |-> L2of(o, request[o])]
Behind(o) == [l1 |-> L1of(o, serves[o]), l2 |-> L2of(o, serves[o])]

\* What the process may have learnt about the pair a call was asked about: the
\* pairs that answered to those chain IDs.
Answering(o) == {Behind(p) : p \in {q \in Calls : Asked(q) = Asked(o)}}

-----------------------------------------------------------------------------
\* A read that fails never changes what a pair of chains is taken for: a call
\* that classifies has classified the chains behind its endpoints correctly.
KindIsRight ==
  \A o \in Calls :
    /\ route[o].kind = "deposit" => OPStack(serves[o].dst) /\ ~OPStack(serves[o].src)
    /\ route[o].kind = "withdraw" => OPStack(serves[o].src) /\ ~OPStack(serves[o].dst)
    /\ err[o] = "ErrUnsupportedRoute" =>
         (OPStack(serves[o].src) <=> OPStack(serves[o].dst))

\* Whatever calls overlap, what a call may take from the cache are the contracts
\* of one pair, and of the pair it was asked about if the endpoints of the calls
\* for it serve that pair: a wrong endpoint harms no other pair.
CacheIsPaired ==
  \A o \in Calls : \A addrs \in cache[Key(o)] :
    \E k \in Answering(o) : Paired(k.l1, k.l2, addrs)

\* The labels printed before anything is sent are true: "override" marks just
\* what the operator supplied, "registry" a contract of the row for this rollup
\* on this L1, "discovery" a contract of the pair that answered.
LabelsAreTrue ==
  \A o \in Calls : Resolved(o) => \A f \in DOMAIN NoAddresses :
    LET addr == route[o].addrs[f]
        label == route[o].sources[f]
    IN  /\ label = "override" <=> request[o].over[f] # NoAddress
        /\ label = "override" => addr = request[o].over[f]
        /\ label = "registry" =>
             \E r \in Index :
               /\ r.l1 = Asked(o).l1 /\ r.id = Asked(o).l2
               /\ addr = CASE f = "l1Bridge" -> r.l1Bridge
                           [] f = "portal" -> r.portal
                           [] OTHER -> L2StandardBridge
        /\ label = "discovery" =>
             \E k \in Answering(o), addrs \in Candidates :
               Paired(k.l1, k.l2, addrs) /\ addr = addrs[f]

\* SECURITY.md:18 "An unpaired pair is refused, not attempted": so it is when
\* the snapshot has no row and the operator did not supply every address.
UnpairedIsRefused ==
  \A o \in Calls :
    Resolved(o) /\ Registry(Key(o)) = {} /\ ~Complete(request[o].over)
      => \E k \in Answering(o) : ArePaired(k.l1, k.l2)

\* A pair whose contracts answer to any known spelling is found, if all reads
\* succeed: an older contract next to a newer one is no error.
NoPairIsMissed ==
  \A o \in Calls :
    err[o] \in {"ErrNotPaired", "ErrNotOPStack"} /\ ~failed[o]
      => ~ArePaired(Behind(o).l1, Behind(o).l2)

\* discover.go:280 "the answer cannot change while the process runs": an
\* answer once remembered is never replaced by another, even by a call that
\* looked before it was there and derives it again, unless endpoints of
\* different pairs answer to the same chain IDs.
AnswerNeverChanges ==
  [][\A o \in Calls :
       cache[Key(o)] # {} /\ (\A k, l \in Answering(o) : k = l)
         => cache'[Key(o)] = cache[Key(o)]]_vars

-----------------------------------------------------------------------------
(* The promise of Resolution.                                              *)

RollupsThere == {c \in Chains : OPStack(c)}
ContractsThere ==
  UNION {{[pair |-> k, addrs |-> a] : a \in {c \in Candidates : Paired(k.l1, k.l2, c)}} : k \in Keys}
RowsThere == UNION {{[pair |-> k, addrs |-> a] : a \in Registry(k)} : k \in Keys}

Promise == INSTANCE Resolution WITH
  Pairs <- Keys,
  Rollups <- RollupsThere,
  Contracts <- ContractsThere,
  Vendored <- RowsThere,
  asked <- request,
  behind <- serves,
  known <- cache,
  trouble <- failed,
  verdict <- [o \in Calls |-> [err |-> err[o], route |-> route[o]]]

\* route.go:113: whatever calls overlap and whatever reads fail, each call has
\* the answer that Resolution allows it at the moment it returns.
AnswersAsPromised == Promise!RSpec

-----------------------------------------------------------------------------
\* Every call returns.
Resolves == \A o \in Calls : <>(at[o] = "done")

-----------------------------------------------------------------------------
(* What the documentation says and the code does not keep: each has a run  *)
(* that refutes it.                                                        *)

\* README.md:107 "only if the chains could not be reached": the snapshot also
\* answers when both chains were read without an error and do not pair.
RegistryOnlyIfUnreachable ==
  \A o \in Calls :
    Resolved(o) /\ (\E f \in DOMAIN NoAddresses : route[o].sources[f] = "registry")
      => failed[o]

\* opstack/discover.go:34 "both chains are real, and are not two ends of the
\* same rollup": the error is also returned when a read has failed.
NotPairedIsEvidence ==
  \A o \in Calls : err[o] = "ErrNotPaired" => ~ArePaired(Key(o).l1, Key(o).l2)
=============================================================================
