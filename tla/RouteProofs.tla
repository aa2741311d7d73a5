---------------------------- MODULE RouteProofs ----------------------------
(***************************************************************************)
(* What a resolved route must be, for any number of overlapping calls, any *)
(* contracts, any requests and any snapshot.                               *)
(*                                                                         *)
(* Calls share nothing but the cache.  What is proved of one call is a     *)
(* conjunction about its own state (FlowInv, KindInv, ChainInv, MissInv),  *)
(* which no step of another call can disturb (StepIsLocal), and what the   *)
(* cache holds was derived by a call that had classified its pair, which a *)
(* call never takes back (LearntStays).                                    *)
(***************************************************************************)
EXTENDS RouteProperties, SequenceTheorems, TLAPS

Classified(o) == kind[o] \in {"deposit", "withdraw"}
Unclassified == {"start", "probeSrc", "probeDst"}
Deriving == {"call", "verify", "store"}
Discovering == {"lookup", "probeL2", "call", "verify", "store", "answered"}

\* Where a call is, and what it has and has not done by then.
FlowInv(o) ==
  /\ at[o] \in Unclassified => kind[o] = "unknown"
  /\ at[o] \in Discovering => Classified(o)
  /\ at[o] \in Unclassified => found[o] = <<>> /\ spelling[o] = 1
  /\ at[o] \in {"lookup", "probeL2"} => found[o] = <<>> /\ spelling[o] = 1
  /\ at[o] \in {"call", "verify"} => Len(found[o]) \in 0 .. 2
  /\ at[o] = "store" => Len(found[o]) = 3
  /\ at[o] # "done" => err[o] = "running" /\ route[o] = NoRoute
  /\ answer[o].err # "ErrUnsupportedRoute"

Typing == TypeOK /\ \A o \in Calls : FlowInv(o)

ProbedSoFar(o, c) == \A i \in DOMAIN Predeploys : i < predeploy[o] => HasCode(c, Predeploys[i])

\* What the probes have shown, and what was concluded from them.
KindInv(o) ==
  /\ at[o] \in {"start", "lookup"} => predeploy[o] = 1
  /\ at[o] = "probeSrc" => ProbedSoFar(o, serves[o].src)
  /\ at[o] = "probeDst" =>
       ProbedSoFar(o, serves[o].dst) /\ (srcIsL2[o] <=> OPStack(serves[o].src))
  /\ kind[o] = "deposit" => OPStack(serves[o].dst) /\ ~OPStack(serves[o].src)
  /\ kind[o] = "withdraw" => OPStack(serves[o].src) /\ ~OPStack(serves[o].dst)
  /\ err[o] = "ErrUnsupportedRoute" => (OPStack(serves[o].src) <=> OPStack(serves[o].dst))
  /\ route[o].kind \in {"deposit", "withdraw"} => route[o].kind = kind[o]

\* The contract that names the i-th one found, and its chain.
NamerOn(o, i) == IF i = 1 THEN L2of(o, serves[o]) ELSE L1of(o, serves[o])
NamerAt(o, i) == IF i = 1 THEN L2StandardBridge ELSE found[o][i - 1]

IsNext(o, i, b) ==
  b \in Code[L1of(o, serves[o])] /\ Names(NamerOn(o, i), NamerAt(o, i), i, b)

\* Each contract found so far is on the L1 and named by the one before.
ChainInv(o) ==
  /\ at[o] \in Deriving => \A i \in Hops : i <= Len(found[o]) => IsNext(o, i, found[o][i])
  /\ at[o] = "verify" => cand[o] \in Replies(o)

\* Some call for the pair k has derived, or can derive, these contracts.
LearntFor(k, addrs) ==
  /\ addrs \in Candidates
  /\ \E p \in Calls : Classified(p) /\ Key(p) = k /\ Paired(Behind(p).l1, Behind(p).l2, addrs)

CacheInv == \A k \in Keys : \A addrs \in cache[k] : LearntFor(k, addrs)

\* Where the addresses of a route are from.
RouteFrom(o) ==
  \E origin \in {"override", "discovery", "registry"}, base \in Addresses :
    /\ route[o] = RouteVia(o, kind[o], base, origin)
    /\ origin = "override" => base = request[o].over /\ Complete(base)
    /\ origin = "discovery" => LearntFor(Key(o), base)
    /\ origin = "registry" => base \in Registry(Key(o))

SourceInv(o) ==
  /\ at[o] = "answered" /\ answer[o].err = "nil" => LearntFor(Key(o), answer[o].addrs)
  /\ Resolved(o) => RouteFrom(o)

\* The spellings tried at this hop have yielded nothing on the L1.
Exhausted(o, i) ==
  \A g \in Getters :
    g.on = AskedOn(o) /\ g.at = AskedAt(o) /\ g.sig = Sigs[Hop(o)][i]
      => g.is \notin Code[L1of(o, serves[o])]

MissInv(o) ==
  ~failed[o] =>
    /\ at[o] \in {"call", "verify"} => \A i \in Spellings : i < spelling[o] => Exhausted(o, i)
    /\ at[o] = "answered" /\ answer[o].err # "nil" => ~ArePaired(Behind(o).l1, Behind(o).l2)
    /\ err[o] \in {"ErrNotPaired", "ErrNotOPStack"} => ~ArePaired(Behind(o).l1, Behind(o).l2)

\* All that is proved of a resolution, one inductive invariant.
RouteInv ==
  /\ Typing
  /\ CacheInv
  /\ \A o \in Calls : KindInv(o) /\ ChainInv(o) /\ SourceInv(o) /\ MissInv(o)

-----------------------------------------------------------------------------
\* What a step of call o leaves alone: the requests and the endpoints, all of
\* the state of other calls, and what o had concluded about its pair.
LEMMA StepIsLocal ==
  ASSUME TypeOK, NEW o \in Calls, RouteStep(o)
  PROVE  /\ UNCHANGED <<request, serves>>
         /\ at' = [at EXCEPT ![o] = at'[o]]
         /\ predeploy' = [predeploy EXCEPT ![o] = predeploy'[o]]
         /\ spelling' = [spelling EXCEPT ![o] = spelling'[o]]
         /\ cand' = [cand EXCEPT ![o] = cand'[o]]
         /\ found' = [found EXCEPT ![o] = found'[o]]
         /\ answer' = [answer EXCEPT ![o] = answer'[o]]
         /\ kind' = [kind EXCEPT ![o] = kind'[o]]
         /\ failed' = [failed EXCEPT ![o] = failed'[o]]
         /\ srcIsL2' = [srcIsL2 EXCEPT ![o] = srcIsL2'[o]]
         /\ err' = [err EXCEPT ![o] = err'[o]]
         /\ route' = [route EXCEPT ![o] = route'[o]]
         /\ at[o] # "probeDst" => kind' = kind
         /\ failed[o] => failed'[o]
         /\ cache' = cache \/ Store(o)
<1>0. /\ at \in [Calls -> Stages] /\ predeploy \in [Calls -> 1 .. 2]
      /\ spelling \in [Calls -> Spellings] /\ cand \in [Calls -> Address \cup {NoAddress}]
      /\ found \in [Calls -> Seq(Address)]
      /\ answer \in [Calls -> [err : Errors, addrs : Addresses]]
      /\ kind \in [Calls -> Kinds] /\ failed \in [Calls -> BOOLEAN]
      /\ srcIsL2 \in [Calls -> BOOLEAN] /\ route \in [Calls -> Routes]
      /\ err \in [Calls -> Errors \cup {"running"}]
  BY DEF TypeOK
<1> USE DEF Goto, ReadOk, ReadFails, Answer, Return, Continue, ProbeMore, ProbeEnds,
            NextSpelling, resolveVars
<1>1. CASE Start(o)
  BY <1>0, <1>1 DEF Start
<1>2. CASE ProbeSrc(o)
  BY <1>0, <1>2 DEF ProbeSrc
<1>3. CASE ProbeDst(o)
  <2>1. ASSUME NEW isL2 \in BOOLEAN, Classify(o, isL2)
        PROVE  /\ at' = [at EXCEPT ![o] = at'[o]] /\ kind' = [kind EXCEPT ![o] = kind'[o]]
               /\ err' = [err EXCEPT ![o] = err'[o]]
               /\ route' = [route EXCEPT ![o] = route'[o]]
    BY <1>0, <2>1 DEF Classify
  <2>2. /\ at' = [at EXCEPT ![o] = at'[o]] /\ kind' = [kind EXCEPT ![o] = kind'[o]]
        /\ err' = [err EXCEPT ![o] = err'[o]]
        /\ route' = [route EXCEPT ![o] = route'[o]]
    BY <1>0, <1>3, <2>1 DEF ProbeDst
  <2>3. QED
    BY <1>0, <1>3, <2>2 DEF ProbeDst
<1>4. CASE Finish(o)
  BY <1>0, <1>4 DEF Finish
<1>5. CASE Lookup(o) /\ UNCHANGED resolveVars
  BY <1>0, <1>5 DEF Lookup
<1>6. CASE ProbeL2(o) /\ UNCHANGED resolveVars
  BY <1>0, <1>6 DEF ProbeL2
<1>7. CASE Call(o) /\ UNCHANGED resolveVars
  BY <1>0, <1>7 DEF Call
<1>8. CASE Verify(o) /\ UNCHANGED resolveVars
  BY <1>0, <1>8 DEF Verify
<1>9. CASE Store(o) /\ UNCHANGED resolveVars
  BY <1>0, <1>9 DEF Store
<1>10. QED
  BY <1>1, <1>2, <1>3, <1>4, <1>5, <1>6, <1>7, <1>8, <1>9 DEF RouteStep

-----------------------------------------------------------------------------
(* Type correctness.  found is indexed at the hops that were made, so its  *)
(* length has to be known from the stage.                                  *)

LEMMA Members ==
  /\ "start" \in Stages /\ "probeSrc" \in Stages /\ "probeDst" \in Stages
  /\ "lookup" \in Stages /\ "probeL2" \in Stages /\ "call" \in Stages
  /\ "verify" \in Stages /\ "store" \in Stages /\ "answered" \in Stages /\ "done" \in Stages
  /\ "nil" \in Errors /\ "read code" \in Errors /\ "ErrUnsupportedRoute" \in Errors
  /\ "ErrNotOPStack" \in Errors /\ "ErrNotPaired" \in Errors
  /\ "unknown" \in Kinds /\ "same-chain" \in Kinds
  /\ "deposit" \in Kinds /\ "withdraw" \in Kinds
BY DEF Stages, Errors, Kinds

LEMMA ElementType ==
  ASSUME NEW S, NEW s \in Seq(S), NEW i \in DOMAIN s
  PROVE  s[i] \in S
OBVIOUS

LEMMA LengthType ==
  ASSUME NEW S, NEW s \in Seq(S)
  PROVE  Len(s) \in Nat
OBVIOUS

\* The provers do not count in lengths; these facts do it for them.
LEMMA Small ==
  /\ \A n \in Nat : n <= 3 => n \in 0 .. 3
  /\ \A n \in 0 .. 3 : n <= 3
  /\ \A n \in 0 .. 2 : n + 1 \in 1 .. 3 /\ n \in 0 .. 3 /\ (n + 1 # 3 => n + 1 \in 0 .. 2)
  /\ \A n \in 1 .. 3 : n \in 0 .. 3
OBVIOUS

LEMMA WorldTypes ==
  /\ Predeploys = <<L2StandardBridge, L2ToL1MessagePasser>> /\ DOMAIN Predeploys = 1 .. 2
  /\ Len(Predeploys) = 2 /\ Len(Sigs) = 3
  /\ \A h \in Hops : Len(Sigs[h]) = 2
  /\ \A c \in Chains : Code[c] \subseteq Address
  /\ NoAddresses \in Addresses /\ DOMAIN NoAddresses = {"l1Bridge", "l2Bridge", "portal"}
  /\ L2StandardBridge \in Address /\ Candidates \subseteq Addresses
  /\ NoRoute \in Routes
  /\ \A r \in Requests : r.src \in Chains /\ r.dst \in Chains /\ r.over \in Addresses
BY WorldAssumption DEF Predeploys, Sigs, Hops, NoAddresses, Addresses, Candidates, NoRoute,
                       Routes, Kinds, All, Sources, Origins

LEMMA RouteViaType ==
  ASSUME TypeOK, NEW o \in Calls, NEW k \in Kinds, NEW addrs \in Addresses,
         NEW origin \in Origins
  PROVE  RouteVia(o, k, addrs, origin) \in Routes
<1>1. request[o].over \in Addresses
  BY WorldTypes DEF TypeOK
<1>2. Overlay(o, addrs) \in Addresses
  BY <1>1 DEF Overlay, Addresses
<1>3. OverlaySources(o, origin) \in Sources
  BY DEF OverlaySources, Sources, Origins, NoAddresses
<1>4. QED
  BY <1>2, <1>3 DEF RouteVia, Routes

LEMMA RegistryType ==
  ASSUME NEW k, NEW row \in Registry(k)
  PROVE  /\ row \in Addresses
         /\ \E r \in Index : /\ r.id = k.l2 /\ r.l1 = k.l1
                             /\ row.l1Bridge = r.l1Bridge /\ row.portal = r.portal
                             /\ row.l2Bridge = L2StandardBridge
<1>1. PICK r \in Index : /\ r.id = k.l2 /\ r.l1 = k.l1
                         /\ row = [l1Bridge |-> r.l1Bridge, l2Bridge |-> L2StandardBridge,
                                   portal |-> r.portal]
  BY DEF Registry, Rows
<1>2. r \in [id : Chains, l1 : Chains \cup {NoChain},
             l1Bridge : Address \cup {NoAddress}, portal : Address \cup {NoAddress}]
  <2>1. PICK i \in DOMAIN Snapshot : r = Snapshot[i]
    BY DEF Index
  <2>2. QED
    BY <2>1, SnapshotAssumption, ElementType
<1>3. row \in Addresses
  BY <1>1, <1>2, WorldTypes DEF Addresses
<1>4. QED
  BY <1>1, <1>3

\* The types of one call's state.
CallOK(o) ==
  /\ at[o] \in Stages /\ predeploy[o] \in 1 .. 2 /\ spelling[o] \in 1 .. 2
  /\ cand[o] \in Address \cup {NoAddress} /\ found[o] \in Seq(Address) /\ Len(found[o]) \in 0 .. 3
  /\ answer[o].err \in Errors /\ answer[o] \in [err : Errors, addrs : Addresses]
  /\ kind[o] \in Kinds /\ srcIsL2[o] \in BOOLEAN /\ failed[o] \in BOOLEAN
  /\ err[o] \in Errors \cup {"running"} /\ route[o] \in Routes

LEMMA InitTyping == Init => Typing
<1> SUFFICES ASSUME Init PROVE Typing
  OBVIOUS
<1>1. TypeOK
  BY WorldTypes DEF Init, TypeOK, Stages, Spellings, Errors, Kinds
<1>2. \A o \in Calls : FlowInv(o)
  BY DEF Init, FlowInv, Unclassified, Discovering, Deriving
<1>3. QED
  BY <1>1, <1>2 DEF Typing

LEMMA TypesOfCall ==
  ASSUME TypeOK, NEW o \in Calls
  PROVE  /\ CallOK(o) /\ request[o] \in Requests /\ serves[o] \in Ends
         /\ request[o].src \in Chains /\ request[o].dst \in Chains
         /\ request[o].over \in Addresses
         /\ serves[o].src \in Chains /\ serves[o].dst \in Chains
         /\ L1of(o, serves[o]) \in Chains /\ L2of(o, serves[o]) \in Chains
         /\ Key(o) \in Keys /\ cache[Key(o)] \subseteq Addresses
<1>0. found[o] \in Seq(Address) /\ Len(found[o]) \in 0 .. 3
  <2>1. found[o] \in Seq(Address) /\ Len(found[o]) <= 3
    BY DEF TypeOK
  <2>2. QED
    BY <2>1, LengthType, Small
<1>1. CallOK(o)
  BY <1>0 DEF TypeOK, CallOK, Spellings
<1>2. request[o] \in Requests /\ serves[o] \in Ends
  BY DEF TypeOK
<1>3. /\ request[o].src \in Chains /\ request[o].dst \in Chains
      /\ request[o].over \in Addresses
      /\ serves[o].src \in Chains /\ serves[o].dst \in Chains
  BY <1>2, WorldTypes DEF Ends
<1>4. /\ L1of(o, serves[o]) \in Chains /\ L2of(o, serves[o]) \in Chains
      /\ Key(o) \in Keys
  BY <1>3 DEF L1of, L2of, Key, Keys
<1>5. cache[Key(o)] \subseteq Addresses
  BY <1>4 DEF TypeOK
<1>6. QED
  BY <1>1, <1>2, <1>3, <1>4, <1>5

\* A step of call o keeps all types if it keeps those of o's own state.
LEMMA TypesByCall ==
  ASSUME TypeOK, NEW o \in Calls, RouteStep(o), CallOK(o)',
         cache' \in [Keys -> SUBSET Addresses]
  PROVE  TypeOK'
<1> SUFFICES /\ at' \in [Calls -> Stages] /\ predeploy' \in [Calls -> 1 .. 2]
             /\ spelling' \in [Calls -> Spellings]
             /\ cand' \in [Calls -> Address \cup {NoAddress}]
             /\ found' \in [Calls -> Seq(Address)] /\ \A p \in Calls : Len(found'[p]) <= 3
             /\ answer' \in [Calls -> [err : Errors, addrs : Addresses]]
             /\ kind' \in [Calls -> Kinds] /\ failed' \in [Calls -> BOOLEAN]
             /\ srcIsL2' \in [Calls -> BOOLEAN] /\ err' \in [Calls -> Errors \cup {"running"}]
             /\ route' \in [Calls -> Routes]
  BY StepIsLocal DEF TypeOK
<1>1. at' \in [Calls -> Stages]
  <2>1. at \in [Calls -> Stages]
    BY DEF TypeOK
  <2>2. at' = [at EXCEPT ![o] = at'[o]]
    BY StepIsLocal
  <2>3. at'[o] \in Stages
    BY DEF CallOK
  <2>4. QED
    BY <2>1, <2>2, <2>3
<1>2. predeploy' \in [Calls -> 1 .. 2]
  <2>1. predeploy \in [Calls -> 1 .. 2]
    BY DEF TypeOK
  <2>2. predeploy' = [predeploy EXCEPT ![o] = predeploy'[o]]
    BY StepIsLocal
  <2>3. predeploy'[o] \in 1 .. 2
    BY DEF CallOK
  <2>4. QED
    BY <2>1, <2>2, <2>3
<1>3. spelling' \in [Calls -> Spellings]
  <2>1. spelling \in [Calls -> Spellings]
    BY DEF TypeOK
  <2>2. spelling' = [spelling EXCEPT ![o] = spelling'[o]]
    BY StepIsLocal
  <2>3. spelling'[o] \in Spellings
    BY DEF CallOK, Spellings
  <2>4. QED
    BY <2>1, <2>2, <2>3
<1>4. cand' \in [Calls -> Address \cup {NoAddress}]
  <2>1. cand \in [Calls -> Address \cup {NoAddress}]
    BY DEF TypeOK
  <2>2. cand' = [cand EXCEPT ![o] = cand'[o]]
    BY StepIsLocal
  <2>3. cand'[o] \in Address \cup {NoAddress}
    BY DEF CallOK
  <2>4. QED
    BY <2>1, <2>2, <2>3
<1>5. found' \in [Calls -> Seq(Address)] /\ \A p \in Calls : Len(found'[p]) <= 3
  <2>1. found \in [Calls -> Seq(Address)] /\ \A p \in Calls : Len(found[p]) <= 3
    BY DEF TypeOK
  <2>2. found' = [found EXCEPT ![o] = found'[o]]
    BY StepIsLocal
  <2>3. found'[o] \in Seq(Address) /\ Len(found'[o]) <= 3
    BY Small DEF CallOK
  <2>4. QED
    BY <2>1, <2>2, <2>3
<1>6. answer' \in [Calls -> [err : Errors, addrs : Addresses]]
  <2>1. answer \in [Calls -> [err : Errors, addrs : Addresses]]
    BY DEF TypeOK
  <2>2. answer' = [answer EXCEPT ![o] = answer'[o]]
    BY StepIsLocal
  <2>3. answer'[o] \in [err : Errors, addrs : Addresses]
    BY DEF CallOK
  <2>4. QED
    BY <2>1, <2>2, <2>3
<1>7. kind' \in [Calls -> Kinds]
  <2>1. kind \in [Calls -> Kinds]
    BY DEF TypeOK
  <2>2. kind' = [kind EXCEPT ![o] = kind'[o]]
    BY StepIsLocal
  <2>3. kind'[o] \in Kinds
    BY DEF CallOK
  <2>4. QED
    BY <2>1, <2>2, <2>3
<1>8. failed' \in [Calls -> BOOLEAN]
  <2>1. failed \in [Calls -> BOOLEAN]
    BY DEF TypeOK
  <2>2. failed' = [failed EXCEPT ![o] = failed'[o]]
    BY StepIsLocal
  <2>3. failed'[o] \in BOOLEAN
    BY DEF CallOK
  <2>4. QED
    BY <2>1, <2>2, <2>3
<1>9. srcIsL2' \in [Calls -> BOOLEAN]
  <2>1. srcIsL2 \in [Calls -> BOOLEAN]
    BY DEF TypeOK
  <2>2. srcIsL2' = [srcIsL2 EXCEPT ![o] = srcIsL2'[o]]
    BY StepIsLocal
  <2>3. srcIsL2'[o] \in BOOLEAN
    BY DEF CallOK
  <2>4. QED
    BY <2>1, <2>2, <2>3
<1>10. err' \in [Calls -> Errors \cup {"running"}]
  <2>1. err \in [Calls -> Errors \cup {"running"}]
    BY DEF TypeOK
  <2>2. err' = [err EXCEPT ![o] = err'[o]]
    BY StepIsLocal
  <2>3. err'[o] \in Errors \cup {"running"}
    BY DEF CallOK
  <2>4. QED
    BY <2>1, <2>2, <2>3
<1>11. route' \in [Calls -> Routes]
  <2>1. route \in [Calls -> Routes]
    BY DEF TypeOK
  <2>2. route' = [route EXCEPT ![o] = route'[o]]
    BY StepIsLocal
  <2>3. route'[o] \in Routes
    BY DEF CallOK
  <2>4. QED
    BY <2>1, <2>2, <2>3
<1>12. QED
  BY <1>1, <1>2, <1>3, <1>4, <1>5, <1>6, <1>7, <1>8, <1>9, <1>10, <1>11

\* What each way to go on does to the state of the call.
LEMMA Going ==
  ASSUME TypeOK, NEW o \in Calls
  PROVE  /\ \A stage : Goto(o, stage) => at'[o] = stage
         /\ \A stage : Continue(o, stage) =>
              at'[o] = stage /\ err'[o] = err[o] /\ route'[o] = route[o]
BY DEF TypeOK, Goto, Continue

LEMMA Reading ==
  ASSUME TypeOK, NEW o \in Calls
  PROVE  (ReadOk => failed'[o] = failed[o]) /\ (ReadFails(o) => failed'[o] = TRUE)
BY DEF TypeOK, ReadOk, ReadFails

LEMMA Returning ==
  ASSUME TypeOK, NEW o \in Calls, NEW e \in Errors, NEW r \in Routes, Return(o, e, r)
  PROVE  at'[o] = "done" /\ err'[o] = e /\ route'[o] = r
BY DEF TypeOK, Goto, Return

LEMMA Answered ==
  ASSUME TypeOK, NEW o \in Calls, NEW e \in Errors, NEW addrs \in Addresses,
         Answer(o, e, addrs)
  PROVE  /\ at'[o] = "answered" /\ answer'[o] \in [err : Errors, addrs : Addresses]
         /\ answer'[o].err = e /\ answer'[o].addrs = addrs
BY DEF TypeOK, Goto, Answer

LEMMA ProbeTypes ==
  ASSUME TypeOK, NEW o \in Calls, NEW c, NEW isL2
  PROVE  /\ ProbeMore(o, c) => predeploy[o] = 1 /\ predeploy'[o] = 2 /\ failed'[o] = failed[o]
         /\ ProbeEnds(o, c, isL2) => predeploy'[o] = 1 /\ failed'[o] = failed[o]
BY WorldTypes DEF TypeOK, ProbeMore, ProbeEnds, HasMore, ReadOk

\* The next spelling is tried, or this was the last.
LEMMA Trying ==
  ASSUME TypeOK, NEW o \in Calls, Hop(o) \in Hops, NextSpelling(o)
  PROVE  \/ /\ spelling[o] = 1 /\ spelling'[o] = 2 /\ at'[o] = "call" /\ answer' = answer
         \/ /\ spelling[o] = 2 /\ spelling' = spelling /\ at'[o] = "answered"
            /\ answer'[o] \in [err : Errors, addrs : Addresses]
            /\ answer'[o].err = "ErrNotPaired"
<1>1. Len(Sigs[Hop(o)]) = 2 /\ spelling[o] \in 1 .. 2 /\ NoAddresses \in Addresses
  BY WorldTypes DEF TypeOK, Spellings
<1>2. CASE /\ spelling[o] < Len(Sigs[Hop(o)]) /\ UNCHANGED answer
           /\ spelling' = [spelling EXCEPT ![o] = @ + 1] /\ Goto(o, "call")
  <2>1. spelling'[o] = spelling[o] + 1 /\ at'[o] = "call"
    BY <1>2, Going DEF TypeOK
  <2>2. QED
    BY <1>1, <1>2, <2>1
<1>3. CASE /\ spelling[o] = Len(Sigs[Hop(o)]) /\ UNCHANGED spelling
           /\ Answer(o, "ErrNotPaired", NoAddresses)
  <2>1. /\ at'[o] = "answered" /\ answer'[o] \in [err : Errors, addrs : Addresses]
        /\ answer'[o].err = "ErrNotPaired"
    BY <1>1, <1>3, Answered, Members
  <2>2. QED
    BY <1>1, <1>3, <2>1
<1>4. QED
  BY <1>2, <1>3 DEF NextSpelling

\* A step of call o keeps its own types and its place in the flow.
LEMMA OwnStepTypes ==
  ASSUME Typing, NEW o \in Calls, RouteStep(o)
  PROVE  CallOK(o)' /\ FlowInv(o)' /\ cache' \in [Keys -> SUBSET Addresses]
<1>0. TypeOK /\ FlowInv(o)
  BY DEF Typing
<1>1. /\ CallOK(o) /\ Key(o) \in Keys /\ request[o].over \in Addresses
      /\ L1of(o, serves[o]) \in Chains /\ cache[Key(o)] \subseteq Addresses
  BY <1>0, TypesOfCall
<1>t. cache \in [Keys -> SUBSET Addresses] /\ NoRoute \in Routes /\ NoAddresses \in Addresses
  BY <1>0, WorldTypes DEF TypeOK
<1> USE DEF Unclassified, Discovering, Classified
<1>2. CASE Start(o)
  <2>1. CASE Return(o, "nil", [NoRoute EXCEPT !.kind = "same-chain"])
    <3>1. [NoRoute EXCEPT !.kind = "same-chain"] \in Routes
      BY <1>t, Members DEF NoRoute, Routes
    <3>2. at'[o] = "done" /\ err'[o] \in Errors /\ route'[o] \in Routes
      BY <1>0, <2>1, <3>1, Returning, Members
    <3>3. QED
      BY <1>0, <1>1, <1>2, <1>t, <3>2, Members DEF Start, FlowInv, CallOK
  <2>2. CASE Continue(o, "probeSrc")
    <3>1. at'[o] = "probeSrc" /\ err'[o] = err[o] /\ route'[o] = route[o]
      BY <1>0, <2>2, Going
    <3>2. QED
      BY <1>0, <1>1, <1>2, <1>t, <3>1, Members DEF Start, FlowInv, CallOK
  <2>3. QED
    BY <1>2, <2>1, <2>2 DEF Start
<1>3. CASE ProbeSrc(o)
  <2>0. UNCHANGED <<spelling, cand, found, answer, kind, cache>> /\ at[o] = "probeSrc"
    BY <1>3 DEF ProbeSrc
  <2>1. CASE ProbeMore(o, serves[o].src) /\ UNCHANGED <<at, srcIsL2, err, route>>
    <3>1. predeploy'[o] = 2 /\ failed'[o] = failed[o]
      BY <1>0, <2>1, ProbeTypes
    <3>2. QED
      BY <1>0, <1>1, <1>t, <2>0, <2>1, <3>1 DEF FlowInv, CallOK
  <2>2. CASE \E isL2 \in BOOLEAN : /\ ProbeEnds(o, serves[o].src, isL2)
                                   /\ srcIsL2' = [srcIsL2 EXCEPT ![o] = isL2]
                                   /\ Continue(o, "probeDst")
    <3>1. srcIsL2'[o] \in BOOLEAN
      BY <1>0, <2>2 DEF TypeOK
    <3>2. /\ at'[o] = "probeDst" /\ err'[o] = err[o] /\ route'[o] = route[o]
          /\ predeploy'[o] = 1 /\ failed'[o] = failed[o]
      BY <1>0, <2>2, ProbeTypes, Going
    <3>3. QED
      BY <1>0, <1>1, <1>t, <2>0, <3>1, <3>2, Members DEF FlowInv, CallOK
  <2>3. CASE ReadFails(o) /\ Return(o, "read code", NoRoute) /\ UNCHANGED <<predeploy, srcIsL2>>
    <3>1. /\ at'[o] = "done" /\ err'[o] = "read code" /\ route'[o] = NoRoute
          /\ failed'[o] = TRUE
      BY <1>0, <1>t, <2>3, Reading, Returning, Members
    <3>2. QED
      BY <1>0, <1>1, <1>t, <2>0, <2>3, <3>1, Members DEF FlowInv, CallOK
  <2>4. QED
    BY <1>3, <2>1, <2>2, <2>3 DEF ProbeSrc
<1>4. CASE ProbeDst(o)
  <2>0. /\ UNCHANGED <<spelling, cand, found, answer, srcIsL2, cache>> /\ at[o] = "probeDst"
    BY <1>4 DEF ProbeDst
  <2>1. CASE ProbeMore(o, serves[o].dst) /\ UNCHANGED <<at, kind, err, route>>
    <3>1. predeploy'[o] = 2 /\ failed'[o] = failed[o]
      BY <1>0, <2>1, ProbeTypes
    <3>2. QED
      BY <1>0, <1>1, <1>t, <2>0, <2>1, <3>1 DEF FlowInv, CallOK
  <2>2. ASSUME NEW isL2 \in BOOLEAN, ProbeEnds(o, serves[o].dst, isL2), Classify(o, isL2)
        PROVE  CallOK(o)' /\ FlowInv(o)'
    <3>0. predeploy'[o] = 1 /\ failed'[o] = failed[o]
      BY <1>0, <2>2, ProbeTypes
    <3> DEFINE k == IF isL2 THEN "deposit" ELSE "withdraw"
    <3>1. CASE Return(o, "ErrUnsupportedRoute", NoRoute) /\ UNCHANGED kind
      <4>1. at'[o] = "done" /\ err'[o] = "ErrUnsupportedRoute" /\ route'[o] = NoRoute
        BY <1>0, <1>t, <3>1, Returning, Members
      <4>2. QED
        BY <1>0, <1>1, <1>t, <2>0, <3>0, <3>1, <4>1, Members DEF FlowInv, CallOK
    <3>2. ASSUME kind' = [kind EXCEPT ![o] = k]
          PROVE  kind'[o] = k /\ k \in Kinds /\ k \in {"deposit", "withdraw"}
      BY <1>0, <3>2, Members DEF TypeOK
    <3>3. CASE /\ kind' = [kind EXCEPT ![o] = k]
               /\ Return(o, "nil", RouteVia(o, k, request[o].over, "override"))
      <4>1. RouteVia(o, k, request[o].over, "override") \in Routes
        BY <1>0, <1>1, <3>2, <3>3, RouteViaType DEF Origins
      <4>2. at'[o] = "done" /\ err'[o] = "nil" /\ route'[o] \in Routes
        BY <1>0, <3>3, <4>1, Returning, Members
      <4>3. QED
        BY <1>0, <1>1, <2>0, <3>0, <3>2, <3>3, <4>2, Members DEF FlowInv, CallOK
    <3>4. CASE kind' = [kind EXCEPT ![o] = k] /\ Continue(o, "lookup")
      <4>1. at'[o] = "lookup" /\ err'[o] = err[o] /\ route'[o] = route[o]
        BY <1>0, <3>4, Going
      <4>2. QED
        BY <1>0, <1>1, <2>0, <3>0, <3>2, <3>4, <4>1, Members DEF FlowInv, CallOK
    <3>5. QED
      BY <2>2, <3>1, <3>3, <3>4 DEF Classify
  <2>3. CASE ReadFails(o) /\ Return(o, "read code", NoRoute) /\ UNCHANGED <<predeploy, kind>>
    <3>1. /\ at'[o] = "done" /\ err'[o] = "read code" /\ route'[o] = NoRoute
          /\ failed'[o] = TRUE
      BY <1>0, <1>t, <2>3, Reading, Returning, Members
    <3>2. QED
      BY <1>0, <1>1, <1>t, <2>0, <2>3, <3>1, Members DEF FlowInv, CallOK
  <2>4. QED
    BY <1>4, <1>t, <2>0, <2>1, <2>2, <2>3 DEF ProbeDst
<1>5. CASE Finish(o)
  <2>0. /\ UNCHANGED <<predeploy, spelling, cand, found, answer, srcIsL2, cache, kind, failed>>
    BY <1>5 DEF Finish
  <2>1. /\ RouteVia(o, kind[o], answer[o].addrs, "discovery") \in Routes
        /\ \A row \in Registry(Key(o)) : RouteVia(o, kind[o], row, "registry") \in Routes
    BY <1>0, <1>1, RouteViaType, RegistryType DEF Origins, CallOK
  <2>2. \E e \in Errors, r \in Routes : Return(o, e, r)
    BY <1>1, <1>t, <1>5, <2>1, Members DEF Finish, CallOK
  <2>3. at'[o] = "done" /\ err'[o] \in Errors /\ route'[o] \in Routes
    BY <1>0, <2>2, Returning
  <2>4. QED
    BY <1>0, <1>1, <1>t, <2>0, <2>3, Members DEF FlowInv, CallOK
<1>6. CASE Lookup(o) /\ UNCHANGED resolveVars
  <2>0. /\ UNCHANGED <<predeploy, spelling, cand, found, cache, kind, failed>>
        /\ UNCHANGED <<srcIsL2, err, route>> /\ at[o] = "lookup"
    BY <1>6 DEF Lookup, resolveVars
  <2>1. CASE \E hit \in cache[Key(o)] : Answer(o, "nil", hit)
    <3>1. /\ at'[o] = "answered" /\ answer'[o] \in [err : Errors, addrs : Addresses]
          /\ answer'[o].err = "nil"
      BY <1>0, <1>1, <2>1, Answered, Members
    <3>2. QED
      BY <1>0, <1>1, <1>t, <2>0, <3>1, Members DEF FlowInv, CallOK
  <2>2. CASE Goto(o, "probeL2") /\ UNCHANGED answer
    <3>1. at'[o] = "probeL2"
      BY <1>0, <2>2, Going
    <3>2. QED
      BY <1>0, <1>1, <1>t, <2>0, <2>2, <3>1, Members DEF FlowInv, CallOK
  <2>3. QED
    BY <1>6, <2>1, <2>2 DEF Lookup
<1>7. CASE ProbeL2(o) /\ UNCHANGED resolveVars
  <2>0. /\ UNCHANGED <<spelling, cand, found, cache, kind>> /\ UNCHANGED <<srcIsL2, err, route>>
        /\ at[o] = "probeL2"
    BY <1>7 DEF ProbeL2, resolveVars
  <2>1. CASE ProbeMore(o, L2of(o, serves[o])) /\ UNCHANGED <<at, answer>>
    <3>1. predeploy'[o] = 2 /\ failed'[o] = failed[o]
      BY <1>0, <2>1, ProbeTypes
    <3>2. QED
      BY <1>0, <1>1, <1>t, <2>0, <2>1, <3>1 DEF FlowInv, CallOK
  <2>2. CASE ProbeEnds(o, L2of(o, serves[o]), TRUE) /\ Goto(o, "call") /\ UNCHANGED answer
    <3>1. at'[o] = "call" /\ predeploy'[o] = 1 /\ failed'[o] = failed[o]
      BY <1>0, <2>2, ProbeTypes, Going
    <3>2. Len(found[o]) \in 0 .. 2
      BY <1>0, <2>0 DEF FlowInv
    <3>3. QED
      BY <1>0, <1>1, <1>t, <2>0, <2>2, <3>1, <3>2, Members DEF FlowInv, CallOK
  <2>3. CASE /\ ProbeEnds(o, L2of(o, serves[o]), FALSE)
             /\ Answer(o, "ErrNotOPStack", NoAddresses)
    <3>1. /\ predeploy'[o] = 1 /\ failed'[o] = failed[o]
          /\ at'[o] = "answered" /\ answer'[o] \in [err : Errors, addrs : Addresses]
          /\ answer'[o].err = "ErrNotOPStack"
      BY <1>0, <1>t, <2>3, ProbeTypes, Answered, Members
    <3>2. QED
      BY <1>0, <1>1, <1>t, <2>0, <3>1, Members DEF FlowInv, CallOK
  <2>4. CASE ReadFails(o) /\ Answer(o, "read code", NoAddresses) /\ UNCHANGED predeploy
    <3>1. /\ failed'[o] = TRUE
          /\ at'[o] = "answered" /\ answer'[o] \in [err : Errors, addrs : Addresses]
          /\ answer'[o].err = "read code"
      BY <1>0, <1>t, <2>4, Reading, Answered, Members
    <3>2. QED
      BY <1>0, <1>1, <1>t, <2>0, <2>4, <3>1, Members DEF FlowInv, CallOK
  <2>5. QED
    BY <1>7, <2>1, <2>2, <2>3, <2>4 DEF ProbeL2
<1>8. CASE Call(o) /\ UNCHANGED resolveVars
  <2>0. /\ UNCHANGED <<predeploy, found, kind, cache>> /\ UNCHANGED <<srcIsL2, err, route>>
        /\ at[o] = "call" /\ Len(found[o]) \in 0 .. 2
    BY <1>0, <1>1, <1>8 DEF Call, resolveVars, FlowInv, CallOK
  <2>1. Hop(o) \in Hops
    BY <2>0, Small DEF Hop, Hops
  <2>2. CASE /\ \E a \in Replies(o) : cand' = [cand EXCEPT ![o] = a]
             /\ Goto(o, "verify") /\ ReadOk /\ UNCHANGED <<spelling, answer>>
    <3>1. \A a \in Replies(o) : a \in Address
      BY WorldAssumption DEF Replies
    <3>2. cand'[o] \in Address
      BY <1>0, <2>2, <3>1 DEF TypeOK
    <3>3. at'[o] = "verify" /\ failed'[o] = failed[o]
      BY <1>0, <2>2, Going, Reading
    <3>4. QED
      BY <1>0, <1>1, <1>t, <2>0, <2>2, <3>2, <3>3, Members DEF FlowInv, CallOK
  <2>3. CASE (ReadOk \/ ReadFails(o)) /\ NextSpelling(o) /\ UNCHANGED cand
    <3>1. failed'[o] \in BOOLEAN
      BY <1>0, <1>1, <2>3, Reading DEF CallOK
    <3>2. \/ spelling'[o] = 2 /\ at'[o] = "call" /\ answer' = answer
          \/ /\ spelling' = spelling /\ at'[o] = "answered"
             /\ answer'[o] \in [err : Errors, addrs : Addresses]
             /\ answer'[o].err = "ErrNotPaired"
      BY <1>0, <2>1, <2>3, Trying
    <3>3. CASE spelling'[o] = 2 /\ at'[o] = "call" /\ answer' = answer
      <4>1. spelling'[o] \in 1 .. 2
        BY <3>3
      <4>2. QED
        BY <1>0, <1>1, <1>t, <2>0, <2>3, <3>1, <3>3, <4>1, Members DEF FlowInv, CallOK
    <3>4. CASE /\ spelling' = spelling /\ at'[o] = "answered"
               /\ answer'[o] \in [err : Errors, addrs : Addresses]
               /\ answer'[o].err = "ErrNotPaired"
      BY <1>0, <1>1, <1>t, <2>0, <2>3, <3>1, <3>4, Members DEF FlowInv, CallOK
    <3>5. QED
      BY <3>2, <3>3, <3>4
  <2>4. QED
    BY <1>8, <2>2, <2>3 DEF Call
<1>9. CASE Verify(o) /\ UNCHANGED resolveVars
  <2>0. /\ UNCHANGED <<predeploy, cand, kind, cache>> /\ UNCHANGED <<srcIsL2, err, route>>
        /\ at[o] = "verify" /\ Len(found[o]) \in 0 .. 2
    BY <1>0, <1>1, <1>9 DEF Verify, resolveVars, FlowInv, CallOK
  <2>1. Hop(o) \in Hops /\ Hop(o) = Len(found[o]) + 1 /\ Len(Sigs) = 3
    BY <2>0, Small, WorldTypes DEF Hop, Hops
  <2>2. CASE /\ OnL1(o) /\ found' = [found EXCEPT ![o] = Append(@, cand[o])]
             /\ Goto(o, IF Hop(o) = Len(Sigs) THEN "store" ELSE "call")
             /\ spelling' = [spelling EXCEPT ![o] = 1] /\ ReadOk /\ UNCHANGED answer
    <3>1. cand[o] \in Address
      BY <1>1, <2>2, WorldTypes DEF OnL1, HasCode
    <3>2. found'[o] = Append(found[o], cand[o]) /\ spelling'[o] = 1
      BY <1>0, <2>2 DEF TypeOK
    <3>3. found'[o] \in Seq(Address) /\ Len(found'[o]) = Hop(o)
      BY <1>1, <2>1, <3>1, <3>2 DEF CallOK
    <3>4. at'[o] = (IF Hop(o) = 3 THEN "store" ELSE "call") /\ failed'[o] = failed[o]
      BY <1>0, <2>1, <2>2, Going, Reading
    <3>5. /\ Len(found'[o]) \in 0 .. 3 /\ (Hop(o) # 3 => Len(found'[o]) \in 0 .. 2)
          /\ (Hop(o) = 3 => Len(found'[o]) = 3)
      BY <2>0, <2>1, <3>3, Small DEF Hops
    <3>6. spelling'[o] \in 1 .. 2
      BY <3>2
    <3>7. CASE at'[o] = "store" /\ Len(found'[o]) = 3
      BY <1>0, <1>1, <1>t, <2>0, <2>2, <3>3, <3>4, <3>5, <3>6, <3>7, Members
      DEF FlowInv, CallOK
    <3>8. CASE at'[o] = "call" /\ Len(found'[o]) \in 0 .. 2
      BY <1>0, <1>1, <1>t, <2>0, <2>2, <3>3, <3>4, <3>5, <3>6, <3>8, Members
      DEF FlowInv, CallOK
    <3>9. QED
      BY <3>4, <3>5, <3>7, <3>8
  <2>3. CASE ~OnL1(o) /\ ReadOk /\ NextSpelling(o) /\ UNCHANGED found
    <3>1. failed'[o] = failed[o]
      BY <1>0, <2>3, Reading
    <3>2. \/ spelling'[o] = 2 /\ at'[o] = "call" /\ answer' = answer
          \/ /\ spelling' = spelling /\ at'[o] = "answered"
             /\ answer'[o] \in [err : Errors, addrs : Addresses]
             /\ answer'[o].err = "ErrNotPaired"
      BY <1>0, <2>1, <2>3, Trying
    <3>3. CASE spelling'[o] = 2 /\ at'[o] = "call" /\ answer' = answer
      <4>1. spelling'[o] \in 1 .. 2
        BY <3>3
      <4>2. QED
        BY <1>0, <1>1, <1>t, <2>0, <2>3, <3>1, <3>3, <4>1, Members DEF FlowInv, CallOK
    <3>4. CASE /\ spelling' = spelling /\ at'[o] = "answered"
               /\ answer'[o] \in [err : Errors, addrs : Addresses]
               /\ answer'[o].err = "ErrNotPaired"
      BY <1>0, <1>1, <1>t, <2>0, <2>3, <3>1, <3>4, Members DEF FlowInv, CallOK
    <3>5. QED
      BY <3>2, <3>3, <3>4
  <2>4. CASE ReadFails(o) /\ Answer(o, "ErrNotPaired", NoAddresses) /\ UNCHANGED <<spelling, found>>
    <3>1. /\ failed'[o] = TRUE
          /\ at'[o] = "answered" /\ answer'[o] \in [err : Errors, addrs : Addresses]
          /\ answer'[o].err = "ErrNotPaired"
      BY <1>0, <1>t, <2>4, Reading, Answered, Members
    <3>2. QED
      BY <1>0, <1>1, <1>t, <2>0, <2>4, <3>1, Members DEF FlowInv, CallOK
  <2>5. QED
    BY <1>9, <2>2, <2>3, <2>4 DEF Verify
<1>10. CASE Store(o) /\ UNCHANGED resolveVars
  <2>0. /\ UNCHANGED <<predeploy, spelling, cand, found, kind, failed>>
        /\ UNCHANGED <<srcIsL2, err, route>> /\ at[o] = "store" /\ Len(found[o]) = 3
    BY <1>0, <1>10 DEF Store, resolveVars, FlowInv
  <2>1. found[o][1] \in Address /\ found[o][3] \in Address
    BY <1>1, <2>0, ElementType DEF CallOK
  <2>2. Derived(o) \in Addresses
    BY <2>1, WorldTypes DEF Derived, Addresses
  <2>3. /\ at'[o] = "answered" /\ answer'[o] \in [err : Errors, addrs : Addresses]
        /\ answer'[o].err = "nil"
    BY <1>0, <1>10, <2>2, Answered, Members DEF Store
  <2>4. cache' \in [Keys -> SUBSET Addresses]
    BY <1>1, <1>10, <1>t, <2>2 DEF Store
  <2>5. QED
    BY <1>0, <1>1, <1>t, <2>0, <2>3, <2>4, Members DEF FlowInv, CallOK
<1>11. QED
  BY <1>2, <1>3, <1>4, <1>5, <1>6, <1>7, <1>8, <1>9, <1>10 DEF RouteStep

\* The state of another call, and all that is said of it without the cache.
LEMMA OthersStay ==
  ASSUME TypeOK, NEW o \in Calls, RouteStep(o), NEW p \in Calls, p # o
  PROVE  /\ at'[p] = at[p] /\ predeploy'[p] = predeploy[p] /\ spelling'[p] = spelling[p]
         /\ cand'[p] = cand[p] /\ found'[p] = found[p] /\ answer'[p] = answer[p]
         /\ kind'[p] = kind[p] /\ failed'[p] = failed[p] /\ srcIsL2'[p] = srcIsL2[p]
         /\ err'[p] = err[p] /\ route'[p] = route[p]
         /\ request'[p] = request[p] /\ serves'[p] = serves[p]
BY StepIsLocal DEF TypeOK

LEMMA StepKeepsTyping ==
  ASSUME Typing, [Next]_vars
  PROVE  Typing'
<1>1. ASSUME NEW o \in Calls, RouteStep(o)
      PROVE  Typing'
  <2>1. CallOK(o)' /\ FlowInv(o)' /\ cache' \in [Keys -> SUBSET Addresses]
    BY <1>1, OwnStepTypes
  <2>2. TypeOK'
    BY <1>1, <2>1, TypesByCall DEF Typing
  <2>3. ASSUME NEW p \in Calls, p # o
        PROVE  FlowInv(p)'
    BY <1>1, <2>3, OthersStay DEF Typing, FlowInv, Classified
  <2>4. QED
    BY <2>1, <2>2, <2>3 DEF Typing
<1>2. CASE UNCHANGED vars
  BY <1>2 DEF Typing, TypeOK, FlowInv, Classified, vars, discoveryVars
<1>3. QED
  BY <1>1, <1>2 DEF Next, Finished

LEMMA AlwaysTyped == Spec => []Typing
BY InitTyping, StepKeepsTyping, PTL DEF Spec

\* Every run of the model keeps to the types of route.go and discover.go; in
\* particular no probe goes past the last predeploy and no hop past the last.
THEOREM RouteTypeCorrect == Spec => []TypeOK
<1>1. Typing => TypeOK
  BY DEF Typing
<1>2. QED
  BY <1>1, AlwaysTyped, PTL

-----------------------------------------------------------------------------
(* What the probes show.  A probe that ends has looked at every predeploy  *)
(* up to the first without code.                                           *)

LEMMA ProbeGoesOn ==
  ASSUME TypeOK, NEW o \in Calls, NEW c, ProbeMore(o, c)
  PROVE  ProbedSoFar(o, c)'
<1>1. predeploy[o] = 1 /\ predeploy'[o] = 2 /\ HasCode(c, Predeploys[1])
  BY ProbeTypes DEF ProbeMore
<1>2. \A i \in 1 .. 2 : i < 2 => i = 1
  OBVIOUS
<1>3. QED
  BY <1>1, <1>2, WorldTypes DEF ProbedSoFar, HasCode

LEMMA ProbeDecides ==
  ASSUME TypeOK, NEW o \in Calls, NEW c, NEW isL2 \in BOOLEAN, ProbedSoFar(o, c),
         ProbeEnds(o, c, isL2)
  PROVE  isL2 <=> OPStack(c)
<1>1. predeploy[o] \in 1 .. 2 /\ DOMAIN Predeploys = 1 .. 2 /\ Len(Predeploys) = 2
  BY WorldTypes DEF TypeOK
<1>2. /\ isL2 <=> HasCode(c, Predeploys[predeploy[o]])
      /\ isL2 => ~(predeploy[o] < 2)
  BY <1>1 DEF ProbeEnds, HasMore
<1>3. \A m, i \in 1 .. 2 : ~(m < 2) => i < m \/ i = m
  OBVIOUS
<1>4. CASE isL2
  BY <1>1, <1>2, <1>3, <1>4 DEF OPStack, ProbedSoFar
<1>5. CASE ~isL2
  BY <1>1, <1>2, <1>5 DEF OPStack
<1>6. QED
  BY <1>4, <1>5

\* The steps inside DiscoverCached change nothing that Resolve has concluded.
LEMMA DiscoveryStep ==
  ASSUME TypeOK, NEW o \in Calls, UNCHANGED resolveVars,
         Lookup(o) \/ ProbeL2(o) \/ Call(o) \/ Verify(o) \/ Store(o)
  PROVE  /\ at'[o] \in {"probeL2", "call", "verify", "store", "answered"}
         /\ UNCHANGED <<request, serves, kind, srcIsL2, err, route>>
<1> USE DEF resolveVars, Goto, Answer, NextSpelling
<1>1. at \in [Calls -> Stages]
  BY DEF TypeOK
<1>2. CASE Lookup(o)
  BY <1>1, <1>2 DEF Lookup
<1>3. CASE ProbeL2(o)
  BY <1>1, <1>3 DEF ProbeL2
<1>4. CASE Call(o)
  BY <1>1, <1>4 DEF Call
<1>5. CASE Verify(o)
  BY <1>1, <1>5 DEF Verify
<1>6. CASE Store(o)
  BY <1>1, <1>6 DEF Store
<1>7. QED
  BY <1>2, <1>3, <1>4, <1>5, <1>6

LEMMA OwnStepKind ==
  ASSUME Typing, NEW o \in Calls, KindInv(o), RouteStep(o)
  PROVE  KindInv(o)'
<1>0. TypeOK /\ FlowInv(o) /\ CallOK(o) /\ NoRoute \in Routes /\ NoRoute.kind = "unknown"
  BY TypesOfCall, WorldTypes DEF Typing, NoRoute
<1>1. CASE Start(o)
  <2>0. UNCHANGED <<serves, kind, predeploy, srcIsL2>> /\ predeploy[o] = 1
    BY <1>1 DEF Start, KindInv
  <2>1. CASE Return(o, "nil", [NoRoute EXCEPT !.kind = "same-chain"])
    <3>1. [NoRoute EXCEPT !.kind = "same-chain"] \in Routes
      BY <1>0, Members DEF NoRoute, Routes
    <3>2. /\ at'[o] = "done" /\ err'[o] = "nil"
          /\ route'[o] = [NoRoute EXCEPT !.kind = "same-chain"]
      BY <1>0, <2>1, <3>1, Returning, Members
    <3>3. route'[o].kind = "same-chain"
      BY <3>2 DEF NoRoute
    <3>4. QED
      BY <2>0, <3>2, <3>3 DEF KindInv, OPStack, HasCode
  <2>2. CASE Continue(o, "probeSrc")
    <3>1. at'[o] = "probeSrc" /\ err'[o] = err[o] /\ route'[o] = route[o]
      BY <1>0, <2>2, Going
    <3>2. \A i \in 1 .. 2 : ~(i < 1)
      OBVIOUS
    <3>3. ProbedSoFar(o, serves[o].src)'
      BY <2>0, <3>2, WorldTypes DEF ProbedSoFar
    <3>4. QED
      BY <2>0, <3>1, <3>3 DEF KindInv, OPStack, HasCode
  <2>3. QED
    BY <1>1, <2>1, <2>2 DEF Start
<1>2. CASE ProbeSrc(o)
  <2>0. UNCHANGED <<serves, kind>> /\ at[o] = "probeSrc" /\ ProbedSoFar(o, serves[o].src)
    BY <1>2 DEF ProbeSrc, KindInv
  <2>1. CASE ProbeMore(o, serves[o].src) /\ UNCHANGED <<at, srcIsL2, err, route>>
    BY <1>0, <2>0, <2>1, ProbeGoesOn DEF KindInv, OPStack, HasCode
  <2>2. ASSUME NEW isL2 \in BOOLEAN, ProbeEnds(o, serves[o].src, isL2),
               srcIsL2' = [srcIsL2 EXCEPT ![o] = isL2], Continue(o, "probeDst")
        PROVE  KindInv(o)'
    <3>1. /\ at'[o] = "probeDst" /\ err'[o] = err[o] /\ route'[o] = route[o]
          /\ predeploy'[o] = 1
      BY <1>0, <2>2, Going, ProbeTypes
    <3>2. \A i \in 1 .. 2 : ~(i < 1)
      OBVIOUS
    <3>3. ProbedSoFar(o, serves[o].dst)'
      BY <2>0, <3>1, <3>2, WorldTypes DEF ProbedSoFar
    <3>4. srcIsL2'[o] <=> OPStack(serves[o].src)
      BY <1>0, <2>0, <2>2, ProbeDecides DEF TypeOK
    <3>5. QED
      BY <2>0, <3>1, <3>3, <3>4 DEF KindInv, OPStack, HasCode
  <2>3. CASE ReadFails(o) /\ Return(o, "read code", NoRoute)
    <3>1. at'[o] = "done" /\ err'[o] = "read code" /\ route'[o].kind = "unknown"
      BY <1>0, <2>3, Returning, Members
    <3>2. QED
      BY <2>0, <3>1 DEF KindInv, OPStack, HasCode
  <2>4. QED
    BY <1>2, <2>1, <2>2, <2>3 DEF ProbeSrc
<1>3. CASE ProbeDst(o)
  <2>0. /\ UNCHANGED <<serves, srcIsL2>> /\ at[o] = "probeDst" /\ kind[o] = "unknown"
        /\ ProbedSoFar(o, serves[o].dst) /\ (srcIsL2[o] <=> OPStack(serves[o].src))
        /\ srcIsL2[o] \in BOOLEAN
    BY <1>0, <1>3 DEF ProbeDst, KindInv, FlowInv, Unclassified, CallOK
  <2>1. CASE ProbeMore(o, serves[o].dst) /\ UNCHANGED <<at, kind, err, route>>
    BY <1>0, <2>0, <2>1, ProbeGoesOn DEF KindInv, OPStack, HasCode
  <2>2. ASSUME NEW isL2 \in BOOLEAN, ProbeEnds(o, serves[o].dst, isL2), Classify(o, isL2)
        PROVE  KindInv(o)'
    <3>0. (isL2 <=> OPStack(serves[o].dst)) /\ predeploy'[o] = 1
      BY <1>0, <2>0, <2>2, ProbeDecides, ProbeTypes
    <3> DEFINE k == IF isL2 THEN "deposit" ELSE "withdraw"
    <3>1. CASE /\ srcIsL2[o] = isL2
               /\ Return(o, "ErrUnsupportedRoute", NoRoute) /\ UNCHANGED kind
      <4>1. /\ at'[o] = "done" /\ err'[o] = "ErrUnsupportedRoute"
            /\ route'[o].kind = "unknown"
        BY <1>0, <3>1, Returning, Members
      <4>2. QED
        BY <2>0, <3>0, <3>1, <4>1 DEF KindInv, OPStack, HasCode
    <3>2. ASSUME srcIsL2[o] # isL2, kind' = [kind EXCEPT ![o] = k]
          PROVE  /\ kind'[o] = k
                 /\ k = "deposit" => OPStack(serves[o].dst) /\ ~OPStack(serves[o].src)
                 /\ k = "withdraw" => OPStack(serves[o].src) /\ ~OPStack(serves[o].dst)
      <4>1. kind'[o] = k
        BY <1>0, <3>2 DEF TypeOK
      <4>2. QED
        BY <2>0, <3>0, <3>2, <4>1
    <3>3. CASE /\ srcIsL2[o] # isL2 /\ kind' = [kind EXCEPT ![o] = k]
               /\ Return(o, "nil", RouteVia(o, k, request[o].over, "override"))
      <4>1. RouteVia(o, k, request[o].over, "override") \in Routes
        BY <1>0, RouteViaType, TypesOfCall, Members DEF Origins
      <4>2. /\ at'[o] = "done" /\ err'[o] = "nil"
            /\ route'[o] = RouteVia(o, k, request[o].over, "override")
        BY <1>0, <3>3, <4>1, Returning, Members
      <4>3. route'[o].kind = k
        BY <4>2 DEF RouteVia
      <4>4. QED
        BY <2>0, <3>2, <3>3, <4>2, <4>3 DEF KindInv, OPStack, HasCode
    <3>4. CASE /\ srcIsL2[o] # isL2 /\ kind' = [kind EXCEPT ![o] = k]
               /\ Continue(o, "lookup")
      <4>1. at'[o] = "lookup" /\ err'[o] = "running" /\ route'[o].kind = "unknown"
        BY <1>0, <2>0, <3>4, Going DEF FlowInv
      <4>2. QED
        BY <2>0, <3>0, <3>2, <3>4, <4>1 DEF KindInv, OPStack, HasCode
    <3>5. QED
      BY <2>2, <3>1, <3>3, <3>4 DEF Classify
  <2>3. CASE ReadFails(o) /\ Return(o, "read code", NoRoute) /\ UNCHANGED kind
    <3>1. at'[o] = "done" /\ err'[o] = "read code" /\ route'[o].kind = "unknown"
      BY <1>0, <2>3, Returning, Members
    <3>2. QED
      BY <2>0, <2>3, <3>1 DEF KindInv, OPStack, HasCode
  <2>4. QED
    BY <1>3, <2>1, <2>2, <2>3 DEF ProbeDst
<1>4. CASE Finish(o)
  <2>0. UNCHANGED <<serves, kind, srcIsL2, predeploy>>
    BY <1>4 DEF Finish
  <2>1. /\ RouteVia(o, kind[o], answer[o].addrs, "discovery") \in Routes
        /\ \A row \in Registry(Key(o)) : RouteVia(o, kind[o], row, "registry") \in Routes
    BY <1>0, RouteViaType, RegistryType DEF Origins, CallOK
  <2>2. \E e \in Errors, r \in Routes : /\ Return(o, e, r) /\ e # "ErrUnsupportedRoute"
                                        /\ r.kind \in {kind[o], "unknown"}
    BY <1>0, <1>4, <2>1, Members DEF Finish, RouteVia, FlowInv, CallOK
  <2>3. /\ at'[o] = "done" /\ err'[o] # "ErrUnsupportedRoute"
        /\ route'[o].kind \in {kind[o], "unknown"}
    BY <1>0, <2>2, Returning
  <2>4. QED
    BY <2>0, <2>3 DEF KindInv, OPStack, HasCode
<1>5. CASE /\ UNCHANGED resolveVars
           /\ Lookup(o) \/ ProbeL2(o) \/ Call(o) \/ Verify(o) \/ Store(o)
  BY <1>0, <1>5, DiscoveryStep DEF KindInv, OPStack, HasCode
<1>6. QED
  BY <1>1, <1>2, <1>3, <1>4, <1>5 DEF RouteStep

KindsInv == \A o \in Calls : KindInv(o)

LEMMA KindsStay == Spec => []KindsInv
<1>1. Init => KindsInv
  <2> SUFFICES ASSUME Init, NEW o \in Calls PROVE KindInv(o)
    BY DEF KindsInv
  <2>1. /\ at[o] = "start" /\ predeploy[o] = 1 /\ kind[o] = "unknown" /\ err[o] = "running"
        /\ route[o].kind = "unknown"
    BY DEF Init, NoRoute
  <2>2. QED
    BY <2>1 DEF KindInv
<1>2. Typing /\ KindsInv /\ [Next]_vars => KindsInv'
  <2> SUFFICES ASSUME Typing, KindsInv, [Next]_vars PROVE KindsInv'
    OBVIOUS
  <2>1. ASSUME NEW o \in Calls, RouteStep(o), NEW p \in Calls
        PROVE  KindInv(p)'
    <3>1. CASE p = o
      BY <2>1, <3>1, OwnStepKind DEF KindsInv
    <3>2. CASE p # o
      BY <2>1, <3>2, OthersStay DEF KindsInv, KindInv, ProbedSoFar, Typing, OPStack, HasCode
    <3>3. QED
      BY <3>1, <3>2
  <2>2. CASE UNCHANGED vars
    BY <2>2 DEF KindsInv, KindInv, ProbedSoFar, OPStack, HasCode, vars, discoveryVars
  <2>3. QED
    BY <2>1, <2>2 DEF Next, Finished, KindsInv
<1>3. QED
  BY <1>1, <1>2, AlwaysTyped, PTL DEF Spec

\* Whatever reads fail and whatever calls overlap, a route's kind is what the
\* chains behind its endpoints are (route.go, Resolve), and a pair is refused as
\* unsupported only if both ends are alike.
THEOREM KindStaysRight == Spec => []KindIsRight
<1>1. KindsInv => KindIsRight
  BY DEF KindsInv, KindInv, KindIsRight
<1>2. QED
  BY <1>1, KindsStay, PTL

-----------------------------------------------------------------------------
(* What the hops have found is a chain of contracts that name each other.  *)

LEMMA AppendIs ==
  ASSUME NEW S, NEW s \in Seq(S), NEW e \in S, NEW n \in 0 .. 2, Len(s) = n
  PROVE  /\ Len(Append(s, e)) = n + 1 /\ Append(s, e)[n + 1] = e
         /\ \A i \in 1 .. n : Append(s, e)[i] = s[i]
BY AppendProperties

\* The answer to a getter call is named by the contract that was asked.
LEMMA RepliesAreNamed ==
  ASSUME NEW o \in Calls, spelling[o] \in 1 .. 2, NEW b \in Replies(o)
  PROVE  Names(AskedOn(o), AskedAt(o), Hop(o), b)
BY DEF Replies, Names, Spellings

LEMMA AskedIsNamer ==
  ASSUME NEW o \in Calls
  PROVE  AskedOn(o) = NamerOn(o, Hop(o)) /\ AskedAt(o) = NamerAt(o, Hop(o))
BY DEF AskedOn, AskedAt, NamerOn, NamerAt

\* A verified answer makes the chain one contract longer.
LEMMA ChainGrows ==
  ASSUME Typing, NEW o \in Calls, at[o] = "verify", ChainInv(o), OnL1(o),
         found' = [found EXCEPT ![o] = Append(@, cand[o])],
         UNCHANGED <<kind, serves>>
  PROVE  \A i \in Hops : i <= Len(found'[o]) => IsNext(o, i, found[o][i])'
<1>0. /\ found[o] \in Seq(Address) /\ Len(found[o]) \in 0 .. 2 /\ spelling[o] \in 1 .. 2
      /\ cand[o] \in Code[L1of(o, serves[o])] /\ cand[o] \in Address
      /\ found'[o] = Append(found[o], cand[o])
  <2>1. /\ CallOK(o) /\ FlowInv(o) /\ L1of(o, serves[o]) \in Chains /\ DOMAIN found = Calls
    BY TypesOfCall DEF Typing, TypeOK
  <2>2. QED
    BY <2>1, WorldTypes DEF CallOK, FlowInv, OnL1, HasCode
<1>1. PICK n \in 0 .. 2 : n = Len(found[o])
  BY <1>0
<1>2. /\ Len(found'[o]) = n + 1 /\ found'[o][n + 1] = cand[o]
      /\ \A i \in 1 .. n : found'[o][i] = found[o][i]
  BY <1>0, <1>1, AppendIs
<1>3. Names(NamerOn(o, n + 1), NamerAt(o, n + 1), n + 1, cand[o])
  <2>1. cand[o] \in Replies(o) /\ Hop(o) = n + 1
    BY <1>1 DEF ChainInv, Hop
  <2>2. QED
    BY <1>0, <2>1, RepliesAreNamed, AskedIsNamer
<1>4. \A i \in 1 .. n : IsNext(o, i, found[o][i])
  <2>1. \A i \in 1 .. n : i \in Hops /\ i <= n
    BY DEF Hops
  <2>2. QED
    BY <1>1, <2>1 DEF ChainInv, Deriving
<1>5. \A i \in Hops : NamerOn(o, i)' = NamerOn(o, i) /\ L1of(o, serves[o])' = L1of(o, serves[o])
  BY DEF NamerOn, L1of, L2of
<1>6. \A i \in 1 .. n + 1 : NamerAt(o, i)' = NamerAt(o, i)
  <2>1. \A i \in 1 .. n + 1 : i # 1 => i - 1 \in 1 .. n
    OBVIOUS
  <2>2. QED
    BY <1>2, <2>1 DEF NamerAt
<1>7. \A i \in Hops : i <= n + 1 => i \in 1 .. n \/ i = n + 1
  BY DEF Hops
<1>8. ASSUME NEW i \in Hops, i <= n + 1
      PROVE  IsNext(o, i, found[o][i])'
  <2>1. i \in 1 .. n + 1
    BY <1>8 DEF Hops
  <2>2. CASE i \in 1 .. n
    BY <1>2, <1>4, <1>5, <1>6, <2>1, <2>2 DEF IsNext, Names
  <2>3. CASE i = n + 1
    BY <1>0, <1>2, <1>3, <1>5, <1>6, <2>1, <2>3 DEF IsNext, Names
  <2>4. QED
    BY <1>7, <1>8, <2>2, <2>3
<1>9. QED
  BY <1>2, <1>8

\* The links depend on what was found and on nothing else that may change.
LEMMA LinksStay ==
  ASSUME Typing, NEW o \in Calls, at[o] \in Deriving, ChainInv(o),
         found'[o] = found[o], kind'[o] = kind[o], serves'[o] = serves[o]
  PROVE  \A i \in Hops : i <= Len(found'[o]) => IsNext(o, i, found[o][i])'
BY DEF ChainInv, IsNext, Names, NamerOn, NamerAt, L1of, L2of

LEMMA OwnStepChain ==
  ASSUME Typing, NEW o \in Calls, ChainInv(o), RouteStep(o)
  PROVE  ChainInv(o)'
<1>0. TypeOK /\ FlowInv(o) /\ CallOK(o) /\ UNCHANGED serves
  BY TypesOfCall, StepIsLocal DEF Typing
<1>1. ASSUME at'[o] \notin Deriving
      PROVE  ChainInv(o)'
  BY <1>1 DEF ChainInv, Deriving
<1>2. CASE Start(o) \/ ProbeSrc(o) \/ ProbeDst(o) \/ Finish(o) \/ Lookup(o) \/ Store(o)
  <2>1. at'[o] \notin Deriving
    <3>1. at \in [Calls -> Stages]
      BY <1>0 DEF TypeOK
    <3> USE DEF Goto, Return, Continue, Answer, Deriving
    <3>2. CASE Start(o) \/ ProbeSrc(o)
      BY <3>1, <3>2 DEF Start, ProbeSrc
    <3>3. CASE ProbeDst(o)
      BY <3>1, <3>3 DEF ProbeDst, Classify
    <3>4. CASE Finish(o) \/ Lookup(o) \/ Store(o)
      BY <3>1, <3>4 DEF Finish, Lookup, Store
    <3>5. QED
      BY <1>2, <3>2, <3>3, <3>4
  <2>2. QED
    BY <1>1, <2>1
<1>3. CASE ProbeL2(o)
  <2>0. found' = found /\ found[o] = <<>>
    BY <1>0, <1>3 DEF ProbeL2, FlowInv
  <2>1. at'[o] # "verify"
    BY <1>0, <1>3 DEF ProbeL2, Goto, Answer, TypeOK
  <2>2. \A i \in Hops : ~(i <= Len(found'[o]))
    BY <2>0 DEF Hops
  <2>3. QED
    BY <2>1, <2>2 DEF ChainInv
<1>4. CASE Call(o)
  <2>0. UNCHANGED <<found, kind>> /\ at[o] \in Deriving
    BY <1>4 DEF Call, Deriving
  <2>1. \A i \in Hops : i <= Len(found'[o]) => IsNext(o, i, found[o][i])'
    BY <1>0, <2>0, LinksStay
  <2>2. CASE /\ \E a \in Replies(o) : cand' = [cand EXCEPT ![o] = a]
             /\ UNCHANGED spelling
    <3>1. cand'[o] \in Replies(o)
      BY <1>0, <2>2 DEF TypeOK
    <3>2. Replies(o)' = Replies(o)
      BY <1>0, <2>0, <2>2 DEF Replies, AskedOn, AskedAt, Hop, L1of, L2of
    <3>3. QED
      BY <2>1, <3>1, <3>2 DEF ChainInv
  <2>3. CASE NextSpelling(o)
    <3>1. at'[o] # "verify"
      BY <1>0, <2>3 DEF NextSpelling, Goto, Answer, TypeOK
    <3>2. QED
      BY <2>1, <3>1 DEF ChainInv
  <2>4. QED
    BY <1>4, <2>2, <2>3 DEF Call
<1>5. CASE Verify(o)
  <2>0. at[o] = "verify" /\ at[o] \in Deriving /\ UNCHANGED kind
    BY <1>5 DEF Verify, Deriving
  <2>1. at'[o] # "verify"
    BY <1>0, <1>5 DEF Verify, NextSpelling, Goto, Answer, TypeOK
  <2>2. CASE OnL1(o) /\ found' = [found EXCEPT ![o] = Append(@, cand[o])]
    BY <1>0, <2>0, <2>1, <2>2, ChainGrows DEF ChainInv
  <2>3. CASE UNCHANGED found
    BY <1>0, <2>0, <2>1, <2>3, LinksStay DEF ChainInv
  <2>4. QED
    BY <1>5, <2>2, <2>3 DEF Verify
<1>6. QED
  BY <1>2, <1>3, <1>4, <1>5 DEF RouteStep

ChainsInv == \A o \in Calls : ChainInv(o)

LEMMA ChainsStay == Spec => []ChainsInv
<1>1. Init => ChainsInv
  BY DEF Init, ChainsInv, ChainInv, Deriving
<1>2. Typing /\ ChainsInv /\ [Next]_vars => ChainsInv'
  <2> SUFFICES ASSUME Typing, ChainsInv, [Next]_vars PROVE ChainsInv'
    OBVIOUS
  <2>1. ASSUME NEW o \in Calls, RouteStep(o), NEW p \in Calls
        PROVE  ChainInv(p)'
    <3>1. CASE p = o
      BY <2>1, <3>1, OwnStepChain DEF ChainsInv
    <3>2. CASE p # o
      <4>1. /\ at'[p] = at[p] /\ found'[p] = found[p] /\ kind'[p] = kind[p]
            /\ serves'[p] = serves[p] /\ spelling'[p] = spelling[p] /\ cand'[p] = cand[p]
        BY <2>1, <3>2, OthersStay DEF Typing
      <4>2. ChainInv(p)
        BY DEF ChainsInv
      <4>3. Replies(p)' = Replies(p)
        BY <4>1 DEF Replies, AskedOn, AskedAt, Hop, L1of, L2of
      <4>4. at[p] \in Deriving =>
              \A i \in Hops : i <= Len(found'[p]) => IsNext(p, i, found[p][i])'
        BY <4>1, <4>2, LinksStay
      <4>5. QED
        BY <4>1, <4>2, <4>3, <4>4 DEF ChainInv
    <3>3. QED
      BY <3>1, <3>2
  <2>2. CASE UNCHANGED vars
    BY <2>2 DEF ChainsInv, vars, discoveryVars, ChainInv, IsNext, Names, NamerOn, NamerAt,
                L1of, L2of, Replies, AskedOn, AskedAt, Hop
  <2>3. QED
    BY <2>1, <2>2 DEF Next, Finished, ChainsInv
<1>3. QED
  BY <1>1, <1>2, AlwaysTyped, PTL DEF Spec

-----------------------------------------------------------------------------
(* What the cache holds, and what a route is made of, was derived by a     *)
(* call that had classified the pair.                                      *)

\* A classification is never taken back, so neither is what was learnt by it.
LEMMA LearntStays ==
  ASSUME Typing, NEW o \in Calls, RouteStep(o), NEW k, NEW addrs, LearntFor(k, addrs)
  PROVE  LearntFor(k, addrs)'
<1>1. PICK p \in Calls : /\ Classified(p) /\ Key(p) = k
                         /\ Paired(Behind(p).l1, Behind(p).l2, addrs)
  BY DEF LearntFor
<1>2. kind'[p] = kind[p] /\ UNCHANGED <<request, serves>>
  <2>1. at[p] = "probeDst" => ~Classified(p)
    BY DEF Typing, FlowInv, Unclassified, Classified
  <2>2. QED
    BY <1>1, <2>1, StepIsLocal, OthersStay DEF Typing
<1>3. Key(p)' = Key(p) /\ Behind(p)' = Behind(p) /\ (Classified(p) => Classified(p)')
  BY <1>2 DEF Key, Behind, L1of, L2of, Classified
<1>4. Paired(Behind(p).l1, Behind(p).l2, addrs)'
  BY <1>1, <1>3 DEF Paired, OPStack, HasCode, Names
<1>5. QED
  BY <1>1, <1>3, <1>4 DEF LearntFor, Candidates

\* What is stored is the contracts of the pair the call has derived them for.
LEMMA DerivedIsPaired ==
  ASSUME Typing, NEW o \in Calls, KindInv(o), ChainInv(o), at[o] = "store"
  PROVE  Classified(o) /\ Derived(o) \in Candidates /\ Paired(Behind(o).l1, Behind(o).l2, Derived(o))
<1>1. /\ Classified(o) /\ Len(found[o]) = 3
      /\ found[o] \in Seq(Address)
  BY DEF Typing, FlowInv, Discovering, TypeOK
<1>2. /\ found[o][1] \in Address /\ found[o][2] \in Address /\ found[o][3] \in Address
  BY <1>1, ElementType
<1>3. \A i \in Hops : IsNext(o, i, found[o][i])
  BY <1>1 DEF ChainInv, Deriving, Hops
<1>4. Behind(o).l1 = L1of(o, serves[o]) /\ Behind(o).l2 = L2of(o, serves[o])
  BY DEF Behind
<1>5. /\ Names(Behind(o).l2, L2StandardBridge, 1, found[o][1])
      /\ Names(Behind(o).l1, found[o][1], 2, found[o][2])
      /\ Names(Behind(o).l1, found[o][2], 3, found[o][3])
      /\ {found[o][1], found[o][2], found[o][3]} \subseteq Code[Behind(o).l1]
  BY <1>3, <1>4 DEF IsNext, NamerOn, NamerAt, Hops
<1>6. OPStack(Behind(o).l2)
  BY <1>1, <1>4 DEF KindInv, Classified, L2of
<1>7. /\ Derived(o).l1Bridge = found[o][1] /\ Derived(o).l2Bridge = L2StandardBridge
      /\ Derived(o).portal = found[o][3] /\ Derived(o) \in Candidates
  BY <1>2 DEF Derived, Candidates
<1>8. Paired(Behind(o).l1, Behind(o).l2, Derived(o))
  BY <1>2, <1>5, <1>6, <1>7 DEF Paired
<1>9. QED
  BY <1>1, <1>7, <1>8

LEMMA DerivedIsLearnt ==
  ASSUME Typing, NEW o \in Calls, KindInv(o), ChainInv(o), at[o] = "store"
  PROVE  LearntFor(Key(o), Derived(o))
BY DerivedIsPaired DEF LearntFor

LEMMA CacheStays ==
  ASSUME Typing, NEW o \in Calls, RouteStep(o), KindInv(o), ChainInv(o), CacheInv
  PROVE  CacheInv'
<1>1. ASSUME NEW k \in Keys, NEW addrs \in cache'[k]
      PROVE  addrs \in cache[k] \/ LearntFor(k, addrs)
  <2>1. CASE cache' = cache
    BY <1>1, <2>1
  <2>2. CASE Store(o)
    <3>1. LearntFor(Key(o), Derived(o))
      BY <2>2, DerivedIsLearnt DEF Store
    <3>2. k # Key(o) => cache'[k] = cache[k]
      BY <1>1, <2>2 DEF Store, Typing, TypeOK
    <3>3. k = Key(o) => cache'[k] = {Derived(o)}
      BY <1>1, <2>2 DEF Store, Typing, TypeOK
    <3>4. QED
      BY <1>1, <3>1, <3>2, <3>3
  <2>3. QED
    BY <2>1, <2>2, StepIsLocal DEF Typing
<1>2. ASSUME NEW k \in Keys, NEW addrs \in cache'[k]
      PROVE  LearntFor(k, addrs)'
  BY <1>1, <1>2, LearntStays DEF CacheInv
<1>3. QED
  BY <1>2 DEF CacheInv

\* No answer of a step before the store is a success but a hit in the cache.
LEMMA OwnStepAnswer ==
  ASSUME Typing, NEW o \in Calls, KindInv(o), ChainInv(o), SourceInv(o), CacheInv, RouteStep(o)
  PROVE  at'[o] = "answered" /\ answer'[o].err = "nil" =>
           kind'[o] = kind[o] /\ LearntFor(Key(o), answer'[o].addrs)
<1>0. /\ TypeOK /\ FlowInv(o) /\ CallOK(o) /\ Key(o) \in Keys /\ cache[Key(o)] \subseteq Addresses
      /\ NoAddresses \in Addresses
  BY TypesOfCall, WorldTypes DEF Typing
<1>1. CASE Start(o) \/ ProbeSrc(o) \/ ProbeDst(o) \/ Finish(o)
  <2>1. at'[o] # "answered"
    <3> USE DEF Goto, Return, Continue
    <3>1. CASE Start(o) \/ ProbeSrc(o)
      BY <1>0, <3>1 DEF Start, ProbeSrc, TypeOK
    <3>2. CASE ProbeDst(o)
      BY <1>0, <3>2 DEF ProbeDst, Classify, TypeOK
    <3>3. CASE Finish(o)
      BY <1>0, <3>3 DEF Finish, TypeOK
    <3>4. QED
      BY <1>1, <3>1, <3>2, <3>3
  <2>2. QED
    BY <2>1
<1>k. Lookup(o) \/ ProbeL2(o) \/ Call(o) \/ Verify(o) \/ Store(o) => kind' = kind
  BY DEF Lookup, ProbeL2, Call, Verify, Store
<1>2. CASE Lookup(o)
  <2>1. CASE \E hit \in cache[Key(o)] : Answer(o, "nil", hit)
    <3>1. PICK hit \in cache[Key(o)] : Answer(o, "nil", hit)
      BY <2>1
    <3>2. answer'[o].addrs = hit
      BY <1>0, <3>1, Answered, Members
    <3>3. QED
      BY <1>0, <1>2, <1>k, <3>2 DEF CacheInv
  <2>2. CASE Goto(o, "probeL2")
    BY <1>0, <2>2, Going
  <2>3. QED
    BY <1>2, <2>1, <2>2 DEF Lookup
<1>3. ASSUME NEW e \in Errors \ {"nil"}, Answer(o, e, NoAddresses)
      PROVE  answer'[o].err # "nil"
  BY <1>0, <1>3, Answered
<1>4. ASSUME NextSpelling(o)
      PROVE  at'[o] = "call" \/ answer'[o].err # "nil"
  BY <1>0, <1>3, <1>4, Going, Members DEF NextSpelling
<1>5. CASE ProbeL2(o)
  BY <1>0, <1>3, <1>5, Going, Members DEF ProbeL2
<1>6. CASE Call(o)
  BY <1>0, <1>4, <1>6, Going DEF Call
<1>7. CASE Verify(o)
  <2>1. CASE Goto(o, IF Hop(o) = Len(Sigs) THEN "store" ELSE "call")
    BY <1>0, <2>1, Going
  <2>2. CASE NextSpelling(o) \/ Answer(o, "ErrNotPaired", NoAddresses)
    BY <1>3, <1>4, <2>2, Members
  <2>3. QED
    BY <1>7, <2>1, <2>2 DEF Verify
<1>8. CASE Store(o)
  <2>1. LearntFor(Key(o), Derived(o)) /\ Answer(o, "nil", Derived(o))
    BY <1>8, DerivedIsLearnt DEF Store
  <2>2. Derived(o) \in Addresses
    BY <2>1, WorldTypes DEF LearntFor
  <2>3. answer'[o].addrs = Derived(o)
    BY <1>0, <2>1, <2>2, Answered, Members
  <2>4. QED
    BY <1>8, <1>k, <2>1, <2>3
<1>9. QED
  BY <1>1, <1>2, <1>5, <1>6, <1>7, <1>8 DEF RouteStep

\* A call that returns a bridge route returns it from one of the three sources.
LEMMA OwnStepRoute ==
  ASSUME Typing, NEW o \in Calls, SourceInv(o), RouteStep(o), Resolved(o)'
  PROVE  /\ kind'[o] = route'[o].kind
         /\ \E origin \in {"override", "discovery", "registry"}, base \in Addresses :
              /\ route'[o] = RouteVia(o, kind'[o], base, origin)
              /\ origin = "override" => base = request[o].over /\ Complete(base)
              /\ origin # "override" => kind'[o] = kind[o]
              /\ origin = "discovery" => LearntFor(Key(o), base)
              /\ origin = "registry" => base \in Registry(Key(o))
<1>0. /\ TypeOK /\ FlowInv(o) /\ CallOK(o) /\ NoRoute \in Routes /\ NoRoute.kind = "unknown"
      /\ request[o].over \in Addresses
  BY TypesOfCall, WorldTypes DEF Typing, NoRoute
<1>n. TypeOK /\ "nil" \in Errors
  BY <1>0, Members
<1>1. err'[o] = "nil" /\ route'[o].kind \in {"deposit", "withdraw"}
  BY DEF Resolved
<1>2. ASSUME NEW stage, Continue(o, stage), at[o] # "done"
      PROVE  FALSE
  BY <1>0, <1>1, <1>2, Going DEF FlowInv
<1>3. ASSUME NEW e \in Errors, Return(o, e, NoRoute)
      PROVE  FALSE
  BY <1>0, <1>1, <1>3, Returning
<1>4. ASSUME UNCHANGED <<err, route>>, at[o] # "done"
      PROVE  FALSE
  BY <1>0, <1>1, <1>4 DEF FlowInv
<1>5. CASE Start(o)
  <2>1. [NoRoute EXCEPT !.kind = "same-chain"] \in Routes
    BY <1>0, Members DEF NoRoute, Routes
  <2>2. Return(o, "nil", [NoRoute EXCEPT !.kind = "same-chain"])
    BY <1>2, <1>5 DEF Start
  <2>3. route'[o] = [NoRoute EXCEPT !.kind = "same-chain"]
    BY <1>n, <2>1, <2>2, Returning
  <2>4. route'[o].kind = "same-chain"
    BY <2>3 DEF NoRoute
  <2>5. QED
    BY <1>1, <2>4
<1>6. CASE ProbeSrc(o)
  BY <1>2, <1>3, <1>4, <1>6, Members DEF ProbeSrc
<1>7. CASE ProbeDst(o)
  <2>1. PICK isL2 \in BOOLEAN : Classify(o, isL2)
    BY <1>3, <1>4, <1>7, Members DEF ProbeDst
  <2> DEFINE k == IF isL2 THEN "deposit" ELSE "withdraw"
  <2>2. /\ kind' = [kind EXCEPT ![o] = k] /\ Complete(request[o].over)
        /\ Return(o, "nil", RouteVia(o, k, request[o].over, "override"))
    BY <1>2, <1>3, <1>7, <2>1, Members DEF Classify, ProbeDst
  <2>3. k \in Kinds /\ kind'[o] = k
    BY <1>0, <2>2, Members DEF TypeOK
  <2>4. RouteVia(o, k, request[o].over, "override") \in Routes
    BY <1>0, <2>3, RouteViaType DEF Origins
  <2>5. route'[o] = RouteVia(o, k, request[o].over, "override")
    BY <1>0, <2>2, <2>4, Returning, Members
  <2>6. route'[o].kind = k
    BY <2>5 DEF RouteVia
  <2>7. QED
    BY <1>0, <2>2, <2>3, <2>5, <2>6
<1>8. CASE Finish(o)
  <2>0. kind'[o] = kind[o] /\ at[o] = "answered" /\ answer[o].addrs \in Addresses
    BY <1>0, <1>8 DEF Finish, CallOK
  <2>1. CASE /\ answer[o].err = "nil"
             /\ Return(o, "nil", RouteVia(o, kind[o], answer[o].addrs, "discovery"))
    <3>1. RouteVia(o, kind[o], answer[o].addrs, "discovery") \in Routes
      BY <1>0, <2>0, RouteViaType DEF Origins, CallOK
    <3>2. route'[o] = RouteVia(o, kind[o], answer[o].addrs, "discovery")
      BY <1>n, <2>1, <3>1, Returning
    <3>3. route'[o].kind = kind[o]
      BY <3>2 DEF RouteVia
    <3>4. QED
      BY <2>0, <2>1, <3>2, <3>3 DEF SourceInv
  <2>2. ASSUME NEW row \in Registry(Key(o)),
               Return(o, "nil", RouteVia(o, kind[o], row, "registry"))
        PROVE  /\ row \in Addresses /\ route'[o].kind = kind[o]
               /\ route'[o] = RouteVia(o, kind[o], row, "registry")
    <3>1. row \in Addresses /\ RouteVia(o, kind[o], row, "registry") \in Routes
      BY <1>0, <2>2, RegistryType, RouteViaType DEF Origins, CallOK
    <3>2. route'[o] = RouteVia(o, kind[o], row, "registry")
      BY <1>0, <2>2, <3>1, Returning, Members
    <3>3. QED
      BY <3>1, <3>2 DEF RouteVia
  <2>3. CASE Return(o, answer[o].err, NoRoute)
    BY <1>0, <1>3, <2>3 DEF CallOK
  <2>4. QED
    BY <1>8, <2>0, <2>1, <2>2, <2>3 DEF Finish
<1>9. CASE /\ UNCHANGED resolveVars
           /\ Lookup(o) \/ ProbeL2(o) \/ Call(o) \/ Verify(o) \/ Store(o)
  BY <1>4, <1>9 DEF resolveVars, Lookup, ProbeL2, Call, Verify, Store
<1>10. QED
  BY <1>5, <1>6, <1>7, <1>8, <1>9 DEF RouteStep

SourcesInv == CacheInv /\ \A o \in Calls : SourceInv(o)

LEMMA OwnStepSource ==
  ASSUME Typing, NEW o \in Calls, KindInv(o), ChainInv(o), SourceInv(o), CacheInv, RouteStep(o)
  PROVE  SourceInv(o)'
<1>1. UNCHANGED <<request, serves>>
  BY StepIsLocal DEF Typing
<1>2. kind'[o] = kind[o] => Key(o)' = Key(o)
  BY <1>1 DEF Key, L1of, L2of
<1>3. ASSUME at'[o] = "answered", answer'[o].err = "nil"
      PROVE  LearntFor(Key(o), answer[o].addrs)'
  <2>1. kind'[o] = kind[o] /\ LearntFor(Key(o), answer'[o].addrs)
    BY <1>3, OwnStepAnswer
  <2>2. ASSUME NEW k, NEW addrs, k = Key(o), addrs = answer'[o].addrs
        PROVE  LearntFor(k, addrs)'
    BY <2>1, <2>2, LearntStays
  <2>3. QED
    BY <1>2, <2>1, <2>2
<1>4. ASSUME Resolved(o)'
      PROVE  RouteFrom(o)'
  <2>1. PICK origin \in {"override", "discovery", "registry"}, base \in Addresses :
          /\ route'[o] = RouteVia(o, kind'[o], base, origin)
          /\ origin = "override" => base = request[o].over /\ Complete(base)
          /\ origin # "override" => kind'[o] = kind[o]
          /\ origin = "discovery" => LearntFor(Key(o), base)
          /\ origin = "registry" => base \in Registry(Key(o))
    BY <1>4, OwnStepRoute
  <2>2. RouteVia(o, kind[o], base, origin)' = RouteVia(o, kind'[o], base, origin)
    BY <1>1 DEF RouteVia, Overlay, OverlaySources
  <2>3. origin = "discovery" => LearntFor(Key(o), base)'
    BY <1>2, <2>1, LearntStays
  <2>4. origin = "registry" => (base \in Registry(Key(o)))'
    BY <1>2, <2>1 DEF Registry, Rows, Index
  <2>5. QED
    BY <1>1, <2>1, <2>2, <2>3, <2>4 DEF RouteFrom, Complete
<1>5. QED
  BY <1>3, <1>4 DEF SourceInv

LEMMA OthersKeepSource ==
  ASSUME Typing, NEW o \in Calls, RouteStep(o), NEW p \in Calls, p # o, SourceInv(p)
  PROVE  SourceInv(p)'
<1>1. /\ at'[p] = at[p] /\ answer'[p] = answer[p] /\ kind'[p] = kind[p] /\ err'[p] = err[p]
      /\ route'[p] = route[p] /\ UNCHANGED <<request, serves>>
  BY OthersStay, StepIsLocal DEF Typing
<1>2. Key(p)' = Key(p)
  BY <1>1 DEF Key, L1of, L2of
<1>3. ASSUME at'[p] = "answered", answer'[p].err = "nil"
      PROVE  LearntFor(Key(p), answer[p].addrs)'
  <2>1. LearntFor(Key(p), answer[p].addrs)
    BY <1>1, <1>3 DEF SourceInv
  <2>2. ASSUME NEW k, NEW addrs, k = Key(p), addrs = answer[p].addrs
        PROVE  LearntFor(k, addrs)'
    BY <2>1, <2>2, LearntStays
  <2>3. QED
    BY <1>1, <1>2, <2>2
<1>4. ASSUME Resolved(p)'
      PROVE  RouteFrom(p)'
  <2>1. PICK origin \in {"override", "discovery", "registry"}, base \in Addresses :
          /\ route[p] = RouteVia(p, kind[p], base, origin)
          /\ origin = "override" => base = request[p].over /\ Complete(base)
          /\ origin = "discovery" => LearntFor(Key(p), base)
          /\ origin = "registry" => base \in Registry(Key(p))
    BY <1>1, <1>4 DEF SourceInv, Resolved, RouteFrom
  <2>2. RouteVia(p, kind[p], base, origin)' = RouteVia(p, kind[p], base, origin)
    BY <1>1 DEF RouteVia, Overlay, OverlaySources
  <2>3. origin = "discovery" => LearntFor(Key(p), base)'
    BY <1>2, <2>1, LearntStays
  <2>4. origin = "registry" => (base \in Registry(Key(p)))'
    BY <1>2, <2>1 DEF Registry, Rows, Index
  <2>5. QED
    BY <1>1, <2>1, <2>2, <2>3, <2>4 DEF RouteFrom, Complete
<1>5. QED
  BY <1>3, <1>4 DEF SourceInv

LEMMA SourcesStay == Spec => []SourcesInv
<1>1. Init => SourcesInv
  <2> SUFFICES ASSUME Init PROVE SourcesInv
    OBVIOUS
  <2>1. CacheInv
    BY DEF Init, CacheInv
  <2>2. ASSUME NEW o \in Calls
        PROVE  SourceInv(o)
    BY DEF Init, SourceInv, Resolved
  <2>3. QED
    BY <2>1, <2>2 DEF SourcesInv
<1>2. Typing /\ KindsInv /\ ChainsInv /\ SourcesInv /\ [Next]_vars => SourcesInv'
  <2> SUFFICES ASSUME Typing, KindsInv, ChainsInv, SourcesInv, [Next]_vars PROVE SourcesInv'
    OBVIOUS
  <2>1. ASSUME NEW o \in Calls, RouteStep(o)
        PROVE  SourcesInv'
    <3>0. KindInv(o) /\ ChainInv(o) /\ CacheInv /\ \A p \in Calls : SourceInv(p)
      BY DEF KindsInv, ChainsInv, SourcesInv
    <3>1. CacheInv'
      BY <2>1, <3>0, CacheStays
    <3>2. ASSUME NEW p \in Calls
          PROVE  SourceInv(p)'
      BY <2>1, <3>0, OwnStepSource, OthersKeepSource
    <3>3. QED
      BY <3>1, <3>2 DEF SourcesInv
  <2>2. CASE UNCHANGED vars
    <3>1. UNCHANGED <<request, serves, at, answer, kind, cache, err, route>>
      BY <2>2 DEF vars, discoveryVars
    <3>2. \A k, addrs : LearntFor(k, addrs)' <=> LearntFor(k, addrs)
      BY <3>1 DEF LearntFor, Classified, Key, Behind, L1of, L2of, Paired, OPStack, HasCode,
                  Names, Candidates
    <3>3. CacheInv'
      BY <3>1, <3>2 DEF SourcesInv, CacheInv
    <3>4. ASSUME NEW o \in Calls
          PROVE  SourceInv(o)'
      <4>1. Key(o)' = Key(o) /\ (Resolved(o)' <=> Resolved(o))
        BY <3>1 DEF Key, L1of, L2of, Resolved
      <4>2. \A k, addrs, origin : RouteVia(o, k, addrs, origin)' = RouteVia(o, k, addrs, origin)
        BY <3>1 DEF RouteVia, Overlay, OverlaySources
      <4>3. RouteFrom(o)' <=> RouteFrom(o)
        BY <3>1, <3>2, <4>1, <4>2 DEF RouteFrom, Complete, Registry, Rows, Index
      <4>4. QED
        BY <3>1, <3>2, <4>1, <4>3 DEF SourcesInv, SourceInv
    <3>5. QED
      BY <3>3, <3>4 DEF SourcesInv
  <2>3. QED
    BY <2>1, <2>2 DEF Next, Finished
<1>3. QED
  BY <1>1, <1>2, AlwaysTyped, KindsStay, ChainsStay, PTL DEF Spec

\* A pair that some call for k has derived contracts of is one that answers to k.
LEMMA LearntIsAnswering ==
  ASSUME NEW o \in Calls, NEW addrs, LearntFor(Key(o), addrs)
  PROVE  /\ addrs \in Candidates
         /\ \E k \in Answering(o) : Paired(k.l1, k.l2, addrs)
BY DEF LearntFor, Answering, Asked, Key

\* What a call may take from the cache of DiscoverCached are the contracts of one
\* pair that answers to the chain IDs it was asked about, for any number of
\* overlapping calls and any endpoints.
THEOREM CacheStaysPaired == Spec => []CacheIsPaired
<1>1. Typing /\ SourcesInv => CacheIsPaired
  <2> SUFFICES ASSUME Typing, SourcesInv, NEW o \in Calls, NEW addrs \in cache[Key(o)]
               PROVE  \E k \in Answering(o) : Paired(k.l1, k.l2, addrs)
    BY DEF CacheIsPaired
  <2>1. Key(o) \in Keys
    BY TypesOfCall DEF Typing
  <2>2. QED
    BY <2>1, LearntIsAnswering DEF SourcesInv, CacheInv
<1>2. QED
  BY <1>1, AlwaysTyped, SourcesStay, PTL

\* The labels of a route made from one base are true if the base is what its
\* origin says.
LEMMA LabelsOfRoute ==
  ASSUME Typing, NEW o \in Calls, Resolved(o), RouteFrom(o), NEW f \in DOMAIN NoAddresses
  PROVE  LET addr == route[o].addrs[f]
             label == route[o].sources[f]
         IN  /\ label = "override" <=> request[o].over[f] # NoAddress
             /\ label = "override" => addr = request[o].over[f]
             /\ label = "registry" =>
                  \E r \in Index :
                    /\ r.l1 = Asked(o).l1 /\ r.id = Asked(o).l2
                    /\ addr = CASE f = "l1Bridge" -> r.l1Bridge
                                [] f = "portal" -> r.portal
                                [] OTHER -> L2StandardBridge
             /\ label = "discovery" =>
                  \E k \in Answering(o), addrs \in Candidates :
                    Paired(k.l1, k.l2, addrs) /\ addr = addrs[f]
<1>1. PICK origin \in {"override", "discovery", "registry"}, base \in Addresses :
        /\ route[o] = RouteVia(o, kind[o], base, origin)
        /\ origin = "override" => base = request[o].over /\ Complete(base)
        /\ origin = "discovery" => LearntFor(Key(o), base)
        /\ origin = "registry" => base \in Registry(Key(o))
  BY DEF RouteFrom
<1> DEFINE own == request[o].over[f] # NoAddress
<1>2. f \in {"l1Bridge", "l2Bridge", "portal"} /\ DOMAIN base = {"l1Bridge", "l2Bridge", "portal"}
  BY WorldTypes DEF Addresses
<1>3. route[o].addrs[f] = IF own THEN request[o].over[f] ELSE base[f]
  BY <1>1, <1>2 DEF RouteVia, Overlay
<1>4. route[o].sources[f] = IF own THEN "override" ELSE origin
  BY <1>1, <1>2 DEF RouteVia, OverlaySources
<1>5. Asked(o) = Key(o)
  BY DEF Asked, Key
<1>6. CASE own
  BY <1>3, <1>4, <1>6
<1>7. CASE ~own /\ origin = "override"
  BY <1>1, <1>2, <1>7 DEF Complete
<1>8. CASE ~own /\ origin = "registry"
  <2>1. PICK r \in Index : /\ r.id = Asked(o).l2 /\ r.l1 = Asked(o).l1
                           /\ base.l1Bridge = r.l1Bridge /\ base.portal = r.portal
                           /\ base.l2Bridge = L2StandardBridge
    BY <1>1, <1>5, <1>8, RegistryType
  <2>2. base[f] = CASE f = "l1Bridge" -> r.l1Bridge
                    [] f = "portal" -> r.portal
                    [] OTHER -> L2StandardBridge
    BY <1>2, <2>1
  <2>3. QED
    BY <1>3, <1>4, <1>8, <2>1, <2>2
<1>9. CASE ~own /\ origin = "discovery"
  <2>1. base \in Candidates /\ \E k \in Answering(o) : Paired(k.l1, k.l2, base)
    BY <1>1, <1>9, LearntIsAnswering
  <2>2. QED
    BY <1>3, <1>4, <1>9, <2>1
<1>10. QED
  BY <1>6, <1>7, <1>8, <1>9

\* Each address of a route carries the label of where it is from, whatever mix of
\* overrides, discovery and snapshot it was put together from (resolveAddresses).
THEOREM LabelsStayTrue == Spec => []LabelsAreTrue
<1>1. Typing /\ SourcesInv => LabelsAreTrue
  BY LabelsOfRoute DEF SourcesInv, SourceInv, LabelsAreTrue
<1>2. QED
  BY <1>1, AlwaysTyped, SourcesStay, PTL

\* Without a row in the snapshot and without a complete override, a pair that no
\* endpoint serves is refused.
THEOREM UnpairedStaysRefused == Spec => []UnpairedIsRefused
<1>1. Typing /\ SourcesInv => UnpairedIsRefused
  <2> SUFFICES ASSUME Typing, SourcesInv, NEW o \in Calls, Resolved(o),
                      Registry(Key(o)) = {}, ~Complete(request[o].over)
               PROVE  \E k \in Answering(o) : ArePaired(k.l1, k.l2)
    BY DEF UnpairedIsRefused
  <2>1. \E base : LearntFor(Key(o), base)
    BY DEF SourcesInv, SourceInv, RouteFrom
  <2>2. QED
    BY <2>1, LearntIsAnswering DEF ArePaired
<1>2. QED
  BY <1>1, AlwaysTyped, SourcesStay, PTL

-----------------------------------------------------------------------------
(* A field has one value (FieldAssumption), so a rollup has one pair of    *)
(* contracts on an L1, whichever spellings lead to it.                     *)

LEMMA NamedIsUnique ==
  ASSUME NEW l1 \in Chains, NEW c, NEW a, NEW hop \in Hops, NEW b, NEW d,
         Names(c, a, hop, b), Names(c, a, hop, d), {b, d} \subseteq Code[l1]
  PROVE  b = d
<1>1. PICK g \in Getters : g.on = c /\ g.at = a /\ g.is = b /\ \E i \in Spellings : g.sig = Sigs[hop][i]
  BY DEF Names
<1>2. PICK h \in Getters : h.on = c /\ h.at = a /\ h.is = d /\ \E i \in Spellings : h.sig = Sigs[hop][i]
  BY DEF Names
<1>3. SameField(g.sig, h.sig)
  BY <1>1, <1>2 DEF SameField
<1>4. QED
  BY <1>1, <1>2, <1>3, FieldAssumption

LEMMA PairIsUnique ==
  ASSUME NEW l1 \in Chains, NEW l2, NEW a \in Candidates, NEW b \in Candidates,
         Paired(l1, l2, a), Paired(l1, l2, b)
  PROVE  a = b
<1>1. PICK m \in Address : /\ Names(l1, a.l1Bridge, 2, m) /\ Names(l1, m, 3, a.portal)
                           /\ {a.l1Bridge, m, a.portal} \subseteq Code[l1]
  BY DEF Paired
<1>2. PICK n \in Address : /\ Names(l1, b.l1Bridge, 2, n) /\ Names(l1, n, 3, b.portal)
                           /\ {b.l1Bridge, n, b.portal} \subseteq Code[l1]
  BY DEF Paired
<1>3. a.l1Bridge = b.l1Bridge
  <2>1. Names(l2, L2StandardBridge, 1, a.l1Bridge) /\ Names(l2, L2StandardBridge, 1, b.l1Bridge)
    BY DEF Paired
  <2>2. {a.l1Bridge, b.l1Bridge} \subseteq Code[l1] /\ 1 \in Hops
    BY <1>1, <1>2 DEF Hops
  <2>3. QED
    BY <2>1, <2>2, NamedIsUnique
<1>4. m = n
  BY <1>1, <1>2, <1>3, NamedIsUnique DEF Hops
<1>5. a.portal = b.portal
  BY <1>1, <1>2, <1>4, NamedIsUnique DEF Hops
<1>6. QED
  BY <1>3, <1>5 DEF Candidates

\* An answer remembered by DiscoverCached is never replaced by another one, even
\* by a call that missed it and derives it again, unless endpoints of different
\* pairs answer to the same chain IDs.
THEOREM AnswerStays == Spec => AnswerNeverChanges
<1>1. Typing /\ KindsInv /\ ChainsInv /\ SourcesInv /\ [Next]_vars =>
        [\A o \in Calls :
           cache[Key(o)] # {} /\ (\A k, l \in Answering(o) : k = l)
             => cache'[Key(o)] = cache[Key(o)]]_vars
  <2> SUFFICES ASSUME Typing, KindsInv, ChainsInv, SourcesInv, Next, NEW o \in Calls,
                      cache[Key(o)] # {}, \A k, l \in Answering(o) : k = l
               PROVE  cache'[Key(o)] = cache[Key(o)]
    BY DEF vars
  <2>1. ASSUME NEW p \in Calls, Store(p)
        PROVE  cache'[Key(o)] = cache[Key(o)]
    <3>1. KindInv(p) /\ ChainInv(p) /\ TypeOK
      BY DEF KindsInv, ChainsInv, Typing
    <3>2. Key(p) \in Keys /\ Key(o) \in Keys
      BY <3>1, TypesOfCall
    <3>3. CASE Key(p) # Key(o)
      BY <2>1, <3>1, <3>2, <3>3 DEF Store, TypeOK
    <3>4. CASE Key(p) = Key(o)
      <4>1. cache'[Key(o)] = {Derived(p)}
        BY <2>1, <3>1, <3>2, <3>4 DEF Store, TypeOK
      <4>2. LearntFor(Key(o), Derived(p))
        BY <2>1, <3>1, <3>4, DerivedIsLearnt DEF Store
      <4>3. ASSUME NEW addrs \in cache[Key(o)]
            PROVE  addrs = Derived(p)
        <5>1. LearntFor(Key(o), addrs)
          BY <3>2 DEF SourcesInv, CacheInv
        <5>2. PICK k \in Answering(o) : Paired(k.l1, k.l2, addrs) /\ Paired(k.l1, k.l2, Derived(p))
          BY <4>2, <5>1, LearntIsAnswering
        <5>3. k.l1 \in Chains
          BY <3>1, TypesOfCall DEF Answering, Behind
        <5>4. QED
          BY <4>2, <5>1, <5>2, <5>3, PairIsUnique, LearntIsAnswering
      <4>4. QED
        BY <4>1, <4>3
    <3>5. QED
      BY <3>3, <3>4
  <2>2. ASSUME cache' = cache
        PROVE  cache'[Key(o)] = cache[Key(o)]
    BY <2>2
  <2>3. QED
    BY <2>1, <2>2, StepIsLocal DEF Next, Finished, Typing, vars, discoveryVars
<1>2. QED
  BY <1>1, AlwaysTyped, KindsStay, ChainsStay, SourcesStay, PTL DEF Spec, AnswerNeverChanges

-----------------------------------------------------------------------------
(* A call that gives up has shown that there is nothing to find.           *)

LEMMA CallExhausts ==
  ASSUME NEW o \in Calls, Replies(o) = {}
  PROVE  Exhausted(o, spelling[o])
BY DEF Exhausted, Replies

LEMMA VerifyExhausts ==
  ASSUME NEW o \in Calls, cand[o] \in Replies(o), ~OnL1(o)
  PROVE  Exhausted(o, spelling[o])
<1>1. PICK h \in Getters : /\ h.on = AskedOn(o) /\ h.at = AskedAt(o) /\ h.is = cand[o]
                           /\ h.sig = Sigs[Hop(o)][spelling[o]]
  BY DEF Replies
<1>2. ASSUME NEW g \in Getters, g.on = AskedOn(o), g.at = AskedAt(o),
             g.sig = Sigs[Hop(o)][spelling[o]]
      PROVE  g.is \notin Code[L1of(o, serves[o])]
  <2>1. g.is = h.is
    BY <1>1, <1>2, FieldAssumption
  <2>2. QED
    BY <1>1, <2>1 DEF OnL1, HasCode
<1>3. QED
  BY <1>2 DEF Exhausted

\* A hop both of whose spellings are exhausted has no next contract.
LEMMA NoneIsNext ==
  ASSUME NEW o \in Calls, \A i \in Spellings : Exhausted(o, i), NEW b
  PROVE  ~IsNext(o, Hop(o), b)
<1> SUFFICES ASSUME IsNext(o, Hop(o), b) PROVE FALSE
  OBVIOUS
<1>1. Names(AskedOn(o), AskedAt(o), Hop(o), b) /\ b \in Code[L1of(o, serves[o])]
  BY AskedIsNamer DEF IsNext
<1>2. QED
  BY <1>1 DEF Names, Exhausted

\* A pair of contracts would be the one found so far and have a next contract.
LEMMA NoneIsLeft ==
  ASSUME Typing, NEW o \in Calls, at[o] \in {"call", "verify"}, ChainInv(o),
         \A i \in Spellings : Exhausted(o, i)
  PROVE  ~ArePaired(Behind(o).l1, Behind(o).l2)
<1> SUFFICES ASSUME NEW addrs \in Candidates, Paired(Behind(o).l1, Behind(o).l2, addrs)
             PROVE  FALSE
  BY DEF ArePaired
<1> DEFINE l1 == L1of(o, serves[o])
           l2 == L2of(o, serves[o])
<1>1. Behind(o).l1 = l1 /\ Behind(o).l2 = l2 /\ l1 \in Chains
  BY TypesOfCall DEF Behind, Typing
<1>2. PICK m \in Address : /\ Names(l1, addrs.l1Bridge, 2, m) /\ Names(l1, m, 3, addrs.portal)
                           /\ {addrs.l1Bridge, m, addrs.portal} \subseteq Code[l1]
  BY <1>1 DEF Paired
<1>3. Names(l2, L2StandardBridge, 1, addrs.l1Bridge)
  BY <1>1 DEF Paired
<1>4. PICK n \in 0 .. 2 : n = Len(found[o])
  BY DEF Typing, FlowInv
<1>5. Hop(o) = n + 1 /\ \A i \in Hops : i <= n => IsNext(o, i, found[o][i])
  BY <1>4 DEF Hop, ChainInv, Deriving
<1>6. n >= 1 => found[o][1] = addrs.l1Bridge
  <2> HAVE n >= 1
  <2>1. 1 \in Hops /\ 1 <= n
    BY DEF Hops
  <2>2. Names(l2, L2StandardBridge, 1, found[o][1]) /\ found[o][1] \in Code[l1]
    BY <1>5, <2>1 DEF IsNext, NamerOn, NamerAt
  <2>3. {found[o][1], addrs.l1Bridge} \subseteq Code[l1]
    BY <1>2, <2>2
  <2>4. QED
    BY <1>1, <1>3, <2>1, <2>2, <2>3, NamedIsUnique
<1>7. n >= 2 => found[o][2] = m
  <2> HAVE n >= 2
  <2>1. 2 \in Hops /\ 2 <= n /\ n >= 1
    BY DEF Hops
  <2>2. Names(l1, found[o][1], 2, found[o][2]) /\ found[o][2] \in Code[l1]
    BY <1>5, <2>1 DEF IsNext, NamerOn, NamerAt
  <2>3. {found[o][2], m} \subseteq Code[l1]
    BY <1>2, <2>2
  <2>4. QED
    BY <1>1, <1>2, <1>6, <2>1, <2>2, <2>3, NamedIsUnique
<1>8. n = 0 \/ n = 1 \/ n = 2
  OBVIOUS
<1>9. CASE n = 0
  <2>1. IsNext(o, 1, addrs.l1Bridge) /\ Hop(o) = 1
    BY <1>2, <1>3, <1>5, <1>9 DEF IsNext, NamerOn, NamerAt
  <2>2. QED
    BY <2>1, NoneIsNext
<1>10. CASE n = 1
  <2>1. IsNext(o, 2, m) /\ Hop(o) = 2
    BY <1>2, <1>5, <1>6, <1>10 DEF IsNext, NamerOn, NamerAt
  <2>2. QED
    BY <2>1, NoneIsNext
<1>11. CASE n = 2
  <2>1. IsNext(o, 3, addrs.portal) /\ Hop(o) = 3
    BY <1>2, <1>5, <1>7, <1>11 DEF IsNext, NamerOn, NamerAt
  <2>2. QED
    BY <2>1, NoneIsNext
<1>12. QED
  BY <1>8, <1>9, <1>10, <1>11

\* What is exhausted and what is behind the endpoints depends on nothing else.
LEMMA SameHop ==
  ASSUME NEW o \in Calls,
         found'[o] = found[o], kind'[o] = kind[o], serves'[o] = serves[o]
  PROVE  /\ \A i \in Spellings : Exhausted(o, i)' <=> Exhausted(o, i)
         /\ ArePaired(Behind(o).l1, Behind(o).l2)' <=> ArePaired(Behind(o).l1, Behind(o).l2)
<1>1. AskedOn(o)' = AskedOn(o) /\ AskedAt(o)' = AskedAt(o) /\ Hop(o)' = Hop(o)
  BY DEF AskedOn, AskedAt, Hop, L1of, L2of
<1>2. L1of(o, serves[o])' = L1of(o, serves[o]) /\ Behind(o)' = Behind(o)
  BY DEF Behind, L1of, L2of
<1>3. \A i \in Spellings : Exhausted(o, i)' <=> Exhausted(o, i)
  BY <1>1, <1>2 DEF Exhausted
<1>4. ArePaired(Behind(o).l1, Behind(o).l2)' <=> ArePaired(Behind(o).l1, Behind(o).l2)
  BY <1>2 DEF ArePaired, Candidates, Paired, OPStack, HasCode, Names
<1>5. QED
  BY <1>3, <1>4

\* A spelling is given up for the next one, or for good after the last.
LEMMA GivingUp ==
  ASSUME Typing, NEW o \in Calls, at[o] \in {"call", "verify"}, ChainInv(o), MissInv(o),
         ~failed[o], Exhausted(o, spelling[o]), NextSpelling(o),
         UNCHANGED <<found, kind, serves, err>>
  PROVE  MissInv(o)'
<1>1. /\ TypeOK /\ FlowInv(o) /\ err[o] = "running" /\ Hop(o) \in Hops
      /\ \A i \in Spellings : i < spelling[o] => Exhausted(o, i)
  <2>1. TypeOK /\ FlowInv(o) /\ err[o] = "running" /\ Len(found[o]) \in 0 .. 2
    BY DEF Typing, FlowInv
  <2>2. Hop(o) \in Hops
    BY <2>1, Small DEF Hop, Hops
  <2>3. QED
    BY <2>1, <2>2 DEF MissInv
<1>2. /\ \A i \in Spellings : Exhausted(o, i)' <=> Exhausted(o, i)
      /\ ArePaired(Behind(o).l1, Behind(o).l2)' <=> ArePaired(Behind(o).l1, Behind(o).l2)
  BY SameHop
<1>3. CASE spelling[o] = 1 /\ spelling'[o] = 2 /\ at'[o] = "call"
  <2>1. \A i \in Spellings : i < 2 => i = 1
    BY DEF Spellings
  <2>2. \A i \in Spellings : i < spelling'[o] => Exhausted(o, i)'
    BY <1>2, <1>3, <2>1
  <2>3. QED
    BY <1>1, <1>3, <2>2 DEF MissInv
<1>4. CASE spelling[o] = 2 /\ at'[o] = "answered"
  <2>1. \A i \in Spellings : i < 2 \/ i = 2
    BY DEF Spellings
  <2>2. \A i \in Spellings : Exhausted(o, i)
    BY <1>1, <1>4, <2>1
  <2>3. ~ArePaired(Behind(o).l1, Behind(o).l2)'
    BY <1>2, <2>2, NoneIsLeft
  <2>4. QED
    BY <1>1, <1>4, <2>3 DEF MissInv
<1>5. QED
  BY <1>1, <1>3, <1>4, Trying

LEMMA OwnStepMiss ==
  ASSUME Typing, NEW o \in Calls, ChainInv(o), MissInv(o), RouteStep(o)
  PROVE  MissInv(o)'
<1> SUFFICES ASSUME ~failed'[o] PROVE MissInv(o)'
  BY DEF MissInv
<1>0. TypeOK /\ FlowInv(o) /\ CallOK(o) /\ ~failed[o] /\ UNCHANGED serves
  BY TypesOfCall, StepIsLocal DEF Typing
<1>n. NoRoute \in Routes /\ NoAddresses \in Addresses
  BY WorldTypes
<1>s. \A i \in Spellings : ~(i < 1)
  BY DEF Spellings
<1>r. ~ReadFails(o)
  BY <1>0, Reading
<1>1. CASE Start(o) \/ ProbeSrc(o) \/ ProbeDst(o)
  <2>1. /\ at'[o] \in {"probeSrc", "probeDst", "lookup", "done"}
        /\ err'[o] \notin {"ErrNotPaired", "ErrNotOPStack"}
    <3>1. at \in [Calls -> Stages] /\ err \in [Calls -> Errors \cup {"running"}]
      BY <1>0 DEF TypeOK
    <3>2. at[o] # "done" => err[o] = "running"
      BY <1>0 DEF FlowInv
    <3> USE DEF Goto, Return, Continue
    <3>3. CASE Start(o)
      BY <3>1, <3>2, <3>3 DEF Start
    <3>4. CASE ProbeSrc(o)
      BY <3>1, <3>2, <3>4 DEF ProbeSrc
    <3>5. CASE ProbeDst(o)
      BY <3>1, <3>2, <3>5 DEF ProbeDst, Classify
    <3>6. QED
      BY <1>1, <3>3, <3>4, <3>5
  <2>2. QED
    BY <2>1 DEF MissInv
<1>2. CASE Finish(o)
  <2>1. UNCHANGED <<found, kind>> /\ at[o] = "answered"
    BY <1>2 DEF Finish
  <2>2. at'[o] = "done" /\ (err'[o] = "nil" \/ err'[o] = answer[o].err)
    BY <1>0, <1>2 DEF Finish, Return, Goto, TypeOK
  <2>3. err'[o] \in {"ErrNotPaired", "ErrNotOPStack"} =>
          ~ArePaired(Behind(o).l1, Behind(o).l2)
    BY <1>0, <2>1, <2>2 DEF MissInv
  <2>4. QED
    BY <1>0, <2>1, <2>2, <2>3, SameHop DEF MissInv
<1>d. at[o] # "done" /\ err' = err => err'[o] = "running"
  BY <1>0 DEF FlowInv
<1>3. CASE Lookup(o) /\ UNCHANGED resolveVars
  <2>1. err'[o] = "running"
    BY <1>3, <1>d DEF Lookup, resolveVars
  <2>2. \/ at'[o] = "probeL2"
        \/ at'[o] = "answered" /\ answer'[o].err = "nil"
    <3>1. CASE \E hit \in cache[Key(o)] : Answer(o, "nil", hit)
      BY <1>0, <3>1, Answered, TypesOfCall, Members
    <3>2. CASE Goto(o, "probeL2")
      BY <1>0, <3>2, Going
    <3>3. QED
      BY <1>3, <3>1, <3>2 DEF Lookup
  <2>3. QED
    BY <2>1, <2>2 DEF MissInv
<1>4. CASE ProbeL2(o) /\ UNCHANGED resolveVars
  <2>0. UNCHANGED <<found, kind, spelling>> /\ at[o] = "probeL2" /\ err'[o] = "running"
    BY <1>4, <1>d DEF ProbeL2, resolveVars
  <2>1. CASE UNCHANGED at
    BY <2>0, <2>1 DEF MissInv
  <2>2. CASE Goto(o, "call")
    <3>1. at'[o] = "call" /\ spelling'[o] = 1
      BY <1>0, <2>0, <2>2, Going DEF FlowInv
    <3>2. QED
      BY <1>s, <2>0, <3>1 DEF MissInv
  <2>3. CASE ProbeEnds(o, L2of(o, serves[o]), FALSE) /\ Answer(o, "ErrNotOPStack", NoAddresses)
    <3>1. at'[o] = "answered"
      BY <1>0, <1>n, <2>3, Answered, Members
    <3>2. ~HasCode(L2of(o, serves[o]), Predeploys[predeploy[o]]) /\ predeploy[o] \in DOMAIN Predeploys
      BY <1>0, <2>3, WorldTypes DEF ProbeEnds, CallOK
    <3>3. ~ArePaired(Behind(o).l1, Behind(o).l2)
      BY <3>2 DEF ArePaired, Paired, OPStack, Behind
    <3>4. QED
      BY <1>0, <2>0, <3>1, <3>3, SameHop DEF MissInv
  <2>4. QED
    BY <1>4, <1>r, <2>1, <2>2, <2>3 DEF ProbeL2
<1>5. CASE Call(o) /\ UNCHANGED resolveVars
  <2>0. UNCHANGED <<found, kind, err>> /\ at[o] = "call" /\ err'[o] = "running"
    BY <1>5, <1>d DEF Call, resolveVars
  <2>1. CASE Goto(o, "verify") /\ UNCHANGED spelling
    <3>1. at'[o] = "verify" /\ \A i \in Spellings : i < spelling[o] => Exhausted(o, i)
      BY <1>0, <2>0, <2>1, Going DEF MissInv
    <3>2. QED
      BY <1>0, <2>0, <2>1, <3>1, SameHop DEF MissInv
  <2>2. CASE Replies(o) = {} /\ NextSpelling(o)
    BY <1>0, <2>0, <2>2, CallExhausts, GivingUp
  <2>3. QED
    BY <1>5, <1>r, <2>1, <2>2 DEF Call
<1>6. CASE Verify(o) /\ UNCHANGED resolveVars
  <2>0. UNCHANGED <<kind, err>> /\ at[o] = "verify" /\ err'[o] = "running"
    BY <1>6, <1>d DEF Verify, resolveVars
  <2>1. CASE /\ Goto(o, IF Hop(o) = Len(Sigs) THEN "store" ELSE "call")
             /\ spelling' = [spelling EXCEPT ![o] = 1]
    <3>1. at'[o] \in {"store", "call"} /\ spelling'[o] = 1
      BY <1>0, <2>1, Going DEF TypeOK
    <3>2. QED
      BY <1>s, <2>0, <3>1 DEF MissInv
  <2>2. CASE ~OnL1(o) /\ NextSpelling(o) /\ UNCHANGED found
    <3>1. Exhausted(o, spelling[o])
      BY <2>0, <2>2, VerifyExhausts DEF ChainInv
    <3>2. QED
      BY <1>0, <2>0, <2>2, <3>1, GivingUp
  <2>3. QED
    BY <1>6, <1>r, <2>1, <2>2 DEF Verify
<1>7. CASE Store(o) /\ UNCHANGED resolveVars
  <2>0. at[o] = "store" /\ err'[o] = "running"
    BY <1>7, <1>d DEF Store, resolveVars
  <2>1. at'[o] = "answered" /\ answer'[o].err = "nil"
    BY <1>0, <1>7 DEF Store, Answer, Goto, TypeOK
  <2>2. QED
    BY <2>0, <2>1 DEF MissInv
<1>8. QED
  BY <1>1, <1>2, <1>3, <1>4, <1>5, <1>6, <1>7 DEF RouteStep

MissesInv == \A o \in Calls : MissInv(o)

LEMMA MissesStay == Spec => []MissesInv
<1>1. Init => MissesInv
  BY DEF Init, MissesInv, MissInv
<1>2. Typing /\ ChainsInv /\ MissesInv /\ [Next]_vars => MissesInv'
  <2> SUFFICES ASSUME Typing, ChainsInv, MissesInv, [Next]_vars PROVE MissesInv'
    OBVIOUS
  <2>1. ASSUME NEW o \in Calls, RouteStep(o), NEW p \in Calls
        PROVE  MissInv(p)'
    <3>1. CASE p = o
      BY <2>1, <3>1, OwnStepMiss DEF MissesInv, ChainsInv
    <3>2. CASE p # o
      <4>1. /\ at'[p] = at[p] /\ found'[p] = found[p] /\ kind'[p] = kind[p]
            /\ serves'[p] = serves[p] /\ spelling'[p] = spelling[p] /\ err'[p] = err[p]
            /\ failed'[p] = failed[p] /\ answer'[p] = answer[p]
        BY <2>1, <3>2, OthersStay DEF Typing
      <4>2. MissInv(p)
        BY DEF MissesInv
      <4>3. QED
        BY <4>1, <4>2, SameHop DEF MissInv
    <3>3. QED
      BY <3>1, <3>2
  <2>2. CASE UNCHANGED vars
    <3>1. ASSUME NEW p \in Calls
          PROVE  MissInv(p)'
      <4>1. UNCHANGED <<at, found, kind, serves, spelling, err, failed, answer>>
        BY <2>2 DEF vars, discoveryVars
      <4>2. MissInv(p)
        BY DEF MissesInv
      <4>3. QED
        BY <4>1, <4>2, SameHop DEF MissInv
    <3>2. QED
      BY <3>1 DEF MissesInv
  <2>3. QED
    BY <2>1, <2>2 DEF Next, Finished, MissesInv
<1>3. QED
  BY <1>1, <1>2, AlwaysTyped, ChainsStay, PTL DEF Spec

\* If none of its reads failed, a call that answers ErrNotPaired or ErrNotOPStack
\* is right: whichever spellings the contracts answer to, there is no pair
\* (Discover, getter).
THEOREM NoPairStaysMissed == Spec => []NoPairIsMissed
<1>1. MissesInv => NoPairIsMissed
  BY DEF MissesInv, MissInv, NoPairIsMissed
<1>2. QED
  BY <1>1, MissesStay, PTL

\* The parts make up one inductive invariant.
LEMMA RouteInvStays == Spec => []RouteInv
<1>1. Typing /\ KindsInv /\ ChainsInv /\ SourcesInv /\ MissesInv => RouteInv
  BY DEF KindsInv, ChainsInv, SourcesInv, MissesInv, RouteInv
<1>2. QED
  BY <1>1, AlwaysTyped, KindsStay, ChainsStay, SourcesStay, MissesStay, PTL

-----------------------------------------------------------------------------
(* Route implements Resolution.                                            *)

\* Why a call is where it is: it asked about two chains, it was not given all
\* addresses, and what DiscoverCached answered it has learnt or failed to read.
PlanInv(o) ==
  /\ at[o] \in {"probeSrc", "probeDst"} \/ Classified(o) => request[o].src # request[o].dst
  /\ at[o] \in Discovering => ~Complete(request[o].over)
  /\ at[o] = "answered" =>
       /\ answer[o].err \in {"nil", "read code", "ErrNotPaired"}
       /\ answer[o].err = "nil" => cache[Key(o)] # {}
       /\ answer[o].err = "read code" => failed[o]

PlansInv == \A o \in Calls : PlanInv(o)

\* What is remembered may be replaced, and is never forgotten.
LEMMA CacheFills ==
  ASSUME TypeOK, NEW o \in Calls, RouteStep(o), NEW k \in Keys, cache[k] # {}
  PROVE  cache'[k] # {}
<1>1. CASE cache' = cache
  BY <1>1
<1>2. CASE Store(o)
  BY <1>2 DEF Store, TypeOK
<1>3. QED
  BY <1>1, <1>2, StepIsLocal

\* What DiscoverCached may have answered, if this step is its return.
LEMMA OwnStepAnswers ==
  ASSUME Typing, NEW o \in Calls, KindInv(o), RouteStep(o), at'[o] = "answered"
  PROVE  /\ at[o] \in Discovering \ {"answered"} /\ kind'[o] = kind[o]
         /\ answer'[o].err \in {"nil", "read code", "ErrNotPaired"}
         /\ answer'[o].err = "nil" => cache'[Key(o)] # {}
         /\ answer'[o].err = "read code" => failed'[o]
<1>0. /\ TypeOK /\ FlowInv(o) /\ CallOK(o) /\ Key(o) \in Keys /\ cache[Key(o)] \subseteq Addresses
      /\ NoAddresses \in Addresses /\ cache \in [Keys -> SUBSET Addresses]
  BY TypesOfCall, WorldTypes DEF Typing, TypeOK
<1>1. ASSUME NEW e \in Errors, Answer(o, e, NoAddresses)
      PROVE  answer'[o].err = e
  BY <1>0, <1>1, Answered
<1>2. ASSUME NextSpelling(o)
      PROVE  answer'[o].err = "ErrNotPaired"
  BY <1>0, <1>1, <1>2, Going, Members DEF NextSpelling
<1>3. CASE Start(o) \/ ProbeSrc(o)
  BY <1>0, <1>3 DEF Start, ProbeSrc, Goto, Return, Continue, TypeOK
<1>4. CASE ProbeDst(o)
  BY <1>0, <1>4 DEF ProbeDst, Classify, Goto, Return, Continue, TypeOK
<1>5. CASE Finish(o)
  BY <1>0, <1>5 DEF Finish, Goto, Return, TypeOK
<1>6. CASE Lookup(o)
  <2>1. CASE \E hit \in cache[Key(o)] : Answer(o, "nil", hit)
    <3>1. answer'[o].err = "nil" /\ cache[Key(o)] # {}
      BY <1>0, <2>1, Answered, Members
    <3>2. QED
      BY <1>6, <3>1 DEF Lookup, Discovering
  <2>2. CASE Goto(o, "probeL2")
    BY <1>0, <2>2, Going
  <2>3. QED
    BY <1>6, <2>1, <2>2 DEF Lookup
<1>7. CASE ProbeL2(o)
  <2>0. at[o] = "probeL2" /\ kind'[o] = kind[o]
    BY <1>7 DEF ProbeL2
  <2>1. OPStack(L2of(o, serves[o]))
    BY <1>0, <2>0 DEF KindInv, FlowInv, Discovering, Classified, L2of
  <2>2. ~ProbeEnds(o, L2of(o, serves[o]), FALSE)
    <3>1. predeploy[o] \in DOMAIN Predeploys
      BY <1>0, WorldTypes DEF CallOK
    <3>2. QED
      BY <2>1, <3>1 DEF ProbeEnds, OPStack
  <2>3. CASE UNCHANGED at \/ Goto(o, "call")
    BY <1>0, <2>0, <2>3, Going
  <2>4. CASE ReadFails(o) /\ Answer(o, "read code", NoAddresses)
    BY <1>0, <1>1, <2>0, <2>4, Reading, Members DEF Discovering
  <2>5. QED
    BY <1>7, <2>2, <2>3, <2>4 DEF ProbeL2
<1>8. CASE Call(o)
  <2>1. CASE Goto(o, "verify")
    BY <1>0, <2>1, Going
  <2>2. QED
    BY <1>2, <1>8, <2>1 DEF Call, Discovering
<1>9. CASE Verify(o)
  <2>1. CASE Goto(o, IF Hop(o) = Len(Sigs) THEN "store" ELSE "call")
    BY <1>0, <2>1, Going
  <2>2. CASE NextSpelling(o) \/ Answer(o, "ErrNotPaired", NoAddresses)
    BY <1>1, <1>2, <1>9, <2>2, Members DEF Verify, Discovering
  <2>3. QED
    BY <1>9, <2>1, <2>2 DEF Verify
<1>10. CASE Store(o)
  <2>1. cache'[Key(o)] # {}
    BY <1>0, <1>10 DEF Store
  <2>2. answer'[o].err = "nil"
    BY <1>0, <1>10 DEF Store, Answer, TypeOK
  <2>3. QED
    BY <1>10, <2>1, <2>2 DEF Store, Discovering
<1>11. QED
  BY <1>3, <1>4, <1>5, <1>6, <1>7, <1>8, <1>9, <1>10 DEF RouteStep

\* A call gets as far as classifying or discovering only by its own conditions.
LEMMA OwnStepAsks ==
  ASSUME Typing, NEW o \in Calls, PlanInv(o), RouteStep(o)
  PROVE  /\ at'[o] \in {"probeSrc", "probeDst"} \/ kind'[o] \in {"deposit", "withdraw"}
              => request[o].src # request[o].dst
         /\ at'[o] \in Discovering => ~Complete(request[o].over)
<1>0. TypeOK /\ FlowInv(o)
  BY DEF Typing
<1> USE DEF PlanInv, Classified
<1>1. CASE Start(o)
  <2>1. CASE Continue(o, "probeSrc") /\ request[o].src # request[o].dst
    BY <1>0, <1>1, <2>1, Going DEF Start, Discovering
  <2>2. CASE Return(o, "nil", [NoRoute EXCEPT !.kind = "same-chain"])
    BY <1>0, <1>1, <2>2 DEF Start, Return, Goto, TypeOK, FlowInv, Unclassified, Discovering
  <2>3. QED
    BY <1>1, <2>1, <2>2 DEF Start
<1>2. CASE ProbeSrc(o)
  <2>1. at'[o] \in {"probeSrc", "probeDst", "done"} /\ kind' = kind /\ at[o] = "probeSrc"
    BY <1>0, <1>2 DEF ProbeSrc, Goto, Continue, Return, TypeOK
  <2>2. QED
    BY <2>1 DEF Discovering
<1>3. CASE ProbeDst(o)
  <2>1. at[o] = "probeDst" /\ request[o].src # request[o].dst
    BY <1>3 DEF ProbeDst
  <2>2. at'[o] \in {"probeDst", "done"} \/ (at'[o] = "lookup" /\ ~Complete(request[o].over))
    BY <1>0, <1>3 DEF ProbeDst, Classify, Goto, Continue, Return, TypeOK
  <2>3. QED
    BY <2>1, <2>2 DEF Discovering
<1>4. CASE Finish(o)
  <2>1. at'[o] = "done" /\ kind' = kind
    BY <1>0, <1>4 DEF Finish, Goto, Return, TypeOK
  <2>2. QED
    BY <2>1 DEF Discovering
<1>5. CASE /\ UNCHANGED resolveVars
           /\ Lookup(o) \/ ProbeL2(o) \/ Call(o) \/ Verify(o) \/ Store(o)
  <2>1. kind' = kind /\ at'[o] \notin {"probeSrc", "probeDst"}
    BY <1>0, <1>5, DiscoveryStep
  <2>2. at[o] \in Discovering
    BY <1>5 DEF Lookup, ProbeL2, Call, Verify, Store, Discovering
  <2>3. QED
    BY <2>1, <2>2
<1>6. QED
  BY <1>1, <1>2, <1>3, <1>4, <1>5 DEF RouteStep

LEMMA PlansStay == Spec => []PlansInv
<1>1. Init => PlansInv
  BY DEF Init, PlansInv, PlanInv, Classified, Discovering
<1>2. Typing /\ KindsInv /\ PlansInv /\ [Next]_vars => PlansInv'
  <2> SUFFICES ASSUME Typing, KindsInv, PlansInv, [Next]_vars PROVE PlansInv'
    OBVIOUS
  <2>1. ASSUME NEW o \in Calls, RouteStep(o), NEW p \in Calls
        PROVE  PlanInv(p)'
    <3>0. /\ TypeOK /\ PlanInv(p) /\ Key(p) \in Keys
          /\ request' = request /\ (kind'[p] = kind[p] => Key(p)' = Key(p))
      BY <2>1, StepIsLocal, TypesOfCall DEF Typing, PlansInv, Key, L1of, L2of
    <3>1. CASE p = o
      <4>1. /\ at'[p] \in {"probeSrc", "probeDst"} \/ Classified(p)' => request[p].src # request[p].dst
            /\ at'[p] \in Discovering => ~Complete(request[p].over)
        BY <2>1, <3>0, <3>1, OwnStepAsks DEF Classified
      <4>2. at'[p] = "answered" =>
              /\ answer'[p].err \in {"nil", "read code", "ErrNotPaired"}
              /\ answer'[p].err = "nil" => cache'[Key(p)'] # {}
              /\ answer'[p].err = "read code" => failed'[p]
        BY <2>1, <3>0, <3>1, OwnStepAnswers DEF KindsInv
      <4>3. QED
        BY <3>0, <4>1, <4>2 DEF PlanInv, Complete
    <3>2. CASE p # o
      <4>1. /\ at'[p] = at[p] /\ answer'[p] = answer[p] /\ kind'[p] = kind[p]
            /\ failed'[p] = failed[p]
        BY <2>1, <3>2, OthersStay DEF Typing
      <4>2. cache[Key(p)] # {} => cache'[Key(p)] # {}
        BY <2>1, <3>0, CacheFills
      <4>3. QED
        BY <3>0, <4>1, <4>2 DEF PlanInv, Complete, Classified
    <3>3. QED
      BY <3>1, <3>2
  <2>2. CASE UNCHANGED vars
    BY <2>2 DEF vars, discoveryVars, PlansInv, PlanInv, Complete, Classified, Key, L1of, L2of
  <2>3. QED
    BY <2>1, <2>2 DEF Next, Finished, PlansInv
<1>3. QED
  BY <1>1, <1>2, AlwaysTyped, KindsStay, PTL DEF Spec

\* What Resolution calls by its own names.
LEMMA PromiseTerms ==
  ASSUME TypeOK, NEW o \in Calls
  PROVE  /\ Classified(o) => /\ kind[o] \in Promise!Ways
                             /\ Promise!Pair(request[o], kind[o]) = Key(o)
                             /\ Promise!Pair(serves[o], kind[o]) = Behind(o)
         /\ Behind(o) \in Keys /\ Key(o) \in Keys
         /\ Promise!Supplied(o) <=> Complete(request[o].over)
         /\ \A k, origin : \A base \in Addresses :
              Promise!RouteOf(o, k, base, origin) = RouteVia(o, k, base, origin)
<1>1. /\ L1of(o, serves[o]) \in Chains /\ L2of(o, serves[o]) \in Chains /\ Key(o) \in Keys
  BY TypesOfCall
<1>2. Classified(o) => /\ kind[o] \in Promise!Ways
                       /\ Promise!Pair(request[o], kind[o]) = Key(o)
                       /\ Promise!Pair(serves[o], kind[o]) = Behind(o)
  BY DEF Classified, Promise!Ways, Promise!Pair, Key, Behind, L1of, L2of
<1>3. Behind(o) \in Keys
  BY <1>1 DEF Behind, Keys
<1>4. Promise!Supplied(o) <=> Complete(request[o].over)
  BY DEF Promise!Supplied, Complete
<1>5. ASSUME NEW k, NEW origin, NEW base \in Addresses
      PROVE  Promise!RouteOf(o, k, base, origin) = RouteVia(o, k, base, origin)
  <2>1. DOMAIN base = DOMAIN NoAddresses
    BY WorldTypes DEF Addresses
  <2> DEFINE own == {f \in DOMAIN base : request[o].over[f] # NoAddress}
  <2>2. [f \in DOMAIN base |-> IF f \in own THEN request[o].over[f] ELSE base[f]] = Overlay(o, base)
    BY DEF Overlay
  <2>3. [f \in DOMAIN base |-> IF f \in own THEN "override" ELSE origin] = OverlaySources(o, origin)
    BY <2>1 DEF OverlaySources
  <2>4. QED
    BY <2>2, <2>3 DEF Promise!RouteOf, RouteVia
<1>6. QED
  BY <1>1, <1>2, <1>3, <1>4, <1>5

LEMMA PromiseTables ==
  ASSUME NEW k \in Keys
  PROVE  /\ \A a : a \in Promise!For(k, ContractsThere)
                     <=> a \in Candidates /\ Paired(k.l1, k.l2, a)
         /\ \A a : a \in Promise!For(k, RowsThere) <=> a \in Registry(k)
<1>0. \A a, l, b : [pair |-> l, addrs |-> b] = [pair |-> k, addrs |-> a] => l = k /\ b = a
  <2> SUFFICES ASSUME NEW a, NEW l, NEW b, [pair |-> l, addrs |-> b] = [pair |-> k, addrs |-> a]
               PROVE  l = k /\ b = a
    OBVIOUS
  <2>1. [pair |-> l, addrs |-> b].pair = k /\ [pair |-> l, addrs |-> b].addrs = a
    OBVIOUS
  <2>2. QED
    BY <2>1
<1>1. ASSUME NEW a
      PROVE  [pair |-> k, addrs |-> a] \in ContractsThere
               <=> a \in Candidates /\ Paired(k.l1, k.l2, a)
  <2>1. a \in Candidates /\ Paired(k.l1, k.l2, a) => [pair |-> k, addrs |-> a] \in ContractsThere
    BY DEF ContractsThere
  <2>2. ASSUME [pair |-> k, addrs |-> a] \in ContractsThere
        PROVE  a \in Candidates /\ Paired(k.l1, k.l2, a)
    <3>1. PICK l \in Keys : [pair |-> k, addrs |-> a] \in
                              {[pair |-> l, addrs |-> b] : b \in {c \in Candidates : Paired(l.l1, l.l2, c)}}
      BY <2>2 DEF ContractsThere
    <3>2. PICK b \in {c \in Candidates : Paired(l.l1, l.l2, c)} :
            [pair |-> l, addrs |-> b] = [pair |-> k, addrs |-> a]
      BY <3>1
    <3>3. QED
      BY <1>0, <3>2
  <2>3. QED
    BY <2>1, <2>2
<1>2. ASSUME NEW a
      PROVE  [pair |-> k, addrs |-> a] \in RowsThere <=> a \in Registry(k)
  <2>1. a \in Registry(k) => [pair |-> k, addrs |-> a] \in RowsThere
    BY DEF RowsThere
  <2>2. ASSUME [pair |-> k, addrs |-> a] \in RowsThere
        PROVE  a \in Registry(k)
    <3>1. PICK l \in Keys : [pair |-> k, addrs |-> a] \in {[pair |-> l, addrs |-> b] : b \in Registry(l)}
      BY <2>2 DEF RowsThere
    <3>2. PICK b \in Registry(l) : [pair |-> l, addrs |-> b] = [pair |-> k, addrs |-> a]
      BY <3>1
    <3>3. QED
      BY <1>0, <3>2
  <2>3. QED
    BY <2>1, <2>2
<1>3. \A t \in ContractsThere : t = [pair |-> t.pair, addrs |-> t.addrs]
  BY DEF ContractsThere
<1>4. \A t \in RowsThere : t = [pair |-> t.pair, addrs |-> t.addrs]
  BY DEF RowsThere
<1>5. ASSUME NEW table, NEW a, \A t \in table : t = [pair |-> t.pair, addrs |-> t.addrs]
      PROVE  a \in Promise!For(k, table) <=> [pair |-> k, addrs |-> a] \in table
  BY <1>5 DEF Promise!For
<1>6. QED
  BY <1>1, <1>2, <1>3, <1>4, <1>5

\* A pair that is of opposite kinds and was asked about as two chains can be
\* bridged, this way.
LEMMA GoesThere ==
  ASSUME TypeOK, NEW o \in Calls, request[o].src # request[o].dst, NEW way,
         \/ way = "deposit" /\ OPStack(serves[o].dst) /\ ~OPStack(serves[o].src)
         \/ way = "withdraw" /\ OPStack(serves[o].src) /\ ~OPStack(serves[o].dst)
  PROVE  way \in Promise!Ways /\ Promise!Goes(o, way)
<1>1. serves[o].src \in Chains /\ serves[o].dst \in Chains
  BY TypesOfCall
<1>2. \A c \in Chains : c \in RollupsThere <=> OPStack(c)
  BY DEF RollupsThere
<1>3. QED
  BY <1>1, <1>2 DEF Promise!Goes, Promise!Ways, Promise!Pair

LEMMA ClassifiedGoes ==
  ASSUME TypeOK, NEW o \in Calls, KindInv(o), PlanInv(o), Classified(o)
  PROVE  kind[o] \in Promise!Ways /\ Promise!Goes(o, kind[o])
BY GoesThere DEF KindInv, PlanInv, Classified

\* What was learnt for a pair of chain IDs is offered for it.
LEMMA LearntIsOffered ==
  ASSUME Typing, KindsInv, PlansInv, NEW k, NEW addrs, LearntFor(k, addrs)
  PROVE  \E l \in Promise!Backing(k) :
           l \in Keys /\ Paired(l.l1, l.l2, addrs) /\ addrs \in Promise!For(l, ContractsThere)
<1>1. PICK p \in Calls : /\ Classified(p) /\ Key(p) = k
                         /\ Paired(Behind(p).l1, Behind(p).l2, addrs)
  BY DEF LearntFor
<1>2. /\ kind[p] \in Promise!Ways /\ Promise!Goes(p, kind[p])
      /\ Promise!Pair(request[p], kind[p]) = k /\ Promise!Pair(serves[p], kind[p]) = Behind(p)
      /\ Behind(p) \in Keys
  BY <1>1, ClassifiedGoes, PromiseTerms DEF Typing, KindsInv, PlansInv
<1>3. Behind(p) \in Promise!Backing(k)
  BY <1>2 DEF Promise!Backing
<1>4. addrs \in Promise!For(Behind(p), ContractsThere)
  BY <1>1, <1>2, PromiseTables DEF LearntFor
<1>5. QED
  BY <1>1, <1>2, <1>3, <1>4

\* If one pair answers to these chain IDs, one set of contracts can be learnt.
LEMMA OnePairOneAnswer ==
  ASSUME Typing, KindsInv, PlansInv, NEW k, NEW a, NEW b, LearntFor(k, a), LearntFor(k, b),
         Promise!OfOnePair(k)
  PROVE  a = b
<1>1. PICK l \in Promise!Backing(k) : l \in Keys /\ Paired(l.l1, l.l2, a)
  BY LearntIsOffered
<1>2. PICK m \in Promise!Backing(k) : Paired(m.l1, m.l2, b)
  BY LearntIsOffered
<1>3. l = m
  BY DEF Promise!OfOnePair
<1>4. l.l1 \in Chains /\ a \in Candidates /\ b \in Candidates
  BY <1>1 DEF Keys, LearntFor
<1>5. QED
  BY <1>1, <1>2, <1>3, <1>4, PairIsUnique

\* A return ends the call, and a step that does neither leaves its verdict.
LEMMA ReturnIsEnd ==
  ASSUME TypeOK, NEW o \in Calls, FlowInv(o), at[o] # "done", NEW e, NEW r, Return(o, e, r),
         cache' = cache
  PROVE  Promise!End(o, e, r)
<1> DEFINE verdict == [p \in Calls |-> [err |-> err[p], route |-> route[p]]]
<1>1. verdict[o] = Promise!Open
  BY DEF Promise!Open, FlowInv
<1>2. \A p \in Calls : /\ err'[p] = IF p = o THEN e ELSE err[p]
                       /\ route'[p] = IF p = o THEN r ELSE route[p]
  BY DEF Return, TypeOK
<1>3. verdict' = [verdict EXCEPT ![o] = [err |-> e, route |-> r]]
  BY <1>2
<1>4. QED
  BY <1>1, <1>3 DEF Promise!End

PromiseVars == <<request, serves, cache, failed,
                 [o \in Calls |-> [err |-> err[o], route |-> route[o]]]>>

\* A read that goes wrong and leaves the call running.
LEMMA FailureIsRead ==
  ASSUME TypeOK, NEW o \in Calls, FlowInv(o), at[o] # "done", UNCHANGED <<err, route, cache>>,
         ReadFails(o)
  PROVE  Promise!ReadGoesWrong(o)
BY DEF Promise!ReadGoesWrong, Promise!Open, ReadFails, FlowInv

\* The steps of one call, by what Resolution sees of them.
LEMMA StoreIsLearn ==
  ASSUME Typing, NEW o \in Calls, KindInv(o), ChainInv(o), PlanInv(o),
         Store(o), UNCHANGED resolveVars
  PROVE  \E way \in Promise!Ways : Promise!Learn(o, way)
<1>0. TypeOK /\ FlowInv(o) /\ at[o] = "store" /\ Classified(o) /\ ~Complete(request[o].over)
  BY DEF Typing, FlowInv, Store, Discovering, PlanInv
<1>1. Promise!Goes(o, kind[o]) /\ kind[o] \in Promise!Ways
  BY <1>0, ClassifiedGoes
<1>2. /\ Promise!Pair(request[o], kind[o]) = Key(o) /\ Promise!Pair(serves[o], kind[o]) = Behind(o)
      /\ Behind(o) \in Keys /\ ~Promise!Supplied(o)
  BY <1>0, PromiseTerms
<1>3. Derived(o) \in Promise!For(Behind(o), ContractsThere)
  <2>1. Paired(Behind(o).l1, Behind(o).l2, Derived(o)) /\ Derived(o) \in Candidates
    BY <1>0, DerivedIsPaired
  <2>2. QED
    BY <1>2, <2>1, PromiseTables
<1>4. cache' = [cache EXCEPT ![Key(o)] = {Derived(o)}] /\ UNCHANGED <<failed, err, route>>
  BY DEF Store, resolveVars
<1>5. [p \in Calls |-> [err |-> err[p], route |-> route[p]]][o] = Promise!Open
  BY <1>0 DEF Promise!Open, FlowInv
<1>6. QED
  BY <1>1, <1>2, <1>3, <1>4, <1>5 DEF Promise!Learn

\* A step of Resolution's call o.
PromisedStep(o) == Promise!Step(o) \/ UNCHANGED PromiseVars

LEMMA StartKeepsPromise ==
  ASSUME Typing, NEW o \in Calls, Start(o)
  PROVE  PromisedStep(o)
<1>0. TypeOK /\ FlowInv(o) /\ at[o] = "start" /\ UNCHANGED <<request, serves, cache, failed>>
  BY DEF Typing, Start
<1>1. CASE request[o].src = request[o].dst /\ Return(o, "nil", [NoRoute EXCEPT !.kind = "same-chain"])
  <2>1. Promise!End(o, "nil", [NoRoute EXCEPT !.kind = "same-chain"])
    BY <1>0, <1>1, ReturnIsEnd
  <2>2. QED
    BY <1>0, <1>1, <2>1 DEF PromisedStep, Promise!Step, Promise!SameChain
<1>2. CASE Continue(o, "probeSrc")
  BY <1>0, <1>2 DEF Continue, PromisedStep, PromiseVars
<1>3. QED
  BY <1>1, <1>2 DEF Start

\* A probe that fails ends the call with the error.
LEMMA ProbeFails ==
  ASSUME Typing, NEW o \in Calls, PlanInv(o), at[o] \in {"probeSrc", "probeDst"},
         ReadFails(o), Return(o, "read code", NoRoute), cache' = cache
  PROVE  PromisedStep(o)
<1>1. TypeOK /\ FlowInv(o) /\ at[o] # "done" /\ request[o].src # request[o].dst
  BY DEF Typing, PlanInv
<1>2. Promise!End(o, "read code", NoRoute)
  BY <1>1, ReturnIsEnd
<1>3. QED
  BY <1>1, <1>2 DEF PromisedStep, Promise!Step, Promise!Unread, ReadFails

LEMMA ProbeSrcKeepsPromise ==
  ASSUME Typing, NEW o \in Calls, PlanInv(o), ProbeSrc(o)
  PROVE  PromisedStep(o)
<1>1. CASE ReadFails(o) /\ Return(o, "read code", NoRoute)
  BY <1>1, ProbeFails DEF ProbeSrc
<1>2. CASE ~(ReadFails(o) /\ Return(o, "read code", NoRoute))
  BY <1>2 DEF ProbeSrc, ProbeMore, ProbeEnds, ReadOk, Continue, PromisedStep, PromiseVars
<1>3. QED
  BY <1>1, <1>2

LEMMA ProbeDstKeepsPromise ==
  ASSUME Typing, NEW o \in Calls, KindInv(o), PlanInv(o), ProbeDst(o)
  PROVE  PromisedStep(o)
<1>0. /\ TypeOK /\ FlowInv(o) /\ at[o] = "probeDst" /\ request[o].src # request[o].dst
      /\ UNCHANGED <<request, serves, cache>> /\ request[o].over \in Addresses
      /\ serves[o].src \in Chains /\ serves[o].dst \in Chains /\ srcIsL2[o] \in BOOLEAN
      /\ ProbedSoFar(o, serves[o].dst) /\ (srcIsL2[o] <=> OPStack(serves[o].src))
  BY TypesOfCall DEF Typing, ProbeDst, PlanInv, KindInv, CallOK
<1>1. CASE ProbeMore(o, serves[o].dst) /\ UNCHANGED <<at, kind, err, route>>
  BY <1>0, <1>1 DEF ProbeMore, ReadOk, PromisedStep, PromiseVars
<1>2. CASE ReadFails(o) /\ Return(o, "read code", NoRoute)
  BY <1>0, <1>2, ProbeFails
<1>3. ASSUME NEW isL2 \in BOOLEAN, ProbeEnds(o, serves[o].dst, isL2), Classify(o, isL2)
      PROVE  PromisedStep(o)
  <2> DEFINE k == IF isL2 THEN "deposit" ELSE "withdraw"
             over == request[o].over
  <2>1. (isL2 <=> OPStack(serves[o].dst)) /\ failed' = failed
    BY <1>0, <1>3, ProbeDecides DEF ProbeEnds, ReadOk
  <2>2. CASE srcIsL2[o] = isL2 /\ Return(o, "ErrUnsupportedRoute", NoRoute)
    <3>1. serves[o].src \in RollupsThere <=> serves[o].dst \in RollupsThere
      BY <1>0, <2>1, <2>2 DEF RollupsThere
    <3>2. Promise!End(o, "ErrUnsupportedRoute", NoRoute)
      BY <1>0, <2>2, ReturnIsEnd
    <3>3. QED
      BY <1>0, <2>1, <3>1, <3>2 DEF PromisedStep, Promise!Step, Promise!Unsupported
  <2>3. CASE /\ srcIsL2[o] # isL2 /\ Complete(over)
             /\ Return(o, "nil", RouteVia(o, k, over, "override"))
    <3>1. k \in Promise!Ways /\ Promise!Goes(o, k)
      BY <1>0, <2>1, <2>3, GoesThere
    <3>2. PICK r : r = RouteVia(o, k, over, "override")
      OBVIOUS
    <3>3. Promise!End(o, "nil", r)
      BY <1>0, <2>3, <3>2, ReturnIsEnd DEF Return
    <3>4. Promise!Supplied(o) /\ r = Promise!RouteOf(o, k, over, "override")
      BY <1>0, <2>3, <3>2, PromiseTerms
    <3>5. Promise!End(o, "nil", Promise!RouteOf(o, k, over, "override"))
      BY <3>3, <3>4 DEF Promise!End
    <3> HIDE DEF k
    <3>6. Promise!Supply(o, k)
      BY <2>1, <3>1, <3>4, <3>5 DEF Promise!Supply
    <3>7. QED
      BY <3>1, <3>6 DEF PromisedStep, Promise!Step
  <2>4. CASE Continue(o, "lookup")
    BY <1>0, <2>1, <2>4 DEF Continue, PromisedStep, PromiseVars
  <2>5. QED
    BY <1>3, <2>2, <2>3, <2>4 DEF Classify
<1>4. QED
  BY <1>1, <1>2, <1>3 DEF ProbeDst

\* The reads of discovery go wrong unseen, or are not seen at all.
LEMMA ReadsKeepPromise ==
  ASSUME Typing, NEW o \in Calls, UNCHANGED resolveVars,
         Lookup(o) \/ ProbeL2(o) \/ Call(o) \/ Verify(o)
  PROVE  PromisedStep(o)
<1>1. /\ UNCHANGED <<request, serves, cache, err, route>> /\ TypeOK /\ FlowInv(o)
      /\ at[o] # "done"
  BY DEF Typing, resolveVars, Lookup, ProbeL2, Call, Verify
<1>2. ReadFails(o) \/ failed' = failed
  BY DEF Lookup, ProbeL2, Call, Verify, ReadOk, ProbeMore, ProbeEnds
<1>3. CASE ReadFails(o)
  BY <1>1, <1>3, FailureIsRead DEF PromisedStep, Promise!Step
<1>4. CASE failed' = failed
  BY <1>1, <1>4 DEF PromisedStep, PromiseVars
<1>5. QED
  BY <1>2, <1>3, <1>4

\* A call finishes with what was learnt, or with the snapshot or an error if
\* nothing can be, or could be.
LEMMA FinishKeepsPromise ==
  ASSUME Typing, KindsInv, PlansInv, SourcesInv, NEW o \in Calls, MissInv(o), Finish(o)
  PROVE  PromisedStep(o)
<1>0. /\ TypeOK /\ FlowInv(o) /\ CallOK(o) /\ at[o] = "answered" /\ Classified(o)
      /\ UNCHANGED <<request, serves, cache, failed>> /\ ~Complete(request[o].over)
      /\ request[o].src # request[o].dst /\ answer[o].addrs \in Addresses
      /\ answer[o].err \in {"nil", "read code", "ErrNotPaired"}
      /\ answer[o].err = "nil" => cache[Key(o)] # {}
      /\ answer[o].err = "read code" => failed[o]
  BY TypesOfCall DEF Typing, Finish, FlowInv, Discovering, PlansInv, PlanInv, CallOK
<1>1. kind[o] \in Promise!Ways /\ Promise!Goes(o, kind[o])
  BY <1>0, ClassifiedGoes DEF KindsInv, PlansInv
<1>2. /\ Promise!Pair(request[o], kind[o]) = Key(o) /\ Promise!Pair(serves[o], kind[o]) = Behind(o)
      /\ Behind(o) \in Keys /\ Key(o) \in Keys /\ ~Promise!Supplied(o)
      /\ \A k, origin : \A base \in Addresses :
           Promise!RouteOf(o, k, base, origin) = RouteVia(o, k, base, origin)
  BY <1>0, PromiseTerms
<1>3. CASE /\ answer[o].err = "nil"
           /\ Return(o, "nil", RouteVia(o, kind[o], answer[o].addrs, "discovery"))
  <2> DEFINE base == answer[o].addrs
  <2>1. LearntFor(Key(o), base)
    BY <1>0, <1>3 DEF SourcesInv, SourceInv
  <2>2. base \in Promise!Offers(Key(o))
    BY <2>1, LearntIsOffered DEF Promise!Offers
  <2>3. ASSUME Promise!OfOnePair(Key(o))
        PROVE  base \in cache[Key(o)]
    <3>1. PICK c \in cache[Key(o)] : TRUE
      BY <1>0, <1>3
    <3>2. LearntFor(Key(o), c)
      BY <1>2, <3>1 DEF SourcesInv, CacheInv
    <3>3. QED
      BY <2>1, <2>3, <3>1, <3>2, OnePairOneAnswer
  <2>4. Promise!End(o, "nil", Promise!RouteOf(o, kind[o], base, "discovery"))
    <3>1. PICK r : r = RouteVia(o, kind[o], base, "discovery")
      OBVIOUS
    <3>2. Promise!End(o, "nil", r)
      BY <1>0, <1>3, <3>1, ReturnIsEnd DEF Return
    <3>3. r = Promise!RouteOf(o, kind[o], base, "discovery")
      BY <1>0, <3>1, PromiseTerms
    <3>4. QED
      BY <3>2, <3>3 DEF Promise!End
  <2> HIDE DEF base
  <2>5. Promise!Discover(o, kind[o])
    BY <1>0, <1>1, <1>2, <1>3, <2>2, <2>3, <2>4 DEF Promise!Discover
  <2>6. QED
    BY <1>1, <2>5 DEF PromisedStep, Promise!Step
<1>4. ASSUME answer[o].err # "nil"
      PROVE  Promise!Undiscovered(o, kind[o])
  <2>1. ~failed[o] => \A a : a \notin Promise!For(Behind(o), ContractsThere)
    <3>1. ~failed[o] => ~ArePaired(Behind(o).l1, Behind(o).l2)
      BY <1>0, <1>4 DEF MissInv
    <3>2. QED
      BY <1>2, <3>1, PromiseTables DEF ArePaired
  <2>2. failed[o] \/ Promise!For(Behind(o), ContractsThere) = {}
    BY <2>1
  <2>3. QED
    BY <1>1, <1>2, <2>2 DEF Promise!Undiscovered
<1>5. ASSUME answer[o].err # "nil", NEW row \in Registry(Key(o)),
             Return(o, "nil", RouteVia(o, kind[o], row, "registry"))
      PROVE  PromisedStep(o)
  <2>1. row \in Promise!For(Key(o), RowsThere) /\ row \in Addresses
    BY <1>2, <1>5, PromiseTables, RegistryType
  <2>2. Promise!End(o, "nil", Promise!RouteOf(o, kind[o], row, "registry"))
    <3>1. PICK r : r = RouteVia(o, kind[o], row, "registry")
      OBVIOUS
    <3>2. Promise!End(o, "nil", r)
      BY <1>0, <1>5, <3>1, ReturnIsEnd DEF Return
    <3>3. r = Promise!RouteOf(o, kind[o], row, "registry")
      BY <1>0, <2>1, <3>1, PromiseTerms
    <3>4. QED
      BY <3>2, <3>3 DEF Promise!End
  <2>3. Promise!FallBack(o, kind[o])
    BY <1>0, <1>2, <1>4, <1>5, <2>1, <2>2 DEF Promise!FallBack
  <2>4. QED
    BY <1>1, <2>3 DEF PromisedStep, Promise!Step
<1>6. ASSUME answer[o].err # "nil", Registry(Key(o)) = {}, Return(o, answer[o].err, NoRoute)
      PROVE  PromisedStep(o)
  <2>1. Promise!End(o, answer[o].err, NoRoute)
    BY <1>0, <1>6, ReturnIsEnd
  <2>2. CASE answer[o].err = "ErrNotPaired"
    <3>1. \A a : a \notin Promise!For(Key(o), RowsThere)
      BY <1>2, <1>6, PromiseTables
    <3>2. Promise!For(Key(o), RowsThere) = {}
      BY <3>1
    <3>3. Promise!Unpaired(o, kind[o])
      BY <1>0, <1>2, <1>4, <1>6, <2>1, <2>2, <3>2 DEF Promise!Unpaired
    <3>4. QED
      BY <1>1, <3>3 DEF PromisedStep, Promise!Step
  <2>3. CASE answer[o].err = "read code"
    <3>1. failed' = [failed EXCEPT ![o] = TRUE]
      BY <1>0, <2>3 DEF TypeOK
    <3>2. Promise!Unread(o)
      BY <1>0, <2>1, <2>3, <3>1 DEF Promise!Unread
    <3>3. QED
      BY <3>2 DEF PromisedStep, Promise!Step
  <2>4. QED
    BY <1>0, <1>6, <2>2, <2>3
<1>7. QED
  BY <1>3, <1>5, <1>6 DEF Finish

LEMMA StepKeepsPromise ==
  ASSUME RouteInv, PlansInv, [Next]_vars
  PROVE  [Promise!RNext]_PromiseVars
<1>0. /\ Typing /\ KindsInv /\ ChainsInv /\ SourcesInv /\ MissesInv
  BY DEF RouteInv, KindsInv, ChainsInv, SourcesInv, MissesInv
<1>1. ASSUME NEW o \in Calls, RouteStep(o)
      PROVE  PromisedStep(o) /\ UNCHANGED <<request, serves>>
  <2>1. /\ KindInv(o) /\ ChainInv(o) /\ PlanInv(o) /\ MissInv(o) /\ UNCHANGED <<request, serves>>
    BY <1>0, <1>1, StepIsLocal DEF KindsInv, ChainsInv, PlansInv, MissesInv, Typing
  <2>2. CASE Start(o) \/ ProbeSrc(o) \/ ProbeDst(o)
    BY <1>0, <2>1, <2>2, StartKeepsPromise, ProbeSrcKeepsPromise, ProbeDstKeepsPromise
  <2>3. CASE Finish(o)
    BY <1>0, <2>1, <2>3, FinishKeepsPromise
  <2>4. CASE (Lookup(o) \/ ProbeL2(o) \/ Call(o) \/ Verify(o)) /\ UNCHANGED resolveVars
    BY <1>0, <2>1, <2>4, ReadsKeepPromise
  <2>5. CASE Store(o) /\ UNCHANGED resolveVars
    BY <1>0, <2>1, <2>5, StoreIsLearn DEF PromisedStep, Promise!Step
  <2>6. QED
    BY <1>1, <2>1, <2>2, <2>3, <2>4, <2>5 DEF RouteStep
<1>2. CASE UNCHANGED vars
  BY <1>2 DEF vars, discoveryVars, PromiseVars
<1>3. CASE \E o \in Calls : RouteStep(o)
  <2>1. PICK o \in Calls : PromisedStep(o) /\ UNCHANGED <<request, serves>>
    BY <1>1, <1>3
  <2>2. QED
    BY <2>1 DEF PromisedStep, Promise!RNext, Promise!Asking
<1>4. QED
  BY <1>2, <1>3 DEF Next, Finished

\* Whatever calls overlap, whatever reads fail and whatever the endpoints serve,
\* each call of route.Resolve has at its return the answer that Resolution gives
\* in one step: discovery, its cache and the snapshot add nothing to the promise.
THEOREM ResolutionIsKept == Spec => AnswersAsPromised
<1>1. Init => Promise!RInit
  BY DEF Init, Promise!RInit, Promise!Open
<1>2. RouteInv /\ PlansInv /\ [Next]_vars => [Promise!RNext]_PromiseVars
  BY StepKeepsPromise
<1>3. QED
  BY <1>1, <1>2, RouteInvStays, PlansStay, PTL DEF Spec, AnswersAsPromised, Promise!RSpec, PromiseVars
=============================================================================
