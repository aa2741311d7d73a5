----------------------------- MODULE CliProofs -----------------------------
(***************************************************************************)
(* Proofs about Cli: its processes are runs of Bridge, so that what is     *)
(* proved of Bridge holds of them, and what they show and hold open, for   *)
(* any number of processes, command lines and environments.                *)
(***************************************************************************)
EXTENDS Cli, PaymentProofs, ConfigProofs

-----------------------------------------------------------------------------
(* A process of Cli is a run of Bridge.                                    *)

LEMMA CliStepIsBridgeStep == [CliNext]_allVars => [Next]_vars
<1> SUFFICES ASSUME [CliNext]_allVars PROVE [Next]_vars
  OBVIOUS
<1>1. ASSUME NEW o \in Ops, Process(o) \/ WaitGrowsLate(o) \/ Killed(o)
      PROVE  OpStep(o) \/ DeadlinePasses(o) \/ Crash(o) \/ UNCHANGED vars
  BY <1>1 DEF Process, Parse, DialSrc, DialDst, ResolveRoute, Operate, Report, WaitGrowsLate,
     Killed
<1>2. (AllExited \/ UNCHANGED allVars) => UNCHANGED vars
  BY DEF AllExited, allVars
<1> QED
  BY <1>1, <1>2 DEF CliNext, Next

\* Whatever the command does around an operation, the operation is one of
\* Bridge: everything proved of Bridge holds of every process.
THEOREM ProcessesAreRuns == CliSpec => Spec
<1>1. CliInit => Init
  BY DEF CliInit
<1> QED
  BY <1>1, CliStepIsBridgeStep, PTL DEF CliSpec, Spec

-----------------------------------------------------------------------------
(* The inductive invariant.                                                *)

Before == {"args", "dialSrc", "dialDst", "resolve"}

\* The connections an operation uses.
Endpoints(o) ==
  {<<"src", args[o].env["SOURCE_RPC_URL"]>>} \cup
    (IF Kind[o] = "same-chain" THEN {} ELSE {<<"dst", args[o].env["DEST_RPC_URL"]>>})

\* Which connections there are follows from the stage.
OpenInv(o) ==
  /\ AsksFor(args[o], o)
  /\ stage[o] \in {"dialSrc", "dialDst", "resolve", "operate"} => AmountIs(o, "nil")
  /\ stage[o] \in {"args", "dialSrc", "exited"} => open[o] = {}
  /\ stage[o] = "dialDst" =>
       Kind[o] # "same-chain" /\ open[o] = {<<"src", args[o].env["SOURCE_RPC_URL"]>>}
  /\ stage[o] \in {"resolve", "operate"} => open[o] = Endpoints(o)

\* What a process has shown and how it ended, next to where its operation is.
ShownInv(o) ==
  /\ stage[o] \in Before => pc[o] = "start" /\ tx[o].fee = 0
  /\ stage[o] = "operate" \/ tx[o].fee > 0 => (Kind[o] # "same-chain" => shown[o].addrs)
  /\ exit[o] = "running" <=> stage[o] # "exited"
  /\ stage[o] = "exited" => pc[o] \in {"start", "done"}
  /\ exit[o] \in {"exitOK", "exitRuntime"} /\ pc[o] = "done" => shown[o].hash = res[o].src
  /\ exit[o] = "exitOK" /\ Sends(o) => pc[o] = "done" /\ err[o] = "nil"

CliInv ==
  /\ CliTypeOK
  /\ \A o \in Ops : OpenInv(o) /\ ShownInv(o)

LEMMA InitCli == CliInit => CliInv
<1> SUFFICES ASSUME CliInit PROVE CliInv
  OBVIOUS
<1>1. CliTypeOK
  BY InitType DEF CliInit, CliTypeOK, CliStages, Exits, Shown, Nothing
<1>2. ASSUME NEW o \in Ops PROVE OpenInv(o) /\ ShownInv(o)
  BY <1>2 DEF CliInit, Init, OpenInv, ShownInv, Draft, Before
<1> QED
  BY <1>1, <1>2 DEF CliInv

-----------------------------------------------------------------------------
(* Steps.                                                                  *)

\* What a step of the operation itself does to the process.
LEMMA OperationIsLocal ==
  ASSUME TypeOK, NEW o \in Ops, OpStep(o) \/ DeadlinePasses(o) \/ Crash(o)
  PROVE  \A p \in Ops \ {o} :
           pc'[p] = pc[p] /\ err'[p] = err[p] /\ tx'[p] = tx[p] /\ res'[p] = res[p]
BY StepIsLocal

\* A step of one process is none of another's.
LEMMA OthersKeepCli ==
  ASSUME CliInv, NEW o \in Ops, Process(o) \/ WaitGrowsLate(o) \/ Killed(o),
         NEW p \in Ops \ {o}
  PROVE  OpenInv(p)' /\ ShownInv(p)'
<1>1. TypeOK /\ OpenInv(p) /\ ShownInv(p)
  BY DEF CliInv, CliTypeOK
<1>2. /\ args' = args /\ stage'[p] = stage[p] /\ open'[p] = open[p]
      /\ shown'[p] = shown[p] /\ exit'[p] = exit[p]
  BY DEF CliInv, CliTypeOK, Process, Parse, DialSrc, DialDst, ResolveRoute, Operate, Report,
     WaitGrowsLate, Killed, Step, Exit, cliVars
<1>3. pc'[p] = pc[p] /\ err'[p] = err[p] /\ tx'[p] = tx[p] /\ res'[p] = res[p]
  <2>1. OpStep(o) \/ DeadlinePasses(o) \/ Crash(o) \/ UNCHANGED vars
    BY DEF Process, Parse, DialSrc, DialDst, ResolveRoute, Operate, Report, WaitGrowsLate, Killed
  <2> QED
    BY <1>1, <2>1, OperationIsLocal DEF vars, opVars
<1>4. OpenInv(p)'
  BY <1>1, <1>2 DEF OpenInv, Endpoints, AmountIs
<1>5. ShownInv(p)'
  BY <1>1, <1>2, <1>3 DEF ShownInv, Sends
<1> QED
  BY <1>4, <1>5

\* Dialing a configured chain opens the connection that was set for it.
LEMMA ConnectionIsSet ==
  ASSUME NEW i \in Invocations, NEW cfg \in Loaded[i].cfg
  PROVE  /\ Connection("src", cfg, cfg.sourceChainID) = {<<"src", i.env["SOURCE_RPC_URL"]>>}
         /\ cfg.destChainID # cfg.sourceChainID =>
              Connection("dst", cfg, cfg.destChainID) = {<<"dst", i.env["DEST_RPC_URL"]>>}
         /\ i.env["SOURCE_RPC_URL"] \in URL \cup {Malformed}
         /\ cfg.destChainID # cfg.sourceChainID => i.env["DEST_RPC_URL"] \in URL \cup {Malformed}
<1>1. cfg \in Load(i.env).cfg
  BY DEF Loaded
<1>2. Usable(i.env, cfg)
  BY <1>1, LoadedIsUsable
<1>3. /\ OneChain(i.env) <=> cfg.destChainID = cfg.sourceChainID
      /\ i.env["SOURCE_RPC_URL"] \in URL \cup {Malformed}
      /\ ~OneChain(i.env) => i.env["DEST_RPC_URL"] \in URL \cup {Malformed}
  BY <1>1, LoadedIsDialed
<1> QED
  BY <1>2, <1>3 DEF Usable, Connection

LEMMA SelfKeepsOpen ==
  ASSUME CliInv, NEW o \in Ops, Process(o) \/ WaitGrowsLate(o) \/ Killed(o)
  PROVE  OpenInv(o)' /\ open' \in [Ops -> SUBSET ({"src", "dst"} \X (URL \cup {Malformed}))]
<1>0. /\ OpenInv(o) /\ AsksFor(args[o], o) /\ args[o] \in Invocations
      /\ stage \in [Ops -> CliStages]
      /\ open \in [Ops -> SUBSET ({"src", "dst"} \X (URL \cup {Malformed}))]
  BY DEF CliInv, CliTypeOK, OpenInv
<1> USE DEF OpenInv, Endpoints
<1>a. ASSUME NEW code, Exit(o, code, {}), args' = args
      PROVE  OpenInv(o)' /\ open' \in [Ops -> SUBSET ({"src", "dst"} \X (URL \cup {Malformed}))]
  BY <1>0, <1>a DEF Exit
<1>1. CASE Parse(o)
  <2>1. CASE AmountIs(o, "nil") /\ Step(o, "dialSrc") /\ UNCHANGED <<open, args>> /\ stage[o] = "args"
    <3>1. stage'[o] = "dialSrc" /\ AmountIs(o, "nil")'
      BY <1>0, <2>1 DEF Step, AmountIs
    <3> QED
      BY <1>0, <2>1, <3>1
  <2> QED
    BY <1>1, <2>1, <1>a DEF Parse
<1>2. CASE DialSrc(o)
  <2>1. ASSUME NEW cfg \in Loaded[args[o]].cfg, stage[o] = "dialSrc",
               Step(o, IF cfg.destChainID = cfg.sourceChainID THEN "resolve" ELSE "dialDst"),
               open' = [open EXCEPT ![o] = Connection("src", cfg, cfg.sourceChainID)],
               args' = args
        PROVE  OpenInv(o)' /\ open' \in [Ops -> SUBSET ({"src", "dst"} \X (URL \cup {Malformed}))]
    <3>1. AmountIs(o, "nil") /\ AmountIs(o, "nil")'
      BY <1>0, <2>1 DEF AmountIs
    <3>2. cfg.sourceChainID = cfg.destChainID <=> Kind[o] = "same-chain"
      BY <1>0, <2>1, <3>1 DEF AsksFor, AmountIs
    <3>3. open'[o] = {<<"src", args[o].env["SOURCE_RPC_URL"]>>}
      BY <1>0, <2>1, ConnectionIsSet
    <3>4. open' \in [Ops -> SUBSET ({"src", "dst"} \X (URL \cup {Malformed}))]
      BY <1>0, <2>1, ConnectionIsSet
    <3>5. stage'[o] = IF Kind[o] = "same-chain" THEN "resolve" ELSE "dialDst"
      BY <1>0, <2>1, <3>2 DEF Step
    <3> QED
      BY <1>0, <2>1, <3>1, <3>3, <3>4, <3>5
  <2> QED
    BY <1>2, <2>1, <1>a DEF DialSrc
<1>3. CASE DialDst(o)
  <2>1. ASSUME NEW cfg \in Loaded[args[o]].cfg, stage[o] = "dialDst", Step(o, "resolve"),
               open' = [open EXCEPT ![o] = @ \cup Connection("dst", cfg, cfg.destChainID)],
               args' = args
        PROVE  OpenInv(o)' /\ open' \in [Ops -> SUBSET ({"src", "dst"} \X (URL \cup {Malformed}))]
    <3>1. AmountIs(o, "nil") /\ AmountIs(o, "nil")'
      BY <1>0, <2>1 DEF AmountIs
    <3>2. Kind[o] # "same-chain" /\ cfg.sourceChainID # cfg.destChainID
      BY <1>0, <2>1, <3>1 DEF AsksFor, AmountIs
    <3>3. Connection("dst", cfg, cfg.destChainID) = {<<"dst", args[o].env["DEST_RPC_URL"]>>}
      BY <1>0, <2>1, <3>2, ConnectionIsSet
    <3>4. args[o].env["DEST_RPC_URL"] \in URL \cup {Malformed}
      BY <1>0, <2>1, <3>2, ConnectionIsSet
    <3>5. open'[o] = Endpoints(o) /\ stage'[o] = "resolve"
      BY <1>0, <2>1, <3>2, <3>3 DEF Step
    <3>6. open' \in [Ops -> SUBSET ({"src", "dst"} \X (URL \cup {Malformed}))]
      BY <1>0, <2>1, <3>3, <3>4
    <3> QED
      BY <1>0, <2>1, <3>1, <3>5, <3>6
  <2> QED
    BY <1>3, <2>1, <1>a DEF DialDst, NoneOpen
<1>4. CASE ResolveRoute(o)
  <2>1. CASE Step(o, "operate") /\ UNCHANGED <<open, args>> /\ stage[o] = "resolve"
    <3>1. stage'[o] = "operate" /\ (AmountIs(o, "nil") => AmountIs(o, "nil")')
      BY <1>0, <2>1 DEF Step, AmountIs
    <3> QED
      BY <1>0, <2>1, <3>1
  <2> QED
    BY <1>4, <2>1, <1>a DEF ResolveRoute
<1>5. CASE Operate(o) \/ WaitGrowsLate(o)
  <2>1. UNCHANGED cliVars
    BY <1>5 DEF Operate, WaitGrowsLate
  <2> QED
    BY <1>0, <2>1 DEF cliVars, AmountIs
<1>6. CASE Report(o) \/ Killed(o)
  BY <1>6, <1>a DEF Report, Killed
<1> QED
  BY <1>1, <1>2, <1>3, <1>4, <1>5, <1>6 DEF Process

LEMMA SelfKeepsShown ==
  ASSUME CliInv, NEW o \in Ops, Process(o) \/ WaitGrowsLate(o) \/ Killed(o)
  PROVE  /\ ShownInv(o)'
         /\ stage' \in [Ops -> CliStages] /\ shown' \in [Ops -> Shown] /\ exit' \in [Ops -> Exits]
<1>0. /\ ShownInv(o) /\ TypeOK
      /\ stage \in [Ops -> CliStages] /\ shown \in [Ops -> Shown] /\ exit \in [Ops -> Exits]
      /\ pc \in [Ops -> Stages] /\ err \in [Ops -> Errors] /\ res \in [Ops -> Result]
  BY DEF CliInv, CliTypeOK, TypeOK
<1> USE DEF ShownInv, Before, Sends, CliStages, Exits, Step, Exit
<1>1. CASE Parse(o)
  <2>1. /\ pc'[o] = pc[o] /\ err'[o] = err[o] /\ tx'[o] = tx[o] /\ res'[o] = res[o]
        /\ args' = args /\ shown' = shown /\ stage[o] = "args"
    BY <1>1 DEF Parse, vars, opVars
  <2> QED
    BY <1>0, <1>1, <2>1 DEF Parse
<1>2. CASE DialSrc(o) \/ DialDst(o)
  <2>1. /\ pc'[o] = pc[o] /\ err'[o] = err[o] /\ tx'[o] = tx[o] /\ res'[o] = res[o]
        /\ args' = args /\ shown' = shown /\ stage[o] \in {"dialSrc", "dialDst"}
    BY <1>2 DEF DialSrc, DialDst, vars, opVars
  <2>2. \/ (exit' = exit /\ \E s \in {"resolve", "dialDst"} : stage' = [stage EXCEPT ![o] = s])
        \/ (/\ stage' = [stage EXCEPT ![o] = "exited"]
            /\ exit' = [exit EXCEPT ![o] = "exitRuntime"])
    BY <1>2 DEF DialSrc, DialDst
  <2> QED
    BY <1>0, <2>1, <2>2
<1>3. CASE ResolveRoute(o)
  <2>1. /\ pc'[o] = pc[o] /\ err'[o] = err[o] /\ tx'[o] = tx[o] /\ res'[o] = res[o]
        /\ args' = args /\ stage[o] = "resolve"
    BY <1>3 DEF ResolveRoute, vars, opVars
  <2>2. CASE Step(o, "operate") /\ shown' = [shown EXCEPT ![o].addrs = HasAddresses(o)]
    <3>1. shown'[o].addrs = HasAddresses(o) /\ shown' \in [Ops -> Shown]
      BY <1>0, <2>2 DEF Shown, HasAddresses
    <3> QED
      BY <1>0, <2>1, <2>2, <3>1 DEF HasAddresses
  <2>3. CASE Exit(o, "exitRuntime", {}) /\ UNCHANGED shown
    BY <1>0, <2>1, <2>3
  <2> QED
    BY <1>3, <2>2, <2>3 DEF ResolveRoute
<1>4. CASE Operate(o) \/ WaitGrowsLate(o)
  <2>1. stage[o] = "operate" /\ UNCHANGED cliVars
    BY <1>4 DEF Operate, WaitGrowsLate
  <2> QED
    BY <1>0, <2>1 DEF cliVars
<1>5. CASE Report(o)
  <2>1. /\ pc'[o] = pc[o] /\ err'[o] = err[o] /\ tx'[o] = tx[o] /\ res'[o] = res[o]
        /\ args' = args /\ stage[o] = "operate" /\ pc[o] = "done"
    BY <1>5 DEF Report, vars, opVars
  <2>2. /\ shown'[o].hash = res[o].src /\ shown'[o].addrs = shown[o].addrs
        /\ shown' \in [Ops -> Shown]
    <3> DEFINE hash == res[o].src
               notice == res[o].src /\ Kind[o] = "withdraw"
    <3>1. shown' = [shown EXCEPT ![o].hash = hash, ![o].notice = notice]
      BY <1>5 DEF Report, Reports
    <3>2. hash \in BOOLEAN /\ notice \in BOOLEAN
      BY <1>0 DEF Result
    <3> HIDE DEF hash, notice
    <3>3. shown'[o].hash = hash /\ shown'[o].addrs = shown[o].addrs /\ shown' \in [Ops -> Shown]
      BY <1>0, <3>1, <3>2 DEF Shown
    <3> QED
      BY <3>3 DEF hash
  <2>3. /\ stage' = [stage EXCEPT ![o] = "exited"]
        /\ exit' = [exit EXCEPT ![o] = IF err[o] = "nil" THEN "exitOK" ELSE "exitRuntime"]
    BY <1>5 DEF Report
  <2> QED
    BY <1>0, <2>1, <2>2, <2>3
<1>6. CASE Killed(o)
  <2>1. pc'[o] = "done" /\ tx'[o] = tx[o] /\ args' = args /\ shown' = shown /\ stage[o] = "operate"
    BY <1>0, <1>6 DEF Killed, Crash, Return
  <2> QED
    BY <1>0, <1>6, <2>1 DEF Killed
<1> QED
  BY <1>1, <1>2, <1>3, <1>4, <1>5, <1>6 DEF Process

LEMMA NextCli == CliInv /\ [CliNext]_allVars => CliInv'
<1> SUFFICES ASSUME CliInv, [CliNext]_allVars PROVE CliInv'
  OBVIOUS
<1>1. TypeOK'
  BY CliStepIsBridgeStep, NextType DEF CliInv, CliTypeOK
<1>2. ASSUME NEW o \in Ops, Process(o) \/ WaitGrowsLate(o) \/ Killed(o)
      PROVE  CliInv'
  <2>1. args' = args
    BY <1>2 DEF Process, Parse, DialSrc, DialDst, ResolveRoute, Operate, Report, WaitGrowsLate,
       Killed, cliVars
  <2>2. CliTypeOK'
    BY <1>1, <1>2, <2>1, SelfKeepsOpen, SelfKeepsShown DEF CliInv, CliTypeOK
  <2>3. ASSUME NEW p \in Ops PROVE OpenInv(p)' /\ ShownInv(p)'
    BY <1>2, <2>3, SelfKeepsOpen, SelfKeepsShown, OthersKeepCli
  <2> QED
    BY <2>2, <2>3 DEF CliInv
<1>3. CASE (EnvStep /\ UNCHANGED cliVars) \/ UNCHANGED allVars
  <2>1. UNCHANGED cliVars /\ UNCHANGED opVars
    BY <1>3 DEF EnvStep, allVars, vars
  <2>2. CliTypeOK'
    BY <1>1, <2>1 DEF CliInv, CliTypeOK, cliVars
  <2>3. ASSUME NEW p \in Ops PROVE OpenInv(p)' /\ ShownInv(p)'
    <3>1. OpenInv(p)'
      BY <2>1 DEF CliInv, OpenInv, Endpoints, AmountIs, cliVars
    <3>2. ShownInv(p)'
      BY <2>1 DEF CliInv, ShownInv, Sends, cliVars, opVars
    <3> QED
      BY <3>1, <3>2
  <2> QED
    BY <2>2, <2>3 DEF CliInv
<1> QED
  BY <1>2, <1>3 DEF CliNext, AllExited

LEMMA CliInvariant == CliSpec => []CliInv
BY InitCli, NextCli, PTL DEF CliSpec

-----------------------------------------------------------------------------
(* The theorems.                                                           *)

\* Every variable of every process keeps its type.
THEOREM CliTypeCorrect == CliSpec => []CliTypeOK
<1>1. CliInv => CliTypeOK
  BY DEF CliInv
<1> QED
  BY <1>1, CliInvariant, PTL

\* run.go:299: whatever the invocation, the contracts of a bridge route are
\* printed before anything is signed.
THEOREM ContractsAreSeen == CliSpec => []SeenBeforeSigned
<1>1. CliInv => SeenBeforeSigned
  BY DEF CliInv, ShownInv, SeenBeforeSigned
<1> QED
  BY <1>1, CliInvariant, PTL

\* run.go:199-200, 245: no process ends with a connection open, and each
\* operation has exactly those set for its chains.
THEOREM ConnectionsKept == CliSpec => []ConnectionsAreKept
<1>1. CliInv => ConnectionsAreKept
  BY DEF CliInv, OpenInv, ShownInv, Endpoints, ConnectionsAreKept, CliTypeOK
<1> QED
  BY <1>1, CliInvariant, PTL

\* run.go:135-137: the hash of every acknowledged transaction reaches the
\* operator of a process that ends by itself, and exitOK means that, while no
\* block is undone, the value has moved.
THEOREM OperatorIsTold == CliSpec => []OperatorKnows
<1>1. CliInv /\ HashReported /\ SuccessMeansMoved => OperatorKnows
  <2> SUFFICES ASSUME CliInv, HashReported, SuccessMeansMoved, NEW o \in Ops
               PROVE  /\ exit[o] \in {"exitOK", "exitRuntime"} /\ Acked(o) =>
                           shown[o].hash \/ err[o] \in HashInText
                      /\ exit[o] = "exitOK" /\ Sends(o) /\ reorgs = 0 => shown[o].hash /\ Moved(o)
    BY DEF OperatorKnows
  <2>1. ShownInv(o)
    BY DEF CliInv
  <2>2. ASSUME exit[o] \in {"exitOK", "exitRuntime"}, Acked(o)
        PROVE  shown[o].hash \/ err[o] \in HashInText
    <3>1. pc[o] = "done" /\ shown[o].hash = res[o].src
      BY <2>1, <2>2 DEF ShownInv, Acked, ReceiptStages, CreditStages, RecordStages
    <3> QED
      BY <2>2, <3>1 DEF HashReported
  <2>3. ASSUME exit[o] = "exitOK", Sends(o), reorgs = 0
        PROVE  shown[o].hash /\ Moved(o)
    <3>1. Ok(o) /\ shown[o].hash = res[o].src
      BY <2>1, <2>3 DEF ShownInv, Ok, Ended
    <3>2. Moved(o)
      BY <2>3, <3>1 DEF SuccessMeansMoved
    <3>3. Acked(o) /\ err[o] \notin HashInText /\ pc[o] = "done"
      BY <3>1 DEF Ok, Ended, Acked, HashInText
    <3> QED
      BY <3>1, <3>2, <3>3 DEF HashReported
  <2> QED
    BY <2>2, <2>3
<1> QED
  BY <1>1, CliInvariant, ProcessesAreRuns, HashIsReported, SuccessIsMoved, PTL
=============================================================================
