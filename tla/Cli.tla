-------------------------------- MODULE Cli --------------------------------
(***************************************************************************)
(* cmd/bridge/run.go: the command around an operation of Bridge.  It reads *)
(* its arguments and the environment, dials the endpoints, resolves the    *)
(* route, runs the operation, prints what there is of its Result, and      *)
(* exits.                                                                  *)
(*                                                                         *)
(* Each run of Bridge is one process.  What it makes of its arguments is   *)
(* Numbers' and Config's.  What Resolve does is the subject of Route; here *)
(* it is a call that fails or yields the kind of the route.                *)
(*                                                                         *)
(* A definition that stands right before another of the same parameters and*)
(* is used nowhere is a mistake one could make in it; the README says which*)
(* property notices.                                                       *)
(***************************************************************************)
EXTENDS BridgeProperties, Numbers, Config

CONSTANT Invocations  \* the command lines and environments the operator tries

\* amount is empty when there is no --amount, or none that could be parsed.
Subcommands == {"none", "version", "help", "unknown", "send"}
ASSUME InvocationsAssumption ==
  \A i \in Invocations :
    i.sub \in Subcommands /\ i.amount \subseteq Texts /\ DOMAIN i.env = EnvVars

\* What parseEther and Load make of each.
AmountRead == [i \in Invocations |-> {ParseEther(t) : t \in i.amount}]
Loaded == [i \in Invocations |-> Load(i.env)]

VARIABLES
  args,   \* args[o]: what process o was given
  stage,  \* stage[o]: what it does next
  open,   \* open[o]: its open connections, each with the endpoint dialed
  shown,  \* shown[o]: what it has printed for the operator to see
  exit    \* exit[o]: how it ended

cliVars == <<args, stage, open, shown, exit>>
allVars == <<vars, cliVars>>

Exits == {"running", "exitOK", "exitRuntime", "exitUsage", "panicked", "killed"}
CliStages == {"args", "dialSrc", "dialDst", "resolve", "operate", "exited"}
Shown == [addrs : BOOLEAN, hash : BOOLEAN, notice : BOOLEAN]
Nothing == [addrs |-> FALSE, hash |-> FALSE, notice |-> FALSE]

CliTypeOK ==
  /\ TypeOK
  /\ args \in [Ops -> Invocations]
  /\ stage \in [Ops -> CliStages]
  /\ open \in [Ops -> SUBSET ({"src", "dst"} \X (URL \cup {Malformed}))]
  /\ shown \in [Ops -> Shown]
  /\ exit \in [Ops -> Exits]

\* The operation of Bridge that may follow is the one these arguments ask for.
AsksFor(i, o) ==
  \A w \in AmountRead[i], cfg \in Loaded[i].cfg :
    w.err = "nil" =>
      /\ w.wei = Amount[o]
      /\ cfg.sourceChainID = cfg.destChainID <=> Kind[o] = "same-chain"

CliInit ==
  /\ Init
  /\ args \in {f \in [Ops -> Invocations] : \A o \in Ops : AsksFor(f[o], o)}
  /\ stage = [o \in Ops |-> "args"]
  /\ open = [o \in Ops |-> {}]
  /\ shown = [o \in Ops |-> Nothing]
  /\ exit = [o \in Ops |-> "running"]

-----------------------------------------------------------------------------
Step(o, s) == stage' = [stage EXCEPT ![o] = s] /\ UNCHANGED exit

\* The process ends with its connections as given.
Exit(o, code, connections) ==
  /\ stage' = [stage EXCEPT ![o] = "exited"]
  /\ exit' = [exit EXCEPT ![o] = code]
  /\ open' = [open EXCEPT ![o] = connections]

Sends(o) == args[o].sub = "send"
AmountIs(o, e) == \E w \in AmountRead[args[o]] : w.err = e
Refused(o) ==
  \/ args[o].amount = {} \/ AmountIs(o, "ErrBadAmount")
  \/ AmountIs(o, "nil") /\ Loaded[args[o]].err # "nil"

\* run, and runSend up to dispatch: nothing is dialed before the amount and
\* then the configuration are found good.
Parse(o) ==
  /\ stage[o] = "args"
  /\ \/ args[o].sub \in {"version", "help"} /\ Exit(o, "exitOK", {})
     \/ args[o].sub \in {"none", "unknown"} /\ Exit(o, "exitUsage", {})
     \/ Sends(o) /\ AmountIs(o, "panic") /\ Exit(o, "panicked", {})
     \/ Sends(o) /\ Refused(o) /\ Exit(o, "exitUsage", {})
     \/ /\ Sends(o) /\ AmountIs(o, "nil") /\ ~Refused(o)
        /\ Step(o, "dialSrc")
        /\ UNCHANGED open
  /\ UNCHANGED <<vars, args, shown>>

\* dialChain.
Connection(side, cfg, id) == {side} \X RPCFor(cfg, id)

\* A same-chain transfer uses its one connection for both ends.
DialSrc(o) ==
  /\ stage[o] = "dialSrc"
  /\ \/ \E cfg \in Loaded[args[o]].cfg :
          /\ Step(o, IF cfg.destChainID = cfg.sourceChainID THEN "resolve" ELSE "dialDst")
          /\ open' = [open EXCEPT ![o] = Connection("src", cfg, cfg.sourceChainID)]
     \/ Exit(o, "exitRuntime", {})
  /\ UNCHANGED <<vars, args, shown>>

\* What dialRoute leaves open when the second dial fails.
SrcStillOpen(o) == open[o]
NoneOpen(o) == {}

DialDst(o) ==
  /\ stage[o] = "dialDst"
  /\ \/ \E cfg \in Loaded[args[o]].cfg :
          /\ Step(o, "resolve")
          /\ open' = [open EXCEPT ![o] = @ \cup Connection("dst", cfg, cfg.destChainID)]
     \/ Exit(o, "exitRuntime", NoneOpen(o))
  /\ UNCHANGED <<vars, args, shown>>

\* reportAddresses prints for either bridge route.
WithdrawalHasAddresses(o) == Kind[o] = "withdraw"
HasAddresses(o) == Kind[o] # "same-chain"

ResolveRoute(o) ==
  /\ stage[o] = "resolve"
  /\ \/ /\ Step(o, "operate")
        /\ shown' = [shown EXCEPT ![o].addrs = HasAddresses(o)]
        /\ UNCHANGED open
     \/ Exit(o, "exitRuntime", {}) /\ UNCHANGED shown
  /\ UNCHANGED <<vars, args>>

\* The operation, one call of a node at a time.
Operate(o) == stage[o] = "operate" /\ OpStep(o) /\ UNCHANGED cliVars

\* report prints nothing without a hash, whatever the error.
ReportsSuccess(o) == res[o].src /\ err[o] = "nil"
Reports(o) == res[o].src

\* report, and the end of runSend.
Report(o) ==
  /\ stage[o] = "operate"
  /\ pc[o] = "done"
  /\ shown' = [shown EXCEPT ![o].hash = Reports(o),
                            ![o].notice = Reports(o) /\ Kind[o] = "withdraw"]
  /\ Exit(o, IF err[o] = "nil" THEN "exitOK" ELSE "exitRuntime", {})
  /\ UNCHANGED <<vars, args>>

WaitGrowsLate(o) == stage[o] = "operate" /\ DeadlinePasses(o) /\ UNCHANGED cliVars

\* A process killed while it operates; killed earlier, it has done nothing.
Killed(o) ==
  /\ stage[o] = "operate"
  /\ Crash(o)
  /\ Exit(o, "killed", {})
  /\ UNCHANGED <<args, shown>>

Process(o) ==
  \/ Parse(o) \/ DialSrc(o) \/ DialDst(o) \/ ResolveRoute(o)
  \/ Operate(o) \/ Report(o)

AllExited == (\A o \in Ops : stage[o] = "exited") /\ UNCHANGED allVars

CliNext ==
  \/ \E o \in Ops : Process(o) \/ WaitGrowsLate(o) \/ Killed(o)
  \/ EnvStep /\ UNCHANGED cliVars
  \/ AllExited

CliSpec == CliInit /\ [][CliNext]_allVars

\* A process keeps going while its calls are answered, and time passes.
CliFairSpec ==
  /\ CliSpec
  /\ \A o \in Ops : WF_allVars(Process(o)) /\ WF_allVars(WaitGrowsLate(o))

-----------------------------------------------------------------------------
\* run.go:299 "It prints before anything is sent, on purpose": the operator has
\* seen the contracts of a bridge route before anything is signed.
SeenBeforeSigned ==
  \A o \in Ops : tx[o].fee > 0 /\ Kind[o] # "same-chain" => shown[o].addrs

\* run.go:135-137: a process that ends by itself has told the hash of every
\* transaction the node acknowledged, on a line of its own or in the text of
\* the error, and exits with exitOK only if that transaction went through.
OperatorKnows ==
  \A o \in Ops :
    /\ exit[o] \in {"exitOK", "exitRuntime"} /\ Acked(o) =>
         shown[o].hash \/ err[o] \in HashInText
    /\ exit[o] = "exitOK" /\ Sends(o) /\ reorgs = 0 => shown[o].hash /\ Moved(o)

\* Every connection that was opened is closed, also when a later dial or the
\* resolution fails, and none is closed while the operation still uses it: it
\* has the endpoint that the environment names for each of its chains.
ConnectionsAreKept ==
  \A o \in Ops :
    /\ exit[o] # "running" => open[o] = {}
    /\ stage[o] = "operate" =>
         open[o] = {<<"src", args[o].env["SOURCE_RPC_URL"]>>} \cup
                     (IF Kind[o] = "same-chain" THEN {}
                      ELSE {<<"dst", args[o].env["DEST_RPC_URL"]>>})

\* Every process ends, even if its transaction is never mined and its deposit
\* never credited.
AllExit == \A o \in Ops : <>(exit[o] # "running")

\* run.go:184 "The saved JSON holds the parameters both steps need": printed
\* also when the withdrawal reverted or its record could not be written.
NoticeMeansSaved ==
  \A o \in Ops : shown[o].notice => \E r \in saved : r.tx = tx[o]
=============================================================================
