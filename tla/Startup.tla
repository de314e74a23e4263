------------------------------ MODULE Startup ------------------------------
(***************************************************************************)
(* The process from its command line to its exit.  Without a subcommand    *)
(* main.start reads the configuration and the roles, fills the             *)
(* configuration in, creates, initialises and starts the handlers, waits   *)
(* for a signal and for the goroutines of the wait group, and exits.  A    *)
(* subcommand is done with the configuration filled in, without roles.     *)
(*                                                                         *)
(* A configuration gives each chain two header syncs, 0 and 1, each of     *)
(* them nil or an entry.  Go iterates over maps in any order.  A nil       *)
(* pointer that is dereferenced panics.                                    *)
(***************************************************************************)
EXTENDS Integers, Sequences, FiniteSets

CONSTANTS Nil,          \* a chain id, or a pointer, that is not set
          Configs,      \* the configurations a file may hold
          RoleFiles,    \* the roles files: functions from chains to BOOLEAN
          NodesAnswer   \* no call to a node fails while the process starts

\* The three chains of base, and any other.
ChainIds == {"TOP", "ETH", "BSC", "other"}

\* A header sync: chain is the embedded ListenerConfig's ChainId, submitter the
\* Submitter's; each is Nil when the file leaves the struct out.
Entry == [chain : ChainIds \cup {Nil}, submitter : ChainIds \cup {Nil},
          enabled : BOOLEAN]

Slots == {0, 1}

\* The subcommands of the command line; HandleCommand knows both.
Commands == {"wallet", "createaccount"}

ASSUME StartupAssumption ==
  /\ \A c \in Configs :
       c.headerSync \in [DOMAIN c.headerSync -> [Slots -> Entry \cup {Nil}]]
  /\ \A r \in RoleFiles : r \in [DOMAIN r -> BOOLEAN]
  /\ Nil \notin Entry

VARIABLES
  command,    \* the subcommand given, or "start"
  env,        \* Env of the file
  declared,   \* ChainId written in the file for a chain, or Nil
  headerSync, \* c.Chains[id].HeaderSync
  roles,      \* the roles file
  accounts,   \* keystore accounts this process created
  stage,      \* where main.start is
  todo,       \* keys of the map being iterated over that are still to come
  handlers,   \* s.roles: the handlers, each the chain and slot of its entry
  at,         \* index of the handler to initialise or start next
  cancelled,  \* cancel() was called
  status,     \* what the process exits with
  wg,         \* counter of the wait group
  gor         \* the goroutines start and watch of each handler

confVars == <<command, env, declared, headerSync, roles>>
vars == <<command, env, declared, headerSync, roles, accounts, stage, todo,
          handlers, at, cancelled, status, wg, gor>>

Chains == DOMAIN headerSync

Goroutines(hs) == {"start", "watch"} \X {hs[i] : i \in 1 .. Len(hs)}

Init ==
  /\ command \in Commands \cup {"start"}
  /\ \E c \in Configs : /\ env = c.env
                        /\ declared = c.declared
                        /\ headerSync = c.headerSync
  /\ roles \in RoleFiles
  /\ accounts = 0
  /\ stage = "cli"
  /\ todo = {}
  /\ handlers = <<>>
  /\ at = 1
  /\ cancelled = FALSE
  /\ status = 0
  /\ wg = 0
  /\ gor = << >>

Panic == stage' = "panicked" /\ UNCHANGED status

ExitEarly == stage' = "exited" /\ status' = 2

lateVars == <<accounts, handlers, at, cancelled, wg, gor>>

-----------------------------------------------------------------------------
(* The command line, config.New, ReadRoles and Config.Init *)

\* A subcommand without the flag it requires is fatal.
ParseArguments ==
  /\ stage = "cli"
  /\ \/ stage' = "new" /\ UNCHANGED status
     \/ command \in Commands /\ ExitEarly
  /\ UNCHANGED <<confVars, todo, lateVars>>

\* A file made for another environment than the build's is fatal.
New ==
  /\ stage = "new"
  /\ \/ /\ env = "mainnet"
        /\ command = "start"
        /\ stage' = "roles"
        /\ todo' = DOMAIN roles
        /\ UNCHANGED status
     \/ /\ env = "mainnet"
        /\ command \in Commands
        /\ stage' = "config"
        /\ todo' = Chains
        /\ UNCHANGED status
     \/ /\ env # "mainnet"
        /\ ExitEarly
        /\ UNCHANGED todo
  /\ UNCHANGED <<confVars, lateVars>>

HasBoth(c) == c \in Chains /\ \A s \in Slots : headerSync[c][s] # Nil

\* Mutant: a role can switch header syncs on, not off.
ApplyRoleOn ==
  /\ stage = "roles"
  /\ \E c \in todo :
       /\ todo' = todo \ {c}
       /\ IF c = "TOP"
            THEN UNCHANGED <<headerSync, stage, status>>
          ELSE IF HasBoth(c)
            THEN /\ headerSync' =
                      [headerSync EXCEPT ![c] =
                        [s \in Slots |-> [@[s] EXCEPT !.enabled = @ \/ roles[c]]]]
                 /\ UNCHANGED <<stage, status>>
          ELSE Panic /\ UNCHANGED headerSync
  /\ UNCHANGED <<command, env, declared, roles, lateVars>>

\* A role switches both header syncs of its chain, without looking for nil; a
\* chain the file does not have gets a ChainConfig with two of them.
ApplyRole ==
  /\ stage = "roles"
  /\ \E c \in todo :
       /\ todo' = todo \ {c}
       /\ IF c = "TOP"
            THEN UNCHANGED <<headerSync, stage, status>>
          ELSE IF HasBoth(c)
            THEN /\ headerSync' =
                      [headerSync EXCEPT ![c] =
                        [s \in Slots |-> [@[s] EXCEPT !.enabled = roles[c]]]]
                 /\ UNCHANGED <<stage, status>>
          ELSE Panic /\ UNCHANGED headerSync
  /\ UNCHANGED <<command, env, declared, roles, lateVars>>

RolesApplied ==
  /\ stage = "roles"
  /\ todo = {}
  /\ stage' = "config"
  /\ todo' = Chains
  /\ UNCHANGED <<confVars, lateVars, status>>

\* ChainConfig.Init fills a header sync in when it is nil, by way of that nil.
InitChain ==
  /\ stage = "config"
  /\ \E c \in todo :
       /\ todo' = todo \ {c}
       /\ IF declared[c] \notin {Nil, c} THEN ExitEarly
          ELSE IF HasBoth(c) THEN UNCHANGED <<stage, status>>
          ELSE Panic
  /\ UNCHANGED <<confVars, lateVars>>

\* Mutant: the configuration of a command is served.
ConfigInitialisedServes ==
  /\ stage = "config"
  /\ todo = {}
  /\ stage' = "parse"
  /\ todo' = Chains
  /\ UNCHANGED <<confVars, lateVars, status>>

ConfigInitialised ==
  /\ stage = "config"
  /\ todo = {}
  /\ stage' = IF command = "start" THEN "parse" ELSE "command"
  /\ todo' = Chains
  /\ UNCHANGED <<confVars, lateVars, status>>

-----------------------------------------------------------------------------
(* The subcommands *)

\* Prints the names of the chains.
CheckWallet == command = "wallet" /\ UNCHANGED accounts

\* Without a path, or when the keystore refuses, no account is created.
CreateAccount ==
  /\ command = "createaccount"
  /\ \/ accounts' = accounts + 1
     \/ UNCHANGED accounts

HandleCommand == CheckWallet \/ CreateAccount

\* Its error is logged: the process exits with status 0 whatever became of it.
RunCommand ==
  /\ stage = "command"
  /\ HandleCommand
  /\ stage' = "exited"
  /\ UNCHANGED <<confVars, todo, handlers, at, cancelled, status, wg, gor>>

-----------------------------------------------------------------------------
(* Server.Start *)

Active(c) == c \in DOMAIN roles

Entries(c) == {s \in Slots : headerSync[c][s] # Nil /\ headerSync[c][s].enabled}

\* NewHeaderSyncHandler reads ChainId and Submitter.ChainId.
Readable(e) == e.chain # Nil /\ e.submitter # Nil

\* Mutant: the second direction is only looked at when the first is off.
HandlerOf(c) ==
  LET es == Entries(c)
  IN  IF 0 \in es THEN <<<<c, 0>>>> ELSE IF 1 \in es THEN <<<<c, 1>>>> ELSE <<>>

\* The handlers of a chain, in the order of their slots.
HandlersOf(c) ==
  LET InSlot(s) == IF s \in Entries(c) THEN <<<<c, s>>>> ELSE <<>>
  IN  InSlot(0) \o InSlot(1)

ParseHandlers ==
  /\ stage = "parse"
  /\ \E c \in todo :
       /\ todo' = todo \ {c}
       /\ IF ~ Active(c)
            THEN UNCHANGED <<handlers, stage, status>>
          ELSE IF \A s \in Entries(c) : Readable(headerSync[c][s])
            THEN handlers' = handlers \o HandlersOf(c) /\ UNCHANGED <<stage, status>>
          ELSE Panic /\ UNCHANGED handlers
  /\ UNCHANGED <<confVars, accounts, at, cancelled, wg, gor>>

HandlersParsed ==
  /\ stage = "parse"
  /\ todo = {}
  /\ stage' = "init"
  /\ gor' = [g \in Goroutines(handlers) |-> "none"]
  /\ UNCHANGED <<confVars, accounts, todo, handlers, at, cancelled, status, wg>>

EntryAt(i) == headerSync[handlers[i][1]][handlers[i][2]]

\* GetSubmitter: which submitter the chain id selects.
GetSubmitter(c) ==
  CASE c \in {"ETH", "BSC"} -> "eth"
    [] c = "TOP" -> "top"
    [] OTHER -> Nil

\* GetListener: which listener.
GetListener(c) ==
  CASE c \in {"ETH", "BSC"} -> "eth"
    [] c = "TOP" -> "top"
    [] OTHER -> Nil

\* Submitter.Init refuses all source chains but one.
EthSubmitterInit(c) == c = "ETH"
TopSubmitterInit(c) == c = "TOP"

SubmitterInit(e) ==
  IF GetSubmitter(e.submitter) = "eth" THEN EthSubmitterInit(e.chain)
                                       ELSE TopSubmitterInit(e.chain)

\* The listener's Init: TOP's refuses any other chain.
TopListenerInit(c) == c = "TOP"

ListenerInit(c) == GetListener(c) = "top" => TopListenerInit(c)

\* Init of a handler finds nothing wrong with the entry.
InitAccepts(e) ==
  SubmitterInit(e) /\ GetListener(e.chain) # Nil /\ ListenerInit(e.chain)

\* Mutant: a start that fails is not told apart from one that served.
FailsQuietly == stage' = "stopping" /\ cancelled' = TRUE /\ UNCHANGED status

\* Server.Start returns an error: cancel, wait, exit with status 2.
Fails == stage' = "stopping" /\ cancelled' = TRUE /\ status' = 2

\* HeaderSyncHandler.Init; a node may not answer.
InitHandler ==
  /\ stage = "init"
  /\ at <= Len(handlers)
  /\ LET e == EntryAt(at)
     IN  \/ /\ GetSubmitter(e.submitter) = Nil
            /\ Panic
            /\ UNCHANGED <<at, cancelled>>
         \/ /\ GetSubmitter(e.submitter) # Nil
            /\ InitAccepts(e)
            /\ at' = at + 1
            /\ UNCHANGED <<stage, cancelled, status>>
         \/ /\ GetSubmitter(e.submitter) # Nil
            /\ NodesAnswer => ~ InitAccepts(e)
            /\ Fails
            /\ UNCHANGED at
  /\ UNCHANGED <<confVars, accounts, todo, handlers, wg, gor>>

HandlersInitialised ==
  /\ stage = "init"
  /\ at > Len(handlers)
  /\ stage' = "start"
  /\ at' = 1
  /\ UNCHANGED <<confVars, accounts, todo, handlers, cancelled, status, wg, gor>>

\* Mutant: StartSync knows what chain id 0 means.
StartSyncKnowsTop(e) == TRUE

\* StartSync of both submitters takes chain id 0, TOP's, for a missing one.
StartSyncAccepts(e) == e.chain # "TOP"

\* The height the contract of the other side is at is read from a node.
LastHeaderSyncFails == ~ NodesAnswer

\* HeaderSyncHandler.Start
StartHandler ==
  /\ stage = "start"
  /\ at <= Len(handlers)
  /\ \/ /\ StartSyncAccepts(EntryAt(at))
        /\ gor' = [g \in DOMAIN gor |->
                    IF g[2] = handlers[at] THEN "spawned" ELSE gor[g]]
        /\ at' = at + 1
        /\ UNCHANGED <<stage, cancelled, status>>
     \/ /\ LastHeaderSyncFails \/ ~ StartSyncAccepts(EntryAt(at))
        /\ Fails
        /\ UNCHANGED <<at, gor>>
  /\ UNCHANGED <<confVars, accounts, todo, handlers, wg>>

HandlersStarted ==
  /\ stage = "start"
  /\ at > Len(handlers)
  /\ stage' = "serving"
  /\ UNCHANGED <<confVars, accounts, todo, handlers, at, cancelled, status, wg, gor>>

-----------------------------------------------------------------------------
(* The goroutines, and the end *)

\* A goroutine adds itself to the wait group when it runs for the first time,
\* which may be after cancel, and after main has stopped waiting.
Begin ==
  /\ stage \notin {"exited", "panicked"}
  /\ \E g \in DOMAIN gor :
       /\ gor[g] = "spawned"
       /\ gor' = [gor EXCEPT ![g] = IF cancelled THEN "late" ELSE "running"]
  /\ wg' = wg + 1
  /\ UNCHANGED <<confVars, accounts, stage, todo, handlers, at, cancelled, status>>

\* Mutant: a goroutine leaves the wait group again after it has left.
FinishTwice ==
  /\ stage \notin {"exited", "panicked"}
  /\ cancelled
  /\ \E g \in DOMAIN gor :
       /\ gor[g] \in {"running", "late", "finished"}
       /\ gor' = [gor EXCEPT ![g] = "finished"]
  /\ wg' = wg - 1
  /\ UNCHANGED <<confVars, accounts, stage, todo, handlers, at, cancelled, status>>

\* Mutant: a goroutine returns without leaving the wait group.
FinishSilently ==
  /\ stage \notin {"exited", "panicked"}
  /\ cancelled
  /\ \E g \in DOMAIN gor :
       /\ gor[g] \in {"running", "late"}
       /\ gor' = [gor EXCEPT ![g] = "finished"]
  /\ UNCHANGED <<confVars, accounts, stage, todo, handlers, at, cancelled, status, wg>>

Finish ==
  /\ stage \notin {"exited", "panicked"}
  /\ cancelled
  /\ \E g \in DOMAIN gor :
       /\ gor[g] \in {"running", "late"}
       /\ gor' = [gor EXCEPT ![g] = "finished"]
  /\ wg' = wg - 1
  /\ UNCHANGED <<confVars, accounts, stage, todo, handlers, at, cancelled, status>>

Signal ==
  /\ stage = "serving"
  /\ stage' = "stopping"
  /\ cancelled' = TRUE
  /\ UNCHANGED <<confVars, accounts, todo, handlers, at, status, wg, gor>>

\* Mutant: main does not wait for the handlers of a start that failed.
WaitAfterSignal ==
  /\ stage = "stopping"
  /\ status = 2 \/ wg = 0
  /\ stage' = "exiting"
  /\ UNCHANGED <<confVars, accounts, todo, handlers, at, cancelled, status, wg, gor>>

Wait ==
  /\ stage = "stopping"
  /\ wg = 0
  /\ stage' = "exiting"
  /\ UNCHANGED <<confVars, accounts, todo, handlers, at, cancelled, status, wg, gor>>

Exit ==
  /\ stage = "exiting"
  /\ stage' = "exited"
  /\ UNCHANGED <<confVars, accounts, todo, handlers, at, cancelled, status, wg, gor>>

Ended ==
  /\ stage \in {"exited", "panicked"}
  /\ UNCHANGED vars

Main ==
  \/ ParseArguments
  \/ New \/ ApplyRole \/ RolesApplied \/ InitChain \/ ConfigInitialised
  \/ RunCommand
  \/ ParseHandlers \/ HandlersParsed
  \/ InitHandler \/ HandlersInitialised \/ StartHandler \/ HandlersStarted
  \/ Wait \/ Exit

Next == Main \/ Signal \/ Begin \/ Finish \/ Ended

Spec == Init /\ [][Next]_vars

\* Main and the goroutines are scheduled; a goroutine that is cancelled ends (for
\* the handler, HeaderSync says when).  No signal need come.
FairSpec == Spec /\ WF_vars(Main) /\ WF_vars(Begin) /\ WF_vars(Finish)

-----------------------------------------------------------------------------
(* Properties *)

Stages == {"cli", "new", "roles", "config", "command", "parse", "init", "start",
           "serving", "stopping", "exiting", "exited", "panicked"}

TypeOK ==
  /\ \A c \in Chains, s \in Slots : headerSync[c][s] # Nil => headerSync[c][s] \in Entry
  /\ stage \in Stages
  /\ accounts \in {0, 1}
  /\ todo \subseteq Chains \cup DOMAIN roles
  /\ at \in 1 .. Len(handlers) + 1
  /\ cancelled \in BOOLEAN
  /\ status \in {0, 2}
  /\ wg \in 0 .. 2 * Len(handlers)
  /\ \A g \in DOMAIN gor : gor[g] \in {"none", "spawned", "running", "late", "finished"}

\* The process serves only when each header sync a role switches on, in whatever
\* order the maps were gone through, has its two goroutines.
ServingIsComplete ==
  stage = "serving" =>
    \A c \in Chains \cap DOMAIN roles, s \in Slots :
      headerSync[c][s].enabled =>
        \A n \in {"start", "watch"} :
          <<n, <<c, s>>>> \in DOMAIN gor /\ gor[<<n, <<c, s>>>>] # "none"

\* Of which header syncs a process that gets past parseHandlers has handlers is
\* for the roles to say, whatever the file switches on and in whatever order the
\* maps are gone through: of both of a chain whose role is on, of none of a chain
\* whose role is off or not given.  TOP is the exception: ApplyRoles does not look
\* at its flag, and with a role of TOP, on or off, the file has the say.
RolesDecide ==
  stage \in {"init", "start", "serving"} =>
    \A c \in Chains, s \in Slots :
      (\E i \in 1 .. Len(handlers) : handlers[i] = <<c, s>>)
        <=> /\ c \in DOMAIN roles
            /\ IF c = "TOP" THEN s \in Entries(c) ELSE roles[c]

\* What a file may switch on and what runs differ: the checks of Init and of
\* StartSync, which are made in different loops, let goroutines come up for one
\* kind of entry only, from ETH and with the submitter for ETH and BSC.
OnlyFromEth ==
  \A g \in DOMAIN gor :
    gor[g] # "none" =>
      LET e == headerSync[g[2][1]][g[2][2]]
      IN  e.chain = "ETH" /\ GetSubmitter(e.submitter) = "eth"

\* The process exits only after every goroutine that ran when it was told to
\* stop has ended; also when one handler failed to start after others had.
ExitWaits == stage = "exited" => \A g \in DOMAIN gor : gor[g] # "running"

\* What the exit status says: 2 that nothing was done for a command, 0 of a relayer
\* that every handler its roles switch on was started before it was told to stop,
\* also when some were started and a later one failed.
ExitStatus ==
  stage = "exited" =>
    /\ status = 2 => accounts = 0
    /\ status = 0 /\ command = "start" =>
         \A g \in DOMAIN gor : gor[g] # "none"

\* A process that is given a command ends: it neither serves nor waits.
CommandEnds == command # "start" ~> stage \in {"exited", "panicked"}

\* A process that is told to stop, or fails to start, exits.
StopEnds == cancelled ~> stage = "exited"

\* The configuration can be served: with nodes that answer, the process gets to
\* the point where it relays.
Serves == command = "start" ~> stage = "serving"

-----------------------------------------------------------------------------
(* The inductive invariants *)

Counted == {g \in DOMAIN gor : gor[g] \in {"running", "late"}}

\* The wait group counts the goroutines that run, and cancel comes before Wait.
GoroutinesInv ==
  /\ gor = [g \in DOMAIN gor |-> gor[g]]
  /\ IsFiniteSet(Counted) /\ wg = Cardinality(Counted)
  /\ stage \in {"cli", "new", "roles", "config", "command", "parse"} => DOMAIN gor = {}
  /\ stage \notin {"stopping", "exiting", "exited", "panicked"} => ~ cancelled
  /\ stage \in {"stopping", "exiting"} => cancelled
  /\ stage \in {"exiting", "exited"} => \A g \in DOMAIN gor : gor[g] # "running"

FilesInv ==
  /\ headerSync \in [Chains -> [Slots -> Entry \cup {Nil}]]
  /\ roles \in [DOMAIN roles -> BOOLEAN]
  /\ handlers \in Seq(Chains \X Slots)
  /\ at \in Nat \ {0}
  /\ stage = "roles" => todo \subseteq DOMAIN roles
  /\ stage = "parse" => todo \subseteq Chains

\* Only a process without a subcommand reads roles and starts handlers.
CommandInv ==
  /\ stage \in {"roles", "parse", "init", "start", "serving", "stopping", "exiting"}
       => command = "start"
  /\ stage = "command" => command # "start"

\* What a role says is so for both header syncs of its chain.
Switched(c) ==
  c \in Chains \ {"TOP"} =>
    \A s \in Slots : headerSync[c][s] # Nil /\ headerSync[c][s].enabled = roles[c]

\* How far the loops over the roles and the chains have come.
RolesInv ==
  /\ stage = "roles" => \A c \in DOMAIN roles \ todo : Switched(c)
  /\ stage \in {"config", "parse", "init", "start", "serving"} /\ command = "start" =>
       \A c \in DOMAIN roles : Switched(c)
  /\ stage = "config" => \A c \in Chains \ todo : HasBoth(c)
  /\ stage = "parse" => \A c \in Chains : HasBoth(c)

\* Each header sync of the chain that is switched on has a handler.
Handled(c) ==
  c \in DOMAIN roles =>
    \A s \in Slots : headerSync[c][s].enabled =>
      \E i \in 1 .. Len(handlers) : handlers[i] = <<c, s>>

\* There is one handler of each header sync that is switched on.
HandlersInv ==
  /\ stage \in {"cli", "new", "roles", "config", "command"} => handlers = <<>>
  /\ stage = "parse" => \A c \in Chains \ todo : Handled(c)
  /\ stage = "parse" => \A i \in 1 .. Len(handlers) : handlers[i][1] \notin todo
  /\ stage \in {"init", "start", "serving"} => \A c \in Chains : Handled(c)
  /\ \A i, j \in 1 .. Len(handlers) : handlers[i] = handlers[j] => i = j

\* A handler is of a header sync that is switched on, of a chain with a role.
SwitchedOn ==
  \A i \in 1 .. Len(handlers) :
    handlers[i][1] \in DOMAIN roles /\ handlers[i][2] \in Entries(handlers[i][1])

AllStarted == \A g \in DOMAIN gor : gor[g] # "none"

\* The handlers before the next one have their goroutines.
StartedInv ==
  /\ stage \in {"init", "start", "serving"} => DOMAIN gor = Goroutines(handlers)
  /\ stage = "init" => \A g \in DOMAIN gor : gor[g] = "none"
  /\ stage = "start" =>
       \A g \in DOMAIN gor, i \in 1 .. Len(handlers) :
         g[2] = handlers[i] => (gor[g] = "none" <=> i >= at)
  /\ stage = "serving" => AllStarted

\* What the status will say.
StatusInv ==
  /\ stage \notin {"stopping", "exiting", "exited", "panicked"} => status = 0
  /\ stage # "exited" => accounts = 0
  /\ stage \in {"stopping", "exiting"} /\ status = 0 => AllStarted
  /\ ExitStatus

\* The values that TypeOK speaks of, and the goroutines that there are to count.
ValuesInv ==
  /\ stage \in Stages
  /\ accounts \in {0, 1}
  /\ todo \subseteq Chains \cup DOMAIN roles
  /\ at <= Len(handlers) + 1
  /\ cancelled \in BOOLEAN
  /\ status \in {0, 2}
  /\ DOMAIN gor \subseteq Goroutines(handlers)
  /\ \A g \in DOMAIN gor : gor[g] \in {"none", "spawned", "running", "late", "finished"}

\* What Init found of the entries it has looked at.
AcceptedInv ==
  /\ stage \in {"cli", "new", "roles", "config", "command", "parse"} => at = 1
  /\ stage = "init" => \A i \in 1 .. Len(handlers) : i < at => InitAccepts(EntryAt(i))
  /\ stage = "start" => \A i \in 1 .. Len(handlers) : InitAccepts(EntryAt(i))
  /\ OnlyFromEth

StartInv ==
  /\ GoroutinesInv /\ FilesInv /\ CommandInv /\ RolesInv
  /\ HandlersInv /\ StartedInv /\ SwitchedOn /\ StatusInv
=============================================================================
