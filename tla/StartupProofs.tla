--------------------------- MODULE StartupProofs ---------------------------
(***************************************************************************)
(* The start of the process is right for every configuration, every roles  *)
(* file and every order in which Go goes through the maps: StartInv of     *)
(* Startup is inductive, one lemma for each action, and gives the rest.    *)
(***************************************************************************)
EXTENDS Startup, FiniteSetTheorems, TLAPS

\* parseHandlers makes one handler of each header sync that is switched on.
LEMMA HandlersOfChain ==
  ASSUME NEW c
  PROVE  /\ HandlersOf(c) \in Seq({c} \X Entries(c))
         /\ \A i, j \in 1 .. Len(HandlersOf(c)) :
              HandlersOf(c)[i] = HandlersOf(c)[j] => i = j
         /\ \A s \in Entries(c) :
              \E i \in 1 .. Len(HandlersOf(c)) : HandlersOf(c)[i] = <<c, s>>
<1>0. Entries(c) \subseteq {0, 1}
  BY DEF Entries, Slots
<1>1. CASE 0 \in Entries(c) /\ 1 \in Entries(c)
  <2>1. HandlersOf(c) = <<<<c, 0>>>> \o <<<<c, 1>>>>
    BY <1>1 DEF HandlersOf
  <2>2. <<<<c, 0>>>> \in Seq({c} \X Entries(c)) /\ <<<<c, 1>>>> \in Seq({c} \X Entries(c))
    BY <1>1
  <2>3. Len(HandlersOf(c)) = 2 /\ HandlersOf(c)[1] = <<c, 0>> /\ HandlersOf(c)[2] = <<c, 1>>
    BY <2>1, <2>2
  <2>4. HandlersOf(c) \in Seq({c} \X Entries(c))
    BY <2>1, <2>2
  <2> QED
    BY <1>0, <1>1, <2>3, <2>4
<1>2. CASE 0 \in Entries(c) /\ 1 \notin Entries(c)
  <2>1. HandlersOf(c) = <<<<c, 0>>>>
    BY <1>2 DEF HandlersOf
  <2> QED
    BY <1>0, <1>2, <2>1
<1>3. CASE 0 \notin Entries(c) /\ 1 \in Entries(c)
  <2>1. HandlersOf(c) = <<<<c, 1>>>>
    BY <1>3 DEF HandlersOf
  <2> QED
    BY <1>0, <1>3, <2>1
<1>4. CASE 0 \notin Entries(c) /\ 1 \notin Entries(c)
  <2>1. HandlersOf(c) = <<>>
    BY <1>4 DEF HandlersOf
  <2> QED
    BY <1>0, <1>4, <2>1
<1> QED
  BY <1>1, <1>2, <1>3, <1>4

\* What is said of the handlers stays when the goroutines are all that changes.
LEMMA HandlersKept ==
  ASSUME HandlersInv, UNCHANGED <<headerSync, roles, handlers>>,
         \/ UNCHANGED <<stage, todo>>
         \/ /\ stage \in {"init", "start", "serving"}
            /\ stage' \in {"init", "start", "serving", "stopping", "panicked"}
  PROVE  HandlersInv'
<1>1. \A c \in Chains : Handled(c) <=> Handled(c)'
  BY DEF Handled, Chains
<1>2. CASE UNCHANGED <<stage, todo>>
  BY <1>1, <1>2 DEF HandlersInv, Chains
<1>3. CASE /\ stage \in {"init", "start", "serving"}
           /\ stage' \in {"init", "start", "serving", "stopping", "panicked"}
  BY <1>1, <1>3 DEF HandlersInv, Chains
<1> QED
  BY <1>2, <1>3

\* A role that is applied switches its chain, and no other.
LEMMA RoleApplied ==
  ASSUME StartInv, NEW c \in DOMAIN roles, HasBoth(c),
         headerSync' = [headerSync EXCEPT ![c] =
                         [s \in Slots |-> [headerSync[c][s] EXCEPT !.enabled = roles[c]]]],
         roles' = roles
  PROVE  /\ headerSync' \in [Chains -> [Slots -> Entry \cup {Nil}]]
         /\ Switched(c)'
         /\ \A d : d # c => (Switched(d) => Switched(d)')
<1> DEFINE new(s) == [headerSync[c][s] EXCEPT !.enabled = roles[c]]
<1>0. c \in Chains /\ DOMAIN headerSync' = Chains
  BY DEF HasBoth, Chains
<1>1. \A s \in Slots : headerSync[c][s] \in Entry
  BY <1>0 DEF HasBoth, StartInv, FilesInv
<1>2. roles[c] \in BOOLEAN
  BY DEF StartInv, FilesInv
<1>3. \A s \in Slots : new(s) \in Entry /\ new(s).enabled = roles[c]
  BY <1>1, <1>2 DEF Entry
<1>4. \A s \in Slots : headerSync'[c][s] = new(s)
  BY <1>0 DEF Chains
<1>5. \A d \in Chains : d # c => headerSync'[d] = headerSync[d]
  BY DEF Chains
<1>6. headerSync' \in [Chains -> [Slots -> Entry \cup {Nil}]]
  <2>1. headerSync'[c] \in [Slots -> Entry \cup {Nil}]
    <3>1. headerSync'[c] = [s \in Slots |-> new(s)]
      BY <1>0 DEF Chains
    <3> HIDE DEF new
    <3> QED
      BY <1>3, <3>1
  <2>2. headerSync' = [d \in Chains |-> headerSync'[d]]
    BY DEF Chains
  <2>3. \A d \in Chains : headerSync'[d] \in [Slots -> Entry \cup {Nil}]
    BY <1>5, <2>1 DEF StartInv, FilesInv
  <2> QED
    BY <2>2, <2>3
<1>7. Switched(c)'
  <2> HIDE DEF new
  <2> QED
    BY <1>3, <1>4, StartupAssumption DEF Switched
<1>8. \A d : d # c => (Switched(d) => Switched(d)')
  BY <1>0, <1>5 DEF Switched, Chains
<1> QED
  BY <1>6, <1>7, <1>8

\* Any configuration and any roles.
LEMMA InitEstablishes == Init => StartInv
<1> SUFFICES ASSUME Init PROVE StartInv
  OBVIOUS
<1> USE DEF Init
<1>1. GoroutinesInv
  BY StartupAssumption, FS_EmptySet DEF GoroutinesInv, Counted
<1>2. FilesInv
  BY StartupAssumption, FS_EmptySet DEF FilesInv, Chains
<1>3. CommandInv
  BY StartupAssumption, FS_EmptySet DEF CommandInv
<1>4. RolesInv
  BY StartupAssumption, FS_EmptySet DEF RolesInv, Switched, HasBoth, Chains
<1>5. HandlersInv
  BY StartupAssumption, FS_EmptySet DEF HandlersInv, Handled, Chains
<1>6. StartedInv
  BY StartupAssumption, FS_EmptySet DEF StartedInv, AllStarted, Goroutines
<1>7. SwitchedOn
  BY DEF SwitchedOn
<1>8. StatusInv
  BY StartupAssumption, FS_EmptySet DEF StatusInv, ExitStatus, AllStarted
<1> QED
  BY <1>1, <1>2, <1>3, <1>4, <1>5, <1>6, <1>7, <1>8 DEF StartInv

\* The command line is read: main.
LEMMA ParseArgumentsKeeps ==
  ASSUME StartInv, ParseArguments
  PROVE  StartInv'
<1> USE DEF StartInv, ParseArguments, confVars, lateVars, ExitEarly
<1>1. GoroutinesInv'
  BY DEF GoroutinesInv, Counted
<1>2. FilesInv'
  BY DEF FilesInv, Chains
<1>3. CommandInv'
  BY DEF CommandInv
<1>4. RolesInv'
  BY DEF RolesInv, Switched, HasBoth, Chains
<1>5. HandlersInv'
  BY DEF HandlersInv, Handled, Chains
<1>6. StartedInv'
  BY DEF StartedInv, AllStarted, Goroutines
<1>7. SwitchedOn'
  BY DEF SwitchedOn, Entries
<1>8. StatusInv'
  BY DEF StatusInv, ExitStatus, AllStarted
<1> QED
  BY <1>1, <1>2, <1>3, <1>4, <1>5, <1>6, <1>7, <1>8 DEF StartInv

\* config.New.
LEMMA NewKeeps ==
  ASSUME StartInv, New
  PROVE  StartInv'
<1> USE DEF StartInv, New, confVars, lateVars, ExitEarly
<1>1. GoroutinesInv'
  BY DEF GoroutinesInv, Counted
<1>2. FilesInv'
  BY DEF FilesInv, Chains
<1>3. CommandInv'
  BY DEF Commands, CommandInv
<1>4. RolesInv'
  BY DEF Commands, RolesInv, Switched, HasBoth, Chains
<1>5. HandlersInv'
  BY DEF HandlersInv, Handled, Chains
<1>6. StartedInv'
  BY DEF StartedInv, AllStarted, Goroutines
<1>7. SwitchedOn'
  BY DEF SwitchedOn, Entries
<1>8. StatusInv'
  BY DEF StatusInv, ExitStatus, AllStarted
<1> QED
  BY <1>1, <1>2, <1>3, <1>4, <1>5, <1>6, <1>7, <1>8 DEF StartInv

\* One chain of the roles file: main.start.
LEMMA ApplyRoleKeeps ==
  ASSUME StartInv, ApplyRole
  PROVE  StartInv'
<1>1. /\ stage = "roles"
      /\ stage' \in {"roles", "panicked"}
      /\ UNCHANGED <<command, roles, accounts, handlers, at, cancelled, wg, gor>>
      /\ stage' = "roles" => status' = status
  BY DEF ApplyRole, Panic, lateVars
<1>2. PICK c \in todo :
        /\ todo' = todo \ {c}
        /\ \/ headerSync' = headerSync /\ (c = "TOP" \/ stage' = "panicked")
           \/ /\ HasBoth(c)
              /\ headerSync' =
                   [headerSync EXCEPT ![c] =
                     [s \in Slots |-> [headerSync[c][s] EXCEPT !.enabled = roles[c]]]]
  BY DEF ApplyRole, Panic
<1>3. c \in DOMAIN roles /\ todo' \subseteq DOMAIN roles
  BY <1>1, <1>2 DEF StartInv, FilesInv
<1>4. /\ headerSync' \in [Chains -> [Slots -> Entry \cup {Nil}]]
      /\ stage' = "panicked" \/ Switched(c)'
      /\ \A d : d # c => (Switched(d) => Switched(d)')
  <2>1. CASE headerSync' = headerSync
    <3>1. headerSync' \in [Chains -> [Slots -> Entry \cup {Nil}]]
      BY <2>1 DEF StartInv, FilesInv
    <3>2. \A d : Switched(d) => Switched(d)'
      BY <1>1, <2>1 DEF Switched, Chains
    <3>3. c = "TOP" => Switched(c)'
      BY DEF Switched
    <3>4. stage' = "panicked" \/ c = "TOP" \/ Switched(c)'
      <4>1. CASE HasBoth(c) /\ headerSync' = [headerSync EXCEPT ![c] =
                     [s \in Slots |-> [headerSync[c][s] EXCEPT !.enabled = roles[c]]]]
        BY <1>1, <1>3, <4>1, RoleApplied
      <4> QED
        BY <1>2, <4>1
    <3> QED
      BY <3>1, <3>2, <3>3, <3>4
  <2>2. CASE headerSync' # headerSync
    BY <1>1, <1>2, <1>3, <2>2, RoleApplied
  <2> QED
    BY <2>1, <2>2
<1>5. DOMAIN headerSync' = Chains
  BY <1>4
<1>6. GoroutinesInv'
  BY <1>1 DEF StartInv, GoroutinesInv, Counted
<1>7. FilesInv'
  BY <1>1, <1>3, <1>4, <1>5 DEF StartInv, FilesInv, Chains
<1>8. CommandInv'
  BY <1>1 DEF StartInv, CommandInv
<1>9. RolesInv'
  BY <1>1, <1>2, <1>4 DEF StartInv, RolesInv
<1>10. HandlersInv'
  BY <1>1 DEF StartInv, HandlersInv
<1>11. StartedInv'
  BY <1>1 DEF StartedInv
<1>12. SwitchedOn'
  BY <1>1 DEF StartInv, SwitchedOn, HandlersInv
<1>13. StatusInv'
  BY <1>1 DEF StartInv, StatusInv, ExitStatus
<1> QED
  BY <1>6, <1>7, <1>8, <1>9, <1>10, <1>11, <1>12, <1>13 DEF StartInv

\* The roles are done with.
LEMMA RolesAppliedKeeps ==
  ASSUME StartInv, RolesApplied
  PROVE  StartInv'
<1> USE DEF StartInv, RolesApplied, confVars, lateVars
<1>1. GoroutinesInv'
  BY DEF GoroutinesInv, Counted
<1>2. FilesInv'
  BY DEF FilesInv, Chains
<1>3. CommandInv'
  BY DEF CommandInv
<1>4. RolesInv'
  BY DEF RolesInv, Switched, HasBoth, Chains
<1>5. HandlersInv'
  BY DEF HandlersInv, Handled, Chains
<1>6. StartedInv'
  BY DEF StartedInv, AllStarted, Goroutines
<1>7. SwitchedOn'
  BY DEF SwitchedOn, Entries
<1>8. StatusInv'
  BY DEF StatusInv, ExitStatus, AllStarted
<1> QED
  BY <1>1, <1>2, <1>3, <1>4, <1>5, <1>6, <1>7, <1>8 DEF StartInv

\* One chain: ChainConfig.Init.
LEMMA InitChainKeeps ==
  ASSUME StartInv, InitChain
  PROVE  StartInv'
<1> USE DEF StartInv, InitChain, confVars, lateVars, ExitEarly, Panic
<1>1. GoroutinesInv'
  BY DEF GoroutinesInv, Counted
<1>2. FilesInv'
  BY DEF FilesInv, Chains
<1>3. CommandInv'
  BY DEF CommandInv
<1>4. RolesInv'
  BY DEF RolesInv, Switched, HasBoth, Chains
<1>5. HandlersInv'
  BY DEF HandlersInv, Handled, Chains
<1>6. StartedInv'
  BY DEF StartedInv, AllStarted, Goroutines
<1>7. SwitchedOn'
  BY DEF SwitchedOn, Entries
<1>8. StatusInv'
  BY DEF StatusInv, ExitStatus, AllStarted
<1> QED
  BY <1>1, <1>2, <1>3, <1>4, <1>5, <1>6, <1>7, <1>8 DEF StartInv

\* Every chain has two header syncs.
LEMMA ConfigInitialisedKeeps ==
  ASSUME StartInv, ConfigInitialised
  PROVE  StartInv'
<1> USE DEF StartInv, ConfigInitialised, confVars, lateVars
<1>1. GoroutinesInv'
  BY DEF GoroutinesInv, Counted
<1>2. FilesInv'
  BY DEF FilesInv, Chains
<1>3. CommandInv'
  BY DEF CommandInv
<1>4. RolesInv'
  BY DEF RolesInv, Switched, HasBoth, Chains
<1>5. HandlersInv'
  BY DEF HandlersInv, Handled, Chains
<1>6. StartedInv'
  BY DEF StartedInv, AllStarted, Goroutines
<1>7. SwitchedOn'
  BY DEF SwitchedOn, Entries
<1>8. StatusInv'
  BY DEF StatusInv, ExitStatus, AllStarted
<1> QED
  BY <1>1, <1>2, <1>3, <1>4, <1>5, <1>6, <1>7, <1>8 DEF StartInv

\* A subcommand has no goroutine: command.
LEMMA RunCommandKeeps ==
  ASSUME StartInv, RunCommand
  PROVE  StartInv'
<1> USE DEF StartInv, RunCommand, confVars, lateVars, HandleCommand, CheckWallet, CreateAccount
<1>1. GoroutinesInv'
  BY DEF GoroutinesInv, Counted
<1>2. FilesInv'
  BY DEF FilesInv, Chains
<1>3. CommandInv'
  BY DEF CommandInv
<1>4. RolesInv'
  BY DEF RolesInv, Switched, HasBoth, Chains
<1>5. HandlersInv'
  BY DEF HandlersInv, Handled, Chains
<1>6. StartedInv'
  BY DEF StartedInv, AllStarted, Goroutines
<1>7. SwitchedOn'
  BY DEF SwitchedOn, Entries
<1>8. StatusInv'
  BY DEF StatusInv, ExitStatus, AllStarted
<1> QED
  BY <1>1, <1>2, <1>3, <1>4, <1>5, <1>6, <1>7, <1>8 DEF StartInv

\* One chain: parseHandlers appends the handlers of a chain that has none yet.
LEMMA ParseHandlersKeeps ==
  ASSUME StartInv, ParseHandlers
  PROVE  StartInv'
<1>1. /\ stage = "parse" /\ stage' \in {"parse", "panicked"}
      /\ UNCHANGED <<command, headerSync, roles, accounts, at, cancelled, wg, gor>>
      /\ stage' = "parse" => status' = status
  BY DEF ParseHandlers, Panic, confVars
<1>2. PICK c \in todo :
        /\ todo' = todo \ {c}
        /\ \/ handlers' = handlers /\ (~ Active(c) \/ stage' = "panicked")
           \/ Active(c) /\ handlers' = handlers \o HandlersOf(c)
  BY DEF ParseHandlers, Panic
<1>3. c \in Chains /\ todo' \subseteq Chains
  BY <1>1, <1>2 DEF StartInv, FilesInv
<1>4. GoroutinesInv'
  BY <1>1 DEF StartInv, GoroutinesInv, Counted
<1>5. CommandInv'
  BY <1>1 DEF StartInv, CommandInv
<1>6. RolesInv'
  BY <1>1 DEF StartInv, RolesInv, Switched, HasBoth, Chains
<1>7. StartedInv'
  BY <1>1 DEF StartedInv
<1>8. StatusInv'
  BY <1>1 DEF StartInv, StatusInv, ExitStatus
<1>9. CASE handlers' = handlers /\ (~ Active(c) \/ stage' = "panicked")
  <2>1. FilesInv'
    BY <1>1, <1>3, <1>9 DEF StartInv, FilesInv, Chains
  <2>2. HandlersInv'
    <3>1. stage' = "parse" => Handled(c)'
      BY <1>1, <1>9 DEF Active, Handled
    <3>2. \A d \in Chains : Handled(d) => Handled(d)'
      BY <1>1, <1>9 DEF Handled
    <3> QED
      BY <1>1, <1>2, <1>9, <3>1, <3>2 DEF StartInv, HandlersInv, Chains
  <2>3. SwitchedOn'
    BY <1>1, <1>9 DEF StartInv, SwitchedOn, Entries
  <2> QED
    BY <1>4, <1>5, <1>6, <1>7, <1>8, <2>1, <2>2, <2>3 DEF StartInv
<1>10. CASE Active(c) /\ handlers' = handlers \o HandlersOf(c)
  <2> DEFINE m == Len(handlers)
             n == Len(HandlersOf(c))
  <2>1. Entries(c) \subseteq Slots
    BY DEF Entries
  <2>2. handlers \in Seq(Chains \X Slots) /\ HandlersOf(c) \in Seq({c} \X Entries(c))
    BY HandlersOfChain DEF StartInv, FilesInv
  <2>3. HandlersOf(c) \in Seq(Chains \X Slots)
    <3>1. {c} \X Entries(c) \subseteq Chains \X Slots
      BY <1>3, <2>1
    <3> QED
      BY <2>2, <3>1
  <2>4. /\ handlers' \in Seq(Chains \X Slots) /\ Len(handlers') = m + n
        /\ m \in Nat /\ n \in Nat
        /\ \A i \in 1 .. m : handlers'[i] = handlers[i]
        /\ \A i \in m + 1 .. m + n : handlers'[i] = HandlersOf(c)[i - m]
    BY <1>10, <2>2, <2>3
  <2>5. \A i \in 1 .. n : HandlersOf(c)[i][1] = c /\ HandlersOf(c)[i][2] \in Entries(c)
    BY <2>2
  <2>6. \A i \in 1 .. m : handlers[i][1] # c
    BY <1>1, <1>2 DEF StartInv, HandlersInv
  <2> HIDE DEF m, n
  <2>7. FilesInv'
    BY <1>1, <1>3, <2>4 DEF StartInv, FilesInv, Chains
  <2>8. \A i, j \in 1 .. m + n : handlers'[i] = handlers'[j] => i = j
    <3> SUFFICES ASSUME NEW i \in 1 .. m + n, NEW j \in 1 .. m + n, handlers'[i] = handlers'[j]
                 PROVE  i = j
      OBVIOUS
    <3>1. CASE i <= m /\ j <= m
      BY <2>4, <3>1 DEF StartInv, HandlersInv, m
    <3>2. CASE i <= m /\ j > m
      <4>1. j - m \in 1 .. n /\ j \in m + 1 .. m + n /\ i \in 1 .. m
        BY <2>4, <3>2
      <4>2. handlers'[i][1] # c
        BY <2>4, <2>6, <4>1
      <4>3. handlers'[j][1] = c
        BY <2>4, <2>5, <4>1
      <4> QED
        BY <4>2, <4>3
    <3>3. CASE i > m /\ j <= m
      <4>1. i - m \in 1 .. n /\ i \in m + 1 .. m + n /\ j \in 1 .. m
        BY <2>4, <3>3
      <4>2. handlers'[j][1] # c
        BY <2>4, <2>6, <4>1
      <4>3. handlers'[i][1] = c
        BY <2>4, <2>5, <4>1
      <4> QED
        BY <4>2, <4>3
    <3>4. CASE i > m /\ j > m
      <4>1. /\ i - m \in 1 .. n /\ i \in m + 1 .. m + n
            /\ j - m \in 1 .. n /\ j \in m + 1 .. m + n
        BY <2>4, <3>4
      <4>2. i - m = j - m
        BY <2>4, <4>1, HandlersOfChain DEF n
      <4> QED
        BY <2>4, <4>2
    <3> QED
      BY <2>4, <3>1, <3>2, <3>3, <3>4
  <2>9. \A i \in 1 .. m + n :
          \/ i \in 1 .. m /\ handlers'[i] = handlers[i]
          \/ handlers'[i][1] = c /\ handlers'[i][2] \in Entries(c)
    <3> SUFFICES ASSUME NEW i \in 1 .. m + n, i \notin 1 .. m
                 PROVE  handlers'[i][1] = c /\ handlers'[i][2] \in Entries(c)
      BY <2>4
    <3>1. i - m \in 1 .. n /\ i \in m + 1 .. m + n
      BY <2>4
    <3> QED
      BY <2>4, <2>5, <3>1
  <2>10. HandlersInv'
    <3>1. Handled(c)'
      <4> SUFFICES ASSUME NEW s \in Slots, headerSync[c][s].enabled
                   PROVE  \E i \in 1 .. Len(handlers') : handlers'[i] = <<c, s>>
        BY <1>1 DEF Handled
      <4>1. s \in Entries(c)
        BY <1>1, <1>3 DEF StartInv, RolesInv, HasBoth, Entries
      <4>2. PICK k \in 1 .. n : HandlersOf(c)[k] = <<c, s>>
        BY <4>1, HandlersOfChain DEF n
      <4>3. m + k \in m + 1 .. m + n /\ m + k \in 1 .. m + n /\ (m + k) - m = k
        BY <2>4
      <4>4. handlers'[m + k] = <<c, s>>
        BY <2>4, <4>2, <4>3
      <4> QED
        BY <2>4, <4>3, <4>4
    <3>2. \A d \in Chains : Handled(d) => Handled(d)'
      <4> SUFFICES ASSUME NEW d \in DOMAIN roles, Handled(d),
                          NEW s \in Slots, headerSync[d][s].enabled
                   PROVE  \E i \in 1 .. Len(handlers') : handlers'[i] = <<d, s>>
        BY <1>1 DEF Handled
      <4>1. PICK i \in 1 .. m : handlers[i] = <<d, s>>
        BY DEF Handled, m
      <4> QED
        BY <2>4, <4>1
    <3>3. \A i \in 1 .. m + n : handlers'[i][1] \notin todo'
      BY <1>1, <1>2, <2>9 DEF StartInv, HandlersInv, m
    <3> QED
      BY <1>1, <1>2, <2>4, <2>8, <3>1, <3>2, <3>3 DEF StartInv, HandlersInv, Chains
  <2>11. SwitchedOn'
    <3>1. c \in DOMAIN roles
      BY <1>10 DEF Active
    <3>2. \A i \in 1 .. m + n : /\ handlers'[i][1] \in DOMAIN roles
                                /\ handlers'[i][2] \in Entries(handlers'[i][1])
      BY <2>9, <3>1 DEF StartInv, SwitchedOn, m
    <3> QED
      BY <1>1, <2>4, <3>2 DEF SwitchedOn, Entries
  <2> QED
    BY <1>4, <1>5, <1>6, <1>7, <1>8, <2>7, <2>10, <2>11 DEF StartInv
<1> QED
  BY <1>2, <1>9, <1>10

\* Every chain is handled, nothing is started.
LEMMA HandlersParsedKeeps ==
  ASSUME StartInv, HandlersParsed
  PROVE  StartInv'
<1> USE DEF StartInv, HandlersParsed, confVars, lateVars
<1>1. GoroutinesInv'
  <2>1. Counted' = {}
    BY DEF Counted
  <2>2. Counted = {}
    BY DEF Counted, GoroutinesInv
  <2> QED
    BY <2>1, <2>2 DEF GoroutinesInv
<1>2. FilesInv'
  BY DEF FilesInv, Chains
<1>3. CommandInv'
  BY DEF CommandInv
<1>4. RolesInv'
  BY DEF RolesInv, Switched, HasBoth, Chains
<1>5. HandlersInv'
  <2>1. stage = "parse" /\ todo = {} /\ stage' = "init"
        /\ UNCHANGED <<handlers, headerSync, roles>>
    OBVIOUS
  <2>2. HandlersInv
    OBVIOUS
  <2> HIDE DEF StartInv, HandlersParsed
  <2>3. \A c \in Chains : Handled(c)
    BY <2>1, <2>2 DEF HandlersInv
  <2>4. \A c \in Chains' : Handled(c)'
    BY <2>1, <2>3 DEF Handled, Chains
  <2> QED BY <2>1, <2>2, <2>4 DEF HandlersInv
<1>6. StartedInv'
  BY DEF StartedInv, AllStarted, Goroutines
<1>7. SwitchedOn'
  BY DEF SwitchedOn, Entries
<1>8. StatusInv'
  BY DEF StatusInv, ExitStatus, AllStarted
<1> QED
  BY <1>1, <1>2, <1>3, <1>4, <1>5, <1>6, <1>7, <1>8 DEF StartInv

\* HeaderSyncHandler.Init.
LEMMA InitHandlerKeeps ==
  ASSUME StartInv, InitHandler
  PROVE  StartInv'
<1> USE DEF StartInv, InitHandler, confVars, lateVars, Fails, Panic
<1>1. GoroutinesInv'
  BY DEF GoroutinesInv, Counted
<1>2. FilesInv'
  BY DEF FilesInv, Chains
<1>3. CommandInv'
  BY DEF CommandInv
<1>4. RolesInv'
  BY DEF RolesInv, Switched, HasBoth, Chains
<1>5. HandlersInv'
  BY HandlersKept
<1>6. StartedInv'
  BY DEF StartedInv, AllStarted, Goroutines
<1>7. SwitchedOn'
  BY DEF SwitchedOn, Entries
<1>8. StatusInv'
  BY DEF StatusInv, ExitStatus, AllStarted
<1> QED
  BY <1>1, <1>2, <1>3, <1>4, <1>5, <1>6, <1>7, <1>8 DEF StartInv

\* The second loop of Server.Start begins at the first handler.
LEMMA HandlersInitialisedKeeps ==
  ASSUME StartInv, HandlersInitialised
  PROVE  StartInv'
<1> USE DEF StartInv, HandlersInitialised, confVars, lateVars
<1>1. GoroutinesInv'
  BY DEF GoroutinesInv, Counted
<1>2. FilesInv'
  BY DEF FilesInv, Chains
<1>3. CommandInv'
  BY DEF CommandInv
<1>4. RolesInv'
  BY DEF RolesInv, Switched, HasBoth, Chains
<1>5. HandlersInv'
  BY HandlersKept
<1>6. StartedInv'
  <2>1. \A i \in 1 .. Len(handlers) : i >= at'
    BY DEF FilesInv
  <2> QED
    BY <2>1 DEF StartedInv, AllStarted, Goroutines
<1>7. SwitchedOn'
  BY DEF SwitchedOn, Entries
<1>8. StatusInv'
  BY DEF StatusInv, ExitStatus, AllStarted
<1> QED
  BY <1>1, <1>2, <1>3, <1>4, <1>5, <1>6, <1>7, <1>8 DEF StartInv

\* HeaderSyncHandler.Start spawns the goroutines of one handler.
LEMMA StartHandlerKeeps ==
  ASSUME StartInv, StartHandler
  PROVE  StartInv'
<1> USE DEF StartInv, StartHandler, confVars, lateVars, Fails
<1>1. GoroutinesInv'
  <2>1. CASE gor' = gor
    BY <2>1 DEF GoroutinesInv, Counted
  <2>2. CASE gor' = [g \in DOMAIN gor |->
                      IF g[2] = handlers[at] THEN "spawned" ELSE gor[g]]
    <3>1. at \in 1 .. Len(handlers) /\ at >= at
      BY DEF FilesInv
    <3>2. \A g \in DOMAIN gor : g[2] = handlers[at] => gor[g] = "none"
      BY <3>1 DEF StartedInv
    <3>3. Counted' = Counted
      BY <2>2, <3>2 DEF Counted
    <3> QED
      BY <2>2, <3>3 DEF GoroutinesInv
  <2> QED
    BY <2>1, <2>2
<1>2. FilesInv'
  BY DEF FilesInv, Chains
<1>3. CommandInv'
  BY DEF CommandInv
<1>4. RolesInv'
  BY DEF RolesInv, Switched, HasBoth, Chains
<1>5. HandlersInv'
  BY HandlersKept
<1>6. StartedInv'
  <2>1. CASE stage' = "stopping"
    BY <2>1 DEF StartedInv
  <2>2. CASE /\ gor' = [g \in DOMAIN gor |->
                         IF g[2] = handlers[at] THEN "spawned" ELSE gor[g]]
             /\ at' = at + 1
             /\ stage' = "start"
    <3>1. at \in 1 .. Len(handlers) /\ at \in Nat
      BY DEF FilesInv
    <3>2. ASSUME NEW g \in DOMAIN gor, NEW i \in 1 .. Len(handlers),
                 g[2] = handlers[i]
          PROVE  gor'[g] = "none" <=> i >= at'
      <4>1. gor[g] = "none" <=> i >= at
        BY <3>2 DEF StartedInv
      <4>2. g[2] = handlers[at] <=> i = at
        BY <3>1, <3>2 DEF HandlersInv
      <4>3. gor'[g] = IF i = at THEN "spawned" ELSE gor[g]
        BY <2>2, <4>2
      <4> QED
        BY <2>2, <3>1, <4>1, <4>3
    <3>3. DOMAIN gor' = DOMAIN gor /\ handlers' = handlers
      BY <2>2
    <3> QED
      BY <2>2, <3>2, <3>3 DEF StartedInv, Goroutines
  <2> QED
    BY <2>1, <2>2
<1>7. SwitchedOn'
  BY DEF SwitchedOn, Entries
<1>8. StatusInv'
  BY DEF StatusInv, ExitStatus, AllStarted
<1> QED
  BY <1>1, <1>2, <1>3, <1>4, <1>5, <1>6, <1>7, <1>8 DEF StartInv

\* The last handler is started.
LEMMA HandlersStartedKeeps ==
  ASSUME StartInv, HandlersStarted
  PROVE  StartInv'
<1> USE DEF StartInv, HandlersStarted, confVars, lateVars
<1>1. GoroutinesInv'
  BY DEF GoroutinesInv, Counted
<1>2. FilesInv'
  BY DEF FilesInv, Chains
<1>3. CommandInv'
  BY DEF CommandInv
<1>4. RolesInv'
  BY DEF RolesInv, Switched, HasBoth, Chains
<1>5. HandlersInv'
  BY HandlersKept
<1>6. StartedInv'
  <2>1. \A g \in DOMAIN gor : \E i \in 1 .. Len(handlers) : g[2] = handlers[i]
    BY DEF StartedInv, Goroutines
  <2>2. \A i \in 1 .. Len(handlers) : ~ (i >= at)
    BY DEF FilesInv
  <2>3. AllStarted
    BY <2>1, <2>2 DEF StartedInv, AllStarted
  <2> QED
    BY <2>3 DEF StartedInv, AllStarted, Goroutines
<1>7. SwitchedOn'
  BY DEF SwitchedOn, Entries
<1>8. StatusInv'
  BY DEF StatusInv, ExitStatus, AllStarted
<1> QED
  BY <1>1, <1>2, <1>3, <1>4, <1>5, <1>6, <1>7, <1>8 DEF StartInv

\* The wait group is at zero: nothing runs.
LEMMA WaitKeeps ==
  ASSUME StartInv, Wait
  PROVE  StartInv'
<1> USE DEF StartInv, Wait, confVars, lateVars
<1>1. GoroutinesInv'
  BY FS_EmptySet DEF GoroutinesInv, Counted
<1>2. FilesInv'
  BY DEF FilesInv, Chains
<1>3. CommandInv'
  BY DEF CommandInv
<1>4. RolesInv'
  BY DEF RolesInv, Switched, HasBoth, Chains
<1>5. HandlersInv'
  BY DEF HandlersInv, Handled, Chains
<1>6. StartedInv'
  BY DEF StartedInv, AllStarted, Goroutines
<1>7. SwitchedOn'
  BY DEF SwitchedOn, Entries
<1>8. StatusInv'
  BY DEF StatusInv, ExitStatus, AllStarted
<1> QED
  BY <1>1, <1>2, <1>3, <1>4, <1>5, <1>6, <1>7, <1>8 DEF StartInv

\* main returns.
LEMMA ExitKeeps ==
  ASSUME StartInv, Exit
  PROVE  StartInv'
<1> USE DEF StartInv, Exit, confVars, lateVars
<1>1. GoroutinesInv'
  BY DEF GoroutinesInv, Counted
<1>2. FilesInv'
  BY DEF FilesInv, Chains
<1>3. CommandInv'
  BY DEF CommandInv
<1>4. RolesInv'
  BY DEF RolesInv, Switched, HasBoth, Chains
<1>5. HandlersInv'
  BY DEF HandlersInv, Handled, Chains
<1>6. StartedInv'
  BY DEF StartedInv, AllStarted, Goroutines
<1>7. SwitchedOn'
  BY DEF SwitchedOn, Entries
<1>8. StatusInv'
  BY DEF StatusInv, ExitStatus, AllStarted
<1> QED
  BY <1>1, <1>2, <1>3, <1>4, <1>5, <1>6, <1>7, <1>8 DEF StartInv

\* SIGINT or SIGTERM.
LEMMA SignalKeeps ==
  ASSUME StartInv, Signal
  PROVE  StartInv'
<1> USE DEF StartInv, Signal, confVars, lateVars
<1>1. GoroutinesInv'
  BY DEF GoroutinesInv, Counted
<1>2. FilesInv'
  BY DEF FilesInv, Chains
<1>3. CommandInv'
  BY DEF CommandInv
<1>4. RolesInv'
  BY DEF RolesInv, Switched, HasBoth, Chains
<1>5. HandlersInv'
  BY DEF HandlersInv, Handled, Chains
<1>6. StartedInv'
  BY DEF StartedInv, AllStarted, Goroutines
<1>7. SwitchedOn'
  BY DEF SwitchedOn, Entries
<1>8. StatusInv'
  BY DEF StartedInv, StatusInv, ExitStatus, AllStarted
<1> QED
  BY <1>1, <1>2, <1>3, <1>4, <1>5, <1>6, <1>7, <1>8 DEF StartInv

\* wg.Add(1) of a goroutine.
LEMMA BeginKeeps ==
  ASSUME StartInv, Begin
  PROVE  StartInv'
<1> USE DEF StartInv, Begin, confVars, lateVars
<1>1. GoroutinesInv'
  <2>1. PICK g \in DOMAIN gor :
             /\ gor[g] = "spawned"
             /\ gor' = [gor EXCEPT ![g] = IF cancelled THEN "late" ELSE "running"]
    OBVIOUS
  <2>2. g \notin Counted /\ Counted' = Counted \cup {g}
    BY <2>1 DEF Counted
  <2>3. IsFiniteSet(Counted') /\ wg' = Cardinality(Counted')
    BY <2>2, FS_AddElement DEF GoroutinesInv
  <2>4. stage' \in {"exiting", "exited"} => \A k \in DOMAIN gor' : gor'[k] # "running"
    BY <2>1 DEF GoroutinesInv
  <2>5. gor' = [k \in DOMAIN gor' |-> gor'[k]] /\ DOMAIN gor' = DOMAIN gor
    BY <2>1
  <2>6. UNCHANGED <<stage, cancelled>>
    OBVIOUS
  <2> HIDE DEF Begin
  <2> QED
    BY <2>3, <2>4, <2>5, <2>6 DEF GoroutinesInv
<1>2. FilesInv'
  BY DEF FilesInv, Chains
<1>3. CommandInv'
  BY DEF CommandInv
<1>4. RolesInv'
  BY DEF RolesInv, Switched, HasBoth, Chains
<1>5. HandlersInv'
  BY HandlersKept
<1>6. StartedInv'
  BY DEF StartedInv, AllStarted, Goroutines
<1>7. SwitchedOn'
  BY DEF SwitchedOn, Entries
<1>8. StatusInv'
  BY DEF StatusInv, ExitStatus, AllStarted
<1> QED
  BY <1>1, <1>2, <1>3, <1>4, <1>5, <1>6, <1>7, <1>8 DEF StartInv

\* wg.Done of a goroutine.
LEMMA FinishKeeps ==
  ASSUME StartInv, Finish
  PROVE  StartInv'
<1> USE DEF StartInv, Finish, confVars, lateVars
<1>1. GoroutinesInv'
  <2>1. PICK g \in DOMAIN gor :
             /\ gor[g] \in {"running", "late"}
             /\ gor' = [gor EXCEPT ![g] = "finished"]
    OBVIOUS
  <2>2. g \in Counted /\ Counted' = Counted \ {g}
    BY <2>1 DEF Counted
  <2>3. IsFiniteSet(Counted') /\ wg' = Cardinality(Counted')
    BY <2>2, FS_RemoveElement DEF GoroutinesInv
  <2>4. stage' \in {"exiting", "exited"} => \A k \in DOMAIN gor' : gor'[k] # "running"
    BY <2>1 DEF GoroutinesInv
  <2>5. gor' = [k \in DOMAIN gor' |-> gor'[k]] /\ DOMAIN gor' = DOMAIN gor
    BY <2>1
  <2>6. UNCHANGED <<stage, cancelled>>
    OBVIOUS
  <2> HIDE DEF Finish
  <2> QED
    BY <2>3, <2>4, <2>5, <2>6 DEF GoroutinesInv
<1>2. FilesInv'
  BY DEF FilesInv, Chains
<1>3. CommandInv'
  BY DEF CommandInv
<1>4. RolesInv'
  BY DEF RolesInv, Switched, HasBoth, Chains
<1>5. HandlersInv'
  BY HandlersKept
<1>6. StartedInv'
  BY DEF StartedInv, AllStarted, Goroutines
<1>7. SwitchedOn'
  BY DEF SwitchedOn, Entries
<1>8. StatusInv'
  BY DEF StatusInv, ExitStatus, AllStarted
<1> QED
  BY <1>1, <1>2, <1>3, <1>4, <1>5, <1>6, <1>7, <1>8 DEF StartInv

-----------------------------------------------------------------------------
(* The theorems *)

\* Every step keeps the invariant.
LEMMA NextKeeps == StartInv /\ [Next]_vars => StartInv'
<1> SUFFICES ASSUME StartInv, [Next]_vars PROVE StartInv'
  OBVIOUS
<1>1. CASE UNCHANGED vars
  <2>1. UNCHANGED <<command, headerSync, roles, accounts, stage, todo, handlers, at,
                    cancelled, status, wg, gor>>
    BY <1>1 DEF vars
  <2>2. GoroutinesInv'
    BY <2>1 DEF StartInv, GoroutinesInv, Counted
  <2>3. FilesInv' /\ CommandInv' /\ SwitchedOn'
    BY <2>1 DEF StartInv, FilesInv, CommandInv, SwitchedOn, Entries, Chains
  <2>4. RolesInv'
    BY <2>1 DEF StartInv, RolesInv, Switched, HasBoth, Chains
  <2>5. HandlersInv'
    BY <2>1, HandlersKept DEF StartInv
  <2>6. StartedInv'
    BY <2>1 DEF StartInv, StartedInv, AllStarted, Goroutines
  <2>7. StatusInv'
    BY <2>1 DEF StartInv, StatusInv, ExitStatus, AllStarted
  <2> QED
    BY <2>2, <2>3, <2>4, <2>5, <2>6, <2>7 DEF StartInv
<1>2. CASE Main
  BY <1>2, ParseArgumentsKeeps, NewKeeps, ApplyRoleKeeps, RolesAppliedKeeps,
     InitChainKeeps, ConfigInitialisedKeeps, RunCommandKeeps, ParseHandlersKeeps,
     HandlersParsedKeeps, InitHandlerKeeps, HandlersInitialisedKeeps,
     StartHandlerKeeps, HandlersStartedKeeps, WaitKeeps, ExitKeeps DEF Main
<1>3. CASE Signal \/ Begin \/ Finish
  BY <1>3, SignalKeeps, BeginKeeps, FinishKeeps
<1> QED
  BY <1>1, <1>2, <1>3 DEF Next, Ended

(* The wait group counts the goroutines that run, every loop of the start has *)
(* done what it should for what it has gone through, and the status is what   *)
(* became of the start: main.start, Server.Start, the loops of the handlers.  *)
THEOREM StartInvariant == Spec => []StartInv
<1> QED
  BY InitEstablishes, NextKeeps, PTL DEF Spec

(* main exits only after the goroutines that ran when it was told to stop     *)
(* have ended: cancel and wg.Wait in main.start.                              *)
THEOREM ExitIsLast == Spec => []ExitWaits
<1>1. StartInv => ExitWaits
  BY DEF StartInv, GoroutinesInv, ExitWaits
<1> QED
  BY <1>1, StartInvariant, PTL

(* No order in which Go goes through the maps leaves a header sync that is    *)
(* switched on without its goroutines: parseHandlers and Server.Start.        *)
THEOREM NoHandlerForgotten == Spec => []ServingIsComplete
<1>1. StartInv => ServingIsComplete
  <2> SUFFICES ASSUME StartInv, stage = "serving",
                      NEW c \in Chains \cap DOMAIN roles, NEW s \in Slots,
                      headerSync[c][s].enabled, NEW n \in {"start", "watch"}
               PROVE  /\ <<n, <<c, s>>>> \in DOMAIN gor
                      /\ gor[<<n, <<c, s>>>>] # "none"
    BY DEF ServingIsComplete
  <2>1. PICK i \in 1 .. Len(handlers) : handlers[i] = <<c, s>>
    BY DEF StartInv, HandlersInv, Handled
  <2>2. <<n, <<c, s>>>> \in DOMAIN gor
    BY <2>1 DEF StartInv, StartedInv, Goroutines
  <2> QED
    BY <2>2 DEF StartInv, StartedInv, AllStarted
<1> QED
  BY <1>1, StartInvariant, PTL

(* The roles decide which header syncs are relayed, but for TOP, of which      *)
(* the file does: ReadRoles, applied by main.start before parseHandlers reads  *)
(* the entries.                                                               *)
THEOREM RolesObeyed == Spec => []RolesDecide
<1>1. StartInv => RolesDecide
  <2> SUFFICES ASSUME StartInv, stage \in {"init", "start", "serving"},
                      NEW c \in Chains, NEW s \in Slots
               PROVE  (\E i \in 1 .. Len(handlers) : handlers[i] = <<c, s>>)
                        <=> /\ c \in DOMAIN roles
                            /\ IF c = "TOP" THEN s \in Entries(c) ELSE roles[c]
    BY DEF RolesDecide
  <2>1. c \in DOMAIN roles => Switched(c) /\ Handled(c)
    BY DEF StartInv, CommandInv, RolesInv, HandlersInv
  <2>2. c \in DOMAIN roles /\ c # "TOP" => (s \in Entries(c) <=> roles[c])
    BY <2>1 DEF Switched, Entries
  <2>3. (\E i \in 1 .. Len(handlers) : handlers[i] = <<c, s>>)
          => c \in DOMAIN roles /\ s \in Entries(c)
    BY DEF StartInv, SwitchedOn
  <2>4. c \in DOMAIN roles /\ s \in Entries(c)
          => \E i \in 1 .. Len(handlers) : handlers[i] = <<c, s>>
    BY <2>1 DEF Handled, Entries
  <2> QED
    BY <2>2, <2>3, <2>4
<1> QED
  BY <1>1, StartInvariant, PTL

(* Status 0 says of a relayer that all its handlers were started: the error   *)
(* of Server.Start and the exit codes of main.                                *)
THEOREM StatusTold == Spec => []ExitStatus
<1>1. StartInv => ExitStatus
  BY DEF StartInv, StatusInv
<1> QED
  BY <1>1, StartInvariant, PTL

-----------------------------------------------------------------------------
(* Types *)

\* A handler has two goroutines.
LEMMA GoroutineCount ==
  ASSUME NEW hs \in Seq(Chains \X Slots)
  PROVE  /\ IsFiniteSet(Goroutines(hs))
         /\ Cardinality(Goroutines(hs)) <= 2 * Len(hs)
<1> DEFINE H == {hs[i] : i \in 1 .. Len(hs)}
           N == {"start", "watch"}
<1>1. Len(hs) \in Nat
  OBVIOUS
<1>2. IsFiniteSet(H) /\ Cardinality(H) <= Len(hs) /\ Cardinality(H) \in Nat
  <2>1. [i \in 1 .. Len(hs) |-> hs[i]] \in Surjection(1 .. Len(hs), H)
    BY DEF Surjection
  <2>2. ExistsSurjection(1 .. Len(hs), H)
    BY <2>1, Zenon DEF ExistsSurjection
  <2> QED
    BY <1>1, <2>2, FS_NatSurjection, FS_SurjCardinalityBound, FS_CardinalityType
<1>3. IsFiniteSet(N) /\ Cardinality(N) = 2
  <2>1. IsFiniteSet({"watch"}) /\ Cardinality({"watch"}) = 1
    BY FS_Singleton
  <2>2. /\ IsFiniteSet({"watch"} \cup {"start"})
        /\ Cardinality({"watch"} \cup {"start"}) = Cardinality({"watch"}) + 1
    BY <2>1, FS_AddElement, "start" \notin {"watch"}
  <2>3. N = {"watch"} \cup {"start"}
    OBVIOUS
  <2> QED
    BY <2>1, <2>2, <2>3
<1>4. Goroutines(hs) = N \X H
  BY DEF Goroutines
<1> HIDE DEF H, N
<1>5. IsFiniteSet(N \X H) /\ Cardinality(N \X H) = Cardinality(N) * Cardinality(H)
  BY <1>2, <1>3, FS_Product
<1> QED
  BY <1>1, <1>2, <1>3, <1>4, <1>5

\* The wait group never counts more than two goroutines of each handler.
LEMMA WaitGroupBound ==
  ASSUME StartInv, ValuesInv
  PROVE  wg \in 0 .. 2 * Len(handlers)
<1>1. handlers \in Seq(Chains \X Slots) /\ Len(handlers) \in Nat
  BY DEF StartInv, FilesInv
<1>2. Counted \subseteq Goroutines(handlers)
  BY DEF Counted, ValuesInv
<1>3. wg = Cardinality(Counted) /\ IsFiniteSet(Counted)
  BY DEF StartInv, GoroutinesInv
<1>4. IsFiniteSet(Goroutines(handlers)) /\ Cardinality(Goroutines(handlers)) <= 2 * Len(handlers)
  BY <1>1, GoroutineCount
<1>5. /\ Cardinality(Counted) <= Cardinality(Goroutines(handlers))
      /\ Cardinality(Counted) \in Nat /\ Cardinality(Goroutines(handlers)) \in Nat
  BY <1>2, <1>3, <1>4, FS_Subset, FS_CardinalityType
<1> QED
  BY <1>1, <1>3, <1>4, <1>5

\* Steps before the handlers are made have no goroutines.
LEMMA ValuesKept ==
  ASSUME StartInv, ValuesInv, [Next]_vars
  PROVE  ValuesInv'
<1> USE DEF ValuesInv, confVars, lateVars, Stages
<1>1. CASE UNCHANGED vars
  BY <1>1 DEF vars, Chains, Goroutines
<1>2. CASE ParseArguments \/ New \/ RolesApplied \/ InitChain \/ ConfigInitialised
  BY <1>2 DEF ParseArguments, New, RolesApplied, InitChain, ConfigInitialised,
     ExitEarly, Panic, Chains, Goroutines
<1>3. CASE ApplyRole
  <2>1. Chains' = Chains
    BY <1>3 DEF ApplyRole, Chains, Panic
  <2> QED
    BY <1>3, <2>1 DEF ApplyRole, Panic, Goroutines
<1>4. CASE RunCommand
  <2>1. accounts = 0
    BY <1>4 DEF RunCommand, StartInv, StatusInv
  <2> QED
    BY <1>4, <2>1 DEF RunCommand, HandleCommand, CheckWallet, CreateAccount, Chains, Goroutines
<1>5. CASE ParseHandlers
  <2>1. DOMAIN gor = {} /\ UNCHANGED <<headerSync, roles, gor, at, cancelled, accounts>>
    BY <1>5 DEF ParseHandlers, StartInv, GoroutinesInv
  <2>2. Len(handlers') >= Len(handlers) /\ Len(handlers') \in Nat /\ Len(handlers) \in Nat
    <3>1. handlers \in Seq(Chains \X Slots)
      BY DEF StartInv, FilesInv
    <3>2. CASE handlers' = handlers
      BY <3>1, <3>2
    <3>3. CASE \E c \in todo : handlers' = handlers \o HandlersOf(c)
      <4>1. PICK c \in todo : handlers' = handlers \o HandlersOf(c)
        BY <3>3
      <4>2. HandlersOf(c) \in Seq({c} \X Entries(c))
        BY HandlersOfChain
      <4> QED
        BY <3>1, <4>1, <4>2
    <3> QED
      BY <1>5, <3>2, <3>3 DEF ParseHandlers
  <2>3. at \in Nat
    BY DEF StartInv, FilesInv
  <2>4. stage' \in {"parse", "panicked"} /\ status' = status /\ todo' \subseteq todo
    BY <1>5 DEF ParseHandlers, Panic
  <2> QED
    BY <2>1, <2>2, <2>3, <2>4 DEF Chains
<1>6. CASE HandlersParsed
  BY <1>6 DEF HandlersParsed, Chains, Goroutines
<1>7. CASE InitHandler \/ HandlersInitialised \/ HandlersStarted \/ Signal \/ Wait \/ Exit
  <2>1. handlers \in Seq(Chains \X Slots) /\ at \in Nat
    BY DEF StartInv, FilesInv
  <2>2. UNCHANGED <<headerSync, roles, handlers, gor, todo, accounts>>
    BY <1>7 DEF InitHandler, HandlersInitialised, HandlersStarted, Signal, Wait, Exit
  <2>3. stage' \in Stages /\ cancelled' \in BOOLEAN /\ status' \in {0, 2}
    BY <1>7 DEF InitHandler, HandlersInitialised, HandlersStarted, Signal, Wait, Exit, Fails, Panic
  <2>4. at' <= Len(handlers) + 1
    BY <1>7, <2>1 DEF InitHandler, HandlersInitialised, HandlersStarted, Signal, Wait, Exit
  <2> QED
    BY <2>2, <2>3, <2>4 DEF Chains, Goroutines
<1>8. CASE StartHandler
  <2>1. handlers \in Seq(Chains \X Slots) /\ at \in Nat
    BY DEF StartInv, FilesInv
  <2>2. UNCHANGED <<headerSync, roles, handlers, todo, accounts>>
    BY <1>8 DEF StartHandler
  <2>3. stage' \in Stages /\ cancelled' \in BOOLEAN /\ status' \in {0, 2}
    BY <1>8 DEF StartHandler, Fails
  <2>4. at' <= Len(handlers) + 1
    BY <1>8, <2>1 DEF StartHandler
  <2>5. DOMAIN gor' = DOMAIN gor
        /\ \A g \in DOMAIN gor' : gor'[g] \in {"none", "spawned", "running", "late", "finished"}
    BY <1>8 DEF StartHandler
  <2> QED
    BY <2>2, <2>3, <2>4, <2>5 DEF Chains, Goroutines
<1>9. CASE Begin \/ Finish
  <2>1. UNCHANGED <<headerSync, roles, handlers, todo, accounts, stage, cancelled, status, at>>
    BY <1>9 DEF Begin, Finish
  <2>2. DOMAIN gor' = DOMAIN gor
        /\ \A g \in DOMAIN gor' : gor'[g] \in {"none", "spawned", "running", "late", "finished"}
    BY <1>9 DEF Begin, Finish
  <2> QED
    BY <2>1, <2>2 DEF Chains, Goroutines
<1> QED
  BY <1>1, <1>2, <1>3, <1>4, <1>5, <1>6, <1>7, <1>8, <1>9 DEF Next, Main, Ended

(* Every variable of the process keeps its type; the wait group never goes     *)
(* below 0, nor above the two goroutines of each handler.                      *)
THEOREM StartTypes == Spec => []TypeOK
<1>1. Init => ValuesInv
  <2> SUFFICES ASSUME Init PROVE ValuesInv
    OBVIOUS
  <2>1. stage = "cli" /\ accounts = 0 /\ todo = {} /\ at = 1 /\ handlers = <<>>
        /\ cancelled = FALSE /\ status = 0 /\ gor = << >>
    BY DEF Init
  <2>2. DOMAIN gor = {} /\ at <= Len(handlers) + 1
    BY <2>1
  <2> QED
    BY <2>1, <2>2 DEF ValuesInv, Stages
<1>2. StartInv /\ ValuesInv /\ [Next]_vars => ValuesInv'
  BY ValuesKept
<1>3. StartInv /\ ValuesInv => TypeOK
  <2> SUFFICES ASSUME StartInv, ValuesInv PROVE TypeOK
    OBVIOUS
  <2>1. \A c \in Chains, s \in Slots : headerSync[c][s] # Nil => headerSync[c][s] \in Entry
    BY DEF StartInv, FilesInv
  <2>2. at \in 1 .. Len(handlers) + 1
    BY DEF StartInv, FilesInv, ValuesInv
  <2> QED
    BY <2>1, <2>2, WaitGroupBound DEF ValuesInv, TypeOK
<1> QED
  BY <1>1, <1>2, <1>3, StartInvariant, PTL DEF Spec

-----------------------------------------------------------------------------
(* What can run *)

\* The goroutines that are up stay those of entries that were accepted.
LEMMA UpKept ==
  ASSUME OnlyFromEth, UNCHANGED headerSync,
         \A g \in DOMAIN gor' : gor'[g] # "none" => g \in DOMAIN gor /\ gor[g] # "none"
  PROVE  OnlyFromEth'
BY DEF OnlyFromEth

\* The one entry that both the submitter's Init and StartSync accept.
LEMMA AcceptedTwice ==
  ASSUME NEW e, InitAccepts(e), StartSyncAccepts(e)
  PROVE  e.chain = "ETH" /\ GetSubmitter(e.submitter) = "eth"
BY DEF InitAccepts, SubmitterInit, EthSubmitterInit, TopSubmitterInit, StartSyncAccepts

\* Every step keeps what Init has found.
LEMMA AcceptedKept ==
  ASSUME StartInv, AcceptedInv, [Next]_vars
  PROVE  AcceptedInv'
<1>1. CASE UNCHANGED vars
  BY <1>1 DEF vars, AcceptedInv, OnlyFromEth, EntryAt
<1>2. CASE ParseArguments \/ New \/ ApplyRole \/ RolesApplied \/ InitChain
           \/ ConfigInitialised \/ RunCommand \/ ParseHandlers
  <2>1. DOMAIN gor' = {} /\ stage' \notin {"init", "start"} /\ at' = at
        /\ stage \in {"cli", "new", "roles", "config", "command", "parse"}
    BY <1>2 DEF ParseArguments, New, ApplyRole, RolesApplied, InitChain, ConfigInitialised,
       RunCommand, ParseHandlers, ExitEarly, Panic, confVars, lateVars, StartInv, GoroutinesInv
  <2> QED
    BY <2>1 DEF AcceptedInv, OnlyFromEth
<1>3. CASE HandlersParsed
  <2>1. stage' = "init" /\ at' = at /\ \A g \in DOMAIN gor' : gor'[g] = "none"
    BY <1>3 DEF HandlersParsed
  <2>2. at = 1
    BY <1>3 DEF HandlersParsed, AcceptedInv
  <2> QED
    BY <2>1, <2>2 DEF AcceptedInv, OnlyFromEth
<1>4. CASE InitHandler
  <2>1. UNCHANGED <<headerSync, handlers, gor>> /\ stage = "init"
    BY <1>4 DEF InitHandler, confVars
  <2>2. OnlyFromEth'
    BY <2>1, UpKept DEF AcceptedInv
  <2>3. CASE InitAccepts(EntryAt(at)) /\ at' = at + 1 /\ stage' = stage
    <3>1. \A i \in 1 .. Len(handlers) : i < at' => i < at \/ i = at
      BY <2>3 DEF StartInv, FilesInv
    <3> QED
      BY <2>1, <2>2, <2>3, <3>1 DEF AcceptedInv, EntryAt
  <2>4. CASE stage' \in {"panicked", "stopping"}
    BY <2>2, <2>4 DEF AcceptedInv
  <2> QED
    BY <1>4, <2>3, <2>4 DEF InitHandler, Panic, Fails
<1>5. CASE HandlersInitialised
  <2>1. UNCHANGED <<headerSync, handlers, gor>> /\ stage = "init" /\ stage' = "start"
    BY <1>5 DEF HandlersInitialised, confVars
  <2>2. \A i \in 1 .. Len(handlers) : i < at
    BY <1>5 DEF HandlersInitialised, StartInv, FilesInv
  <2> QED
    BY <2>1, <2>2, UpKept DEF AcceptedInv, EntryAt
<1>6. CASE StartHandler
  <2>1. UNCHANGED <<headerSync, handlers>> /\ stage = "start" /\ at \in 1 .. Len(handlers)
    BY <1>6 DEF StartHandler, confVars, StartInv, FilesInv
  <2>2. stage' = "start" => \A i \in 1 .. Len(handlers') : InitAccepts(EntryAt(i))'
    BY <2>1 DEF AcceptedInv, EntryAt
  <2>3. stage' \in {"start", "stopping"}
    BY <1>6 DEF StartHandler, Fails
  <2>4. OnlyFromEth'
    <3>1. CASE gor' = gor
      BY <2>1, <3>1, UpKept DEF AcceptedInv
    <3>2. CASE /\ StartSyncAccepts(EntryAt(at))
               /\ gor' = [g \in DOMAIN gor |->
                           IF g[2] = handlers[at] THEN "spawned" ELSE gor[g]]
      <4>1. /\ EntryAt(at).chain = "ETH"
            /\ GetSubmitter(EntryAt(at).submitter) = "eth"
        BY <2>1, <3>2, AcceptedTwice DEF AcceptedInv
      <4> SUFFICES ASSUME NEW g \in DOMAIN gor, gor'[g] # "none"
                   PROVE  /\ headerSync[g[2][1]][g[2][2]].chain = "ETH"
                          /\ GetSubmitter(headerSync[g[2][1]][g[2][2]].submitter) = "eth"
        BY <2>1, <3>2 DEF OnlyFromEth
      <4>2. CASE g[2] = handlers[at]
        BY <4>1, <4>2 DEF EntryAt
      <4>3. CASE g[2] # handlers[at]
        BY <3>2, <4>3 DEF AcceptedInv, OnlyFromEth
      <4> QED
        BY <4>2, <4>3
    <3> QED
      BY <1>6, <3>1, <3>2 DEF StartHandler
  <2> QED
    BY <2>2, <2>3, <2>4 DEF AcceptedInv
<1>7. CASE HandlersStarted \/ Signal \/ Wait \/ Exit
  <2>1. UNCHANGED <<headerSync, gor>> /\ stage' \in {"serving", "stopping", "exiting", "exited"}
    BY <1>7 DEF HandlersStarted, Signal, Wait, Exit, confVars
  <2> QED
    BY <2>1, UpKept DEF AcceptedInv
<1>8. CASE Begin \/ Finish
  <2>1. UNCHANGED <<headerSync, handlers, stage, at>>
    BY <1>8 DEF Begin, Finish, confVars
  <2>2. \A g \in DOMAIN gor' : gor'[g] # "none" => g \in DOMAIN gor /\ gor[g] # "none"
    BY <1>8 DEF Begin, Finish
  <2>3. OnlyFromEth'
    BY <2>1, <2>2, UpKept DEF AcceptedInv
  <2> QED
    BY <2>1, <2>3 DEF AcceptedInv, EntryAt
<1> QED
  BY <1>1, <1>2, <1>3, <1>4, <1>5, <1>6, <1>7, <1>8 DEF Next, Main, Ended

(* Whatever the file switches on, goroutines come up only for header syncs    *)
(* from ETH by the submitter for ETH and BSC: Init and StartSync of the two   *)
(* submitters, called in the two loops of Server.Start.                       *)
THEOREM OnlyEthRuns == Spec => []OnlyFromEth
<1>1. Init => AcceptedInv
  BY DEF Init, AcceptedInv, OnlyFromEth
<1>2. StartInv /\ AcceptedInv /\ [Next]_vars => AcceptedInv'
  BY AcceptedKept
<1>3. AcceptedInv => OnlyFromEth
  BY DEF AcceptedInv
<1> QED
  BY <1>1, <1>2, <1>3, StartInvariant, PTL DEF Spec

=============================================================================
