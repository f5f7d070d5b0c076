--------------------------- MODULE NodeAdminProofs ---------------------------
(***************************************************************************)
(* Proofs about NodeAdmin for any names, homes, hosts, environments and    *)
(* placements, and any bounds.                                             *)
(***************************************************************************)
EXTENDS NodeAdmin, TLAPS

-----------------------------------------------------------------------------
(* The parts of the inductive invariant.                                   *)

Adds == cmd.op = "add"
Removes == cmd.op = "remove"
Encrypts == cmd.op \in {"add", "set", "rekey"}

\* Which command can stand where, and what it knows by then.
Located ==
  /\ cmd.pc \in {"free", "key", "cron", "register"} => Adds
  /\ cmd.pc \in {"deregister", "unschedule", "list", "down"} => Removes
  /\ cmd.pc = "write" => cmd.op = "set"
  /\ cmd.pc = "next" => Encrypts
  /\ cmd.op = "none" <=> cmd.pc = "idle"
  /\ Adds => cmd.name \in Names /\ cmd.place \in Places
  /\ Removes => cmd.name \in Names
  /\ Removes /\ cmd.pc \in {"push", "unschedule", "list", "down"} => cmd.place \in Places

\* The branch and the checkout register only what has its home.
Provisioned(i) ==
  \A n \in Names : i[n] # None => home[i[n].at] = [name |-> n, key |-> i[n].key]

\* While node add fills a home nobody is registered there.
NewHome ==
  /\ cmd.pc = "key" =>
       /\ home[cmd.place].name = cmd.name
       /\ \A n \in Names : (inv[n] # None => inv[n].at # cmd.place)
                           /\ (desk.inv[n] # None => desk.inv[n].at # cmd.place)
  /\ Adds /\ cmd.pc \in {"cron", "sync", "register"} =>
       home[cmd.place] = [name |-> cmd.name, key |-> cmd.key]

\* node remove has the branch forget the node before it touches the home.
OldHome ==
  Removes =>
    /\ cmd.pc \in {"push", "unschedule", "list", "down"} =>
         home[cmd.place].name = cmd.name /\ desk.inv[cmd.name] = None
    /\ cmd.pc \in {"unschedule", "list", "down"} => inv[cmd.name] = None

\* What the command has encrypted so far is for the nodes that run it, in the
\* checkout and, once pushed, on the branch.
DeskEncrypted ==
  Encrypts /\ cmd.pc \in {"next", "push"} =>
    \A e \in cmd.envs \ cmd.todo :
      desk.cipher[e] = {} \/ desk.cipher[e] = Recipients(desk, e)
BranchEncrypted ==
  cmd.pc = "next" =>
    \A e \in cmd.envs \ cmd.todo :
      cipher[e] = {} \/ (cipher[e] = Recipients(desk, e) /\ inv = desk.inv)
Untouched ==
  Encrypts /\ cmd.pc \in {"free", "key", "cron", "sync", "register", "write"} =>
    cmd.todo = cmd.envs
SecretsStay == \A e \in Envs : desk.cipher[e] = {} => cipher[e] = {}
InStep == ~moved => desk.pins = pins

\* What is left of the node is listed, or new.
Listed ==
  Removes /\ cmd.pc = "down" /\ ~cmd.keep.containers =>
    \A c \in containers :
      c.host = HostOf[cmd.place] /\ c.name = cmd.name => c \in cmd.left \cup late

HomesInv == Provisioned(inv) /\ Provisioned(desk.inv) /\ NewHome /\ OldHome
SecretsInv ==
  DeskEncrypted /\ BranchEncrypted /\ Untouched /\ SecretsStay /\ InStep

IInv == Located /\ HomesInv /\ SecretsInv /\ Listed

-----------------------------------------------------------------------------
(* Types.                                                                  *)

Inventory == [Names -> Entry \cup {None}]
Secrets == [Envs -> SUBSET Keys]
Desk == [inv : Inventory, pins : [Envs -> Placements], cipher : Secrets]
Runs == [Places -> [name : Names \cup {None}, todo : SUBSET Envs]]
CmdType ==
  [pc : Steps \cup {"idle"}, op : Ops \cup {"none"}, name : Names \cup {None},
   place : Places \cup {None}, key : Keys, envs : SUBSET Envs,
   todo : SUBSET Envs, left : SUBSET Container,
   keep : [containers : BOOLEAN, home : BOOLEAN], said : {"ok", "error"}]

LEMMA RecipientsAreKeys ==
  ASSUME NEW d \in Desk, NEW e \in Envs
  PROVE  Recipients(d, e) \in SUBSET Keys /\ Recipients(d, e) # {}
<1>1. Controller \in Keys
  BY AdminBoundsAssumption DEF Controller, Keys
<1>2. ASSUME NEW n \in Names, d.inv[n] # None PROVE d.inv[n].key \in Keys
  BY <1>2 DEF Desk, Inventory, Entry
<1>3. d.pins[e] \subseteq Names
  BY PlacesAssumption DEF Desk
<1> QED BY <1>1, <1>2, <1>3 DEF Recipients

LEMMA NoCommandType == NoCommand \in CmdType
BY AdminBoundsAssumption DEF NoCommand, CmdType, Keys, Controller

LEMMA InitType == Init => TypeOK
<1> SUFFICES ASSUME Init PROVE TypeOK
  OBVIOUS
<1>1. inv \in Inventory /\ pins \in [Envs -> Placements]
  BY PlacesAssumption DEF Init, Inventory
<1>2. cipher \in Secrets
  BY AdminBoundsAssumption DEF Init, Secrets, Keys, Controller
<1>3. desk \in Desk
  BY <1>1, <1>2 DEF Init, Desk
<1>4. cmd \in CmdType
  BY NoCommandType DEF Init
<1>5. home \in [Places -> Home] /\ run \in Runs
  BY DEF Init, Home, Empty, Runs, NoRun
<1>6. commands \in 0..MaxCommands /\ faults \in 0..MaxFaults
  BY AdminBoundsAssumption DEF Init
<1> QED BY <1>1, <1>2, <1>3, <1>4, <1>5, <1>6
        DEF Init, TypeOK, Inventory, Secrets, Desk, CmdType, Runs

LEMMA NextType == TypeOK /\ Located /\ [Next]_vars => TypeOK'
<1> SUFFICES ASSUME TypeOK, Located, [Next]_vars PROVE TypeOK'
  OBVIOUS
<1> USE AdminBoundsAssumption, PlacesAssumption DEF branch, node, bounds
<1>0. /\ inv \in Inventory /\ cipher \in Secrets /\ desk \in Desk
      /\ cmd \in CmdType /\ run \in Runs
  BY DEF TypeOK, Inventory, Secrets, Desk, CmdType, Runs
<1>q. /\ inv' \in Inventory /\ pins' \in [Envs -> Placements] /\ cipher' \in Secrets
      /\ desk' \in Desk /\ moved' \in BOOLEAN
      /\ home' \in [Places -> Home] /\ cron' \subseteq Places /\ run' \in Runs
      /\ containers' \subseteq Container /\ late' \subseteq Container
      /\ cmd' \in CmdType
      /\ commands' \in 0..MaxCommands /\ faults' \in 0..MaxFaults
      => TypeOK'
  BY DEF TypeOK, Inventory, Secrets, Desk, CmdType, Runs
<1>a. ASSUME NEW pc \in Steps \cup {"idle"}, Goes(pc) PROVE cmd' \in CmdType
  BY <1>0, <1>a DEF Goes, CmdType
<1>b. ASSUME NEW said \in {"ok", "error"}, Ends(said)
      PROVE cmd' \in CmdType /\ late' \subseteq Container
  BY <1>b, NoCommandType DEF Ends, CmdType
<1>t. /\ pins \in [Envs -> Placements] /\ moved \in BOOLEAN
      /\ home \in [Places -> Home] /\ cron \subseteq Places
      /\ containers \subseteq Container /\ late \subseteq Container
      /\ commands \in 0..MaxCommands /\ faults \in 0..MaxFaults
  BY DEF TypeOK
<1>1. ASSUME NEW c \in CmdType, Begin(c) PROVE TypeOK'
  BY <1>0, <1>t, <1>q, <1>1 DEF Begin, Operates
<1>2. ASSUME NEW n \in Names, NEW p \in Places, ProvisionNode(n, p) PROVE TypeOK'
  <2> DEFINE c == [NoCommand EXCEPT !.pc = "free", !.op = "add", !.name = n, !.place = p,
                                    !.key = commands + 1, !.envs = Envs, !.todo = Envs]
  <2>1. commands + 1 \in Keys
    BY <1>2, <1>t DEF ProvisionNode, Begin, Operates, Keys
  <2>2. c \in CmdType
    BY <2>1, NoCommandType DEF CmdType, Steps, Ops
  <2> QED BY <1>1, <1>2, <2>2 DEF ProvisionNode
<1>3. ASSUME NEW n \in Names, NEW keep \in [containers : BOOLEAN, home : BOOLEAN],
             NodeRemove(n, keep)
      PROVE  TypeOK'
  <2> DEFINE c == [NoCommand EXCEPT !.pc = "sync", !.op = "remove", !.name = n, !.keep = keep]
  <2>1. c \in CmdType
    BY NoCommandType DEF CmdType, Steps, Ops
  <2> QED BY <1>1, <1>3, <2>1 DEF NodeRemove
<1>4. ASSUME NEW e \in Envs, SecretsSet(e) \/ SecretsRekey(e) PROVE TypeOK'
  <2>1. ASSUME NEW op \in {"set", "rekey"}
        PROVE  [NoCommand EXCEPT !.pc = "sync", !.op = op, !.envs = {e}, !.todo = {e}]
                 \in CmdType
    BY NoCommandType DEF CmdType, Steps, Ops
  <2> QED BY <1>1, <1>4, <2>1 DEF SecretsSet, SecretsRekey
<1>5. CASE HomeOccupied \/ NodeRefused \/ PushRejected \/ Done
  <2>1. cmd' \in CmdType /\ late' \subseteq Container
    BY <1>b, <1>5 DEF HomeOccupied, NodeRefused, PushRejected, Done
  <2> QED BY <1>0, <1>t, <1>q, <1>5, <2>1 DEF HomeOccupied, NodeRefused, PushRejected, Done
<1>6. CASE Abort
  <2>1. cmd' \in CmdType /\ late' \subseteq Container
    BY <1>b, <1>6 DEF Abort
  <2> QED BY <1>0, <1>t, <1>q, <1>6, <2>1 DEF Abort, Fault
<1>7. CASE WriteConfig \/ WriteIdentity
  <2>1. cmd' \in CmdType
    BY <1>a, <1>7 DEF WriteConfig, WriteIdentity, Steps
  <2>2. home' \in [Places -> Home]
    BY <1>0, <1>t, <1>7 DEF WriteConfig, WriteIdentity, Home, CmdType
  <2> QED BY <1>0, <1>t, <1>q, <1>7, <2>1, <2>2 DEF WriteConfig, WriteIdentity
<1>8. CASE InstallCron
  <2>1. cmd' \in CmdType
    BY <1>a, <1>8 DEF InstallCron, Steps
  <2>2. cron' \subseteq Places
    BY <1>0, <1>t, <1>8 DEF InstallCron, Stripped, Located, Adds, CmdType
  <2> QED BY <1>0, <1>t, <1>q, <1>8, <2>1, <2>2 DEF InstallCron
<1>9. CASE Sync
  <2>1. After[cmd.op] \in Steps
    BY <1>0, <1>9 DEF Sync, Located, After, Ops, Steps, CmdType
  <2>2. cmd' \in CmdType
    BY <1>a, <1>9, <2>1 DEF Sync
  <2>3. desk' \in Desk
    BY <1>0, <1>t, <1>9 DEF Sync, Desk
  <2> QED BY <1>0, <1>t, <1>q, <1>9, <2>2, <2>3 DEF Sync
<1>10. CASE AddNode
  <2>1. cmd.name \in Names /\ cmd.place \in Places /\ cmd.key \in Keys
    BY <1>0, <1>10 DEF AddNode, Located, Adds, CmdType
  <2>2. [desk.inv EXCEPT ![cmd.name] = [at |-> cmd.place, key |-> cmd.key]] \in Inventory
    BY <1>0, <2>1 DEF Desk, Inventory, Entry
  <2>3. desk' \in Desk
    BY <1>0, <1>10, <2>2 DEF AddNode, Desk
  <2>4. cmd' \in CmdType
    BY <1>a, <1>10 DEF AddNode, Steps
  <2> QED BY <1>0, <1>t, <1>q, <1>10, <2>3, <2>4 DEF AddNode
<1>11. CASE RemoveNode
  <2>1. cmd.name \in Names /\ desk.inv[cmd.name] \in Entry
    BY <1>0, <1>11 DEF RemoveNode, Located, Removes, Desk, Inventory
  <2>2. [desk.inv EXCEPT ![cmd.name] = None] \in Inventory
    BY <1>0 DEF Desk, Inventory
  <2>3. desk' \in Desk
    BY <1>0, <1>11, <2>2 DEF RemoveNode, Desk
  <2>4. cmd' \in CmdType
    BY <1>0, <1>11, <2>1 DEF RemoveNode, CmdType, Steps, Entry
  <2> QED BY <1>0, <1>t, <1>q, <1>11, <2>3, <2>4 DEF RemoveNode
<1>12. ASSUME NEW e \in Envs, writeSecrets(e) \/ rekeyEnv(e) PROVE TypeOK'
  <2>1. [desk.cipher EXCEPT ![e] = Recipients(desk, e)] \in Secrets
    BY <1>0, RecipientsAreKeys DEF Desk, Secrets
  <2>2. desk' \in Desk
    BY <1>0, <1>12, <2>1 DEF writeSecrets, rekeyEnv, Desk
  <2>3. ASSUME NEW pc \in {"next", "push"} PROVE [cmd EXCEPT !.pc = pc, !.todo = @ \ {e}] \in CmdType
    BY <1>0 DEF CmdType, Steps
  <2>4. cmd' \in CmdType
    BY <1>12, <2>3 DEF writeSecrets, rekeyEnv
  <2> QED BY <1>0, <1>t, <1>q, <1>12, <2>2, <2>4 DEF writeSecrets, rekeyEnv
<1>13. CASE Push
  <2>1. cmd' \in CmdType
    BY <1>0, <1>13 DEF Push, Goes, Steps, CmdType
  <2> QED BY <1>0, <1>t, <1>q, <1>13, <2>1 DEF Push, Desk
<1>14. ASSUME NEW e \in Envs, NEW S \in Placements, Place(e, S) PROVE TypeOK'
  BY <1>0, <1>t, <1>q, <1>14 DEF Place, Operates
<1>15. CASE RemoveCron
  <2>1. cmd' \in CmdType
    <3>1. ASSUME NEW pc \in {"down", "list"}, Goes(pc) PROVE cmd' \in CmdType
      BY <1>a, <3>1 DEF Steps
    <3>2. CASE cmd.keep.containers
      BY <1>15, <3>1, <3>2 DEF RemoveCron
    <3>3. CASE ~cmd.keep.containers
      BY <1>15, <3>1, <3>3 DEF RemoveCron
    <3> QED BY <3>2, <3>3
  <2>2. cron' \subseteq Places
    BY <1>t, <1>15 DEF RemoveCron, Stripped
  <2>3. faults' \in 0..MaxFaults
    BY <1>t, <1>15 DEF RemoveCron, Fault
  <2> QED BY <1>0, <1>t, <1>q, <1>15, <2>1, <2>2, <2>3 DEF RemoveCron
<1>16. CASE ListProjects
  <2>1. TeardownProjects \subseteq Container
    BY <1>t DEF TeardownProjects
  <2>2. cmd' \in CmdType
    BY <1>0, <1>16, <2>1 DEF ListProjects, CmdType, Steps
  <2> QED BY <1>0, <1>t, <1>q, <1>16, <2>2 DEF ListProjects
<1>17. ASSUME NEW c \in cmd.left, Down(c) PROVE TypeOK'
  <2>1. cmd' \in CmdType
    BY <1>0, <1>17 DEF Down, CmdType
  <2> QED BY <1>0, <1>t, <1>q, <1>17, <2>1 DEF Down
<1>18. CASE RemoveHome
  <2>1. cmd' \in CmdType /\ late' \subseteq Container
    BY <1>b, <1>18 DEF RemoveHome
  <2>2. home' \in [Places -> Home]
    BY <1>t, <1>18 DEF RemoveHome, Home, Empty
  <2> QED BY <1>0, <1>t, <1>q, <1>18, <2>1, <2>2 DEF RemoveHome
<1>19. ASSUME NEW p \in Places, StartRun(p) PROVE TypeOK'
  <2>1. run' \in Runs
    BY <1>0, <1>t, <1>19 DEF StartRun, Runs, Home
  <2> QED BY <1>0, <1>t, <1>q, <1>19, <2>1 DEF StartRun
<1>20. ASSUME NEW p \in Places, NEW e \in Envs,
              SkipEnv(p, e) \/ DeployEnv(p, e) \/ RunFails(p, e)
       PROVE  TypeOK'
  <2>1. NoRun \in [name : Names \cup {None}, todo : SUBSET Envs]
    BY DEF NoRun
  <2>2. Finished(p, run[p].todo \ {e}) \in [name : Names \cup {None}, todo : SUBSET Envs]
    BY <1>0, <2>1 DEF Finished, Runs
  <2>3. run' \in Runs
    BY <1>0, <1>20, <2>1, <2>2 DEF SkipEnv, DeployEnv, Deployed, RunFails, Runs
  <2>4. CASE SkipEnv(p, e) \/ RunFails(p, e)
    BY <1>0, <1>t, <1>q, <2>3, <2>4 DEF SkipEnv, RunFails
  <2>5. CASE DeployEnv(p, e)
    <3> DEFINE c == [host |-> HostOf[p], name |-> run[p].name, env |-> e]
    <3>1. pins[e] \subseteq Names
      BY <1>t
    <3>2. c \in Container
      BY <2>5, <3>1 DEF DeployEnv, Deployed, Container
    <3>3. containers' \subseteq Container /\ late' \subseteq Container
      BY <1>t, <2>5, <3>2 DEF DeployEnv, Deployed
    <3> QED BY <1>0, <1>t, <1>q, <2>3, <2>5, <3>3 DEF DeployEnv, Deployed
  <2> QED BY <1>20, <2>4, <2>5
<1>21. ASSUME NEW p \in Places, RunDies(p) PROVE TypeOK'
  <2>1. run' \in Runs
    BY <1>0, <1>21 DEF RunDies, Runs, NoRun
  <2> QED BY <1>0, <1>t, <1>q, <1>21, <2>1 DEF RunDies, Fault
<1>22. CASE UNCHANGED vars
  BY <1>0, <1>t, <1>q, <1>22 DEF vars
<1> QED BY <1>2, <1>3, <1>4, <1>5, <1>6, <1>7, <1>8, <1>9, <1>10, <1>11, <1>12, <1>13,
           <1>14, <1>15, <1>16, <1>17, <1>18, <1>19, <1>20, <1>21, <1>22
        DEF Next, Command, Agent

-----------------------------------------------------------------------------
(* The steps, by what they do to the command.                              *)

\* Steps of others: the agents, and pushes to the branch.
Outside ==
  \/ \E e \in Envs, S \in Placements : Place(e, S)
  \/ \E p \in Places : Agent(p) \/ RunDies(p)
  \/ UNCHANGED vars

Starting ==
  \/ \E n \in Names, p \in Places : ProvisionNode(n, p)
  \/ \E n \in Names, keep \in [containers : BOOLEAN, home : BOOLEAN] : NodeRemove(n, keep)
  \/ \E e \in Envs : SecretsSet(e) \/ SecretsRekey(e)

\* Steps that end the command and change nothing else, faults counted apart.
Ending == HomeOccupied \/ NodeRefused \/ PushRejected \/ Done \/ Abort

LEMMA OutsideKeeps ==
  ASSUME Outside
  PROVE  /\ cmd' = cmd /\ inv' = inv /\ cipher' = cipher /\ desk' = desk
         /\ home' = home /\ cron' = cron
BY DEF Outside, Place, Agent, StartRun, SkipEnv, DeployEnv, Deployed, RunFails, RunDies, vars,
   branch, node, bounds

LEMMA StartingKeeps ==
  ASSUME Starting
  PROVE  /\ inv' = inv /\ pins' = pins /\ cipher' = cipher /\ desk' = desk /\ moved' = moved
         /\ home' = home /\ cron' = cron /\ containers' = containers /\ late' = late
         /\ cmd'.left = {}
         /\ \/ /\ cmd'.pc = "free" /\ cmd'.op = "add" /\ cmd'.todo = cmd'.envs
               /\ cmd'.name \in Names /\ cmd'.place \in Places
            \/ cmd'.pc = "sync" /\ cmd'.op = "remove" /\ cmd'.name \in Names
            \/ /\ cmd'.pc = "sync" /\ cmd'.op \in {"set", "rekey"} /\ cmd'.todo = cmd'.envs
               /\ \E e \in Envs : cmd'.envs = {e}
<1> DEFINE Kept == /\ inv' = inv /\ pins' = pins /\ cipher' = cipher /\ desk' = desk
                   /\ moved' = moved /\ home' = home /\ cron' = cron
                   /\ containers' = containers /\ late' = late
<1>1. ASSUME NEW n \in Names, NEW p \in Places, ProvisionNode(n, p)
      PROVE  /\ Kept
             /\ cmd'.pc = "free" /\ cmd'.op = "add" /\ cmd'.todo = cmd'.envs
             /\ cmd'.name = n /\ cmd'.place = p /\ cmd'.left = {}
  BY <1>1 DEF ProvisionNode, Begin, NoCommand, branch, node
<1>2. ASSUME NEW n \in Names, NEW keep \in [containers : BOOLEAN, home : BOOLEAN],
             NodeRemove(n, keep)
      PROVE  Kept /\ cmd'.pc = "sync" /\ cmd'.op = "remove" /\ cmd'.name = n /\ cmd'.left = {}
  BY <1>2 DEF NodeRemove, Begin, NoCommand, branch, node
<1>3. ASSUME NEW e \in Envs, SecretsSet(e) \/ SecretsRekey(e)
      PROVE  /\ Kept /\ cmd'.pc = "sync" /\ cmd'.op \in {"set", "rekey"}
             /\ cmd'.todo = cmd'.envs /\ cmd'.envs = {e} /\ cmd'.left = {}
  <2>1. CASE SecretsSet(e)
    BY <2>1 DEF SecretsSet, Begin, NoCommand, branch, node
  <2>2. CASE SecretsRekey(e)
    BY <2>2 DEF SecretsRekey, Begin, NoCommand, branch, node
  <2> QED BY <1>3, <2>1, <2>2
<1> QED BY <1>1, <1>2, <1>3 DEF Starting

LEMMA EndingKeeps ==
  ASSUME Ending
  PROVE  /\ inv' = inv /\ pins' = pins /\ cipher' = cipher /\ desk' = desk /\ moved' = moved
         /\ home' = home /\ cron' = cron /\ containers' = containers
         /\ cmd'.pc = "idle" /\ cmd'.op = "none"
BY DEF Ending, HomeOccupied, NodeRefused, PushRejected, Done, Abort, Ends, NoCommand, branch,
   node

LEMMA StepKinds ==
  ASSUME [Next]_vars
  PROVE  \/ Outside \/ Starting \/ Ending
         \/ WriteConfig \/ WriteIdentity \/ InstallCron \/ Sync \/ AddNode \/ RemoveNode
         \/ \E e \in Envs : writeSecrets(e) \/ rekeyEnv(e)
         \/ Push \/ RemoveCron \/ ListProjects \/ (\E c \in cmd.left : Down(c)) \/ RemoveHome
BY DEF Next, Outside, Starting, Ending, Command

-----------------------------------------------------------------------------
(* Where the command stands.                                               *)

LEMMA LocatedNext == TypeOK /\ Located /\ [Next]_vars => Located'
<1> SUFFICES ASSUME TypeOK, Located, [Next]_vars PROVE Located'
  OBVIOUS
<1> USE DEF Located, Adds, Removes, Encrypts, Ops
<1>0. cmd \in CmdType
  BY DEF TypeOK, CmdType
<1>1. CASE Outside
  BY <1>1, OutsideKeeps
<1>2. CASE Starting
  BY <1>2, StartingKeeps
<1>3. CASE Ending
  BY <1>3, EndingKeeps
<1>4. CASE WriteConfig \/ WriteIdentity \/ InstallCron
  BY <1>0, <1>4 DEF WriteConfig, WriteIdentity, InstallCron, Goes, CmdType
<1>5. CASE Sync
  BY <1>0, <1>5 DEF Sync, Goes, After, CmdType
<1>6. CASE AddNode
  BY <1>0, <1>6 DEF AddNode, Goes, CmdType
<1>7. CASE RemoveNode
  <2>1. desk.inv[cmd.name].at \in Places
    BY <1>7 DEF RemoveNode, TypeOK, Entry
  <2> QED BY <1>0, <1>7, <2>1 DEF RemoveNode, CmdType
<1>8. ASSUME NEW e \in Envs, writeSecrets(e) \/ rekeyEnv(e) PROVE Located'
  <2>1. CASE writeSecrets(e)
    BY <1>0, <2>1 DEF writeSecrets, CmdType
  <2>2. CASE rekeyEnv(e)
    <3>1. ASSUME NEW pc \in {"next", "push"}, cmd' = [cmd EXCEPT !.pc = pc, !.todo = @ \ {e}]
          PROVE  Located'
      BY <1>0, <2>2, <3>1 DEF rekeyEnv, CmdType
    <3> QED BY <2>2, <3>1 DEF rekeyEnv
  <2> QED BY <1>8, <2>1, <2>2
<1>9. CASE Push
  BY <1>0, <1>9 DEF Push, Goes, CmdType
<1>10. CASE RemoveCron
  <2>1. ASSUME NEW pc \in {"down", "list"}, Goes(pc) PROVE Located'
    BY <1>0, <1>10, <2>1 DEF RemoveCron, Goes, CmdType
  <2> QED BY <1>10, <2>1 DEF RemoveCron
<1>11. CASE ListProjects
  BY <1>0, <1>11 DEF ListProjects, CmdType
<1>12. ASSUME NEW c \in cmd.left, Down(c) PROVE Located'
  BY <1>0, <1>12 DEF Down, CmdType
<1>13. CASE RemoveHome
  BY <1>13 DEF RemoveHome, Ends, NoCommand
<1> QED BY <1>1, <1>2, <1>3, <1>4, <1>5, <1>6, <1>7, <1>8, <1>9, <1>10, <1>11, <1>12, <1>13,
           StepKinds

(***************************************************************************)
(* Every variable keeps to its type, for any names, homes, hosts and       *)
(* placements, whatever fails or is cut off.                               *)
(***************************************************************************)
THEOREM TypeCorrect == Spec => []TypeOK
<1>1. Init => Located
  BY DEF Init, NoCommand, Located, Adds, Removes, Encrypts, Ops
<1>2. TypeOK /\ Located /\ [Next]_vars => (TypeOK /\ Located)'
  BY NextType, LocatedNext
<1> QED BY <1>1, <1>2, InitType, PTL DEF Spec

-----------------------------------------------------------------------------
(* Homes.                                                                  *)

LEMMA HomesNext == TypeOK /\ Located /\ HomesInv /\ [Next]_vars => HomesInv'
<1> SUFFICES ASSUME TypeOK, Located, HomesInv, [Next]_vars PROVE HomesInv'
  OBVIOUS
<1> USE DEF HomesInv, Provisioned, NewHome, OldHome, Adds, Removes
<1>0. cmd \in CmdType /\ desk \in Desk /\ inv \in Inventory /\ home \in [Places -> Home]
  BY DEF TypeOK, CmdType, Desk, Inventory, Secrets
<1>t. \A n \in Names : /\ inv[n] # None => inv[n].at \in Places
                       /\ desk.inv[n] # None => desk.inv[n].at \in Places
  BY <1>0 DEF Desk, Inventory, Entry
<1>n. \A n \in Names : /\ inv[n] # None => home[inv[n].at].name = n
                       /\ desk.inv[n] # None => home[desk.inv[n].at].name = n
  <2>1. ASSUME NEW n \in Names, inv[n] # None PROVE home[inv[n].at].name = n
    <3>1. home[inv[n].at] = [name |-> n, key |-> inv[n].key]
      BY <2>1
    <3> QED BY <3>1
  <2>2. ASSUME NEW n \in Names, desk.inv[n] # None PROVE home[desk.inv[n].at].name = n
    <3>1. home[desk.inv[n].at] = [name |-> n, key |-> desk.inv[n].key]
      BY <2>2
    <3> QED BY <3>1
  <2> QED BY <2>1, <2>2
<1>1. CASE Outside
  BY <1>1, OutsideKeeps
<1>2. CASE Starting
  BY <1>2, StartingKeeps
<1>3. CASE Ending
  BY <1>3, EndingKeeps
<1>4. CASE WriteConfig
  <2>1. cmd.op = "add" /\ cmd.name \in Names /\ cmd.place \in Places
    BY <1>4 DEF WriteConfig, Located
  <2>2. \A n \in Names : /\ inv[n] # None => inv[n].at # cmd.place
                         /\ desk.inv[n] # None => desk.inv[n].at # cmd.place
    BY <1>4, <1>n, NamesAssumption DEF WriteConfig
  <2>3. /\ home'[cmd.place].name = cmd.name
        /\ \A p \in Places \ {cmd.place} : home'[p] = home[p]
    BY <1>0, <1>4, <2>1 DEF WriteConfig, Home
  <2>4. inv' = inv /\ desk' = desk
    BY <1>4 DEF WriteConfig, branch
  <2>5. cmd' = [cmd EXCEPT !.pc = "key"]
    BY <1>4 DEF WriteConfig, Goes
  <2>6. Provisioned(inv)' /\ Provisioned(desk.inv)'
    BY <1>t, <2>2, <2>3, <2>4
  <2>7. NewHome' /\ OldHome'
    BY <1>0, <2>1, <2>2, <2>3, <2>4, <2>5 DEF CmdType
  <2> QED BY <2>6, <2>7
<1>5. CASE WriteIdentity
  <2>1. cmd.op = "add" /\ cmd.place \in Places
    BY <1>5 DEF WriteIdentity, Located
  <2>2. \A n \in Names : /\ inv[n] # None => inv[n].at # cmd.place
                         /\ desk.inv[n] # None => desk.inv[n].at # cmd.place
    BY <1>5 DEF WriteIdentity
  <2>3. /\ home'[cmd.place] = [name |-> cmd.name, key |-> cmd.key]
        /\ \A p \in Places \ {cmd.place} : home'[p] = home[p]
    BY <1>0, <1>5, <2>1 DEF WriteIdentity, Home
  <2>4. inv' = inv /\ desk' = desk
    BY <1>5 DEF WriteIdentity, branch
  <2>5. cmd' = [cmd EXCEPT !.pc = "cron"]
    BY <1>5 DEF WriteIdentity, Goes
  <2>6. Provisioned(inv)' /\ Provisioned(desk.inv)'
    BY <1>t, <2>2, <2>3, <2>4
  <2>7. NewHome' /\ OldHome'
    BY <1>0, <2>1, <2>3, <2>5 DEF CmdType
  <2> QED BY <2>6, <2>7
<1>6. CASE InstallCron
  <2>1. inv' = inv /\ desk' = desk /\ home' = home /\ cmd' = [cmd EXCEPT !.pc = "sync"]
    BY <1>6 DEF InstallCron, Goes, branch
  <2>2. cmd.op = "add" /\ cmd.pc = "cron"
    BY <1>6 DEF InstallCron, Located
  <2> QED BY <1>0, <2>1, <2>2 DEF CmdType
<1>7. CASE Sync
  <2>1. inv' = inv /\ desk'.inv = desk.inv /\ home' = home /\ cmd.pc = "sync"
    BY <1>0, <1>7 DEF Sync, Desk, branch, node
  <2>2. cmd.op \in Ops
    BY <1>0, <2>1 DEF Located, CmdType
  <2>3. cmd' = [cmd EXCEPT !.pc = After[cmd.op]]
    BY <1>7 DEF Sync, Goes
  <2>4. /\ cmd.op = "add" => cmd'.pc = "register"
        /\ cmd'.pc \in {"register", "deregister", "write", "next"}
    BY <1>0, <2>2, <2>3 DEF After, Ops, CmdType
  <2> QED BY <1>0, <2>1, <2>3, <2>4 DEF CmdType
<1>8. CASE AddNode
  <2>1. cmd.op = "add" /\ cmd.name \in Names
    BY <1>8 DEF AddNode, Located
  <2>2. desk'.inv = [desk.inv EXCEPT ![cmd.name] = [at |-> cmd.place, key |-> cmd.key]]
    BY <1>0, <1>8 DEF AddNode, Desk
  <2>3. inv' = inv /\ home' = home /\ cmd' = [cmd EXCEPT !.pc = "push"]
    BY <1>8 DEF AddNode, Goes, branch, node
  <2>4. home[cmd.place] = [name |-> cmd.name, key |-> cmd.key]
    BY <1>8, <2>1 DEF AddNode
  <2>5. ASSUME NEW n \in Names, desk'.inv[n] # None
        PROVE  home'[desk'.inv[n].at] = [name |-> n, key |-> desk'.inv[n].key]
    <3>1. CASE n = cmd.name
      BY <1>0, <2>2, <2>3, <2>4, <3>1 DEF Desk, Inventory
    <3>2. CASE n # cmd.name
      BY <1>0, <2>2, <2>3, <2>5, <3>2 DEF Desk, Inventory
    <3> QED BY <3>1, <3>2
  <2> QED BY <1>0, <2>1, <2>3, <2>5 DEF CmdType
<1>9. CASE RemoveNode
  <2>1. cmd.op = "remove" /\ cmd.name \in Names
    BY <1>9 DEF RemoveNode, Located, Removes
  <2>2. desk'.inv = [desk.inv EXCEPT ![cmd.name] = None]
    BY <1>0, <1>9 DEF RemoveNode, Desk
  <2>3. inv' = inv /\ home' = home
    BY <1>9 DEF RemoveNode, branch, node
  <2>4. cmd' = [cmd EXCEPT !.pc = "push", !.place = desk.inv[cmd.name].at]
    BY <1>9 DEF RemoveNode
  <2>5. home[desk.inv[cmd.name].at].name = cmd.name
    BY <1>9, <1>n, <2>1 DEF RemoveNode
  <2>6. Provisioned(desk.inv)'
    BY <1>0, <2>2, <2>3 DEF Desk, Inventory
  <2> QED BY <1>0, <2>1, <2>2, <2>3, <2>4, <2>5, <2>6 DEF CmdType, Desk, Inventory
<1>10. ASSUME NEW e \in Envs, writeSecrets(e) \/ rekeyEnv(e) PROVE HomesInv'
  <2>1. inv' = inv /\ home' = home
    BY <1>10 DEF writeSecrets, rekeyEnv, branch, node
  <2>2. desk'.inv = desk.inv
    BY <1>0, <1>10 DEF writeSecrets, rekeyEnv, Desk
  <2>3. cmd'.pc \in {"next", "push"} /\ cmd'.op # "remove"
    <3>1. CASE writeSecrets(e)
      BY <1>0, <3>1 DEF writeSecrets, CmdType, Located
    <3>2. CASE rekeyEnv(e)
      <4>1. \E pc \in {"next", "push"} : cmd' = [cmd EXCEPT !.pc = pc, !.todo = @ \ {e}]
        BY <3>2 DEF rekeyEnv
      <4> QED BY <1>0, <3>2, <4>1 DEF rekeyEnv, CmdType, Located, Encrypts
    <3> QED BY <1>10, <3>1, <3>2
  <2> QED BY <2>1, <2>2, <2>3
<1>11. CASE Push
  <2>1. inv' = desk.inv /\ desk' = desk /\ home' = home
    BY <1>11 DEF Push, node
  <2>2. cmd' = [cmd EXCEPT !.pc = IF cmd.op = "remove" THEN "unschedule" ELSE "next"]
    BY <1>11 DEF Push, Goes
  <2>3. cmd.pc = "push"
    BY <1>11 DEF Push
  <2> QED BY <1>0, <2>1, <2>2, <2>3 DEF CmdType
<1>12. CASE RemoveCron
  <2>1. inv' = inv /\ desk' = desk /\ home' = home /\ cmd.pc = "unschedule"
    BY <1>12 DEF RemoveCron, branch
  <2>2. \E pc \in {"down", "list"} : cmd' = [cmd EXCEPT !.pc = pc]
    BY <1>12 DEF RemoveCron, Goes
  <2>3. cmd.op = "remove"
    BY <2>1 DEF Located
  <2> QED BY <1>0, <2>1, <2>2, <2>3 DEF CmdType
<1>13. CASE ListProjects \/ \E c \in cmd.left : Down(c)
  <2>1. inv' = inv /\ desk' = desk /\ home' = home /\ cmd.pc \in {"list", "down"}
    BY <1>13 DEF ListProjects, Down, branch, node
  <2>2. cmd'.pc = "down" /\ cmd'.op = cmd.op /\ cmd'.name = cmd.name /\ cmd'.place = cmd.place
    BY <1>0, <1>13 DEF ListProjects, Down, CmdType
  <2> QED BY <2>1, <2>2
<1>14. CASE RemoveHome
  <2>1. inv' = inv /\ desk' = desk /\ cmd.pc = "down"
    BY <1>14 DEF RemoveHome, branch
  <2>2. cmd.op = "remove" /\ cmd.name \in Names /\ cmd.place \in Places
    BY <2>1 DEF Located
  <2>3. \A n \in Names : /\ inv[n] # None => inv[n].at # cmd.place
                         /\ desk.inv[n] # None => desk.inv[n].at # cmd.place
    BY <1>n, <2>1, <2>2
  <2>4. \A p \in Places \ {cmd.place} : home'[p] = home[p]
    BY <1>0, <1>14 DEF RemoveHome
  <2>5. cmd'.pc = "idle" /\ cmd'.op = "none"
    BY <1>14 DEF RemoveHome, Ends, NoCommand
  <2> QED BY <1>t, <2>1, <2>3, <2>4, <2>5
<1> QED BY <1>1, <1>2, <1>3, <1>4, <1>5, <1>6, <1>7, <1>8, <1>9, <1>10, <1>11, <1>12, <1>13,
           <1>14, StepKinds

-----------------------------------------------------------------------------
(* Secrets.                                                                *)

LEMMA SameRecipients ==
  ASSUME NEW d, NEW f, NEW e, d.inv = f.inv, d.pins = f.pins
  PROVE  Recipients(d, e) = Recipients(f, e)
BY DEF Recipients

LEMMA SecretsNext == TypeOK /\ Located /\ SecretsInv /\ [Next]_vars => SecretsInv'
<1> SUFFICES ASSUME TypeOK, Located, SecretsInv, [Next]_vars PROVE SecretsInv'
  OBVIOUS
<1> USE DEF SecretsInv, DeskEncrypted, BranchEncrypted, Untouched, SecretsStay, InStep,
        Encrypts
<1>0. cmd \in CmdType /\ desk \in Desk /\ cipher \in Secrets
  BY DEF TypeOK, CmdType, Desk, Inventory, Secrets
<1>1. CASE Outside
  <2>1. moved' = TRUE \/ (moved' = moved /\ pins' = pins)
    BY <1>1 DEF Outside, Place, Agent, StartRun, SkipEnv, DeployEnv, Deployed, RunFails,
       RunDies, vars, branch
  <2>2. \A e \in Envs : Recipients(desk', e) = Recipients(desk, e)
    BY <1>1, OutsideKeeps
  <2> QED BY <1>1, <2>1, <2>2, OutsideKeeps
<1>2. CASE Starting
  BY <1>2, StartingKeeps
<1>3. CASE Ending
  BY <1>3, EndingKeeps
<1>4. CASE WriteConfig \/ WriteIdentity \/ InstallCron
  <2>1. \E pc \in {"key", "cron", "sync"} : cmd' = [cmd EXCEPT !.pc = pc]
    BY <1>4 DEF WriteConfig, WriteIdentity, InstallCron, Goes
  <2>2. cmd.pc \in {"free", "key", "cron"} /\ cmd.op = "add"
    BY <1>4 DEF WriteConfig, WriteIdentity, InstallCron, Located, Adds
  <2>3. cipher' = cipher /\ desk' = desk /\ moved' = moved /\ pins' = pins
    BY <1>4 DEF WriteConfig, WriteIdentity, InstallCron, branch
  <2> QED BY <1>0, <2>1, <2>2, <2>3 DEF CmdType
<1>5. CASE Sync
  <2>1. cmd.op \in Ops /\ cmd.pc = "sync"
    BY <1>0, <1>5 DEF Sync, Located, CmdType
  <2>2. cmd' = [cmd EXCEPT !.pc = After[cmd.op]]
    BY <1>5 DEF Sync, Goes
  <2>3. /\ cmd'.pc \in {"register", "deregister", "write", "next"}
        /\ cmd'.op = cmd.op /\ cmd'.envs = cmd.envs /\ cmd'.todo = cmd.todo
        /\ cmd'.pc = "next" => cmd.op = "rekey"
    BY <1>0, <2>1, <2>2 DEF After, Ops, CmdType
  <2>4. cmd'.op \in {"add", "set", "rekey"} => cmd'.todo = cmd'.envs
    BY <2>1, <2>3
  <2>5. cipher' = cipher /\ desk'.cipher = desk.cipher /\ desk'.pins = pins /\ pins' = pins
    BY <1>0, <1>5 DEF Sync, branch, Desk
  <2> QED BY <2>3, <2>4, <2>5
<1>6. CASE AddNode
  <2>1. cmd.op = "add" /\ cmd.todo = cmd.envs
    BY <1>6 DEF AddNode, Located, Adds
  <2>2. cmd'.pc = "push" /\ cmd'.todo = cmd'.envs
    BY <1>0, <1>6, <2>1 DEF AddNode, Goes, CmdType
  <2>3. desk'.cipher = desk.cipher /\ desk'.pins = desk.pins
    BY <1>0, <1>6 DEF AddNode, Desk
  <2>4. cipher' = cipher /\ pins' = pins /\ moved' = moved
    BY <1>6 DEF AddNode, branch
  <2> QED BY <2>2, <2>3, <2>4
<1>7. CASE RemoveNode
  <2>1. cmd'.pc = "push" /\ cmd'.op = "remove"
    BY <1>0, <1>7 DEF RemoveNode, Located, Removes, CmdType
  <2>2. desk'.cipher = desk.cipher /\ desk'.pins = desk.pins
    BY <1>0, <1>7 DEF RemoveNode, Desk
  <2>3. cipher' = cipher /\ pins' = pins /\ moved' = moved
    BY <1>7 DEF RemoveNode, branch
  <2> QED BY <2>1, <2>2, <2>3
<1>8. ASSUME NEW e \in Envs, writeSecrets(e) PROVE SecretsInv'
  <2>1. cmd.todo = cmd.envs
    BY <1>8 DEF writeSecrets, Located
  <2>2. cmd'.pc = "push" /\ cmd'.envs \ cmd'.todo \subseteq {e}
    BY <1>0, <1>8, <2>1 DEF writeSecrets, CmdType
  <2>3. /\ desk'.inv = desk.inv /\ desk'.pins = desk.pins
        /\ desk'.cipher = [desk.cipher EXCEPT ![e] = Recipients(desk, e)]
    BY <1>0, <1>8 DEF writeSecrets, Desk
  <2>4. Recipients(desk', e) = Recipients(desk, e)
    BY <2>3, SameRecipients
  <2>5. cipher' = cipher /\ pins' = pins /\ moved' = moved
    BY <1>8 DEF writeSecrets, branch
  <2>6. Recipients(desk, e) # {}
    BY <1>0, RecipientsAreKeys
  <2>7. desk'.cipher[e] = Recipients(desk', e)
    BY <1>0, <2>3, <2>4 DEF Desk, Secrets
  <2>8. SecretsStay'
    BY <1>0, <2>3, <2>5, <2>6 DEF Desk, Secrets
  <2> QED BY <2>2, <2>3, <2>5, <2>7, <2>8
<1>9. ASSUME NEW e \in Envs, rekeyEnv(e) PROVE SecretsInv'
  <2>1. cmd.pc = "next" /\ cmd.op \in {"add", "set", "rekey"}
    BY <1>9 DEF rekeyEnv, Located
  <2>2. cipher' = cipher /\ inv' = inv /\ pins' = pins /\ moved' = moved
    BY <1>9 DEF rekeyEnv, branch
  <2>3. CASE desk.cipher[e] = {}
    <3>1. desk' = desk /\ cmd' = [cmd EXCEPT !.pc = "next", !.todo = @ \ {e}]
      BY <1>9, <2>3 DEF rekeyEnv
    <3>2. /\ cmd'.pc = "next" /\ cmd'.op = cmd.op /\ cmd'.envs = cmd.envs
          /\ cmd'.todo = cmd.todo \ {e}
      BY <1>0, <3>1 DEF CmdType
    <3>3. cipher[e] = {}
      BY <2>3
    <3> QED BY <2>1, <2>2, <2>3, <3>1, <3>2, <3>3
  <2>4. CASE desk.cipher[e] # {}
    <3>1. /\ desk' = [desk EXCEPT !.cipher[e] = Recipients(desk, e)]
          /\ cmd' = [cmd EXCEPT !.pc = "push", !.todo = @ \ {e}]
      BY <1>9, <2>4 DEF rekeyEnv
    <3>2. /\ cmd'.pc = "push" /\ cmd'.op = cmd.op /\ cmd'.envs = cmd.envs
          /\ cmd'.todo = cmd.todo \ {e}
      BY <1>0, <3>1 DEF CmdType
    <3>3. /\ desk'.inv = desk.inv /\ desk'.pins = desk.pins
          /\ desk'.cipher = [desk.cipher EXCEPT ![e] = Recipients(desk, e)]
      BY <1>0, <3>1 DEF Desk
    <3>4. \A f \in Envs : Recipients(desk', f) = Recipients(desk, f)
      BY <3>3, SameRecipients
    <3>5. /\ desk'.cipher[e] = Recipients(desk, e)
          /\ \A f \in Envs \ {e} : desk'.cipher[f] = desk.cipher[f]
      BY <1>0, <3>3 DEF Desk, Secrets
    <3>6. cmd.envs \subseteq Envs
      BY <1>0 DEF CmdType
    <3>7. DeskEncrypted'
      BY <2>1, <3>2, <3>4, <3>5, <3>6
    <3>8. Recipients(desk, e) # {}
      BY <1>0, RecipientsAreKeys
    <3>9. SecretsStay'
      BY <2>2, <3>5, <3>8
    <3> QED BY <2>2, <3>2, <3>3, <3>7, <3>9
  <2> QED BY <2>3, <2>4
<1>10. CASE Push
  <2>1. inv' = desk.inv /\ cipher' = desk.cipher /\ desk' = desk
    BY <1>10 DEF Push
  <2>2. cmd.pc = "push" /\ pins' = pins /\ moved' = moved
    BY <1>10 DEF Push
  <2>3. /\ cmd'.op = cmd.op /\ cmd'.envs = cmd.envs /\ cmd'.todo = cmd.todo
        /\ cmd'.pc = IF cmd.op = "remove" THEN "unschedule" ELSE "next"
    BY <1>0, <1>10 DEF Push, Goes, CmdType
  <2>4. cmd.op \in Ops
    BY <1>0, <2>2 DEF Located, CmdType
  <2>5. cmd'.pc = "next" => cmd.op \in {"add", "set", "rekey"}
    BY <2>3, <2>4 DEF Ops
  <2>6. \A e \in Envs : Recipients(desk', e) = Recipients(desk, e)
    BY <2>1
  <2> QED BY <2>1, <2>2, <2>3, <2>5, <2>6
<1>11. CASE RemoveCron \/ ListProjects \/ (\E c \in cmd.left : Down(c)) \/ RemoveHome
  <2>1. cmd.op = "remove"
    BY <1>11 DEF RemoveCron, ListProjects, Down, RemoveHome, Located, Removes
  <2>2. /\ cipher' = cipher /\ desk' = desk /\ pins' = pins /\ moved' = moved
    BY <1>11 DEF RemoveCron, ListProjects, Down, RemoveHome, branch
  <2>3. cmd'.pc \in {"down", "list", "idle"} /\ cmd'.op \in {"remove", "none"}
    <3>1. CASE RemoveCron
      <4>1. \E pc \in {"down", "list"} : cmd' = [cmd EXCEPT !.pc = pc]
        BY <3>1 DEF RemoveCron, Goes
      <4> QED BY <1>0, <2>1, <4>1 DEF CmdType
    <3>2. CASE ListProjects \/ \E c \in cmd.left : Down(c)
      BY <1>0, <2>1, <3>2 DEF ListProjects, Down, CmdType
    <3>3. CASE RemoveHome
      BY <3>3 DEF RemoveHome, Ends, NoCommand
    <3> QED BY <1>11, <3>1, <3>2, <3>3
  <2> QED BY <2>2, <2>3
<1> QED BY <1>1, <1>2, <1>3, <1>4, <1>5, <1>6, <1>7, <1>8, <1>9, <1>10, <1>11, StepKinds

-----------------------------------------------------------------------------
(* Containers of a removed node.                                           *)

LEMMA ListedNext == TypeOK /\ Located /\ Listed /\ [Next]_vars => Listed'
<1> SUFFICES ASSUME TypeOK, Located, Listed, [Next]_vars PROVE Listed'
  OBVIOUS
<1> USE DEF Listed, Removes
<1>0. cmd \in CmdType
  BY DEF TypeOK, CmdType
<1>1. CASE Outside
  <2>1. cmd' = cmd
    BY <1>1, OutsideKeeps
  <2>2. ASSUME NEW p \in Places, NEW e \in Envs, DeployEnv(p, e) PROVE Listed'
    BY <2>1, <2>2 DEF DeployEnv, Deployed
  <2>3. CASE containers' = containers /\ late' = late
    BY <2>1, <2>3
  <2> QED BY <1>1, <2>2, <2>3
          DEF Outside, Place, Agent, StartRun, SkipEnv, RunFails, RunDies, vars
<1>2. CASE Starting
  BY <1>2, StartingKeeps
<1>3. CASE Ending
  BY <1>3, EndingKeeps
<1>4. CASE \/ WriteConfig \/ WriteIdentity \/ InstallCron \/ Sync \/ AddNode \/ RemoveNode
           \/ (\E e \in Envs : writeSecrets(e) \/ rekeyEnv(e)) \/ Push
  <2>1. \E pc \in Steps \ {"down"} : cmd'.pc = pc
    <3>1. CASE WriteConfig \/ WriteIdentity \/ InstallCron \/ AddNode
      BY <1>0, <3>1 DEF WriteConfig, WriteIdentity, InstallCron, AddNode, Goes, Steps, CmdType
    <3>2. CASE Sync
      <4>1. cmd.op \in Ops
        BY <1>0, <3>2 DEF Sync, Located, CmdType
      <4> QED BY <1>0, <3>2, <4>1 DEF Sync, Goes, After, Ops, Steps, CmdType
    <3>3. CASE RemoveNode
      BY <1>0, <3>3 DEF RemoveNode, Steps, CmdType
    <3>4. CASE Push
      BY <1>0, <3>4 DEF Push, Goes, Steps, CmdType
    <3>5. ASSUME NEW e \in Envs, writeSecrets(e) PROVE cmd'.pc = "push"
      BY <1>0, <3>5 DEF writeSecrets, CmdType
    <3>6. ASSUME NEW e \in Envs, rekeyEnv(e) PROVE cmd'.pc \in {"next", "push"}
      <4>1. \E pc \in {"next", "push"} : cmd' = [cmd EXCEPT !.pc = pc, !.todo = @ \ {e}]
        BY <3>6 DEF rekeyEnv
      <4> QED BY <1>0, <4>1 DEF CmdType
    <3> QED BY <1>4, <3>1, <3>2, <3>3, <3>4, <3>5, <3>6 DEF Steps
  <2> QED BY <2>1
<1>5. CASE RemoveCron
  <2>1. cmd' = [cmd EXCEPT !.pc = IF cmd.keep.containers THEN "down" ELSE "list"]
    BY <1>5 DEF RemoveCron, Goes
  <2>2. cmd'.keep = cmd.keep /\ (cmd'.pc = "down" => cmd.keep.containers)
    BY <1>0, <2>1 DEF CmdType
  <2> QED BY <2>2
<1>6. CASE ListProjects
  <2>1. cmd' = [cmd EXCEPT !.pc = "down", !.left = TeardownProjects]
    BY <1>6 DEF ListProjects
  <2>2. cmd'.left = TeardownProjects /\ cmd'.name = cmd.name /\ cmd'.place = cmd.place
    BY <1>0, <2>1 DEF CmdType
  <2>3. containers' = containers
    BY <1>6 DEF ListProjects
  <2> QED BY <2>2, <2>3 DEF TeardownProjects
<1>7. ASSUME NEW c \in cmd.left, Down(c) PROVE Listed'
  <2>1. cmd' = [cmd EXCEPT !.left = @ \ {c}] /\ cmd.pc = "down"
    BY <1>7 DEF Down
  <2>2. /\ cmd'.left = cmd.left \ {c} /\ cmd'.name = cmd.name /\ cmd'.place = cmd.place
        /\ cmd'.keep = cmd.keep /\ cmd'.op = cmd.op
    BY <1>0, <2>1 DEF CmdType
  <2>3. containers' = containers \ {c} /\ late' = late
    BY <1>7 DEF Down
  <2> QED BY <2>1, <2>2, <2>3
<1>8. CASE RemoveHome
  BY <1>8 DEF RemoveHome, Ends, NoCommand
<1> QED BY <1>1, <1>2, <1>3, <1>4, <1>5, <1>6, <1>7, <1>8, StepKinds

-----------------------------------------------------------------------------
(* The theorems.                                                           *)

LEMMA InitInv == Init => IInv
<1> SUFFICES ASSUME Init PROVE IInv
  OBVIOUS
<1>1. cmd.pc = "idle" /\ cmd.op = "none"
  BY DEF Init, NoCommand
<1>2. Located /\ NewHome /\ OldHome /\ DeskEncrypted /\ BranchEncrypted /\ Untouched /\ Listed
  BY <1>1 DEF Located, NewHome, OldHome, DeskEncrypted, BranchEncrypted, Untouched, Listed,
     Adds, Removes, Encrypts, Ops
<1>3. desk.inv = inv /\ desk.pins = pins /\ desk.cipher = cipher
  BY DEF Init
<1>4. \A n \in Names : inv[n] = None
  BY DEF Init
<1>5. Provisioned(inv) /\ Provisioned(desk.inv) /\ SecretsStay /\ InStep
  BY <1>3, <1>4 DEF Provisioned, SecretsStay, InStep
<1> QED BY <1>2, <1>5 DEF IInv, HomesInv, SecretsInv

LEMMA Invariance == Spec => [](TypeOK /\ IInv)
<1>1. TypeOK /\ IInv /\ [Next]_vars => (TypeOK /\ IInv)'
  BY NextType, LocatedNext, HomesNext, SecretsNext, ListedNext DEF IInv
<1> QED BY <1>1, InitType, InitInv, PTL DEF Spec

(***************************************************************************)
(* Whatever is cut off, a node the inventory names has its home, with its  *)
(* config and the key the inventory names.                                 *)
(***************************************************************************)
THEOREM RegisteredHaveHomes == Spec => []RegisteredIsProvisioned
<1>1. IInv => RegisteredIsProvisioned
  BY DEF IInv, HomesInv, Provisioned, RegisteredIsProvisioned
<1> QED BY <1>1, Invariance, PTL

(***************************************************************************)
(* Between two environments, and so wherever a command may be cut off,     *)
(* what it has done is encrypted for the controller and exactly the        *)
(* registered nodes that run the stack.                                    *)
(***************************************************************************)
THEOREM SecretsReachRunners == Spec => []EncryptedForRunners
<1>1. TypeOK /\ IInv => EncryptedForRunners
  <2> SUFFICES ASSUME TypeOK, IInv, cmd.pc = "next", ~moved,
                      NEW e \in cmd.envs \ cmd.todo, cipher[e] # {}
               PROVE  cipher[e] = {Controller} \cup {k \in Keys : \E n \in pins[e] :
                                                       inv[n] # None /\ inv[n].key = k}
    BY DEF EncryptedForRunners
  <2>1. cipher[e] = Recipients(desk, e) /\ inv = desk.inv /\ pins = desk.pins
    BY DEF IInv, SecretsInv, BranchEncrypted, InStep
  <2>2. e \in Envs
    BY DEF TypeOK
  <2>3. pins[e] \subseteq Names
    BY <2>2, PlacesAssumption DEF TypeOK
  <2>4. \A n \in Names : inv[n] # None => inv[n].key \in Keys
    BY DEF TypeOK, Entry
  <2> QED BY <2>1, <2>3, <2>4 DEF Recipients
<1> QED BY <1>1, Invariance, PTL

(***************************************************************************)
(* A node remove that reports success leaves no container of the node but  *)
(* those that runs have deployed after it took its list.                   *)
(***************************************************************************)
THEOREM RemovedNodesAreGone == Spec => RemovedIsGone
<1> DEFINE Gone ==
      cmd.op = "remove" /\ cmd'.pc = "idle" /\ cmd'.said = "ok" /\ ~cmd.keep.containers
        => \A c \in containers :
             c.host = HostOf[cmd.place] /\ c.name = cmd.name => c \in late
<1>1. TypeOK /\ IInv /\ [Next]_vars => [Gone]_vars
  <2> SUFFICES ASSUME TypeOK, IInv, [Next]_vars,
                      cmd.op = "remove", cmd'.pc = "idle", cmd'.said = "ok",
                      ~cmd.keep.containers
               PROVE  \A c \in containers :
                        c.host = HostOf[cmd.place] /\ c.name = cmd.name => c \in late
    OBVIOUS
  <2>0. cmd \in CmdType /\ Located
    BY DEF TypeOK, CmdType, IInv
  <2>1. RemoveHome
    <3>1. ~Outside
      BY <2>0, OutsideKeeps DEF Located
    <3>2. ~Starting
      BY StartingKeeps
    <3>3. ~(HomeOccupied \/ NodeRefused \/ PushRejected \/ Abort)
      BY DEF HomeOccupied, NodeRefused, PushRejected, Abort, Ends, NoCommand
    <3>4. ~Done
      BY <2>0 DEF Done, Located, Encrypts
    <3>5. ~(\/ WriteConfig \/ WriteIdentity \/ InstallCron \/ AddNode \/ RemoveNode
            \/ \E f \in Envs : writeSecrets(f))
      BY <2>0 DEF WriteConfig, WriteIdentity, InstallCron, AddNode, RemoveNode, writeSecrets,
         Goes, CmdType
    <3>6. ASSUME NEW f \in Envs PROVE ~rekeyEnv(f)
      BY <2>0 DEF rekeyEnv, Located, Encrypts
    <3>7. ~Sync
      <4>1. Sync => cmd'.pc = After[cmd.op]
        BY <2>0 DEF Sync, Goes, CmdType
      <4> QED BY <4>1 DEF After
    <3>8. ~Push
      BY <2>0 DEF Push, Goes, CmdType
    <3>9. ~RemoveCron
      <4>1. RemoveCron => \E pc \in {"down", "list"} : cmd' = [cmd EXCEPT !.pc = pc]
        BY DEF RemoveCron, Goes
      <4> QED BY <2>0, <4>1 DEF CmdType
    <3>10. ~(ListProjects \/ \E c \in cmd.left : Down(c))
      BY <2>0 DEF ListProjects, Down, CmdType
    <3> QED BY <3>1, <3>2, <3>3, <3>4, <3>5, <3>6, <3>7, <3>8, <3>9, <3>10, StepKinds
            DEF Ending
  <2> QED BY <2>1 DEF RemoveHome, IInv, Listed, Removes
<1>2. RemovedIsGone <=> [][Gone]_vars
  BY PTL DEF RemovedIsGone
<1> QED BY <1>1, <1>2, Invariance, PTL DEF Spec

-----------------------------------------------------------------------------
(***************************************************************************)
(* When a command leaves the crontab lines of other homes alone. A line    *)
(* that goes without being the command's own is that of a home on the same *)
(* host whose path goes on where the command's home ends.                  *)
(***************************************************************************)
SeparateHomes ==
  \A p, q \in Places : p # q /\ HostOf[p] = HostOf[q] => <<p, q>> \notin Continues

LEMMA LostEntry ==
  ASSUME TypeOK, Located, [Next]_vars, NEW q \in cron, q \notin cron', q # cmd.place
  PROVE  /\ cmd.place \in Places /\ q \in Places
         /\ HostOf[q] = HostOf[cmd.place] /\ <<cmd.place, q>> \in Continues
<1>0. q \in Places
  BY DEF TypeOK
<1>1. CASE InstallCron \/ RemoveCron
  <2>1. cmd.place \in Places
    BY <1>1 DEF InstallCron, RemoveCron, Located, Adds, Removes
  <2>2. q \notin Stripped(cmd.place)
    BY <1>1 DEF InstallCron, RemoveCron
  <2> QED BY <1>0, <2>1, <2>2 DEF Stripped
<1>2. CASE cron' = cron
  BY <1>2
<1> QED BY <1>1, <1>2, StepKinds, OutsideKeeps, StartingKeeps, EndingKeeps
        DEF WriteConfig, WriteIdentity, Sync, AddNode, RemoveNode, writeSecrets, rekeyEnv, Push,
            ListProjects, Down, RemoveHome, node

(***************************************************************************)
(* "leaving any other crontab entries untouched" (cron.go) is true where   *)
(* no home of a host has a path that continues another's: the substring    *)
(* match of the removal is the only thing that takes foreign lines.        *)
(***************************************************************************)
THEOREM EntriesUntouchedInSeparateHomes ==
  ASSUME SeparateHomes PROVE Spec => OtherEntriesUntouched
<1>1. TypeOK /\ IInv /\ [Next]_vars => [\A q \in cron \ cron' : q = cmd.place]_vars
  BY LostEntry DEF SeparateHomes, IInv
<1> QED BY <1>1, Invariance, PTL DEF Spec, OtherEntriesUntouched

-----------------------------------------------------------------------------
(***************************************************************************)
(* Whose containers a node remove takes down: on the host of the home it   *)
(* removes, those of a name the branch has forgotten by then, or of a name *)
(* that continues it. While no name continues another, no registered node  *)
(* ever loses a container to a command.                                    *)
(***************************************************************************)
TeardownInside ==
  [][\A c \in containers \ containers' :
       /\ inv[cmd.name] = None /\ c.host = HostOf[cmd.place]
       /\ c.name = cmd.name \/ <<cmd.name, c.name>> \in Extends]_vars

LeftInside ==
  cmd.pc = "down" =>
    \A c \in cmd.left : c.host = HostOf[cmd.place]
                           /\ (c.name = cmd.name \/ <<cmd.name, c.name>> \in Extends)

\* Nothing is left to take down before it was listed.
NothingLeft == cmd.pc \notin {"down"} => cmd.left = {}

LEMMA LeftNext ==
  TypeOK /\ Located /\ LeftInside /\ NothingLeft /\ [Next]_vars
    => LeftInside' /\ NothingLeft'
<1> SUFFICES ASSUME TypeOK, Located, LeftInside, NothingLeft, [Next]_vars
             PROVE  LeftInside' /\ NothingLeft'
  OBVIOUS
<1> USE DEF LeftInside, NothingLeft
<1>0. cmd \in CmdType
  BY DEF TypeOK, CmdType
<1>1. CASE Outside
  BY <1>1, OutsideKeeps
<1>2. CASE Starting
  BY <1>2, StartingKeeps
<1>3. CASE HomeOccupied \/ NodeRefused \/ PushRejected \/ Done \/ Abort \/ RemoveHome
  <2>1. \E said \in {"ok", "error"} : Ends(said)
    BY <1>3 DEF HomeOccupied, NodeRefused, PushRejected, Done, Abort, RemoveHome
  <2> QED BY <2>1 DEF Ends, NoCommand
<1>4. CASE WriteConfig \/ WriteIdentity \/ InstallCron \/ AddNode
  BY <1>0, <1>4 DEF WriteConfig, WriteIdentity, InstallCron, AddNode, Goes, CmdType
<1>5. CASE Sync
  <2>1. cmd'.pc = After[cmd.op] /\ cmd'.left = {}
    BY <1>0, <1>5 DEF Sync, Goes, CmdType
  <2>2. cmd.op \in Ops
    BY <1>0, <1>5 DEF Sync, Located, CmdType
  <2> QED BY <2>1, <2>2 DEF After, Ops
<1>6. CASE RemoveNode
  BY <1>0, <1>6 DEF RemoveNode, CmdType
<1>7. ASSUME NEW e \in Envs, writeSecrets(e) \/ rekeyEnv(e)
      PROVE  LeftInside' /\ NothingLeft'
  <2>1. \E pc \in {"next", "push"} : cmd' = [cmd EXCEPT !.pc = pc, !.todo = @ \ {e}]
    BY <1>7 DEF writeSecrets, rekeyEnv
  <2>2. cmd.left = {}
    BY <1>7 DEF writeSecrets, rekeyEnv
  <2> QED BY <1>0, <2>1, <2>2 DEF CmdType
<1>8. CASE Push
  BY <1>0, <1>8 DEF Push, Goes, CmdType
<1>9. CASE RemoveCron
  <2>1. cmd.left = {} /\ \E pc \in {"down", "list"} : cmd' = [cmd EXCEPT !.pc = pc]
    BY <1>9 DEF RemoveCron, Goes
  <2> QED BY <1>0, <2>1 DEF CmdType
<1>10. CASE ListProjects
  <2>1. cmd' = [cmd EXCEPT !.pc = "down", !.left = TeardownProjects]
    BY <1>10 DEF ListProjects
  <2>2. /\ cmd'.pc = "down" /\ cmd'.left = TeardownProjects
        /\ cmd'.name = cmd.name /\ cmd'.place = cmd.place
    BY <1>0, <2>1 DEF CmdType
  <2> QED BY <2>2 DEF TeardownProjects
<1>11. ASSUME NEW c \in cmd.left, Down(c) PROVE LeftInside' /\ NothingLeft'
  BY <1>0, <1>11 DEF Down, CmdType
<1> QED BY <1>1, <1>2, <1>3, <1>4, <1>5, <1>6, <1>7, <1>8, <1>9, <1>10, <1>11, StepKinds
        DEF Ending

LEMMA TornDown ==
  ASSUME TypeOK, Located, OldHome, LeftInside, [Next]_vars,
         NEW c \in containers, c \notin containers'
  PROVE  /\ inv[cmd.name] = None /\ c.host = HostOf[cmd.place]
         /\ c.name = cmd.name \/ <<cmd.name, c.name>> \in Extends
<1>1. CASE \E d \in cmd.left : Down(d)
  <2>1. PICK d \in cmd.left : Down(d)
    BY <1>1
  <2>2. c = d /\ cmd.pc = "down" /\ Removes
    BY <2>1 DEF Down, Located
  <2> QED BY <2>1, <2>2 DEF LeftInside, OldHome
<1>2. CASE Outside
  BY <1>2 DEF Outside, Place, Agent, StartRun, SkipEnv, DeployEnv, Deployed, RunFails, RunDies,
     vars
<1> QED BY <1>1, <1>2, StepKinds, StartingKeeps, EndingKeeps
        DEF WriteConfig, WriteIdentity, InstallCron, Sync, AddNode, RemoveNode, writeSecrets,
            rekeyEnv, Push, RemoveCron, ListProjects, RemoveHome

(***************************************************************************)
(* Whatever runs, fails and commands are in progress, a node remove tears  *)
(* down containers only on its own host, and only of the name it removed   *)
(* or of one that continues that name.                                     *)
(***************************************************************************)
THEOREM TeardownStaysInside == Spec => TeardownInside
<1>1. Init => LeftInside /\ NothingLeft
  BY DEF Init, NoCommand, LeftInside, NothingLeft
<1>2. TypeOK /\ IInv /\ LeftInside /\ NothingLeft /\ [Next]_vars
        => (LeftInside /\ NothingLeft)'
  BY LeftNext DEF IInv
<1>3. TypeOK /\ IInv /\ LeftInside /\ [Next]_vars =>
        [\A c \in containers \ containers' :
           /\ inv[cmd.name] = None /\ c.host = HostOf[cmd.place]
           /\ c.name = cmd.name \/ <<cmd.name, c.name>> \in Extends]_vars
  BY TornDown DEF IInv, HomesInv
<1> QED BY <1>1, <1>2, <1>3, Invariance, PTL DEF Spec, TeardownInside
=============================================================================
