------------------------------ MODULE NodeAdmin ------------------------------
(***************************************************************************)
(* The life of nodes, as the controller runs it: node add fills a home,    *)
(* schedules its agent, registers the node and re-encrypts the secrets     *)
(* for its key; node remove deregisters it and takes down what it left.    *)
(* Meanwhile the agents reconcile by themselves, others push placements,   *)
(* and every command can fail or be cut off halfway.                       *)
(*                                                                         *)
(* Modelled code: ProvisionNode, registerNode, NodeRemove and the secrets  *)
(* commands (internal/admin/admin.go), the inventory and the placement of  *)
(* internal/repo/repo.go, internal/cron/cron.go, Names.TeardownPrefix and  *)
(* ListProjects (internal/runtime/docker.go), and of a node's run that it  *)
(* decrypts what it deploys. An environment stands for its only stack and  *)
(* that stack's secrets file. An edit that is not committed has no effect  *)
(* here: what it leaves in the checkout is in RepoEdit.                    *)
(***************************************************************************)
EXTENDS Naturals

CONSTANTS
  Names,        \* node names
  Places,       \* locations of homes
  Hosts,        \* hosts with their docker daemons and crontabs
  HostOf,       \* HostOf[p]: the host of a location
  Extends,      \* <<n, m>>: node name m is n, a dash and more
  Continues,    \* <<p, q>>: the path of home q is the path of p and more
  EnvCount,     \* environments, numbered in the order they are sorted in
  Placements,   \* the node sets a stack is placed on
  Starts,       \* placements, and environments with secrets, before there are nodes
  None,
  MaxCommands,  \* bound: commands, and pushes of others
  MaxFaults     \* bound: failed calls and processes cut off

Envs == 1..EnvCount

\* Every node add generates a key; 0 is the controller's own.
Keys == 0..MaxCommands
Controller == 0

ASSUME NamesAssumption == None \notin Names
ASSUME PlacesAssumption ==
  HostOf \in [Places -> Hosts] /\ Extends \subseteq Names \X Names
                               /\ Continues \subseteq Places \X Places
                               /\ Placements \subseteq SUBSET Names
                               /\ Starts \subseteq [pins : [Envs -> Placements],
                                                  sealed : SUBSET Envs]
ASSUME AdminBoundsAssumption == EnvCount \in Nat /\ MaxCommands \in Nat /\ MaxFaults \in Nat

Entry == [at : Places, key : Keys]
Home == [name : Names \cup {None}, key : Keys \cup {None}]
Empty == [name |-> None, key |-> None]
Container == [host : Hosts, name : Names, env : Envs]

VARIABLES
  inv,         \* inventory/nodes.yml of the branch
  pins,        \* pins[e]: the nodes the branch places e on
  cipher,      \* cipher[e]: the keys e's secrets are encrypted for, if it has any
  desk,        \* the controller's checkout: the same three, with commits not yet pushed
  moved,       \* the branch has commits the checkout has not seen
  home,        \* home[p]: node.yml and age.key
  cron,        \* the homes whose reconcile line is in the crontab of their host
  run,         \* run[p]: the node a run in home p works for, and what it has yet to do
  containers,
  cmd,         \* the controller's command, in progress or the last one
  late,        \* history: what runs have deployed since the node remove in cmd took its list
  commands, faults

branch == <<inv, pins, cipher>>
node == <<home, cron>>
bounds == <<commands, faults>>
vars == <<branch, desk, moved, node, run, containers, cmd, late, bounds>>

Fault == faults < MaxFaults /\ faults' = faults + 1
Operates == commands < MaxCommands /\ commands' = commands + 1

-----------------------------------------------------------------------------
(* The commands.                                                           *)

NoCommand ==
  [pc |-> "idle", op |-> "none", name |-> None, place |-> None, key |-> Controller,
   envs |-> {}, todo |-> {}, left |-> {},
   keep |-> [containers |-> FALSE, home |-> FALSE], said |-> "ok"]

NoRun == [name |-> None, todo |-> {}]

\* Mutant: every node of the inventory is made a recipient.
EveryNode(d, e) == {Controller} \cup {d.inv[n].key : n \in {m \in Names : d.inv[m] # None}}

\* Mutant: node names are taken for recipients.
RecipientsByName(d, e) == {Controller} \cup {n \in d.pins[e] : d.inv[n] # None}

\* stackRecipients: the controller, and the registered nodes that run the stack.
Recipients(d, e) == {Controller} \cup {d.inv[n].key : n \in {m \in d.pins[e] : d.inv[m] # None}}

Init ==
  /\ inv = [n \in Names |-> None]
  /\ \E s \in Starts :
       /\ pins = s.pins
       /\ cipher = [e \in Envs |-> IF e \in s.sealed THEN {Controller} ELSE {}]
  /\ desk = [inv |-> inv, pins |-> pins, cipher |-> cipher] /\ moved = FALSE
  /\ home = [p \in Places |-> Empty] /\ cron = {}
  /\ run = [p \in Places |-> NoRun] /\ containers = {}
  /\ cmd = NoCommand /\ late = {}
  /\ commands = 0 /\ faults = 0

Goes(pc) == cmd' = [cmd EXCEPT !.pc = pc]
Ends(said) == cmd' = [NoCommand EXCEPT !.said = said] /\ late' = {}

Begin(c) ==
  /\ cmd.pc = "idle"
  /\ Operates
  /\ cmd' = c
  /\ UNCHANGED <<branch, desk, moved, node, run, containers, late, faults>>

ProvisionNode(n, p) ==
  Begin([NoCommand EXCEPT !.pc = "free", !.op = "add", !.name = n, !.place = p,
                          !.key = commands + 1, !.envs = Envs, !.todo = Envs])
NodeRemove(n, keep) ==
  Begin([NoCommand EXCEPT !.pc = "sync", !.op = "remove", !.name = n, !.keep = keep])
SecretsSet(e) ==
  Begin([NoCommand EXCEPT !.pc = "sync", !.op = "set", !.envs = {e}, !.todo = {e}])
SecretsRekey(e) ==
  Begin([NoCommand EXCEPT !.pc = "sync", !.op = "rekey", !.envs = {e}, !.todo = {e}])

\* A call fails or the command is killed: what it has done so far stays.
Abort ==
  /\ cmd.pc # "idle"
  /\ Fault
  /\ Ends("error")
  /\ UNCHANGED <<branch, desk, moved, node, run, containers, commands>>

-----------------------------------------------------------------------------
(* node add, in the home: the agent is scheduled before it is registered.  *)

HomeOccupied ==
  /\ cmd.pc = "free"
  /\ home[cmd.place].name # None
  /\ Ends("error")
  /\ UNCHANGED <<branch, desk, moved, node, run, containers, bounds>>

WriteConfig ==
  /\ cmd.pc = "free"
  /\ home[cmd.place].name = None
  /\ home' = [home EXCEPT ![cmd.place].name = cmd.name]
  /\ Goes("key")
  /\ UNCHANGED <<branch, desk, moved, cron, run, containers, late, bounds>>

WriteIdentity ==
  /\ cmd.pc = "key"
  /\ home' = [home EXCEPT ![cmd.place].key = cmd.key]
  /\ Goes("cron")
  /\ UNCHANGED <<branch, desk, moved, cron, run, containers, late, bounds>>

\* 'grep -vF <marker>' drops every line the marker occurs in.
Stripped(p) == {q \in cron : q # p /\ ~(HostOf[q] = HostOf[p] /\ <<p, q>> \in Continues)}

InstallCron ==
  /\ cmd.pc = "cron"
  /\ cron' = Stripped(cmd.place) \cup {cmd.place}
  /\ Goes("sync")
  /\ UNCHANGED <<branch, desk, moved, home, run, containers, late, bounds>>

-----------------------------------------------------------------------------
(* The branch.                                                             *)

After == [add |-> "register", remove |-> "deregister", set |-> "write", rekey |-> "next"]

Sync ==
  /\ cmd.pc = "sync"
  /\ desk' = [desk EXCEPT !.pins = pins]
  /\ moved' = FALSE
  /\ Goes(After[cmd.op])
  /\ UNCHANGED <<branch, node, run, containers, late, bounds>>

NodeRefused ==
  /\ \/ cmd.pc = "register" /\ desk.inv[cmd.name] # None
     \/ cmd.pc = "deregister" /\ desk.inv[cmd.name] = None
  /\ Ends("error")
  /\ UNCHANGED <<branch, desk, moved, node, run, containers, bounds>>

AddNode ==
  /\ cmd.pc = "register"
  /\ desk.inv[cmd.name] = None
  /\ desk' = [desk EXCEPT !.inv[cmd.name] = [at |-> cmd.place, key |-> cmd.key]]
  /\ Goes("push")
  /\ UNCHANGED <<branch, moved, node, run, containers, late, bounds>>

RemoveNode ==
  /\ cmd.pc = "deregister"
  /\ desk.inv[cmd.name] # None
  /\ desk' = [desk EXCEPT !.inv[cmd.name] = None]
  /\ cmd' = [cmd EXCEPT !.pc = "push", !.place = desk.inv[cmd.name].at]
  /\ UNCHANGED <<branch, moved, node, run, containers, late, bounds>>

writeSecrets(e) ==
  /\ cmd.pc = "write" /\ e \in cmd.todo
  /\ desk' = [desk EXCEPT !.cipher[e] = Recipients(desk, e)]
  /\ cmd' = [cmd EXCEPT !.pc = "push", !.todo = @ \ {e}]
  /\ UNCHANGED <<branch, moved, node, run, containers, late, bounds>>

\* Without a secrets file there is nothing to rekey and nothing to push.
rekeyEnv(e) ==
  /\ cmd.pc = "next" /\ e \in cmd.todo
  /\ \A f \in cmd.todo : e <= f
  /\ desk' = IF desk.cipher[e] = {} THEN desk
             ELSE [desk EXCEPT !.cipher[e] = Recipients(desk, e)]
  /\ cmd' = [cmd EXCEPT !.pc = IF desk.cipher[e] = {} THEN "next" ELSE "push",
                        !.todo = @ \ {e}]
  /\ UNCHANGED <<branch, moved, node, run, containers, late, bounds>>

\* A commit is pushed at once, with those that still wait.
Push ==
  /\ cmd.pc = "push"
  /\ ~moved
  /\ inv' = desk.inv /\ cipher' = desk.cipher
  /\ Goes(IF cmd.op = "remove" THEN "unschedule" ELSE "next")
  /\ UNCHANGED <<pins, desk, moved, node, run, containers, late, bounds>>

\* Mutant: a rejected push is only a warning.
RejectedIgnored ==
  /\ cmd.pc = "push"
  /\ moved
  /\ Goes(IF cmd.op = "remove" THEN "unschedule" ELSE "next")
  /\ UNCHANGED <<branch, desk, moved, node, run, containers, late, bounds>>

\* Not a fast-forward: the commit waits in the checkout.
PushRejected ==
  /\ cmd.pc = "push"
  /\ moved
  /\ Ends("error")
  /\ UNCHANGED <<branch, desk, moved, node, run, containers, bounds>>

Done ==
  /\ cmd.pc = "next" /\ cmd.todo = {}
  /\ Ends("ok")
  /\ UNCHANGED <<branch, desk, moved, node, run, containers, bounds>>

\* Others place an environment's stack on other nodes.
Place(e, S) ==
  /\ Operates
  /\ S # pins[e]
  /\ pins' = [pins EXCEPT ![e] = S]
  /\ moved' = TRUE
  /\ UNCHANGED <<inv, cipher, desk, node, run, containers, cmd, late, faults>>

-----------------------------------------------------------------------------
(* node remove, on the node.                                               *)

\* A crontab out of reach is only a warning.
RemoveCron ==
  /\ cmd.pc = "unschedule"
  /\ \/ cron' = Stripped(cmd.place) /\ UNCHANGED faults
     \/ Fault /\ UNCHANGED cron
  /\ Goes(IF cmd.keep.containers THEN "down" ELSE "list")
  /\ UNCHANGED <<branch, desk, moved, home, run, containers, late, commands>>

\* Mutant: only what the branch still places on the node is torn down.
PlacedProjects == {c \in containers : c.name = cmd.name /\ cmd.name \in desk.pins[c.env]}

\* The names that start with the node's, whoever they belong to.
TeardownProjects ==
  {c \in containers : c.host = HostOf[cmd.place]
                        /\ (c.name = cmd.name \/ <<cmd.name, c.name>> \in Extends)}

ListProjects ==
  /\ cmd.pc = "list"
  /\ cmd' = [cmd EXCEPT !.pc = "down", !.left = TeardownProjects]
  /\ UNCHANGED <<branch, desk, moved, node, run, containers, late, bounds>>

Down(c) ==
  /\ cmd.pc = "down" /\ c \in cmd.left
  /\ containers' = containers \ {c}
  /\ cmd' = [cmd EXCEPT !.left = @ \ {c}]
  /\ UNCHANGED <<branch, desk, moved, node, run, late, bounds>>

RemoveHome ==
  /\ cmd.pc = "down" /\ cmd.left = {}
  /\ home' = IF cmd.keep.home THEN home ELSE [home EXCEPT ![cmd.place] = Empty]
  /\ Ends("ok")
  /\ UNCHANGED <<branch, desk, moved, cron, run, containers, bounds>>

-----------------------------------------------------------------------------
(* The agents.                                                             *)

StartRun(p) ==
  /\ p \in cron /\ home[p].name # None
  /\ run[p] = NoRun
  /\ run' = [run EXCEPT ![p] = [name |-> home[p].name, todo |-> Envs]]
  /\ UNCHANGED <<branch, desk, moved, node, containers, cmd, late, bounds>>

\* loadSecretVars: decrypted with the identity in the home.
Readable(p, e) == cipher[e] = {} \/ home[p].key \in cipher[e]

Turn(p, e) == e \in run[p].todo /\ \A f \in run[p].todo : e <= f
Finished(p, todo) == IF todo = {} THEN NoRun ELSE [run[p] EXCEPT !.todo = todo]

SkipEnv(p, e) ==
  /\ Turn(p, e)
  /\ run[p].name \notin pins[e]
  /\ run' = [run EXCEPT ![p] = Finished(p, @.todo \ {e})]
  /\ UNCHANGED <<branch, desk, moved, node, containers, cmd, late, bounds>>

Deployed(p, e, todo) ==
  LET c == [host |-> HostOf[p], name |-> run[p].name, env |-> e]
  IN /\ Turn(p, e)
     /\ run[p].name \in pins[e] /\ Readable(p, e)
     /\ containers' = containers \cup {c}
     /\ late' = IF cmd.op = "remove" /\ cmd.pc = "down" THEN late \cup {c} ELSE late
     /\ run' = [run EXCEPT ![p] = Finished(p, todo)]
     /\ UNCHANGED <<branch, desk, moved, node, cmd, bounds>>

\* Mutant: the first environment that is deployed ends the run.
DeployOne(p, e) == Deployed(p, e, {})

DeployEnv(p, e) == Deployed(p, e, run[p].todo \ {e})

\* A secret that does not decrypt ends the run.
RunFails(p, e) ==
  /\ Turn(p, e)
  /\ run[p].name \in pins[e] /\ ~Readable(p, e)
  /\ run' = [run EXCEPT ![p] = NoRun]
  /\ UNCHANGED <<branch, desk, moved, node, containers, cmd, late, bounds>>

RunDies(p) ==
  /\ run[p] # NoRun
  /\ Fault
  /\ run' = [run EXCEPT ![p] = NoRun]
  /\ UNCHANGED <<branch, desk, moved, node, containers, cmd, late, commands>>

Command ==
  \/ HomeOccupied \/ WriteConfig \/ WriteIdentity \/ InstallCron
  \/ Sync \/ NodeRefused \/ AddNode \/ RemoveNode
  \/ \E e \in Envs : writeSecrets(e) \/ rekeyEnv(e)
  \/ Push \/ PushRejected \/ Done
  \/ RemoveCron \/ ListProjects \/ (\E c \in cmd.left : Down(c)) \/ RemoveHome

Agent(p) ==
  \/ StartRun(p)
  \/ \E e \in Envs : SkipEnv(p, e) \/ DeployEnv(p, e) \/ RunFails(p, e)

Next ==
  \/ \E n \in Names, p \in Places : ProvisionNode(n, p)
  \/ \E n \in Names, keep \in [containers : BOOLEAN, home : BOOLEAN] : NodeRemove(n, keep)
  \/ \E e \in Envs : SecretsSet(e) \/ SecretsRekey(e)
  \/ Command \/ Abort
  \/ \E e \in Envs, S \in Placements : Place(e, S)
  \/ \E p \in Places : Agent(p) \/ RunDies(p)

\* cron starts the agents again and again; a run that is not cut off goes on.
Spec == Init /\ [][Next]_vars /\ \A p \in Places : WF_vars(Agent(p))

-----------------------------------------------------------------------------
(* Properties.                                                             *)

Ops == {"add", "remove", "set", "rekey"}
Steps ==
  {"free", "key", "cron", "sync", "register", "deregister", "write", "next", "push",
   "unschedule", "list", "down"}

TypeOK ==
  /\ inv \in [Names -> Entry \cup {None}]
  /\ pins \in [Envs -> Placements]
  /\ cipher \in [Envs -> SUBSET Keys]
  /\ desk \in [inv : [Names -> Entry \cup {None}], pins : [Envs -> Placements],
               cipher : [Envs -> SUBSET Keys]]
  /\ moved \in BOOLEAN
  /\ home \in [Places -> Home] /\ cron \subseteq Places
  /\ run \in [Places -> [name : Names \cup {None}, todo : SUBSET Envs]]
  /\ containers \subseteq Container /\ late \subseteq Container
  /\ cmd \in [pc : Steps \cup {"idle"}, op : Ops \cup {"none"}, name : Names \cup {None},
              place : Places \cup {None}, key : Keys, envs : SUBSET Envs,
              todo : SUBSET Envs, left : SUBSET Container,
              keep : [containers : BOOLEAN, home : BOOLEAN], said : {"ok", "error"}]
  /\ commands \in 0..MaxCommands /\ faults \in 0..MaxFaults

(***************************************************************************)
(* A registered node has its home, with its config and the very key the    *)
(* inventory names, whatever was cut off: node add registers what it has   *)
(* written, and node remove takes nothing down before the branch has       *)
(* forgotten the node.                                                     *)
(***************************************************************************)
RegisteredIsProvisioned ==
  \A n \in Names :
    inv[n] # None => home[inv[n].at] = [name |-> n, key |-> inv[n].key]

(***************************************************************************)
(* Wherever node add, secrets set or secrets rekey stands between two      *)
(* environments, and so wherever it may be cut off and when it reports     *)
(* success: what it has done can be read by the controller and exactly the *)
(* nodes that the branch registers and runs the stack on, whatever earlier *)
(* commands left half done. No node that must decrypt it is locked out,    *)
(* the new one not either, and no other is let in. A placement that others *)
(* push after the command has pulled it does not see.                      *)
(***************************************************************************)
EncryptedForRunners ==
  cmd.pc = "next" /\ ~moved =>
    \A e \in cmd.envs \ cmd.todo :
      cipher[e] # {} =>
        cipher[e] = {Controller} \cup {k \in Keys : \E n \in pins[e] :
                                         inv[n] # None /\ inv[n].key = k}

(***************************************************************************)
(* When node remove reports success, no container of the node is left on   *)
(* its host but those a run has deployed after the command took its list:  *)
(* what a run deploys before that is still found and torn down.            *)
(***************************************************************************)
RemovedIsGone ==
  [][cmd.op = "remove" /\ cmd'.pc = "idle" /\ cmd'.said = "ok"
       /\ ~cmd.keep.containers
     => \A c \in containers :
          c.host = HostOf[cmd.place] /\ c.name = cmd.name => c \in late]_vars

Serves(n, p, e) ==
  /\ inv[n] # None /\ inv[n].at = p
  /\ p \in cron
  /\ n \in pins[e]
  /\ \A f \in Envs : n \in pins[f] => Readable(p, f)

(***************************************************************************)
(* A registered node that is scheduled and can read its secrets ends up    *)
(* running everything placed on it, also when its containers were torn     *)
(* down with those of a node whose name its own continues.                 *)
(***************************************************************************)
NodesServe ==
  \A n \in Names, p \in Places, e \in Envs :
    <>[]Serves(n, p, e) => <>[]([host |-> HostOf[p], name |-> n, env |-> e] \in containers)

(***************************************************************************)
(* "RemoveScript is a POSIX-sh snippet that drops the home's line, leaving *)
(* any other crontab entries untouched" (cron.go): a command takes away    *)
(* the reconcile line of no home but its own.                              *)
(***************************************************************************)
OtherEntriesUntouched == [][\A q \in cron \ cron' : q = cmd.place]_vars
=============================================================================
