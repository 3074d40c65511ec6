---------------------------- MODULE ClusterSetup ----------------------------
(***************************************************************************)
(* Deploying the CockroachDB cluster: terraform apply (terraform/nodes.tf) *)
(* with the script that sets up each VM (vminit/vminit.sh), the services   *)
(* (vminit/cockroachdb/cockroachdb/smf), the operator of README.adoc, and  *)
(* the scripts he runs on the load generator (configure_cluster,           *)
(* configure_haproxy).  Any step may fail, VMs may be lost or reboot.      *)
(* Terraform, AWS, SMF and CockroachDB are external: what is here is what  *)
(* the scripts rely on.                                                    *)
(***************************************************************************)
EXTENDS Integers, FiniteSets, Sequences

CONSTANTS DB,         \* database nodes that there may be
          InitialDB,  \* those of the first deployment (ndbs)
          Others,     \* the other VMs: "loadgen", and "mon"
          IPs,        \* private addresses of the subnet, for DB nodes
          None,       \* no address, list, file or process
          MaxFaults   \* bound on failures, losses and reboots

ASSUME ClusterAssumption ==
    /\ IsFiniteSet(DB) /\ InitialDB \subseteq DB /\ IsFiniteSet(IPs)
    /\ Cardinality(IPs) >= Cardinality(DB)
    /\ "loadgen" \in Others /\ Others \subseteq {"loadgen", "mon"}
    /\ MaxFaults \in Nat

\* None is not the triggers of an instance.
ASSUME NoneAssumption ==
    None \notin [my_id : Nat, cluster_ips : SUBSET (IPs \cup {None})]

Machines == DB \cup Others

VARIABLES wanted,   \* the nodes that count = local.ndbs asks for
          vm,       \* terraform's state of each instance, and how it really is
          tf,       \* [run, todo, failed]: terraform apply
          trigger,  \* null_resource cluster_config: its triggers, None if to be created
          svc,      \* the cockroachdb service of each node, its process
          maintenance, \* the nodes where SMF gave that service up
          members,  \* the instances that are nodes of the initialised cluster
          proxy,    \* haproxy on the load generator, and the script there
          skipped,  \* history: nodes where the last setprop of cluster_config failed
          faults

vars == <<wanted, vm, tf, trigger, svc, maintenance, members, proxy, skipped, faults>>

Unset == [mine |-> None, others |-> {}]
\* create_default_instance enabled="false"; both properties are "".
NewService == [conf |-> Unset, snap |-> Unset, enabled |-> FALSE, proc |-> None]
NewProxy == [file |-> None, enabled |-> FALSE, loaded |-> None, pc |-> "idle"]

Init ==
    /\ wanted = InitialDB
    /\ vm = [m \in Machines |-> [state |-> "absent", id |-> 0, ip |-> None]]
    /\ tf = [run |-> "never", todo |-> {}, failed |-> {}]
    /\ trigger = [n \in DB |-> None]
    /\ svc = [n \in DB |-> NewService]
    /\ maintenance = {} /\ members = {} /\ proxy = NewProxy
    /\ skipped = {} /\ faults = 0

Ready(m) == vm[m].state = "ready"
HasIP(m) == vm[m].state \notin {"absent", "lost"}
Deployed == wanted \cup Others
IPsOf(S) == {vm[n].ip : n \in S}
Instance(n) == [node |-> n, id |-> vm[n].id, ip |-> vm[n].ip]
IsMember(n) == Ready(n) /\ Instance(n) \in members
Initialised == members # {}
MemberIPs == {x.ip : x \in members}

\* The operator waits for what he started.
AtPrompt == tf.run # "running" /\ proxy.pc = "idle"

Fault == faults < MaxFaults /\ faults' = faults + 1
NoFault == UNCHANGED faults

-----------------------------------------------------------------------------
(***************************************************************************)
(* terraform apply                                                         *)
(***************************************************************************)
\* The plan: instances that are missing or tainted are created.
Apply ==
    /\ AtPrompt
    /\ tf.run # "done" \/ \E m \in Deployed : ~Ready(m)
    /\ tf' = [run |-> "running", todo |-> {m \in Deployed : ~Ready(m)}, failed |-> {}]
    /\ NoFault /\ UNCHANGED <<wanted, vm, trigger, svc, maintenance, members, proxy, skipped>>

\* Any address that is free; the first time one is as good as another.
Addresses(m) ==
    LET free == IPs \ IPsOf({n \in DB \ {m} : HasIP(n)})
    IN  IF vm[m].id = 0 THEN {CHOOSE ip \in free : TRUE} ELSE free

\* A new instance, with a new id and an address, and nothing on it.
Create(m) ==
    /\ tf.run = "running" /\ m \in tf.todo
    /\ tf' = [tf EXCEPT !.todo = @ \ {m}]
    /\ \E ip \in IF m \in DB THEN Addresses(m) ELSE {None} :
         vm' = [vm EXCEPT ![m] = [state |-> "booting", id |-> @.id + 1, ip |-> ip]]
    /\ svc' = IF m \in DB THEN [svc EXCEPT ![m] = NewService] ELSE svc
    /\ maintenance' = maintenance \ {m}
    /\ proxy' = IF m = "loadgen" THEN NewProxy ELSE proxy
    /\ NoFault /\ UNCHANGED <<wanted, trigger, members, skipped>>

\* vminit.sh on a db node ends with the manifest imported, setprop and refresh.
WithOwnIP(m) ==
    LET own == [mine |-> vm[m].ip, others |-> {}]
    IN  [conf |-> own, snap |-> own, enabled |-> FALSE, proc |-> None]

\* vminit.sh, from the first command to the last: nobody uses the VM before.
Vminit(m) ==
    /\ vm[m].state = "booting"
    /\ vm' = [vm EXCEPT ![m].state = "ready"]
    /\ svc' = IF m \in DB THEN [svc EXCEPT ![m] = WithOwnIP(m)] ELSE svc
    /\ NoFault /\ UNCHANGED <<wanted, tf, trigger, maintenance, members, proxy, skipped>>

\* errexit ends the script at the first command that fails, which leaves the
\* resource tainted, with what was done so far.
VminitFails(m) ==
    /\ vm[m].state = "booting" /\ Fault
    /\ vm' = [vm EXCEPT ![m].state = "tainted"]
    /\ tf' = [tf EXCEPT !.failed = @ \cup {m}]
    /\ UNCHANGED <<wanted, trigger, svc, maintenance, members, proxy, skipped>>

\* Mutant of Triggers: only the node's own instance.
TriggersOwnOnly(n) == [my_id |-> vm[n].id, cluster_ips |-> {}]

Triggers(n) == [my_id |-> vm[n].id, cluster_ips |-> IPsOf(wanted)]

\* null_resource waits for every db instance (it refers to aws_instance.db.*); lost
\* ones are still in terraform's state.
ConfigDue(n) ==
    /\ tf.run = "running" /\ n \in wanted \ tf.failed /\ trigger[n] # Triggers(n)
    /\ \A m \in wanted : m \notin tf.todo /\ vm[m].state \in {"ready", "lost"}

\* Mutant of ClusterConfig: the node's own address where the list belongs.
ClusterConfigOwn(n) ==
    /\ ConfigDue(n) /\ Ready(n)
    /\ LET conf == [svc[n].conf EXCEPT !.others = {vm[n].ip}]
       IN  svc' = [svc EXCEPT ![n] = [conf |-> conf, snap |-> conf,
                                      enabled |-> @.enabled, proc |-> @.proc]]
    /\ trigger' = [trigger EXCEPT ![n] = Triggers(n)]
    /\ skipped' = skipped \ {n}
    /\ NoFault /\ UNCHANGED <<wanted, vm, tf, maintenance, members, proxy>>

\* setprop and refresh: a process that runs keeps its arguments.
ClusterConfig(n) ==
    /\ ConfigDue(n) /\ Ready(n)
    /\ LET conf == [svc[n].conf EXCEPT !.others = IPsOf(wanted)]
       IN  svc' = [svc EXCEPT ![n] = [conf |-> conf, snap |-> conf,
                                      enabled |-> @.enabled, proc |-> @.proc]]
    /\ trigger' = [trigger EXCEPT ![n] = Triggers(n)]
    /\ skipped' = skipped \ {n}
    /\ NoFault /\ UNCHANGED <<wanted, vm, tf, maintenance, members, proxy>>

\* setprop fails and refresh does not.  The status of the commands is that of the
\* last one: to terraform all went well, and it will not try again.
ClusterConfigSkips(n) ==
    /\ ConfigDue(n) /\ Ready(n) /\ Fault
    /\ svc' = [svc EXCEPT ![n].snap = svc[n].conf]
    /\ trigger' = [trigger EXCEPT ![n] = Triggers(n)]
    /\ skipped' = skipped \cup {n}
    /\ UNCHANGED <<wanted, vm, tf, maintenance, members, proxy>>

\* No connection, or refresh fails, whatever became of setprop: it is tainted and
\* terraform tries it again in the next apply only.
ClusterConfigFails(n) ==
    /\ ConfigDue(n) /\ Ready(n) /\ Fault
    /\ \/ UNCHANGED svc
       \/ svc' = [svc EXCEPT ![n].conf = [@ EXCEPT !.others = IPsOf(wanted)]]
    /\ tf' = [tf EXCEPT !.failed = @ \cup {n}]
    /\ trigger' = [trigger EXCEPT ![n] = None]
    /\ UNCHANGED <<wanted, vm, maintenance, members, proxy, skipped>>

\* The instance was lost: no connection.
ClusterConfigLost(n) ==
    /\ ConfigDue(n) /\ ~Ready(n)
    /\ tf' = [tf EXCEPT !.failed = @ \cup {n}]
    /\ trigger' = [trigger EXCEPT ![n] = None]
    /\ NoFault /\ UNCHANGED <<wanted, vm, svc, maintenance, members, proxy, skipped>>

ApplyEnds ==
    /\ tf.run = "running" /\ tf.todo = {}
    /\ \A m \in Deployed : vm[m].state # "booting"
    /\ \A n \in wanted : ~ConfigDue(n)
    /\ tf' = [tf EXCEPT !.run = IF tf.failed = {} THEN "done" ELSE "failed"]
    /\ NoFault /\ UNCHANGED <<wanted, vm, trigger, svc, maintenance, members, proxy, skipped>>

\* The operator raises ndbs of a cluster that was deployed.
Grow(n) ==
    /\ AtPrompt /\ tf.run = "done" /\ n \notin wanted
    /\ wanted' = wanted \cup {n}
    /\ tf' = [tf EXCEPT !.run = "never"]
    /\ NoFault /\ UNCHANGED <<vm, trigger, svc, maintenance, members, proxy, skipped>>

-----------------------------------------------------------------------------
(***************************************************************************)
(* The nodes                                                               *)
(***************************************************************************)
\* svcadm enable -s cockroachdb, once terraform succeeded.
Enable(n) ==
    /\ tf.run = "done" /\ n \in wanted /\ Ready(n) /\ ~svc[n].enabled
    /\ svc' = [svc EXCEPT ![n].enabled = TRUE]
    /\ NoFault /\ UNCHANGED <<wanted, vm, tf, trigger, maintenance, members, proxy, skipped>>

\* The start method, some time after the service was enabled or the VM booted:
\* when the services it depends on are online, chrony with the clock set among
\* them.  cockroach needs a --join list.
Start(n) ==
    /\ Ready(n) /\ svc[n].enabled /\ svc[n].proc = None /\ n \notin maintenance
    /\ svc[n].snap.mine # None /\ svc[n].snap.others # {}
    /\ svc' = [svc EXCEPT ![n].proc = svc[n].snap]
    /\ NoFault /\ UNCHANGED <<wanted, vm, tf, trigger, maintenance, members, proxy, skipped>>

\* SMF gives up a service whose start method fails again and again, and does not
\* start it again; README.adoc has no step that clears it.
GiveUp(n) ==
    /\ Ready(n) /\ svc[n].enabled /\ n \notin maintenance
    /\ svc' = [svc EXCEPT ![n].proc = None]
    /\ maintenance' = maintenance \cup {n}
    /\ UNCHANGED <<wanted, vm, tf, trigger, members, proxy, skipped>>

\* cockroach ends at once without a list,
StartFails(n) == GiveUp(n) /\ svc[n].snap.others = {} /\ NoFault

\* or because the clock is out of step although chrony is online ("Known issues").
Crash(n) == GiveUp(n) /\ Fault

Running(n) == Ready(n) /\ svc[n].proc # None

\* One of the two has the address of the other.
Meet(n, m) == vm[m].ip \in svc[n].proc.others \/ vm[n].ip \in svc[m].proc.others

\* An instance becomes a member when it and a member find each other.
Join(n) ==
    /\ Running(n) /\ ~IsMember(n)
    /\ \E m \in DB : IsMember(m) /\ Running(m) /\ Meet(n, m)
    /\ members' = members \cup {Instance(n)}
    /\ NoFault /\ UNCHANGED <<wanted, vm, tf, trigger, svc, maintenance, proxy, skipped>>

\* SMF starts what is enabled again, when its dependencies are online, and tries
\* what it had given up.
Reboot(m) ==
    /\ Ready(m) /\ Fault
    /\ svc' = IF m \in DB THEN [svc EXCEPT ![m].proc = None] ELSE svc
    /\ proxy' = IF m = "loadgen"
                  THEN [proxy EXCEPT !.pc = "idle", !.loaded = IF proxy.enabled THEN proxy.file ELSE None]
                  ELSE proxy
    /\ maintenance' = maintenance \ {m}
    /\ UNCHANGED <<wanted, vm, tf, trigger, members, skipped>>

\* The instance is gone, and enough others hold the data.  It is still a member:
\* nothing decommissions it.
Lose(m) ==
    /\ Ready(m) /\ Fault
    /\ m \in DB /\ IsMember(m) => Cardinality({n \in DB : IsMember(n)}) >= 3
    /\ vm' = [vm EXCEPT ![m].state = "lost"]
    /\ svc' = IF m \in DB THEN [svc EXCEPT ![m] = NewService] ELSE svc
    /\ maintenance' = maintenance \ {m}
    /\ proxy' = IF m = "loadgen" THEN NewProxy ELSE proxy
    /\ UNCHANGED <<wanted, tf, trigger, members, skipped>>

-----------------------------------------------------------------------------
(***************************************************************************)
(* configure_cluster and configure_haproxy, on the load generator          *)
(***************************************************************************)
\* configure_cluster --host n: cockroach init, which works once.
ConfigureCluster(n) ==
    /\ AtPrompt /\ tf.run = "done" /\ Ready("loadgen")
    /\ ~Initialised /\ Running(n)
    /\ members' = {Instance(n)}
    /\ proxy' = [proxy EXCEPT !.pc = "gen"]
    /\ NoFault /\ UNCHANGED <<wanted, vm, tf, trigger, svc, maintenance, skipped>>

\* configure_haproxy by itself: the operator runs it while haproxy does not run
\* with the members there are.
ConfigureHaproxy ==
    /\ AtPrompt /\ tf.run = "done" /\ Ready("loadgen") /\ Initialised
    /\ proxy.loaded # MemberIPs
    /\ proxy' = [proxy EXCEPT !.pc = "gen"]
    /\ NoFault /\ UNCHANGED <<wanted, vm, tf, trigger, svc, maintenance, members, skipped>>

Answering == \E n \in DB : IsMember(n) /\ Running(n)

\* cockroach gen haproxy lists the members of the moment, the lost ones too.
GenHaproxy ==
    /\ proxy.pc = "gen" /\ Answering
    /\ proxy' = [proxy EXCEPT !.file = MemberIPs, !.pc = "disable"]
    /\ NoFault /\ UNCHANGED <<wanted, vm, tf, trigger, svc, maintenance, members, skipped>>


DisableHaproxy ==
    /\ proxy.pc = "disable"
    /\ proxy' = [proxy EXCEPT !.enabled = FALSE, !.loaded = None, !.pc = "enable"]
    /\ NoFault /\ UNCHANGED <<wanted, vm, tf, trigger, svc, maintenance, members, skipped>>

\* A service that is online stays as it is.
EnableHaproxy ==
    /\ proxy.pc = "enable"
    /\ proxy' = [proxy EXCEPT !.enabled = TRUE, !.pc = "idle",
                              !.loaded = IF @ = None THEN proxy.file ELSE @]
    /\ NoFault /\ UNCHANGED <<wanted, vm, tf, trigger, svc, maintenance, members, skipped>>

\* errexit: no node answers cockroach gen.
NoAnswer ==
    /\ proxy.pc = "gen" /\ ~Answering
    /\ proxy' = [proxy EXCEPT !.pc = "idle"]
    /\ NoFault /\ UNCHANGED <<wanted, vm, tf, trigger, svc, maintenance, members, skipped>>

\* errexit at any of the commands.
ScriptFails ==
    /\ proxy.pc # "idle" /\ Fault
    /\ proxy' = [proxy EXCEPT !.pc = "idle"]
    /\ UNCHANGED <<wanted, vm, tf, trigger, svc, maintenance, members, skipped>>

-----------------------------------------------------------------------------
Terraform ==
    \/ Apply \/ ApplyEnds
    \/ \E m \in Machines : Create(m) \/ Vminit(m)
    \/ \E n \in DB : ClusterConfig(n) \/ ClusterConfigLost(n)
OnNode(n) == Enable(n) \/ Start(n) \/ StartFails(n) \/ Join(n)
OnLoadgen ==
    \/ \E n \in DB : ConfigureCluster(n)
    \/ ConfigureHaproxy \/ GenHaproxy \/ NoAnswer \/ DisableHaproxy \/ EnableHaproxy

Next ==
    \/ Terraform \/ OnLoadgen \/ ScriptFails
    \/ \E m \in Machines : VminitFails(m) \/ Reboot(m) \/ Lose(m)
    \/ \E n \in DB : \/ OnNode(n) \/ Crash(n) \/ Grow(n)
                     \/ ClusterConfigSkips(n) \/ ClusterConfigFails(n)

\* Terraform, SMF and the nodes go on, and the operator does what README.adoc
\* says, again when it failed.  No fault has to happen, and no growth.
Fairness ==
    /\ WF_vars(Terraform) /\ WF_vars(OnLoadgen)
    /\ \A n \in DB : WF_vars(OnNode(n))

Spec == Init /\ [][Next]_vars /\ Fairness

-----------------------------------------------------------------------------
(***************************************************************************)
(* Properties                                                              *)
(***************************************************************************)
\* When terraform apply has succeeded, whatever failed, was lost or was added
\* before, every db node knows its own address, and SMF will start cockroach
\* with the addresses of all the nodes there are, except where setprop failed
\* unnoticed: instances are replaced, not set up again, and the triggers of
\* cluster_config see every change.
ApplyConverges ==
    tf.run = "done" /\ (\A m \in Deployed : Ready(m)) =>
        \A n \in wanted :
            /\ svc[n].snap.mine = vm[n].ip
            /\ n \notin skipped => svc[n].snap.others = IPsOf(wanted)

\* Of any two nodes that run, one was started with the address of the other,
\* although cluster_config refreshes the service and does not restart it, so that
\* nodes that run keep addresses of instances that are gone, and although setprop
\* may fail unnoticed: the nodes can form one cluster.
RunningNodesMeet ==
    \A n, m \in DB : n # m /\ Running(n) /\ Running(m) => Meet(n, m)

Up == {n \in wanted : n \notin maintenance}

=============================================================================
