------------------------- MODULE ClusterSetupProofs -------------------------
(***************************************************************************)
(* Proofs about ClusterSetup for every set of nodes, of addresses and of   *)
(* other machines, and every number of failures, losses and reboots.       *)
(***************************************************************************)
EXTENDS ClusterSetup, FiniteSetTheorems, TLAPS

-----------------------------------------------------------------------------
(***************************************************************************)
(* The inductive invariant                                                 *)
(***************************************************************************)
Addrs == IPs \cup {None}
Confs == [mine : Addrs, others : SUBSET Addrs]
Services == [conf : Confs, snap : Confs, enabled : BOOLEAN, proc : Confs \cup {None}]
States == {"absent", "booting", "ready", "tainted", "lost"}
VMs == [state : States, id : Nat, ip : Addrs]

\* The types of what the invariant speaks of.
TypesOK ==
    /\ wanted \in SUBSET DB
    /\ vm \in [Machines -> VMs]
    /\ tf \in [run : {"never", "running", "done", "failed"},
               todo : SUBSET Machines, failed : SUBSET Machines]
    /\ trigger \in [DB -> [my_id : Nat, cluster_ips : SUBSET Addrs] \cup {None}]
    /\ svc \in [DB -> Services]

\* terraform waits for vminit.sh, and remembers the instances that are not set
\* up, to create them or to fail.
ApplyKnows ==
    /\ tf.run = "running" => tf.todo \subseteq Deployed
    /\ \A m \in Machines : vm[m].state = "booting" => tf.run = "running" /\ m \in Deployed
    /\ \A m \in Deployed :
         tf.run = "running" /\ vm[m].state \in {"absent", "tainted"} =>
             m \in tf.todo \cup tf.failed

\* vminit.sh told SMF the address of the instance it ran on.
OwnAddress ==
    \A n \in DB : Ready(n) => svc[n].conf.mine = vm[n].ip /\ svc[n].snap.mine = vm[n].ip

\* The triggers that terraform stored are of this instance or of an earlier
\* one, and those of this instance are what SMF was told, where setprop did not
\* fail unnoticed.
TriggersTrue ==
    \A n \in DB : trigger[n] # None =>
        /\ trigger[n].my_id <= vm[n].id
        /\ vm[n].state = "booting" => trigger[n].my_id < vm[n].id
        /\ Ready(n) /\ trigger[n].my_id = vm[n].id /\ n \notin skipped =>
               svc[n].snap.others = trigger[n].cluster_ips

\* After an apply that succeeded no triggers have changed.
DoneConfigured == tf.run = "done" => \A n \in wanted : trigger[n] = Triggers(n)

\* A list of node n: what SMF was told, what it read or what the process has.
HasList(n, list) ==
    /\ list # {}
    /\ \/ list = svc[n].conf.others \/ list = svc[n].snap.others
       \/ svc[n].proc # None /\ list = svc[n].proc.others

\* Only nodes of the deployment have lists, and processes have some.
ListsGiven ==
    /\ \A n \in DB : (\E list \in SUBSET Addrs : HasList(n, list)) => n \in wanted
    /\ \A n \in DB : svc[n].proc # None => svc[n].proc.others # {}

\* Of a list of one node and a list of another, the one that was set last has the
\* address of the other node: its instance was there by then.
ListsMeet ==
    \A n, m \in DB : n # m /\ Ready(n) /\ Ready(m) =>
        \A x, y \in SUBSET Addrs : HasList(n, x) /\ HasList(m, y) =>
            vm[m].ip \in x \/ vm[n].ip \in y

ClusterInv ==
    /\ TypesOK /\ ApplyKnows /\ OwnAddress /\ TriggersTrue /\ DoneConfigured
    /\ ListsGiven /\ ListsMeet

-----------------------------------------------------------------------------
(***************************************************************************)
(* Types                                                                   *)
(***************************************************************************)

\* The subnet has an address that no other node holds, whoever holds one.
LEMMA AddressesAreIPs ==
    ASSUME NEW m \in DB, NEW ip \in Addresses(m)
    PROVE  ip \in IPs
<1> DEFINE held == {n \in DB \ {m} : HasIP(n)}
           free == IPs \ IPsOf(held)
<1>1. /\ IsFiniteSet(DB \ {m}) /\ Cardinality(DB \ {m}) = Cardinality(DB) - 1
      /\ Cardinality(DB) \in Nat /\ Cardinality(IPs) \in Nat
  BY ClusterAssumption, FS_RemoveElement, FS_CardinalityType
<1>2. IsFiniteSet(held) /\ Cardinality(held) <= Cardinality(DB \ {m})
  BY <1>1, FS_Subset
<1>3. IsFiniteSet(IPsOf(held)) /\ Cardinality(IPsOf(held)) <= Cardinality(held)
  <2> DEFINE f == [n \in held |-> vm[n].ip]
  <2>1. f \in Surjection(held, IPsOf(held))
    BY DEF Surjection, IPsOf
  <2>2. QED
    BY <1>2, <2>1, FS_Surjection
<1>4. free # {}
  <2>1. SUFFICES ASSUME IPs \subseteq IPsOf(held) PROVE FALSE
    OBVIOUS
  <2>2. Cardinality(IPs) <= Cardinality(IPsOf(held))
    BY <2>1, <1>3, FS_Subset
  <2>3. /\ Cardinality(held) \in Nat /\ Cardinality(IPsOf(held)) \in Nat
    BY <1>2, <1>3, FS_CardinalityType
  <2>4. QED
    BY <1>1, <1>2, <1>3, <2>2, <2>3, ClusterAssumption
<1>5. (CHOOSE x \in free : TRUE) \in IPs
  BY <1>4
<1>6. QED
  BY <1>5 DEF Addresses

\* Before the first apply there is nothing.
LEMMA ClusterInit == Init => ClusterInv
<1> SUFFICES ASSUME Init PROVE ClusterInv OBVIOUS
<1>1. InitialDB \subseteq DB BY ClusterAssumption
<1>2. TypesOK
  BY <1>1 DEF Init, TypesOK, VMs, Machines, Addrs, Confs, Services, States, NewService, Unset
<1>3. QED
  BY <1>1, <1>2 DEF Init, ClusterInv, ApplyKnows, OwnAddress, TriggersTrue, DoneConfigured,
     ListsGiven, ListsMeet, HasList, Machines, Ready, NewService, Unset

-----------------------------------------------------------------------------
\* Machine m is now as given, and the others are as they were.
MachineBecomes(m, state, id, ip) ==
    /\ vm' \in [Machines -> VMs]
    /\ vm'[m] = [state |-> state, id |-> id, ip |-> ip]
    /\ \A k \in Machines : k # m => vm'[k] = vm[k]

\* The service of n is now as given, and the others are as they were.
ServiceBecomes(n, s) ==
    /\ svc' \in [DB -> Services]
    /\ svc'[n] = s
    /\ \A k \in DB : k # n => svc'[k] = svc[k]

\* What it means to change the state of a machine.
LEMMA SetState ==
    ASSUME TypesOK, NEW m \in Machines, NEW st \in States, vm' = [vm EXCEPT ![m].state = st]
    PROVE  MachineBecomes(m, st, vm[m].id, vm[m].ip)
<1>1. vm' = [k \in Machines |-> IF k = m THEN [vm[m] EXCEPT !.state = st] ELSE vm[k]]
  BY DEF TypesOK
<1>2. [vm[m] EXCEPT !.state = st] = [state |-> st, id |-> vm[m].id, ip |-> vm[m].ip]
  BY DEF VMs, TypesOK
<1>3. [state |-> st, id |-> vm[m].id, ip |-> vm[m].ip] \in VMs
  BY DEF VMs, TypesOK
<1>4. QED
  BY <1>1, <1>2, <1>3 DEF MachineBecomes, TypesOK

\* What it means to replace a service ...
LEMMA SetService ==
    ASSUME TypesOK, NEW n \in DB, NEW s \in Services, svc' = [svc EXCEPT ![n] = s]
    PROVE  ServiceBecomes(n, s)
BY DEF TypesOK, ServiceBecomes

\* The fields of a service have their types.
LEMMA ServiceFields ==
    ASSUME TypesOK, NEW n \in DB
    PROVE  /\ svc[n] \in Services
           /\ svc[n].conf \in Confs /\ svc[n].snap \in Confs /\ svc[n].enabled \in BOOLEAN
           /\ svc[n].proc \in Confs \cup {None}
           /\ svc[n] = [conf |-> svc[n].conf, snap |-> svc[n].snap,
                        enabled |-> svc[n].enabled, proc |-> svc[n].proc]
<1>1. svc[n] \in Services
  BY DEF TypesOK
<1>2. QED
  BY <1>1 DEF Services

\* ... or one of its fields.
LEMMA SetProc ==
    ASSUME TypesOK, NEW n \in DB, NEW proc \in Confs \cup {None},
           svc' = [svc EXCEPT ![n].proc = proc]
    PROVE  ServiceBecomes(n, [conf |-> svc[n].conf, snap |-> svc[n].snap,
                            enabled |-> svc[n].enabled, proc |-> proc])
<1> DEFINE s == [conf |-> svc[n].conf, snap |-> svc[n].snap,
                            enabled |-> svc[n].enabled, proc |-> proc]
<1>1. svc[n] \in Services
  BY ServiceFields
<1>2. s = [svc[n] EXCEPT !.proc = proc] /\ s \in Services
  BY <1>1 DEF Services
<1>3. [svc EXCEPT ![n].proc = proc] = [svc EXCEPT ![n] = [svc[n] EXCEPT !.proc = proc]]
  OBVIOUS
<1> HIDE DEF s
<1>4. svc' = [svc EXCEPT ![n] = s]
  BY <1>2, <1>3, Zenon
<1>5. ServiceBecomes(n, s)
  BY <1>2, <1>4, SetService
<1>6. QED
  BY <1>5 DEF s

\* The same for svcadm enable ...
LEMMA SetEnabled ==
    ASSUME TypesOK, NEW n \in DB, NEW b \in BOOLEAN, svc' = [svc EXCEPT ![n].enabled = b]
    PROVE  ServiceBecomes(n, [conf |-> svc[n].conf, snap |-> svc[n].snap,
                            enabled |-> b, proc |-> svc[n].proc])
<1> DEFINE s == [conf |-> svc[n].conf, snap |-> svc[n].snap,
                            enabled |-> b, proc |-> svc[n].proc]
<1>1. svc[n] \in Services
  BY ServiceFields
<1>2. s = [svc[n] EXCEPT !.enabled = b] /\ s \in Services
  BY <1>1 DEF Services
<1>3. [svc EXCEPT ![n].enabled = b] = [svc EXCEPT ![n] = [svc[n] EXCEPT !.enabled = b]]
  OBVIOUS
<1> HIDE DEF s
<1>4. svc' = [svc EXCEPT ![n] = s]
  BY <1>2, <1>3, Zenon
<1>5. ServiceBecomes(n, s)
  BY <1>2, <1>4, SetService
<1>6. QED
  BY <1>5 DEF s

\* ... and for setprop without refresh.
LEMMA SetConf ==
    ASSUME TypesOK, NEW n \in DB, NEW conf \in Confs, svc' = [svc EXCEPT ![n].conf = conf]
    PROVE  ServiceBecomes(n, [conf |-> conf, snap |-> svc[n].snap,
                            enabled |-> svc[n].enabled, proc |-> svc[n].proc])
<1> DEFINE s == [conf |-> conf, snap |-> svc[n].snap,
                            enabled |-> svc[n].enabled, proc |-> svc[n].proc]
<1>1. svc[n] \in Services
  BY ServiceFields
<1>2. s = [svc[n] EXCEPT !.conf = conf] /\ s \in Services
  BY <1>1 DEF Services
<1>3. [svc EXCEPT ![n].conf = conf] = [svc EXCEPT ![n] = [svc[n] EXCEPT !.conf = conf]]
  OBVIOUS
<1> HIDE DEF s
<1>4. svc' = [svc EXCEPT ![n] = s]
  BY <1>2, <1>3, Zenon
<1>5. ServiceBecomes(n, s)
  BY <1>2, <1>4, SetService
<1>6. QED
  BY <1>5 DEF s

\* What the scripts tell SMF are addresses.
LEMMA ConfTypes ==
    ASSUME TypesOK
    PROVE  /\ Unset \in Confs /\ NewService \in Services
           /\ \A m \in Machines : WithOwnIP(m) \in Services
           /\ \A n \in DB :
                LET conf == [mine |-> svc[n].conf.mine, others |-> IPsOf(wanted)]
                IN  conf \in Confs /\ [svc[n].conf EXCEPT !.others = IPsOf(wanted)] = conf
<1>1. IPsOf(wanted) \in SUBSET Addrs
  BY DEF IPsOf, TypesOK, VMs, Machines
<1>2. \A m \in Machines : vm[m].ip \in Addrs
  BY DEF TypesOK, VMs
<1>3. Unset \in Confs /\ \A m \in Machines : [mine |-> vm[m].ip, others |-> {}] \in Confs
  BY <1>2 DEF Unset, Confs, Addrs
<1>4. NewService \in Services
  BY <1>3 DEF NewService, Services
<1>5. \A m \in Machines : WithOwnIP(m) \in Services
  BY <1>3 DEF WithOwnIP, Services
<1>6. \A n \in DB : svc[n].conf \in Confs
  BY ServiceFields
<1>7. QED
  BY <1>1, <1>3, <1>4, <1>5, <1>6 DEF Confs

-----------------------------------------------------------------------------
(***************************************************************************)
(* What each action does to machines and services                          *)
(***************************************************************************)
\* A new instance has a new id, and its service was never set up.
LEMMA CreateEffect ==
    ASSUME TypesOK, NEW m \in Machines, Create(m)
    PROVE  /\ \E ip \in Addrs : MachineBecomes(m, "booting", vm[m].id + 1, ip)
           /\ IF m \in DB THEN ServiceBecomes(m, NewService) ELSE svc' = svc
<1>1. PICK ip \in Addrs : vm' = [vm EXCEPT ![m] = [state |-> "booting", id |-> @.id + 1, ip |-> ip]]
  BY AddressesAreIPs DEF Create, Addrs
<1>2. MachineBecomes(m, "booting", vm[m].id + 1, ip)
  BY <1>1 DEF MachineBecomes, TypesOK, VMs, States
<1>3. m \in DB => ServiceBecomes(m, NewService)
  BY ConfTypes, SetService DEF Create
<1>4. QED
  BY <1>2, <1>3 DEF Create

\* vminit.sh leaves a node that knows its own address.
LEMMA VminitEffect ==
    ASSUME TypesOK, NEW m \in Machines, Vminit(m)
    PROVE  /\ MachineBecomes(m, "ready", vm[m].id, vm[m].ip)
           /\ IF m \in DB THEN ServiceBecomes(m, WithOwnIP(m)) ELSE svc' = svc
<1>1. MachineBecomes(m, "ready", vm[m].id, vm[m].ip)
  BY SetState DEF Vminit, States
<1>2. m \in DB => ServiceBecomes(m, WithOwnIP(m))
  BY ConfTypes, SetService DEF Vminit
<1>3. QED
  BY <1>1, <1>2 DEF Vminit

\* A lost instance keeps its id and address in terraform's state.
LEMMA LoseEffect ==
    ASSUME TypesOK, NEW m \in Machines, Lose(m)
    PROVE  /\ MachineBecomes(m, "lost", vm[m].id, vm[m].ip)
           /\ IF m \in DB THEN ServiceBecomes(m, NewService) ELSE svc' = svc
<1>1. MachineBecomes(m, "lost", vm[m].id, vm[m].ip)
  BY SetState DEF Lose, States
<1>2. m \in DB => ServiceBecomes(m, NewService)
  BY ConfTypes, SetService DEF Lose
<1>3. QED
  BY <1>1, <1>2 DEF Lose

\* cluster_config changes the list, and neither the process nor the own address.
LEMMA ConfigEffect ==
    ASSUME TypesOK, NEW n \in DB, ClusterConfig(n)
    PROVE  LET conf == [mine |-> svc[n].conf.mine, others |-> IPsOf(wanted)]
           IN  ServiceBecomes(n, [conf |-> conf, snap |-> conf,
                                  enabled |-> svc[n].enabled, proc |-> svc[n].proc])
<1> DEFINE conf == [mine |-> svc[n].conf.mine, others |-> IPsOf(wanted)]
           s == [conf |-> conf, snap |-> conf, enabled |-> svc[n].enabled, proc |-> svc[n].proc]
<1>1. conf \in Confs /\ [svc[n].conf EXCEPT !.others = IPsOf(wanted)] = conf
  BY ConfTypes
<1>2. svc' = [svc EXCEPT ![n] = s]
  BY <1>1 DEF ClusterConfig
<1> HIDE DEF conf
<1>3. s \in Services
  BY <1>1, ServiceFields DEF Services
<1> HIDE DEF s
<1>4. ServiceBecomes(n, s)
  BY <1>2, <1>3, SetService
<1>5. QED
  BY <1>4, Zenon DEF s, conf

\* One that fails changes nothing that a start of the service would use.
LEMMA ConfigFailsEffect ==
    ASSUME TypesOK, NEW n \in DB, ClusterConfigFails(n)
    PROVE  \E conf \in Confs :
             /\ conf.mine = svc[n].conf.mine
             /\ conf.others \in {svc[n].conf.others, IPsOf(wanted)}
             /\ ServiceBecomes(n, [conf |-> conf, snap |-> svc[n].snap,
                                   enabled |-> svc[n].enabled, proc |-> svc[n].proc])
<1>1. CASE UNCHANGED svc
  <2>1. ServiceBecomes(n, svc[n])
    BY <1>1 DEF ServiceBecomes, TypesOK
  <2>2. QED
    BY <2>1, ServiceFields, Zenon
<1>2. CASE svc' = [svc EXCEPT ![n].conf = [@ EXCEPT !.others = IPsOf(wanted)]]
  <2> DEFINE conf == [mine |-> svc[n].conf.mine, others |-> IPsOf(wanted)]
  <2>1. conf \in Confs /\ [svc[n].conf EXCEPT !.others = IPsOf(wanted)] = conf
    BY ConfTypes
  <2>2. svc' = [svc EXCEPT ![n].conf = conf]
    BY <1>2, <2>1
  <2>3. conf.mine = svc[n].conf.mine /\ conf.others = IPsOf(wanted)
    OBVIOUS
  <2> HIDE DEF conf
  <2>4. QED
    BY <2>1, <2>2, <2>3, SetConf, Zenon
<1>3. QED
  BY <1>1, <1>2 DEF ClusterConfigFails

\* refresh alone: SMF reads what it was told before.
LEMMA ConfigSkipsEffect ==
    ASSUME TypesOK, NEW n \in DB, ClusterConfigSkips(n)
    PROVE  ServiceBecomes(n, [conf |-> svc[n].conf, snap |-> svc[n].conf,
                              enabled |-> svc[n].enabled, proc |-> svc[n].proc])
<1> DEFINE s == [conf |-> svc[n].conf, snap |-> svc[n].conf,
                 enabled |-> svc[n].enabled, proc |-> svc[n].proc]
<1>1. svc[n] \in Services
  BY ServiceFields
<1>2. s = [svc[n] EXCEPT !.snap = svc[n].conf] /\ s \in Services
  BY <1>1 DEF Services
<1>3. svc' = [svc EXCEPT ![n] = [svc[n] EXCEPT !.snap = svc[n].conf]]
  BY DEF ClusterConfigSkips
<1> HIDE DEF s
<1>4. ServiceBecomes(n, s)
  BY <1>2, <1>3, SetService
<1>5. QED
  BY <1>4 DEF s

\* Enabling, starting, giving up and rebooting keep what SMF was told.
LEMMA NodeEffects ==
    ASSUME TypesOK, NEW n \in DB
    PROVE  /\ Enable(n) => ServiceBecomes(n, [conf |-> svc[n].conf, snap |-> svc[n].snap,
                                              enabled |-> TRUE, proc |-> svc[n].proc])
           /\ Start(n) => ServiceBecomes(n, [conf |-> svc[n].conf, snap |-> svc[n].snap,
                                             enabled |-> svc[n].enabled, proc |-> svc[n].snap])
           /\ GiveUp(n) \/ Reboot(n) =>
                ServiceBecomes(n, [conf |-> svc[n].conf, snap |-> svc[n].snap,
                                   enabled |-> svc[n].enabled, proc |-> None])
<1>1. Enable(n) => svc' = [svc EXCEPT ![n].enabled = TRUE]
  BY DEF Enable
<1>2. Start(n) => svc' = [svc EXCEPT ![n].proc = svc[n].snap]
  BY DEF Start
<1>3. GiveUp(n) \/ Reboot(n) => svc' = [svc EXCEPT ![n].proc = None]
  BY DEF GiveUp, Reboot
<1>4. TRUE \in BOOLEAN /\ svc[n].snap \in Confs \cup {None} /\ None \in Confs \cup {None}
  BY ServiceFields
<1>5. QED
  BY <1>1, <1>2, <1>3, <1>4, SetEnabled, SetProc, Zenon

-----------------------------------------------------------------------------
(***************************************************************************)
(* Every action keeps the invariant                                        *)
(***************************************************************************)
\* What the invariant depends on.
deployment == <<wanted, vm, tf, trigger, svc, skipped>>

\* The actions that matter to it.
DeploymentNext ==
    \/ UNCHANGED deployment
    \/ Apply \/ ApplyEnds
    \/ \E m \in Machines : Create(m) \/ Vminit(m) \/ VminitFails(m) \/ Reboot(m) \/ Lose(m)
    \/ \E n \in DB : \/ ClusterConfig(n) \/ ClusterConfigLost(n)
                     \/ ClusterConfigSkips(n) \/ ClusterConfigFails(n)
                     \/ Grow(n) \/ Enable(n) \/ Start(n) \/ GiveUp(n)

\* The other actions leave the deployment alone.
LEMMA NextIsDeployment == [Next]_vars => DeploymentNext
BY DEF Next, vars, DeploymentNext, deployment, Terraform, OnLoadgen, OnNode, StartFails, Crash,
   Join, ConfigureCluster, ConfigureHaproxy, GenHaproxy, NoAnswer, DisableHaproxy, EnableHaproxy,
   ScriptFails

\* Lists that are not new, and new ones with every node of the deployment.
LEMMA ListsStep ==
    ASSUME ClusterInv, wanted \subseteq wanted',
           \A k \in DB, list \in SUBSET Addrs : HasList(k, list)' =>
               HasList(k, list) \/ (k \in wanted /\ list = IPsOf(wanted)),
           \A k \in DB, list \in SUBSET Addrs :
               HasList(k, list)' /\ Ready(k)' => Ready(k) /\ vm'[k].ip = vm[k].ip,
           \A k \in DB : svc'[k].proc # None => svc'[k].proc.others # {}
    PROVE  ListsGiven' /\ ListsMeet'
<1>1. \A k \in DB, list \in SUBSET Addrs : HasList(k, list)' => k \in wanted
  BY Zenon DEF ClusterInv, ListsGiven
<1>2. ListsGiven'
  BY <1>1 DEF ListsGiven, Addrs
<1>3. ASSUME NEW n \in DB, NEW m \in DB, n # m, Ready(n)', Ready(m)',
             NEW x \in SUBSET Addrs, NEW y \in SUBSET Addrs, HasList(n, x)', HasList(m, y)'
      PROVE  vm'[m].ip \in x \/ vm'[n].ip \in y
  <2>1. n \in wanted /\ m \in wanted
    BY <1>1, <1>3
  <2>2. vm[n].ip \in IPsOf(wanted) /\ vm[m].ip \in IPsOf(wanted)
    BY <2>1 DEF IPsOf
  <2>3. Ready(n) /\ Ready(m) /\ vm'[n].ip = vm[n].ip /\ vm'[m].ip = vm[m].ip
    BY <1>3
  <2>4. (HasList(n, x) \/ x = IPsOf(wanted)) /\ (HasList(m, y) \/ y = IPsOf(wanted))
    BY <1>3
  <2>5. HasList(n, x) /\ HasList(m, y) => vm[m].ip \in x \/ vm[n].ip \in y
    BY <1>3, <2>3 DEF ClusterInv, ListsMeet
  <2>6. QED
    BY <2>2, <2>3, <2>4, <2>5
<1>4. ListsMeet'
  BY <1>3 DEF ListsMeet, Addrs
<1>5. QED
  BY <1>2, <1>4

\* The case that no node and no service changes.
LEMMA ListsStay ==
    ASSUME ClusterInv, svc' = svc, vm' = vm, wanted \subseteq wanted'
    PROVE  ListsGiven' /\ ListsMeet'
<1>1. \A k \in DB, list \in SUBSET Addrs : HasList(k, list)' => HasList(k, list)
  BY DEF HasList
<1>2. \A k \in DB : Ready(k)' => Ready(k) /\ vm'[k].ip = vm[k].ip
  BY DEF Ready
<1>3. \A k \in DB : svc'[k].proc # None => svc'[k].proc.others # {}
  BY DEF ClusterInv, ListsGiven
<1>4. QED
  BY <1>1, <1>2, <1>3, ListsStep, Zenon

\* The case that machine m is another, or in another state: it has no list then or
\* is not ready.
LEMMA ListsOfMachine ==
    ASSUME ClusterInv, wanted' = wanted, NEW m \in Machines,
           NEW st, NEW id, NEW ip, MachineBecomes(m, st, id, ip),
           \/ svc' = svc /\ (m \notin DB \/ st # "ready")
           \/ m \in DB /\ ServiceBecomes(m, NewService)
           \/ m \in DB /\ ServiceBecomes(m, WithOwnIP(m))
    PROVE  ListsGiven' /\ ListsMeet'
<1> USE DEF Machines
<1>1. CASE svc' = svc /\ (m \notin DB \/ st # "ready")
  <2>1. \A k \in DB, list \in SUBSET Addrs : HasList(k, list)' => HasList(k, list)
    BY <1>1 DEF HasList
  <2>2. \A k \in DB : Ready(k)' => Ready(k) /\ vm'[k].ip = vm[k].ip
    BY <1>1 DEF Ready, MachineBecomes
  <2>3. \A k \in DB : svc'[k].proc # None => svc'[k].proc.others # {}
    BY <1>1 DEF ClusterInv, ListsGiven
  <2>4. QED
    BY <2>1, <2>2, <2>3, ListsStep, Zenon
<1>2. ASSUME m \in DB, NEW s, ServiceBecomes(m, s), s \in {NewService, WithOwnIP(m)}
      PROVE  ListsGiven' /\ ListsMeet'
  <2>1. s.conf.others = {} /\ s.snap.others = {} /\ s.proc = None
    BY <1>2 DEF NewService, WithOwnIP, Unset
  <2>2. \A list \in SUBSET Addrs : ~HasList(m, list)'
    BY <1>2, <2>1 DEF HasList, ServiceBecomes
  <2>3. \A k \in DB, list \in SUBSET Addrs : HasList(k, list)' => k # m /\ HasList(k, list)
    BY <1>2, <2>2 DEF HasList, ServiceBecomes
  <2>4. \A k \in DB \ {m} : Ready(k)' => Ready(k) /\ vm'[k].ip = vm[k].ip
    BY DEF Ready, MachineBecomes
  <2>5. \A k \in DB : svc'[k].proc # None => svc'[k].proc.others # {}
    BY <1>2, <2>1 DEF ClusterInv, ListsGiven, ServiceBecomes
  <2>6. \A k \in DB, list \in SUBSET Addrs :
            HasList(k, list)' /\ Ready(k)' => Ready(k) /\ vm'[k].ip = vm[k].ip
    BY <2>3, <2>4
  <2>7. QED
    BY <2>3, <2>5, <2>6, ListsStep, Zenon
<1>3. QED
  BY <1>1, <1>2

\* The case that only the service of n changes.
LEMMA ListsOfService ==
    ASSUME ClusterInv, wanted' = wanted, vm' = vm, NEW n \in DB, NEW s, ServiceBecomes(n, s),
           \/ s.conf.others = svc[n].conf.others
           \/ n \in wanted /\ s.conf.others = IPsOf(wanted),
           \/ s.snap.others \in {svc[n].snap.others, svc[n].conf.others}
           \/ n \in wanted /\ s.snap.others = IPsOf(wanted),
           \/ s.proc \in {None, svc[n].proc}
           \/ s.proc = svc[n].snap /\ svc[n].snap.others # {}
    PROVE  ListsGiven' /\ ListsMeet'
<1>1. \A list \in SUBSET Addrs : HasList(n, list)' =>
          HasList(n, list) \/ (n \in wanted /\ list = IPsOf(wanted))
  <2>1. SUFFICES ASSUME NEW list \in SUBSET Addrs, HasList(n, list)'
                 PROVE  HasList(n, list) \/ (n \in wanted /\ list = IPsOf(wanted))
    OBVIOUS
  <2>2. /\ list # {}
        /\ \/ list = s.conf.others \/ list = s.snap.others
           \/ s.proc # None /\ list = s.proc.others
    BY <2>1 DEF HasList, ServiceBecomes
  <2>3. QED
    BY <2>2 DEF HasList
<1>2. \A k \in DB \ {n}, list \in SUBSET Addrs : HasList(k, list)' => HasList(k, list)
  BY DEF HasList, ServiceBecomes
<1>3. \A k \in DB : Ready(k)' => Ready(k) /\ vm'[k].ip = vm[k].ip
  BY DEF Ready
<1>4. \A k \in DB : svc'[k].proc # None => svc'[k].proc.others # {}
  BY DEF ClusterInv, ListsGiven, ServiceBecomes
<1>5. \A k \in DB, list \in SUBSET Addrs : HasList(k, list)' =>
          HasList(k, list) \/ (k \in wanted /\ list = IPsOf(wanted))
  BY <1>1, <1>2
<1>6. QED
  BY <1>3, <1>4, <1>5, ListsStep, Zenon

\* An apply begins or ends.  It succeeds only if no trigger has changed.
LEMMA ApplyKeeps ==
    ASSUME ClusterInv, Apply \/ ApplyEnds
    PROVE  ClusterInv'
<1> USE DEF Ready, Deployed, Machines, HasIP
<1>1. CASE Apply
  <2>1. TypesOK'
    BY <1>1 DEF ClusterInv, TypesOK, Apply
  <2>2. ApplyKnows'
    BY <1>1 DEF ClusterInv, TypesOK, Apply, ApplyKnows, AtPrompt
  <2>3. OwnAddress' /\ TriggersTrue'
    BY <1>1 DEF ClusterInv, Apply, OwnAddress, TriggersTrue
  <2>4. DoneConfigured'
    BY <1>1 DEF Apply, DoneConfigured
  <2>5. ListsGiven' /\ ListsMeet'
    BY <1>1, ListsStay DEF Apply
  <2>6. QED
    BY <2>1, <2>2, <2>3, <2>4, <2>5 DEF ClusterInv
<1>2. CASE ApplyEnds
  <2>1. TypesOK'
    BY <1>2 DEF ClusterInv, TypesOK, ApplyEnds
  <2>2. ApplyKnows'
    BY <1>2 DEF ClusterInv, TypesOK, ApplyEnds, ApplyKnows
  <2>3. OwnAddress' /\ TriggersTrue'
    BY <1>2 DEF ClusterInv, ApplyEnds, OwnAddress, TriggersTrue
  <2>4. DoneConfigured'
    <3>1. SUFFICES ASSUME tf.failed = {}, NEW n \in wanted PROVE trigger[n] = Triggers(n)
      BY <1>2 DEF ApplyEnds, DoneConfigured, Triggers, IPsOf, ClusterInv, TypesOK
    <3>2. \A m \in wanted : m \notin tf.todo /\ vm[m].state \in {"ready", "lost"}
      BY <1>2, <3>1 DEF ApplyEnds, ClusterInv, ApplyKnows, TypesOK, VMs, States
    <3>3. QED
      BY <1>2, <3>1, <3>2 DEF ApplyEnds, ConfigDue
  <2>5. ListsGiven' /\ ListsMeet'
    BY <1>2, ListsStay DEF ApplyEnds
  <2>6. QED
    BY <2>1, <2>2, <2>3, <2>4, <2>5 DEF ClusterInv
<1>3. QED
  BY <1>1, <1>2

\* A new instance is of a later id than the triggers terraform stored.
LEMMA CreateKeeps ==
    ASSUME ClusterInv, NEW m \in Machines, Create(m)
    PROVE  ClusterInv'
<1> USE DEF Ready, Deployed, Machines, NewService, Unset
<1>1. TypesOK BY DEF ClusterInv
<1>2. PICK ip \in Addrs : MachineBecomes(m, "booting", vm[m].id + 1, ip)
  BY <1>1, CreateEffect
<1>3. IF m \in DB THEN ServiceBecomes(m, NewService) ELSE svc' = svc
  BY <1>1, CreateEffect
<1>4. /\ wanted' = wanted /\ trigger' = trigger /\ skipped' = skipped
      /\ tf.run = "running" /\ tf'.run = "running" /\ m \in tf.todo /\ tf'.todo = tf.todo \ {m} /\ tf'.failed = tf.failed
  BY <1>1 DEF Create, TypesOK
<1>5. TypesOK'
  BY <1>1, <1>2, <1>3, <1>4 DEF TypesOK, Create, MachineBecomes, ServiceBecomes
<1>6. ApplyKnows'
  BY <1>1, <1>2, <1>4 DEF ClusterInv, ApplyKnows, MachineBecomes, TypesOK
<1>7. OwnAddress'
  BY <1>1, <1>2, <1>3, <1>4 DEF ClusterInv, OwnAddress, MachineBecomes, ServiceBecomes
<1>8. TriggersTrue'
  BY <1>1, <1>2, <1>3, <1>4 DEF ClusterInv, TypesOK, VMs, TriggersTrue, MachineBecomes, ServiceBecomes
<1>9. DoneConfigured'
  BY <1>4 DEF DoneConfigured
<1>10. ListsGiven' /\ ListsMeet'
  BY <1>2, <1>3, <1>4, ListsOfMachine
<1>11. QED
  BY <1>5, <1>6, <1>7, <1>8, <1>9, <1>10 DEF ClusterInv

\* vminit.sh runs on instances that cluster_config has not seen.
LEMMA VminitKeeps ==
    ASSUME ClusterInv, NEW m \in Machines, Vminit(m)
    PROVE  ClusterInv'
<1> USE DEF Ready, Deployed, Machines, WithOwnIP
<1>1. TypesOK BY DEF ClusterInv
<1>2. MachineBecomes(m, "ready", vm[m].id, vm[m].ip)
  BY <1>1, VminitEffect
<1>3. IF m \in DB THEN ServiceBecomes(m, WithOwnIP(m)) ELSE svc' = svc
  BY <1>1, VminitEffect
<1>4. /\ wanted' = wanted /\ trigger' = trigger /\ tf' = tf /\ skipped' = skipped
      /\ vm[m].state = "booting" /\ tf.run = "running"
  BY DEF Vminit, ClusterInv, ApplyKnows
<1>5. TypesOK'
  BY <1>1, <1>2, <1>3, <1>4 DEF TypesOK, MachineBecomes, ServiceBecomes
<1>6. ApplyKnows'
  BY <1>1, <1>2, <1>4 DEF ClusterInv, ApplyKnows, MachineBecomes, TypesOK
<1>7. OwnAddress'
  BY <1>1, <1>2, <1>3, <1>4 DEF ClusterInv, OwnAddress, MachineBecomes, ServiceBecomes
<1>8. TriggersTrue'
  BY <1>1, <1>2, <1>3, <1>4 DEF ClusterInv, TypesOK, VMs, TriggersTrue, MachineBecomes, ServiceBecomes
<1>9. DoneConfigured'
  BY <1>4 DEF DoneConfigured
<1>10. ListsGiven' /\ ListsMeet'
  BY <1>2, <1>3, <1>4, ListsOfMachine
<1>11. QED
  BY <1>5, <1>6, <1>7, <1>8, <1>9, <1>10 DEF ClusterInv

\* An instance that could not be set up makes the apply fail.
LEMMA VminitFailsKeeps ==
    ASSUME ClusterInv, NEW m \in Machines, VminitFails(m)
    PROVE  ClusterInv'
<1> USE DEF Ready, Deployed, Machines
<1>1. TypesOK BY DEF ClusterInv
<1>2. MachineBecomes(m, "tainted", vm[m].id, vm[m].ip)
  BY <1>1, SetState DEF VminitFails, States
<1>3. /\ wanted' = wanted /\ trigger' = trigger /\ svc' = svc /\ skipped' = skipped
      /\ vm[m].state = "booting" /\ tf.run = "running" /\ tf'.run = "running" /\ tf'.todo = tf.todo
      /\ tf'.failed = tf.failed \cup {m}
  BY <1>1 DEF VminitFails, ClusterInv, ApplyKnows, TypesOK
<1>4. TypesOK'
  BY <1>1, <1>2, <1>3 DEF TypesOK, MachineBecomes, VminitFails
<1>5. ApplyKnows'
  BY <1>1, <1>2, <1>3 DEF ClusterInv, ApplyKnows, MachineBecomes, TypesOK
<1>6. OwnAddress' /\ TriggersTrue' /\ DoneConfigured'
  BY <1>1, <1>2, <1>3 DEF ClusterInv, OwnAddress, TriggersTrue, DoneConfigured, MachineBecomes
<1>7. ListsGiven' /\ ListsMeet'
  BY <1>2, <1>3, ListsOfMachine
<1>8. QED
  BY <1>4, <1>5, <1>6, <1>7 DEF ClusterInv

\* Losing an instance changes no trigger: terraform finds out in the next apply.
LEMMA LoseKeeps ==
    ASSUME ClusterInv, NEW m \in Machines, Lose(m)
    PROVE  ClusterInv'
<1> USE DEF Ready, Deployed, Machines, NewService, Unset
<1>1. TypesOK BY DEF ClusterInv
<1>2. MachineBecomes(m, "lost", vm[m].id, vm[m].ip)
  BY <1>1, LoseEffect
<1>3. IF m \in DB THEN ServiceBecomes(m, NewService) ELSE svc' = svc
  BY <1>1, LoseEffect
<1>4. wanted' = wanted /\ trigger' = trigger /\ tf' = tf /\ skipped' = skipped
  BY DEF Lose
<1>5. TypesOK'
  BY <1>1, <1>2, <1>3, <1>4 DEF TypesOK, MachineBecomes, ServiceBecomes
<1>6. ApplyKnows'
  BY <1>1, <1>2, <1>4 DEF ClusterInv, ApplyKnows, MachineBecomes, TypesOK
<1>7. OwnAddress'
  BY <1>1, <1>2, <1>3, <1>4 DEF ClusterInv, OwnAddress, MachineBecomes, ServiceBecomes
<1>8. TriggersTrue'
  BY <1>1, <1>2, <1>3, <1>4 DEF ClusterInv, TypesOK, VMs, TriggersTrue, MachineBecomes, ServiceBecomes
<1>9. DoneConfigured'
  <2>1. \A n \in DB : vm'[n].id = vm[n].id /\ vm'[n].ip = vm[n].ip
    BY <1>1, <1>2 DEF MachineBecomes
  <2>2. IPsOf(wanted)' = IPsOf(wanted)
    BY <2>1, <1>1, <1>4 DEF IPsOf, TypesOK
  <2>3. QED
    BY <2>1, <2>2, <1>1, <1>4 DEF ClusterInv, DoneConfigured, Triggers, TypesOK
<1>10. ListsGiven' /\ ListsMeet'
  BY <1>2, <1>3, <1>4, ListsOfMachine
<1>11. QED
  BY <1>5, <1>6, <1>7, <1>8, <1>9, <1>10 DEF ClusterInv

\* When terraform runs cluster_config for a node, or fails to.
LEMMA ConfigKeeps ==
    ASSUME ClusterInv, NEW n \in DB, ClusterConfig(n)
    PROVE  ClusterInv'
<1> USE DEF Ready, Deployed, Machines
<1> DEFINE conf == [mine |-> svc[n].conf.mine, others |-> IPsOf(wanted)]
<1>1. TypesOK BY DEF ClusterInv
<1>2. ServiceBecomes(n, [conf |-> conf, snap |-> conf,
                         enabled |-> svc[n].enabled, proc |-> svc[n].proc])
  BY <1>1, ConfigEffect
<1>3. /\ wanted' = wanted /\ vm' = vm /\ tf' = tf /\ tf.run = "running" /\ n \in wanted
      /\ trigger' = [trigger EXCEPT ![n] = Triggers(n)] /\ skipped' = skipped \ {n}
  BY DEF ClusterConfig, ConfigDue
<1>4. Triggers(n) \in [my_id : Nat, cluster_ips : SUBSET Addrs]
  BY <1>1 DEF TypesOK, VMs, Triggers, IPsOf
<1>5. TypesOK'
  BY <1>1, <1>2, <1>3, <1>4 DEF TypesOK, ServiceBecomes
<1>6. ApplyKnows'
  BY <1>1, <1>3 DEF ClusterInv, ApplyKnows
<1>7. OwnAddress'
  BY <1>1, <1>2, <1>3 DEF ClusterInv, OwnAddress, ServiceBecomes
<1>8. TriggersTrue'
  BY <1>1, <1>2, <1>3 DEF ClusterInv, TypesOK, VMs, TriggersTrue, Triggers, ServiceBecomes,
     ClusterConfig
<1>9. DoneConfigured'
  BY <1>3 DEF DoneConfigured
<1>10. ListsGiven' /\ ListsMeet'
  BY <1>2, <1>3, ListsOfService
<1>11. QED
  BY <1>5, <1>6, <1>7, <1>8, <1>9, <1>10 DEF ClusterInv

\* When setprop failed unnoticed the node keeps the list it had.
LEMMA ConfigSkipsKeeps ==
    ASSUME ClusterInv, NEW n \in DB, ClusterConfigSkips(n)
    PROVE  ClusterInv'
<1> USE DEF Ready, Deployed, Machines
<1>1. TypesOK BY DEF ClusterInv
<1>2. ServiceBecomes(n, [conf |-> svc[n].conf, snap |-> svc[n].conf,
                         enabled |-> svc[n].enabled, proc |-> svc[n].proc])
  BY <1>1, ConfigSkipsEffect
<1>3. /\ wanted' = wanted /\ vm' = vm /\ tf' = tf /\ tf.run = "running"
      /\ trigger' = [trigger EXCEPT ![n] = Triggers(n)] /\ skipped' = skipped \cup {n}
  BY DEF ClusterConfigSkips, ConfigDue
<1>4. Triggers(n) \in [my_id : Nat, cluster_ips : SUBSET Addrs]
  BY <1>1 DEF TypesOK, VMs, Triggers, IPsOf
<1>5. TypesOK'
  BY <1>1, <1>2, <1>3, <1>4 DEF TypesOK, ServiceBecomes
<1>6. ApplyKnows'
  BY <1>1, <1>3 DEF ClusterInv, ApplyKnows
<1>7. OwnAddress'
  BY <1>1, <1>2, <1>3 DEF ClusterInv, OwnAddress, ServiceBecomes
<1>8. TriggersTrue'
  BY <1>1, <1>2, <1>3 DEF ClusterInv, TypesOK, VMs, TriggersTrue, Triggers, ServiceBecomes,
     ClusterConfigSkips
<1>9. DoneConfigured'
  BY <1>3 DEF DoneConfigured
<1>10. ListsGiven' /\ ListsMeet'
  BY <1>2, <1>3, ListsOfService
<1>11. QED
  BY <1>5, <1>6, <1>7, <1>8, <1>9, <1>10 DEF ClusterInv

\* A failure forgets the triggers.
LEMMA ConfigFailsKeeps ==
    ASSUME ClusterInv, NEW n \in DB, ClusterConfigFails(n)
    PROVE  ClusterInv'
<1> USE DEF Ready, Deployed, Machines
<1>1. TypesOK BY DEF ClusterInv
<1>2. PICK conf \in Confs :
        /\ conf.mine = svc[n].conf.mine
        /\ conf.others \in {svc[n].conf.others, IPsOf(wanted)}
        /\ ServiceBecomes(n, [conf |-> conf, snap |-> svc[n].snap,
                              enabled |-> svc[n].enabled, proc |-> svc[n].proc])
  BY <1>1, ConfigFailsEffect
<1>3. /\ wanted' = wanted /\ vm' = vm /\ trigger' = [trigger EXCEPT ![n] = None]
      /\ tf.run = "running" /\ tf'.run = "running" /\ tf'.todo = tf.todo
      /\ tf'.failed = tf.failed \cup {n} /\ n \in wanted /\ skipped' = skipped
  BY <1>1 DEF ClusterConfigFails, ConfigDue, TypesOK
<1>4. TypesOK'
  BY <1>1, <1>2, <1>3 DEF TypesOK, ServiceBecomes, ClusterConfigFails
<1>5. ApplyKnows'
  BY <1>1, <1>3 DEF ClusterInv, ApplyKnows
<1>6. OwnAddress'
  BY <1>1, <1>2, <1>3 DEF ClusterInv, OwnAddress, ServiceBecomes
<1>7. TriggersTrue'
  BY <1>1, <1>2, <1>3 DEF ClusterInv, TypesOK, TriggersTrue, ServiceBecomes
<1>8. DoneConfigured'
  BY <1>3 DEF DoneConfigured
<1>9. ListsGiven' /\ ListsMeet'
  BY <1>2, <1>3, ListsOfService
<1>10. QED
  BY <1>4, <1>5, <1>6, <1>7, <1>8, <1>9 DEF ClusterInv

\* So does a node that cannot be reached.
LEMMA ConfigLostKeeps ==
    ASSUME ClusterInv, NEW n \in DB, ClusterConfigLost(n)
    PROVE  ClusterInv'
<1> USE DEF Ready, Deployed, Machines
<1>1. TypesOK BY DEF ClusterInv
<1>2. /\ wanted' = wanted /\ vm' = vm /\ svc' = svc /\ trigger' = [trigger EXCEPT ![n] = None]
      /\ tf.run = "running" /\ tf'.run = "running" /\ tf'.todo = tf.todo
      /\ tf'.failed = tf.failed \cup {n} /\ skipped' = skipped
  BY <1>1 DEF ClusterConfigLost, ConfigDue, TypesOK
<1>3. TypesOK'
  BY <1>1, <1>2 DEF TypesOK, ClusterConfigLost
<1>4. ApplyKnows' /\ OwnAddress' /\ DoneConfigured'
  BY <1>1, <1>2 DEF ClusterInv, ApplyKnows, OwnAddress, DoneConfigured
<1>5. TriggersTrue'
  BY <1>1, <1>2 DEF ClusterInv, TypesOK, TriggersTrue
<1>6. ListsGiven' /\ ListsMeet'
  BY <1>2, ListsStay
<1>7. QED
  BY <1>3, <1>4, <1>5, <1>6 DEF ClusterInv

\* A larger ndbs needs another apply.
LEMMA GrowKeeps ==
    ASSUME ClusterInv, NEW n \in DB, Grow(n)
    PROVE  ClusterInv'
<1> USE DEF Ready, Deployed, Machines
<1>1. TypesOK BY DEF ClusterInv
<1>2. /\ wanted' = wanted \cup {n} /\ vm' = vm /\ svc' = svc /\ trigger' = trigger
      /\ tf.run = "done" /\ tf'.run = "never" /\ skipped' = skipped
  BY <1>1 DEF Grow, TypesOK
<1>3. TypesOK'
  BY <1>1, <1>2 DEF TypesOK, Grow
<1>4. ApplyKnows' /\ OwnAddress' /\ TriggersTrue' /\ DoneConfigured'
  BY <1>1, <1>2 DEF ClusterInv, ApplyKnows, OwnAddress, TriggersTrue, DoneConfigured
<1>5. ListsGiven' /\ ListsMeet'
  BY <1>2, ListsStay
<1>6. QED
  BY <1>3, <1>4, <1>5 DEF ClusterInv

\* After an apply that succeeded, SMF knows all the nodes, on every node that
\* is there and where setprop did not fail unnoticed.
LEMMA DoneKnows ==
    ASSUME ClusterInv, tf.run = "done", NEW n \in wanted, Ready(n)
    PROVE  svc[n].snap.mine = vm[n].ip /\ (n \notin skipped => svc[n].snap.others = IPsOf(wanted))
<1>1. n \in DB /\ vm[n].id \in Nat /\ IPsOf(wanted) \in SUBSET Addrs
  BY DEF ClusterInv, TypesOK, VMs, Machines, IPsOf
<1>2. trigger[n] = [my_id |-> vm[n].id, cluster_ips |-> IPsOf(wanted)]
  BY DEF ClusterInv, DoneConfigured, Triggers
<1>3. trigger[n] # None
  BY <1>1, <1>2, NoneAssumption DEF Addrs
<1>4. QED
  BY <1>1, <1>2, <1>3 DEF ClusterInv, TriggersTrue, OwnAddress

\* Enabling, starting and giving up a service change no list that was given: a
\* process starts with the one SMF read.
LEMMA NodeKeeps ==
    ASSUME ClusterInv, NEW n \in DB, Enable(n) \/ Start(n) \/ GiveUp(n)
    PROVE  ClusterInv'
<1> USE DEF Ready, Deployed, Machines
<1>1. TypesOK BY DEF ClusterInv
<1>2. wanted' = wanted /\ vm' = vm /\ tf' = tf /\ trigger' = trigger /\ skipped' = skipped
  BY DEF Enable, Start, GiveUp
<1>3. ASSUME NEW enabled, NEW proc,
             ServiceBecomes(n, [conf |-> svc[n].conf, snap |-> svc[n].snap,
                                enabled |-> enabled, proc |-> proc]),
             \/ proc \in {None, svc[n].proc}
             \/ proc = svc[n].snap /\ svc[n].snap.others # {}
      PROVE  ClusterInv'
  <2>1. TypesOK'
    BY <1>1, <1>2, <1>3 DEF TypesOK, ServiceBecomes
  <2>2. ApplyKnows' /\ OwnAddress' /\ TriggersTrue'
    BY <1>1, <1>2, <1>3 DEF ClusterInv, ApplyKnows, OwnAddress, TriggersTrue, ServiceBecomes
  <2>3. DoneConfigured'
    BY <1>1, <1>2 DEF ClusterInv, DoneConfigured, Triggers, IPsOf
  <2>4. ListsGiven' /\ ListsMeet'
    BY <1>2, <1>3, ListsOfService
  <2>5. QED
    BY <2>1, <2>2, <2>3, <2>4 DEF ClusterInv
<1>4. CASE Enable(n)
  BY <1>4, <1>1, <1>3, NodeEffects
<1>5. CASE Start(n)
  <2>1. svc[n].snap.others # {}
    BY <1>5 DEF Start
  <2>2. QED
    BY <2>1, <1>5, <1>1, <1>3, NodeEffects
<1>6. CASE GiveUp(n)
  BY <1>6, <1>1, <1>3, NodeEffects
<1>7. QED
  BY <1>4, <1>5, <1>6

\* A reboot ends processes only.
LEMMA RebootKeeps ==
    ASSUME ClusterInv, NEW m \in Machines, Reboot(m)
    PROVE  ClusterInv'
<1> USE DEF Ready, Deployed, Machines
<1>1. TypesOK BY DEF ClusterInv
<1>2. wanted' = wanted /\ vm' = vm /\ tf' = tf /\ trigger' = trigger /\ skipped' = skipped
  BY DEF Reboot
<1>3. CASE m \in DB
  <2>1. ServiceBecomes(m, [conf |-> svc[m].conf, snap |-> svc[m].snap,
                           enabled |-> svc[m].enabled, proc |-> None])
    BY <1>3, <1>1, NodeEffects
  <2>2. TypesOK'
    BY <1>1, <1>2, <2>1 DEF TypesOK, ServiceBecomes
  <2>3. ApplyKnows' /\ OwnAddress' /\ TriggersTrue'
    BY <1>1, <1>2, <2>1 DEF ClusterInv, ApplyKnows, OwnAddress, TriggersTrue, ServiceBecomes
  <2>4. DoneConfigured'
    BY <1>1, <1>2 DEF ClusterInv, DoneConfigured, Triggers, IPsOf
  <2>5. ListsGiven' /\ ListsMeet'
    BY <1>2, <1>3, <2>1, ListsOfService
  <2>6. QED
    BY <2>2, <2>3, <2>4, <2>5 DEF ClusterInv
<1>4. CASE m \notin DB
  <2>1. svc' = svc
    BY <1>4 DEF Reboot
  <2>2. ListsGiven' /\ ListsMeet'
    BY <1>2, <2>1, ListsStay
  <2>3. TypesOK' /\ ApplyKnows' /\ OwnAddress' /\ TriggersTrue'
    BY <1>1, <1>2, <2>1 DEF ClusterInv, TypesOK, ApplyKnows, OwnAddress, TriggersTrue
  <2>4. DoneConfigured'
    BY <1>1, <1>2 DEF ClusterInv, DoneConfigured, Triggers, IPsOf
  <2>5. QED
    BY <2>2, <2>3, <2>4 DEF ClusterInv
<1>5. QED
  BY <1>3, <1>4

\* The invariant is inductive ...
LEMMA ClusterInductive == ClusterInv /\ [Next]_vars => ClusterInv'
<1>1. SUFFICES ASSUME ClusterInv, DeploymentNext PROVE ClusterInv'
  BY NextIsDeployment
<1>2. CASE UNCHANGED deployment
  <2>1. ListsGiven' /\ ListsMeet'
    BY <1>1, <1>2, ListsStay DEF deployment
  <2>2. QED
    BY <1>1, <1>2, <2>1 DEF deployment, ClusterInv, TypesOK, ApplyKnows, Deployed, OwnAddress,
       TriggersTrue, DoneConfigured, Triggers, IPsOf, Ready
<1>3. QED
  BY <1>1, <1>2, ApplyKeeps, CreateKeeps, VminitKeeps, VminitFailsKeeps, RebootKeeps, LoseKeeps,
     ConfigKeeps, ConfigLostKeeps, ConfigSkipsKeeps, ConfigFailsKeeps, GrowKeeps, NodeKeeps
  DEF DeploymentNext

-----------------------------------------------------------------------------
\* ... and holds in every state of every behaviour.
LEMMA ClusterInvHolds == Spec => []ClusterInv
BY ClusterInit, ClusterInductive, PTL DEF Spec

\* For any number of nodes, failures and losses, after a terraform apply that
\* succeeded every node will be started with its own address, and with the list of
\* all the nodes where setprop did not fail unnoticed: what the triggers of
\* cluster_config in nodes.tf are for.
THEOREM ApplyConvergesCorrect == Spec => []ApplyConverges
<1>1. ClusterInv => ApplyConverges
  BY DoneKnows DEF ApplyConverges, Deployed
<1>2. QED
  BY <1>1, ClusterInvHolds, PTL

\* For any number of nodes, failures, losses and reboots, of two cockroach
\* processes that run one was started with the address of the other, although
\* cluster_config never restarts one to give it a new list and may not even set it.
THEOREM RunningNodesMeetCorrect == Spec => []RunningNodesMeet
<1>1. ClusterInv => RunningNodesMeet
  <2>1. SUFFICES ASSUME ClusterInv, NEW n \in DB, NEW m \in DB, n # m, Running(n), Running(m)
                 PROVE  Meet(n, m)
    BY DEF RunningNodesMeet
  <2>2. ASSUME NEW k \in DB, Running(k)
        PROVE  svc[k].proc.others \in SUBSET Addrs /\ HasList(k, svc[k].proc.others)
    <3>1. svc[k].proc \in Confs
      BY <2>1, <2>2, ServiceFields DEF Running, ClusterInv
    <3>2. QED
      BY <2>1, <2>2, <3>1 DEF Running, Confs, ClusterInv, ListsGiven, HasList
  <2>3. QED
    BY <2>1, <2>2 DEF ClusterInv, ListsMeet, Running, Meet
<1>2. QED
  BY <1>1, ClusterInvHolds, PTL
=============================================================================
