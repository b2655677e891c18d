------------------------- MODULE CloudflareSetupProofs -------------------------
(***************************************************************************)
(* What the setup commands keep, for any versions of the configuration,    *)
(* any other hostnames and any number of objects ever made.                *)
(*                                                                         *)
(* GateInv is what a command knows of the application while it works, in   *)
(* any account: enough for GateBeforeDoor.  The other properties need that *)
(* a lookup by name finds what exists (~Crowded).  Then an object that     *)
(* exists is the last one of its kind that was made (Newest), and what a   *)
(* command has brought about so far (Applying, Serving) still stands when  *)
(* its next request is sent, wherever earlier runs were stopped.           *)
(***************************************************************************)
EXTENDS CloudflareSetup, FiniteSetTheorems, TLAPS

AfterGate == {"tunnel", "rules", "ingress", "dns", "token"}

RunOK ==
  /\ run \in [cmd : {"none", "apply", "service-token", "destroy"},
              pc : {"idle", "policy", "app", "put", "secret", "svc", "done"} \cup AfterGate,
              version : Versions \cup {0}, app : Ids \cup {0}, gate : SUBSET Policies,
              tunnel : Ids \cup {0}, seen : SUBSET Others, token : Ids \cup {0}]
  /\ \/ run.cmd = "none" /\ run.pc = "idle"
     \/ run.cmd = "apply" /\ run.pc \in {"policy", "app", "put", "done"} \cup AfterGate
     \/ run.cmd = "service-token" /\ run.pc \in {"token", "secret", "svc", "app", "put", "done"}
     \/ run.cmd = "destroy" /\ run.pc \in {"app", "dns", "tunnel", "done"}
  /\ run.pc = "secret" => run.token \in Ids
  /\ run.cmd = "apply" /\ run.pc \in AfterGate \ {"tunnel"} => run.tunnel \in Ids

TypeInv == TypeOK /\ RunOK

\* What a command that works on the application knows of it, in any account.
GateInv ==
  /\ run.cmd \in {"apply", "service-token"} /\ run.pc \in {"app", "put"} => \E p \in run.gate : p[1] = "human"
  /\ run.pc = "put" => run.app \in objects["app"]
  /\ Attaches /\ run.cmd = "apply" /\ run.pc \in AfterGate => Gated

\* In an account where lookups find what exists:
Newest == \A k \in Kinds : objects[k] \subseteq {made[k]}

There(k) == objects[k] = {made[k]}
HumanPolicy == <<"human", made["human"]>>
SvcPolicy == <<"svc", made["svc"]>>

Applying ==
  run.cmd = "apply" =>
    /\ run.pc \in {"app", "put"} \cup AfterGate => There("human") /\ allows[HumanPolicy] = run.version
    /\ run.pc \in {"app", "put"} => HumanPolicy \in run.gate
    /\ run.pc \in AfterGate => There("app") /\ (Attaches => HumanPolicy \in gate[made["app"]])
    /\ run.pc \in {"rules", "ingress", "dns", "token"} => There("tunnel") /\ run.tunnel = made["tunnel"]
    /\ run.pc \in {"dns", "token"} => rule[run.tunnel] = run.version
    /\ run.pc = "token" => dns = [type |-> "CNAME", to |-> run.tunnel]

Putting ==
  run.pc = "put" =>
    /\ There("app") /\ run.app = made["app"]
    /\ \A s \in objects["svc"] : <<"svc", s>> \in run.gate

Serving ==
  run.cmd = "service-token" =>
    /\ run.pc \in {"secret", "svc", "app", "put"} => There("token") /\ run.token = made["token"]
    /\ run.pc \in {"app", "put"} => /\ There("svc") /\ There("human") /\ allows[SvcPolicy] = run.token
                                    /\ run.gate = {SvcPolicy, HumanPolicy}
    /\ run.pc = "done" => /\ There("svc") /\ There("app") /\ There("token")
                          /\ (Attaches => SvcPolicy \in gate[made["app"]]) /\ allows[SvcPolicy] = made["token"]

SecretInv ==
  \A i \in objects["token"] : svcFile = i \/ i \in orphaned \/ (At("service-token", "secret") /\ run.token = i)

CleanInv ==
  clean =>
    /\ run.cmd # "destroy" /\ (run.cmd = "apply" => run.pc = "done")
    /\ There("human") /\ allows[HumanPolicy] = wanted
    /\ There("app") /\ (Attaches => HumanPolicy \in gate[made["app"]])
    /\ There("tunnel") /\ rule[made["tunnel"]] = wanted
    /\ dns = [type |-> "CNAME", to |-> made["tunnel"]] /\ tunnelFile = made["tunnel"]

SetupInv == Newest /\ Applying /\ Putting /\ Serving /\ SecretInv /\ CleanInv
------------------------------------------------------------------------------
(* Create-or-reuse.                                                        *)

LEMMA EnsuredFacts ==
  ASSUME TypeInv, NEW k \in Kinds, NEW found \in Found(k), NEW id \in Ids, Ensured(k, found, id)
  PROVE  /\ objects' \in [Kinds -> SUBSET Ids] /\ made' \in [Kinds -> 0..MaxMade]
         /\ \A j \in Kinds : objects'[j] \subseteq 1..made'[j] /\ objects[j] \subseteq objects'[j]
         /\ \A j \in Kinds \ {k} : objects'[j] = objects[j] /\ made'[j] = made[j]
         /\ id \in objects'[k]
<1>0. objects \in [Kinds -> SUBSET Ids] /\ made \in [Kinds -> 0..MaxMade] /\ MaxMade \in Nat
  BY SetupAssumption DEF TypeInv, TypeOK
<1>1. \A j \in Kinds : objects[j] \subseteq 1..made[j]
  BY DEF TypeInv, TypeOK
<1>2. CASE found # 0
  <2>1. found \in objects[k]
    BY <1>2 DEF Found
  <2>2. id = found /\ objects' = objects /\ made' = made
    BY <1>2 DEF Ensured
  <2> QED
    BY <1>0, <1>1, <2>1, <2>2
<1>3. CASE found = 0
  <2>1. /\ made[k] < MaxMade /\ id = made[k] + 1
        /\ made' = [made EXCEPT ![k] = id]
        /\ objects' = [objects EXCEPT ![k] = objects[k] \cup {id}]
    BY <1>3 DEF Ensured
  <2>2. objects' \in [Kinds -> SUBSET Ids] /\ made' \in [Kinds -> 0..MaxMade]
    BY <1>0, <2>1 DEF Ids
  <2>3. \A j \in Kinds \ {k} : objects'[j] = objects[j] /\ made'[j] = made[j]
    BY <1>0, <2>1
  <2>4. made'[k] = made[k] + 1 /\ objects'[k] = objects[k] \cup {id} /\ id \in objects'[k]
    BY <1>0, <2>1
  <2>5. objects'[k] \subseteq 1..made'[k]
    BY <1>0, <1>1, <2>1, <2>4
  <2> QED
    BY <1>1, <2>2, <2>3, <2>4, <2>5
<1> QED
  BY <1>2, <1>3

\* In an account where lookups find what exists, nothing is made twice.
LEMMA EnsuredOnce ==
  ASSUME TypeInv, Newest, ~Crowded, NEW k \in Kinds, NEW found \in Found(k), NEW id \in Ids,
         Ensured(k, found, id)
  PROVE  /\ Newest' /\ There(k)' /\ id = made'[k]
         /\ found = 0 => objects[k] = {}
         /\ found # 0 => There(k) /\ UNCHANGED <<objects, made>>
<1>0. /\ objects \in [Kinds -> SUBSET Ids] /\ made \in [Kinds -> 0..MaxMade] /\ MaxMade \in Nat
      /\ 0 \notin Ids
  BY SetupAssumption DEF TypeInv, TypeOK, Ids
<1>1. \A j \in Kinds : objects[j] \subseteq {made[j]}
  BY DEF Newest
<1>2. CASE found # 0
  <2>1. found \in objects[k] /\ id = found /\ objects' = objects /\ made' = made
    BY <1>2 DEF Found, Ensured
  <2>2. objects[k] = {made[k]} /\ id = made[k]
    BY <1>1, <2>1
  <2> QED
    BY <1>1, <1>2, <2>1, <2>2 DEF Newest, There
<1>3. CASE found = 0
  <2>1. objects[k] = {}
    BY <1>0, <1>3 DEF Found
  <2>2. /\ id = made[k] + 1
        /\ made' = [made EXCEPT ![k] = id]
        /\ objects' = [objects EXCEPT ![k] = objects[k] \cup {id}]
    BY <1>3 DEF Ensured
  <2>3. objects'[k] = {id} /\ made'[k] = id
    BY <1>0, <2>1, <2>2
  <2>4. \A j \in Kinds \ {k} : objects'[j] = objects[j] /\ made'[j] = made[j]
    BY <1>0, <2>2
  <2> QED
    BY <1>1, <1>3, <2>1, <2>3, <2>4 DEF Newest, There
<1> QED
  BY <1>2, <1>3

\* What the application has after a PUT, and after somebody attached a policy.
LEMMA AttachedFacts ==
  ASSUME NEW named, NEW policies \in Attached(named)
  PROVE  policies \subseteq named /\ (Attaches => policies = named)
BY DEF Attached

LEMMA AttachedByThem ==
  ASSUME TypeInv, NEW a \in Ids, AttachesPolicy(a)
  PROVE  /\ \A b \in Ids : gate[b] \subseteq gate'[b]
         /\ UNCHANGED <<wanted, clean, objects, made, allows, rule, others, dns>>
         /\ UNCHANGED <<tunnelFile, svcFile, run, orphaned>>
<1>1. gate' = [gate EXCEPT ![a] = @ \cup {Theirs}] /\ gate \in [Ids -> SUBSET (Policies \cup {Theirs})]
  BY DEF AttachesPolicy, TypeInv, TypeOK
<1>2. \A b \in Ids : gate[b] \subseteq gate'[b]
  BY <1>1
<1> QED
  BY <1>2 DEF AttachesPolicy, host
------------------------------------------------------------------------------
(* Types.                                                                  *)

LEMMA InitTypes == Init => TypeInv
<1> SUFFICES ASSUME Init PROVE TypeInv
  OBVIOUS
<1> USE DEF Init
<1>1. TypeOK
  <2>1. objects \in [Kinds -> SUBSET Ids] /\ made \in [Kinds -> 0..MaxMade]
    BY SetupAssumption
  <2>2. \A k \in Kinds : objects[k] \subseteq 1..made[k]
    OBVIOUS
  <2>3. run.gate \subseteq Policies /\ run.seen \subseteq Others
    BY DEF NoRun
  <2>4. /\ allows \in [Policies -> Versions \cup {0} \cup Ids] /\ gate \in [Ids -> SUBSET (Policies \cup {Theirs})]
        /\ rule \in [Ids -> Versions \cup {0}] /\ others \in [Ids -> SUBSET Others]
        /\ extras \in [Ids -> BOOLEAN]
    OBVIOUS
  <2>5. dns \in [type : {"none", "A", "CNAME"}, to : Ids \cup {0}]
    OBVIOUS
  <2> QED
    BY <2>1, <2>2, <2>3, <2>4, <2>5 DEF TypeOK
<1>2. RunOK
  BY DEF RunOK, NoRun
<1> QED
  BY <1>1, <1>2 DEF TypeInv

LEMMA PeopleTypes == ASSUME TypeInv, People \/ Begins \/ Stops \/ Connector PROVE TypeInv'
<1> USE DEF TypeInv, TypeOK, RunOK, cloud, host
<1>1. CASE EditsConfig
  <2>1. wanted' \in Versions /\ clean' \in BOOLEAN /\ UNCHANGED <<objects, made, allows, gate, rule, others, extras, dns>>
        /\ UNCHANGED <<tunnelFile, svcFile, connector, run, orphaned>>
    BY <1>1 DEF EditsConfig
  <2> QED
    BY <2>1
<1>2. CASE Uninstalls
  BY <1>2 DEF Uninstalls
<1>3. ASSUME NEW i \in Ids, DeletesToken(i) PROVE TypeInv'
  BY <1>3 DEF DeletesToken, NoRun, Kinds
<1>4. ASSUME NEW t \in Ids, NEW o \in Others, AddsRule(t, o) PROVE TypeInv'
  BY <1>4 DEF AddsRule
<1>5. ASSUME NEW t \in Ids, AddsSettings(t) PROVE TypeInv'
  <2>1. extras' = [extras EXCEPT ![t] = TRUE]
        /\ UNCHANGED <<wanted, objects, made, allows, gate, rule, others, dns, tunnelFile, svcFile, connector, run, clean, orphaned>>
    BY <1>5 DEF AddsSettings
  <2>2. extras' \in [Ids -> BOOLEAN]
    BY <2>1
  <2> QED
    BY <2>1, <2>2
<1>6. ASSUME NEW a \in Ids, AttachesPolicy(a) PROVE TypeInv'
  <2>1. gate' = [gate EXCEPT ![a] = @ \cup {Theirs}]
        /\ UNCHANGED <<wanted, objects, made, allows, rule, others, extras, dns, tunnelFile, svcFile, connector, run, clean, orphaned>>
    BY <1>6 DEF AttachesPolicy
  <2>2. gate' \in [Ids -> SUBSET (Policies \cup {Theirs})]
    BY <2>1
  <2> QED
    BY <2>1, <2>2
<1>7. CASE Begins
  <2>1. ASSUME NEW cmd, NEW pc, Begin(cmd, pc), <<cmd, pc>> \in {<<"apply", "policy">>, <<"service-token", "token">>, <<"destroy", "app">>}
        PROVE TypeInv'
    BY <2>1 DEF Begin, NoRun, AfterGate
  <2> QED
    BY <1>7, <2>1 DEF Begins
<1>8. CASE Stops
  <2>1. run' = NoRun /\ UNCHANGED <<wanted, objects, made, allows, gate, rule, others, extras, dns>>
        /\ UNCHANGED <<tunnelFile, svcFile, connector, clean>>
    BY <1>8 DEF Stops
  <2>2. orphaned' \subseteq Ids
    <3>1. At("service-token", "secret") => run.token \in Ids
      BY DEF At
    <3> QED
      BY <1>8, <3>1 DEF Stops
  <2> QED
    BY <2>1, <2>2 DEF NoRun, AfterGate
<1>9. CASE Connector
  BY <1>9 DEF Connector
<1> QED
  BY <1>1, <1>2, <1>3, <1>4, <1>5, <1>6, <1>7, <1>8, <1>9 DEF People

LEMMA GateTypes ==
  ASSUME TypeInv, EnsurePolicy \/ EnsureApp \/ PutApp
  PROVE  TypeInv'
<1>0. run.version \in Versions \cup {0}
  BY DEF TypeInv, RunOK
<1>1. CASE EnsurePolicy
  <2>1. PICK found \in Found("human"), id \in Ids :
          /\ Ensured("human", found, id)
          /\ allows' = [allows EXCEPT ![<<"human", id>>] = run.version]
          /\ run' = [run EXCEPT !.pc = "app", !.gate = {<<"human", id>>}]
    BY <1>1 DEF EnsurePolicy, Admitting
  <2>2. /\ objects' \in [Kinds -> SUBSET Ids] /\ made' \in [Kinds -> 0..MaxMade]
        /\ \A j \in Kinds : objects'[j] \subseteq 1..made'[j]
    BY <2>1, EnsuredFacts DEF Kinds
  <2>3. <<"human", id>> \in Policies
    BY DEF Policies
  <2>4. /\ run.cmd = "apply"
        /\ UNCHANGED <<wanted, gate, rule, others, extras, dns, tunnelFile, svcFile, connector, clean, orphaned>>
    BY <1>1 DEF EnsurePolicy, At, host
  <2>5. RunOK'
    BY <2>1, <2>3, <2>4 DEF TypeInv, RunOK, AfterGate
  <2>6. allows' \in [Policies -> Versions \cup {0} \cup Ids]
    BY <1>0, <2>1 DEF TypeInv, TypeOK
  <2>7. run'.gate \subseteq Policies /\ run'.seen \subseteq Others
    BY <2>5 DEF RunOK
  <2> QED
    BY <2>2, <2>4, <2>5, <2>6, <2>7 DEF TypeInv, TypeOK
<1>2. CASE EnsureApp
  <2>1. PICK svc \in Found("svc"), found \in Found("app"), id \in Ids :
          /\ Ensured("app", found, id)
          /\ run' = [run EXCEPT !.pc = "put", !.app = id, !.gate = CarriedForward(svc)]
    BY <1>2 DEF EnsureApp
  <2>2. /\ objects' \in [Kinds -> SUBSET Ids] /\ made' \in [Kinds -> 0..MaxMade]
        /\ \A j \in Kinds : objects'[j] \subseteq 1..made'[j]
    BY <2>1, EnsuredFacts DEF Kinds
  <2>3. CarriedForward(svc) \subseteq Policies
    <3>1. svc # 0 => svc \in Ids
      BY DEF Found, TypeInv, TypeOK, Kinds
    <3>2. svc # 0 => <<"svc", svc>> \in Policies
      BY <3>1 DEF Policies
    <3>3. run.gate \subseteq Policies
      BY DEF TypeInv, RunOK
    <3> QED
      BY <3>2, <3>3 DEF CarriedForward
  <2>4. /\ run.pc = "app" /\ run.cmd # "destroy"
        /\ UNCHANGED <<wanted, allows, gate, rule, others, extras, dns, tunnelFile, svcFile, connector, clean, orphaned>>
    BY <1>2 DEF EnsureApp, host
  <2>5. RunOK'
    BY <2>1, <2>3, <2>4 DEF TypeInv, RunOK, AfterGate
  <2>6. run'.gate \subseteq Policies /\ run'.seen \subseteq Others
    BY <2>5 DEF RunOK
  <2> QED
    BY <2>2, <2>4, <2>5, <2>6 DEF TypeInv, TypeOK
<1>3. CASE PutApp
  <2>1. PICK policies \in Attached(run.gate) : gate' = [gate EXCEPT ![run.app] = policies]
    BY <1>3 DEF PutApp
  <2>2. UNCHANGED <<wanted, objects, made, allows, rule, others, extras, dns, tunnelFile, svcFile, connector, clean, orphaned>>
    BY <1>3 DEF PutApp, host
  <2>3. policies \subseteq Policies
    BY AttachedFacts DEF TypeInv, TypeOK
  <2>4. RunOK'
    <3>1. CASE run.cmd = "apply"
      <4>1. run' = [run EXCEPT !.pc = "tunnel", !.app = 0, !.gate = {}]
        BY <1>3, <3>1 DEF PutApp
      <4> QED
        BY <3>1, <4>1 DEF TypeInv, RunOK, AfterGate
    <3>2. CASE run.cmd # "apply"
      <4>1. run' = Finished("service-token")
        BY <1>3, <3>2 DEF PutApp, TypeInv, RunOK, AfterGate
      <4> QED
        BY <4>1 DEF RunOK, Finished, NoRun, AfterGate
    <3> QED
      BY <3>1, <3>2
  <2>5. gate' \in [Ids -> SUBSET (Policies \cup {Theirs})]
    BY <2>1, <2>3 DEF TypeInv, TypeOK
  <2>6. run'.gate \subseteq Policies /\ run'.seen \subseteq Others
    BY <2>4 DEF RunOK
  <2> QED
    BY <2>2, <2>4, <2>5, <2>6 DEF TypeInv, TypeOK
<1> QED
  BY <1>1, <1>2, <1>3

LEMMA DoorTypes ==
  ASSUME TypeInv, EnsureTunnel \/ ReadRules \/ PutRules \/ EnsureDns \/ SaveTunnelToken
  PROVE  TypeInv'
<1>1. CASE EnsureTunnel
  <2>1. PICK found \in Found("tunnel"), id \in Ids :
          Ensured("tunnel", found, id) /\ run' = [run EXCEPT !.pc = "rules", !.tunnel = id]
    BY <1>1 DEF EnsureTunnel, TunnelFound
  <2>2. /\ objects' \in [Kinds -> SUBSET Ids] /\ made' \in [Kinds -> 0..MaxMade]
        /\ \A j \in Kinds : objects'[j] \subseteq 1..made'[j]
    BY <2>1, EnsuredFacts DEF Kinds
  <2>3. /\ run.cmd = "apply"
        /\ UNCHANGED <<wanted, allows, gate, rule, others, extras, dns, tunnelFile, svcFile, connector, clean, orphaned>>
    BY <1>1 DEF EnsureTunnel, At, host
  <2>4. RunOK'
    BY <2>1, <2>3 DEF TypeInv, RunOK, AfterGate
  <2>5. run'.gate \subseteq Policies /\ run'.seen \subseteq Others
    BY <2>4 DEF RunOK
  <2> QED
    BY <2>2, <2>3, <2>4, <2>5 DEF TypeInv, TypeOK
<1>2. CASE ReadRules
  <2>1. run' = [run EXCEPT !.pc = "ingress", !.seen = others[run.tunnel]]
        /\ run.cmd = "apply" /\ run.pc = "rules"
    BY <1>2 DEF ReadRules, At
  <2>2. others[run.tunnel] \subseteq Others
    BY <2>1 DEF TypeInv, TypeOK, RunOK, AfterGate
  <2>3. RunOK'
    BY <2>1, <2>2 DEF TypeInv, RunOK, AfterGate
  <2>4. run'.gate \subseteq Policies /\ run'.seen \subseteq Others
    BY <2>3 DEF RunOK
  <2> QED
    BY <1>2, <2>3, <2>4 DEF ReadRules, TypeInv, TypeOK, cloud, host
<1>3. CASE PutRules
  <2>1. run' = [run EXCEPT !.pc = "dns"] /\ run.cmd = "apply" /\ run.pc = "ingress"
    BY <1>3 DEF PutRules, At
  <2>2. RunOK'
    BY <2>1 DEF TypeInv, RunOK, AfterGate
  <2>3. run'.gate \subseteq Policies /\ run'.seen \subseteq Others
    BY <2>2 DEF RunOK
  <2>4. rule' \in [Ids -> Versions \cup {0}] /\ others' \in [Ids -> SUBSET Others] /\ extras' \in [Ids -> BOOLEAN]
    BY <1>3 DEF PutRules, TypeInv, TypeOK, RunOK
  <2> QED
    BY <1>3, <2>2, <2>3, <2>4 DEF PutRules, TypeInv, TypeOK, host
<1>4. CASE EnsureDns
  <2>1. run' = [run EXCEPT !.pc = "token"] /\ run.cmd = "apply" /\ run.pc = "dns"
        /\ dns' = [type |-> "CNAME", to |-> run.tunnel]
    BY <1>4 DEF EnsureDns, At
  <2>2. RunOK'
    BY <2>1 DEF TypeInv, RunOK, AfterGate
  <2>3. run'.gate \subseteq Policies /\ run'.seen \subseteq Others
    BY <2>2 DEF RunOK
  <2>4. dns' \in [type : {"none", "A", "CNAME"}, to : Ids \cup {0}]
    BY <2>1 DEF TypeInv, RunOK
  <2> QED
    BY <1>4, <2>2, <2>3, <2>4 DEF EnsureDns, TypeInv, TypeOK, host
<1>5. CASE SaveTunnelToken
  <2>1. run' = Finished("apply") /\ tunnelFile' = run.tunnel /\ clean' \in BOOLEAN
    BY <1>5 DEF SaveTunnelToken
  <2>2. RunOK'
    BY <2>1 DEF RunOK, Finished, NoRun, AfterGate
  <2>3. run'.gate \subseteq Policies /\ run'.seen \subseteq Others
    BY <2>2 DEF RunOK
  <2>4. run.tunnel \in Ids \cup {0}
    BY DEF TypeInv, RunOK
  <2> QED
    BY <1>5, <2>1, <2>2, <2>3, <2>4 DEF SaveTunnelToken, TypeInv, TypeOK, cloud
<1> QED
  BY <1>1, <1>2, <1>3, <1>4, <1>5

LEMMA ServiceTypes == ASSUME TypeInv, ServiceToken PROVE TypeInv'
<1>1. CASE EnsureToken
  <2>1. PICK found \in Found("token"), id \in Ids :
          /\ Ensured("token", found, id)
          /\ run' = [run EXCEPT !.pc = IF found = 0 THEN "secret" ELSE "svc", !.token = id]
    BY <1>1 DEF EnsureToken
  <2>2. /\ objects' \in [Kinds -> SUBSET Ids] /\ made' \in [Kinds -> 0..MaxMade]
        /\ \A j \in Kinds : objects'[j] \subseteq 1..made'[j]
    BY <2>1, EnsuredFacts DEF Kinds
  <2>3. /\ run.cmd = "service-token"
        /\ UNCHANGED <<wanted, allows, gate, rule, others, extras, dns, tunnelFile, svcFile, connector, clean, orphaned>>
    BY <1>1 DEF EnsureToken, At, host
  <2>4. RunOK'
    BY <2>1, <2>3 DEF TypeInv, RunOK, AfterGate
  <2>5. run'.gate \subseteq Policies /\ run'.seen \subseteq Others
    BY <2>4 DEF RunOK
  <2> QED
    BY <2>2, <2>3, <2>4, <2>5 DEF TypeInv, TypeOK
<1>2. CASE SaveSecret
  <2>1. run' = [run EXCEPT !.pc = "svc"] /\ run.cmd = "service-token" /\ svcFile' = run.token
    BY <1>2 DEF SaveSecret, At
  <2>2. RunOK'
    BY <2>1 DEF TypeInv, RunOK, AfterGate
  <2>3. run'.gate \subseteq Policies /\ run'.seen \subseteq Others
    BY <2>2 DEF RunOK
  <2>4. run.token \in Ids \cup {0}
    BY DEF TypeInv, RunOK
  <2> QED
    BY <1>2, <2>1, <2>2, <2>3, <2>4 DEF SaveSecret, TypeInv, TypeOK, cloud
<1>3. CASE EnsureSvcPolicy
  <2>1. PICK found \in Found("svc"), human \in Found("human"), id \in Ids :
          /\ Ensured("svc", found, id)
          /\ allows' = [allows EXCEPT ![<<"svc", id>>] = run.token]
          /\ run' = IF human = 0 THEN NoRun ELSE [run EXCEPT !.pc = "app", !.gate = Reattached(id, human)]
    BY <1>3 DEF EnsureSvcPolicy, Admitting
  <2>2. /\ objects' \in [Kinds -> SUBSET Ids] /\ made' \in [Kinds -> 0..MaxMade]
        /\ \A j \in Kinds : objects'[j] \subseteq 1..made'[j]
    BY <2>1, EnsuredFacts DEF Kinds
  <2>3. /\ run.cmd = "service-token"
        /\ UNCHANGED <<wanted, gate, rule, others, extras, dns, tunnelFile, svcFile, connector, clean, orphaned>>
    BY <1>3 DEF EnsureSvcPolicy, At, host
  <2>4. allows' \in [Policies -> Versions \cup {0} \cup Ids]
    BY <2>1 DEF TypeInv, TypeOK, RunOK
  <2>5. human # 0 => Reattached(id, human) \subseteq Policies
    BY DEF Reattached, Policies, Found, TypeInv, TypeOK, Kinds
  <2>6. RunOK'
    <3>1. CASE human = 0
      BY <2>1, <3>1 DEF RunOK, NoRun, AfterGate
    <3>2. CASE human # 0
      BY <2>1, <2>3, <2>5, <3>2 DEF TypeInv, RunOK, AfterGate
    <3> QED
      BY <3>1, <3>2
  <2>7. run'.gate \subseteq Policies /\ run'.seen \subseteq Others
    BY <2>6 DEF RunOK
  <2> QED
    BY <2>2, <2>3, <2>4, <2>6, <2>7 DEF TypeInv, TypeOK
<1> QED
  BY <1>1, <1>2, <1>3 DEF ServiceToken

LEMMA DestroyTypes == ASSUME TypeInv, Destroy PROVE TypeInv'
<1>1. CASE DestroyApp
  <2>1. PICK found \in Found("app") :
          /\ objects' = [objects EXCEPT !["app"] = @ \ {found}]
          /\ gate' = [a \in Ids |-> IF a = found THEN {} ELSE gate[a]]
    BY <1>1 DEF DestroyApp
  <2>2. run' = [run EXCEPT !.pc = "dns"] /\ run.cmd = "destroy"
        /\ UNCHANGED <<wanted, made, allows, rule, others, extras, dns, tunnelFile, svcFile, connector, clean, orphaned>>
    BY <1>1 DEF DestroyApp, At, host
  <2>3. RunOK'
    BY <2>2 DEF TypeInv, RunOK, AfterGate
  <2>4. run'.gate \subseteq Policies /\ run'.seen \subseteq Others
    BY <2>3 DEF RunOK
  <2>5. objects' \in [Kinds -> SUBSET Ids] /\ \A j \in Kinds : objects'[j] \subseteq 1..made'[j]
    BY <2>1, <2>2 DEF TypeInv, TypeOK
  <2>6. gate' \in [Ids -> SUBSET (Policies \cup {Theirs})]
    BY <2>1 DEF TypeInv, TypeOK
  <2> QED
    BY <2>2, <2>3, <2>4, <2>5, <2>6 DEF TypeInv, TypeOK
<1>2. CASE DestroyDns
  <2>1. run' = [run EXCEPT !.pc = "tunnel"] /\ run.cmd = "destroy"
        /\ dns' \in {dns, [type |-> "none", to |-> 0]}
    BY <1>2 DEF DestroyDns, At
  <2>2. RunOK'
    BY <2>1 DEF TypeInv, RunOK, AfterGate
  <2>3. run'.gate \subseteq Policies /\ run'.seen \subseteq Others
    BY <2>2 DEF RunOK
  <2>4. dns' \in [type : {"none", "A", "CNAME"}, to : Ids \cup {0}]
    BY <2>1 DEF TypeInv, TypeOK
  <2> QED
    BY <1>2, <2>2, <2>3, <2>4 DEF DestroyDns, TypeInv, TypeOK, host
<1>3. CASE DestroyTunnel
  <2>1. PICK found \in Found("tunnel") :
          \/ /\ objects' = [objects EXCEPT !["tunnel"] = @ \ {found}]
             /\ rule' = [t \in Ids |-> IF t = found THEN 0 ELSE rule[t]]
             /\ others' = [t \in Ids |-> IF t = found THEN {} ELSE others[t]]
             /\ extras' = [t \in Ids |-> t # found /\ extras[t]]
          \/ UNCHANGED <<objects, rule, others, extras>>
    BY <1>3 DEF DestroyTunnel
  <2>2. run' = Finished("destroy")
        /\ UNCHANGED <<wanted, made, allows, gate, dns, tunnelFile, svcFile, connector, clean, orphaned>>
    BY <1>3 DEF DestroyTunnel, host
  <2>3. RunOK'
    BY <2>2 DEF RunOK, Finished, NoRun, AfterGate
  <2>4. run'.gate \subseteq Policies /\ run'.seen \subseteq Others
    BY <2>3 DEF RunOK
  <2>5. objects' \in [Kinds -> SUBSET Ids] /\ \A j \in Kinds : objects'[j] \subseteq 1..made'[j]
    BY <2>1, <2>2 DEF TypeInv, TypeOK
  <2>6. rule' \in [Ids -> Versions \cup {0}] /\ others' \in [Ids -> SUBSET Others] /\ extras' \in [Ids -> BOOLEAN]
    BY <2>1 DEF TypeInv, TypeOK
  <2> QED
    BY <2>2, <2>3, <2>4, <2>5, <2>6 DEF TypeInv, TypeOK
<1> QED
  BY <1>1, <1>2, <1>3 DEF Destroy

LEMMA StepTypes == ASSUME TypeInv, [Next]_vars PROVE TypeInv'
<1>1. CASE UNCHANGED vars
  BY <1>1 DEF vars, cloud, host, TypeInv, TypeOK, RunOK
<1>2. CASE Next
  BY <1>2, PeopleTypes, GateTypes, DoorTypes, ServiceTypes, DestroyTypes DEF Next, Apply
<1> QED
  BY <1>1, <1>2
------------------------------------------------------------------------------
(* The gate, in any account.                                               *)

LEMMA GateInvKept == ASSUME TypeInv, GateInv, [Next]_vars PROVE GateInv'
<1>1. CASE UNCHANGED <<run, objects, gate>>
  BY <1>1 DEF GateInv, Gated
<1>2. CASE run' = NoRun \/ run' = Finished("apply") \/ run' = Finished("destroy")
  <2>1. run'.pc \in {"idle", "done"}
    <3>1. NoRun.pc = "idle" /\ Finished("apply").pc = "done" /\ Finished("destroy").pc = "done"
      BY DEF NoRun, Finished
    <3> QED
      BY <1>2, <3>1
  <2> QED
    BY <2>1 DEF GateInv, AfterGate
<1>3. CASE Begins
  <2>1. ASSUME NEW cmd, NEW pc, Begin(cmd, pc), <<cmd, pc>> \in {<<"apply", "policy">>, <<"service-token", "token">>, <<"destroy", "app">>}
        PROVE GateInv'
    BY <2>1 DEF Begin, NoRun, GateInv, AfterGate
  <2> QED
    BY <1>3, <2>1 DEF Begins
<1>4. CASE EnsurePolicy
  <2>1. PICK id \in Ids : run' = [run EXCEPT !.pc = "app", !.gate = {<<"human", id>>}]
    BY <1>4 DEF EnsurePolicy
  <2>2. run'.pc = "app" /\ <<"human", id>> \in run'.gate
    BY <2>1 DEF TypeInv, RunOK
  <2> QED
    BY <2>2 DEF GateInv, AfterGate
<1>5. CASE EnsureApp
  <2>1. PICK svc \in Found("svc"), found \in Found("app"), id \in Ids :
          /\ Ensured("app", found, id)
          /\ run' = [run EXCEPT !.pc = "put", !.app = id, !.gate = CarriedForward(svc)]
    BY <1>5 DEF EnsureApp
  <2>2. run'.pc = "put" /\ run'.app = id /\ run'.gate = CarriedForward(svc)
    BY <2>1 DEF TypeInv, RunOK
  <2>3. run.gate \subseteq CarriedForward(svc)
    BY DEF CarriedForward
  <2>4. \E p \in run.gate : p[1] = "human"
    BY <1>5 DEF EnsureApp, GateInv, TypeInv, RunOK
  <2>5. id \in objects'["app"]
    BY <2>1, EnsuredFacts DEF Kinds
  <2> QED
    BY <2>2, <2>3, <2>4, <2>5 DEF GateInv, AfterGate
<1>6. CASE PutApp
  <2>1. PICK p \in run.gate : p[1] = "human"
    BY <1>6 DEF PutApp, GateInv, TypeInv, RunOK, AfterGate
  <2>2. run.app \in objects["app"] /\ run.app \in Ids
    BY <1>6 DEF PutApp, GateInv, TypeInv, TypeOK, Kinds
  <2>3. Attaches => gate'[run.app] = run.gate
    BY <1>6, <2>2, AttachedFacts DEF PutApp, TypeInv, TypeOK
  <2>4. objects' = objects
    BY <1>6 DEF PutApp
  <2>5. Attaches => Gated'
    BY <2>1, <2>2, <2>3, <2>4 DEF Gated
  <2>6. run'.pc # "put" /\ ~(run'.cmd \in {"apply", "service-token"} /\ run'.pc = "app")
    BY <1>6 DEF PutApp, Finished, NoRun, TypeInv, RunOK
  <2> QED
    BY <2>5, <2>6 DEF GateInv
<1>7. CASE EnsureTunnel
  <2>1. PICK found \in Found("tunnel"), id \in Ids :
          Ensured("tunnel", found, id) /\ run' = [run EXCEPT !.pc = "rules", !.tunnel = id]
    BY <1>7 DEF EnsureTunnel, TunnelFound
  <2>2. run'.pc = "rules" /\ objects'["app"] = objects["app"] /\ gate' = gate
    BY <1>7, <2>1, EnsuredFacts DEF EnsureTunnel, TypeInv, RunOK, Kinds
  <2>3. Attaches => Gated
    BY <1>7 DEF EnsureTunnel, At, GateInv, AfterGate
  <2> QED
    BY <2>2, <2>3 DEF GateInv, Gated
<1>8. CASE ReadRules \/ PutRules \/ EnsureDns
  <2>1. (Attaches => Gated) /\ UNCHANGED <<objects, gate>> /\ run'.pc \in AfterGate
    BY <1>8 DEF ReadRules, PutRules, EnsureDns, At, GateInv, AfterGate, TypeInv, RunOK, cloud
  <2> QED
    BY <2>1 DEF GateInv, Gated, AfterGate
<1>9. CASE EnsureToken
  <2>1. run'.cmd = "service-token" /\ run'.pc \in {"secret", "svc"}
    BY <1>9 DEF EnsureToken, At, TypeInv, RunOK
  <2> QED
    BY <2>1 DEF GateInv
<1>10. CASE SaveSecret
  <2>1. run'.cmd = "service-token" /\ run'.pc = "svc"
    BY <1>10 DEF SaveSecret, At, TypeInv, RunOK
  <2> QED
    BY <2>1 DEF GateInv
<1>11. CASE EnsureSvcPolicy
  <2>1. PICK human \in Found("human"), id \in Ids :
          run' = IF human = 0 THEN NoRun ELSE [run EXCEPT !.pc = "app", !.gate = Reattached(id, human)]
    BY <1>11 DEF EnsureSvcPolicy
  <2>2. CASE human = 0
    BY <1>2, <2>1, <2>2
  <2>3. CASE human # 0
    <3>1. run'.pc = "app" /\ run'.cmd = "service-token" /\ <<"human", human>> \in run'.gate
      BY <1>11, <2>1, <2>3 DEF EnsureSvcPolicy, At, TypeInv, RunOK, Reattached
    <3> QED
      BY <3>1 DEF GateInv
  <2> QED
    BY <2>2, <2>3
<1>12. CASE DestroyApp \/ DestroyDns
  <2>1. run'.cmd = "destroy" /\ run'.pc \in {"dns", "tunnel"}
    BY <1>12 DEF DestroyApp, DestroyDns, At, TypeInv, RunOK
  <2> QED
    BY <2>1 DEF GateInv
<1>13. ASSUME NEW a \in Ids, AttachesPolicy(a) PROVE GateInv'
  <2>1. UNCHANGED <<run, objects>> /\ \A b \in Ids : gate[b] \subseteq gate'[b]
    BY <1>13, AttachedByThem
  <2>2. Gated => Gated'
    BY <2>1 DEF Gated, TypeInv, TypeOK, Kinds
  <2> QED
    BY <2>1, <2>2 DEF GateInv
<1>14. CASE People
  BY <1>1, <1>2, <1>13, <1>14 DEF People, EditsConfig, Uninstalls, DeletesToken, AddsRule, AddsSettings, cloud
<1>15. CASE Stops \/ SaveTunnelToken \/ DestroyTunnel
  BY <1>2, <1>15 DEF Stops, SaveTunnelToken, DestroyTunnel
<1>16. CASE Connector \/ UNCHANGED vars
  BY <1>1, <1>16 DEF Connector, vars, cloud
<1> QED
  BY <1>3, <1>4, <1>5, <1>6, <1>7, <1>8, <1>9, <1>10, <1>11, <1>12, <1>14, <1>15, <1>16
  DEF Next, Apply, ServiceToken, Destroy

\* What can open the hostname, or touch the application, outside destroy.
LEMMA DoorStep ==
  ASSUME TypeInv, GateInv, Attaches, [Next]_vars, run.cmd # "destroy", Open => Gated
  PROVE  Open' => Gated'
<1>1. CASE UNCHANGED <<objects, gate, rule, dns>>
  BY <1>1 DEF Open, Gated
<1>2. ASSUME UNCHANGED <<gate, rule, dns>>, objects["app"] \subseteq objects'["app"],
             objects'["tunnel"] = objects["tunnel"]
      PROVE  Open' => Gated'
  BY <1>2 DEF Open, Gated
<1>3. CASE EnsurePolicy
  BY <1>2, <1>3, EnsuredFacts DEF EnsurePolicy, Kinds
<1>4. CASE EnsureApp
  BY <1>2, <1>4, EnsuredFacts DEF EnsureApp, Kinds
<1>5. CASE EnsureToken
  BY <1>2, <1>5, EnsuredFacts DEF EnsureToken, Kinds
<1>6. CASE EnsureSvcPolicy
  BY <1>2, <1>6, EnsuredFacts DEF EnsureSvcPolicy, Kinds
<1>7. CASE PutApp
  <2>1. PICK p \in run.gate : p[1] = "human"
    BY <1>7 DEF PutApp, GateInv, TypeInv, RunOK, AfterGate
  <2>2. run.app \in objects["app"] /\ run.app \in Ids
    BY <1>7 DEF PutApp, GateInv, TypeInv, TypeOK, Kinds
  <2>3. gate'[run.app] = run.gate /\ objects' = objects
    BY <1>7, <2>2, AttachedFacts DEF PutApp, TypeInv, TypeOK
  <2> QED
    BY <2>1, <2>2, <2>3 DEF Gated
<1>8. CASE EnsureTunnel \/ PutRules \/ EnsureDns
  <2>1. Gated
    BY <1>8 DEF EnsureTunnel, PutRules, EnsureDns, At, GateInv, AfterGate
  <2>2. gate' = gate
    BY <1>8 DEF EnsureTunnel, PutRules, EnsureDns
  <2>3. objects'["app"] = objects["app"]
    BY <1>8, EnsuredFacts DEF EnsureTunnel, TunnelFound, PutRules, EnsureDns, Kinds
  <2> QED
    BY <2>1, <2>2, <2>3 DEF Gated
<1>9. CASE Destroy
  BY <1>9 DEF Destroy, DestroyApp, DestroyDns, DestroyTunnel, At
<1>10. ASSUME NEW i \in Ids, DeletesToken(i) PROVE Open' => Gated'
  <2>1. objects'["app"] = objects["app"] /\ objects'["tunnel"] = objects["tunnel"] /\ UNCHANGED <<gate, rule, dns>>
    BY <1>10 DEF DeletesToken, TypeInv, TypeOK, Kinds
  <2> QED
    BY <1>2, <2>1
<1>11. CASE EditsConfig \/ Uninstalls \/ (\E t \in Ids, o \in Others : AddsRule(t, o)) \/ (\E t \in Ids : AddsSettings(t))
  BY <1>1, <1>11 DEF EditsConfig, Uninstalls, AddsRule, AddsSettings, cloud
<1>12. ASSUME NEW a \in Ids, AttachesPolicy(a) PROVE Open' => Gated'
  <2>1. UNCHANGED <<objects, rule, dns>> /\ \A b \in Ids : gate[b] \subseteq gate'[b]
    BY <1>12, AttachedByThem
  <2>2. (Open' => Open) /\ (Gated => Gated')
    BY <2>1 DEF Open, Gated, TypeInv, TypeOK, Kinds
  <2> QED
    BY <2>2
<1>13. CASE Begins \/ Stops \/ Connector \/ UNCHANGED vars
  BY <1>1, <1>13 DEF Begins, Begin, Stops, Connector, vars, cloud
<1>14. CASE ReadRules \/ SaveTunnelToken \/ SaveSecret
  BY <1>1, <1>14 DEF ReadRules, SaveTunnelToken, SaveSecret, cloud
<1> QED
  BY <1>3, <1>4, <1>5, <1>6, <1>7, <1>8, <1>9, <1>10, <1>11, <1>12, <1>13, <1>14
  DEF Next, Apply, ServiceToken, People
------------------------------------------------------------------------------
(* What stands when the next request is sent.                              *)

LEMMA PeopleKeep == ASSUME TypeInv, SetupInv, People \/ Connector PROVE SetupInv'
<1> USE DEF SetupInv
<1>1. CASE EditsConfig
  <2>1. clean' = FALSE /\ UNCHANGED <<objects, made, allows, gate, rule, dns>>
        /\ UNCHANGED <<tunnelFile, svcFile, run, orphaned>>
    BY <1>1 DEF EditsConfig, cloud, host
  <2>2. Newest' /\ Applying' /\ Putting' /\ SecretInv'
    BY <2>1 DEF Newest, Applying, Putting, SecretInv, There, HumanPolicy, At
  <2>3. Serving' /\ CleanInv'
    BY <2>1 DEF Serving, CleanInv, There, HumanPolicy, SvcPolicy
  <2> QED
    BY <2>2, <2>3
<1>2. CASE Uninstalls \/ Connector \/ (\E t \in Ids, o \in Others : AddsRule(t, o)) \/ (\E t \in Ids : AddsSettings(t))
  <2>1. UNCHANGED <<wanted, clean, objects, made, allows, gate, rule, dns>>
        /\ UNCHANGED <<tunnelFile, svcFile, run, orphaned>>
    BY <1>2 DEF Uninstalls, Connector, AddsRule, AddsSettings, cloud, host
  <2>2. Newest' /\ Applying' /\ Putting' /\ SecretInv'
    BY <2>1 DEF Newest, Applying, Putting, SecretInv, There, HumanPolicy, At
  <2>3. Serving' /\ CleanInv'
    BY <2>1 DEF Serving, CleanInv, There, HumanPolicy, SvcPolicy
  <2> QED
    BY <2>2, <2>3
<1>3. ASSUME NEW i \in Ids, DeletesToken(i) PROVE SetupInv'
  <2>1. /\ objects' = [objects EXCEPT !["token"] = @ \ {i}] /\ orphaned' = orphaned \ {i} /\ run' = NoRun
        /\ UNCHANGED <<wanted, made, allows, gate, rule, dns, tunnelFile, svcFile, clean>>
    BY <1>3 DEF DeletesToken, host
  <2>2. /\ \A k \in Kinds \ {"token"} : objects'[k] = objects[k]
        /\ objects'["token"] = objects["token"] \ {i}
    BY <2>1 DEF TypeInv, TypeOK, Kinds
  <2>3. run'.cmd = "none" /\ run'.pc = "idle"
    BY <2>1 DEF NoRun
  <2>4. Newest'
    BY <2>1, <2>2 DEF Newest
  <2>5. Applying' /\ Putting' /\ Serving'
    BY <2>3 DEF Applying, Putting, Serving
  <2>6. SecretInv'
    <3>1. ~At("service-token", "secret")
      BY <1>3 DEF DeletesToken, Between, At
    <3> QED
      BY <2>1, <2>2, <3>1 DEF SecretInv
  <2>7. CleanInv'
    BY <2>1, <2>2, <2>3 DEF CleanInv, There, HumanPolicy, Kinds
  <2> QED
    BY <2>4, <2>5, <2>6, <2>7
<1>4. ASSUME NEW a \in Ids, AttachesPolicy(a) PROVE SetupInv'
  <2>1. UNCHANGED <<wanted, clean, objects, made, allows, rule, dns>>
        /\ UNCHANGED <<tunnelFile, svcFile, run, orphaned>>
    BY <1>4, AttachedByThem
  <2>2. There("app") => made["app"] \in Ids
    BY DEF There, TypeInv, TypeOK, Kinds
  <2>3. There("app") => gate[made["app"]] \subseteq gate'[made["app"]]
    BY <1>4, <2>2, AttachedByThem
  <2>4. Newest' /\ Putting' /\ SecretInv'
    BY <2>1 DEF Newest, Putting, SecretInv, There, At
  <2>5. Applying'
    BY <2>1, <2>3 DEF Applying, There, HumanPolicy
  <2>6. Serving' /\ CleanInv'
    BY <2>1, <2>3 DEF Serving, CleanInv, There, HumanPolicy, SvcPolicy
  <2> QED
    BY <2>4, <2>5, <2>6
<1> QED
  BY <1>1, <1>2, <1>3, <1>4 DEF People

LEMMA CommandsKeep == ASSUME TypeInv, SetupInv, Begins \/ Stops PROVE SetupInv'
<1> USE DEF SetupInv
<1>1. ASSUME NEW cmd, NEW pc, Begin(cmd, pc), <<cmd, pc>> \in {<<"apply", "policy">>, <<"service-token", "token">>, <<"destroy", "app">>}
      PROVE SetupInv'
  <2>1. /\ Between /\ run' = [NoRun EXCEPT !.cmd = cmd, !.pc = pc, !.version = IF cmd = "apply" THEN wanted ELSE 0]
        /\ clean' = (clean /\ cmd = "service-token")
        /\ UNCHANGED <<wanted, objects, made, allows, gate, rule, dns, tunnelFile, svcFile, orphaned>>
    BY <1>1 DEF Begin, cloud, host
  <2>2. run'.cmd = cmd /\ run'.pc = pc
    BY <2>1 DEF NoRun
  <2>3. Newest'
    BY <2>1 DEF Newest
  <2>4. Applying' /\ Putting' /\ Serving'
    BY <1>1, <2>2 DEF Applying, Putting, Serving, AfterGate
  <2>5. SecretInv'
    BY <2>1 DEF SecretInv, Between, At
  <2>6. CleanInv'
    BY <2>1, <2>2 DEF CleanInv, There, HumanPolicy
  <2> QED
    BY <2>3, <2>4, <2>5, <2>6
<1>2. CASE Stops
  <2>1. /\ orphaned' = IF At("service-token", "secret") THEN orphaned \cup {run.token} ELSE orphaned
        /\ run' = NoRun
        /\ UNCHANGED <<wanted, objects, made, allows, gate, rule, dns, tunnelFile, svcFile, clean>>
    BY <1>2 DEF Stops, cloud, host
  <2>2. run'.cmd = "none" /\ run'.pc = "idle"
    BY <2>1 DEF NoRun
  <2>3. Newest'
    BY <2>1 DEF Newest
  <2>4. Applying' /\ Putting' /\ Serving'
    BY <2>2 DEF Applying, Putting, Serving
  <2>5. SecretInv'
    BY <2>1 DEF SecretInv
  <2>6. CleanInv'
    BY <2>1, <2>2 DEF CleanInv, There, HumanPolicy
  <2> QED
    BY <2>3, <2>4, <2>5, <2>6
<1> QED
  BY <1>1, <1>2 DEF Begins

LEMMA GateKeeps ==
  ASSUME TypeInv, SetupInv, ~Crowded, EnsurePolicy \/ EnsureApp \/ PutApp
  PROVE  SetupInv'
<1> USE DEF SetupInv
<1>1. CASE EnsurePolicy
  <2>1. PICK found \in Found("human"), id \in Ids :
          /\ Ensured("human", found, id)
          /\ allows' = [allows EXCEPT ![<<"human", id>>] = run.version]
          /\ run' = [run EXCEPT !.pc = "app", !.gate = {<<"human", id>>}]
    BY <1>1 DEF EnsurePolicy, Admitting
  <2>2. /\ run.cmd = "apply" /\ run.pc = "policy"
        /\ UNCHANGED <<wanted, gate, rule, dns, tunnelFile, svcFile, clean, orphaned>>
    BY <1>1 DEF EnsurePolicy, At, host
  <2>3. /\ run'.cmd = "apply" /\ run'.pc = "app" /\ run'.gate = {<<"human", id>>}
        /\ run'.version = run.version
    BY <2>1, <2>2 DEF TypeInv, RunOK
  <2>4. Newest' /\ There("human")' /\ id = made'["human"]
    BY <2>1, EnsuredOnce DEF Kinds
  <2>5. objects'["token"] = objects["token"]
    BY <2>1, EnsuredFacts DEF Kinds
  <2>6. allows'[<<"human", id>>] = run.version
    BY <2>1 DEF TypeInv, TypeOK, Policies
  <2>7. Applying'
    BY <2>3, <2>4, <2>6 DEF Applying, HumanPolicy, AfterGate
  <2>8. Putting' /\ Serving'
    BY <2>3 DEF Putting, Serving
  <2>9. SecretInv'
    BY <2>2, <2>5 DEF SecretInv, At
  <2>10. CleanInv'
    BY <2>2 DEF CleanInv
  <2> QED
    BY <2>4, <2>7, <2>8, <2>9, <2>10
<1>2. CASE EnsureApp
  <2>1. PICK svc \in Found("svc"), found \in Found("app"), id \in Ids :
          /\ Ensured("app", found, id)
          /\ run' = [run EXCEPT !.pc = "put", !.app = id, !.gate = CarriedForward(svc)]
    BY <1>2 DEF EnsureApp
  <2>2. /\ run.pc = "app" /\ run.cmd \in {"apply", "service-token"}
        /\ UNCHANGED <<wanted, allows, gate, rule, dns, tunnelFile, svcFile, clean, orphaned>>
    BY <1>2 DEF EnsureApp, host, TypeInv, RunOK
  <2>3. /\ run'.cmd = run.cmd /\ run'.pc = "put" /\ run'.gate = CarriedForward(svc) /\ run'.app = id
        /\ run'.version = run.version /\ run'.token = run.token
    BY <2>1 DEF TypeInv, RunOK
  <2>4. Newest' /\ There("app")' /\ id = made'["app"] /\ (found # 0 => There("app") /\ UNCHANGED <<objects, made>>)
        /\ (found = 0 => objects["app"] = {})
    BY <2>1, EnsuredOnce DEF Kinds
  <2>5. \A j \in Kinds \ {"app"} : objects'[j] = objects[j] /\ made'[j] = made[j]
    BY <2>1, EnsuredFacts DEF Kinds
  <2>6. objects["svc"] = (IF svc = 0 THEN {} ELSE {svc})
    <3>1. objects["svc"] \subseteq {made["svc"]} /\ objects["svc"] \subseteq Ids
      BY DEF Newest, Kinds, TypeInv, TypeOK
    <3> QED
      BY <3>1 DEF Found, Ids
  <2>7. Applying'
    BY <2>2, <2>3, <2>5 DEF Applying, There, HumanPolicy, AfterGate, CarriedForward, Kinds
  <2>8. Serving'
    BY <2>2, <2>3, <2>5 DEF Serving, There, HumanPolicy, SvcPolicy, CarriedForward, Kinds
  <2>9. Putting'
    <3>1. ASSUME NEW s \in objects["svc"] PROVE <<"svc", s>> \in CarriedForward(svc)
      <4>1. s = svc /\ svc # 0
        BY <2>6, <3>1
      <4>2. CASE run.cmd = "apply"
        BY <4>1, <4>2 DEF CarriedForward
      <4>3. CASE run.cmd = "service-token"
        BY <2>2, <3>1, <4>3 DEF CarriedForward, Serving, There, SvcPolicy
      <4> QED
        BY <2>2, <4>2, <4>3
    <3> QED
      BY <2>3, <2>4, <2>5, <3>1 DEF Putting, Kinds
  <2>10. SecretInv'
    BY <2>2, <2>3, <2>5 DEF SecretInv, At, Kinds
  <2>11. CleanInv'
    <3>1. CASE clean
      <4>1. There("app")
        BY <3>1 DEF CleanInv
      <4>2. UNCHANGED <<objects, made>>
        BY <2>4, <4>1 DEF There
      <4> QED
        BY <2>2, <2>3, <4>2 DEF CleanInv, There, HumanPolicy
    <3>2. CASE ~clean
      BY <2>2, <3>2 DEF CleanInv
    <3> QED
      BY <3>1, <3>2
  <2> QED
    BY <2>4, <2>7, <2>8, <2>9, <2>10, <2>11
<1>3. CASE PutApp
  <2>1. /\ run.pc = "put"
        /\ UNCHANGED <<wanted, objects, made, allows, rule, dns, tunnelFile, svcFile, clean, orphaned>>
    BY <1>3 DEF PutApp, host
  <2>2. There("app") /\ run.app = made["app"] /\ made["app"] \in Ids
    BY <2>1 DEF Putting, There, TypeInv, TypeOK, Kinds
  <2>3. Attaches => gate'[made["app"]] = run.gate
    BY <1>3, <2>2, AttachedFacts DEF PutApp, TypeInv, TypeOK
  <2>4. Newest'
    BY <2>1 DEF Newest
  <2>5. SecretInv'
    BY <2>1 DEF SecretInv, At
  <2>6. CASE run.cmd = "apply"
    <3>1. run' = [run EXCEPT !.pc = "tunnel", !.app = 0, !.gate = {}]
      BY <1>3, <2>6 DEF PutApp
    <3>2. run'.cmd = "apply" /\ run'.pc = "tunnel" /\ run'.version = run.version
      BY <2>6, <3>1 DEF TypeInv, RunOK
    <3>3. Applying'
      BY <2>1, <2>2, <2>3, <2>6, <3>2 DEF Applying, There, HumanPolicy, AfterGate
    <3>4. Putting' /\ Serving'
      BY <3>2 DEF Putting, Serving
    <3>5. CleanInv'
      BY <2>1, <2>6 DEF CleanInv
    <3> QED
      BY <2>4, <2>5, <3>3, <3>4, <3>5
  <2>7. CASE run.cmd = "service-token"
    <3>1. run' = Finished("service-token")
      BY <1>3, <2>7 DEF PutApp
    <3>2. run'.cmd = "service-token" /\ run'.pc = "done"
      BY <3>1 DEF Finished, NoRun
    <3>3. Applying' /\ Putting'
      BY <3>2 DEF Applying, Putting
    <3>4. Serving'
      BY <2>1, <2>2, <2>3, <2>7, <3>2 DEF Serving, There, SvcPolicy
    <3>5. CleanInv'
      BY <2>1, <2>2, <2>3, <2>7, <3>2 DEF CleanInv, Serving, There, HumanPolicy
    <3> QED
      BY <2>4, <2>5, <3>3, <3>4, <3>5
  <2> QED
    BY <2>1, <2>6, <2>7 DEF TypeInv, RunOK, AfterGate
<1> QED
  BY <1>1, <1>2, <1>3

LEMMA DoorKeeps ==
  ASSUME TypeInv, SetupInv, ~Crowded,
         EnsureTunnel \/ ReadRules \/ PutRules \/ EnsureDns \/ SaveTunnelToken
  PROVE  SetupInv'
<1> USE DEF SetupInv
<1>0. run.cmd = "apply" /\ run.pc \in AfterGate /\ ~clean
  BY DEF EnsureTunnel, ReadRules, PutRules, EnsureDns, SaveTunnelToken, At, AfterGate, CleanInv
<1>1. CASE EnsureTunnel
  <2>1. PICK found \in Found("tunnel"), id \in Ids :
          Ensured("tunnel", found, id) /\ run' = [run EXCEPT !.pc = "rules", !.tunnel = id]
    BY <1>1 DEF EnsureTunnel, TunnelFound
  <2>2. /\ run.pc = "tunnel"
        /\ UNCHANGED <<wanted, allows, gate, rule, dns, tunnelFile, svcFile, clean, orphaned>>
    BY <1>1 DEF EnsureTunnel, At, host
  <2>3. run'.cmd = "apply" /\ run'.pc = "rules" /\ run'.tunnel = id /\ run'.version = run.version
    BY <1>0, <2>1 DEF TypeInv, RunOK
  <2>4. Newest' /\ There("tunnel")' /\ id = made'["tunnel"]
    BY <2>1, EnsuredOnce DEF Kinds
  <2>5. \A j \in Kinds \ {"tunnel"} : objects'[j] = objects[j] /\ made'[j] = made[j]
    BY <2>1, EnsuredFacts DEF Kinds
  <2>6. Applying'
    BY <1>0, <2>2, <2>3, <2>4, <2>5 DEF Applying, There, HumanPolicy, Kinds, AfterGate
  <2>7. Putting' /\ Serving' /\ CleanInv'
    BY <1>0, <2>2, <2>3 DEF Putting, Serving, CleanInv
  <2>8. SecretInv'
    BY <1>0, <2>2, <2>5 DEF SecretInv, At, Kinds
  <2> QED
    BY <2>4, <2>6, <2>7, <2>8
<1>2. CASE ReadRules
  <2>1. /\ run.pc = "rules" /\ run' = [run EXCEPT !.pc = "ingress", !.seen = others[run.tunnel]]
        /\ UNCHANGED <<wanted, objects, made, allows, gate, rule, dns, tunnelFile, svcFile, clean, orphaned>>
    BY <1>2 DEF ReadRules, At, cloud, host
  <2>2. run'.cmd = "apply" /\ run'.pc = "ingress" /\ run'.tunnel = run.tunnel /\ run'.version = run.version
    BY <1>0, <2>1 DEF TypeInv, RunOK
  <2>3. Applying'
    BY <1>0, <2>1, <2>2 DEF Applying, There, HumanPolicy, AfterGate
  <2>4. Newest' /\ Putting' /\ Serving' /\ CleanInv'
    BY <1>0, <2>1, <2>2 DEF Newest, Putting, Serving, CleanInv
  <2>5. SecretInv'
    BY <1>0, <2>1 DEF SecretInv, At
  <2> QED
    BY <2>3, <2>4, <2>5
<1>3. CASE PutRules
  <2>1. /\ run.pc = "ingress" /\ run' = [run EXCEPT !.pc = "dns"]
        /\ rule' = [rule EXCEPT ![run.tunnel] = run.version]
        /\ UNCHANGED <<wanted, objects, made, allows, gate, dns, tunnelFile, svcFile, clean, orphaned>>
    BY <1>3 DEF PutRules, At, host
  <2>2. run'.cmd = "apply" /\ run'.pc = "dns" /\ run'.tunnel = run.tunnel /\ run'.version = run.version
    BY <1>0, <2>1 DEF TypeInv, RunOK
  <2>3. rule'[run.tunnel] = run.version
    BY <1>0, <2>1 DEF TypeInv, TypeOK, RunOK, AfterGate
  <2>4. Applying'
    BY <1>0, <2>1, <2>2, <2>3 DEF Applying, There, HumanPolicy, AfterGate
  <2>5. Newest' /\ Putting' /\ Serving' /\ CleanInv'
    BY <1>0, <2>1, <2>2 DEF Newest, Putting, Serving, CleanInv
  <2>6. SecretInv'
    BY <1>0, <2>1 DEF SecretInv, At
  <2> QED
    BY <2>4, <2>5, <2>6
<1>4. CASE EnsureDns
  <2>1. /\ run.pc = "dns" /\ run' = [run EXCEPT !.pc = "token"] /\ dns' = [type |-> "CNAME", to |-> run.tunnel]
        /\ UNCHANGED <<wanted, objects, made, allows, gate, rule, tunnelFile, svcFile, clean, orphaned>>
    BY <1>4 DEF EnsureDns, At, host
  <2>2. run'.cmd = "apply" /\ run'.pc = "token" /\ run'.tunnel = run.tunnel /\ run'.version = run.version
    BY <1>0, <2>1 DEF TypeInv, RunOK
  <2>3. Applying'
    BY <1>0, <2>1, <2>2 DEF Applying, There, HumanPolicy, AfterGate
  <2>4. Newest' /\ Putting' /\ Serving' /\ CleanInv'
    BY <1>0, <2>1, <2>2 DEF Newest, Putting, Serving, CleanInv
  <2>5. SecretInv'
    BY <1>0, <2>1 DEF SecretInv, At
  <2> QED
    BY <2>3, <2>4, <2>5
<1>5. CASE SaveTunnelToken
  <2>1. /\ run.pc = "token" /\ run' = Finished("apply") /\ tunnelFile' = run.tunnel /\ clean' = (run.version = wanted)
        /\ UNCHANGED <<wanted, objects, made, allows, gate, rule, dns, svcFile, orphaned>>
    BY <1>5 DEF SaveTunnelToken, At, cloud
  <2>2. run'.cmd = "apply" /\ run'.pc = "done"
    BY <2>1 DEF Finished, NoRun
  <2>3. Applying' /\ Putting' /\ Serving'
    BY <2>2 DEF Applying, Putting, Serving, AfterGate
  <2>4. Newest'
    BY <2>1 DEF Newest
  <2>5. SecretInv'
    BY <1>0, <2>1 DEF SecretInv, At
  <2>6. CleanInv'
    BY <1>0, <2>1, <2>2 DEF CleanInv, Applying, There, HumanPolicy
  <2> QED
    BY <2>3, <2>4, <2>5, <2>6
<1> QED
  BY <1>1, <1>2, <1>3, <1>4, <1>5

LEMMA ServiceKeeps == ASSUME TypeInv, SetupInv, ~Crowded, ServiceToken PROVE SetupInv'
<1> USE DEF SetupInv
<1>0. run.cmd = "service-token"
  BY DEF ServiceToken, EnsureToken, SaveSecret, EnsureSvcPolicy, At
<1>1. CASE EnsureToken
  <2>1. PICK found \in Found("token"), id \in Ids :
          /\ Ensured("token", found, id)
          /\ run' = [run EXCEPT !.pc = IF found = 0 THEN "secret" ELSE "svc", !.token = id]
    BY <1>1 DEF EnsureToken
  <2>2. /\ run.pc = "token"
        /\ UNCHANGED <<wanted, allows, gate, rule, dns, tunnelFile, svcFile, clean, orphaned>>
    BY <1>1 DEF EnsureToken, At, host
  <2>3. /\ run'.cmd = "service-token" /\ run'.pc = (IF found = 0 THEN "secret" ELSE "svc")
        /\ run'.token = id
    BY <1>0, <2>1 DEF TypeInv, RunOK
  <2>4. Newest' /\ There("token")' /\ id = made'["token"]
        /\ (found # 0 => There("token") /\ UNCHANGED <<objects, made>>)
    BY <2>1, EnsuredOnce DEF Kinds
  <2>5. \A j \in Kinds \ {"token"} : objects'[j] = objects[j] /\ made'[j] = made[j]
    BY <2>1, EnsuredFacts DEF Kinds
  <2>6. Applying' /\ Putting'
    BY <2>3 DEF Applying, Putting
  <2>7. Serving'
    BY <2>3, <2>4 DEF Serving
  <2>8. SecretInv'
    BY <2>2, <2>3, <2>4 DEF SecretInv, At, There
  <2>9. CleanInv'
    BY <1>0, <2>2, <2>3, <2>5 DEF CleanInv, There, HumanPolicy, Kinds
  <2> QED
    BY <2>4, <2>6, <2>7, <2>8, <2>9
<1>2. CASE SaveSecret
  <2>1. /\ run.pc = "secret" /\ run' = [run EXCEPT !.pc = "svc"] /\ svcFile' = run.token
        /\ UNCHANGED <<wanted, objects, made, allows, gate, rule, dns, tunnelFile, clean, orphaned>>
    BY <1>2 DEF SaveSecret, At, cloud
  <2>2. run'.cmd = "service-token" /\ run'.pc = "svc" /\ run'.token = run.token
    BY <1>0, <2>1 DEF TypeInv, RunOK
  <2>3. Newest' /\ Applying' /\ Putting'
    BY <2>1, <2>2 DEF Newest, Applying, Putting
  <2>4. Serving'
    BY <1>0, <2>1, <2>2 DEF Serving, There
  <2>5. SecretInv'
    BY <1>0, <2>1 DEF SecretInv, Serving, There
  <2>6. CleanInv'
    BY <1>0, <2>1, <2>2 DEF CleanInv, There, HumanPolicy
  <2> QED
    BY <2>3, <2>4, <2>5, <2>6
<1>3. CASE EnsureSvcPolicy
  <2>1. PICK found \in Found("svc"), human \in Found("human"), id \in Ids :
          /\ Ensured("svc", found, id)
          /\ allows' = [allows EXCEPT ![<<"svc", id>>] = run.token]
          /\ run' = IF human = 0 THEN NoRun ELSE [run EXCEPT !.pc = "app", !.gate = Reattached(id, human)]
    BY <1>3 DEF EnsureSvcPolicy, Admitting
  <2>2. /\ run.pc = "svc"
        /\ UNCHANGED <<wanted, gate, rule, dns, tunnelFile, svcFile, clean, orphaned>>
    BY <1>3 DEF EnsureSvcPolicy, At, host
  <2>3. Newest' /\ There("svc")' /\ id = made'["svc"]
    BY <2>1, EnsuredOnce DEF Kinds
  <2>4. \A j \in Kinds \ {"svc"} : objects'[j] = objects[j] /\ made'[j] = made[j]
    BY <2>1, EnsuredFacts DEF Kinds
  <2>5. allows'[<<"svc", id>>] = run.token /\ \A i \in Ids : allows'[<<"human", i>>] = allows[<<"human", i>>]
    BY <2>1 DEF TypeInv, TypeOK, Policies
  <2>6. SecretInv'
    BY <2>2, <2>4 DEF SecretInv, At, Kinds
  <2>7. CASE human = 0
    <3>1. run'.cmd = "none" /\ run'.pc = "idle"
      BY <2>1, <2>7 DEF NoRun
    <3>2. Applying' /\ Putting' /\ Serving'
      BY <3>1 DEF Applying, Putting, Serving
    <3>3. ~clean
      BY <2>7 DEF CleanInv, There, Found, TypeInv, TypeOK, Kinds, Ids
    <3> QED
      BY <2>2, <2>3, <2>6, <3>2, <3>3 DEF CleanInv
  <2>8. CASE human # 0
    <3>1. human \in objects["human"] /\ There("human") /\ human = made["human"] /\ human \in Ids
      BY <2>8 DEF Found, Newest, There, Kinds, TypeInv, TypeOK
    <3>2. /\ run'.cmd = "service-token" /\ run'.pc = "app" /\ run'.token = run.token
          /\ run'.gate = {<<"svc", id>>, <<"human", human>>}
      BY <1>0, <2>1, <2>8 DEF TypeInv, RunOK, Reattached
    <3>3. Applying' /\ Putting'
      BY <3>2 DEF Applying, Putting
    <3>4. Serving'
      BY <1>0, <2>2, <2>3, <2>4, <2>5, <3>1, <3>2 DEF Serving, There, HumanPolicy, SvcPolicy, Kinds
    <3>5. CleanInv'
      BY <2>2, <2>4, <2>5, <3>1, <3>2 DEF CleanInv, There, HumanPolicy, Kinds
    <3> QED
      BY <2>3, <2>6, <3>3, <3>4, <3>5
  <2> QED
    BY <2>7, <2>8
<1> QED
  BY <1>1, <1>2, <1>3 DEF ServiceToken

LEMMA DestroyKeeps == ASSUME TypeInv, SetupInv, Destroy PROVE SetupInv'
<1> USE DEF SetupInv
<1>0. run.cmd = "destroy" /\ ~clean
  BY DEF Destroy, DestroyApp, DestroyDns, DestroyTunnel, At, CleanInv
<1>1. /\ \A j \in Kinds : objects'[j] \subseteq objects[j]
      /\ objects'["token"] = objects["token"]
      /\ UNCHANGED <<made, svcFile, clean, orphaned>>
  BY DEF Destroy, DestroyApp, DestroyDns, DestroyTunnel, host, TypeInv, TypeOK, Kinds
<1>2. run'.cmd = "destroy" /\ run'.pc # "put"
  BY DEF Destroy, DestroyApp, DestroyDns, DestroyTunnel, At, Finished, NoRun, TypeInv, RunOK
<1>3. Newest' /\ Applying' /\ Putting' /\ Serving'
  BY <1>1, <1>2 DEF Newest, Applying, Putting, Serving
<1>4. SecretInv'
  BY <1>0, <1>1 DEF SecretInv, At
<1>5. CleanInv'
  BY <1>0, <1>1 DEF CleanInv
<1> QED
  BY <1>3, <1>4, <1>5

LEMMA SetupInvKept == ASSUME TypeInv, SetupInv, ~Crowded, [Next]_vars PROVE SetupInv'
<1>1. CASE UNCHANGED vars
  <2>1. UNCHANGED <<wanted, clean, objects, made, allows, gate, rule, dns>>
        /\ UNCHANGED <<tunnelFile, svcFile, run, orphaned>>
    BY <1>1 DEF vars, cloud, host
  <2>2. Newest' /\ Applying' /\ Putting' /\ SecretInv'
    BY <2>1 DEF SetupInv, Newest, Applying, Putting, SecretInv, There, HumanPolicy, At
  <2>3. Serving' /\ CleanInv'
    BY <2>1 DEF SetupInv, Serving, CleanInv, There, HumanPolicy, SvcPolicy
  <2> QED
    BY <2>2, <2>3 DEF SetupInv
<1>2. CASE Next
  BY <1>2, PeopleKeep, CommandsKeep, GateKeeps, DoorKeeps, ServiceKeeps, DestroyKeeps DEF Next, Apply
<1> QED
  BY <1>1, <1>2

LEMMA InitSetup == Init => GateInv /\ SetupInv
<1> SUFFICES ASSUME Init PROVE GateInv /\ SetupInv
  OBVIOUS
<1>1. /\ objects = [k \in Kinds |-> {}] /\ run.cmd = "none" /\ run.pc = "idle" /\ clean = FALSE
  BY DEF Init, NoRun
<1>2. GateInv
  BY <1>1 DEF GateInv
<1>3. Newest /\ SecretInv /\ CleanInv
  BY <1>1 DEF Newest, SecretInv, CleanInv, Kinds
<1>4. Applying /\ Putting /\ Serving
  BY <1>1 DEF Applying, Putting, Serving
<1> QED
  BY <1>2, <1>3, <1>4 DEF SetupInv
------------------------------------------------------------------------------
(* What follows.                                                           *)

LEMMA OnceMeansOne == ASSUME TypeInv, Newest PROVE OneOfEach
<1>1. ASSUME NEW k \in Kinds PROVE Cardinality(objects[k]) <= 1
  <2>1. CASE objects[k] = {}
    BY <2>1, FS_EmptySet
  <2>2. CASE objects[k] # {}
    <3>1. objects[k] = {made[k]}
      BY <2>2 DEF Newest
    <3>2. Cardinality({made[k]}) = 1
      BY FS_Singleton
    <3> QED
      BY <3>1, <3>2
  <2> QED
    BY <2>1, <2>2
<1> QED
  BY <1>1 DEF OneOfEach, TypeInv

LEMMA InvMeansReconciled == ASSUME TypeInv, SetupInv, Attaches PROVE CompletedMeansReconciled
<1>1. \A k \in Kinds : There(k) => made[k] \in Ids
  BY DEF There, TypeInv, TypeOK
<1>2. ASSUME clean PROVE Applied
  <2>1. /\ There("human") /\ allows[HumanPolicy] = wanted
        /\ There("app") /\ HumanPolicy \in gate[made["app"]]
        /\ There("tunnel") /\ rule[made["tunnel"]] = wanted
        /\ dns = [type |-> "CNAME", to |-> made["tunnel"]] /\ tunnelFile = made["tunnel"]
    BY <1>2 DEF SetupInv, CleanInv
  <2>2. made["human"] \in Ids /\ made["app"] \in Ids /\ made["tunnel"] \in Ids
    BY <1>1, <2>1 DEF Kinds
  <2> QED
    BY <2>1, <2>2 DEF Applied, There, HumanPolicy
<1>3. ASSUME At("service-token", "done") PROVE Admitted
  <2>1. /\ There("svc") /\ There("app") /\ There("token")
        /\ SvcPolicy \in gate[made["app"]] /\ allows[SvcPolicy] = made["token"]
    BY <1>3 DEF At, SetupInv, Serving
  <2>2. made["svc"] \in Ids /\ made["app"] \in Ids /\ made["token"] \in Ids
    BY <1>1, <2>1 DEF Kinds
  <2>3. svcFile = made["token"] \/ made["token"] \in orphaned
    BY <1>3, <2>1 DEF SetupInv, SecretInv, At, There
  <2> QED
    BY <2>1, <2>2, <2>3 DEF Admitted, There, SvcPolicy
<1> QED
  BY <1>2, <1>3 DEF CompletedMeansReconciled

\* Outside destroy a step takes no service policy off an application ...
LEMMA ServicePoliciesStay ==
  ASSUME TypeInv, SetupInv, Attaches, [Next]_vars, run.cmd # "destroy",
         NEW a \in objects["app"], NEW s \in objects["svc"], <<"svc", s>> \in gate[a]
  PROVE  <<"svc", s>> \in gate'[a]
<1>0. a \in Ids
  BY DEF TypeInv, TypeOK, Kinds
<1>1. CASE PutApp
  <2>1. PICK policies \in Attached(run.gate) : gate' = [gate EXCEPT ![run.app] = policies]
    BY <1>1 DEF PutApp
  <2>2. policies = run.gate
    BY AttachedFacts
  <2>3. <<"svc", s>> \in run.gate
    BY <1>1 DEF PutApp, SetupInv, Putting
  <2> QED
    BY <1>0, <2>1, <2>2, <2>3 DEF TypeInv, TypeOK
<1>2. ASSUME NEW b \in Ids, AttachesPolicy(b) PROVE <<"svc", s>> \in gate'[a]
  BY <1>0, <1>2, AttachedByThem
<1>3. CASE gate' = gate
  BY <1>3
<1>4. CASE People \/ Begins \/ Stops \/ Connector \/ UNCHANGED vars
  BY <1>2, <1>3, <1>4 DEF People, EditsConfig, Uninstalls, DeletesToken, AddsRule, AddsSettings, Begins, Begin,
                          Stops, Connector, vars, cloud
<1>5. CASE EnsureApp \/ Apply \/ ServiceToken
  BY <1>3, <1>5 DEF EnsureApp, Apply, EnsurePolicy, EnsureTunnel, ReadRules, PutRules, EnsureDns,
                    SaveTunnelToken, ServiceToken, EnsureToken, SaveSecret, EnsureSvcPolicy, cloud
<1>6. ~Destroy
  BY DEF Destroy, DestroyApp, DestroyDns, DestroyTunnel, At
<1> QED
  BY <1>1, <1>4, <1>5, <1>6 DEF Next

\* ... and no other hostname's rule but one that apply had not read.
LEMMA OtherRulesStay ==
  ASSUME TypeInv, [Next]_vars, run.cmd # "destroy", NEW t \in objects["tunnel"]
  PROVE  others[t] \ others'[t] \subseteq others[t] \ run.seen
<1>0. t \in Ids
  BY DEF TypeInv, TypeOK, Kinds
<1>1. CASE PutRules
  <2>1. others' = [others EXCEPT ![run.tunnel] = run.seen]
    BY <1>1 DEF PutRules
  <2> QED
    BY <1>0, <2>1 DEF TypeInv, TypeOK
<1>2. ASSUME NEW u \in Ids, NEW o \in Others, AddsRule(u, o)
      PROVE  others[t] \ others'[t] \subseteq others[t] \ run.seen
  <2>1. others' = [others EXCEPT ![u] = @ \cup {o}]
    BY <1>2 DEF AddsRule
  <2> QED
    BY <1>0, <2>1 DEF TypeInv, TypeOK
<1>3. ~Destroy
  BY DEF Destroy, DestroyApp, DestroyDns, DestroyTunnel, At
<1>4. CASE others' = others
  BY <1>4
<1>5. CASE EditsConfig \/ Uninstalls \/ (\E i \in Ids : DeletesToken(i)) \/ Begins \/ Stops \/ Connector \/ UNCHANGED vars
  BY <1>4, <1>5 DEF EditsConfig, Uninstalls, DeletesToken, Begins, Begin, Stops, Connector, vars, cloud
<1>6. CASE EnsureApp \/ PutApp \/ ServiceToken \/ (\E u \in Ids : AddsSettings(u) \/ AttachesPolicy(u))
  BY <1>4, <1>6 DEF EnsureApp, PutApp, ServiceToken, EnsureToken, SaveSecret, EnsureSvcPolicy,
                    AddsSettings, AttachesPolicy, cloud
<1>7. CASE EnsurePolicy \/ EnsureTunnel \/ ReadRules \/ EnsureDns \/ SaveTunnelToken
  BY <1>4, <1>7 DEF EnsurePolicy, EnsureTunnel, ReadRules, EnsureDns, SaveTunnelToken, cloud
<1> QED
  BY <1>1, <1>2, <1>3, <1>5, <1>6, <1>7 DEF Next, People, Apply
------------------------------------------------------------------------------
\* Every variable of the account, the host and the command stays in its range,
\* whatever stopped the commands and however crowded the account is.
THEOREM TypeCorrect == Spec => []TypeOK
<1>1. Init => TypeInv
  BY InitTypes
<1>2. TypeInv /\ [Next]_vars => TypeInv'
  BY StepTypes
<1>3. TypeInv => TypeOK
  BY DEF TypeInv
<1> QED
  BY <1>1, <1>2, <1>3, PTL DEF Spec

\* The application and its human policy exist before the hostname resolves, and
\* no command but destroy takes them away from an open hostname, first run or
\* re-run, in any account whose PUTs attach the policies they name (cmd_apply's
\* order, ensure_app's PUT).
THEOREM GateComesFirst == ASSUME Attaches PROVE Spec => GateBeforeDoor
<1>1. Init => TypeInv /\ GateInv
  BY InitTypes, InitSetup
<1>2. TypeInv /\ GateInv /\ [Next]_vars => (TypeInv /\ GateInv)'
  BY StepTypes, GateInvKept
<1>3. TypeInv /\ GateInv /\ [Next]_vars
        => [run.cmd # "destroy" /\ (Open => Gated) => (Open' => Gated')]_vars
  BY DoorStep
<1> QED
  BY <1>1, <1>2, <1>3, PTL DEF Spec, GateBeforeDoor

\* Where lookups by name find what exists, no re-run makes a second object of
\* any kind (ensure_email_policy, ensure_app, ensure_tunnel, cmd_service_token).
THEOREM NothingTwice == ASSUME ~Crowded PROVE Spec => []OneOfEach
<1>1. Init => TypeInv /\ SetupInv
  BY InitTypes, InitSetup
<1>2. TypeInv /\ SetupInv /\ [Next]_vars => (TypeInv /\ SetupInv)'
  BY StepTypes, SetupInvKept
<1>3. TypeInv /\ SetupInv => OneOfEach
  BY OnceMeansOne DEF SetupInv
<1> QED
  BY <1>1, <1>2, <1>3, PTL DEF Spec

\* Where lookups by name find what exists and a PUT attaches the policies it
\* names, a completed apply or service-token run
\* leaves what it says it leaves, whatever stopped runs before it had left
\* (cmd_apply, cmd_service_token).
THEOREM CompletedReconciles == ASSUME ~Crowded, Attaches PROVE Spec => []CompletedMeansReconciled
<1>1. Init => TypeInv /\ SetupInv
  BY InitTypes, InitSetup
<1>2. TypeInv /\ SetupInv /\ [Next]_vars => (TypeInv /\ SetupInv)'
  BY StepTypes, SetupInvKept
<1>3. TypeInv /\ SetupInv => CompletedMeansReconciled
  BY InvMeansReconciled
<1> QED
  BY <1>1, <1>2, <1>3, PTL DEF Spec

\* Under the same assumptions, outside destroy: a service policy stays on its
\* application (ensure_app carries it forward), and another hostname's rule that
\* apply's GET returned stays in its tunnel (ensure_ingress puts it back).  Nothing
\* is said of policies of others, of rules without a hostname, of other settings.
THEOREM OthersAreKept == ASSUME ~Crowded, Attaches PROVE Spec => TheRestIsKept
<1>1. Init => TypeInv /\ SetupInv
  BY InitTypes, InitSetup
<1>2. TypeInv /\ SetupInv /\ [Next]_vars => (TypeInv /\ SetupInv)'
  BY StepTypes, SetupInvKept
<1>3. TypeInv /\ SetupInv /\ [Next]_vars
        => [run.cmd # "destroy" =>
             /\ \A a \in objects["app"], s \in objects["svc"] :
                  <<"svc", s>> \in gate[a] => <<"svc", s>> \in gate'[a]
             /\ \A t \in objects["tunnel"] :
                  others[t] \ others'[t] \subseteq others[t] \ run.seen]_vars
  BY ServicePoliciesStay, OtherRulesStay
<1> QED
  BY <1>1, <1>2, <1>3, PTL DEF Spec, TheRestIsKept
==============================================================================
