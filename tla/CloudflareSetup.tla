--------------------------- MODULE CloudflareSetup ---------------------------
(***************************************************************************)
(* scripts/setup_cfzt.py: the commands apply, service-token, connector and *)
(* destroy bring a Cloudflare account and this host to a configuration, by *)
(* looking objects up by name and creating or overwriting them.            *)
(*                                                                         *)
(* One command runs at a time.  A step is one request with what the script *)
(* does on its answer; a lookup is joined to the request it decides about  *)
(* where nobody else changes what it looked at.  `Stops` ends a command at *)
(* any point: a request that fails, or whose answer is lost after it was   *)
(* served (the effect, then the stop), Ctrl-C, `die`.                      *)
(***************************************************************************)
EXTENDS Naturals, FiniteSets

CONSTANTS
  Versions,  \* contents of cfzt.env: whom to allow, where the server listens
  Others,    \* other hostnames somebody serves through the same tunnel
  MaxMade,   \* objects of one kind ever created (a bound)
  Crowded,   \* the account has more objects of a kind than a page of a list
  Attaches   \* a PUT of the application always attaches the policies it names

ASSUME SetupAssumption ==
  0 \notin Versions /\ MaxMade \in Nat \ {0} /\ Crowded \in BOOLEAN /\ Attaches \in BOOLEAN

Ids == 1..MaxMade
Kinds == {"human", "svc", "app", "tunnel", "token"}

VARIABLES
  wanted,      \* what cfzt.env says
  objects,     \* Kinds -> the ids that exist at Cloudflare
  made,        \* Kinds -> how many were ever created
  allows,      \* policy -> the version (human) or the token (svc) it admits
  gate,        \* app -> its policies; {} until the PUT, which enables OAuth too
  rule,        \* tunnel -> the version of the rule for our hostname, or 0
  others,      \* tunnel -> the other hostnames with a rule
  extras,      \* tunnel -> are there rules without a hostname, or other settings?
  dns,         \* the record of our hostname
  tunnelFile,  \* whose connector token this host has, or 0
  svcFile,     \* whose secret this host has, or 0
  connector,   \* the tunnel that cloudflared serves, or 0
  run,         \* the command
  clean,       \* history: an apply completed, nothing asked for a change since
  orphaned     \* history: service tokens whose secret was never written

cloud == <<objects, made, allows, gate, rule, others, extras, dns>>
host == <<tunnelFile, svcFile, connector>>
vars == <<wanted, cloud, host, run, clean, orphaned>>

NoRun == [cmd |-> "none", pc |-> "idle", version |-> 0, app |-> 0, gate |-> {}, tunnel |-> 0, seen |-> {}, token |-> 0]

Policies == {"human", "svc"} \X Ids

\* A policy that somebody has attached to the application in the dashboard.
Theirs == <<"theirs", 0>>

TypeOK ==
  /\ wanted \in Versions
  /\ objects \in [Kinds -> SUBSET Ids] /\ made \in [Kinds -> 0..MaxMade]
  /\ \A k \in Kinds : objects[k] \subseteq 1..made[k]
  /\ allows \in [Policies -> Versions \cup {0} \cup Ids]
  /\ gate \in [Ids -> SUBSET (Policies \cup {Theirs})]
  /\ rule \in [Ids -> Versions \cup {0}] /\ others \in [Ids -> SUBSET Others]
  /\ extras \in [Ids -> BOOLEAN]
  /\ dns \in [type : {"none", "A", "CNAME"}, to : Ids \cup {0}]
  /\ {tunnelFile, svcFile, connector} \subseteq Ids \cup {0}
  /\ run.gate \subseteq Policies /\ run.seen \subseteq Others
  /\ clean \in BOOLEAN /\ orphaned \subseteq Ids

Init ==
  /\ wanted \in Versions
  /\ objects = [k \in Kinds |-> {}] /\ made = [k \in Kinds |-> 0]
  /\ allows = [p \in Policies |-> 0] /\ gate = [a \in Ids |-> {}]
  /\ rule = [t \in Ids |-> 0] /\ others = [t \in Ids |-> {}] /\ extras = [t \in Ids |-> FALSE]
  /\ dns \in {[type |-> "none", to |-> 0], [type |-> "A", to |-> 0], [type |-> "CNAME", to |-> 0]}
  /\ tunnelFile = 0 /\ svcFile = 0 /\ connector = 0
  /\ run = NoRun /\ clean = FALSE /\ orphaned = {}

At(cmd, pc) == run.cmd = cmd /\ run.pc = pc
Between == run.pc \in {"idle", "done"}
Finished(cmd) == [NoRun EXCEPT !.cmd = cmd, !.pc = "done"]

\* What a lookup by name finds: the first match of one page, 0 for none.
Found(k) == (IF objects[k] = {} THEN {0} ELSE objects[k]) \cup (IF Crowded THEN {0} ELSE {})

\* Create-or-reuse: the object that was found, else a new one.
Ensured(k, found, id) ==
  IF found # 0
  THEN id = found /\ UNCHANGED <<objects, made>>
  ELSE /\ made[k] < MaxMade /\ id = made[k] + 1
       /\ made' = [made EXCEPT ![k] = id]
       /\ objects' = [objects EXCEPT ![k] = @ \cup {id}]
------------------------------------------------------------------------------
(* People.                                                                 *)

EditsConfig ==
  /\ wanted' \in Versions \ {wanted}
  /\ clean' = FALSE
  /\ UNCHANGED <<cloud, host, run, orphaned>>

\* In the dashboard, at any time: a rule for another hostname.
AddsRule(t, o) ==
  /\ t \in objects["tunnel"] /\ o \notin others[t]
  /\ others' = [others EXCEPT ![t] = @ \cup {o}]
  /\ UNCHANGED <<wanted, objects, made, allows, gate, rule, extras, dns, host, run, clean, orphaned>>

\* A catch-all of their own, warp-routing, originRequest.
AddsSettings(t) ==
  /\ t \in objects["tunnel"] /\ ~extras[t]
  /\ extras' = [extras EXCEPT ![t] = TRUE]
  /\ UNCHANGED <<wanted, objects, made, allows, gate, rule, others, dns, host, run, clean, orphaned>>

AttachesPolicy(a) ==
  /\ a \in objects["app"] /\ Theirs \notin gate[a]
  /\ gate' = [gate EXCEPT ![a] = @ \cup {Theirs}]
  /\ UNCHANGED <<wanted, objects, made, allows, rule, others, extras, dns, host, run, clean, orphaned>>

\* To rotate the service token: delete it, run service-token again.
DeletesToken(i) ==
  /\ Between /\ i \in objects["token"]
  /\ objects' = [objects EXCEPT !["token"] = @ \ {i}]
  /\ orphaned' = orphaned \ {i} /\ run' = NoRun
  /\ UNCHANGED <<wanted, made, allows, gate, rule, others, extras, dns, host, clean>>

Uninstalls ==
  /\ connector # 0 /\ connector' = 0
  /\ UNCHANGED <<wanted, cloud, tunnelFile, svcFile, run, clean, orphaned>>
------------------------------------------------------------------------------
Begin(cmd, pc) ==
  /\ Between
  /\ run' = [NoRun EXCEPT !.cmd = cmd, !.pc = pc, !.version = IF cmd = "apply" THEN wanted ELSE 0]
  /\ clean' = (clean /\ cmd = "service-token")
  /\ UNCHANGED <<wanted, cloud, host, orphaned>>

Begins == \/ Begin("apply", "policy") \/ Begin("service-token", "token") \/ Begin("destroy", "app")

Stops ==
  /\ ~Between
  /\ orphaned' = IF At("service-token", "secret") THEN orphaned \cup {run.token} ELSE orphaned
  /\ run' = NoRun
  /\ UNCHANGED <<wanted, cloud, host, clean>>

\* Mutant: a policy that is found is left as it is.
LeftAsFound(p, found, whom) == IF found = 0 THEN [allows EXCEPT ![p] = whom] ELSE allows

\* Both policies are overwritten when they exist.
Admitting(p, found, whom) == [allows EXCEPT ![p] = whom]

\* ensure_email_policy
EnsurePolicy ==
  /\ At("apply", "policy")
  /\ \E found \in Found("human"), id \in Ids :
       /\ Ensured("human", found, id)
       /\ allows' = Admitting(<<"human", id>>, found, run.version)
       /\ run' = [run EXCEPT !.pc = "app", !.gate = {<<"human", id>>}]
  /\ UNCHANGED <<wanted, gate, rule, others, extras, dns, host, clean, orphaned>>

\* Mutant: the PUT of an apply names the human policy only.
HumanOnly(svc) == run.gate

\* A service policy of an earlier run is carried forward by apply.
CarriedForward(svc) == IF run.cmd = "apply" /\ svc # 0 THEN run.gate \cup {<<"svc", svc>>} ELSE run.gate

\* find_policy, and the first half of ensure_app: the POST.
EnsureApp ==
  /\ run.pc = "app" /\ run.cmd # "destroy"
  /\ \E svc \in Found("svc"), found \in Found("app"), id \in Ids :
       /\ Ensured("app", found, id)
       /\ run' = [run EXCEPT !.pc = "put", !.app = id, !.gate = CarriedForward(svc)]
  /\ UNCHANGED <<wanted, allows, gate, rule, others, extras, dns, host, clean, orphaned>>

\* What a PUT that names these policies attaches.
Attached(policies) == {policies} \cup (IF Attaches THEN {} ELSE {{}})

\* The full-body PUT: it drops whatever is not resent, and goes on when the answer
\* names no policy.
PutApp ==
  /\ run.pc = "put"
  /\ \E policies \in Attached(run.gate) : gate' = [gate EXCEPT ![run.app] = policies]
  /\ run' = IF run.cmd = "apply" THEN [run EXCEPT !.pc = "tunnel", !.app = 0, !.gate = {}]
                                 ELSE Finished(run.cmd)
  /\ UNCHANGED <<wanted, objects, made, allows, rule, others, extras, dns, host, clean, orphaned>>

\* Mutant: a tunnel of that name is not looked for.
NewTunnel == {0}

TunnelFound == Found("tunnel")

EnsureTunnel ==
  /\ At("apply", "tunnel")
  /\ \E found \in TunnelFound, id \in Ids :
       /\ Ensured("tunnel", found, id)
       /\ run' = [run EXCEPT !.pc = "rules", !.tunnel = id]
  /\ UNCHANGED <<wanted, allows, gate, rule, others, extras, dns, host, clean, orphaned>>

ReadRules ==
  /\ At("apply", "rules")
  /\ run' = [run EXCEPT !.pc = "ingress", !.seen = others[run.tunnel]]
  /\ UNCHANGED <<wanted, cloud, host, clean, orphaned>>

\* The whole configuration becomes the rules with a hostname that were read, the
\* script's own and its catch-all.
PutRules ==
  /\ At("apply", "ingress")
  /\ rule' = [rule EXCEPT ![run.tunnel] = run.version]
  /\ others' = [others EXCEPT ![run.tunnel] = run.seen]
  /\ extras' = [extras EXCEPT ![run.tunnel] = FALSE]
  /\ run' = [run EXCEPT !.pc = "dns"]
  /\ UNCHANGED <<wanted, objects, made, allows, gate, dns, host, clean, orphaned>>

\* Any CNAME is repointed; an address record stops the command.
EnsureDns ==
  /\ At("apply", "dns") /\ dns.type # "A"
  /\ dns' = [type |-> "CNAME", to |-> run.tunnel]
  /\ run' = [run EXCEPT !.pc = "token"]
  /\ UNCHANGED <<wanted, objects, made, allows, gate, rule, others, extras, host, clean, orphaned>>

SaveTunnelToken ==
  /\ At("apply", "token")
  /\ tunnelFile' = run.tunnel /\ clean' = (run.version = wanted)
  /\ run' = Finished("apply")
  /\ UNCHANGED <<wanted, cloud, svcFile, connector, orphaned>>

\* An installed service keeps its token: a second install is refused.
Connector ==
  /\ Between /\ tunnelFile # 0
  /\ connector' = IF connector = 0 THEN tunnelFile ELSE connector
  /\ UNCHANGED <<wanted, cloud, tunnelFile, svcFile, run, clean, orphaned>>

\* The secret is in the answer to the POST and can never be fetched again.
EnsureToken ==
  /\ At("service-token", "token")
  /\ \E found \in Found("token"), id \in Ids :
       /\ Ensured("token", found, id)
       /\ run' = [run EXCEPT !.pc = IF found = 0 THEN "secret" ELSE "svc", !.token = id]
  /\ UNCHANGED <<wanted, allows, gate, rule, others, extras, dns, host, clean, orphaned>>

SaveSecret ==
  /\ At("service-token", "secret")
  /\ svcFile' = run.token /\ run' = [run EXCEPT !.pc = "svc"]
  /\ UNCHANGED <<wanted, cloud, tunnelFile, connector, clean, orphaned>>

\* Mutant: the PUT names the policy of the token only.
ServiceOnly(svc, human) == {<<"svc", svc>>}

Reattached(svc, human) == {<<"svc", svc>>, <<"human", human>>}

\* The policy of the token; without a human policy the command dies after it.
EnsureSvcPolicy ==
  /\ At("service-token", "svc")
  /\ \E found \in Found("svc"), human \in Found("human"), id \in Ids :
       /\ Ensured("svc", found, id)
       /\ allows' = Admitting(<<"svc", id>>, found, run.token)
       /\ run' = IF human = 0 THEN NoRun
                 ELSE [run EXCEPT !.pc = "app", !.gate = Reattached(id, human)]
  /\ UNCHANGED <<wanted, gate, rule, others, extras, dns, host, clean, orphaned>>

DestroyApp ==
  /\ At("destroy", "app")
  /\ \E found \in Found("app") :
       /\ objects' = [objects EXCEPT !["app"] = @ \ {found}]
       /\ gate' = [a \in Ids |-> IF a = found THEN {} ELSE gate[a]]
  /\ run' = [run EXCEPT !.pc = "dns"]
  /\ UNCHANGED <<wanted, made, allows, rule, others, extras, dns, host, clean, orphaned>>

DestroyDns ==
  /\ At("destroy", "dns")
  /\ dns' = IF dns.to # 0 THEN [type |-> "none", to |-> 0] ELSE dns
  /\ run' = [run EXCEPT !.pc = "tunnel"]
  /\ UNCHANGED <<wanted, objects, made, allows, gate, rule, others, extras, host, clean, orphaned>>

\* The tunnel goes with every rule in it.  One that cannot be deleted (its
\* connector runs) is only warned about.
DestroyTunnel ==
  /\ At("destroy", "tunnel")
  /\ \E found \in Found("tunnel") :
       \/ /\ objects' = [objects EXCEPT !["tunnel"] = @ \ {found}]
          /\ rule' = [t \in Ids |-> IF t = found THEN 0 ELSE rule[t]]
          /\ others' = [t \in Ids |-> IF t = found THEN {} ELSE others[t]]
          /\ extras' = [t \in Ids |-> t # found /\ extras[t]]
       \/ UNCHANGED <<objects, rule, others, extras>>
  /\ run' = Finished("destroy")
  /\ UNCHANGED <<wanted, made, allows, gate, dns, host, clean, orphaned>>

Apply == EnsurePolicy \/ EnsureTunnel \/ ReadRules \/ PutRules \/ EnsureDns \/ SaveTunnelToken
ServiceToken == EnsureToken \/ SaveSecret \/ EnsureSvcPolicy
Destroy == DestroyApp \/ DestroyDns \/ DestroyTunnel
People == \/ EditsConfig \/ Uninstalls \/ \E i \in Ids : DeletesToken(i)
          \/ \E t \in Ids, o \in Others : AddsRule(t, o)
          \/ \E t \in Ids : AddsSettings(t)
          \/ \E a \in Ids : AttachesPolicy(a)

Next == People \/ Begins \/ Stops \/ Connector \/ EnsureApp \/ PutApp \/ Apply \/ ServiceToken \/ Destroy

Spec == Init /\ [][Next]_vars
------------------------------------------------------------------------------
Gated == \E a \in objects["app"] : \E p \in gate[a] : p[1] = "human"
Open == dns.to \in objects["tunnel"] /\ rule[dns.to] # 0

\* "The gate exists before the hostname resolves": outside destroy no step of
\* any command, first run or re-run, opens the hostname without the
\* application and its policy, or takes these away from an open one.
GateBeforeDoor == [][run.cmd # "destroy" /\ (Open => Gated) => (Open' => Gated')]_vars

\* "Re-running reconciles rather than duplicating": whatever stopped earlier
\* runs, and wherever, nothing exists twice.  Every variable stays in its range.
OneOfEach == TypeOK /\ \A k \in Kinds : Cardinality(objects[k]) <= 1

\* When apply has completed, cloud and host are what cfzt.env says until it is
\* edited or another apply or destroy begins, whatever state earlier runs had
\* left; and a service-token run that has completed left a policy that admits
\* the token it found or made, on the application.
Applied ==
  \E h, a, t \in Ids :
    /\ objects["human"] = {h} /\ allows[<<"human", h>>] = wanted
    /\ objects["app"] = {a} /\ <<"human", h>> \in gate[a]
    /\ objects["tunnel"] = {t} /\ rule[t] = wanted /\ dns = [type |-> "CNAME", to |-> t] /\ tunnelFile = t

Admitted ==
  \E s, a, i \in Ids : /\ objects["svc"] = {s} /\ objects["app"] = {a} /\ <<"svc", s>> \in gate[a]
                       /\ objects["token"] = {i} /\ allows[<<"svc", s>>] = i
                       /\ svcFile = i \/ i \in orphaned

CompletedMeansReconciled ==
  /\ clean => Applied
  /\ At("service-token", "done") => Admitted

\* Outside destroy, a service policy stays on its application through the PUT that
\* replaces all policies, and another hostname's rule stays through the PUT that
\* replaces all rules, unless it was added between apply's GET and that PUT.
TheRestIsKept ==
  [][run.cmd # "destroy" =>
      /\ \A a \in objects["app"], s \in objects["svc"] :
            <<"svc", s>> \in gate[a] => <<"svc", s>> \in gate'[a]
      /\ \A t \in objects["tunnel"] :
            others[t] \ others'[t] \subseteq others[t] \ run.seen]_vars

------------------------------------------------------------------------------
(* Stated without their exceptions; the README says where they fail.       *)

\* "Nothing is deleted unless you ask for `destroy`": what others have added to the
\* application and to the tunnel's configuration stays.
OthersAreLeftAlone ==
  [][run.cmd # "destroy" =>
      /\ \A a \in objects["app"] : Theirs \in gate[a] => Theirs \in gate'[a]
      /\ \A t \in objects["tunnel"] : others[t] \subseteq others'[t] /\ (extras[t] => extras'[t])]_vars

\* "destroy: remove what this script created", and no rule of another hostname.
DestroySparesOthers ==
  [][run.cmd = "destroy" => \A t \in Ids : others[t] \subseteq others'[t]]_vars

\* A completed service-token run leaves the secret of its token on this host.
SecretIsKept == At("service-token", "done") => svcFile \in objects["token"]

\* After apply and connector, cloudflared serves the tunnel of the hostname.
ConnectorServesDoor == clean /\ connector # 0 => connector = dns.to

\* The hostname never resolves to an endpoint without the application.
DoorIsGated == Open => Gated
==============================================================================
