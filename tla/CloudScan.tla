----------------------------- MODULE CloudScan -----------------------------
(***************************************************************************)
(* pkg/cloud: calls of AssumeRoleAndScan on one CloudScanner, each under a *)
(* role of another customer's account.  The scanner's configuration has    *)
(* the platform's credentials and never changes; a call works under a copy *)
(* that has the role's.  Both listings drop their errors.                  *)
(***************************************************************************)
CONSTANTS Scans, Roles, NoRole, Own

ASSUME CloudAssumption == Own \notin Roles /\ NoRole \notin Roles \union {Own}

VARIABLES
  stage,               \* per call: how far it is
  role,                \* per call: the roleArn it was given, or NoRole for ""
  temp,                \* per call: whose credentials tempCfg, once it is there, has
  instances, buckets,  \* per call: whose resources the inventory lists
  broken,              \* per call: the listings whose errors were dropped
  result               \* per call: what it returned

inventory == <<instances, buckets>>
cloudVars == <<stage, role, temp, inventory, broken, result>>

Accounts == Roles \union {Own}

CloudTypeOK ==
  /\ stage \in [Scans -> {"idle", "assume", "ec2", "s3", "done"}]
  /\ role \in [Scans -> Roles \union {NoRole}]
  /\ temp \in [Scans -> Accounts]
  /\ instances \in [Scans -> SUBSET Accounts] /\ buckets \in [Scans -> SUBSET Accounts]
  /\ broken \in [Scans -> SUBSET {"ec2", "s3"}]
  /\ result \in [Scans -> {"none", "error", "inventory"}]

CloudInit ==
  /\ stage = [c \in Scans |-> "idle"]
  /\ role = [c \in Scans |-> NoRole]
  /\ temp = [c \in Scans |-> Own]
  /\ instances = [c \in Scans |-> {}] /\ buckets = [c \in Scans |-> {}]
  /\ broken = [c \in Scans |-> {}]
  /\ result = [c \in Scans |-> "none"]

To(c, s) == stage' = [stage EXCEPT ![c] = s]
Returns(c, what) == To(c, "done") /\ result' = [result EXCEPT ![c] = what]

-----------------------------------------------------------------------------
\* An empty roleArn or externalID is refused before anything is sent.
Call(c, r) ==
  /\ stage[c] = "idle"
  /\ role' = [role EXCEPT ![c] = r]
  /\ IF r = NoRole THEN Returns(c, "error")
     ELSE To(c, "assume") /\ UNCHANGED result
  /\ UNCHANGED <<temp, inventory, broken>>

\* STS, called under the base credentials, refuses, or answers without any.
AssumeRoleFails(c) ==
  /\ stage[c] = "assume"
  /\ Returns(c, "error")
  /\ UNCHANGED <<role, temp, inventory, broken>>

\* Mutant: tempCfg is a field of the scanner, where every call finds it.
AssumeRoleShared(c) ==
  /\ stage[c] = "assume"
  /\ temp' = [d \in Scans |-> role[c]]
  /\ To(c, "ec2")
  /\ UNCHANGED <<role, inventory, broken, result>>

\* baseCfg.Copy leaves c.baseCfg with the credentials it had.
AssumeRole(c) ==
  /\ stage[c] = "assume"
  /\ temp' = [temp EXCEPT ![c] = role[c]]
  /\ To(c, "ec2")
  /\ UNCHANGED <<role, inventory, broken, result>>

Breaks(c, half) == broken' = [broken EXCEPT ![c] = @ \union {half}]

\* An account whose listing is one page: the code asks for no second one.
DescribeInstances(c) ==
  /\ stage[c] = "ec2"
  /\ To(c, "s3")
  /\ \/ instances' = [instances EXCEPT ![c] = @ \union {temp[c]}] /\ UNCHANGED broken
     \/ Breaks(c, "ec2") /\ UNCHANGED instances
  /\ UNCHANGED <<role, temp, buckets, result>>

ListBuckets(c) ==
  /\ stage[c] = "s3"
  /\ Returns(c, "inventory")
  /\ \/ buckets' = [buckets EXCEPT ![c] = @ \union {temp[c]}] /\ UNCHANGED broken
     \/ Breaks(c, "s3") /\ UNCHANGED buckets
  /\ UNCHANGED <<role, temp, instances>>

CloudNext ==
  \E c \in Scans :
    \/ \E r \in Roles \union {NoRole} : Call(c, r)
    \/ AssumeRole(c) \/ AssumeRoleFails(c)
    \/ DescribeInstances(c) \/ ListBuckets(c)

CloudSpec == CloudInit /\ [][CloudNext]_cloudVars

-----------------------------------------------------------------------------
(* Properties.                                                             *)

Half(listed, c, name) == listed = IF name \in broken[c] THEN {} ELSE {role[c]}

\* Calls on one scanner may overlap, and never see each other's accounts or
\* the platform's own: an inventory lists the account of its role, and a half
\* of it is empty only if the call for that half failed.  A nil error says no
\* more than that.
InventoryIsRoles ==
  \A c \in Scans : result[c] = "inventory" =>
    Half(instances[c], c, "ec2") /\ Half(buckets[c], c, "s3")

-----------------------------------------------------------------------------
(* An inductive invariant.                                                 *)

Under(c) ==
  /\ stage[c] \in {"assume", "ec2", "s3"} => role[c] \in Roles
  /\ stage[c] \in {"ec2", "s3"} => temp[c] = role[c]

\* What a listing has found so far, at each stage.
Found(c) ==
  /\ stage[c] \in {"idle", "assume", "ec2"} =>
       instances[c] = {} /\ "ec2" \notin broken[c]
  /\ stage[c] \in {"idle", "assume", "ec2", "s3"} =>
       buckets[c] = {} /\ "s3" \notin broken[c] /\ result[c] = "none"
  /\ stage[c] = "s3" => Half(instances[c], c, "ec2")

Lists(c) == result[c] = "inventory" =>
  Half(instances[c], c, "ec2") /\ Half(buckets[c], c, "s3")

Sound(c) == Under(c) /\ Found(c) /\ Lists(c)

CloudInv == CloudTypeOK /\ \A c \in Scans : Sound(c)
=============================================================================
