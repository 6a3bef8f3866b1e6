----------------------------- MODULE RuleManager -----------------------------
(***************************************************************************)
(* Setting and removing a job's TBF rules on the OSSs behind its OSTs      *)
(* (src/common/RuleManager.cpp, SSHRuleSetter.cpp, util.h), and the rules  *)
(* the OSSs then have.  SetRules and RemoveRules send one ssh command per  *)
(* OSS in parallel and wait for all of them.                               *)
(***************************************************************************)
EXTENDS JobTypes

CONSTANTS
  Ips,        \* the OSSs, by address
  IpOf,       \* OST -> address of its OSS, what OstIdsConverter and OstIpsCache find
  Faults      \* the failures that may happen, of those below

\* lookup: an OST's address is not found.   exec: popen fails, the command is
\* not sent and the call returns false.   remote: ssh or lctl fails on its way;
\* exec() drops the exit status, so the call returns true all the same.
FaultKind == {"lookup", "exec", "remote"}

ASSUME FaultsAssumption == Faults \subseteq FaultKind
ASSUME IpOfAssumption   == IpOf \in [Osts -> Ips]

VARIABLES
  active_rules,   \* active_rules_: job -> OSSs of its rule, {} where no entry
  oss_rules       \* OSS -> job -> rate of the rule with that job's name, or Null

RulesTypeOK == /\ active_rules \in [JobIds -> SUBSET Ips]
               /\ oss_rules \in [Ips -> [JobIds -> Mbs \cup {Null}]]

RulesInit == /\ active_rules = [j \in JobIds |-> {}]
             /\ oss_rules = [ip \in Ips |-> [j \in JobIds |-> Null]]

IpsOf(osts) == {IpOf[o] : o \in osts}

\* Plausible bug: the rate of an OSS is overwritten where it should be added to.
RateOfOne(osts, mbs, ip) == mbs

\* min_throughput_mbs is per OST, a rule is per OSS: the rate is summed up (in
\* uint32_t) over the job's OSTs behind the OSS.
Rate(osts, mbs, ip) == (mbs * Cardinality({o \in osts : IpOf[o] = ip})) % UintMod

\* The sets of commands to the OSSs in ips that may suffer one of these faults.
Hit(ips, kinds) == IF kinds \cap Faults = {} THEN {{}} ELSE SUBSET ips

\* lctl stop on the OSSs in ips, of which those in kept are not reached.
StopRule(rules, id, ips, kept) ==
  [ip \in Ips |-> IF ip \in ips \ kept THEN [rules[ip] EXCEPT ![id] = Null] ELSE rules[ip]]

\* lctl start; a rule of that name that exists already stays as it is.
StartRule(rules, id, osts, mbs, lost) ==
  [ip \in Ips |-> IF ip \in IpsOf(osts) \ lost /\ rules[ip][id] = Null
                  THEN [rules[ip] EXCEPT ![id] = Rate(osts, mbs, ip)] ELSE rules[ip]]

\* SetRulesAsync, returning ok: where SetRule returned false (failed), the rule
\* is removed again; where it returned true, the rule stays whatever ok is.
SetRulesAsync(id, osts, mbs, ok) ==
  \E failed \in Hit(IpsOf(osts), {"exec"}) :
  \E lost \in Hit(IpsOf(osts), {"remote"}) :
  \E kept \in Hit(failed, {"exec", "remote"}) :
     /\ ok = (failed = {})
     /\ oss_rules' = StopRule(StartRule(oss_rules, id, osts, mbs, failed \cup lost),
                              id, failed, kept)

\* SetRules has work to do; determineOstIps finds every address.
SetRulesProceeds(osts, found) == osts # {} /\ ~found
IpsFound == IF "lookup" \in Faults THEN BOOLEAN ELSE {TRUE}

InsertRules(id, osts) == active_rules' = [active_rules EXCEPT ![id] = IpsOf(osts)]

\* Plausible bug: the command goes to one of the rule's OSSs only.
RemoveRulesFromOne(id) ==
  LET ip == CHOOSE x \in active_rules[id] : TRUE
  IN  oss_rules' = StopRule(oss_rules, id, {ip}, {})

RemoveRulesAsync(id) ==
  \E kept \in Hit(active_rules[id], {"exec", "remote"}) :
     oss_rules' = StopRule(oss_rules, id, active_rules[id], kept)

EraseRules(id) == active_rules' = [active_rules EXCEPT ![id] = {}]

HasRules(id) == active_rules[id] # {}

RemoveRules(id) == HasRules(id) /\ RemoveRulesAsync(id) /\ EraseRules(id)

-----------------------------------------------------------------------------
\* What the manager remembers is really there: every OSS in a job's
\* RuleDefinition has the job's rule, also after calls whose commands failed to
\* be sent (SetRulesAsync returning cleanup_tasks.empty(), RemoveRules erasing
\* the definition last).
TrackedRulesInstalled ==
  \A j \in JobIds : \A ip \in active_rules[j] : oss_rules[ip][j] # Null
=============================================================================
