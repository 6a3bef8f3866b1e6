--------------------------- MODULE OstRulesProofs ---------------------------
(***************************************************************************)
(* Proofs about the rule manager and its caches, for every Lustre, every   *)
(* file and every way in which lookups and commands fail.                  *)
(***************************************************************************)
EXTENDS OstRules, FiniteSetTheorems, TLAPS

\* The addresses found for a file's OSTs, each at an OSS or not found.
Found == [Osts -> Ips \cup {NoIp}]

-----------------------------------------------------------------------------
(* Rules at the addresses that were found.                                 *)

\* A rate is a uint32_t wherever the rules are set, and the sum if that is one.
LEMMA RateAtSum ==
  ASSUME NEW ip, NEW osts \in SUBSET Osts, NEW mbs \in Mbs, NEW a \in Ips
  PROVE  /\ At(ip)!Rate(osts, mbs, a) \in Mbs
         /\ mbs * Cardinality({o \in osts : ip[o] = a}) < UintMod =>
              At(ip)!Rate(osts, mbs, a) = mbs * Cardinality({o \in osts : ip[o] = a})
<1> DEFINE behind == {o \in osts : ip[o] = a}
<1>1. behind \in SUBSET Osts
  OBVIOUS
<1>2. Cardinality(behind) \in Nat
  BY <1>1, OstsAssumption, FS_Subset, FS_CardinalityType
<1>3. \A i, j \in Nat : i * j \in Nat
  OBVIOUS
<1>4. mbs * Cardinality(behind) \in Nat
  BY <1>2, <1>3, UintAssumption DEF Mbs
<1>5. \A n \in Nat : n % UintMod \in 0 .. UintMod - 1
  BY UintAssumption
<1>6. At(ip)!Rate(osts, mbs, a) = (mbs * Cardinality(behind)) % UintMod
  BY DEF At!Rate, At!Cardinality, Cardinality
<1>7. \A n \in Nat : n < UintMod => n % UintMod = n
  BY UintAssumption
<1> QED
  BY <1>4, <1>5, <1>6, <1>7 DEF Mbs

\* The first half of it.
LEMMA RateAtType ==
  ASSUME NEW ip, NEW osts \in SUBSET Osts, NEW mbs \in Mbs, NEW a \in Ips
  PROVE  At(ip)!Rate(osts, mbs, a) \in Mbs
BY RateAtSum

\* Setting rules at the addresses found keeps the type of the OSSs' rules.
LEMMA SetAtType ==
  ASSUME RulesTypeOK, NEW ip, NEW id \in JobIds, NEW osts \in SUBSET Osts,
         NEW mbs \in Mbs, NEW ok, At(ip)!SetRulesAsync(id, osts, mbs, ok)
  PROVE  oss_rules' \in [Ips -> [JobIds -> Mbs \cup {Null}]]
<1>1. PICK failed, lost, kept :
        oss_rules' = At(ip)!StopRule(At(ip)!StartRule(oss_rules, id, osts, mbs, failed \cup lost),
                                     id, failed, kept)
  BY DEF At!SetRulesAsync
<1>2. At(ip)!StartRule(oss_rules, id, osts, mbs, failed \cup lost)
        \in [Ips -> [JobIds -> Mbs \cup {Null}]]
  BY RateAtType DEF At!StartRule, RulesTypeOK
<1> QED
  BY <1>1, <1>2 DEF At!StopRule

\* It leaves the rules of the other jobs, and a call that succeeds has set its
\* own on every OSS, if the commands that were sent have arrived.
LEMMA SetAtInstalls ==
  ASSUME RulesTypeOK, "remote" \notin Faults,
         NEW ip, NEW id \in JobIds, NEW osts \in SUBSET Osts, NEW mbs \in Mbs,
         NEW ok, At(ip)!SetRulesAsync(id, osts, mbs, ok)
  PROVE  /\ \A j \in JobIds \ {id}, a \in Ips : oss_rules'[a][j] = oss_rules[a][j]
         /\ ok = TRUE => \A o \in osts, a \in Ips : a = ip[o] => oss_rules'[a][id] # Null
<1>1. PICK failed, lost, kept :
        /\ lost \in At(ip)!Hit(At(ip)!IpsOf(osts), {"remote"})
        /\ ok = (failed = {})
        /\ oss_rules' = At(ip)!StopRule(At(ip)!StartRule(oss_rules, id, osts, mbs, failed \cup lost),
                                        id, failed, kept)
  BY DEF At!SetRulesAsync
<1>2. lost = {}
  BY <1>1 DEF At!Hit
<1>3. \A j \in JobIds \ {id}, a \in Ips : oss_rules'[a][j] = oss_rules[a][j]
  BY <1>1 DEF At!StopRule, At!StartRule, RulesTypeOK
<1>4. ASSUME ok = TRUE, NEW o \in osts, NEW a \in Ips, a = ip[o]
      PROVE  oss_rules'[a][id] # Null
  <2>1. a \in At(ip)!IpsOf(osts) \ (failed \cup lost)
    BY <1>1, <1>2, <1>4 DEF At!IpsOf
  <2>2. At(ip)!Rate(osts, mbs, a) # Null
    BY RateAtType, NullAssumption
  <2>3. At(ip)!StartRule(oss_rules, id, osts, mbs, failed \cup lost)[a][id] # Null
    BY <2>1, <2>2 DEF At!StartRule, RulesTypeOK
  <2> QED
    BY <1>1, <1>4, <2>3 DEF At!StopRule
<1> QED
  BY <1>3, <1>4

-----------------------------------------------------------------------------
(* The lookups.                                                            *)

\* What a call of SetRules has found so far: it is about a job without rules,
\* and each OST that was looked up has an address of its own that is cached,
\* unless an address was asked for the empty uuid.
FindingInv ==
  finding # Null =>
    /\ finding.todo \subseteq finding.osts
    /\ finding.osts = ParseOstsFromGetStripe(finding.request.stripe)
    /\ active_rules[finding.id] = {}
    /\ \A o \in finding.osts \ finding.todo :
         /\ finding.ip[o] \in Ips
         /\ finding.id \notin astray => /\ finding.ip[o] \in OldHomes(o)
                                       /\ uuid_to_ip[UuidOf[o]] # Null

LookupInv == TypeOK /\ FindingInv /\ CachedAddressesOwn

\* The empty uuid is none of an OST, no two OSTs have the same.
LEMMA UuidFacts ==
  /\ \A o \in Osts : UuidOf[o] \in Uuids /\ UuidOf[o] # NoUuid
  /\ \A o \in Osts : listed \subseteq Osts => Asked(UuidOf[o]) \subseteq {o}
BY UuidAssumption DEF Uuids, Asked

\* What a command printed, and whether it could be run.
LEMMA PopenRecord ==
  ASSUME NEW outputs, NEW answer \in Popen(outputs)
  PROVE  /\ answer.ok \in BOOLEAN /\ answer = [ok |-> answer.ok, out |-> answer.out]
         /\ answer.ok \/ answer.out = {}
<1>1. \/ \E out \in outputs : answer = [ok |-> TRUE, out |-> out]
      \/ answer = [ok |-> FALSE, out |-> {}]
  BY DEF Popen
<1>2. CASE \E out \in outputs : answer = [ok |-> TRUE, out |-> out]
  BY <1>2
<1>3. CASE answer = [ok |-> FALSE, out |-> {}]
  BY <1>3
<1> QED
  BY <1>1, <1>2, <1>3

\* An OST's old homes are some of those it may have.
LEMMA OldHomesOwn ==
  ASSUME TypeOK, NEW o \in Osts
  PROVE  home[o] \in OldHomes(o) /\ OldHomes(o) \subseteq Homes[o] /\ OldHomes(o) \subseteq Ips
BY AddressesAssumption DEF OldHomes, TypeOK

\* lctl prints an address of an OSS, the one that serves the OST if it was asked
\* for that, or nothing.
LEMMA AnswerOwn ==
  ASSUME TypeOK, NEW uuid \in Uuids \cup {NoUuid}, NEW answer \in GetIPOfOst(uuid, home)
  PROVE  /\ Address(answer.out) \in Ips \cup {NoIp}
         /\ \A o \in Osts : uuid = UuidOf[o] =>
              \/ Address(answer.out) = home[o]
              \/ answer.out = {} /\ Address(answer.out) = NoIp
         /\ answer.out = {} => Address(answer.out) = NoIp
<1> DEFINE addresses == {home[o] : o \in Asked(uuid)}
<1>1. answer.out = {} \/ \E a \in addresses : answer.out = {a}
  BY DEF GetIPOfOst, Popen
<1>2. \A a : Address({a}) = a
  BY DEF Address
<1>3. Address({}) = NoIp
  BY DEF Address
<1>4. addresses \subseteq Ips
  BY DEF Asked, TypeOK
<1>5. \A o \in Osts : uuid = UuidOf[o] => addresses \subseteq {home[o]}
  BY UuidFacts DEF TypeOK
<1> QED
  BY <1>1, <1>2, <1>3, <1>4, <1>5

\* A lookup keeps the type of the cache and what the cache may hold, forgets
\* nothing, and returns what the cache then holds, or nothing.
LEMMA GetIpOwn ==
  ASSUME TypeOK, CachedAddressesOwn, UNCHANGED <<home, moved>>,
         NEW uuid \in Uuids \cup {NoUuid}, NEW ip, GetIp(uuid, ip)
  PROVE  /\ uuid_to_ip' \in [Uuids \cup {NoUuid} -> Ips \cup {NoIp, Null}]
         /\ unanswered' \subseteq Uuids \cup {NoUuid}
         /\ CachedAddressesOwn'
         /\ ip \in Ips \cup {NoIp}
         /\ \A o \in Osts : uuid = UuidOf[o] => ip \in OldHomes(o) \cup {NoIp}
         /\ \A u \in Uuids \cup {NoUuid} : uuid_to_ip[u] # Null => uuid_to_ip'[u] # Null
         /\ ip # NoIp => uuid_to_ip'[uuid] # Null
<1> USE DEF TypeOK, CachedAddressesOwn
<1>0. \A o \in Osts : OldHomes(o)' = OldHomes(o)
  BY DEF OldHomes
<1>1. CASE uuid_to_ip[uuid] # Null
  <2>1. ip = uuid_to_ip[uuid] /\ UNCHANGED <<uuid_to_ip, unanswered>>
    BY <1>1 DEF GetIp
  <2> QED
    BY <1>0, <1>1, <2>1
<1>2. CASE uuid_to_ip[uuid] = Null
  <2>1. PICK answer \in GetIPOfOst(uuid, home) :
          /\ ip = Address(answer.out)
          /\ uuid_to_ip' = IF answer.ok THEN [uuid_to_ip EXCEPT ![uuid] = ip] ELSE uuid_to_ip
          /\ unanswered' = unanswered \cup {u \in {uuid} : answer = [ok |-> TRUE, out |-> {}]}
    BY <1>2 DEF GetIp, Caches
  <2>2. /\ ip \in Ips \cup {NoIp}
        /\ \A o \in Osts : uuid = UuidOf[o] => ip = home[o] \/ (answer.out = {} /\ ip = NoIp)
        /\ answer.out = {} => ip = NoIp
    BY <2>1, AnswerOwn
  <2>3. /\ answer.ok /\ answer.out = {} => uuid \in unanswered'
        /\ answer.ok \/ answer.out = {}
    <3>1. /\ answer = [ok |-> answer.ok, out |-> answer.out] /\ answer.ok \in BOOLEAN
          /\ answer.ok \/ answer.out = {}
      BY PopenRecord DEF GetIPOfOst
    <3> QED
      BY <2>1, <3>1
  <2>4. ASSUME NEW o \in Osts
        PROVE  LET a == uuid_to_ip'[UuidOf[o]]
               IN  a \in OldHomes(o)' \cup {Null} \/ (a = NoIp /\ UuidOf[o] \in unanswered')
    <3>1. CASE UuidOf[o] = uuid /\ answer.ok
      BY <1>0, <2>1, <2>2, <2>3, <3>1, OldHomesOwn
    <3>2. CASE UuidOf[o] # uuid \/ ~answer.ok
      <4>1. uuid_to_ip'[UuidOf[o]] = uuid_to_ip[UuidOf[o]]
        BY <2>1, <3>2, UuidFacts
      <4> QED
        BY <1>0, <2>1, <4>1
    <3> QED
      BY <3>1, <3>2
  <2>5. /\ \A u \in Uuids \cup {NoUuid} : uuid_to_ip[u] # Null => uuid_to_ip'[u] # Null
        /\ ip # NoIp => uuid_to_ip'[uuid] # Null
    BY <1>2, <2>1, <2>2, <2>3, AddressesAssumption
  <2>6. \A o \in Osts : uuid = UuidOf[o] => ip \in OldHomes(o) \cup {NoIp}
    BY <2>2, OldHomesOwn
  <2> QED
    BY <2>1, <2>2, <2>4, <2>5, <2>6
<1> QED
  BY <1>1, <1>2

\* A lookup of an OST number: the list lfs prints may take its place, and the
\* uuid is the OST's own, or empty.
LEMMA ToUUIDOwn ==
  ASSUME TypeOK, NEW o \in Osts, NEW uuid, ToUUID(o, uuid)
  PROVE  id_to_uuid' \subseteq Osts /\ uuid \in {UuidOf[o], NoUuid}
<1>1. \A answer \in GetOstList : answer.out \subseteq Osts
  BY DEF TypeOK, GetOstList, Popen
<1> QED
  BY <1>1 DEF ToUUID, UpdateCache, Means, TypeOK

-----------------------------------------------------------------------------
(* The steps.                                                              *)

\* A call of SetRules begins for a job that has no rules.
LEMMA BeginsStep ==
  ASSUME LookupInv, NEW id \in JobIds, NEW request \in Requests, SetRulesBegins(id, request)
  PROVE  LookupInv'
<1> USE DEF LookupInv, SetRulesBegins, rulesVars, cacheVars, lustreVars
<1> DEFINE osts == ParseOstsFromGetStripe(request.stripe)
<1>1. finding' = [id |-> id, request |-> request, todo |-> osts,
                  osts |-> osts, ip |-> [o \in Osts |-> NoIp]]
  OBVIOUS
<1>2. osts \in SUBSET Osts
  OBVIOUS
<1>3. finding' \in Finding
  BY <1>1, <1>2 DEF Finding
<1>4. active_rules[id] = {}
  BY DEF SetRulesProceeds, HasRules
<1>5. FindingInv'
  BY <1>1, <1>4 DEF FindingInv
<1>6. TypeOK'
  BY <1>3 DEF TypeOK, RulesTypeOK
<1> QED
  BY <1>5, <1>6 DEF CachedAddressesOwn, OldHomes

\* An address is found, or the call is given up.
LEMMA FindIpStep ==
  ASSUME LookupInv, NEW o \in Osts, FindIp(o)
  PROVE  LookupInv'
<1> USE DEF LookupInv
<1>1. PICK uuid \in Uuids \cup {NoUuid}, ip \in Ips \cup {NoIp} :
        /\ ToUUID(o, uuid) /\ GetIp(uuid, ip)
        /\ finding' = IF ip # NoIp THEN [finding EXCEPT !.todo = @ \ {o}, !.ip[o] = ip] ELSE Null
        /\ astray' = IF uuid = NoUuid THEN astray \cup {finding.id} ELSE astray
  BY DEF FindIp
<1>2. /\ finding # Null /\ finding \in Finding /\ UNCHANGED <<rulesVars, lustreVars>>
  BY DEF FindIp, TypeOK
<1>3. id_to_uuid' \subseteq Osts /\ uuid \in {UuidOf[o], NoUuid}
  BY <1>1, ToUUIDOwn
<1>4. /\ uuid_to_ip' \in [Uuids \cup {NoUuid} -> Ips \cup {NoIp, Null}]
      /\ unanswered' \subseteq Uuids \cup {NoUuid}
      /\ CachedAddressesOwn'
      /\ uuid = UuidOf[o] => ip \in OldHomes(o) \cup {NoIp}
      /\ \A u \in Uuids \cup {NoUuid} : uuid_to_ip[u] # Null => uuid_to_ip'[u] # Null
      /\ ip # NoIp => uuid_to_ip'[uuid] # Null
  BY <1>1, <1>2, GetIpOwn DEF lustreVars
<1>5. finding' \in Finding \cup {Null}
  BY <1>1, <1>2 DEF Finding
<1>6. TypeOK'
  BY <1>1, <1>2, <1>3, <1>4, <1>5 DEF TypeOK, RulesTypeOK, rulesVars, lustreVars, Finding
<1>7. CASE ip # NoIp
  <2>1. /\ finding'.id = finding.id /\ finding'.osts = finding.osts
        /\ finding'.request = finding.request /\ finding'.todo = finding.todo \ {o}
        /\ finding'.ip = [finding.ip EXCEPT ![o] = ip]
    BY <1>1, <1>2, <1>7 DEF Finding
  <2>2. finding.ip \in [Osts -> Ips \cup {NoIp}] /\ finding.osts \subseteq Osts
    BY <1>2 DEF Finding
  <2>3. \A p \in finding'.osts \ finding'.todo :
          /\ finding'.ip[p] \in Ips
          /\ finding'.id \notin astray' => /\ finding'.ip[p] \in OldHomes(p)
                                           /\ uuid_to_ip'[UuidOf[p]] # Null
    BY <1>1, <1>2, <1>3, <1>4, <1>7, <2>1, <2>2, UuidFacts DEF FindingInv
  <2>4. \A p \in Osts : OldHomes(p)' = OldHomes(p)
    BY <1>2 DEF OldHomes, lustreVars
  <2> QED
    BY <1>2, <1>4, <1>6, <2>1, <2>2, <2>3, <2>4 DEF FindingInv, rulesVars
<1>8. CASE ip = NoIp
  BY <1>1, <1>4, <1>6, <1>8 DEF FindingInv
<1> QED
  BY <1>7, <1>8

\* The rules are set on the OSSs found, and registered if that succeeded.
LEMMA EndsStep ==
  ASSUME LookupInv, SetRulesEnds
  PROVE  LookupInv'
<1> USE DEF LookupInv
<1>1. PICK ok \in BOOLEAN, found \in {finding.ip} :
        /\ At(found)!SetRulesAsync(finding.id, finding.osts, finding.request.mbs, ok)
        /\ IF ok THEN At(found)!InsertRules(finding.id, finding.osts)
                 ELSE UNCHANGED active_rules
        /\ asked' = IF ok THEN [asked EXCEPT ![finding.id] = finding.request] ELSE asked
  BY DEF SetRulesEnds, Registers
<1>2. /\ finding \in Finding /\ finding' = Null /\ finding.todo = {}
      /\ UNCHANGED <<cacheVars, lustreVars, astray>>
  BY DEF SetRulesEnds, TypeOK
<1>3. /\ finding.id \in JobIds /\ finding.osts \in SUBSET Osts
      /\ finding.request \in Requests /\ finding.request.mbs \in Mbs
  BY <1>2, RequestsAssumption DEF Finding
<1>4. oss_rules' \in [Ips -> [JobIds -> Mbs \cup {Null}]]
  BY <1>1, <1>3, SetAtType DEF TypeOK
<1>5. {finding.ip[o] : o \in finding.osts} \subseteq Ips
  BY <1>2 DEF FindingInv, SetRulesEnds
<1>6. active_rules' \in [JobIds -> SUBSET Ips]
  BY <1>1, <1>3, <1>5 DEF At!InsertRules, At!IpsOf, TypeOK, RulesTypeOK
<1>7. asked' \in [JobIds -> Requests \cup {Null}] /\ leftover' \subseteq JobIds
  BY <1>1, <1>3 DEF TypeOK, SetRulesEnds
<1>8. TypeOK'
  BY <1>2, <1>4, <1>6, <1>7 DEF TypeOK, RulesTypeOK, cacheVars, lustreVars
<1> QED
  BY <1>2, <1>8 DEF FindingInv, CachedAddressesOwn, OldHomes, cacheVars, lustreVars

\* Removing a job's rules, while nothing is looked up.
LEMMA StopStep ==
  ASSUME LookupInv, NEW id \in JobIds, StopRules(id)
  PROVE  LookupInv'
<1> USE DEF LookupInv
<1>1. PICK kept : oss_rules' = StopRule(oss_rules, id, active_rules[id], kept)
  BY DEF StopRules, RemoveRules, RemoveRulesAsync
<1>2. oss_rules' \in [Ips -> [JobIds -> Mbs \cup {Null}]]
  BY <1>1 DEF TypeOK, RulesTypeOK, StopRule
<1>3. active_rules' \in [JobIds -> SUBSET Ips]
  BY DEF StopRules, RemoveRules, EraseRules, TypeOK, RulesTypeOK
<1> QED
  BY <1>2, <1>3 DEF StopRules, cacheVars, lustreVars, TypeOK, RulesTypeOK, FindingInv,
                    CachedAddressesOwn, OldHomes

\* Lustre grows, or nothing happens.
LEMMA GrowStep ==
  ASSUME LookupInv, Grow \/ UNCHANGED vars
  PROVE  LookupInv'
BY DEF LookupInv, Grow, AddOst, vars, rulesVars, cacheVars, lustreVars, TypeOK, RulesTypeOK,
       FindingInv, CachedAddressesOwn, OldHomes, Finding

\* An OST fails over: what is cached for it has been right.
LEMMA FailOverStep ==
  ASSUME LookupInv, NEW o \in Osts, FailOver(o)
  PROVE  LookupInv'
<1> USE DEF LookupInv
<1>1. PICK ip \in Homes[o] \ {home[o]} : home' = [home EXCEPT ![o] = ip]
  BY DEF FailOver
<1>2. /\ moved' = IF uuid_to_ip[UuidOf[o]] # Null THEN moved \cup {o} ELSE moved
      /\ UNCHANGED <<rulesVars, cacheVars, listed, finding, astray>>
  BY DEF FailOver
<1>3. TypeOK'
  BY <1>1, <1>2, AddressesAssumption DEF TypeOK, RulesTypeOK, rulesVars, cacheVars
<1>4. \A p \in Osts : uuid_to_ip[UuidOf[p]] # Null => OldHomes(p) \subseteq OldHomes(p)'
  <2> SUFFICES ASSUME NEW p \in Osts, uuid_to_ip[UuidOf[p]] # Null
               PROVE  OldHomes(p) \subseteq OldHomes(p)'
    OBVIOUS
  <2>1. CASE p = o
    <3>1. OldHomes(p) \subseteq Homes[p] /\ Homes[p] \subseteq OldHomes(p)'
      BY <1>2, <2>1, OldHomesOwn DEF OldHomes
    <3> QED
      BY <3>1
  <2>2. CASE p # o
    BY <1>1, <1>2, <2>2 DEF OldHomes, TypeOK
  <2> QED
    BY <2>1, <2>2
<1>5. CachedAddressesOwn'
  BY <1>2, <1>4 DEF CachedAddressesOwn, cacheVars
<1>6. FindingInv'
  <2> SUFFICES ASSUME finding # Null PROVE FindingInv'
    BY <1>2 DEF FindingInv
  <2>1. finding.osts \subseteq Osts
    BY DEF TypeOK, Finding
  <2> QED
    BY <1>2, <1>4, <2>1 DEF FindingInv, rulesVars, cacheVars
<1> QED
  BY <1>3, <1>5, <1>6

\* It holds at the start.
LEMMA LookupInit == Init => LookupInv
BY DEF Init, RulesInit, LookupInv, TypeOK, RulesTypeOK, FindingInv, CachedAddressesOwn, Uuids

\* Every step keeps it.
LEMMA LookupStep == LookupInv /\ [Next]_vars => LookupInv'
BY BeginsStep, FindIpStep, EndsStep, StopStep, GrowStep, FailOverStep DEF Next

-----------------------------------------------------------------------------
(* What follows.                                                           *)

\* The rule manager's variables, its caches and its calls have their types, also
\* with addresses that were not found (types of the members and locals).
THEOREM CachesTyped == Spec => []TypeOK
<1>1. LookupInv => TypeOK
  BY DEF LookupInv
<1> QED
  BY <1>1, LookupInit, LookupStep, PTL DEF Spec

\* Whatever fails, an address that is remembered is that of the OSS that serves the
\* OST now, or the OST has failed over since, or the address is empty because lctl
\* printed nothing (GetIp).
THEOREM CachedHold == Spec => []CachedAddressesOwn
<1>1. LookupInv => CachedAddressesOwn
  BY DEF LookupInv
<1> QED
  BY <1>1, LookupInit, LookupStep, PTL DEF Spec

\* What is registered is there: SetRulesAsync succeeded with all its commands,
\* and a rule is taken away only from a job whose rules are being forgotten.
LEMMA TrackedStepAt ==
  ASSUME LookupInv, TrackedRulesInstalled, "remote" \notin Faults, [Next]_vars
  PROVE  TrackedRulesInstalled'
<1> USE DEF TrackedRulesInstalled
<1>1. CASE SetRulesEnds
  <2>1. PICK ok \in BOOLEAN, found \in {finding.ip} :
          /\ At(found)!SetRulesAsync(finding.id, finding.osts, finding.request.mbs, ok)
          /\ IF ok THEN At(found)!InsertRules(finding.id, finding.osts)
                   ELSE UNCHANGED active_rules
    BY <1>1 DEF SetRulesEnds, Registers
  <2>2. /\ finding \in Finding /\ active_rules[finding.id] = {}
        /\ {finding.ip[o] : o \in finding.osts} \subseteq Ips
        /\ active_rules \in [JobIds -> SUBSET Ips]
    BY <1>1 DEF SetRulesEnds, LookupInv, FindingInv, TypeOK, RulesTypeOK
  <2>3. finding.id \in JobIds /\ finding.osts \in SUBSET Osts /\ finding.request.mbs \in Mbs
    BY <2>2, RequestsAssumption DEF Finding
  <2>4. /\ \A j \in JobIds \ {finding.id}, a \in Ips : oss_rules'[a][j] = oss_rules[a][j]
        /\ ok = TRUE => \A o \in finding.osts, a \in Ips :
                           a = finding.ip[o] => oss_rules'[a][finding.id] # Null
    <3>1. RulesTypeOK
      BY DEF LookupInv, TypeOK
    <3>2. /\ \A j \in JobIds \ {finding.id}, a \in Ips : oss_rules'[a][j] = oss_rules[a][j]
          /\ ok = TRUE => \A o \in finding.osts, a \in Ips :
                             a = found[o] => oss_rules'[a][finding.id] # Null
      BY <2>1, <2>3, <3>1, SetAtInstalls
    <3> QED
      BY <3>2
  <2>5. active_rules' = IF ok THEN [active_rules EXCEPT ![finding.id] =
                                     {finding.ip[o] : o \in finding.osts}]
                        ELSE active_rules
    BY <2>1 DEF At!InsertRules, At!IpsOf
  <2> QED
    BY <2>2, <2>3, <2>4, <2>5
<1>2. ASSUME NEW id \in JobIds, StopRules(id)
      PROVE  TrackedRulesInstalled'
  <2>1. PICK kept : oss_rules' = StopRule(oss_rules, id, active_rules[id], kept)
    BY <1>2 DEF StopRules, RemoveRules, RemoveRulesAsync
  <2>2. active_rules' = [active_rules EXCEPT ![id] = {}]
    BY <1>2 DEF StopRules, RemoveRules, EraseRules
  <2>3. \A j \in JobIds \ {id}, a \in Ips : oss_rules'[a][j] = oss_rules[a][j]
    BY <2>1 DEF StopRule, LookupInv, TypeOK, RulesTypeOK
  <2> QED
    BY <2>2, <2>3 DEF LookupInv, TypeOK, RulesTypeOK
<1>3. CASE \/ \E id \in JobIds, request \in Requests : SetRulesBegins(id, request)
           \/ \E o \in Osts : FindIp(o) \/ FailOver(o)
           \/ Grow \/ UNCHANGED vars
  <2>1. UNCHANGED <<active_rules, oss_rules>>
    BY <1>3 DEF SetRulesBegins, FindIp, Grow, FailOver, vars, rulesVars
  <2> QED
    BY <2>1
<1> QED
  BY <1>1, <1>2, <1>3 DEF Next

\* As long as a command that is sent also arrives, every OSS in active_rules_
\* has the job's rule, whatever lookups fail and whatever commands are not sent.
THEOREM TrackedHolds ==
  ASSUME "remote" \notin Faults
  PROVE  Spec => []TrackedRulesInstalled
<1>1. Init => TrackedRulesInstalled
  BY DEF Init, RulesInit, TrackedRulesInstalled
<1>2. LookupInv /\ TrackedRulesInstalled /\ [Next]_vars => TrackedRulesInstalled'
  BY TrackedStepAt
<1> QED
  BY <1>1, <1>2, LookupInit, LookupStep, PTL DEF Spec

-----------------------------------------------------------------------------
(* Where the rules are, and what they give.                                *)

\* The OSTs of a job that has rules were all looked up, so that their addresses
\* are cached.
RulesCached == \A j \in Settled : \A o \in asked[j].stripe : uuid_to_ip[UuidOf[o]] # Null

HomeInv == RulesAtHome /\ RulesCached

\* A job that has not just got its rules keeps them, with what it asked for, and
\* does not become settled by other means; cached addresses stay cached.
LEMMA SettledStays ==
  ASSUME LookupInv, [Next]_vars, NEW j \in JobIds,
         ~(SetRulesEnds /\ finding.id = j), j \in Settled'
  PROVE  /\ j \in Settled /\ asked'[j] = asked[j] /\ active_rules'[j] = active_rules[j]
         /\ \A u \in Uuids \cup {NoUuid} : uuid_to_ip[u] # Null => uuid_to_ip'[u] # Null
<1> USE DEF LookupInv
<1>1. CASE SetRulesEnds
  <2>1. PICK ok \in BOOLEAN, found \in {finding.ip} :
          /\ IF ok THEN At(found)!InsertRules(finding.id, finding.osts)
                   ELSE UNCHANGED active_rules
          /\ asked' = IF ok THEN [asked EXCEPT ![finding.id] = finding.request] ELSE asked
    BY <1>1 DEF SetRulesEnds, Registers
  <2>2. UNCHANGED <<cacheVars, astray>> /\ finding.id # j
    BY <1>1 DEF SetRulesEnds
  <2>3. asked'[j] = asked[j] /\ active_rules'[j] = active_rules[j]
    BY <2>1, <2>2 DEF At!InsertRules, TypeOK, RulesTypeOK
  <2> QED
    BY <2>2, <2>3 DEF Settled, cacheVars
<1>2. ASSUME NEW id \in JobIds, StopRules(id)
      PROVE  /\ j \in Settled /\ asked'[j] = asked[j] /\ active_rules'[j] = active_rules[j]
             /\ \A u \in Uuids \cup {NoUuid} : uuid_to_ip[u] # Null => uuid_to_ip'[u] # Null
  <2>1. /\ active_rules' = [active_rules EXCEPT ![id] = {}] /\ asked' = [asked EXCEPT ![id] = Null]
        /\ astray' = astray \ {id} /\ UNCHANGED cacheVars
    BY <1>2 DEF StopRules, RemoveRules, EraseRules
  <2>2. j # id
    BY <2>1 DEF Settled, TypeOK, RulesTypeOK
  <2> QED
    BY <2>1, <2>2 DEF Settled, cacheVars, TypeOK, RulesTypeOK
<1>3. ASSUME NEW id \in JobIds, NEW request \in Requests, SetRulesBegins(id, request)
      PROVE  /\ j \in Settled /\ asked'[j] = asked[j] /\ active_rules'[j] = active_rules[j]
             /\ \A u \in Uuids \cup {NoUuid} : uuid_to_ip[u] # Null => uuid_to_ip'[u] # Null
  <2>1. UNCHANGED <<rulesVars, cacheVars>> /\ astray' = astray \ {id} /\ active_rules[id] = {}
    BY <1>3 DEF SetRulesBegins, SetRulesProceeds, HasRules
  <2> QED
    BY <2>1 DEF Settled, rulesVars, cacheVars
<1>4. ASSUME NEW o \in Osts, FindIp(o)
      PROVE  /\ j \in Settled /\ asked'[j] = asked[j] /\ active_rules'[j] = active_rules[j]
             /\ \A u \in Uuids \cup {NoUuid} : uuid_to_ip[u] # Null => uuid_to_ip'[u] # Null
  <2>1. PICK uuid \in Uuids \cup {NoUuid}, ip \in Ips \cup {NoIp} :
          /\ GetIp(uuid, ip)
          /\ astray' = IF uuid = NoUuid THEN astray \cup {finding.id} ELSE astray
    BY <1>4 DEF FindIp
  <2>2. UNCHANGED <<rulesVars, lustreVars>>
    BY <1>4 DEF FindIp
  <2>3. \A u \in Uuids \cup {NoUuid} : uuid_to_ip[u] # Null => uuid_to_ip'[u] # Null
    BY <2>1, <2>2, GetIpOwn DEF lustreVars
  <2> QED
    BY <2>1, <2>2, <2>3 DEF Settled, rulesVars
<1>5. CASE Grow \/ (\E o \in Osts : FailOver(o)) \/ UNCHANGED vars
  BY <1>5 DEF Grow, FailOver, vars, rulesVars, cacheVars, Settled
<1> QED
  BY <1>1, <1>2, <1>3, <1>4, <1>5 DEF Next

\* A call that ends with settled rules has them where its OSTs were found, which
\* are the file's own.
LEMMA SettledBegins ==
  ASSUME LookupInv, SetRulesEnds, finding.id \in Settled'
  PROVE  LET j == finding.id IN
         /\ asked'[j] = finding.request /\ finding.osts = finding.request.stripe
         /\ active_rules'[j] = {finding.ip[o] : o \in finding.osts}
         /\ \A o \in finding.osts : /\ finding.ip[o] \in OldHomes(o)
                                    /\ uuid_to_ip[UuidOf[o]] # Null
         /\ UNCHANGED <<uuid_to_ip, home, moved>>
<1>1. PICK ok \in BOOLEAN, found \in {finding.ip} :
        /\ At(found)!SetRulesAsync(finding.id, finding.osts, finding.request.mbs, ok)
        /\ IF ok THEN At(found)!InsertRules(finding.id, finding.osts)
                 ELSE UNCHANGED active_rules
        /\ asked' = IF ok THEN [asked EXCEPT ![finding.id] = finding.request] ELSE asked
  BY DEF SetRulesEnds, Registers
<1>2. /\ finding \in Finding /\ astray' = astray /\ finding.todo = {}
      /\ active_rules[finding.id] = {}
      /\ active_rules \in [JobIds -> SUBSET Ips] /\ asked \in [JobIds -> Requests \cup {Null}]
      /\ UNCHANGED <<uuid_to_ip, home, moved>>
  BY DEF SetRulesEnds, LookupInv, FindingInv, TypeOK, RulesTypeOK, cacheVars, lustreVars
<1>3. finding.id \in JobIds /\ finding.request \in Requests
  BY <1>2 DEF Finding
<1>4. ok = TRUE
  BY <1>1, <1>2 DEF Settled
<1>5. /\ asked'[finding.id] = finding.request
      /\ active_rules'[finding.id] = {finding.ip[o] : o \in finding.osts}
  BY <1>1, <1>2, <1>3, <1>4 DEF At!InsertRules, At!IpsOf
<1>6. finding.osts = finding.request.stripe
  <2>1. finding.osts = {o % 10 : o \in finding.request.stripe}
    BY DEF SetRulesEnds, LookupInv, FindingInv, ParseOstsFromGetStripe
  <2>2. finding.request.stripe \subseteq Nat
    BY <1>3, RequestsAssumption, NumbersAssumption
  <2>3. \A o \in Nat : o < 10 => o % 10 = o
    OBVIOUS
  <2>4. \A o \in finding.request.stripe : o < 10
    BY <1>5 DEF Settled
  <2> QED
    BY <2>1, <2>2, <2>3, <2>4
<1>7. \A o \in finding.osts : finding.ip[o] \in OldHomes(o) /\ uuid_to_ip[UuidOf[o]] # Null
  BY <1>2 DEF SetRulesEnds, LookupInv, FindingInv, Settled
<1> QED
  BY <1>1, <1>2, <1>4, <1>5, <1>6, <1>7

\* Unless an OST fails over, its old homes stay what they are.
LEMMA HomesStay ==
  ASSUME LookupInv, [Next]_vars, NEW o \in Osts
  PROVE  \/ UNCHANGED <<home[o], OldHomes(o)>> /\ (o \in moved' <=> o \in moved)
         \/ FailOver(o)
<1>1. CASE UNCHANGED <<home, moved>>
  BY <1>1 DEF OldHomes
<1>2. ASSUME NEW p \in Osts, FailOver(p), p # o
      PROVE  UNCHANGED <<home[o], OldHomes(o)>> /\ (o \in moved' <=> o \in moved)
  BY <1>2 DEF FailOver, OldHomes, LookupInv, TypeOK
<1> QED
  BY <1>1, <1>2 DEF Next, SetRulesBegins, FindIp, SetRulesEnds, StopRules, Grow, vars, lustreVars

\* Such a call has set its rules at the rate of its OSTs, on an OSS that had none
\* of that name.
LEMMA SettledRate ==
  ASSUME LookupInv, SetRulesEnds, finding.id \in Settled', "remote" \notin Faults,
         NEW found, found = finding.ip,
         NEW o \in finding.osts, oss_rules[finding.ip[o]][finding.id] = Null
  PROVE  oss_rules'[finding.ip[o]][finding.id]
           = At(found)!Rate(finding.osts, finding.request.mbs, finding.ip[o])
<1> DEFINE a == finding.ip[o]
<1>1. PICK ok \in BOOLEAN, ip \in {finding.ip} :
        /\ At(ip)!SetRulesAsync(finding.id, finding.osts, finding.request.mbs, ok)
        /\ ok \/ UNCHANGED active_rules
  BY DEF SetRulesEnds, Registers
<1>2. /\ active_rules[finding.id] = {} /\ finding.ip[o] \in Ips /\ finding.id \in JobIds
      /\ oss_rules \in [Ips -> [JobIds -> Mbs \cup {Null}]]
  BY DEF SetRulesEnds, LookupInv, FindingInv, TypeOK, RulesTypeOK, Finding
<1>3. ok
  BY <1>1, <1>2 DEF Settled
<1>4. PICK failed, lost, kept :
        /\ lost \in At(ip)!Hit(At(ip)!IpsOf(finding.osts), {"remote"})
        /\ ok = (failed = {})
        /\ oss_rules' = At(ip)!StopRule(
             At(ip)!StartRule(oss_rules, finding.id, finding.osts, finding.request.mbs, failed \cup lost),
             finding.id, failed, kept)
  BY <1>1 DEF At!SetRulesAsync
<1>5. lost = {} /\ failed = {}
  BY <1>3, <1>4 DEF At!Hit
<1>6. a \in At(ip)!IpsOf(finding.osts) \ (failed \cup lost)
  BY <1>5 DEF At!IpsOf
<1>7. At(ip)!StartRule(oss_rules, finding.id, finding.osts, finding.request.mbs, failed \cup lost)[a][finding.id]
        = At(ip)!Rate(finding.osts, finding.request.mbs, a)
  BY <1>2, <1>6 DEF At!StartRule
<1>8. oss_rules'[a][finding.id] = At(ip)!Rate(finding.osts, finding.request.mbs, a)
  BY <1>2, <1>4, <1>5, <1>7 DEF At!StopRule
<1> QED
  BY <1>1, <1>8

\* Rules are registered where the addresses were found, and an OST that fails
\* over later counts as moved, because its address is cached.
LEMMA HomeStep ==
  ASSUME LookupInv, HomeInv, [Next]_vars
  PROVE  HomeInv'
<1> SUFFICES ASSUME NEW j \in Settled'
             PROVE  /\ \A o \in asked'[j].stripe \ moved' : home'[o] \in active_rules'[j]
                    /\ \A ip \in active_rules'[j] : \E o \in asked'[j].stripe : ip \in OldHomes(o)'
                    /\ \A o \in asked'[j].stripe : uuid_to_ip'[UuidOf[o]] # Null
  BY DEF HomeInv, RulesAtHome, RulesCached
<1>0. LookupInv' /\ j \in JobIds
  BY LookupStep DEF Settled
<1>1. CASE SetRulesEnds /\ finding.id = j
  <2>1. /\ asked'[j] = finding.request /\ finding.osts = finding.request.stripe
        /\ active_rules'[j] = {finding.ip[o] : o \in finding.osts}
        /\ \A o \in finding.osts : /\ finding.ip[o] \in OldHomes(o)
                                   /\ uuid_to_ip[UuidOf[o]] # Null
        /\ UNCHANGED <<uuid_to_ip, home, moved>>
    BY <1>1, SettledBegins
  <2>2. \A o \in finding.osts : OldHomes(o)' = OldHomes(o)
    BY <2>1 DEF OldHomes
  <2>3. \A o \in finding.osts \ moved : finding.ip[o] = home[o]
    BY <2>1 DEF OldHomes
  <2> QED
    BY <2>1, <2>2, <2>3
<1>2. CASE ~(SetRulesEnds /\ finding.id = j)
  <2>1. /\ j \in Settled /\ asked'[j] = asked[j] /\ active_rules'[j] = active_rules[j]
        /\ \A u \in Uuids \cup {NoUuid} : uuid_to_ip[u] # Null => uuid_to_ip'[u] # Null
    BY <1>0, <1>2, SettledStays
  <2>2. asked[j].stripe \subseteq Osts
    BY <1>0, <2>1, RequestsAssumption DEF Settled, LookupInv, TypeOK
  <2>3. /\ \A o \in asked[j].stripe \ moved : home[o] \in active_rules[j]
        /\ \A ip \in active_rules[j] : \E o \in asked[j].stripe : ip \in OldHomes(o)
        /\ \A o \in asked[j].stripe : uuid_to_ip[UuidOf[o]] # Null
    BY <2>1 DEF HomeInv, RulesAtHome, RulesCached
  <2>4. \A o \in asked[j].stripe :
          /\ OldHomes(o) \subseteq OldHomes(o)'
          /\ o \notin moved' => o \notin moved /\ home'[o] = home[o]
    <3> SUFFICES ASSUME NEW o \in asked[j].stripe
                 PROVE  /\ OldHomes(o) \subseteq OldHomes(o)'
                        /\ o \notin moved' => o \notin moved /\ home'[o] = home[o]
      OBVIOUS
    <3>1. CASE FailOver(o)
      <4>1. o \in moved'
        BY <2>3, <3>1 DEF FailOver
      <4>2. OldHomes(o) \subseteq Homes[o] /\ Homes[o] \subseteq OldHomes(o)'
        BY <2>2, <4>1, OldHomesOwn DEF OldHomes, LookupInv
      <4> QED
        BY <4>1, <4>2
    <3>2. CASE UNCHANGED <<home[o], OldHomes(o)>> /\ (o \in moved' <=> o \in moved)
      BY <3>2
    <3> QED
      BY <2>2, <3>1, <3>2, HomesStay
  <2> QED
    BY <2>1, <2>2, <2>3, <2>4, UuidFacts
<1> QED
  BY <1>1, <1>2

\* Through both caches, however Lustre grows and fails, a job's rules are on the
\* OSSs that serve the OSTs of its files now, but for OSTs that have failed over.
THEOREM AtHomeHolds == Spec => []RulesAtHome
<1>1. Init => HomeInv
  BY DEF Init, RulesInit, HomeInv, RulesAtHome, RulesCached, Settled
<1>2. LookupInv /\ HomeInv /\ [Next]_vars => HomeInv'
  BY HomeStep
<1>3. HomeInv => RulesAtHome
  BY DEF HomeInv
<1> QED
  BY <1>1, <1>2, <1>3, LookupInit, LookupStep, PTL DEF Spec

\* The rate is set with the rule, and stays with it: no other step touches the
\* job's rules, and an OST of it that fails over has moved.
LEMMA RatesStep ==
  ASSUME LookupInv, HomeInv, RatesAddUp, "remote" \notin Faults, [Next]_vars
  PROVE  RatesAddUp'
<1> SUFFICES ASSUME NEW j \in (Settled \ leftover)', (asked[j].stripe \cap moved)' = {},
                    NEW a \in active_rules'[j],
                    asked'[j].mbs * Cardinality({o \in asked'[j].stripe : home'[o] = a}) < UintMod
             PROVE  oss_rules'[a][j]
                      = asked'[j].mbs * Cardinality({o \in asked'[j].stripe : home'[o] = a})
  BY DEF RatesAddUp
<1>0. j \in JobIds /\ a \in Ips
  BY LookupStep DEF Settled, LookupInv, TypeOK, RulesTypeOK
<1>1. CASE SetRulesEnds /\ finding.id = j
  <2>0. PICK found : found = finding.ip
    OBVIOUS
  <2>1. /\ asked'[j] = finding.request /\ finding.osts = finding.request.stripe
        /\ active_rules'[j] = {finding.ip[o] : o \in finding.osts}
        /\ \A o \in finding.osts : finding.ip[o] \in OldHomes(o)
        /\ UNCHANGED <<uuid_to_ip, home, moved>>
    BY <1>1, SettledBegins
  <2>2. PICK o \in finding.osts : a = finding.ip[o]
    BY <2>1
  <2>3. oss_rules[a][j] = Null
    BY <1>0, <1>1 DEF SetRulesEnds
  <2>4. oss_rules'[a][j] = At(found)!Rate(finding.osts, finding.request.mbs, a)
    BY <1>1, <2>2, <2>3, <2>0, SettledRate
  <2>5. {p \in asked'[j].stripe : home'[p] = a} = {p \in finding.osts : finding.ip[p] = a}
    <3>1. \A p \in finding.osts : finding.ip[p] = home'[p]
      BY <2>1 DEF OldHomes
    <3> QED
      BY <2>1, <3>1
  <2>6. finding.osts \in SUBSET Osts /\ finding.request.mbs \in Mbs
    BY <1>1, RequestsAssumption DEF SetRulesEnds, LookupInv, TypeOK, Finding
  <2>7. finding.request.mbs * Cardinality({p \in finding.osts : finding.ip[p] = a}) < UintMod
    BY <2>1, <2>5
  <2>8. At(found)!Rate(finding.osts, finding.request.mbs, a)
          = finding.request.mbs * Cardinality({p \in finding.osts : finding.ip[p] = a})
    BY <1>0, <2>6, <2>7, <2>0, RateAtSum
  <2> QED
    BY <2>1, <2>4, <2>5, <2>8
<1>2. CASE ~(SetRulesEnds /\ finding.id = j)
  <2>1. j \in Settled /\ asked'[j] = asked[j] /\ active_rules'[j] = active_rules[j]
    BY <1>0, <1>2, SettledStays
  <2>2. /\ asked[j].stripe \subseteq Osts /\ asked[j].stripe \cap moved' = {}
        /\ \A o \in asked[j].stripe : uuid_to_ip[UuidOf[o]] # Null
    BY <1>0, <2>1, RequestsAssumption DEF Settled, LookupInv, TypeOK, HomeInv, RulesCached
  <2>3. \A o \in asked[j].stripe : o \notin moved /\ home'[o] = home[o]
    <3> SUFFICES ASSUME NEW o \in asked[j].stripe PROVE o \notin moved /\ home'[o] = home[o]
      OBVIOUS
    <3>1. ~FailOver(o)
      BY <2>2 DEF FailOver
    <3> QED
      BY <2>2, <3>1, HomesStay
  <2>4. oss_rules'[a][j] = oss_rules[a][j] /\ j \notin leftover
    <3>1. CASE SetRulesEnds
      <4>1. finding.id # j /\ j \notin leftover
        BY <1>2, <3>1 DEF SetRulesEnds
      <4>2. /\ finding.id \in JobIds /\ finding.osts \in SUBSET Osts
            /\ finding.request.mbs \in Mbs /\ RulesTypeOK
        BY <3>1, RequestsAssumption DEF SetRulesEnds, LookupInv, TypeOK, Finding
      <4>3. PICK ok \in BOOLEAN, found \in {finding.ip} :
              At(found)!SetRulesAsync(finding.id, finding.osts, finding.request.mbs, ok)
        BY <3>1 DEF SetRulesEnds
      <4>4. \A i \in JobIds \ {finding.id}, b \in Ips : oss_rules'[b][i] = oss_rules[b][i]
        BY <4>2, <4>3, SetAtInstalls
      <4> QED
        BY <1>0, <4>1, <4>4
    <3>2. ASSUME NEW id \in JobIds, StopRules(id)
          PROVE  oss_rules'[a][j] = oss_rules[a][j] /\ j \notin leftover
      <4>1. PICK kept : oss_rules' = StopRule(oss_rules, id, active_rules[id], kept)
        BY <3>2 DEF StopRules, RemoveRules, RemoveRulesAsync
      <4>2. active_rules' = [active_rules EXCEPT ![id] = {}] /\ leftover' = leftover \ {id}
        BY <3>2 DEF StopRules, RemoveRules, EraseRules
      <4>3. j # id
        BY <1>0, <4>2 DEF LookupInv, TypeOK, RulesTypeOK
      <4> QED
        BY <1>0, <4>1, <4>2, <4>3 DEF StopRule, LookupInv, TypeOK, RulesTypeOK
    <3>3. CASE \/ \E id \in JobIds, request \in Requests : SetRulesBegins(id, request)
               \/ \E o \in Osts : FindIp(o) \/ FailOver(o)
               \/ Grow \/ UNCHANGED vars
      BY <3>3 DEF SetRulesBegins, FindIp, Grow, FailOver, vars, rulesVars
    <3> QED
      BY <3>1, <3>2, <3>3 DEF Next
  <2>5. {o \in asked'[j].stripe : home'[o] = a} = {o \in asked[j].stripe : home[o] = a}
    BY <2>1, <2>3
  <2>6. asked[j].mbs * Cardinality({o \in asked[j].stripe : home[o] = a}) < UintMod
    BY <2>1, <2>5
  <2>7. oss_rules[a][j] = asked[j].mbs * Cardinality({o \in asked[j].stripe : home[o] = a})
    BY <2>1, <2>2, <2>3, <2>4, <2>6 DEF RatesAddUp
  <2> QED
    BY <2>1, <2>4, <2>5, <2>7
<1> QED
  BY <1>1, <1>2

\* As long as commands that are sent arrive, a job has on each OSS what it asked for
\* on its OSTs there, together: sums that fit a uint32_t, no rule left from before,
\* no OST that failed over (computeOssToMBsAndCountUnique, SetRulesAsync).
THEOREM RatesHold ==
  ASSUME "remote" \notin Faults
  PROVE  Spec => []RatesAddUp
<1>1. Init => HomeInv /\ RatesAddUp
  BY DEF Init, RulesInit, HomeInv, RulesAtHome, RulesCached, RatesAddUp, Settled
<1>2. LookupInv /\ HomeInv /\ RatesAddUp /\ [Next]_vars => HomeInv' /\ RatesAddUp'
  BY HomeStep, RatesStep
<1> QED
  BY <1>1, <1>2, LookupInit, LookupStep, PTL DEF Spec
=============================================================================
