------------------------------ MODULE OstRules ------------------------------
(***************************************************************************)
(* The rule manager together with the two caches it finds addresses with:  *)
(* from the OSTs of a file to their uuids (OstIdsConverter), to the        *)
(* addresses of their OSSs (OstIpsCache), to rules there (RuleManager).    *)
(* Only the monitor thread looks addresses up; meanwhile Lustre may grow   *)
(* and OSTs fail over to other OSSs.                                       *)
(***************************************************************************)
EXTENDS RuleManager, Lustre

CONSTANT Requests   \* what SetRules is called with: the OSTs of a file, the MB/s

ASSUME RequestsAssumption == Requests \subseteq [stripe : SUBSET Osts, mbs : Mbs]
ASSUME AddressesAssumption == (\A o \in Osts : Homes[o] \subseteq Ips) /\ NoIp \notin Ips /\ Null \notin Ips

VARIABLES
  id_to_uuid,   \* id_to_uuid_: the ids it holds (what one stands for never changes)
  uuid_to_ip,   \* uuid_to_ip_cache_: uuid -> address, Null for no entry
  finding,      \* the call of SetRules in progress, Null for none
  home,         \* OST -> the OSS that serves it now (external)
  moved,        \* history: the OSTs that failed over after their uuid was cached
  unanswered,   \* history: the uuids for which lctl printed no address
  astray,       \* history: the jobs with an address asked for the empty uuid
  asked,        \* history: job -> the request its rules were set for, Null for none
  leftover      \* history: the jobs that met a rule of their own name on an OSS

rulesVars  == <<active_rules, oss_rules, asked, leftover>>
cacheVars  == <<id_to_uuid, uuid_to_ip, unanswered>>
lustreVars == <<listed, home, moved>>
vars == <<rulesVars, cacheVars, lustreVars, finding, astray>>

Finding == [id : JobIds, request : Requests, todo : SUBSET Osts,
            osts : SUBSET Osts, ip : [Osts -> Ips \cup {NoIp}]]

TypeOK ==
  /\ RulesTypeOK /\ listed \subseteq Osts
  /\ id_to_uuid \subseteq Osts
  /\ uuid_to_ip \in [Uuids \cup {NoUuid} -> Ips \cup {NoIp, Null}]
  /\ finding \in Finding \cup {Null}
  /\ unanswered \subseteq Uuids \cup {NoUuid} /\ astray \subseteq JobIds
  /\ home \in [Osts -> Ips] /\ (\A o \in Osts : home[o] \in Homes[o])
  /\ moved \subseteq Osts /\ leftover \subseteq JobIds
  /\ asked \in [JobIds -> Requests \cup {Null}]

Init ==
  /\ RulesInit /\ listed \in SUBSET Osts
  /\ id_to_uuid = {} /\ uuid_to_ip = [u \in Uuids \cup {NoUuid} |-> Null]
  /\ finding = Null /\ unanswered = {} /\ astray = {}
  /\ home \in [Osts -> Ips] /\ (\A o \in Osts : home[o] \in Homes[o])
  /\ moved = {} /\ leftover = {} /\ asked = [j \in JobIds |-> Null]

\* Rules are set at the addresses that were found.
At(ip) == INSTANCE RuleManager WITH IpOf <- ip

-----------------------------------------------------------------------------
SetRulesBegins(id, request) ==
  LET osts == ParseOstsFromGetStripe(request.stripe)
  IN  /\ finding = Null /\ request.stripe \subseteq listed /\ osts \subseteq Osts
      /\ SetRulesProceeds(osts, HasRules(id))
      /\ finding' = [id |-> id, request |-> request, todo |-> osts,
                     osts |-> osts, ip |-> [o \in Osts |-> NoIp]]
      /\ astray' = astray \ {id}
      /\ UNCHANGED <<rulesVars, cacheVars, lustreVars>>

\* UpdateCache: what lfs lists replaces what was known, also when it is nothing.
UpdateCache == \E answer \in GetOstList :
  id_to_uuid' = IF answer.ok THEN answer.out ELSE id_to_uuid

\* Plausible bug: the first line of the list is taken for every number.
MeansFirst(o) == UuidOf[CHOOSE p \in id_to_uuid' : \A q \in id_to_uuid' : p <= q]

\* The uuid in the line of an OST's number.
Means(o) == UuidOf[o]

\* ToUUID: a miss updates the cache, a second one is the empty uuid.
ToUUID(o, uuid) ==
  /\ IF o \in id_to_uuid THEN UNCHANGED id_to_uuid ELSE UpdateCache
  /\ uuid = IF o \in id_to_uuid' THEN Means(o) ELSE NoUuid

\* Plausible bug: an answer is cached whether the call succeeded or not.
CachesFailures(answer) == TRUE

\* GetIp: what a successful call returns is remembered for good, an empty
\* address too.
Caches(answer) == answer.ok

Address(out) == IF out = {} THEN NoIp ELSE CHOOSE ip \in out : TRUE
GetIp(uuid, ip) ==
  IF uuid_to_ip[uuid] # Null
  THEN ip = uuid_to_ip[uuid] /\ UNCHANGED <<uuid_to_ip, unanswered>>
  ELSE \E answer \in GetIPOfOst(uuid, home) :
         /\ ip = Address(answer.out)
         /\ uuid_to_ip' = IF Caches(answer) THEN [uuid_to_ip EXCEPT ![uuid] = ip]
                          ELSE uuid_to_ip
         /\ unanswered' = unanswered \cup {u \in {uuid} : answer = [ok |-> TRUE, out |-> {}]}

\* determineOstIps gives up at the first address that is not found.
FindIp(o) ==
  /\ finding # Null /\ o \in finding.todo
  /\ \E uuid \in Uuids \cup {NoUuid}, ip \in Ips \cup {NoIp} :
       /\ ToUUID(o, uuid) /\ GetIp(uuid, ip)
       /\ finding' = IF ip # NoIp THEN [finding EXCEPT !.todo = @ \ {o}, !.ip[o] = ip] ELSE Null
       /\ astray' = IF uuid = NoUuid THEN astray \cup {finding.id} ELSE astray
  /\ UNCHANGED <<rulesVars, lustreVars>>

\* Plausible bug: the rules are registered although setting some of them failed.
RegistersAnyway(ok) == TRUE

Registers(ok) == ok

SetRulesEnds ==
  /\ finding # Null /\ finding.todo = {}
  /\ \E ok \in BOOLEAN, ip \in {finding.ip} :
       /\ At(ip)!SetRulesAsync(finding.id, finding.osts, finding.request.mbs, ok)
       /\ IF Registers(ok) THEN At(ip)!InsertRules(finding.id, finding.osts)
          ELSE UNCHANGED active_rules
       /\ asked' = IF ok THEN [asked EXCEPT ![finding.id] = finding.request] ELSE asked
  /\ leftover' = IF \A ip \in Ips : oss_rules[ip][finding.id] = Null
                 THEN leftover \ {finding.id} ELSE leftover \cup {finding.id}
  /\ finding' = Null
  /\ UNCHANGED <<cacheVars, lustreVars, astray>>

StopRules(id) ==
  /\ finding = Null /\ RemoveRules(id)
  /\ asked' = [asked EXCEPT ![id] = Null] /\ astray' = astray \ {id}
  /\ leftover' = leftover \ {id}
  /\ UNCHANGED <<cacheVars, lustreVars, finding>>

Grow == AddOst /\ UNCHANGED <<rulesVars, cacheVars, home, moved, finding, astray>>

\* Another OSS takes over an OST; nobody tells the planner.
FailOver(o) ==
  /\ \E ip \in Homes[o] \ {home[o]} : home' = [home EXCEPT ![o] = ip]
  /\ moved' = IF uuid_to_ip[UuidOf[o]] # Null THEN moved \cup {o} ELSE moved
  /\ UNCHANGED <<rulesVars, cacheVars, listed, finding, astray>>

Next == \/ \E id \in JobIds, request \in Requests : SetRulesBegins(id, request)
        \/ \E o \in Osts : FindIp(o)
        \/ SetRulesEnds
        \/ \E id \in JobIds : StopRules(id)
        \/ Grow
        \/ \E o \in Osts : FailOver(o)
Spec == Init /\ [][Next]_vars

-----------------------------------------------------------------------------
\* Where an address that was cached for an OST may be: at the OSS that serves
\* it, or, once it has failed over, at one that did or does.
OldHomes(o) == {home[o]} \cup (IF o \in moved THEN Homes[o] ELSE {})

\* What GetIp remembers of a uuid is for good, and so had better be right: the
\* OSS that serves the OST now, unless the OST has failed over since then, or
\* nothing if lctl once printed nothing.  A call that could not be made is asked
\* again.
CachedAddressesOwn ==
  \A o \in Osts : LET ip == uuid_to_ip[UuidOf[o]]
                 IN  ip \in OldHomes(o) \cup {Null} \/ (ip = NoIp /\ UuidOf[o] \in unanswered)

\* The jobs with rules for OSTs they were meant for: none of their OSTs has a
\* number of two digits (ParseOstsFromGetStripe), a uuid was found for each.
Settled == {j \in JobIds \ astray : /\ active_rules[j] # {} /\ asked[j] # Null
                                    /\ \A o \in asked[j].stripe : o < 10}

\* Through all the caches, the rules of such a job are on the OSSs that serve the
\* OSTs of its files now and nowhere else - but for the OSTs that have failed over
\* since their address was cached, whose rules may stay behind, and may be set
\* at the old OSS again and again.
RulesAtHome ==
  \A j \in Settled :
     /\ \A o \in asked[j].stripe \ moved : home[o] \in active_rules[j]
     /\ \A ip \in active_rules[j] : \E o \in asked[j].stripe : ip \in OldHomes(o)

\* What such a job may use of an OSS is what it asked for on each of its OSTs
\* there, together (computeOssToMBsAndCountUnique) - unless the sum is too large
\* for a uint32_t, one of its OSTs has failed over, or a rule of its name was
\* left by a call that failed before, whose rate then stays.
RatesAddUp ==
  \A j \in Settled \ leftover : asked[j].stripe \cap moved = {} =>
     \A ip \in active_rules[j] :
        LET sum == asked[j].mbs * Cardinality({o \in asked[j].stripe : home[o] = ip})
        IN  sum < UintMod => oss_rules[ip][j] = sum
=============================================================================
