------------------------------ MODULE Firewall ------------------------------
(***************************************************************************)
(* The packet filter of security/firewall/firewall.c: an ordered table of  *)
(* rules of which the first that matches decides, and counters.            *)
(*                                                                         *)
(* A packet and the pattern of a rule are functions over the six fields    *)
(* compared.  A rule's enabled flag is never cleared, last_block_time is   *)
(* always 0, and both are left out with the texts.                         *)
(***************************************************************************)
EXTENDS IdTable

CONSTANTS
    Fields,             \* protocol, direction, addresses and ports
    Source,             \* the field src_ip
    Any,                \* what a pattern holds where every value matches (0)
    Packets,            \* the packets that are checked
    Patterns,           \* the patterns of rules that are added
    DefaultRules,       \* the patterns firewall_init allows, in order
    MAX_FIREWALL_RULES, \* length of the array
    RuleCreations,      \* bound: at most this many rules are ever added
    Checks              \* bound: at most this many packets are counted

ASSUME FirewallAssumption ==
    /\ Source \in Fields
    /\ MAX_FIREWALL_RULES \in Nat
    /\ DefaultRules \in Seq(Patterns)
    /\ Len(DefaultRules) <= MAX_FIREWALL_RULES
    /\ RuleCreations \in Nat /\ Len(DefaultRules) <= RuleCreations
    /\ Checks \in Nat

VARIABLES
    rules,              \* firewall_rules[0] .. firewall_rules[rule_count - 1]
    next_rule_id,
    firewall_enabled,
    stats               \* allowed_packets, blocked_packets, total_packets and
                        \* last_blocked_ip

firewall_vars == <<rules, next_rule_id, firewall_enabled, stats>>

Rule == [id : 1 .. RuleCreations, action : {"ALLOW", "DENY"}, pattern : Patterns]

FirewallTypeOK ==
    /\ rules \in Seq(Rule)
    /\ Len(rules) <= MAX_FIREWALL_RULES
    /\ next_rule_id \in 1 .. RuleCreations + 1
    /\ firewall_enabled \in BOOLEAN
    /\ stats \in
          [allowed : 0 .. Checks, blocked : 0 .. Checks, total : 0 .. Checks,
           last_blocked : {Any} \cup {packet[Source] : packet \in Packets}]

firewall_init ==
    /\ rules = [i \in 1 .. Len(DefaultRules) |->
                  [id |-> i, action |-> "ALLOW", pattern |-> DefaultRules[i]]]
    /\ next_rule_id = Len(DefaultRules) + 1
    /\ firewall_enabled = TRUE
    /\ stats = [allowed |-> 0, blocked |-> 0, total |-> 0, last_blocked |-> Any]

-----------------------------------------------------------------------------
Matches(rule, packet) ==
    \A f \in Fields : rule.pattern[f] \in {Any, packet[f]}

\* Mutant: the loop goes on to the last rule that matches.
LastMatch(table, packet) ==
    {i \in 1 .. Len(table) :
        /\ Matches(table[i], packet)
        /\ \A j \in i + 1 .. Len(table) : ~Matches(table[j], packet)}

\* The rule that decides on a packet, if there is one.
Deciding(table, packet) ==
    {i \in 1 .. Len(table) :
        /\ Matches(table[i], packet)
        /\ \A j \in 1 .. i - 1 : ~Matches(table[j], packet)}

\* Whether a rule, and not the default, denies the packet.
DeniedByRule(table, packet) ==
    \E i \in Deciding(table, packet) : table[i].action = "DENY"

\* A packet that no rule matches is denied.
Allowed(table, packet) ==
    \E i \in Deciding(table, packet) : table[i].action = "ALLOW"

\* The default denial does not record the address it blocked.
Counted(packet) ==
    [allowed |-> stats.allowed + (IF Allowed(rules, packet) THEN 1 ELSE 0),
     blocked |-> stats.blocked + (IF Allowed(rules, packet) THEN 0 ELSE 1),
     total |-> stats.total + 1,
     last_blocked |-> IF DeniedByRule(rules, packet)
                      THEN packet[Source] ELSE stats.last_blocked]

\* A packet that passes a disabled firewall is not counted.
firewall_check_packet(packet) ==
    /\ firewall_enabled
    /\ stats.total < Checks
    /\ stats' = Counted(packet)
    /\ UNCHANGED <<rules, next_rule_id, firewall_enabled>>

\* Mutant: there seems to be room for one rule more.
RoomForOneRuleMore == Len(rules) <= MAX_FIREWALL_RULES

RoomForRule == Len(rules) < MAX_FIREWALL_RULES

firewall_add_rule(action, pattern) ==
    /\ RoomForRule
    /\ next_rule_id <= RuleCreations
    /\ rules' = Append(rules,
          [id |-> next_rule_id, action |-> action, pattern |-> pattern])
    /\ next_rule_id' = next_rule_id + 1
    /\ UNCHANGED <<firewall_enabled, stats>>

firewall_remove_rule(id) ==
    \E i \in Found(rules, id) :
        /\ rules' = ShiftOut(rules, i)
        /\ UNCHANGED <<next_rule_id, firewall_enabled, stats>>

firewall_enable ==
    /\ firewall_enabled' = TRUE
    /\ UNCHANGED <<rules, next_rule_id, stats>>

firewall_disable ==
    /\ firewall_enabled' = FALSE
    /\ UNCHANGED <<rules, next_rule_id, stats>>

FirewallNext ==
    \/ \E packet \in Packets : firewall_check_packet(packet)
    \/ \E action \in {"ALLOW", "DENY"}, pattern \in Patterns :
          firewall_add_rule(action, pattern)
    \/ \E id \in 1 .. RuleCreations : firewall_remove_rule(id)
    \/ firewall_enable
    \/ firewall_disable

-----------------------------------------------------------------------------
\* Every packet counted is counted once more, as allowed or as blocked, whatever
\* rules come and go in between.
StatsAddUp == stats.allowed + stats.blocked = stats.total

\* The rules decide in the order in which they were added: a new rule decides
\* only packets that no rule matched, and taking a rule away changes the verdict
\* only on packets which that rule decided.
RulesDecideInOrder ==
    [][\A packet \in Packets :
          Allowed(rules', packet) # Allowed(rules, packet) =>
             \/ /\ Ids(rules) \subseteq Ids(rules')
                /\ Deciding(rules, packet) = {}
             \/ \E i \in Deciding(rules, packet) : rules[i].id \notin Ids(rules')
      ]_firewall_vars
=============================================================================
