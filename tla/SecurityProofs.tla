--------------------------- MODULE SecurityProofs ---------------------------
(***************************************************************************)
(* For every set of rules, packets, names and passwords: an account is     *)
(* locked exactly at its limit and stays locked, every packet is counted   *)
(* once, and the rules decide in the order in which they were added.       *)
(***************************************************************************)
EXTENDS Security, IdTableProofs

-----------------------------------------------------------------------------
\* The packet filter.
FirewallInv ==
    /\ FirewallTypeOK
    /\ StatsAddUp
    /\ Ascending(rules)
    /\ \A id \in Ids(rules) : id < next_rule_id

LEMMA RulesOrdered ==
    ASSUME FirewallInv
    PROVE  /\ Ordered(Rule, rules)
           /\ Len(rules) \in Nat
           /\ \A i \in 1 .. Len(rules) : rules[i] \in Rule /\ rules[i].id \in Nat
<1>1. rules \in Seq(Rule)
  BY DEF FirewallInv, FirewallTypeOK
<1>2. \A i \in 1 .. Len(rules) : rules[i] \in Rule
  BY <1>1, ElementOfSeq
<1>3. \A i \in 1 .. Len(rules) : rules[i].id \in Nat
  BY <1>2, FirewallAssumption DEF Rule
<1> QED BY <1>1, <1>2, <1>3, LenProperties DEF Ordered, FirewallInv

\* A packet is either allowed or not, and counted accordingly.
LEMMA CheckStep ==
    ASSUME FirewallInv, NEW packet \in Packets, firewall_check_packet(packet)
    PROVE  FirewallInv'
<1> DEFINE a == IF Allowed(rules, packet) THEN 1 ELSE 0
           b == IF Allowed(rules, packet) THEN 0 ELSE 1
           l == IF DeniedByRule(rules, packet)
                THEN packet[Source] ELSE stats.last_blocked
           addresses == {Any} \cup {p[Source] : p \in Packets}
<1>1. /\ stats' = [allowed |-> stats.allowed + a, blocked |-> stats.blocked + b,
                   total |-> stats.total + 1, last_blocked |-> l]
      /\ stats.total < Checks
      /\ UNCHANGED <<rules, next_rule_id, firewall_enabled>>
  BY DEF firewall_check_packet, Counted
<1>2. a \in Nat /\ b \in Nat /\ a + b = 1
  OBVIOUS
<1>3. stats \in [allowed : 0 .. Checks, blocked : 0 .. Checks,
                 total : 0 .. Checks, last_blocked : addresses]
  BY DEF FirewallInv, FirewallTypeOK
<1>4. l \in addresses
  <2>1. packet[Source] \in addresses
    OBVIOUS
  <2> QED BY <1>3, <2>1
<1> HIDE DEF a, b, l, addresses
<1>5. /\ stats.allowed \in Nat /\ stats.blocked \in Nat /\ stats.total \in Nat
      /\ stats.allowed + stats.blocked = stats.total
  BY <1>3, FirewallAssumption DEF FirewallInv, StatsAddUp
<1>6. /\ stats.allowed + a \in 0 .. Checks
      /\ stats.blocked + b \in 0 .. Checks
      /\ stats.total + 1 \in 0 .. Checks
  <2>1. stats.total < Checks /\ Checks \in Nat
    BY <1>1, FirewallAssumption
  <2> QED BY <1>2, <1>5, <2>1
<1>7. stats' \in [allowed : 0 .. Checks, blocked : 0 .. Checks,
                  total : 0 .. Checks, last_blocked : addresses]
  BY <1>1, <1>4, <1>6
<1>8. StatsAddUp'
  BY <1>1, <1>2, <1>5 DEF StatsAddUp
<1> QED BY <1>1, <1>7, <1>8 DEF FirewallInv, FirewallTypeOK, addresses, Ids, Ascending

\* Appending a rule leaves every decision made as it was.
LEMMA AppendDecides ==
    ASSUME NEW table \in Seq(Rule), NEW e \in Rule, NEW packet,
           Deciding(table, packet) # {}
    PROVE  Allowed(Append(table, e), packet) = Allowed(table, packet)
<1> DEFINE t == Append(table, e)
           n == Len(table)
<1>1. /\ n \in Nat /\ Len(t) = n + 1
      /\ \A k \in 1 .. n : t[k] = table[k]
  BY LenProperties
<1> HIDE DEF t
<1>2. PICK d \in 1 .. n :
         /\ Matches(table[d], packet)
         /\ \A j \in 1 .. d - 1 : ~Matches(table[j], packet)
  BY DEF Deciding
<1>3. Deciding(table, packet) = {d}
  <2>1. \A i \in Deciding(table, packet) : i \in 1 .. n /\ ~(i < d) /\ ~(d < i)
    BY <1>1, <1>2 DEF Deciding
  <2>2. \A i \in Deciding(table, packet) : i = d
    BY <1>1, <2>1
  <2>3. d \in Deciding(table, packet)
    BY <1>2 DEF Deciding
  <2> QED BY <2>2, <2>3
<1>4. Deciding(t, packet) = {d}
  <2>1. /\ d \in 1 .. n + 1 /\ Matches(t[d], packet)
        /\ \A j \in 1 .. d - 1 : ~Matches(t[j], packet)
    BY <1>1, <1>2
  <2>2. \A i \in Deciding(t, packet) : i \in 1 .. n + 1 /\ ~(i < d) /\ ~(d < i)
    BY <1>1, <2>1 DEF Deciding
  <2>3. \A i \in Deciding(t, packet) : i = d
    BY <1>1, <2>2
  <2>4. d \in Deciding(t, packet)
    BY <1>1, <2>1 DEF Deciding
  <2> QED BY <2>3, <2>4
<1>5. t[d] = table[d]
  BY <1>1
<1> QED BY <1>3, <1>4, <1>5 DEF Allowed, t

\* Taking out a rule that did not decide leaves the decision as it was.
LEMMA ShiftOutDecides ==
    ASSUME NEW table \in Seq(Rule), NEW i \in 1 .. Len(table), NEW packet,
           i \notin Deciding(table, packet)
    PROVE  Allowed(ShiftOut(table, i), packet) = Allowed(table, packet)
<1> DEFINE t == ShiftOut(table, i)
           n == Len(table)
           from(k) == IF k < i THEN k ELSE k + 1
           to(k) == IF k < i THEN k ELSE k - 1
<1>1. /\ n \in Nat /\ n - 1 \in Nat
      /\ t = [k \in 1 .. n - 1 |-> table[from(k)]]
  <2>1. n \in Nat /\ n - 1 \in Nat
    BY LenProperties
  <2> QED BY <2>1 DEF ShiftOut
<1>2. /\ \A k \in 1 .. n - 1 : from(k) \in 1 .. n /\ from(k) # i /\ to(from(k)) = k
      /\ \A k \in 1 .. n : k # i => to(k) \in 1 .. n - 1 /\ from(to(k)) = k
  BY <1>1
<1>3. Len(t) = n - 1
  <2>1. \A k \in 1 .. n : table[k] \in Rule
    BY ElementOfSeq
  <2>2. t \in [1 .. n - 1 -> Rule]
    BY <1>1, <1>2, <2>1
  <2>3. t \in Seq(Rule)
    BY <1>1, <2>2, SeqDef
  <2>4. 1 .. n - 1 = 1 .. Len(t) /\ Len(t) \in Nat
    BY <2>2, <2>3, LenProperties
  <2> QED BY <1>1, <2>4, IntervalEnd
<1>4. \A k \in 1 .. n - 1 : t[k] = table[from(k)]
  BY <1>1
<1> HIDE DEF t
<1>5. ASSUME NEW d \in Deciding(table, packet)
      PROVE  to(d) \in Deciding(t, packet) /\ t[to(d)] = table[d]
  <2>1. /\ d \in 1 .. n /\ d # i /\ Matches(table[d], packet)
        /\ \A j \in 1 .. d - 1 : ~Matches(table[j], packet)
    BY DEF Deciding
  <2>2. to(d) \in 1 .. n - 1 /\ t[to(d)] = table[d]
    BY <1>2, <1>4, <2>1
  <2>3. ASSUME NEW j \in 1 .. to(d) - 1 PROVE ~Matches(t[j], packet)
    <3>1. j \in 1 .. n - 1 /\ from(j) \in 1 .. d - 1
      BY <1>1, <2>1, <2>2
    <3> QED BY <1>4, <2>1, <3>1
  <2> HIDE DEF to
  <2> QED BY <1>3, <2>1, <2>2, <2>3 DEF Deciding
<1>6. ASSUME NEW d \in Deciding(t, packet)
      PROVE  from(d) \in Deciding(table, packet) /\ t[d] = table[from(d)]
  <2>1. /\ d \in 1 .. n - 1 /\ Matches(t[d], packet)
        /\ \A j \in 1 .. d - 1 : ~Matches(t[j], packet)
    BY <1>3 DEF Deciding
  <2>2. from(d) \in 1 .. n /\ t[d] = table[from(d)]
    BY <1>2, <1>4, <2>1
  <2>3. ASSUME NEW j \in 1 .. from(d) - 1, j # i PROVE ~Matches(table[j], packet)
    <3>1. j \in 1 .. n /\ to(j) \in 1 .. d - 1
      BY <1>1, <2>1, <2>2, <2>3
    <3>2. to(j) \in 1 .. n - 1 /\ from(to(j)) = j
      BY <1>2, <2>3, <3>1
    <3>3. t[to(j)] = table[j]
      BY <1>4, <3>2
    <3> HIDE DEF to
    <3> QED BY <2>1, <3>1, <3>3
  <2>4. ASSUME i \in 1 .. from(d) - 1 PROVE ~Matches(table[i], packet)
    <3>1. \A j \in 1 .. i - 1 : j \in 1 .. from(d) - 1 /\ j # i
      BY <2>2, <2>4
    <3>2. \A j \in 1 .. i - 1 : ~Matches(table[j], packet)
      BY <2>3, <3>1
    <3> QED BY <3>2 DEF Deciding
  <2>5. \A j \in 1 .. from(d) - 1 : ~Matches(table[j], packet)
    BY <2>3, <2>4
  <2> HIDE DEF from
  <2> QED BY <2>1, <2>2, <2>5 DEF Deciding
<1> HIDE DEF from, to
<1> QED BY <1>5, <1>6 DEF Allowed, t

\* Every step of the packet filter, and what it may do to a verdict.
Verdicts ==
    \A packet \in Packets :
        Allowed(rules', packet) # Allowed(rules, packet) =>
           \/ /\ Ids(rules) \subseteq Ids(rules')
              /\ Deciding(rules, packet) = {}
           \/ \E i \in Deciding(rules, packet) : rules[i].id \notin Ids(rules')

LEMMA AddRuleStep ==
    ASSUME FirewallInv, NEW action \in {"ALLOW", "DENY"}, NEW pattern \in Patterns,
           firewall_add_rule(action, pattern)
    PROVE  FirewallInv' /\ Verdicts
<1> DEFINE e == [id |-> next_rule_id, action |-> action, pattern |-> pattern]
<1>1. /\ rules' = Append(rules, e)
      /\ Len(rules) < MAX_FIREWALL_RULES
      /\ next_rule_id <= RuleCreations /\ next_rule_id' = next_rule_id + 1
      /\ UNCHANGED <<firewall_enabled, stats>>
  BY DEF firewall_add_rule, RoomForRule
<1>2. next_rule_id \in 1 .. RuleCreations + 1
  BY DEF FirewallInv, FirewallTypeOK
<1>3. e \in Rule /\ e.id = next_rule_id /\ e.id \in Int
  BY <1>1, <1>2, FirewallAssumption DEF Rule
<1> HIDE DEF e
<1>4. Ordered(Rule, rules) /\ Len(rules) \in Nat
  BY RulesOrdered
<1>5. \A id \in Ids(rules) : id < e.id
  BY <1>3 DEF FirewallInv
<1>6. /\ Ordered(Rule, rules') /\ Len(rules') = Len(rules) + 1
      /\ Ids(rules') = Ids(rules) \cup {e.id}
  BY <1>1, <1>3, <1>4, <1>5, AppendEntry
<1>7. FirewallInv'
  <2>1. next_rule_id' \in 1 .. RuleCreations + 1
    BY <1>1, <1>2, FirewallAssumption
  <2>2. FirewallTypeOK'
    BY <1>1, <1>4, <1>6, <2>1, FirewallAssumption
       DEF FirewallTypeOK, FirewallInv, Ordered
  <2>3. \A id \in Ids(rules') : id < next_rule_id'
    <3>1. \A id \in Ids(rules) : id \in Int /\ id < next_rule_id
      BY <1>4 DEF FirewallInv, Ids, Ordered
    <3> QED BY <1>1, <1>2, <1>3, <1>6, <3>1
  <2> QED BY <1>1, <1>6, <2>2, <2>3 DEF FirewallInv, StatsAddUp, Ordered
<1>8. Verdicts
  <2>1. rules \in Seq(Rule)
    BY <1>4 DEF Ordered
  <2>2. \A packet \in Packets : Deciding(rules, packet) # {} =>
           Allowed(rules', packet) = Allowed(rules, packet)
    BY <1>1, <1>3, <2>1, AppendDecides
  <2> QED BY <1>6, <2>2 DEF Verdicts
<1> QED BY <1>7, <1>8

LEMMA RemoveRuleStep ==
    ASSUME FirewallInv, NEW id, firewall_remove_rule(id)
    PROVE  FirewallInv' /\ Verdicts
<1>1. PICK i \in 1 .. Len(rules) :
         /\ rules[i].id = id
         /\ rules' = ShiftOut(rules, i)
         /\ UNCHANGED <<next_rule_id, firewall_enabled, stats>>
  BY DEF firewall_remove_rule, Found
<1>2. Ordered(Rule, rules) /\ Len(rules) \in Nat
  BY RulesOrdered
<1>3. /\ Ordered(Rule, rules') /\ Len(rules') = Len(rules) - 1
      /\ Ids(rules') = Ids(rules) \ {rules[i].id}
  <2> DEFINE t == ShiftOut(rules, i)
  <2>1. /\ Ordered(Rule, t) /\ Len(t) = Len(rules) - 1
        /\ Ids(t) = Ids(rules) \ {rules[i].id}
    BY <1>2, ShiftOutEntry
  <2>2. rules' = t
    BY <1>1
  <2> HIDE DEF t
  <2> QED BY <2>1, <2>2
<1>4. FirewallInv'
  <2>1. FirewallTypeOK'
    BY <1>1, <1>2, <1>3, FirewallAssumption DEF FirewallTypeOK, FirewallInv, Ordered
  <2> QED BY <1>1, <1>3, <2>1 DEF FirewallInv, StatsAddUp, Ordered
<1>5. Verdicts
  <2>1. rules \in Seq(Rule)
    BY <1>2 DEF Ordered
  <2>2. \A packet \in Packets : i \notin Deciding(rules, packet) =>
           Allowed(rules', packet) = Allowed(rules, packet)
    BY <1>1, <2>1, ShiftOutDecides
  <2>3. rules[i].id \notin Ids(rules')
    BY <1>3
  <2> QED BY <2>2, <2>3 DEF Verdicts
<1> QED BY <1>4, <1>5

LEMMA FirewallStep ==
    ASSUME FirewallInv, [FirewallNext]_firewall_vars
    PROVE  FirewallInv' /\ [Verdicts]_firewall_vars
<1>1. ASSUME NEW packet \in Packets, firewall_check_packet(packet)
      PROVE  FirewallInv' /\ Verdicts
  <2>1. rules' = rules
    BY <1>1 DEF firewall_check_packet
  <2> QED BY <1>1, <2>1, CheckStep DEF Verdicts
<1>2. ASSUME firewall_enable \/ firewall_disable
      PROVE  FirewallInv' /\ Verdicts
  <2>1. rules' = rules /\ next_rule_id' = next_rule_id /\ stats' = stats
        /\ firewall_enabled' \in BOOLEAN
    BY <1>2 DEF firewall_enable, firewall_disable
  <2> QED BY <2>1 DEF Verdicts, FirewallInv, FirewallTypeOK, StatsAddUp
<1>3. ASSUME UNCHANGED firewall_vars
      PROVE  FirewallInv'
  BY <1>3 DEF firewall_vars, FirewallInv, FirewallTypeOK, StatsAddUp
<1> QED BY <1>1, <1>2, <1>3, AddRuleStep, RemoveRuleStep DEF FirewallNext

-----------------------------------------------------------------------------
\* The accounts.  The code locks by its own counter, which goes with the entry
\* when the table closes a gap.
LocksByCount ==
    \A i \in 1 .. Len(users) :
        users[i].enabled <=> users[i].failed_attempts < MaxFailures

\* That counter is the attempts that failed in a row; ids without an account have none.
CountsInARow ==
    /\ \A i \in 1 .. Len(users) : users[i].failed_attempts = in_a_row[users[i].id]
    /\ \A id \in (1 .. UserCreations) \ Ids(users) : in_a_row[id] = 0

AuthInv ==
    /\ AuthTypeOK
    /\ LocksByCount
    /\ CountsInARow
    /\ Ascending(users)
    /\ \A id \in Ids(users) : id < next_user_id

LEMMA UsersOrdered ==
    ASSUME AuthInv
    PROVE  /\ Ordered(User, users)
           /\ Len(users) \in Nat
           /\ \A i \in 1 .. Len(users) : users[i] \in User /\ users[i].id \in Nat
<1>1. users \in Seq(User)
  BY DEF AuthInv, AuthTypeOK
<1>2. \A i \in 1 .. Len(users) : users[i] \in User
  BY <1>1, ElementOfSeq
<1>3. \A i \in 1 .. Len(users) : users[i].id \in Nat
  BY <1>2, AuthAssumption DEF User
<1> QED BY <1>1, <1>2, <1>3, LenProperties DEF Ordered, AuthInv

\* A new account is enabled and has no failed attempts.
LEMMA NewUserType ==
    ASSUME NEW id \in 1 .. UserCreations, NEW name \in Names \cup {AdminName},
           NEW hash \in Passwords \cup {AdminPassword}, NEW is_admin \in BOOLEAN
    PROVE  /\ NewUser(id, name, hash, is_admin) \in User
           /\ NewUser(id, name, hash, is_admin).id = id
           /\ NewUser(id, name, hash, is_admin).enabled = TRUE
           /\ NewUser(id, name, hash, is_admin).failed_attempts = 0
<1>1. 0 \in 0 .. MaxFailures
  BY AuthAssumption
<1> QED BY <1>1 DEF NewUser, User

\* What a step may do to a locked account.
LocksKept ==
    \A id \in Ids(users) \cap Ids(users') :
        ~Entry(users, id).enabled => Entry(users', id) = Entry(users, id)

LEMMA CreateUserStep ==
    ASSUME AuthInv, NEW name \in Names, NEW hash \in Passwords,
           NEW is_admin \in BOOLEAN, auth_create_user(name, hash, is_admin)
    PROVE  AuthInv' /\ LocksKept
<1> DEFINE e == NewUser(next_user_id, name, hash, is_admin)
<1>1. /\ users' = Append(users, e)
      /\ in_a_row' = in_a_row
      /\ Len(users) < MAX_USERS
      /\ next_user_id <= UserCreations /\ next_user_id' = next_user_id + 1
  BY DEF auth_create_user
<1>2. next_user_id \in 1 .. UserCreations + 1
  BY DEF AuthInv, AuthTypeOK
<1>3. next_user_id \in 1 .. UserCreations
  BY <1>1, <1>2, AuthAssumption
<1>4. /\ e \in User /\ e.id = next_user_id /\ e.id \in Int
      /\ e.enabled = TRUE /\ e.failed_attempts = 0
  <2>1. /\ name \in Names \cup {AdminName}
        /\ hash \in Passwords \cup {AdminPassword}
    OBVIOUS
  <2>2. /\ e \in User /\ e.id = next_user_id
        /\ e.enabled = TRUE /\ e.failed_attempts = 0
    BY ZenonT(30), <1>3, <2>1, NewUserType
  <2>3. next_user_id \in Int
    BY <1>3
  <2> QED BY <2>2, <2>3
<1> HIDE DEF e
<1>5. Ordered(User, users) /\ Len(users) \in Nat
  BY UsersOrdered
<1>6. \A id \in Ids(users) : id < e.id
  BY <1>4 DEF AuthInv
<1>7. /\ Ordered(User, users') /\ Len(users') = Len(users) + 1
      /\ Ids(users') = Ids(users) \cup {e.id}
      /\ \A id \in Ids(users) : Entry(users', id) = Entry(users, id)
  BY <1>1, <1>4, <1>5, <1>6, AppendEntry
<1>8. AuthInv'
  <2>1. AuthTypeOK'
    BY <1>1, <1>3, <1>5, <1>7, AuthAssumption DEF AuthTypeOK, AuthInv, Ordered
  <2>2. LocksByCount'
    <3>1. /\ \A i \in 1 .. Len(users) : users'[i] = users[i]
          /\ users'[Len(users) + 1] = e
      BY <1>1, <1>4, <1>5 DEF Ordered
    <3>2. e.enabled <=> e.failed_attempts < MaxFailures
      BY <1>4, AuthAssumption
    <3>3. ASSUME NEW i \in 1 .. Len(users')
          PROVE  users'[i].enabled <=> users'[i].failed_attempts < MaxFailures
      <4>1. i \in 1 .. Len(users) \/ i = Len(users) + 1
        BY <1>5, <1>7
      <4> QED BY <3>1, <3>2, <4>1 DEF AuthInv, LocksByCount
    <3> QED BY <3>3 DEF LocksByCount
  <2>3. \A id \in Ids(users') : id < next_user_id'
    <3>1. \A id \in Ids(users) : id \in Int /\ id < next_user_id
      BY <1>5 DEF AuthInv, Ids, Ordered
    <3> QED BY <1>1, <1>3, <1>4, <1>7, <3>1
  <2>4. CountsInARow'
    <3>1. /\ \A i \in 1 .. Len(users) : users'[i] = users[i]
          /\ users'[Len(users) + 1] = e
      BY <1>1, <1>4, <1>5 DEF Ordered
    <3>2. in_a_row[e.id] = 0
      BY <1>3, <1>4, <1>6 DEF AuthInv, CountsInARow
    <3>3. ASSUME NEW i \in 1 .. Len(users')
          PROVE  users'[i].failed_attempts = in_a_row[users'[i].id]
      <4>1. i \in 1 .. Len(users) \/ i = Len(users) + 1
        BY <1>5, <1>7
      <4> QED BY <1>4, <3>1, <3>2, <4>1 DEF AuthInv, CountsInARow
    <3> QED BY <1>1, <1>7, <3>3 DEF AuthInv, CountsInARow
  <2> QED BY <1>7, <2>1, <2>2, <2>3, <2>4 DEF AuthInv, Ordered
<1> QED BY <1>7, <1>8 DEF LocksKept

\* An attempt changes one enabled account and locks it at its limit.
LEMMA VerifyStep ==
    ASSUME AuthInv, NEW name, NEW hash, auth_verify_user(name, hash)
    PROVE  AuthInv' /\ LocksKept
<1>1. PICK i \in Tried(name) :
         /\ users' = [users EXCEPT ![i] =
               IF Accepted(users[i], hash) THEN Succeeded(users[i]) ELSE Failed(users[i])]
         /\ in_a_row' = [in_a_row EXCEPT ![users[i].id] =
               IF Accepted(users[i], hash) THEN 0 ELSE @ + 1]
         /\ next_user_id' = next_user_id
  BY DEF auth_verify_user
<1> DEFINE e == IF Accepted(users[i], hash) THEN Succeeded(users[i]) ELSE Failed(users[i])
           n == IF Accepted(users[i], hash) THEN 0 ELSE users[i].failed_attempts + 1
<1>2. /\ i \in 1 .. Len(users) /\ users[i].enabled
      /\ users[i] \in User /\ Len(users) \in Nat
      /\ Ordered(User, users)
  BY <1>1, UsersOrdered DEF Tried
<1>3. users[i].failed_attempts < MaxFailures
  BY <1>2 DEF AuthInv, LocksByCount
<1>4. /\ MaxFailures \in Nat \ {0}
      /\ users[i].failed_attempts \in Nat
  BY <1>2, AuthAssumption DEF User
<1>5. /\ e \in User /\ e.id = users[i].id
      /\ e.enabled <=> e.failed_attempts < MaxFailures
      /\ e.failed_attempts = n
  <2> DEFINE f == users[i].failed_attempts + 1
  <2>1. f \in 0 .. MaxFailures /\ 0 \in 0 .. MaxFailures
    BY <1>3, <1>4
  <2> HIDE DEF f
  <2>2. CASE Accepted(users[i], hash)
    <3>1. e = [users[i] EXCEPT !.failed_attempts = 0]
      BY <2>2 DEF Succeeded
    <3> HIDE DEF e
    <3>2. e \in User /\ e.id = users[i].id /\ e.enabled = users[i].enabled
          /\ e.failed_attempts = 0
      BY <1>2, <2>1, <3>1 DEF User
    <3>3. n = 0
      BY <2>2
    <3> HIDE DEF n
    <3> QED BY <1>2, <1>4, <3>2, <3>3
  <2>3. CASE ~Accepted(users[i], hash)
    <3>1. e = [users[i] EXCEPT !.failed_attempts = f, !.enabled = (f < MaxFailures)]
      BY <2>3 DEF Failed, f
    <3> HIDE DEF e
    <3>2. (f < MaxFailures) \in BOOLEAN
      OBVIOUS
    <3>3. e \in User /\ e.id = users[i].id /\ e.enabled = (f < MaxFailures)
          /\ e.failed_attempts = f
      BY <1>2, <2>1, <3>1, <3>2 DEF User
    <3>4. n = f
      BY <2>3 DEF f
    <3> HIDE DEF n
    <3> QED BY <3>3, <3>4
  <2> QED BY <2>2, <2>3
<1>6. users' = Changed(users, i, e)
  BY <1>1 DEF Changed
<1> HIDE DEF e
<1>7. /\ Ordered(User, users') /\ Len(users') = Len(users)
      /\ \A k \in 1 .. Len(users) : users'[k] = IF k = i THEN e ELSE users[k]
      /\ Ids(users') = Ids(users)
      /\ \A id \in Ids(users) \ {e.id} : Entry(users', id) = Entry(users, id)
  BY <1>2, <1>5, <1>6, ChangeEntry
<1>8. AuthInv'
  <2>1. /\ users[i].id \in 1 .. UserCreations
        /\ in_a_row \in [1 .. UserCreations -> Nat]
        /\ in_a_row[users[i].id] = users[i].failed_attempts
    BY <1>2 DEF User, AuthInv, AuthTypeOK, CountsInARow
  <2>2. /\ n \in Nat
        /\ in_a_row' = [in_a_row EXCEPT ![users[i].id] = n]
    BY <1>1, <1>4, <2>1
  <2> HIDE DEF n
  <2>3. AuthTypeOK'
    BY <1>1, <1>7, <2>1, <2>2 DEF AuthTypeOK, AuthInv, Ordered
  <2>4. LocksByCount'
    BY <1>5, <1>7 DEF LocksByCount, AuthInv
  <2>5. CountsInARow'
    <3>1. \A k \in 1 .. Len(users) : k # i =>
             users[k].id # users[i].id /\ users[k].id \in 1 .. UserCreations
      <4>1. \A k \in 1 .. Len(users) : users[k].id \in 1 .. UserCreations
        BY UsersOrdered DEF User
      <4> QED BY <1>2, <4>1 DEF Ordered, Ascending
    <3>2. ASSUME NEW k \in 1 .. Len(users)
          PROVE  users'[k].failed_attempts = in_a_row'[users'[k].id]
      BY <1>5, <1>7, <2>1, <2>2, <3>1 DEF AuthInv, CountsInARow
    <3>3. users[i].id \in Ids(users)
      BY <1>2 DEF Ids
    <3> QED BY <1>7, <2>1, <2>2, <3>2, <3>3 DEF AuthInv, CountsInARow
  <2> QED BY <1>1, <1>7, <2>3, <2>4, <2>5 DEF AuthInv, Ordered
<1>9. LocksKept
  <2>1. Entry(users, e.id).enabled
    BY <1>2, <1>5, EntryAt
  <2> QED BY <1>7, <2>1 DEF LocksKept
<1> QED BY <1>8, <1>9

LEMMA DeleteUserStep ==
    ASSUME AuthInv, NEW id, auth_delete_user(id)
    PROVE  AuthInv' /\ LocksKept
<1>1. PICK i \in 1 .. Len(users) :
         /\ users' = ShiftOut(users, i) /\ next_user_id' = next_user_id
         /\ in_a_row' = [in_a_row EXCEPT ![users[i].id] = 0]
  BY DEF auth_delete_user, Found
<1>2. Ordered(User, users) /\ Len(users) \in Nat
  BY UsersOrdered
<1>3. /\ Ordered(User, users') /\ Len(users') = Len(users) - 1
      /\ \A k \in 1 .. Len(users') : \E j \in 1 .. Len(users) : users'[k] = users[j]
      /\ Ids(users') = Ids(users) \ {users[i].id}
      /\ \A x \in Ids(users') : Entry(users', x) = Entry(users, x)
  <2> DEFINE t == ShiftOut(users, i)
  <2>1. /\ Ordered(User, t) /\ Len(t) = Len(users) - 1
        /\ \A k \in 1 .. Len(t) : \E j \in 1 .. Len(users) : t[k] = users[j]
        /\ Ids(t) = Ids(users) \ {users[i].id}
        /\ \A x \in Ids(t) : Entry(t, x) = Entry(users, x)
    BY <1>2, ShiftOutEntry
  <2>2. users' = t
    BY <1>1
  <2> HIDE DEF t
  <2> QED BY <2>1, <2>2
<1>4. AuthInv'
  <2>1. AuthTypeOK'
    <3>1. in_a_row' \in [1 .. UserCreations -> Nat]
      BY <1>1 DEF AuthInv, AuthTypeOK
    <3> QED BY <1>1, <1>2, <1>3, <3>1, AuthAssumption DEF AuthTypeOK, AuthInv, Ordered
  <2>2. LocksByCount'
    BY <1>3 DEF LocksByCount, AuthInv
  <2>3. CountsInARow'
    <3>1. \A x \in (1 .. UserCreations) \ {users[i].id} : in_a_row'[x] = in_a_row[x]
      BY <1>1 DEF AuthInv, AuthTypeOK
    <3>2. ASSUME NEW k \in 1 .. Len(users')
          PROVE  users'[k].failed_attempts = in_a_row'[users'[k].id]
      <4>1. PICK j \in 1 .. Len(users) : users'[k] = users[j]
        BY <1>3
      <4>2. users'[k].id \in (1 .. UserCreations) \ {users[i].id}
        BY <1>3, <4>1, UsersOrdered DEF Ids, User
      <4> QED BY <3>1, <4>1, <4>2 DEF AuthInv, CountsInARow
    <3>3. ASSUME NEW x \in (1 .. UserCreations) \ Ids(users')
          PROVE  in_a_row'[x] = 0
      <4>1. x = users[i].id \/ x \notin Ids(users)
        BY <1>3
      <4> QED BY <1>1, <3>1, <4>1 DEF AuthInv, AuthTypeOK, CountsInARow
    <3> QED BY <3>2, <3>3 DEF CountsInARow
  <2> QED BY <1>1, <1>3, <2>1, <2>2, <2>3 DEF AuthInv, Ordered
<1> QED BY <1>3, <1>4 DEF LocksKept

LEMMA AuthStep ==
    ASSUME AuthInv, [AuthNext]_auth_vars
    PROVE  AuthInv' /\ [LocksKept]_auth_vars
<1>1. ASSUME UNCHANGED auth_vars PROVE AuthInv'
  BY <1>1 DEF auth_vars, AuthInv, AuthTypeOK, LocksByCount, CountsInARow
<1> QED BY <1>1, CreateUserStep, VerifyStep, DeleteUserStep DEF AuthNext

-----------------------------------------------------------------------------
\* Both parts together.
Inv == FirewallInv /\ AuthInv

LEMMA FirewallInit == firewall_init => FirewallInv
<1> SUFFICES ASSUME firewall_init PROVE FirewallInv
  OBVIOUS
<1> DEFINE n == Len(DefaultRules)
           rule(i) == [id |-> i, action |-> "ALLOW", pattern |-> DefaultRules[i]]
<1>1. /\ n \in Nat /\ n <= MAX_FIREWALL_RULES /\ n <= RuleCreations
      /\ RuleCreations \in Nat
      /\ \A i \in 1 .. n : DefaultRules[i] \in Patterns
  BY FirewallAssumption, LenProperties, ElementOfSeq
<1>2. rules = [i \in 1 .. n |-> rule(i)] /\ next_rule_id = n + 1
  BY DEF firewall_init
<1>3. \A i \in 1 .. n : rule(i) \in Rule /\ rule(i).id = i
  BY <1>1 DEF Rule
<1> HIDE DEF rule
<1>4. rules \in [1 .. n -> Rule] /\ \A i \in 1 .. n : rules[i].id = i
  BY <1>2, <1>3
<1>5. rules \in Seq(Rule) /\ Len(rules) = n
  <2>1. rules \in Seq(Rule)
    BY <1>1, <1>4, SeqDef
  <2>2. 1 .. n = 1 .. Len(rules) /\ Len(rules) \in Nat
    BY <1>4, <2>1, LenProperties
  <2> QED BY <1>1, <2>1, <2>2, IntervalEnd
<1>6. Ascending(rules) /\ \A id \in Ids(rules) : id < next_rule_id
  BY <1>1, <1>2, <1>4, <1>5 DEF Ascending, Ids
<1>7. stats = [allowed |-> 0, blocked |-> 0, total |-> 0, last_blocked |-> Any]
      /\ firewall_enabled = TRUE
  BY DEF firewall_init
<1>8. FirewallTypeOK
  <2>1. 0 \in 0 .. Checks
    BY FirewallAssumption
  <2>2. next_rule_id \in 1 .. RuleCreations + 1
    BY <1>1, <1>2
  <2> QED BY <1>1, <1>5, <1>7, <2>1, <2>2 DEF FirewallTypeOK
<1> QED BY <1>6, <1>7, <1>8 DEF FirewallInv, StatsAddUp

LEMMA AuthInit == auth_init => AuthInv
<1> SUFFICES ASSUME auth_init PROVE AuthInv
  OBVIOUS
<1> DEFINE e == NewUser(1, AdminName, AdminPassword, TRUE)
<1>1. users = <<e>> /\ next_user_id = 2
      /\ in_a_row = [id \in 1 .. UserCreations |-> 0]
  BY DEF auth_init
<1>2. 1 \in 1 .. UserCreations /\ 2 \in 1 .. UserCreations + 1
      /\ 1 <= MAX_USERS /\ 0 < MaxFailures
  BY AuthAssumption
<1>3. e \in User /\ e.id = 1 /\ e.enabled = TRUE /\ e.failed_attempts = 0
  <2>1. /\ AdminName \in Names \cup {AdminName}
        /\ AdminPassword \in Passwords \cup {AdminPassword}
        /\ TRUE \in BOOLEAN
    OBVIOUS
  <2> QED BY <1>2, <2>1, NewUserType
<1> HIDE DEF e
<1>4. users \in Seq(User) /\ Len(users) = 1 /\ users[1] = e
  BY <1>1, <1>3
<1> QED BY <1>1, <1>2, <1>3, <1>4
        DEF AuthInv, AuthTypeOK, LocksByCount, CountsInARow, Ascending, Ids

LEMMA SpecInv == Spec => []Inv
<1>1. Init => Inv
  BY FirewallInit, AuthInit DEF Init, Inv
<1>2. Inv /\ [Next]_vars => Inv'
  BY FirewallStep, AuthStep DEF Inv, Next, vars
<1> QED BY <1>1, <1>2, PTL DEF Spec

\* Rules, counters and accounts keep their types.
THEOREM TypeCorrect == Spec => []TypeOK
<1>1. Inv => TypeOK
  BY DEF Inv, FirewallInv, AuthInv, TypeOK
<1> QED BY SpecInv, <1>1, PTL

\* Every packet counted is counted as allowed or as blocked (firewall_check_packet).
THEOREM PacketsCounted == Spec => []StatsAddUp
<1>1. Inv => StatsAddUp
  BY DEF Inv, FirewallInv
<1> QED BY SpecInv, <1>1, PTL

\* The rules decide in the order in which they were added, for any rules and packets.
THEOREM FirstRuleDecides == Spec => RulesDecideInOrder
<1>1. Inv /\ [Next]_vars => [Verdicts]_firewall_vars
  BY FirewallStep DEF Inv, Next, vars
<1> QED BY SpecInv, <1>1, PTL DEF Spec, RulesDecideInOrder, Verdicts

\* An account is locked exactly when as many attempts on it as the limit failed in
\* a row (auth_verify_user).
THEOREM LockedExactly == Spec => []LockedAtLimit
<1>1. Inv => LockedAtLimit
  BY DEF Inv, AuthInv, LocksByCount, CountsInARow, LockedAtLimit
<1> QED BY SpecInv, <1>1, PTL

\* A locked account stays as it is until it is deleted.
THEOREM LocksFinal == Spec => LockIsFinal
<1>1. Inv /\ [Next]_vars => [LocksKept]_auth_vars
  BY AuthStep DEF Inv, Next, vars
<1> QED BY SpecInv, <1>1, PTL DEF Spec, LockIsFinal, LocksKept

\* What an attempt does to the accounts it does not name.
OthersLeft ==
    \A i \in 1 .. Len(users), hash \in Passwords \cup {AdminPassword} :
        LET name == users[i].name IN
        /\ auth_verify_user(name, hash)
        /\ users[i].enabled
        /\ \A j \in 1 .. Len(users) :
              users[j].enabled /\ users[j].id < users[i].id
                  => ~Begins(name, users[j].name)
        => \A k \in (1 .. Len(users)) \ {i} : users'[k] = users[k]

\* The account tried is no later in the table than the one named, and entries stand
\* in the order of their ids: an earlier one would be older.
LEMMA OthersStep == AuthInv => OthersLeft
<1> SUFFICES ASSUME AuthInv,
                    NEW i \in 1 .. Len(users), NEW hash \in Passwords \cup {AdminPassword},
                    auth_verify_user(users[i].name, hash), users[i].enabled,
                    \A j \in 1 .. Len(users) :
                       users[j].enabled /\ users[j].id < users[i].id
                           => ~Begins(users[i].name, users[j].name),
                    NEW k \in (1 .. Len(users)) \ {i}
             PROVE  users'[k] = users[k]
  BY DEF OthersLeft
<1>1. /\ Len(users) \in Nat /\ Ascending(users) /\ users \in Seq(User)
      /\ \A j \in 1 .. Len(users) : users[j] \in User /\ users[j].id \in Nat
  BY UsersOrdered DEF AuthInv, AuthTypeOK
<1>2. PICK t \in Tried(users[i].name) : \E e : users' = [users EXCEPT ![t] = e]
  BY DEF auth_verify_user
<1>3. /\ t \in 1 .. Len(users) /\ users[t].enabled
      /\ Begins(users[i].name, users[t].name)
      /\ \A j \in 1 .. t - 1 :
            ~(users[j].enabled /\ NameMatches(users[i].name, users[j].name))
  BY <1>2 DEF Tried, NameMatches
<1>4. NameMatches(users[i].name, users[i].name)
  <2>1. users[i].name \in Seq(STRING)
    BY <1>1, AuthAssumption DEF User
  <2> QED BY <2>1 DEF NameMatches, Begins
<1>5. ~(i < t)
  BY <1>1, <1>3, <1>4
<1>6. ~(t < i)
  BY <1>1, <1>3 DEF Ascending
<1>7. t = i
  BY <1>1, <1>3, <1>5, <1>6
<1> QED BY <1>1, <1>2, <1>7

\* For any names and any order of creations, attempts and deletions: an attempt under
\* an account's own name reaches no other account, unless an older one's name begins
\* with it.
THEOREM OnlyOwnNameTried == Spec => OwnNameTried
<1>1. Inv => OthersLeft
  BY OthersStep DEF Inv
<1>2. Inv /\ [Next]_vars => [OthersLeft]_auth_vars
  BY <1>1
<1> QED BY SpecInv, <1>2, PTL DEF Spec, OwnNameTried, OthersLeft
=============================================================================
