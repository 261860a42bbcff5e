------------------------ MODULE VirtualizationProofs ------------------------
(***************************************************************************)
(* For every size of the tables and every limit, the ones above the arrays *)
(* included: while nothing has been stored behind an array, the tables     *)
(* stay ordered, processes belong to active containers, addresses repeat   *)
(* by the cycle and both managers implement Lifecycle.                     *)
(***************************************************************************)
EXTENDS Virtualization, IdTableProofs

\* The state of every machine of a table, by id: what Lifecycle sees.
States(table) == [id \in Ids(table) |-> Entry(table, id).state]

\* The three operations on a table, seen through States.
LEMMA AppendStates ==
    ASSUME NEW R, NEW table, Ordered(R, table), NEW e \in R, e.id \in Int,
           \A id \in Ids(table) : id < e.id
    PROVE  States(Append(table, e)) =
             [id \in Ids(table) \cup {e.id} |->
                IF id = e.id THEN e.state ELSE States(table)[id]]
<1> DEFINE t == Append(table, e)
<1>1. /\ Ids(t) = Ids(table) \cup {e.id}
      /\ Entry(t, e.id) = e
      /\ \A id \in Ids(table) : Entry(t, id) = Entry(table, id)
  BY AppendEntry
<1> HIDE DEF t
<1> QED BY <1>1 DEF States, t

LEMMA ChangeStates ==
    ASSUME NEW R, NEW table, Ordered(R, table), NEW i \in 1 .. Len(table),
           NEW e \in R, e.id = table[i].id,
           NEW t, t = Changed(table, i, e)
    PROVE  /\ e.id \in Ids(table)
           /\ States(table)[e.id] = table[i].state
           /\ States(t) = [States(table) EXCEPT ![e.id] = e.state]
<1>1. /\ Ids(t) = Ids(table)
      /\ Entry(t, e.id) = e
      /\ \A id \in Ids(table) \ {e.id} : Entry(t, id) = Entry(table, id)
  BY ChangeEntry
<1>2. e.id \in Ids(table) /\ Entry(table, e.id) = table[i]
  BY EntryAt
<1>3. States(t) = [States(table) EXCEPT ![e.id] = e.state]
  BY <1>1, <1>2 DEF States
<1> QED BY <1>2, <1>3 DEF States

LEMMA ShiftOutStates ==
    ASSUME NEW R, NEW table, Ordered(R, table), NEW i \in 1 .. Len(table)
    PROVE  /\ table[i].id \in Ids(table)
           /\ States(ShiftOut(table, i)) =
                [id \in Ids(table) \ {table[i].id} |-> States(table)[id]]
<1> DEFINE t == ShiftOut(table, i)
<1>1. /\ Ids(t) = Ids(table) \ {table[i].id}
      /\ \A id \in Ids(t) : Entry(t, id) = Entry(table, id)
  BY ShiftOutEntry
<1>2. table[i].id \in Ids(table)
  BY EntryAt
<1> HIDE DEF t
<1> QED BY <1>1, <1>2 DEF States, t

-----------------------------------------------------------------------------
\* Containers: the conjunction of the invariants is inductive.
ContainerInv ==
    /\ ContainerTypeOK
    /\ ContainerIdsAscending
    /\ ContainerPidWhileActive

LEMMA ContainersOrdered == ContainerInv => Ordered(Container, containers)
<1> SUFFICES ASSUME ContainerInv PROVE Ordered(Container, containers)
  OBVIOUS
<1>1. containers \in Seq(Container)
  BY DEF ContainerInv, ContainerTypeOK
<1>2. \A i \in 1 .. Len(containers) : containers[i] \in Container
  BY <1>1, ElementOfSeq
<1>3. \A i \in 1 .. Len(containers) : containers[i].id \in Int
  BY <1>2, ContainerAssumption DEF Container
<1> QED BY <1>1, <1>3 DEF Ordered, ContainerInv, ContainerIdsAscending

\* What an operation on one container means to Lifecycle.
ContainerKeeps ==
    /\ ContainerInv'
    /\ [ContainerLifecycle!Next]_(ContainerLifecycle!vars)

LEMMA ContainerCreateStep ==
    ASSUME ContainerInv, container_create PROVE ContainerKeeps
<1> DEFINE e == [id |-> next_container_id, state |-> "STOPPED", pid |-> 0,
                 port_count |-> 0, updates |-> 0]
<1>1. /\ containers' = Append(containers, e)
      /\ next_container_id <= ContainerCreations
      /\ next_container_id' = next_container_id + 1
      /\ max_containers' = max_containers
      /\ container_overrun' = container_overrun
  BY DEF container_create, ContainerRoom, NewContainerId
<1>2. /\ containers \in Seq(Container) /\ Len(containers) \in Nat
      /\ next_container_id \in 1 .. ContainerCreations + 1
      /\ max_containers \in Int
      /\ container_overrun \in BOOLEAN
  BY LenProperties DEF ContainerInv, ContainerTypeOK
<1>3. e \in Container /\ e.id = next_container_id /\ e.id \in Int
      /\ e.pid = 0 /\ e.state = "STOPPED"
  BY <1>1, <1>2, ContainerAssumption DEF Container
<1>4. \A id \in Ids(containers) : id < e.id
  BY <1>3 DEF ContainerInv, ContainerIdsAscending
<1>5. Ordered(Container, containers)
  BY ContainersOrdered
<1> HIDE DEF e
<1>6. /\ Ordered(Container, containers')
      /\ Len(containers') = Len(containers) + 1
      /\ Ids(containers') = Ids(containers) \cup {e.id}
      /\ \A id \in Ids(containers) : Entry(containers', id) = Entry(containers, id)
  BY <1>1, <1>3, <1>4, <1>5, AppendEntry
<1>7. ContainerInv'
  <2>1. ContainerTypeOK'
    <3>1. containers' \in Seq(Container)
      BY <1>6 DEF Ordered
    <3>2. next_container_id' \in 1 .. ContainerCreations + 1
      BY <1>1, <1>2, ContainerAssumption
    <3> QED BY <1>1, <1>2, <3>1, <3>2 DEF ContainerTypeOK
  <2>2. ContainerIdsAscending'
    <3>1. \A id \in Ids(containers') : id < next_container_id'
      <4>1. \A id \in Ids(containers) : id < next_container_id /\ id \in Int
        BY <1>5 DEF ContainerInv, ContainerIdsAscending, Ids, Ordered
      <4> QED BY <1>1, <1>2, <1>3, <1>6, <4>1
    <3> QED BY <1>6, <3>1 DEF ContainerIdsAscending, Ordered
  <2>3. ContainerPidWhileActive'
    <3>1. \A i \in 1 .. Len(containers) : containers'[i] = containers[i]
      BY <1>1, <1>2, <1>3
    <3>2. containers'[Len(containers) + 1] = e
      BY <1>1, <1>2, <1>3
    <3>3. ASSUME NEW i \in 1 .. Len(containers)'
          PROVE  containers'[i].pid # 0 <=>
                   containers'[i].state \in {"RUNNING", "PAUSED"}
      <4>1. CASE i = Len(containers) + 1
        BY <1>3, <3>2, <4>1
      <4>2. CASE i # Len(containers) + 1
        <5>1. i \in 1 .. Len(containers)
          BY <1>2, <1>6, <4>2
        <5> QED BY <3>1, <5>1 DEF ContainerInv, ContainerPidWhileActive
      <4> QED BY <4>1, <4>2
    <3> QED BY <3>3 DEF ContainerPidWhileActive
  <2> QED BY <2>1, <2>2, <2>3 DEF ContainerInv
<1>9. ContainerLifecycle!Next
  <2>1. States(containers') =
          [id \in Ids(containers) \cup {e.id} |->
             IF id = e.id THEN "STOPPED" ELSE States(containers)[id]]
    <3>1. States(Append(containers, e)) =
            [id \in Ids(containers) \cup {e.id} |->
               IF id = e.id THEN e.state ELSE States(containers)[id]]
      BY SMTT(30), <1>3, <1>4, <1>5, AppendStates
    <3> QED BY <1>1, <1>3, <3>1
  <2>2. e.id = (next_container_id - 1) + 1
        /\ next_container_id' - 1 = (next_container_id - 1) + 1
    BY <1>1, <1>2, <1>3
  <2>3. ContainerLifecycle!Create
    BY <2>1, <2>2 DEF ContainerLifecycle!Create, States
  <2> QED BY <2>3 DEF ContainerLifecycle!Next
<1> QED BY <1>7, <1>9 DEF ContainerKeeps

\* An operation that gives one container another entry, legally for Lifecycle.
LEMMA ContainerChangeStep ==
    ASSUME ContainerInv, NEW i \in 1 .. Len(containers), NEW e \in Container,
           e.id = containers[i].id,
           e.pid # 0 <=> e.state \in {"RUNNING", "PAUSED"},
           \/ e.state = containers[i].state
           \/ <<containers[i].state, e.state>> \in ContainerTransitions,
           ContainerChange(i, e)
    PROVE  ContainerKeeps /\ OthersUntouched(e.id)
<1>1. /\ containers' = Changed(containers, i, e)
      /\ next_container_id' = next_container_id
      /\ max_containers' = max_containers
      /\ container_overrun' = container_overrun
  BY DEF ContainerChange, Changed
<1>2. Ordered(Container, containers)
  BY ContainersOrdered
<1>3. /\ Ordered(Container, containers')
      /\ Len(containers') = Len(containers)
      /\ \A k \in 1 .. Len(containers) :
            containers'[k] = IF k = i THEN e ELSE containers[k]
      /\ Ids(containers') = Ids(containers)
      /\ \A id \in Ids(containers) \ {e.id} :
            Entry(containers', id) = Entry(containers, id)
  BY <1>1, <1>2, ChangeEntry
<1>4. ContainerInv'
  <2>1. ContainerTypeOK'
    BY <1>1, <1>3 DEF ContainerTypeOK, ContainerInv, Ordered
  <2>2. ContainerIdsAscending'
    BY <1>1, <1>3 DEF ContainerIdsAscending, ContainerInv, Ordered
  <2>3. ContainerPidWhileActive'
    BY <1>3 DEF ContainerPidWhileActive, ContainerInv
  <2> QED BY <2>1, <2>2, <2>3 DEF ContainerInv
<1>5. OthersUntouched(e.id)
  BY <1>3 DEF OthersUntouched
<1>6. [ContainerLifecycle!Next]_(ContainerLifecycle!vars)
  <2>1. /\ e.id \in Ids(containers)
        /\ States(containers)[e.id] = containers[i].state
        /\ States(containers') = [States(containers) EXCEPT ![e.id] = e.state]
    BY <1>1, <1>2, ChangeStates
  <2>2. DOMAIN States(containers) = Ids(containers)
    BY DEF States
  <2>3. CASE e.state = containers[i].state
    <3>1. States(containers') = States(containers)
      BY <2>1, <2>2, <2>3 DEF States
    <3> QED BY <1>1, <3>1 DEF ContainerLifecycle!vars, States
  <2>4. CASE <<containers[i].state, e.state>> \in ContainerTransitions
    <3>1. \E id \in DOMAIN States(containers), t \in ContainerTransitions :
             /\ States(containers)[id] = t[1]
             /\ States(containers') = [States(containers) EXCEPT ![id] = t[2]]
      <4>1. /\ States(containers)[e.id] = <<containers[i].state, e.state>>[1]
            /\ States(containers') = [States(containers) EXCEPT
                  ![e.id] = <<containers[i].state, e.state>>[2]]
        BY <2>1
      <4> QED BY <2>1, <2>2, <2>4, <4>1
    <3>2. ContainerLifecycle!Move
      BY <1>1, <3>1 DEF ContainerLifecycle!Move, States
    <3> QED BY <3>2 DEF ContainerLifecycle!Next
  <2> QED BY <2>3, <2>4
<1> QED BY <1>4, <1>5, <1>6 DEF ContainerKeeps

LEMMA ContainerDeleteStep ==
    ASSUME ContainerInv, NEW id, container_delete(id)
    PROVE  ContainerKeeps /\ OthersUntouched(id)
<1>1. PICK i \in 1 .. Len(containers) :
         /\ containers[i].id = id
         /\ containers' = ShiftOut(containers, i)
         /\ next_container_id' = next_container_id
         /\ max_containers' = max_containers
         /\ container_overrun' = container_overrun
  BY DEF container_delete, Found
<1>2. Ordered(Container, containers)
  BY ContainersOrdered
<1>3. /\ Ordered(Container, containers')
      /\ Len(containers') = Len(containers) - 1
      /\ \A k \in 1 .. Len(containers') :
            \E j \in 1 .. Len(containers) : containers'[k] = containers[j]
      /\ Ids(containers') = Ids(containers) \ {containers[i].id}
      /\ \A x \in Ids(containers') : Entry(containers', x) = Entry(containers, x)
  <2> DEFINE t == ShiftOut(containers, i)
  <2>1. /\ Ordered(Container, t)
        /\ Len(t) = Len(containers) - 1
        /\ \A k \in 1 .. Len(t) :
              \E j \in 1 .. Len(containers) : t[k] = containers[j]
        /\ Ids(t) = Ids(containers) \ {containers[i].id}
        /\ \A x \in Ids(t) : Entry(t, x) = Entry(containers, x)
    BY <1>2, ShiftOutEntry
  <2>2. containers' = t
    BY <1>1
  <2> HIDE DEF t
  <2> QED BY <2>1, <2>2
<1>4. ContainerInv'
  <2>1. ContainerTypeOK'
    BY <1>1, <1>3 DEF ContainerTypeOK, ContainerInv, Ordered
  <2>2. ContainerIdsAscending'
    BY <1>1, <1>3 DEF ContainerIdsAscending, ContainerInv, Ordered
  <2>3. ContainerPidWhileActive'
    BY <1>3 DEF ContainerPidWhileActive, ContainerInv
  <2> QED BY <2>1, <2>2, <2>3 DEF ContainerInv
<1>5. OthersUntouched(id)
  BY <1>1, <1>3 DEF OthersUntouched
<1>6. ContainerLifecycle!Next
  <2>1. /\ containers[i].id \in Ids(containers)
        /\ States(containers') =
             [x \in Ids(containers) \ {containers[i].id} |-> States(containers)[x]]
    BY <1>1, <1>2, ShiftOutStates
  <2>2. DOMAIN States(containers) = Ids(containers)
    BY DEF States
  <2>3. ContainerLifecycle!Delete
    BY <1>1, <2>1, <2>2 DEF ContainerLifecycle!Delete, States
  <2> QED BY <2>3 DEF ContainerLifecycle!Next
<1> QED BY <1>4, <1>5, <1>6 DEF ContainerKeeps

LEMMA ContainerStep ==
    ASSUME ContainerInv
    PROVE  /\ [ContainerNext]_container_vars => ContainerKeeps
           /\ \A id : ContainerOperation(id) => OthersUntouched(id)
<1>1. /\ containers \in Seq(Container)
      /\ \A i \in 1 .. Len(containers) : containers[i] \in Container
      /\ next_container_id \in Nat /\ next_container_id # 0
  <2>1. containers \in Seq(Container)
    BY DEF ContainerInv, ContainerTypeOK
  <2>2. \A i \in 1 .. Len(containers) : containers[i] \in Container
    BY <2>1, ElementOfSeq
  <2>3. next_container_id \in Nat /\ next_container_id # 0
    BY ContainerAssumption DEF ContainerInv, ContainerTypeOK
  <2> QED BY <2>1, <2>2, <2>3
<1>2. ASSUME NEW id, NEW i \in Found(containers, id)
      PROVE  /\ i \in 1 .. Len(containers)
             /\ containers[i].id = id
             /\ containers[i] \in Container
             /\ containers[i].pid # 0 <=>
                  containers[i].state \in {"RUNNING", "PAUSED"}
  BY <1>1 DEF Found, ContainerInv, ContainerPidWhileActive
<1>3. ASSUME container_create PROVE ContainerKeeps
  BY <1>3, ContainerCreateStep
<1>4. ASSUME NEW id, container_start(id)
      PROVE  ContainerKeeps /\ OthersUntouched(id)
  <2> DEFINE pid == (next_container_id * 1000) % PidCycle
  <2>1. PICK i \in Found(containers, id) :
           /\ containers[i].state = "STOPPED"
           /\ ContainerChange(i, [containers[i] EXCEPT
                 !.state = "RUNNING", !.pid = pid])
    BY <1>4 DEF container_start
  <2>2. pid \in Nat /\ pid # 0
    <3> DEFINE n == next_container_id * 1000
    <3>1. next_container_id \in 1 .. ContainerCreations + 1
      BY DEF ContainerInv, ContainerTypeOK
    <3>2. n \in Nat /\ n # 0 /\ n < PidCycle
      BY <3>1, ContainerAssumption
    <3> HIDE DEF n
    <3>3. n % PidCycle = n
      BY <3>2, ContainerAssumption
    <3> QED BY <3>2, <3>3 DEF n
  <2> HIDE DEF pid
  <2> DEFINE e == [containers[i] EXCEPT !.state = "RUNNING", !.pid = pid]
  <2>3. /\ e \in Container /\ e.id = containers[i].id
        /\ e.pid # 0 /\ e.state = "RUNNING"
    BY ZenonT(30), <1>2, <2>2 DEF Container
  <2>4. ContainerChange(i, e)
    BY <2>1
  <2> HIDE DEF e
  <2> QED BY <1>2, <2>1, <2>3, <2>4, ContainerChangeStep DEF ContainerTransitions
<1>5. ASSUME NEW id, container_stop(id)
      PROVE  ContainerKeeps /\ OthersUntouched(id)
  <2>1. PICK i \in Found(containers, id) :
           /\ containers[i].state = "RUNNING"
           /\ ContainerChange(i, Stopped(containers[i]))
    BY <1>5 DEF container_stop
  <2>2. /\ Stopped(containers[i]) \in Container
        /\ Stopped(containers[i]).id = containers[i].id
        /\ Stopped(containers[i]).pid = 0
        /\ Stopped(containers[i]).state = "STOPPED"
    BY ZenonT(30), <1>2 DEF Container, Stopped
  <2> QED BY <1>2, <2>1, <2>2, ContainerChangeStep DEF ContainerTransitions
<1>6. ASSUME NEW id, container_pause(id)
      PROVE  ContainerKeeps /\ OthersUntouched(id)
  <2>1. PICK i \in Found(containers, id) :
           /\ containers[i].state = "RUNNING"
           /\ ContainerChange(i, [containers[i] EXCEPT !.state = "PAUSED"])
    BY <1>6 DEF container_pause
  <2> DEFINE e == [containers[i] EXCEPT !.state = "PAUSED"]
  <2>2. /\ e \in Container /\ e.id = containers[i].id
        /\ e.pid = containers[i].pid /\ e.state = "PAUSED"
    BY <1>2 DEF Container
  <2>3. ContainerChange(i, e)
    BY <2>1
  <2> HIDE DEF e
  <2> QED BY <1>2, <2>1, <2>2, <2>3, ContainerChangeStep DEF ContainerTransitions
<1>7. ASSUME NEW id, container_resume(id)
      PROVE  ContainerKeeps /\ OthersUntouched(id)
  <2>1. PICK i \in Found(containers, id) :
           /\ containers[i].state = "PAUSED"
           /\ ContainerChange(i, [containers[i] EXCEPT !.state = "RUNNING"])
    BY <1>7 DEF container_resume
  <2> DEFINE e == [containers[i] EXCEPT !.state = "RUNNING"]
  <2>2. /\ e \in Container /\ e.id = containers[i].id
        /\ e.pid = containers[i].pid /\ e.state = "RUNNING"
    BY <1>2 DEF Container
  <2>3. ContainerChange(i, e)
    BY <2>1
  <2> HIDE DEF e
  <2> QED BY <1>2, <2>1, <2>2, <2>3, ContainerChangeStep DEF ContainerTransitions
<1>8. ASSUME NEW id, container_expose_port(id)
      PROVE  ContainerKeeps /\ OthersUntouched(id)
  <2>1. PICK i \in Found(containers, id) :
           /\ containers[i].port_count < ExposedPorts
           /\ ContainerChange(i, [containers[i] EXCEPT !.port_count = @ + 1])
    BY <1>8 DEF container_expose_port, PortRoom
  <2> DEFINE e == [containers[i] EXCEPT !.port_count = @ + 1]
  <2>2. /\ e \in Container /\ e.id = containers[i].id
        /\ e.pid = containers[i].pid /\ e.state = containers[i].state
    BY SMTT(30), <1>2, <2>1, ContainerAssumption DEF Container
  <2>3. ContainerChange(i, e)
    BY <2>1
  <2> HIDE DEF e
  <2>4. e.pid # 0 <=> e.state \in {"RUNNING", "PAUSED"}
    BY <1>2, <2>2
  <2> QED BY <1>2, <2>2, <2>3, <2>4, ContainerChangeStep
<1>10. ASSUME NEW id, container_update_stats(id)
       PROVE  ContainerKeeps /\ OthersUntouched(id)
  <2>1. PICK i \in Found(containers, id) :
           ContainerChange(i, [containers[i] EXCEPT
                                  !.updates = (@ + 1) % UpdateCycle])
    BY <1>10 DEF container_update_stats
  <2> DEFINE e == [containers[i] EXCEPT !.updates = (@ + 1) % UpdateCycle]
  <2>2. /\ e \in Container /\ e.id = containers[i].id
        /\ e.pid = containers[i].pid /\ e.state = containers[i].state
    BY SMTT(30), <1>2, ContainerAssumption DEF Container
  <2>3. ContainerChange(i, e)
    BY <2>1
  <2> HIDE DEF e
  <2>4. e.pid # 0 <=> e.state \in {"RUNNING", "PAUSED"}
    BY <1>2, <2>2
  <2> QED BY <1>2, <2>2, <2>3, <2>4, ContainerChangeStep
<1>9. ASSUME \/ container_create_past_end
             \/ \E max \in ContainerLimits : container_set_max(max)
             \/ UNCHANGED container_vars
      PROVE  ContainerKeeps
  <2>1. /\ containers' = containers /\ next_container_id' = next_container_id
        /\ max_containers' \in Int /\ container_overrun' \in BOOLEAN
    BY <1>9, ContainerAssumption
       DEF container_create_past_end, container_set_max, container_vars,
           ContainerInv, ContainerTypeOK
  <2>2. ContainerInv'
    BY <2>1 DEF ContainerInv, ContainerTypeOK, ContainerIdsAscending,
                ContainerPidWhileActive
  <2>3. UNCHANGED ContainerLifecycle!vars
    BY <2>1 DEF ContainerLifecycle!vars
  <2> QED BY <2>2, <2>3 DEF ContainerKeeps
<1> QED BY <1>3, <1>4, <1>5, <1>6, <1>7, <1>8, <1>9, <1>10, ContainerDeleteStep
        DEF ContainerNext, ContainerOperation

-----------------------------------------------------------------------------
\* MAC addresses: two numbers with the same last digit.
LEMMA SameDigit ==
    ASSUME NEW B \in Nat \ {0}, NEW a \in Nat, NEW b \in Nat, a % B = b % B
    PROVE  /\ b - a = B * (b \div B - a \div B)
           /\ a \div B \in Nat /\ b \div B \in Nat
<1>1. a % B = a - B * (a \div B) /\ b % B = b - B * (b \div B)
  OBVIOUS
<1>2. a \div B \in Nat /\ b \div B \in Nat
  OBVIOUS
<1> DEFINE p == a \div B
           q == b \div B
<1>3. a - B * p = b - B * q /\ p \in Nat /\ q \in Nat
  BY <1>1, <1>2
<1> HIDE DEF p, q
<1>4. b - a = B * q - B * p
  BY <1>3
<1>5. B * q - B * p = B * (q - p)
  BY <1>3
<1> QED BY <1>2, <1>4, <1>5 DEF p, q

\* Three equal digits: the numbers are whole cycles apart.
LEMMA SameDigits ==
    ASSUME NEW B \in Nat \ {0}, NEW a \in Nat, NEW b \in Nat,
           a % B = b % B, (a \div B) % B = (b \div B) % B,
           (a \div (B * B)) % B = (b \div (B * B)) % B
    PROVE  \E k \in Int : b - a = B * B * B * k
<1> DEFINE a1 == a \div B
           b1 == b \div B
           a2 == a1 \div B
           b2 == b1 \div B
<1>1. b - a = B * (b1 - a1) /\ a1 \in Nat /\ b1 \in Nat
  BY SameDigit
<1>2. a2 = a \div (B * B) /\ b2 = b \div (B * B)
  OBVIOUS
<1>3. a1 % B = b1 % B /\ a2 % B = b2 % B
  BY <1>2
<1> HIDE DEF a1, b1
<1>4. b1 - a1 = B * (b2 - a2) /\ a2 \in Nat /\ b2 \in Nat
  BY <1>1, <1>3, SameDigit
<1> HIDE DEF a2, b2
<1>5. /\ b2 - a2 = B * (b2 \div B - a2 \div B)
      /\ b2 \div B \in Nat /\ a2 \div B \in Nat
  BY <1>3, <1>4, SameDigit
<1> DEFINE k == b2 \div B - a2 \div B
<1>6. k \in Int /\ b2 - a2 = B * k
  BY <1>5
<1> HIDE DEF k
<1>7. b - a = B * (B * (B * k))
  <2>1. b1 - a1 = B * (B * k)
    BY <1>4, <1>6
  <2> QED BY <1>1, <2>1
<1>8. B * (B * (B * k)) = B * B * B * k
  <2> DEFINE D == B * B
  <2>1. D \in Nat /\ B * (B * k) = D * k
    BY <1>6
  <2>2. B * B * B = D * B
    OBVIOUS
  <2> HIDE DEF D
  <2>3. B * (D * k) = (D * B) * k
    BY <1>6, <2>1
  <2> QED BY <2>1, <2>2, <2>3
<1> QED BY <1>6, <1>7, <1>8

\* A quotient and a remainder are the only ones.
LEMMA Divided ==
    ASSUME NEW B \in Nat \ {0}, NEW q \in Nat, NEW r \in 0 .. B - 1
    PROVE  (B * q + r) \div B = q /\ (B * q + r) % B = r
<1> DEFINE x == B * q + r
           p == x \div B
           s == x % B
<1>1. /\ B * q \in Nat /\ x \in Nat
      /\ p \in Nat /\ s \in 0 .. B - 1
      /\ x = B * p + s
  <2>1. B * q \in Nat
    OBVIOUS
  <2>2. x \in Nat
    BY <2>1
  <2> HIDE DEF x
  <2> QED BY <2>1, <2>2
<1>2. B * q + r = B * p + s
  BY <1>1
<1> HIDE DEF p, s
<1>3. B * p - B * q = B * (p - q) /\ B * p - B * q = r - s
  BY <1>1, <1>2
<1>4. CASE p - q >= 1
  <2>1. B * (p - q) >= B
    BY <1>1, <1>4
  <2> QED BY <1>1, <1>3, <2>1
<1>5. CASE p - q <= -1
  <2>1. B * (p - q) <= -B
    BY <1>1, <1>5
  <2> QED BY <1>1, <1>3, <2>1
<1>6. CASE p = q
  BY <1>1, <1>2, <1>6 DEF p, s
<1> QED BY <1>1, <1>4, <1>5, <1>6

\* Adding a multiple of the base keeps the last digit.
LEMMA DigitKept ==
    ASSUME NEW B \in Nat \ {0}, NEW a \in Nat, NEW k \in Nat
    PROVE  (a + B * k) % B = a % B /\ (a + B * k) \div B = a \div B + k
<1> DEFINE p == a \div B
           r == a % B
<1>1. p \in Nat /\ r \in 0 .. B - 1 /\ a = B * p + r
  OBVIOUS
<1> HIDE DEF p, r
<1>2. p + k \in Nat /\ B * (p + k) = B * p + B * k
  BY <1>1
<1>3. B * p \in Nat /\ B * k \in Nat
  BY <1>1
<1>4. a + B * k = B * (p + k) + r
  BY <1>1, <1>2, <1>3
<1>5. (B * (p + k) + r) % B = r /\ (B * (p + k) + r) \div B = p + k
  BY <1>1, <1>2, Divided
<1> QED BY <1>4, <1>5 DEF p, r

\* Whole cycles apart: the three digits are equal.
CyclesApart(B, a, b) == \E k \in Nat : b - a = B * B * B * k

LEMMA DigitsKept ==
    ASSUME NEW B \in Nat \ {0}, NEW a \in Nat, NEW b \in Nat, CyclesApart(B, a, b)
    PROVE  /\ a % B = b % B
           /\ (a \div B) % B = (b \div B) % B
           /\ (a \div (B * B)) % B = (b \div (B * B)) % B
<1>0. PICK k \in Nat : b - a = B * B * B * k
  BY DEF CyclesApart
<1> DEFINE k1 == B * k
           k2 == B * k1
           a1 == a \div B
           b1 == b \div B
           a2 == a1 \div B
           b2 == b1 \div B
<1>1. k1 \in Nat /\ k2 \in Nat /\ a1 \in Nat /\ a2 \in Nat
  OBVIOUS
<1>2. a2 = a \div (B * B) /\ b2 = b \div (B * B)
  OBVIOUS
<1>3. B * B * B * k = B * k2
  <2> DEFINE D == B * B
  <2>1. D \in Nat /\ k2 = D * k
    OBVIOUS
  <2>2. B * B * B = D * B
    OBVIOUS
  <2> HIDE DEF D, k2
  <2>3. B * (D * k) = (D * B) * k
    BY <2>1
  <2> QED BY <2>1, <2>2, <2>3
<1>4. b = a + B * k2
  <2>1. B * k2 \in Nat
    BY <1>1
  <2> QED BY <1>0, <1>3, <2>1
<1> HIDE DEF k1, k2
<1>5. b % B = a % B /\ b1 = a1 + k2
  BY <1>1, <1>4, DigitKept
<1>6. k2 = B * k1
  BY DEF k1, k2
<1> HIDE DEF a1, b1
<1>7. b1 % B = a1 % B /\ b2 = a2 + k1
  BY <1>1, <1>5, <1>6, DigitKept
<1>8. k1 = B * k
  BY DEF k1
<1> HIDE DEF a2, b2
<1>9. b2 % B = a2 % B
  BY <1>1, <1>7, <1>8, DigitKept
<1> QED BY <1>2, <1>5, <1>7, <1>9 DEF a1, b1

LEMMA Multiple ==
    ASSUME NEW C \in Nat \ {0}, NEW d \in Nat, d % C = 0
    PROVE  d \div C \in Nat /\ d = C * (d \div C)
<1>1. d \div C \in Nat /\ d % C = d - C * (d \div C)
  OBVIOUS
<1> DEFINE q == d \div C
<1>2. q \in Nat /\ 0 = d - C * q
  BY <1>1
<1> HIDE DEF q
<1>3. C * q \in Nat
  BY <1>2
<1>4. d = C * q
  BY <1>2, <1>3
<1> QED BY <1>2, <1>4 DEF q

\* So two numbers have the same digits exactly when they are whole cycles apart.
LEMMA SameAddress ==
    ASSUME NEW a \in Nat, NEW b \in Nat, a < b
    PROVE  MacAddress(a) = MacAddress(b)
             <=> (b - a) % (MacBase * MacBase * MacBase) = 0
<1> DEFINE C == MacBase * MacBase * MacBase
<1>1. MacBase \in Nat \ {0} /\ C \in Nat \ {0}
  <2>1. MacBase \in Nat \ {0}
    BY VmAssumption
  <2>2. MacBase * MacBase \in Nat \ {0}
    BY <2>1
  <2> QED BY <2>1, <2>2
<1>2. ASSUME MacAddress(a) = MacAddress(b)
      PROVE  (b - a) % C = 0
  <2>1. PICK k \in Int : b - a = C * k
    BY <1>1, <1>2, SameDigits DEF MacAddress
  <2> HIDE DEF C
  <2>2. k \in Nat
    <3>1. CASE k <= -1
      <4>1. C * k <= -C
        BY <1>1, <3>1
      <4> QED BY <1>1, <2>1, <4>1
    <3> QED BY <3>1
  <2>3. (C * k + 0) % C = 0
    BY <1>1, <2>2, Divided
  <2>4. C * k + 0 = C * k
    BY <1>1, <2>2
  <2> QED BY <2>1, <2>3, <2>4
<1>3. ASSUME (b - a) % C = 0
      PROVE  MacAddress(a) = MacAddress(b)
  <2>1. b - a \in Nat
    OBVIOUS
  <2>2. (b - a) \div C \in Nat /\ b - a = C * ((b - a) \div C)
    <3> HIDE DEF C
    <3> QED BY <1>1, <1>3, <2>1, Multiple
  <2>3. CyclesApart(MacBase, a, b)
    BY <2>2 DEF CyclesApart
  <2>4. MacBase \in Nat \ {0}
    BY VmAssumption
  <2>5. /\ a % MacBase = b % MacBase
        /\ (a \div MacBase) % MacBase = (b \div MacBase) % MacBase
        /\ (a \div (MacBase * MacBase)) % MacBase
             = (b \div (MacBase * MacBase)) % MacBase
    BY ZenonT(30), <2>3, <2>4, DigitsKept
  <2> QED BY <2>5 DEF MacAddress
<1> QED BY <1>2, <1>3

-----------------------------------------------------------------------------
\* Virtual machines: ordered ids, and addresses made from them.
VmInv ==
    /\ VmTypeOK
    /\ Ascending(vms)
    /\ \A id \in Ids(vms) : id < next_vm_id
    /\ \A i \in 1 .. Len(vms) : vms[i].mac_address = MacAddress(vms[i].id)

LEMMA VmsOrdered ==
    ASSUME VmInv
    PROVE  /\ Ordered(Vm, vms)
           /\ \A i \in 1 .. Len(vms) : vms[i] \in Vm /\ vms[i].id \in Nat
<1>1. vms \in Seq(Vm)
  BY DEF VmInv, VmTypeOK
<1>2. \A i \in 1 .. Len(vms) : vms[i] \in Vm
  BY <1>1, ElementOfSeq
<1>3. \A i \in 1 .. Len(vms) : vms[i].id \in Nat
  BY <1>2, VmAssumption DEF Vm
<1> QED BY <1>1, <1>2, <1>3 DEF Ordered, VmInv

VmKeeps ==
    /\ VmInv'
    /\ [VmLifecycle!Next]_(VmLifecycle!vars)

LEMMA MacAddressType ==
    ASSUME NEW id \in Nat PROVE MacAddress(id) \in Digit \X Digit \X Digit
<1>1. \A n \in Int : n % MacBase \in Digit
  BY VmAssumption DEF Digit
<1>2. id \div MacBase \in Int
  BY VmAssumption
<1>3. id \div (MacBase * MacBase) \in Int
  <2>1. MacBase * MacBase \in Nat \ {0}
    BY VmAssumption
  <2> QED BY <2>1
<1> QED BY <1>1, <1>2, <1>3 DEF MacAddress

LEMMA VmCreateStep ==
    ASSUME VmInv, vm_create PROVE VmKeeps
<1> DEFINE e == [id |-> next_vm_id, state |-> "STOPPED",
                 mac_address |-> MacAddress(next_vm_id), disk_count |-> 0,
                 uptime |-> 0]
<1>1. /\ vms' = Append(vms, e)
      /\ next_vm_id <= VmCreations
      /\ next_vm_id' = next_vm_id + 1
      /\ max_vms' = max_vms
      /\ vm_overrun' = vm_overrun
  BY DEF vm_create
<1>2. /\ vms \in Seq(Vm) /\ Len(vms) \in Nat
      /\ next_vm_id \in 1 .. VmCreations + 1
      /\ max_vms \in Int
      /\ vm_overrun \in BOOLEAN
  BY LenProperties DEF VmInv, VmTypeOK
<1>3. next_vm_id \in 1 .. VmCreations /\ next_vm_id \in Nat
  BY <1>1, <1>2, VmAssumption
<1>4. /\ e \in Vm /\ e.id = next_vm_id /\ e.id \in Int
      /\ e.mac_address = MacAddress(e.id) /\ e.state = "STOPPED"
  BY <1>3, MacAddressType, VmAssumption DEF Vm
<1>5. \A id \in Ids(vms) : id < e.id
  BY <1>4 DEF VmInv
<1>6. Ordered(Vm, vms)
  BY VmsOrdered
<1> HIDE DEF e
<1>7. /\ Ordered(Vm, vms')
      /\ Len(vms') = Len(vms) + 1
      /\ Ids(vms') = Ids(vms) \cup {e.id}
  BY <1>1, <1>4, <1>5, <1>6, AppendEntry
<1>8. VmInv'
  <2>1. VmTypeOK'
    <3>1. next_vm_id' \in 1 .. VmCreations + 1
      BY <1>1, <1>3, VmAssumption
    <3> QED BY <1>1, <1>2, <1>7, <3>1 DEF VmTypeOK, Ordered
  <2>2. \A id \in Ids(vms') : id < next_vm_id'
    <3>1. \A id \in Ids(vms) : id < next_vm_id /\ id \in Int
      BY <1>6 DEF VmInv, Ids, Ordered
    <3> QED BY <1>1, <1>3, <1>4, <1>7, <3>1
  <2>3. \A i \in 1 .. Len(vms') : vms'[i].mac_address = MacAddress(vms'[i].id)
    <3>1. \A i \in 1 .. Len(vms) : vms'[i] = vms[i]
      BY <1>1, <1>2, <1>4
    <3>2. vms'[Len(vms) + 1] = e
      BY <1>1, <1>2, <1>4
    <3>3. \A i \in 1 .. Len(vms') : i \in 1 .. Len(vms) \/ i = Len(vms) + 1
      BY <1>2, <1>7
    <3> QED BY <1>4, <3>1, <3>2, <3>3 DEF VmInv
  <2> QED BY <1>7, <2>1, <2>2, <2>3 DEF VmInv, Ordered
<1>9. VmLifecycle!Next
  <2>1. States(vms') =
          [id \in Ids(vms) \cup {e.id} |->
             IF id = e.id THEN "STOPPED" ELSE States(vms)[id]]
    <3>1. States(Append(vms, e)) =
            [id \in Ids(vms) \cup {e.id} |->
               IF id = e.id THEN e.state ELSE States(vms)[id]]
      BY <1>4, <1>5, <1>6, AppendStates
    <3> QED BY <1>1, <1>4, <3>1
  <2>2. /\ e.id = (next_vm_id - 1) + 1
        /\ next_vm_id' - 1 = (next_vm_id - 1) + 1
    BY <1>1, <1>3, <1>4
  <2>3. VmLifecycle!Create
    BY <2>1, <2>2 DEF VmLifecycle!Create, States
  <2> QED BY <2>3 DEF VmLifecycle!Next
<1> QED BY <1>8, <1>9 DEF VmKeeps

LEMMA VmChangeStep ==
    ASSUME VmInv, NEW i \in 1 .. Len(vms), NEW e \in Vm,
           e.id = vms[i].id, e.mac_address = vms[i].mac_address,
           \/ e.state = vms[i].state
           \/ <<vms[i].state, e.state>> \in VmTransitions,
           VmChange(i, e)
    PROVE  VmKeeps
<1>1. /\ vms' = Changed(vms, i, e)
      /\ next_vm_id' = next_vm_id
      /\ max_vms' = max_vms
      /\ vm_overrun' = vm_overrun
  BY DEF VmChange, Changed
<1>2. Ordered(Vm, vms)
  BY VmsOrdered
<1>3. /\ Ordered(Vm, vms')
      /\ Len(vms') = Len(vms)
      /\ \A k \in 1 .. Len(vms) : vms'[k] = IF k = i THEN e ELSE vms[k]
      /\ Ids(vms') = Ids(vms)
  BY <1>1, <1>2, ChangeEntry
<1>4. VmInv'
  <2>1. VmTypeOK'
    BY <1>1, <1>3 DEF VmTypeOK, VmInv, Ordered
  <2>2. \A k \in 1 .. Len(vms') : vms'[k].mac_address = MacAddress(vms'[k].id)
    <3>1. vms[i].mac_address = MacAddress(vms[i].id)
      BY DEF VmInv
    <3>2. e.mac_address = MacAddress(e.id)
      BY <3>1
    <3> QED BY <1>3, <3>2 DEF VmInv
  <2> QED BY <1>1, <1>3, <2>1, <2>2 DEF VmInv, Ordered
<1>5. [VmLifecycle!Next]_(VmLifecycle!vars)
  <2>1. /\ e.id \in Ids(vms)
        /\ States(vms)[e.id] = vms[i].state
        /\ States(vms') = [States(vms) EXCEPT ![e.id] = e.state]
    BY <1>1, <1>2, ChangeStates
  <2>2. DOMAIN States(vms) = Ids(vms)
    BY DEF States
  <2>3. CASE e.state = vms[i].state
    <3>1. States(vms') = States(vms)
      BY <2>1, <2>2, <2>3 DEF States
    <3> QED BY <1>1, <3>1 DEF VmLifecycle!vars, States
  <2>4. CASE <<vms[i].state, e.state>> \in VmTransitions
    <3>1. \E id \in DOMAIN States(vms), t \in VmTransitions :
             /\ States(vms)[id] = t[1]
             /\ States(vms') = [States(vms) EXCEPT ![id] = t[2]]
      <4>1. /\ States(vms)[e.id] = <<vms[i].state, e.state>>[1]
            /\ States(vms') = [States(vms) EXCEPT
                  ![e.id] = <<vms[i].state, e.state>>[2]]
        BY <2>1
      <4> QED BY <2>1, <2>2, <2>4, <4>1
    <3>2. VmLifecycle!Move
      BY <1>1, <3>1 DEF VmLifecycle!Move, States
    <3> QED BY <3>2 DEF VmLifecycle!Next
  <2> QED BY <2>3, <2>4
<1> QED BY <1>4, <1>5 DEF VmKeeps

LEMMA VmDeleteStep ==
    ASSUME VmInv, NEW id, vm_delete(id) PROVE VmKeeps
<1>1. PICK i \in 1 .. Len(vms) :
         /\ vms' = ShiftOut(vms, i)
         /\ next_vm_id' = next_vm_id
         /\ max_vms' = max_vms
         /\ vm_overrun' = vm_overrun
  BY DEF vm_delete, Found
<1>2. Ordered(Vm, vms)
  BY VmsOrdered
<1>3. /\ Ordered(Vm, vms')
      /\ \A k \in 1 .. Len(vms') : \E j \in 1 .. Len(vms) : vms'[k] = vms[j]
      /\ Ids(vms') = Ids(vms) \ {vms[i].id}
  <2> DEFINE t == ShiftOut(vms, i)
  <2>1. /\ Ordered(Vm, t)
        /\ \A k \in 1 .. Len(t) : \E j \in 1 .. Len(vms) : t[k] = vms[j]
        /\ Ids(t) = Ids(vms) \ {vms[i].id}
    BY <1>2, ShiftOutEntry
  <2>2. vms' = t
    BY <1>1
  <2> HIDE DEF t
  <2> QED BY <2>1, <2>2
<1>4. VmInv'
  <2>1. VmTypeOK'
    BY <1>1, <1>3 DEF VmTypeOK, VmInv, Ordered
  <2>2. \A k \in 1 .. Len(vms') : vms'[k].mac_address = MacAddress(vms'[k].id)
    BY <1>3 DEF VmInv
  <2> QED BY <1>1, <1>3, <2>1, <2>2 DEF VmInv, Ordered
<1>5. VmLifecycle!Next
  <2>1. /\ vms[i].id \in Ids(vms)
        /\ States(vms') = [x \in Ids(vms) \ {vms[i].id} |-> States(vms)[x]]
    BY <1>1, <1>2, ShiftOutStates
  <2>2. DOMAIN States(vms) = Ids(vms)
    BY DEF States
  <2>3. VmLifecycle!Delete
    BY <1>1, <2>1, <2>2 DEF VmLifecycle!Delete, States
  <2> QED BY <2>3 DEF VmLifecycle!Next
<1> QED BY <1>4, <1>5 DEF VmKeeps

LEMMA VmMoveStep ==
    ASSUME VmInv, NEW id, NEW From, NEW to \in {"STOPPED", "RUNNING", "PAUSED", "SUSPENDED"},
           \A s \in From : <<s, to>> \in VmTransitions,
           VmMove(id, From, to)
    PROVE  VmKeeps
<1>1. PICK i \in Found(vms, id) :
         /\ vms[i].state \in From
         /\ VmChange(i, [vms[i] EXCEPT !.state = to])
  BY DEF VmMove
<1> DEFINE e == [vms[i] EXCEPT !.state = to]
<1>2. i \in 1 .. Len(vms) /\ vms[i] \in Vm
  BY VmsOrdered DEF Found
<1>3. /\ e \in Vm /\ e.id = vms[i].id
      /\ e.mac_address = vms[i].mac_address /\ e.state = to
  BY <1>2 DEF Vm
<1>4. VmChange(i, e)
  BY <1>1
<1> HIDE DEF e
<1> QED BY <1>1, <1>2, <1>3, <1>4, VmChangeStep

LEMMA VmStep ==
    ASSUME VmInv, [VmNext]_vm_vars PROVE VmKeeps
<1>1. CASE vm_create
  BY <1>1, VmCreateStep
<1>2. ASSUME NEW id, vm_start(id) PROVE VmKeeps
  <2>1. PICK i \in Found(vms, id) :
           /\ vms[i].state \in {"STOPPED", "SUSPENDED"}
           /\ VmChange(i, [vms[i] EXCEPT !.state = "RUNNING", !.uptime = 0])
    BY <1>2 DEF vm_start
  <2> DEFINE e == [vms[i] EXCEPT !.state = "RUNNING", !.uptime = 0]
  <2>2. i \in 1 .. Len(vms) /\ vms[i] \in Vm
    BY VmsOrdered DEF Found
  <2>0. 0 \in 0 .. UptimeCycle - 1
    BY VmAssumption
  <2>3. /\ e \in Vm /\ e.id = vms[i].id
        /\ e.mac_address = vms[i].mac_address /\ e.state = "RUNNING"
    BY <2>0, <2>2 DEF Vm
  <2>4. VmChange(i, e)
    BY <2>1
  <2>5. <<vms[i].state, e.state>> \in VmTransitions
    BY <2>1, <2>3 DEF VmTransitions
  <2> HIDE DEF e
  <2> QED BY <2>2, <2>3, <2>4, <2>5, VmChangeStep
<1>3. ASSUME NEW id, vm_stop(id) PROVE VmKeeps
  BY <1>3, VmMoveStep DEF vm_stop, VmTransitions
<1>4. ASSUME NEW id, vm_pause(id) PROVE VmKeeps
  BY <1>4, VmMoveStep DEF vm_pause, VmTransitions
<1>5. ASSUME NEW id, vm_resume(id) PROVE VmKeeps
  BY <1>5, VmMoveStep DEF vm_resume, VmTransitions
<1>6. ASSUME NEW id, vm_suspend(id) PROVE VmKeeps
  BY <1>6, VmMoveStep DEF vm_suspend, VmTransitions
<1>7. ASSUME NEW id, vm_add_disk(id) PROVE VmKeeps
  <2>1. PICK i \in Found(vms, id) :
           /\ vms[i].disk_count < Disks
           /\ VmChange(i, [vms[i] EXCEPT !.disk_count = @ + 1])
    BY <1>7 DEF vm_add_disk
  <2> DEFINE e == [vms[i] EXCEPT !.disk_count = @ + 1]
  <2>2. i \in 1 .. Len(vms) /\ vms[i] \in Vm
    BY VmsOrdered DEF Found
  <2>3. /\ e \in Vm /\ e.id = vms[i].id
        /\ e.mac_address = vms[i].mac_address /\ e.state = vms[i].state
    BY SMTT(30), <2>1, <2>2, VmAssumption DEF Vm
  <2>4. VmChange(i, e)
    BY <2>1
  <2> HIDE DEF e
  <2> QED BY <2>2, <2>3, <2>4, VmChangeStep
<1>9. ASSUME NEW id, vm_update_stats(id) PROVE VmKeeps
  <2>1. PICK i \in Found(vms, id) :
           VmChange(i, [vms[i] EXCEPT !.uptime = (@ + 1) % UptimeCycle])
    BY <1>9 DEF vm_update_stats
  <2> DEFINE u == (vms[i].uptime + 1) % UptimeCycle
  <2> DEFINE e == [vms[i] EXCEPT !.uptime = u]
  <2>2. i \in 1 .. Len(vms) /\ vms[i] \in Vm
    BY VmsOrdered DEF Found
  <2>5. vms[i].uptime \in Nat
    BY <2>2, VmAssumption DEF Vm
  <2>0. u \in 0 .. UptimeCycle - 1
    BY <2>5, VmAssumption
  <2> HIDE DEF u
  <2>3. /\ e \in Vm /\ e.id = vms[i].id
        /\ e.mac_address = vms[i].mac_address /\ e.state = vms[i].state
    BY <2>0, <2>2 DEF Vm
  <2>4. VmChange(i, e)
    BY <2>1 DEF u
  <2> HIDE DEF e
  <2> QED BY <2>2, <2>3, <2>4, VmChangeStep
<1>8. CASE \/ vm_create_past_end
           \/ \E max \in VmLimits : vm_set_max(max)
           \/ UNCHANGED vm_vars
  <2>1. /\ vms' = vms /\ next_vm_id' = next_vm_id
        /\ max_vms' \in Int /\ vm_overrun' \in BOOLEAN
    BY <1>8, VmAssumption
       DEF vm_create_past_end, vm_set_max, vm_vars, VmInv, VmTypeOK
  <2>2. VmInv'
    BY <2>1 DEF VmInv, VmTypeOK
  <2>3. UNCHANGED VmLifecycle!vars
    BY <2>1 DEF VmLifecycle!vars
  <2> QED BY <2>2, <2>3 DEF VmKeeps
<1> QED BY <1>1, <1>2, <1>3, <1>4, <1>5, <1>6, <1>7, <1>8, <1>9, VmDeleteStep DEF VmNext

-----------------------------------------------------------------------------
\* Both managers together: every step is a step of one of them or of neither.
Inv == ContainerInv /\ VmInv

LEMMA InitInv == Init => Inv
<1> SUFFICES ASSUME Init PROVE Inv
  OBVIOUS
<1>1. containers = << >> /\ vms = << >>
  BY DEF Init, container_init, vm_init
<1>2. containers \in Seq(Container) /\ vms \in Seq(Vm)
      /\ Len(containers) = 0 /\ Len(vms) = 0
      /\ DefaultMaxContainers \in Int /\ DefaultMaxVms \in Int
  BY <1>1, ContainerAssumption, VmAssumption
<1>3. ContainerInv
  <2>1. ContainerTypeOK
    <3>1. container_overrun \in BOOLEAN
      BY Zenon DEF Init, container_init
    <3> QED BY <1>2, <3>1, ContainerAssumption DEF Init, container_init, ContainerTypeOK
  <2>2. ContainerIdsAscending /\ ContainerPidWhileActive
    BY <1>2 DEF ContainerIdsAscending, ContainerPidWhileActive, Ascending, Ids
  <2> QED BY <2>1, <2>2 DEF ContainerInv
<1>4. VmInv
  <2>1. VmTypeOK
    <3>1. vm_overrun \in BOOLEAN
      BY Zenon DEF Init, vm_init
    <3> QED BY <1>2, <3>1, VmAssumption DEF Init, vm_init, VmTypeOK
  <2> QED BY <1>2, <2>1 DEF VmInv, Ascending, Ids
<1> QED BY <1>3, <1>4 DEF Inv

LEMMA NextInv ==
    ASSUME Inv, [Next]_vars PROVE Inv' /\ ContainerKeeps /\ VmKeeps
<1>1. [ContainerNext]_container_vars /\ [VmNext]_vm_vars
  BY DEF Next, Managers, overwritten, vars
<1> QED BY <1>1, ContainerStep, VmStep DEF Inv, ContainerKeeps, VmKeeps

LEMMA SpecInv == Spec => []Inv
<1>1. Inv /\ [Next]_vars => Inv'
  BY NextInv
<1> QED BY InitInv, <1>1, PTL DEF Spec

\* The variables of both managers keep their types (container.c, vm.c).
THEOREM TypeCorrect == Spec => []TypeOK
<1>1. Inv => TypeOK
  BY DEF Inv, ContainerInv, VmInv, TypeOK
<1> QED BY SpecInv, <1>1, PTL

\* The container table stays ordered by ids that are never given twice.
THEOREM IdsAscending == Spec => []ContainerIdsAscending
<1>1. Inv => ContainerIdsAscending
  BY DEF Inv, ContainerInv
<1> QED BY SpecInv, <1>1, PTL

\* A container has a process exactly while it runs or is paused.
THEOREM PidWhileActive == Spec => []ContainerPidWhileActive
<1>1. Inv => ContainerPidWhileActive
  BY DEF Inv, ContainerInv
<1> QED BY SpecInv, <1>1, PTL

\* Two machines share an address exactly when whole cycles of ids lie between them
\* (vm_create).
THEOREM MacsRepeat == Spec => []MacsRepeatByCycle
<1>1. Inv => MacsRepeatByCycle
  <2> SUFFICES ASSUME Inv, NEW i \in 1 .. Len(vms), NEW j \in 1 .. Len(vms), i < j
               PROVE  vms[i].mac_address = vms[j].mac_address
                        <=> (vms[j].id - vms[i].id)
                              % (MacBase * MacBase * MacBase) = 0
    BY DEF MacsRepeatByCycle
  <2>1. vms[i].id \in Nat /\ vms[j].id \in Nat
    BY VmsOrdered DEF Inv
  <2>2. vms[i].id < vms[j].id
    BY DEF Inv, VmInv, Ascending
  <2>3. /\ vms[i].mac_address = MacAddress(vms[i].id)
        /\ vms[j].mac_address = MacAddress(vms[j].id)
    BY DEF Inv, VmInv
  <2> QED BY <2>1, <2>2, <2>3, SameAddress
<1> QED BY SpecInv, <1>1, PTL

\* An operation on one container leaves the others as they were.
THEOREM OneAtATime == Spec => OneContainerAtATime
<1>1. Inv /\ [Next]_vars =>
        [\A id \in 1 .. ContainerCreations :
            ContainerOperation(id) => OthersUntouched(id)]_container_vars
  BY ContainerStep DEF Inv
<1> QED BY SpecInv, <1>1, PTL DEF Spec, OneContainerAtATime

\* The container table implements the promise of Lifecycle.
THEOREM ContainersRefine == Spec => ContainersImplementLifecycle
<1>1. Init => ContainerLifecycle!Init
  BY DEF Init, container_init, ContainerLifecycle!Init, Ids
<1>2. Inv /\ [Next]_vars => [ContainerLifecycle!Next]_(ContainerLifecycle!vars)
  BY NextInv DEF ContainerKeeps
<1> QED BY SpecInv, <1>1, <1>2, PTL
        DEF Spec, ContainersImplementLifecycle, ContainerLifecycle!Spec

\* So does the table of virtual machines, with its own transitions.
THEOREM VmsRefine == Spec => VmsImplementLifecycle
<1>1. Init => VmLifecycle!Init
  BY DEF Init, vm_init, VmLifecycle!Init, Ids
<1>2. Inv /\ [Next]_vars => [VmLifecycle!Next]_(VmLifecycle!vars)
  BY NextInv DEF VmKeeps
<1> QED BY SpecInv, <1>1, <1>2, PTL
        DEF Spec, VmsImplementLifecycle, VmLifecycle!Spec
=============================================================================
