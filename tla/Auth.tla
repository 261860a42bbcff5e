-------------------------------- MODULE Auth --------------------------------
(***************************************************************************)
(* User accounts, in the second half of security/firewall/firewall.c.      *)
(*                                                                         *)
(* A name is a sequence of letters.  A password stands for the value of    *)
(* simple_hash, as its half bytes from the lowest to the highest: what is  *)
(* kept of it and how it is put together again is part of the model.       *)
(* uid, gid and login times are left out.                                  *)
(***************************************************************************)
EXTENDS IdTable

CONSTANTS
    Names,              \* user names that are given and tried
    Passwords,          \* hashes of the passwords that are given and tried
    AdminName,          \* "admin", the name of the account auth_init makes
    AdminPassword,      \* the hash of "admin", its password
    MAX_USERS,          \* length of the array
    MaxFailures,        \* failed attempts that lock an account (5)
    UserCreations       \* bound: at most this many accounts are ever made

ASSUME AuthAssumption ==
    /\ MAX_USERS \in Nat \ {0}
    /\ MaxFailures \in Nat \ {0}
    /\ UserCreations \in Nat \ {0}
    /\ Names \cup {AdminName} \subseteq Seq(STRING)
    /\ Passwords \cup {AdminPassword} \subseteq Seq(0 .. 15)

VARIABLES
    users,              \* users[0] .. users[user_count - 1]
    next_user_id,
    in_a_row            \* observer: by id, the attempts that failed since the last
                        \* one that did not, 0 without an account

auth_vars == <<users, next_user_id, in_a_row>>

User ==
    [id : 1 .. UserCreations,
     name : Names \cup {AdminName},
     hash : Passwords \cup {AdminPassword},
     is_admin : BOOLEAN,
     enabled : BOOLEAN,
     failed_attempts : 0 .. MaxFailures]

AuthTypeOK ==
    /\ users \in Seq(User)
    /\ Len(users) <= MAX_USERS
    /\ next_user_id \in 1 .. UserCreations + 1
    /\ in_a_row \in [1 .. UserCreations -> Nat]

NewUser(id, name, hash, is_admin) ==
    [id |-> id, name |-> name, hash |-> hash, is_admin |-> is_admin,
     enabled |-> TRUE, failed_attempts |-> 0]

auth_init ==
    /\ users = <<NewUser(1, AdminName, AdminPassword, TRUE)>>
    /\ next_user_id = 2
    /\ in_a_row = [id \in 1 .. UserCreations |-> 0]

-----------------------------------------------------------------------------
auth_create_user(name, hash, is_admin) ==
    /\ Len(users) < MAX_USERS
    /\ next_user_id <= UserCreations
    /\ users' = Append(users, NewUser(next_user_id, name, hash, is_admin))
    /\ next_user_id' = next_user_id + 1
    /\ UNCHANGED in_a_row

\* password_hash keeps, for every half byte, the byte that starts there; as a
\* char it is negative when its upper half is 8 or more, and the cast back to
\* uint32_t then sets every bit above it.
Reconstructed(hash) ==
    [k \in 1 .. Len(hash) |->
        IF \E j \in 2 .. k - 1 : hash[j] >= 8 THEN 15 ELSE hash[k]]

Begins(name, whole) ==
    Len(name) <= Len(whole) /\ SubSeq(whole, 1, Len(name)) = name

\* Mutant: it stops at the end of the stored name too.
NameMatchesEither(tried, name) == Begins(tried, name) \/ Begins(name, tried)

\* The comparison of names stops at the end of the one that is tried.
NameMatches(tried, name) == Begins(tried, name)

\* Mutant: locked accounts are not skipped.
TriedAlsoLocked(name) ==
    {i \in 1 .. Len(users) :
        /\ NameMatches(name, users[i].name)
        /\ \A j \in 1 .. i - 1 : ~NameMatches(name, users[j].name)}

\* The account an attempt is made on: the first enabled one whose name matches.
Tried(name) ==
    {i \in 1 .. Len(users) :
        /\ users[i].enabled /\ NameMatches(name, users[i].name)
        /\ \A j \in 1 .. i - 1 :
              ~(users[j].enabled /\ NameMatches(name, users[j].name))}

\* Mutant: the account is locked one attempt late.
FailedLate(user) ==
    [user EXCEPT !.failed_attempts = @ + 1,
                 !.enabled = user.failed_attempts + 1 <= MaxFailures]

Failed(user) ==
    [user EXCEPT !.failed_attempts = @ + 1,
                 !.enabled = user.failed_attempts + 1 < MaxFailures]

Succeeded(user) == [user EXCEPT !.failed_attempts = 0]

Accepted(user, hash) == Reconstructed(user.hash) = hash

auth_verify_user(name, hash) ==
    \E i \in Tried(name) :
        /\ users' = [users EXCEPT ![i] =
              IF Accepted(users[i], hash) THEN Succeeded(users[i]) ELSE Failed(users[i])]
        /\ in_a_row' = [in_a_row EXCEPT ![users[i].id] =
              IF Accepted(users[i], hash) THEN 0 ELSE @ + 1]
        /\ UNCHANGED next_user_id

\* Any account can be deleted, the last administrator's too.
auth_delete_user(id) ==
    \E i \in Found(users, id) :
        /\ users' = ShiftOut(users, i)
        /\ in_a_row' = [in_a_row EXCEPT ![users[i].id] = 0]
        /\ UNCHANGED next_user_id

AuthNext ==
    \/ \E name \in Names, hash \in Passwords, is_admin \in BOOLEAN :
          auth_create_user(name, hash, is_admin)
    \/ \E name \in Names \cup {AdminName}, hash \in Passwords \cup {AdminPassword} :
          auth_verify_user(name, hash)
    \/ \E id \in 1 .. UserCreations : auth_delete_user(id)

-----------------------------------------------------------------------------
\* An account is locked exactly when MaxFailures attempts on it have failed in a
\* row (CHANGELOG.md:90), however attempts on several accounts, with the right
\* password or a wrong one, interleave with deletions that move the entries.
LockedAtLimit ==
    \A i \in 1 .. Len(users) :
        users[i].enabled <=> in_a_row[users[i].id] < MaxFailures

\* A locked account stays as it is until it is deleted: no later attempt, with
\* whatever password, unlocks it or counts on it.
LockIsFinal ==
    [][\A id \in Ids(users) \cap Ids(users') :
          ~Entry(users, id).enabled => Entry(users', id) = Entry(users, id)]_auth_vars

\* An attempt under an account's own name leaves every other account alone, unless an
\* older enabled account's name begins with it: the attempt goes to the oldest account
\* that matches (firewall.c:269), after deletions that move the entries too.
OwnNameTried ==
    [][\A i \in 1 .. Len(users), hash \in Passwords \cup {AdminPassword} :
          LET name == users[i].name IN
          /\ auth_verify_user(name, hash)
          /\ users[i].enabled
          /\ \A j \in 1 .. Len(users) :
                users[j].enabled /\ users[j].id < users[i].id
                    => ~Begins(name, users[j].name)
          => \A k \in (1 .. Len(users)) \ {i} : users'[k] = users[k]]_auth_vars

\* docs/user-guide.md:78-80: the name and password the system starts with are
\* accepted, so an attempt with them is not counted as a failed one.
DefaultLoginAccepted ==
    [][auth_verify_user(AdminName, AdminPassword) =>
          \A i \in 1 .. Len(users) :
              users'[i].failed_attempts <= users[i].failed_attempts]_auth_vars
=============================================================================
