------------------------------ MODULE Accounts ------------------------------
(***************************************************************************)
(* Accounts, their sessions and the routes that make and change them:      *)
(* packages/server/src/api/auth.ts (claiming the deployment, enrolling,    *)
(* signing in and out), api/adminUsersRouter.ts (what an administrator may *)
(* do to an account) and auth/bootstrap.ts (the first-run token).          *)
(*                                                                         *)
(* Node runs one handler at a time, and better-sqlite3 is synchronous, so  *)
(* a handler is atomic up to its one await: the argon2id hash.  Every      *)
(* route that hashes is two actions, ...Begins (all it does before the     *)
(* await) and what may follow it, and flight[c] is what the handler keeps  *)
(* in its closure meanwhile: the row as it was read BEFORE the await.      *)
(***************************************************************************)
EXTENDS Integers, FiniteSets

CONSTANTS
  Clients,     (* callers, each with at most one hashing request in flight  *)
  Emails,      (* normalised addresses                                      *)
  Connection,  (* [Clients -> address a request reports]                    *)
  Network,     (* [Clients -> the network its peer address is part of]      *)
  Server,      (* the key of the deployment-wide rung                       *)
  Ceiling,     (* [Budgets -> how many may be recorded in a window]         *)
  MaxAccounts, (* bound: rows ever inserted                                 *)
  MaxResets,   (* bound: password resets of one account                     *)
  Absent,      (* no row                                                    *)
  Idle         (* no request in flight                                      *)

Budgets == {"connection", "network", "server", "sign-in"}

Rungs(c) == {<<"connection", Connection[c]>>, <<"network", Network[c]>>,
             <<"server", Server>>}
SignInKey(c, e) == <<"sign-in", <<Network[c], e>>>>
KeysOf(c) == Rungs(c) \cup {SignInKey(c, e) : e \in Emails}
Keys == UNION {KeysOf(c) : c \in Clients}

VARIABLES
  users,     (* the users table, by order of insertion                      *)
  lastId,    (* rows ever inserted                                          *)
  token,     (* the first-run token of this boot can still be redeemed      *)
  sessions,  (* live sessions: whose, the password version that opened it,  *)
             (* and, as history, whether a reset raced with that sign-in    *)
  flight,    (* what each client's hashing request holds across its await   *)
  held,      (* limiter slots taken by attempts in flight, by key           *)
  spent      (* what each key has recorded in its window                    *)

vars == <<users, lastId, token, sessions, flight, held, spent>>

Ids   == 1..MaxAccounts
Roles == {"admin", "member"}
Row   == [email : Emails, role : Roles, disabled : BOOLEAN,
          version : 0..MaxResets, via : {"claim", "enroll", "create"}]
Ops   == {"claim", "enroll", "sign-in", "create", "reset"}

(* id is 0 when the address named no account; version is the one of the    *)
(* hash a sign-in verifies against; keys are the slots it holds.  History: *)
(* raced, whether a reset has replaced the password since.                 *)
Flight == [op : Ops, email : Emails, role : Roles, id : 0..MaxAccounts,
           disabled : BOOLEAN, version : 0..MaxResets, raced : BOOLEAN, keys : SUBSET Keys]

ASSUME AccountsAssumption ==
  /\ IsFiniteSet(Clients) /\ Clients # {}
  /\ Ceiling \in [Budgets -> Nat \ {0}]
  /\ MaxAccounts \in Nat \ {0}
  /\ MaxResets \in Nat
  /\ Absent \notin Row
  /\ Idle \notin Flight

Present    == {i \in Ids : users[i] # Absent}
Required   == Present = {}
Taken(e)   == \E i \in Present : users[i].email = e
ByEmail(e) == IF Taken(e) THEN CHOOSE i \in Present : users[i].email = e ELSE 0

EnabledAdmins == {i \in Present : users[i].role = "admin" /\ ~users[i].disabled}

(* attachUser re-reads the row on every request: a session of a disabled   *)
(* account authenticates nobody.                                           *)
ActingAdmins  == {i \in EnabledAdmins : \E s \in sessions : s.user = i}

Open(k) == held[k] + spent[k] < Ceiling[k[1]]

Plus(f, ks)  == [k \in Keys |-> IF k \in ks THEN f[k] + 1 ELSE f[k]]
Minus(f, ks) == [k \in Keys |-> IF k \in ks THEN f[k] - 1 ELSE f[k]]

(* The bounds: a hash that would pass them can still fail.                 *)
RoomForRow      == lastId < MaxAccounts
RoomForReset(i) == users[i].version < MaxResets

Hashing(op) == {c \in Clients : flight[c] # Idle /\ flight[c].op = op}

-----------------------------------------------------------------------------
(* The rows a request writes after its hash.                               *)

InsertUser(e, r, v) ==
  /\ RoomForRow
  /\ lastId' = lastId + 1
  /\ users' = [users EXCEPT ![lastId + 1] =
                 [email |-> e, role |-> r, disabled |-> FALSE, version |-> 0,
                  via |-> v]]

StartSession(i, v, r) ==
  sessions' = sessions \cup {[user |-> i, opened |-> v, raced |-> r]}

AwaitHash(c, f) == flight' = [flight EXCEPT ![c] = f]
Answered(c)     == flight' = [flight EXCEPT ![c] = Idle]

(* finally { attempt.release() }: settles the slots no charge() settled.   *)
ReleaseAll(c) == held' = Minus(held, flight[c].keys)

-----------------------------------------------------------------------------
(* POST /auth/bootstrap: the token is spent before the hash is awaited.    *)

(* Mutant: consume() forgets to clear the token.                           *)
ClaimKeepsToken(c, e) ==
  /\ flight[c] = Idle
  /\ RoomForRow
  /\ Required
  /\ token
  /\ AwaitHash(c, [op |-> "claim", email |-> e, role |-> "admin", id |-> 0,
                   disabled |-> FALSE, version |-> 0, raced |-> FALSE, keys |-> {}])
  /\ UNCHANGED <<users, lastId, token, sessions, held, spent>>

ClaimBegins(c, e) ==
  /\ flight[c] = Idle
  /\ RoomForRow
  /\ Required
  /\ token
  /\ token' = FALSE
  /\ AwaitHash(c, [op |-> "claim", email |-> e, role |-> "admin", id |-> 0,
                   disabled |-> FALSE, version |-> 0, raced |-> FALSE, keys |-> {}])
  /\ UNCHANGED <<users, lastId, sessions, held, spent>>

ClaimDone(c) ==
  /\ c \in Hashing("claim")
  /\ InsertUser(flight[c].email, "admin", "claim")
  /\ StartSession(lastId + 1, 0, FALSE)
  /\ Answered(c)
  /\ UNCHANGED <<token, held, spent>>

(* POST /auth/enroll.  The three rungs have different keys, so taking them *)
(* in turn succeeds exactly when all three are open.                       *)

EnrollBegins(c, e) ==
  /\ flight[c] = Idle
  /\ RoomForRow
  /\ ~Required
  /\ \A k \in Rungs(c) : Open(k)
  /\ ~Taken(e)
  /\ held' = Plus(held, Rungs(c))
  /\ AwaitHash(c, [op |-> "enroll", email |-> e, role |-> "member", id |-> 0,
                   disabled |-> FALSE, version |-> 0, raced |-> FALSE, keys |-> Rungs(c)])
  /\ UNCHANGED <<users, lastId, token, sessions, spent>>

(* Mutant: the refusal is thrown before the try whose finally releases.    *)
EnrollTakenLeaks(c, e) ==
  /\ flight[c] = Idle
  /\ ~Required
  /\ \A k \in Rungs(c) : Open(k)
  /\ Taken(e)
  /\ held' = Plus(held, Rungs(c))
  /\ UNCHANGED <<users, lastId, token, sessions, flight, spent>>

(* The address has an account: all rungs were begun, finally lets them go. *)
EnrollTaken(c, e) ==
  /\ flight[c] = Idle
  /\ ~Required
  /\ \A k \in Rungs(c) : Open(k)
  /\ Taken(e)
  /\ held' = Minus(Plus(held, Rungs(c)), Rungs(c))
  /\ UNCHANGED <<users, lastId, token, sessions, flight, spent>>

(* A rung is shut: the rungs begun before it are let go again.             *)
EnrollRefused(c) ==
  /\ flight[c] = Idle
  /\ ~Required
  /\ \E k \in Rungs(c) : ~Open(k)
  /\ LET order == <<<<"connection", Connection[c]>>, <<"network", Network[c]>>,
                    <<"server", Server>>>>
         begun == {order[n] : n \in {m \in 1..3 : \A j \in 1..m : Open(order[j])}}
     IN held' = Minus(Plus(held, begun), begun)
  /\ UNCHANGED <<users, lastId, token, sessions, flight, spent>>

(* The transaction looks the address up again before it inserts.           *)
EnrollDone(c) ==
  /\ c \in Hashing("enroll")
  /\ ~Taken(flight[c].email)
  /\ InsertUser(flight[c].email, "member", "enroll")
  /\ spent' = Plus(spent, flight[c].keys)
  /\ StartSession(lastId + 1, 0, FALSE)
  /\ ReleaseAll(c)
  /\ Answered(c)
  /\ UNCHANGED token

(* Mutant: the rungs are charged whatever the transaction answered.        *)
EnrollOvertakenCharges(c) ==
  /\ c \in Hashing("enroll")
  /\ Taken(flight[c].email)
  /\ spent' = Plus(spent, flight[c].keys)
  /\ ReleaseAll(c)
  /\ Answered(c)
  /\ UNCHANGED <<users, lastId, token, sessions>>

EnrollOvertaken(c) ==
  /\ c \in Hashing("enroll")
  /\ Taken(flight[c].email)
  /\ ReleaseAll(c)
  /\ Answered(c)
  /\ UNCHANGED <<users, lastId, token, sessions, spent>>

-----------------------------------------------------------------------------
(* POST /auth/login and /auth/logout, and the end of a session.            *)

SignInBegins(c, e) ==
  /\ flight[c] = Idle
  /\ Open(SignInKey(c, e))
  /\ held' = Plus(held, {SignInKey(c, e)})
  /\ LET i == ByEmail(e)
     IN AwaitHash(c, [op |-> "sign-in", email |-> e, role |-> "member", id |-> i,
                      disabled |-> i # 0 /\ users[i].disabled,
                      version |-> IF i = 0 THEN 0 ELSE users[i].version, raced |-> FALSE,
                      keys |-> {SignInKey(c, e)}])
  /\ UNCHANGED <<users, lastId, token, sessions, spent>>

SignInWrong(c) ==
  /\ c \in Hashing("sign-in")
  /\ spent' = Plus(spent, flight[c].keys)
  /\ ReleaseAll(c)
  /\ Answered(c)
  /\ UNCHANGED <<users, lastId, token, sessions>>

SignInSwitchedOff(c) ==
  /\ c \in Hashing("sign-in")
  /\ flight[c].id # 0
  /\ flight[c].disabled
  /\ ReleaseAll(c)
  /\ Answered(c)
  /\ UNCHANGED <<users, lastId, token, sessions, spent>>

(* reset(key) forgets the failures, never the slots of other attempts.     *)
(* The session is that of the row read before the hash, whose password was *)
(* the one verified; nothing looks whether it is still the account's.  Its *)
(* foreign key refuses a row deleted during the hash.                      *)
SignInRight(c) ==
  /\ c \in Hashing("sign-in")
  /\ flight[c].id # 0
  /\ ~flight[c].disabled
  /\ spent' = [k \in Keys |-> IF k \in flight[c].keys THEN 0 ELSE spent[k]]
  /\ IF flight[c].id \in Present
       THEN StartSession(flight[c].id, flight[c].version, flight[c].raced)
       ELSE UNCHANGED sessions
  /\ ReleaseAll(c)
  /\ Answered(c)
  /\ UNCHANGED <<users, lastId, token>>

(* Logging out, and the expiry sweep of attachUser and startSession.       *)
SessionEnds ==
  /\ \E s \in sessions : sessions' = sessions \ {s}
  /\ UNCHANGED <<users, lastId, token, flight, held, spent>>

-----------------------------------------------------------------------------
(* /admin/users: the actor was an enabled admin with a session when the    *)
(* middleware looked.                                                      *)

(* Mutant: an administrator who is switched off counts as another one.     *)
LastAdminOfAny(i) ==
  /\ users[i].role = "admin"
  /\ ~users[i].disabled
  /\ {j \in Present : users[j].role = "admin"} \ {i} = {}

LastAdmin(i) ==
  /\ users[i].role = "admin"
  /\ ~users[i].disabled
  /\ EnabledAdmins \ {i} = {}

CreateBegins(c, e, r) ==
  /\ flight[c] = Idle
  /\ RoomForRow
  /\ ActingAdmins # {}
  /\ ~Taken(e)
  /\ AwaitHash(c, [op |-> "create", email |-> e, role |-> r, id |-> 0,
                   disabled |-> FALSE, version |-> 0, raced |-> FALSE, keys |-> {}])
  /\ UNCHANGED <<users, lastId, token, sessions, held, spent>>

(* users.email_normalized is UNIQUE: an address taken meanwhile conflicts. *)
CreateDone(c) ==
  /\ c \in Hashing("create")
  /\ IF Taken(flight[c].email)
       THEN UNCHANGED <<users, lastId>>
       ELSE InsertUser(flight[c].email, flight[c].role, "create")
  /\ Answered(c)
  /\ UNCHANGED <<token, sessions, held, spent>>

SetRole(i, r) ==
  /\ ActingAdmins # {}
  /\ i \in Present
  /\ ~(users[i].role = "admin" /\ r = "member" /\ LastAdmin(i))
  /\ users' = [users EXCEPT ![i].role = r]
  /\ UNCHANGED <<lastId, token, sessions, flight, held, spent>>

(* Disabling leaves the sessions in place.                                 *)
SetDisabled(i, d) ==
  /\ ActingAdmins # {}
  /\ i \in Present
  /\ ~(d /\ LastAdmin(i))
  /\ users' = [users EXCEPT ![i].disabled = d]
  /\ UNCHANGED <<lastId, token, sessions, flight, held, spent>>

ResetBegins(c, i) ==
  /\ flight[c] = Idle
  /\ ActingAdmins # {}
  /\ i \in Present
  /\ RoomForReset(i)
  /\ AwaitHash(c, [op |-> "reset", email |-> users[i].email, role |-> "member",
                   id |-> i, disabled |-> FALSE, version |-> 0, raced |-> FALSE, keys |-> {}])
  /\ UNCHANGED <<users, lastId, token, sessions, held, spent>>

(* The reset is answered; the sign-ins of the account that are still being *)
(* verified are so against the password it replaced.                       *)
AnsweredBeside(c, i) ==
  flight' = [d \in Clients |->
               IF d = c THEN Idle
               ELSE IF d \in Hashing("sign-in") /\ flight[d].id = i
                 THEN [flight[d] EXCEPT !.raced = TRUE]
                 ELSE flight[d]]

(* Mutant: the new password leaves the sessions of the old one.            *)
ResetKeepsSessions(c) ==
  /\ c \in Hashing("reset")
  /\ LET i == flight[c].id
     IN /\ i \in Present => RoomForReset(i)
        /\ users' = IF i \in Present
                      THEN [users EXCEPT ![i].version = users[i].version + 1]
                      ELSE users
        /\ AnsweredBeside(c, i)
  /\ UNCHANGED <<lastId, token, sessions, held, spent>>

(* Both statements run after the hash; on a deleted row they do nothing.   *)
ResetDone(c) ==
  /\ c \in Hashing("reset")
  /\ LET i == flight[c].id
     IN /\ i \in Present => RoomForReset(i)
        /\ users' = IF i \in Present
                      THEN [users EXCEPT ![i].version = users[i].version + 1]
                      ELSE users
        /\ sessions' = {s \in sessions : s.user # i}
        /\ AnsweredBeside(c, i)
  /\ UNCHANGED <<lastId, token, held, spent>>

(* Nobody deletes themselves; the sessions go with the row (ON DELETE      *)
(* CASCADE).                                                               *)
DeleteUser(i) ==
  /\ ActingAdmins \ {i} # {}
  /\ i \in Present
  /\ ~LastAdmin(i)
  /\ users' = [users EXCEPT ![i] = Absent]
  /\ sessions' = {s \in sessions : s.user # i}
  /\ UNCHANGED <<lastId, token, flight, held, spent>>

-----------------------------------------------------------------------------
(* The hash is shed by the gate, or argon2 throws: the handler rejects and *)
(* its finally, where it has one, lets the slots go.                       *)
HashFails(c) ==
  /\ flight[c] # Idle
  /\ ReleaseAll(c)
  /\ Answered(c)
  /\ UNCHANGED <<users, lastId, token, sessions, spent>>

(* A recorded entry leaves its window.                                     *)
WindowPasses(k) ==
  /\ spent[k] > 0
  /\ spent' = [spent EXCEPT ![k] = spent[k] - 1]
  /\ UNCHANGED <<users, lastId, token, sessions, flight, held>>

(* A new process: what lived in memory is gone, and a token is minted when *)
(* the table is empty.                                                     *)
Restart ==
  /\ token' = Required
  /\ flight' = [c \in Clients |-> Idle]
  /\ held' = [k \in Keys |-> 0]
  /\ spent' = [k \in Keys |-> 0]
  /\ UNCHANGED <<users, lastId, sessions>>

Settles(c) ==
  \/ ClaimDone(c)   \/ EnrollDone(c)        \/ EnrollOvertaken(c)
  \/ SignInWrong(c) \/ SignInSwitchedOff(c) \/ SignInRight(c)
  \/ CreateDone(c)  \/ ResetDone(c)         \/ HashFails(c)

Begins(c) ==
  \/ \E e \in Emails : ClaimBegins(c, e)
  \/ \E e \in Emails : EnrollBegins(c, e)
  \/ \E e \in Emails : EnrollTaken(c, e)
  \/ EnrollRefused(c)
  \/ \E e \in Emails : SignInBegins(c, e)
  \/ \E e \in Emails, r \in Roles : CreateBegins(c, e, r)
  \/ \E i \in Ids : ResetBegins(c, i)

Administers ==
  \/ \E i \in Ids, r \in Roles : SetRole(i, r)
  \/ \E i \in Ids, d \in BOOLEAN : SetDisabled(i, d)
  \/ \E i \in Ids : DeleteUser(i)

Init ==
  /\ users = [i \in Ids |-> Absent]
  /\ lastId = 0
  /\ token = TRUE
  /\ sessions = {}
  /\ flight = [c \in Clients |-> Idle]
  /\ held = [k \in Keys |-> 0]
  /\ spent = [k \in Keys |-> 0]

Next ==
  \/ \E c \in Clients : Begins(c) \/ Settles(c)
  \/ Administers
  \/ SessionEnds
  \/ \E k \in Keys : WindowPasses(k)
  \/ Restart

Spec == Init /\ [][Next]_vars

-----------------------------------------------------------------------------
(* Every variable keeps its type.                                          *)
TypeOK ==
  /\ users \in [Ids -> Row \cup {Absent}]
  /\ lastId \in 0..MaxAccounts
  /\ token \in BOOLEAN
  /\ sessions \subseteq [user : Ids, opened : 0..MaxResets, raced : BOOLEAN]
  /\ flight \in [Clients -> Flight \cup {Idle}]
  /\ held \in [Keys -> Nat]
  /\ spent \in [Keys -> Nat]

(* Once a deployment is claimed some administrator can still sign in,      *)
(* whatever order administrators demote, disable and delete each other in  *)
(* (assertNotLastAdmin in adminUsersRouter.ts).                            *)
AlwaysAnAdmin == lastId > 0 => EnabledAdmins # {}

(* The deployment is claimed once: only the first account ever made comes  *)
(* from the first-run token, and it does, across overlapping claims, failed*)
(* hashes and restarts (bootstrap.required and consume).                   *)
OnlyTheFirstIsClaimed ==
  \A i \in Present : (users[i].via = "claim") <=> (i = 1)

(* An address has at most one account, although every route that inserts   *)
(* one looked before its hash and inserts after it.                        *)
OneAccountPerAddress ==
  \A i, j \in Present : users[i].email = users[j].email => i = j

(* The slots a limiter key counts as in flight are those of the requests   *)
(* that hold it: no path of a handler leaks one or lets one go twice.      *)
SlotsMatchRequests ==
  \A k \in Keys :
    held[k] = Cardinality({c \in Clients : flight[c] # Idle /\ k \in flight[c].keys})

(* Registrations and failed sign-ins never pass their ceiling, counting    *)
(* those still being hashed.                                               *)
WithinCeilings == \A k \in Keys : held[k] + spent[k] <= Ceiling[k[1]]

(* A session belongs to an account that exists, and was opened under the   *)
(* password the account has now, or by a sign-in that was already being    *)
(* verified when a reset replaced that password: a reset leaves no older   *)
(* session behind, and no sign-in that begins after it can use the old     *)
(* password.                                                               *)
SessionsAreCurrent ==
  \A s \in sessions :
    /\ s.user \in Present
    /\ s.opened = users[s.user].version \/ s.raced

(* What resetting says of itself, that a compromised credential opens      *)
(* nothing afterwards (adminUsersRouter.ts, reset-password).  It does not  *)
(* hold: the sign-in that was being verified opens its session after the   *)
(* reset has removed the others.                                           *)
ResetEndsOldPassword ==
  \A s \in sessions : s.user \in Present /\ s.opened = users[s.user].version

(* A registration is recorded on the deployment's rung exactly when it made*)
(* an account: a refused, shed or overtaken one costs nobody a place.      *)
ChargedIffRegistered ==
  [][(spent'[<<"server", Server>>] > spent[<<"server", Server>>])
       <=> (lastId' > lastId /\ users'[lastId'].via = "enroll")]_vars

(* What the routes do with their limiters is what a limiter promises: no    *)
(* handler takes a slot of a full key, gives back one it does not hold, or  *)
(* records what it held no slot for.                                        *)
Limiters == INSTANCE SlotBudget WITH Allowed <- [k \in Keys |-> Ceiling[k[1]]]

UsesOnlyThePromise == Limiters!Spec
=============================================================================
