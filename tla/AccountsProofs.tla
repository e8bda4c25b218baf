--------------------------- MODULE AccountsProofs ---------------------------
(***************************************************************************)
(* What the account routes promise for every number of callers, addresses, *)
(* accounts and resets, and for every ceiling.                             *)
(***************************************************************************)
EXTENDS Accounts, FiniteSetTheorems, TLAPS

(* Rows are numbered by insertion, and none has a number not yet given.    *)
RowsAreNumbered == Present \subseteq 1..lastId

(* Before the first account there is nothing to wait for but one claim,    *)
(* whose token is spent; after it there is no token and no claim.          *)
OneClaim ==
  /\ token => lastId = 0 /\ Hashing("claim") = {}
  /\ Hashing("claim") # {} => lastId = 0
  /\ \A c, d \in Hashing("claim") : c = d
  /\ Hashing("enroll") \cup Hashing("create") # {} => lastId > 0

(* What a request holds is decided by its route.                           *)
HoldsByRoute ==
  \A c \in Clients : flight[c] # Idle =>
    flight[c].keys = CASE flight[c].op = "enroll"  -> Rungs(c)
                       [] flight[c].op = "sign-in" -> {SignInKey(c, flight[c].email)}
                       [] OTHER                    -> {}

(* A sign-in is verified against the password of an account already made,  *)
(* and that is still the account's, or a reset has raced with it.          *)
FlightsAreCurrent ==
  \A c \in Hashing("sign-in") :
    /\ flight[c].id <= lastId
    /\ flight[c].id \in Present =>
         flight[c].version = users[flight[c].id].version \/ flight[c].raced

IInv ==
  /\ TypeOK
  /\ FlightsAreCurrent
  /\ HoldsByRoute
  /\ RowsAreNumbered
  /\ AlwaysAnAdmin
  /\ OneClaim
  /\ OnlyTheFirstIsClaimed
  /\ OneAccountPerAddress
  /\ SlotsMatchRequests
  /\ WithinCeilings
  /\ SessionsAreCurrent

(* A request is answered, and the others keep what they hold.              *)
AnsweredOnly(c) ==
  /\ flight' \in [Clients -> Flight \cup {Idle}]
  /\ flight'[c] = Idle
  /\ \A d \in Clients \ {c} :
       /\ (flight'[d] = Idle) <=> (flight[d] = Idle)
       /\ flight[d] # Idle => /\ flight'[d].op = flight[d].op
                              /\ flight'[d].email = flight[d].email
                              /\ flight'[d].keys = flight[d].keys

(* The requests that hold a slot of a key.                                 *)
Holders(k) == {c \in Clients : flight[c] # Idle /\ k \in flight[c].keys}

-----------------------------------------------------------------------------
(* The rows a client's address books under.                                *)
LEMMA KeysOfClient ==
  ASSUME NEW c \in Clients
  PROVE  /\ Rungs(c) \subseteq Keys
         /\ \A e \in Emails : SignInKey(c, e) \in Keys
         /\ <<"server", Server>> \in Rungs(c)
         /\ \A e \in Emails : SignInKey(c, e) # <<"server", Server>>
<1>1. Rungs(c) \subseteq Keys
  BY DEF Keys, KeysOf
<1>2. \A e \in Emails : SignInKey(c, e) \in Keys
  BY DEF Keys, KeysOf
<1>3. \A e \in Emails : SignInKey(c, e) # <<"server", Server>>
  <2> SUFFICES ASSUME NEW e \in Emails PROVE SignInKey(c, e)[1] # "server"
    OBVIOUS
  <2> QED
    BY DEF SignInKey
<1> QED
  BY <1>1, <1>2, <1>3 DEF Rungs

(* Every key belongs to a budget.                                          *)
LEMMA KeyHasBudget == \A k \in Keys : k[1] \in Budgets
<1> SUFFICES ASSUME NEW k \in Keys PROVE k[1] \in Budgets
  OBVIOUS
<1>1. CASE \E c \in Clients : k \in Rungs(c)
  BY <1>1 DEF Rungs, Budgets
<1>2. CASE \E c \in Clients, e \in Emails : k = SignInKey(c, e)
  BY <1>2 DEF SignInKey, Budgets
<1> QED
  BY <1>1, <1>2 DEF Keys, KeysOf

(* The row an address names, when it names one.                            *)
LEMMA ByEmailIsRow ==
  ASSUME NEW e \in Emails
  PROVE  ByEmail(e) \in 0..MaxAccounts /\ (ByEmail(e) # 0 => ByEmail(e) \in Present)
<1>1. CASE Taken(e)
  <2>1. PICK i \in Present : users[i].email = e
    BY <1>1 DEF Taken
  <2>2. ByEmail(e) \in Present
    BY <1>1, <2>1 DEF ByEmail
  <2> QED
    BY <2>2, AccountsAssumption DEF Present, Ids
<1>2. CASE ~Taken(e)
  BY <1>2, AccountsAssumption DEF ByEmail
<1> QED
  BY <1>1, <1>2

(* What a present row is.                                                  *)
LEMMA PresentIsRow ==
  ASSUME TypeOK, NEW i \in Present
  PROVE  i \in Ids /\ users[i] \in Row
BY DEF TypeOK, Present

(* A flight is not Idle.                                                   *)
LEMMA FlightIsNotIdle ==
  ASSUME TypeOK, NEW c \in Clients
  PROVE  /\ flight[c] # Idle => flight[c] \in Flight
         /\ \A f \in Flight : f # Idle
BY AccountsAssumption DEF TypeOK

(* Either way of answering a request.                                      *)
LEMMA AnswersOnlyOne ==
  ASSUME TypeOK, NEW c \in Clients,
         Answered(c) \/ \E i \in 0..MaxAccounts : AnsweredBeside(c, i)
  PROVE  AnsweredOnly(c)
<1>1. CASE Answered(c)
  BY <1>1, FlightIsNotIdle DEF TypeOK, Answered, AnsweredOnly
<1>2. ASSUME NEW i \in 0..MaxAccounts, AnsweredBeside(c, i) PROVE AnsweredOnly(c)
  <2>1. flight'[c] = Idle /\ DOMAIN flight' = Clients
    BY <1>2 DEF AnsweredBeside
  <2>2. ASSUME NEW d \in Clients \ {c}
        PROVE  \/ flight'[d] = flight[d]
               \/ flight[d] \in Flight /\ flight'[d] = [flight[d] EXCEPT !.raced = TRUE]
    BY <1>2, FlightIsNotIdle DEF AnsweredBeside, Hashing
  <2>3. \A f \in Flight : /\ [f EXCEPT !.raced = TRUE] \in Flight
                          /\ [f EXCEPT !.raced = TRUE].op = f.op
                          /\ [f EXCEPT !.raced = TRUE].email = f.email
                          /\ [f EXCEPT !.raced = TRUE].keys = f.keys
    BY DEF Flight
  <2>4. \A f \in Flight : f # Idle
    BY AccountsAssumption
  <2>5. \A d \in Clients : flight'[d] \in Flight \cup {Idle}
    BY <2>1, <2>2, <2>3 DEF TypeOK
  <2>6. flight' \in [Clients -> Flight \cup {Idle}]
    BY <1>2, <2>5 DEF AnsweredBeside
  <2>7. ASSUME NEW d \in Clients \ {c}
        PROVE  /\ (flight'[d] = Idle) <=> (flight[d] = Idle)
               /\ flight[d] # Idle => /\ flight'[d].op = flight[d].op
                                      /\ flight'[d].email = flight[d].email
                                      /\ flight'[d].keys = flight[d].keys
    <3>1. CASE flight'[d] = flight[d]
      BY <3>1
    <3>2. CASE flight[d] \in Flight /\ flight'[d] = [flight[d] EXCEPT !.raced = TRUE]
      BY <2>3, <2>4, <3>2
    <3> QED
      BY <2>2, <3>1, <3>2
  <2> QED
    BY <2>1, <2>6, <2>7 DEF AnsweredOnly
<1> QED
  BY <1>1, <1>2

(* Taking one slot more, or giving one back, in each of a set of keys.     *)
LEMMA CountsStayNatural ==
  ASSUME NEW f \in [Keys -> Nat], NEW ks \in SUBSET Keys
  PROVE  /\ Plus(f, ks) \in [Keys -> Nat]
         /\ (\A k \in ks : f[k] > 0) => Minus(f, ks) \in [Keys -> Nat]
BY DEF Plus, Minus

(* Initially nothing has happened.                                         *)
LEMMA InitIInv == Init => IInv
<1> SUFFICES ASSUME Init PROVE IInv
  OBVIOUS
<1>1. Present = {} /\ \A op : Hashing(op) = {}
  BY DEF Init, Present, Hashing
<1>2. \A k \in Keys : {c \in Clients : flight[c] # Idle /\ k \in flight[c].keys} = {}
  BY DEF Init
<1>3. TypeOK
  BY AccountsAssumption DEF Init, TypeOK
<1>4. SlotsMatchRequests
  BY <1>2, FS_EmptySet DEF Init, SlotsMatchRequests
<1>5. WithinCeilings
  <2> SUFFICES ASSUME NEW k \in Keys PROVE 0 + 0 <= Ceiling[k[1]]
    BY DEF Init, WithinCeilings
  <2>1. k[1] \in Budgets
    BY KeyHasBudget
  <2> QED
    BY <2>1, AccountsAssumption
<1>6. HoldsByRoute /\ RowsAreNumbered /\ AlwaysAnAdmin /\ OneClaim /\ OnlyTheFirstIsClaimed
      /\ OneAccountPerAddress /\ SessionsAreCurrent
  BY <1>1 DEF Init, HoldsByRoute, RowsAreNumbered, AlwaysAnAdmin, OneClaim,
              OnlyTheFirstIsClaimed, OneAccountPerAddress, SessionsAreCurrent
<1>7. FlightsAreCurrent
  BY <1>1 DEF FlightsAreCurrent
<1> QED
  BY <1>3, <1>4, <1>5, <1>6, <1>7 DEF IInv

-----------------------------------------------------------------------------
(* Limiter slots.                                                          *)

(* A request that begins takes the slots of its flight ...                 *)
LEMMA BeginTakesSlots ==
  ASSUME TypeOK, SlotsMatchRequests, NEW c \in Clients, NEW f \in Flight,
         flight[c] = Idle, AwaitHash(c, f), held' = Plus(held, f.keys)
  PROVE  SlotsMatchRequests' /\ held' \in [Keys -> Nat]
<1>1. held' \in [Keys -> Nat]
  BY CountsStayNatural DEF TypeOK, Flight
<1>2. ASSUME NEW k \in Keys PROVE held'[k] = Cardinality(Holders(k)')
  <2>1. IsFiniteSet(Holders(k)) /\ held[k] = Cardinality(Holders(k)) /\ c \notin Holders(k)
    BY AccountsAssumption, FS_Subset DEF Holders, SlotsMatchRequests
  <2>2. Holders(k)' = IF k \in f.keys THEN Holders(k) \cup {c} ELSE Holders(k)
    BY FlightIsNotIdle DEF Holders, AwaitHash, TypeOK
  <2>3. held'[k] = IF k \in f.keys THEN held[k] + 1 ELSE held[k]
    BY DEF Plus
  <2>4. Cardinality(Holders(k) \cup {c}) = Cardinality(Holders(k)) + 1
    BY <2>1, FS_AddElement
  <2> QED
    BY <2>1, <2>2, <2>3, <2>4
<1> QED
  BY <1>1, <1>2 DEF SlotsMatchRequests, Holders

(* ... and one that is answered gives them back.                           *)
LEMMA AnswerGivesSlotsBack ==
  ASSUME TypeOK, SlotsMatchRequests, NEW c \in Clients,
         flight[c] # Idle, AnsweredOnly(c), ReleaseAll(c)
  PROVE  /\ SlotsMatchRequests' /\ held' \in [Keys -> Nat]
         /\ \A k \in flight[c].keys : held[k] > 0
<1>1. flight[c].keys \in SUBSET Keys
  BY FlightIsNotIdle DEF Flight
<1>2. ASSUME NEW k \in Keys
      PROVE  /\ k \in flight[c].keys => held[k] > 0
             /\ held'[k] = Cardinality(Holders(k)')
  <2>1. /\ IsFiniteSet(Holders(k)) /\ held[k] = Cardinality(Holders(k))
        /\ c \in Holders(k) <=> k \in flight[c].keys
        /\ held[k] \in Nat
    BY AccountsAssumption, FS_Subset DEF Holders, SlotsMatchRequests, TypeOK
  <2>2. Holders(k)' = Holders(k) \ {c}
    BY DEF Holders, AnsweredOnly
  <2>3. held'[k] = IF k \in flight[c].keys THEN held[k] - 1 ELSE held[k]
    BY DEF Minus, ReleaseAll
  <2>4. CASE k \in flight[c].keys
    <3>1. Cardinality(Holders(k) \ {c}) = Cardinality(Holders(k)) - 1
      BY <2>1, <2>4, FS_RemoveElement
    <3>2. Cardinality(Holders(k)) # 0
      BY <2>1, <2>4, FS_EmptySet
    <3> QED
      BY <2>1, <2>2, <2>3, <2>4, <3>1, <3>2
  <2>5. CASE k \notin flight[c].keys
    <3>1. Holders(k) \ {c} = Holders(k)
      BY <2>1, <2>5
    <3> QED
      BY <2>1, <2>2, <2>3, <2>5, <3>1
  <2> QED
    BY <2>4, <2>5
<1>3. \A k \in flight[c].keys : held[k] > 0
  BY <1>1, <1>2
<1>4. held' \in [Keys -> Nat]
  BY <1>1, <1>3, CountsStayNatural DEF TypeOK, ReleaseAll
<1> QED
  BY <1>2, <1>3, <1>4 DEF SlotsMatchRequests, Holders

(* A request that holds nothing changes no slot.                           *)
LEMMA NothingHeldNothingChanges ==
  ASSUME TypeOK
  PROVE  held = Plus(held, {}) /\ held = Minus(held, {})
BY DEF TypeOK, Plus, Minus

(* Beginning and letting go at once is no change.                          *)
LEMMA TakenAndLetGo ==
  ASSUME TypeOK, NEW ks \in SUBSET Keys
  PROVE  Minus(Plus(held, ks), ks) = held
BY DEF TypeOK, Plus, Minus
-----------------------------------------------------------------------------
(* Seen by the limiters a step is one of four.                             *)

ByRoute(c, f) ==
  f.keys = CASE f.op = "enroll"  -> Rungs(c)
             [] f.op = "sign-in" -> {SignInKey(c, f.email)}
             [] OTHER            -> {}

Begun(c, f) ==
  /\ flight[c] = Idle
  /\ AwaitHash(c, f)
  /\ ByRoute(c, f)
  /\ \A k \in f.keys : Open(k)
  /\ held' = Plus(held, f.keys)
  /\ spent' = spent
  /\ lastId' = lastId
  /\ f.op = "claim" => Required /\ token /\ token' = FALSE
  /\ f.op # "claim" => token' = token
  /\ f.op \in {"enroll", "create"} => ~Required

Settled(c) ==
  /\ flight[c] # Idle
  /\ AnsweredOnly(c)
  /\ ReleaseAll(c)
  /\ token' = token
  /\ \/ spent' = spent
     \/ spent' = Plus(spent, flight[c].keys)
     \/ spent' = [k \in Keys |-> IF k \in flight[c].keys THEN 0 ELSE spent[k]]

Passed ==
  /\ UNCHANGED <<flight, held, lastId, token>>
  /\ \/ spent' = spent
     \/ \E k \in Keys : spent[k] > 0 /\ spent' = [spent EXCEPT ![k] = spent[k] - 1]

LEMMA BeginsShape ==
  ASSUME TypeOK, NEW c \in Clients, Begins(c)
  PROVE  (\E f \in Flight : Begun(c, f)) \/ Passed
<1> USE AccountsAssumption
<1>1. ASSUME NEW e \in Emails, ClaimBegins(c, e) PROVE \E f \in Flight : Begun(c, f)
  <2> DEFINE f == [op |-> "claim", email |-> e, role |-> "admin", id |-> 0,
                   disabled |-> FALSE, version |-> 0, raced |-> FALSE, keys |-> {}]
  <2>1. f \in Flight
    BY DEF Flight, Ops, Roles
  <2>2. Begun(c, f)
    BY <1>1, NothingHeldNothingChanges DEF ClaimBegins, Begun, ByRoute
  <2> QED
    BY <2>1, <2>2
<1>2. ASSUME NEW e \in Emails, EnrollBegins(c, e) PROVE \E f \in Flight : Begun(c, f)
  <2> DEFINE f == [op |-> "enroll", email |-> e, role |-> "member", id |-> 0,
                   disabled |-> FALSE, version |-> 0, raced |-> FALSE, keys |-> Rungs(c)]
  <2>1. f \in Flight
    BY KeysOfClient DEF Flight, Ops, Roles
  <2>2. Begun(c, f)
    BY <1>2 DEF EnrollBegins, Begun, ByRoute
  <2> QED
    BY <2>1, <2>2
<1>3. ASSUME NEW e \in Emails, EnrollTaken(c, e) PROVE Passed
  BY <1>3, TakenAndLetGo, KeysOfClient DEF EnrollTaken, Passed
<1>4. ASSUME EnrollRefused(c) PROVE Passed
  <2> DEFINE order == <<<<"connection", Connection[c]>>, <<"network", Network[c]>>,
                        <<"server", Server>>>>
             begun == {order[n] : n \in {m \in 1..3 : \A j \in 1..m : Open(order[j])}}
  <2>1. \A n \in 1..3 : order[n] \in Rungs(c)
    BY DEF Rungs
  <2>2. held' = Minus(Plus(held, begun), begun)
    BY <1>4 DEF EnrollRefused
  <2> HIDE DEF order
  <2>3. begun \subseteq Keys
    BY <2>1, KeysOfClient
  <2> QED
    BY <1>4, <2>2, <2>3, TakenAndLetGo DEF EnrollRefused, Passed
<1>5. ASSUME NEW e \in Emails, SignInBegins(c, e) PROVE \E f \in Flight : Begun(c, f)
  <2> DEFINE i == ByEmail(e)
             f == [op |-> "sign-in", email |-> e, role |-> "member", id |-> i,
                   disabled |-> i # 0 /\ users[i].disabled,
                   version |-> IF i = 0 THEN 0 ELSE users[i].version, raced |-> FALSE,
                   keys |-> {SignInKey(c, e)}]
  <2>1. AwaitHash(c, f)
    BY <1>5 DEF SignInBegins
  <2>2. i \in 0..MaxAccounts /\ (i # 0 => users[i] \in Row)
    BY ByEmailIsRow, PresentIsRow
  <2> HIDE DEF i
  <2>3. /\ (i # 0 /\ users[i].disabled) \in BOOLEAN
        /\ (IF i = 0 THEN 0 ELSE users[i].version) \in 0..MaxResets
    BY <2>2 DEF Row
  <2>4. f \in Flight
    BY <2>2, <2>3, KeysOfClient DEF Flight, Ops, Roles
  <2>5. f.keys = {SignInKey(c, e)} /\ f.op = "sign-in" /\ f.email = e
    OBVIOUS
  <2> HIDE DEF f
  <2>6. Begun(c, f)
    BY <1>5, <2>1, <2>5 DEF SignInBegins, Begun, ByRoute
  <2> QED
    BY <2>4, <2>6
<1>6. ASSUME NEW e \in Emails, NEW r \in Roles, CreateBegins(c, e, r)
      PROVE  \E f \in Flight : Begun(c, f)
  <2> DEFINE f == [op |-> "create", email |-> e, role |-> r, id |-> 0,
                   disabled |-> FALSE, version |-> 0, raced |-> FALSE, keys |-> {}]
  <2>1. f \in Flight
    BY DEF Flight, Ops
  <2>2. Begun(c, f)
    BY <1>6, NothingHeldNothingChanges
    DEF CreateBegins, Begun, ByRoute, ActingAdmins, EnabledAdmins, Required
  <2> QED
    BY <2>1, <2>2
<1>7. ASSUME NEW i \in Ids, ResetBegins(c, i) PROVE \E f \in Flight : Begun(c, f)
  <2> DEFINE f == [op |-> "reset", email |-> users[i].email, role |-> "member",
                   id |-> i, disabled |-> FALSE, version |-> 0, raced |-> FALSE, keys |-> {}]
  <2>1. users[i] \in Row
    BY <1>7, PresentIsRow DEF ResetBegins
  <2>2. f \in Flight
    BY <2>1 DEF Flight, Ops, Roles, Row, Ids
  <2>3. Begun(c, f)
    BY <1>7, NothingHeldNothingChanges DEF ResetBegins, Begun, ByRoute
  <2> QED
    BY <2>2, <2>3
<1> QED
  BY <1>1, <1>2, <1>3, <1>4, <1>5, <1>6, <1>7 DEF Begins

LEMMA SettlesShape ==
  ASSUME TypeOK, HoldsByRoute, NEW c \in Clients, Settles(c)
  PROVE  Settled(c)
<1>1. c \in Hashing("claim") \cup Hashing("create") \cup Hashing("reset")
        => flight[c].keys = {}
  BY DEF HoldsByRoute, Hashing
<1>2. ASSUME ClaimDone(c) \/ CreateDone(c) \/ ResetDone(c) PROVE Settled(c)
  <2>1. /\ flight[c].keys = {} /\ flight[c] # Idle
        /\ UNCHANGED <<held, spent, token>>
    BY <1>1, <1>2 DEF ClaimDone, CreateDone, ResetDone, Hashing
  <2>2. flight[c].id \in 0..MaxAccounts
    BY <2>1, FlightIsNotIdle DEF Flight
  <2>3. AnsweredOnly(c)
    BY <1>2, <2>2, AnswersOnlyOne DEF ClaimDone, CreateDone, ResetDone
  <2> QED
    BY <2>1, <2>3, NothingHeldNothingChanges DEF Settled, ReleaseAll
<1>3. ASSUME EnrollDone(c) \/ EnrollOvertaken(c) \/ SignInWrong(c)
             \/ SignInSwitchedOff(c) \/ SignInRight(c) \/ HashFails(c)
      PROVE  Settled(c)
  <2>1. Answered(c)
    BY <1>3 DEF EnrollDone, EnrollOvertaken, SignInWrong, SignInSwitchedOff,
                SignInRight, HashFails
  <2>2. AnsweredOnly(c)
    BY <2>1, AnswersOnlyOne
  <2> QED
    BY <1>3, <2>2 DEF EnrollDone, EnrollOvertaken, SignInWrong, SignInSwitchedOff,
                      SignInRight, HashFails, Hashing, Settled
<1> QED
  BY <1>2, <1>3 DEF Settles

LEMMA StepShape ==
  ASSUME TypeOK, HoldsByRoute, Next
  PROVE  \/ \E c \in Clients, f \in Flight : Begun(c, f)
         \/ \E c \in Clients : Settled(c) /\ Settles(c)
         \/ Passed
         \/ Restart
<1>1. ASSUME Administers \/ SessionEnds \/ \E k \in Keys : WindowPasses(k) PROVE Passed
  BY <1>1 DEF Administers, SetRole, SetDisabled, DeleteUser, SessionEnds,
              WindowPasses, Passed
<1> QED
  BY <1>1, BeginsShape, SettlesShape DEF Next
(* The slots and what is recorded keep their types, their holders and      *)
(* their ceilings.                                                         *)
LimiterHolds ==
  /\ flight \in [Clients -> Flight \cup {Idle}]
  /\ held \in [Keys -> Nat]
  /\ spent \in [Keys -> Nat]
  /\ HoldsByRoute
  /\ SlotsMatchRequests
  /\ WithinCeilings

LEMMA LimiterStep ==
  ASSUME TypeOK, HoldsByRoute, SlotsMatchRequests, WithinCeilings, Next
  PROVE  LimiterHolds'
<1> USE KeyHasBudget, AccountsAssumption
<1>a. /\ held \in [Keys -> Nat] /\ spent \in [Keys -> Nat]
      /\ flight \in [Clients -> Flight \cup {Idle}]
      /\ \A k \in Keys : Ceiling[k[1]] \in Nat
  BY DEF TypeOK
<1>1. ASSUME NEW c \in Clients, NEW f \in Flight, Begun(c, f) PROVE LimiterHolds'
  <2>1. SlotsMatchRequests' /\ held' \in [Keys -> Nat]
    BY <1>1, BeginTakesSlots DEF Begun
  <2>2. flight' \in [Clients -> Flight \cup {Idle}]
    BY <1>1, <1>a DEF Begun, AwaitHash
  <2>3. WithinCeilings'
    BY <1>1, <1>a DEF Begun, WithinCeilings, Plus, Open
  <2>4. HoldsByRoute'
    BY <1>1, <1>a, FlightIsNotIdle DEF Begun, ByRoute, HoldsByRoute, AwaitHash
  <2> QED
    BY <1>1, <1>a, <2>1, <2>2, <2>3, <2>4 DEF LimiterHolds, Begun
<1>2. ASSUME NEW c \in Clients, Settled(c) PROVE LimiterHolds'
  <2>1. SlotsMatchRequests' /\ held' \in [Keys -> Nat] /\ \A k \in flight[c].keys : held[k] > 0
    BY <1>2, AnswerGivesSlotsBack DEF Settled
  <2>2. flight' \in [Clients -> Flight \cup {Idle}]
    BY <1>2 DEF Settled, AnsweredOnly
  <2>3. flight[c].keys \in SUBSET Keys
    BY <1>2, FlightIsNotIdle DEF Settled, Flight
  <2>4. spent' \in [Keys -> Nat]
    BY <1>2, <1>a, <2>3, CountsStayNatural DEF Settled
  <2>5. \A k \in Keys : held'[k] = IF k \in flight[c].keys THEN held[k] - 1 ELSE held[k]
    BY <1>2 DEF Settled, ReleaseAll, Minus
  <2>6. \A k \in Keys : spent'[k] <= IF k \in flight[c].keys THEN spent[k] + 1 ELSE spent[k]
    BY <1>2, <1>a DEF Settled, Plus
  <2>7. WithinCeilings'
    BY <1>a, <2>1, <2>4, <2>5, <2>6 DEF WithinCeilings
  <2>8. HoldsByRoute'
    BY <1>2 DEF Settled, AnsweredOnly, HoldsByRoute
  <2> QED
    BY <2>1, <2>2, <2>4, <2>7, <2>8 DEF LimiterHolds
<1>3. ASSUME Passed PROVE LimiterHolds'
  <2>1. spent' \in [Keys -> Nat] /\ \A k \in Keys : spent'[k] <= spent[k]
    BY <1>3, <1>a DEF Passed
  <2>2. held' = held /\ flight' = flight
    BY <1>3 DEF Passed
  <2>3. WithinCeilings'
    BY <1>a, <2>1, <2>2 DEF WithinCeilings
  <2> QED
    BY <1>a, <2>1, <2>2, <2>3 DEF LimiterHolds, HoldsByRoute, SlotsMatchRequests
<1>4. ASSUME Restart PROVE LimiterHolds'
  <2>1. \A k \in Keys : Holders(k)' = {}
    BY <1>4 DEF Restart, Holders
  <2>2. SlotsMatchRequests'
    BY <1>4, <2>1, FS_EmptySet DEF Restart, SlotsMatchRequests, Holders
  <2> QED
    BY <1>4, <1>a, <2>2 DEF Restart, LimiterHolds, HoldsByRoute, WithinCeilings
<1> QED
  BY <1>1, <1>2, <1>3, <1>4, StepShape

(* Doing nothing keeps it all.                                             *)
LEMMA LimiterStutter ==
  ASSUME TypeOK, HoldsByRoute, SlotsMatchRequests, WithinCeilings, UNCHANGED vars
  PROVE  LimiterHolds'
BY DEF TypeOK, vars, LimiterHolds, HoldsByRoute, SlotsMatchRequests, WithinCeilings
-----------------------------------------------------------------------------
(* Seen by the tables a step leaves the rows alone, inserts one, changes   *)
(* one or deletes one.                                                     *)

RowsKept ==
  /\ UNCHANGED <<users, lastId>>
  /\ \/ sessions' \subseteq sessions
     \/ \E i \in Present, v \in 0..MaxResets, r \in BOOLEAN :
          StartSession(i, v, r) /\ (v = users[i].version \/ r)

Inserted(e, r, v) ==
  /\ InsertUser(e, r, v)
  /\ ~Taken(e)
  /\ v = "claim" => lastId = 0 /\ r = "admin"
  /\ v # "claim" => lastId > 0
  /\ sessions' \subseteq sessions \cup {[user |-> lastId + 1, opened |-> 0, raced |-> FALSE]}

Changed(i, row) ==
  /\ users' = [users EXCEPT ![i] = row]
  /\ lastId' = lastId
  /\ row.email = users[i].email /\ row.via = users[i].via
  /\ \/ row.role = users[i].role /\ row.disabled = users[i].disabled
     \/ row.role = "admin" /\ ~row.disabled
     \/ ~LastAdmin(i)
  /\ \/ row.version = users[i].version /\ sessions' = sessions
     \/ sessions' = {s \in sessions : s.user # i}

Deleted(i) ==
  /\ users' = [users EXCEPT ![i] = Absent]
  /\ lastId' = lastId
  /\ ~LastAdmin(i)
  /\ sessions' = {s \in sessions : s.user # i}

TableStep ==
  \/ RowsKept
  \/ \E e \in Emails, r \in Roles, v \in {"claim", "enroll", "create"} : Inserted(e, r, v)
  \/ \E i \in Present, row \in Row : Changed(i, row)
  \/ \E i \in Present : Deleted(i)

LEMMA TableShape ==
  ASSUME IInv, Next
  PROVE  TableStep
<1> USE AccountsAssumption DEF IInv
<1>a. \A c \in Clients : flight[c] # Idle => flight[c] \in Flight
  BY FlightIsNotIdle
<1>1. ASSUME NEW c \in Clients, Begins(c) PROVE RowsKept
  BY <1>1 DEF Begins, ClaimBegins, EnrollBegins, EnrollTaken, EnrollRefused,
              SignInBegins, CreateBegins, ResetBegins, RowsKept
<1>2. ASSUME NEW c \in Clients, ClaimDone(c) PROVE TableStep
  <2>1. flight[c].email \in Emails /\ lastId = 0
    BY <1>2, <1>a DEF ClaimDone, Hashing, Flight, OneClaim
  <2>2. Present = {}
    BY <2>1 DEF RowsAreNumbered
  <2>3. Inserted(flight[c].email, "admin", "claim")
    BY <1>2, <2>1, <2>2 DEF ClaimDone, Inserted, Taken, StartSession
  <2> QED
    BY <2>1, <2>3 DEF TableStep, Roles
<1>3. ASSUME NEW c \in Clients, EnrollDone(c) PROVE TableStep
  <2>1. flight[c].email \in Emails /\ lastId > 0
    BY <1>3, <1>a DEF EnrollDone, Hashing, Flight, OneClaim
  <2>2. Inserted(flight[c].email, "member", "enroll")
    BY <1>3, <2>1 DEF EnrollDone, Inserted, StartSession
  <2> QED
    BY <2>1, <2>2 DEF TableStep, Roles
<1>4. ASSUME NEW c \in Clients, CreateDone(c) PROVE TableStep
  <2>1. flight[c].email \in Emails /\ flight[c].role \in Roles /\ lastId > 0
    BY <1>4, <1>a DEF CreateDone, Hashing, Flight, OneClaim
  <2>2. CASE Taken(flight[c].email)
    BY <1>4, <2>2 DEF CreateDone, TableStep, RowsKept
  <2>3. CASE ~Taken(flight[c].email)
    <3>1. Inserted(flight[c].email, flight[c].role, "create")
      BY <1>4, <2>1, <2>3 DEF CreateDone, Inserted
    <3> QED
      BY <2>1, <3>1 DEF TableStep
  <2> QED
    BY <2>2, <2>3
<1>5. ASSUME NEW c \in Clients, SignInRight(c) PROVE RowsKept
  <2>1. /\ c \in Hashing("sign-in")
        /\ flight[c].version \in 0..MaxResets /\ flight[c].raced \in BOOLEAN
    BY <1>5, <1>a DEF SignInRight, Hashing, Flight
  <2> QED
    BY <1>5, <2>1 DEF SignInRight, RowsKept, FlightsAreCurrent
<1>6. ASSUME NEW c \in Clients,
             EnrollOvertaken(c) \/ SignInWrong(c) \/ SignInSwitchedOff(c) \/ HashFails(c)
      PROVE  RowsKept
  BY <1>6 DEF EnrollOvertaken, SignInWrong, SignInSwitchedOff, HashFails, RowsKept
<1>7. ASSUME NEW c \in Clients, ResetDone(c) PROVE TableStep
  <2> DEFINE i == flight[c].id
             row == [users[i] EXCEPT !.version = users[i].version + 1]
  <2>1. CASE i \in Present
    <3>1. users[i] \in Row
      BY <2>1, PresentIsRow
    <3>2. row \in Row
      BY <1>7, <2>1, <3>1 DEF ResetDone, RoomForReset, Row
    <3>3. users' = [users EXCEPT ![i] = row]
      BY <1>7, <2>1, <3>1 DEF ResetDone, Row
    <3>4. row.email = users[i].email /\ row.via = users[i].via
          /\ row.role = users[i].role /\ row.disabled = users[i].disabled
      BY <3>1 DEF Row
    <3>5. sessions' = {s \in sessions : s.user # i} /\ lastId' = lastId
      BY <1>7 DEF ResetDone
    <3> HIDE DEF row
    <3>6. Changed(i, row)
      BY <3>3, <3>4, <3>5 DEF Changed
    <3> QED
      BY <2>1, <3>2, <3>6 DEF TableStep
  <2>2. CASE i \notin Present
    BY <1>7, <2>2 DEF ResetDone, TableStep, RowsKept
  <2> QED
    BY <2>1, <2>2
<1>8. ASSUME NEW i \in Ids, NEW r \in Roles, SetRole(i, r) PROVE TableStep
  <2> DEFINE row == [users[i] EXCEPT !.role = r]
  <2>1. users[i] \in Row /\ i \in Present
    BY <1>8, PresentIsRow DEF SetRole
  <2>2. /\ row \in Row /\ row.email = users[i].email /\ row.via = users[i].via
        /\ row.role = r /\ row.disabled = users[i].disabled
        /\ row.version = users[i].version
    BY <2>1 DEF Row
  <2>3. users' = [users EXCEPT ![i] = row]
    BY <1>8 DEF SetRole
  <2>4. lastId' = lastId /\ sessions' = sessions
    BY <1>8 DEF SetRole
  <2>5. row.role = users[i].role \/ (row.role = "admin" /\ ~row.disabled) \/ ~LastAdmin(i)
    BY <1>8, <2>1, <2>2 DEF SetRole, LastAdmin, Roles, Row
  <2> HIDE DEF row
  <2>6. Changed(i, row)
    BY <2>2, <2>3, <2>4, <2>5 DEF Changed
  <2> QED
    BY <2>1, <2>2, <2>6 DEF TableStep
<1>9. ASSUME NEW i \in Ids, NEW d \in BOOLEAN, SetDisabled(i, d) PROVE TableStep
  <2> DEFINE row == [users[i] EXCEPT !.disabled = d]
  <2>1. users[i] \in Row /\ i \in Present
    BY <1>9, PresentIsRow DEF SetDisabled
  <2>2. /\ row \in Row /\ row.email = users[i].email /\ row.via = users[i].via
        /\ row.role = users[i].role /\ row.disabled = d
        /\ row.version = users[i].version
    BY <2>1 DEF Row
  <2>3. users' = [users EXCEPT ![i] = row]
    BY <1>9 DEF SetDisabled
  <2>4. lastId' = lastId /\ sessions' = sessions
    BY <1>9 DEF SetDisabled
  <2>5. row.disabled = users[i].disabled \/ (row.role = "admin" /\ ~row.disabled) \/ ~LastAdmin(i)
    BY <1>9, <2>1, <2>2 DEF SetDisabled, LastAdmin, Roles, Row
  <2> HIDE DEF row
  <2>6. Changed(i, row)
    BY <2>2, <2>3, <2>4, <2>5 DEF Changed
  <2> QED
    BY <2>1, <2>2, <2>6 DEF TableStep
<1>10. ASSUME NEW i \in Ids, DeleteUser(i) PROVE TableStep
  BY <1>10 DEF DeleteUser, Deleted, TableStep
<1>11. ASSUME SessionEnds \/ (\E k \in Keys : WindowPasses(k)) \/ Restart PROVE RowsKept
  BY <1>11 DEF SessionEnds, WindowPasses, Restart, RowsKept
<1> QED
  BY <1>1, <1>2, <1>3, <1>4, <1>5, <1>6, <1>7, <1>8, <1>9, <1>10, <1>11
  DEF Next, Settles, Administers, TableStep
TablesHold ==
  /\ users \in [Ids -> Row \cup {Absent}]
  /\ lastId \in 0..MaxAccounts
  /\ sessions \subseteq [user : Ids, opened : 0..MaxResets, raced : BOOLEAN]
  /\ RowsAreNumbered
  /\ AlwaysAnAdmin
  /\ OnlyTheFirstIsClaimed
  /\ OneAccountPerAddress
  /\ SessionsAreCurrent

(* An insertion takes a number never used, for an address without a row.   *)
LEMMA InsertKeepsTables ==
  ASSUME IInv, NEW e \in Emails, NEW r \in Roles,
         NEW v \in {"claim", "enroll", "create"}, Inserted(e, r, v)
  PROVE  TablesHold'
<1> USE AccountsAssumption DEF IInv
<1> DEFINE n == lastId + 1
           new == [email |-> e, role |-> r, disabled |-> FALSE, version |-> 0, via |-> v]
<1>1. n \in Ids /\ n \notin Present /\ lastId' = n /\ lastId \in Nat
  BY DEF Inserted, InsertUser, RoomForRow, TypeOK, Ids, RowsAreNumbered
<1>2. new \in Row /\ new # Absent
  <2>1. 0 \in 0..MaxResets
    OBVIOUS
  <2>2. new \in Row
    BY <2>1 DEF Row
  <2> QED
    BY <2>2
<1>3. users' = [users EXCEPT ![n] = new] /\ DOMAIN users = Ids
  BY DEF Inserted, InsertUser, TypeOK
<1>4. new.email = e /\ new.role = r /\ new.disabled = FALSE /\ new.version = 0 /\ new.via = v
  OBVIOUS
<1> HIDE DEF new
<1>5. users'[n] = new /\ \A i \in Ids \ {n} : users'[i] = users[i]
  BY <1>1, <1>3
<1>6. Present' = Present \cup {n}
  BY <1>1, <1>2, <1>5 DEF Present
<1>7. users' \in [Ids -> Row \cup {Absent}] /\ lastId' \in 0..MaxAccounts
  BY <1>1, <1>2, <1>3 DEF TypeOK, Ids
<1>8. sessions' \subseteq [user : Ids, opened : 0..MaxResets, raced : BOOLEAN]
  <2>1. 0 \in 0..MaxResets
    OBVIOUS
  <2>2. [user |-> n, opened |-> 0, raced |-> FALSE]
          \in [user : Ids, opened : 0..MaxResets, raced : BOOLEAN]
    BY <1>1, <2>1
  <2>3. sessions \subseteq [user : Ids, opened : 0..MaxResets, raced : BOOLEAN]
    BY DEF TypeOK
  <2>4. sessions' \subseteq sessions \cup {[user |-> n, opened |-> 0, raced |-> FALSE]}
    BY DEF Inserted
  <2> QED
    BY <2>2, <2>3, <2>4
<1>9. RowsAreNumbered'
  BY <1>1, <1>6 DEF RowsAreNumbered
<1>10. AlwaysAnAdmin'
  <2>1. CASE lastId = 0
    <3>1. n \in EnabledAdmins'
      BY <1>4, <1>5, <1>6, <2>1 DEF EnabledAdmins, Inserted
    <3> QED
      BY <3>1 DEF AlwaysAnAdmin
  <2>2. CASE lastId > 0
    <3>1. PICK i \in EnabledAdmins : TRUE
      BY <2>2 DEF AlwaysAnAdmin
    <3>2. i \in EnabledAdmins'
      BY <1>1, <1>5, <1>6, <3>1 DEF EnabledAdmins, Present
    <3> QED
      BY <3>2 DEF AlwaysAnAdmin
  <2> QED
    BY <1>1, <2>1, <2>2
<1>11. OnlyTheFirstIsClaimed'
  BY <1>1, <1>4, <1>5, <1>6 DEF OnlyTheFirstIsClaimed, Inserted, Present
<1>12. OneAccountPerAddress'
  BY <1>1, <1>4, <1>5, <1>6 DEF OneAccountPerAddress, Inserted, Taken, Present
<1>13. SessionsAreCurrent'
  <2> SUFFICES ASSUME NEW s \in sessions'
               PROVE  /\ s.user \in Present'
                      /\ s.opened = users'[s.user].version \/ s.raced
    BY DEF SessionsAreCurrent
  <2>1. CASE s \in sessions
    BY <1>1, <1>5, <1>6, <2>1 DEF SessionsAreCurrent, Present
  <2>2. CASE s = [user |-> n, opened |-> 0, raced |-> FALSE]
    BY <1>4, <1>5, <1>6, <2>2
  <2> QED
    BY <2>1, <2>2 DEF Inserted
<1> QED
  BY <1>7, <1>8, <1>9, <1>10, <1>11, <1>12, <1>13 DEF TablesHold

(* A changed row keeps its address and its origin, and was not the last    *)
(* administrator if it stopped being one.                                  *)
LEMMA ChangeKeepsTables ==
  ASSUME IInv, NEW i \in Present, NEW row \in Row, Changed(i, row)
  PROVE  TablesHold'
<1> USE AccountsAssumption DEF IInv
<1>1. i \in Ids /\ users[i] \in Row /\ row # Absent /\ DOMAIN users = Ids
  BY PresentIsRow DEF TypeOK
<1>2. users'[i] = row /\ \A j \in Ids \ {i} : users'[j] = users[j]
  BY <1>1 DEF Changed
<1>3. Present' = Present
  BY <1>1, <1>2 DEF Present
<1>4. lastId' = lastId /\ sessions' \subseteq sessions
  BY DEF Changed
<1>5. users' \in [Ids -> Row \cup {Absent}]
  BY <1>1 DEF Changed, TypeOK
<1>6. AlwaysAnAdmin'
  <2> SUFFICES ASSUME lastId > 0 PROVE EnabledAdmins' # {}
    BY <1>4 DEF AlwaysAnAdmin
  <2>1. PICK a \in EnabledAdmins : TRUE
    BY DEF AlwaysAnAdmin
  <2>2. CASE a # i
    <3>1. a \in EnabledAdmins'
      BY <1>2, <1>3, <2>1, <2>2 DEF EnabledAdmins, Present
    <3> QED
      BY <3>1
  <2>3. CASE a = i /\ ~LastAdmin(i)
    <3>1. PICK b \in EnabledAdmins \ {i} : TRUE
      BY <2>1, <2>3 DEF LastAdmin, EnabledAdmins
    <3>2. b \in EnabledAdmins'
      BY <1>2, <1>3, <3>1 DEF EnabledAdmins, Present
    <3> QED
      BY <3>2
  <2>4. CASE a = i /\ LastAdmin(i)
    <3>1. i \in EnabledAdmins'
      BY <1>2, <1>3, <2>1, <2>4 DEF EnabledAdmins, Changed, LastAdmin
    <3> QED
      BY <3>1
  <2> QED
    BY <2>2, <2>3, <2>4
<1>7. SessionsAreCurrent'
  <2> SUFFICES ASSUME NEW s \in sessions'
               PROVE  /\ s.user \in Present'
                      /\ s.opened = users'[s.user].version \/ s.raced
    BY DEF SessionsAreCurrent
  <2>1. /\ s \in sessions /\ s.user \in Present
        /\ s.opened = users[s.user].version \/ s.raced
    BY <1>4 DEF SessionsAreCurrent
  <2>2. s.user = i => row.version = users[i].version
    BY <2>1 DEF Changed
  <2> QED
    BY <1>2, <1>3, <2>1, <2>2 DEF Present
<1>8. OnlyTheFirstIsClaimed' /\ OneAccountPerAddress'
  <2>1. \A j \in Present : users'[j].email = users[j].email /\ users'[j].via = users[j].via
    BY <1>2 DEF Changed, Present
  <2> QED
    BY <1>3, <2>1 DEF OnlyTheFirstIsClaimed, OneAccountPerAddress
<1> QED
  BY <1>3, <1>4, <1>5, <1>6, <1>7, <1>8 DEF TablesHold, TypeOK, RowsAreNumbered

(* A deleted row was not the last administrator and takes its sessions.    *)
LEMMA DeleteKeepsTables ==
  ASSUME IInv, NEW i \in Present, Deleted(i)
  PROVE  TablesHold'
<1> USE AccountsAssumption DEF IInv
<1>1. i \in Ids /\ DOMAIN users = Ids
  BY DEF TypeOK, Present
<1>2. users'[i] = Absent /\ \A j \in Ids \ {i} : users'[j] = users[j]
  BY <1>1 DEF Deleted
<1>3. Present' = Present \ {i}
  BY <1>1, <1>2 DEF Present
<1>4. AlwaysAnAdmin'
  <2> SUFFICES ASSUME lastId > 0 PROVE EnabledAdmins' # {}
    BY DEF AlwaysAnAdmin, Deleted
  <2>1. PICK a \in EnabledAdmins \ {i} : TRUE
    BY DEF AlwaysAnAdmin, Deleted, LastAdmin, EnabledAdmins
  <2>2. a \in EnabledAdmins'
    BY <1>2, <1>3, <2>1 DEF EnabledAdmins, Present
  <2> QED
    BY <2>2
<1>5. SessionsAreCurrent'
  BY <1>2, <1>3 DEF SessionsAreCurrent, Deleted, Present
<1>6. OnlyTheFirstIsClaimed' /\ OneAccountPerAddress'
  BY <1>2, <1>3 DEF OnlyTheFirstIsClaimed, OneAccountPerAddress, Present
<1> QED
  BY <1>1, <1>3, <1>4, <1>5, <1>6 DEF TablesHold, TypeOK, RowsAreNumbered, Deleted

(* Rows left alone, with fewer sessions or one opened for a row that is    *)
(* there.                                                                  *)
LEMMA KeepKeepsTables ==
  ASSUME IInv, RowsKept
  PROVE  TablesHold'
<1> USE AccountsAssumption DEF IInv
<1>1. users' = users /\ lastId' = lastId
  BY DEF RowsKept
<1>2. ASSUME NEW i \in Present, NEW v \in 0..MaxResets, NEW r \in BOOLEAN,
             StartSession(i, v, r), v = users[i].version \/ r
      PROVE  TablesHold'
  <2>1. users[i] \in Row /\ i \in Ids
    BY PresentIsRow
  <2>2. sessions' \subseteq [user : Ids, opened : 0..MaxResets, raced : BOOLEAN]
    BY <1>2, <2>1 DEF StartSession, TypeOK, Row
  <2>3. SessionsAreCurrent'
    BY <1>1, <1>2 DEF SessionsAreCurrent, StartSession, Present
  <2> QED
    BY <1>1, <2>2, <2>3 DEF TablesHold, TypeOK, RowsAreNumbered, AlwaysAnAdmin,
       EnabledAdmins, OnlyTheFirstIsClaimed, OneAccountPerAddress, Present
<1>3. ASSUME sessions' \subseteq sessions PROVE TablesHold'
  BY <1>1, <1>3 DEF TablesHold, TypeOK, RowsAreNumbered, AlwaysAnAdmin,
     EnabledAdmins, OnlyTheFirstIsClaimed, OneAccountPerAddress, Present,
     SessionsAreCurrent
<1> QED
  BY <1>2, <1>3 DEF RowsKept

LEMMA TableStepKeepsTables ==
  ASSUME IInv, Next
  PROVE  TablesHold'
BY TableShape, KeepKeepsTables, InsertKeepsTables, ChangeKeepsTables,
   DeleteKeepsTables DEF TableStep
-----------------------------------------------------------------------------
(* The token is spent by the claim it lets in, and minted only while there *)
(* is no account.                                                          *)
LEMMA OneClaimStep ==
  ASSUME IInv, Next
  PROVE  OneClaim'
<1> USE AccountsAssumption DEF IInv
<1>a. flight \in [Clients -> Flight \cup {Idle}] /\ \A f \in Flight : f # Idle
  BY DEF TypeOK
<1>b. Required => lastId = 0
  BY DEF Required, AlwaysAnAdmin, EnabledAdmins, TypeOK
<1>c. lastId = 0 => Required
  BY DEF Required, RowsAreNumbered
<1>1. ASSUME NEW c \in Clients, NEW f \in Flight, Begun(c, f) PROVE OneClaim'
  <2>1. \A op : Hashing(op)' = IF f.op = op THEN Hashing(op) \cup {c} ELSE Hashing(op)
    BY <1>1, <1>a DEF Begun, AwaitHash, Hashing
  <2>2. CASE f.op = "claim"
    <3>1. lastId' = 0 /\ ~token' /\ Hashing("claim") = {}
          /\ Hashing("enroll") = {} /\ Hashing("create") = {}
      BY <1>1, <1>b, <2>2 DEF Begun, OneClaim
    <3>2. Hashing("claim")' = {c} /\ Hashing("enroll")' = {} /\ Hashing("create")' = {}
      BY <2>1, <2>2, <3>1
    <3> QED
      BY <3>1, <3>2 DEF OneClaim
  <2>3. CASE f.op # "claim"
    <3>1. Hashing("claim")' = Hashing("claim") /\ lastId' = lastId /\ token' = token
      BY <1>1, <2>1, <2>3 DEF Begun
    <3>2. f.op \in {"enroll", "create"} => lastId > 0
      BY <1>1, <1>c DEF Begun, TypeOK
    <3>3. f.op \notin {"enroll", "create"} =>
            Hashing("enroll")' = Hashing("enroll") /\ Hashing("create")' = Hashing("create")
      BY <2>1
    <3> QED
      BY <3>1, <3>2, <3>3 DEF OneClaim
  <2> QED
    BY <2>2, <2>3
<1>2. ASSUME NEW c \in Clients, Settled(c), Settles(c) PROVE OneClaim'
  <2>1. /\ \A op : Hashing(op)' \subseteq Hashing(op)
        /\ \A op : c \notin Hashing(op)'
        /\ token' = token
    BY <1>2, <1>a DEF Settled, AnsweredOnly, Hashing
  <2>2. CASE ClaimDone(c)
    <3>1. lastId' > 0 /\ Hashing("claim")' = {} /\ ~token
      BY <2>1, <2>2 DEF ClaimDone, InsertUser, OneClaim, TypeOK
    <3> QED
      BY <2>1, <3>1 DEF OneClaim
  <2>3. CASE EnrollDone(c) \/ CreateDone(c)
    <3>1. lastId > 0
      BY <2>3 DEF EnrollDone, CreateDone, OneClaim
    <3>2. lastId' = lastId \/ lastId' = lastId + 1
      BY <2>3 DEF EnrollDone, CreateDone, InsertUser
    <3>3. lastId \in Nat /\ ~token /\ Hashing("claim") = {}
      BY <3>1 DEF OneClaim, TypeOK
    <3>4. lastId' > 0
      BY <3>1, <3>2, <3>3
    <3> QED
      BY <2>1, <3>3, <3>4 DEF OneClaim
  <2>4. CASE ~ClaimDone(c) /\ ~EnrollDone(c) /\ ~CreateDone(c)
    <3>1. lastId' = lastId
      BY <1>2, <2>4 DEF Settles, EnrollOvertaken, SignInWrong, SignInSwitchedOff,
         SignInRight, ResetDone, HashFails
    <3> QED
      BY <2>1, <3>1 DEF OneClaim
  <2> QED
    BY <2>2, <2>3, <2>4
<1>3. ASSUME Passed PROVE OneClaim'
  BY <1>3 DEF OneClaim, Hashing, Passed
<1>4. ASSUME Restart PROVE OneClaim'
  <2>1. \A op : Hashing(op)' = {}
    BY <1>4 DEF Restart, Hashing
  <2> QED
    BY <1>4, <1>b, <2>1 DEF Restart, OneClaim
<1>5. \/ \E c \in Clients, f \in Flight : Begun(c, f)
      \/ \E c \in Clients : Settled(c) /\ Settles(c)
      \/ Passed
      \/ Restart
  BY StepShape
<1> QED
  BY <1>1, <1>2, <1>3, <1>4, <1>5

-----------------------------------------------------------------------------
(* What a sign-in verifies against stays what it was, and a reset marks it. *)
LEMMA SignInsKept ==
  ASSUME FlightsAreCurrent, NEW c \in Clients, lastId \in Nat, lastId' \in Nat, lastId <= lastId',
         flight[c].id \in Nat,
         c \in Hashing("sign-in"), flight'[c] = flight[c],
         flight[c].id \in Present' =>
            flight[c].id \in Present /\ users'[flight[c].id].version = users[flight[c].id].version
  PROVE  /\ flight'[c].id <= lastId'
         /\ flight'[c].id \in Present' =>
              flight'[c].version = users'[flight'[c].id].version \/ flight'[c].raced
BY DEF FlightsAreCurrent

LEMMA FlightsStep ==
  ASSUME IInv, Next
  PROVE  FlightsAreCurrent'
<1> USE DEF IInv
<1>a. /\ \A f \in Flight : f # Idle
      /\ flight \in [Clients -> Flight \cup {Idle}] /\ lastId \in Nat
      /\ \A c \in Clients : flight[c] # Idle =>
           flight[c].id \in Nat /\ flight[c].id \in 0..MaxAccounts
  BY AccountsAssumption DEF TypeOK, Flight
<1>b. ASSUME lastId' \in Nat, lastId <= lastId',
             \A c \in Clients : flight'[c] = flight[c] \/ flight'[c] = Idle
                                \/ (flight'[c] \in Flight /\ flight'[c].op # "sign-in"),
             \A i \in Present' : i <= lastId =>
                i \in Present /\ users'[i].version = users[i].version
      PROVE  FlightsAreCurrent'
  <2> SUFFICES ASSUME NEW c \in Clients, c \in Hashing("sign-in")'
               PROVE  /\ flight'[c].id <= lastId'
                      /\ flight'[c].id \in Present' =>
                           flight'[c].version = users'[flight'[c].id].version
                           \/ flight'[c].raced
    BY DEF FlightsAreCurrent, Hashing
  <2>1. flight'[c] = flight[c] /\ c \in Hashing("sign-in")
    BY <1>b DEF Hashing
  <2>2. flight[c].id <= lastId /\ flight[c].id \in Nat
    BY <1>a, <2>1 DEF FlightsAreCurrent, Hashing
  <2> QED
    BY <1>a, <1>b, <2>1, <2>2, SignInsKept
<1>1. ASSUME NEW c \in Clients, NEW e \in Emails, SignInBegins(c, e) PROVE FlightsAreCurrent'
  <2> DEFINE i == ByEmail(e)
  <2>1. /\ flight'[c].id = i
        /\ flight'[c].version = IF i = 0 THEN 0 ELSE users[i].version
        /\ \A d \in Clients \ {c} : flight'[d] = flight[d]
    BY <1>1, <1>a DEF SignInBegins, AwaitHash
  <2>2. users' = users /\ lastId' = lastId /\ Present' = Present
    BY <1>1 DEF SignInBegins, Present
  <2>3. i \in 0..MaxAccounts /\ (i # 0 => i \in Present)
    BY ByEmailIsRow
  <2>4. i <= lastId
    BY <1>a, <2>3 DEF RowsAreNumbered
  <2> HIDE DEF i
  <2>5. 0 \notin Present
    BY DEF Present, Ids
  <2> SUFFICES ASSUME NEW d \in Hashing("sign-in")'
               PROVE  /\ flight'[d].id <= lastId'
                      /\ flight'[d].id \in Present' =>
                           flight'[d].version = users'[flight'[d].id].version
                           \/ flight'[d].raced
    BY DEF FlightsAreCurrent
  <2>6. CASE d = c
    BY <2>1, <2>2, <2>4, <2>5, <2>6
  <2>7. CASE d # c
    <3>1. d \in Clients /\ flight'[d] = flight[d] /\ d \in Hashing("sign-in")
      BY <2>1, <2>7 DEF Hashing
    <3> QED
      BY <2>2, <3>1 DEF FlightsAreCurrent
  <2> QED
    BY <2>6, <2>7
<1>2. ASSUME NEW c \in Clients, Begins(c), \A e \in Emails : ~SignInBegins(c, e)
      PROVE  FlightsAreCurrent'
  <2>1. users' = users /\ lastId' = lastId /\ Present' = Present
    BY <1>2 DEF Begins, ClaimBegins, EnrollBegins, EnrollTaken, EnrollRefused,
                CreateBegins, ResetBegins, Present
  <2>2. \/ flight' = flight
        \/ \E f \in Flight : f.op # "sign-in" /\ AwaitHash(c, f)
    <3>1. CASE \E e \in Emails : ClaimBegins(c, e) \/ EnrollBegins(c, e)
      <4>1. PICK e \in Emails : ClaimBegins(c, e) \/ EnrollBegins(c, e)
        BY <3>1
      <4>2. \A r \in Roles, o \in Ops, ks \in SUBSET Keys :
              [op |-> o, email |-> e, role |-> r, id |-> 0, disabled |-> FALSE,
               version |-> 0, raced |-> FALSE, keys |-> ks] \in Flight
        BY AccountsAssumption DEF Flight
      <4> QED
        BY <4>1, <4>2, KeysOfClient DEF ClaimBegins, EnrollBegins, Ops, Roles
    <3>2. CASE (\E e \in Emails : EnrollTaken(c, e)) \/ EnrollRefused(c)
      BY <3>2 DEF EnrollTaken, EnrollRefused
    <3>3. CASE \E e \in Emails, r \in Roles : CreateBegins(c, e, r)
      <4>1. PICK e \in Emails, r \in Roles : CreateBegins(c, e, r)
        BY <3>3
      <4>2. [op |-> "create", email |-> e, role |-> r, id |-> 0, disabled |-> FALSE,
             version |-> 0, raced |-> FALSE, keys |-> {}] \in Flight
        BY AccountsAssumption DEF Flight, Ops
      <4> QED
        BY <4>1, <4>2 DEF CreateBegins
    <3>4. CASE \E i \in Ids : ResetBegins(c, i)
      <4>1. PICK i \in Ids : ResetBegins(c, i)
        BY <3>4
      <4>2. users[i] \in Row
        BY <4>1, PresentIsRow DEF ResetBegins
      <4>3. [op |-> "reset", email |-> users[i].email, role |-> "member", id |-> i,
             disabled |-> FALSE, version |-> 0, raced |-> FALSE, keys |-> {}] \in Flight
        BY <4>2, AccountsAssumption DEF Flight, Ops, Roles, Row, Ids
      <4> QED
        BY <4>1, <4>3 DEF ResetBegins
    <3> QED
      BY <1>2, <3>1, <3>2, <3>3, <3>4 DEF Begins
  <2>3. \A d \in Clients : flight'[d] = flight[d] \/ (flight'[d] \in Flight /\ flight'[d].op # "sign-in")
    BY <1>a, <2>2 DEF AwaitHash
  <2> QED
    BY <1>a, <1>b, <2>1, <2>3
<1>3. ASSUME NEW c \in Clients, ClaimDone(c) \/ EnrollDone(c) \/ CreateDone(c)
      PROVE  FlightsAreCurrent'
  <2>1. \A d \in Clients : flight'[d] = flight[d] \/ flight'[d] = Idle
    BY <1>3, <1>a DEF ClaimDone, EnrollDone, CreateDone, Answered
  <2>2. CASE users' = users /\ lastId' = lastId
    <3>1. Present' = Present
      BY <2>2 DEF Present
    <3> QED
      BY <1>a, <1>b, <2>1, <2>2, <3>1
  <2>3. ASSUME NEW e, NEW r, NEW v, InsertUser(e, r, v) PROVE FlightsAreCurrent'
    <3>1. lastId' = lastId + 1 /\ \A i \in Ids : i # lastId + 1 => users'[i] = users[i]
      BY <2>3 DEF InsertUser, TypeOK
    <3>2. \A i \in Present' : i <= lastId => i \in Present /\ users'[i] = users[i]
      BY <1>a, <3>1 DEF Present, Ids
    <3> QED
      BY <1>a, <1>b, <2>1, <3>1, <3>2
  <2> QED
    BY <1>3, <2>2, <2>3 DEF ClaimDone, EnrollDone, CreateDone
<1>4. ASSUME NEW c \in Clients, \/ EnrollOvertaken(c) \/ SignInWrong(c) \/ SignInSwitchedOff(c)
             \/ SignInRight(c) \/ HashFails(c)
      PROVE  FlightsAreCurrent'
  <2>1. /\ \A d \in Clients : flight'[d] = flight[d] \/ flight'[d] = Idle
        /\ users' = users /\ lastId' = lastId /\ Present' = Present
    BY <1>4, <1>a DEF EnrollOvertaken, SignInWrong, SignInSwitchedOff, SignInRight,
       HashFails, Answered, Present
  <2> QED
    BY <1>a, <1>b, <2>1
<1>5. ASSUME NEW c \in Clients, ResetDone(c) PROVE FlightsAreCurrent'
  <2> DEFINE i == flight[c].id
  <2>1. /\ lastId' = lastId /\ AnsweredBeside(c, i) /\ DOMAIN users = Ids
        /\ \A j \in Ids \ {i} : users'[j] = users[j]
    BY <1>5 DEF ResetDone, TypeOK
  <2>2. i \in Present => i \in Ids
    BY DEF Present
  <2> HIDE DEF i
  <2> SUFFICES ASSUME NEW d \in Hashing("sign-in")'
               PROVE  /\ flight'[d].id <= lastId'
                      /\ flight'[d].id \in Present' =>
                           flight'[d].version = users'[flight'[d].id].version
                           \/ flight'[d].raced
    BY DEF FlightsAreCurrent
  <2>3. d \in Clients /\ d # c
    BY <2>1 DEF Hashing, AnsweredBeside
  <2>4. CASE d \in Hashing("sign-in") /\ flight[d].id = i
    <3>1. flight[d] \in Flight
      BY <1>a, <2>3, <2>4 DEF Hashing
    <3>2. flight'[d] = [flight[d] EXCEPT !.raced = TRUE]
      BY <2>1, <2>3, <2>4 DEF AnsweredBeside
    <3>3. flight'[d].raced /\ flight'[d].id = flight[d].id
      BY <3>1, <3>2 DEF Flight
    <3> QED
      BY <2>1, <2>4, <3>3 DEF FlightsAreCurrent
  <2>5. CASE ~(d \in Hashing("sign-in") /\ flight[d].id = i)
    <3>1. flight'[d] = flight[d] /\ d \in Hashing("sign-in") /\ flight[d].id # i
      BY <2>1, <2>3, <2>5 DEF AnsweredBeside, Hashing
    <3>2. flight[d].id \in Present' =>
            flight[d].id \in Present /\ users'[flight[d].id] = users[flight[d].id]
      BY <2>1, <3>1 DEF Present
    <3> QED
      BY <2>1, <3>1, <3>2 DEF FlightsAreCurrent
  <2> QED
    BY <2>4, <2>5
<1>6. ASSUME Administers PROVE FlightsAreCurrent'
  <2>1. lastId' = lastId /\ flight' = flight
    BY <1>6 DEF Administers, SetRole, SetDisabled, DeleteUser
  <2>2. ASSUME NEW i \in Ids, (\E r \in Roles : SetRole(i, r)) \/ (\E b \in BOOLEAN : SetDisabled(i, b)),
               NEW j \in Present'
        PROVE  j \in Present /\ users'[j].version = users[j].version
    <3>1. users[i] \in Row /\ i \in Present
      BY <2>2, PresentIsRow DEF SetRole, SetDisabled
    <3>2. j \in Ids /\ j # i => users'[j] = users[j]
      BY <2>2 DEF SetRole, SetDisabled, TypeOK
    <3>3. users'[i].version = users[i].version
      BY <2>2, <3>1 DEF SetRole, SetDisabled, TypeOK, Row
    <3> QED
      BY <3>1, <3>2, <3>3 DEF Present
  <2>3. ASSUME NEW i \in Ids, DeleteUser(i), NEW j \in Present'
        PROVE  j \in Present /\ users'[j].version = users[j].version
    <3>1. users' = [users EXCEPT ![i] = Absent] /\ DOMAIN users = Ids
      BY <2>3 DEF DeleteUser, TypeOK
    <3> QED
      BY <3>1 DEF Present
  <2>4. \A j \in Present' : j \in Present /\ users'[j].version = users[j].version
    BY <1>6, <2>2, <2>3 DEF Administers
  <2> QED
    BY <1>a, <1>b, <2>1, <2>4
<1>7. ASSUME SessionEnds \/ (\E k \in Keys : WindowPasses(k)) \/ Restart PROVE FlightsAreCurrent'
  <2>1. /\ \A d \in Clients : flight'[d] = flight[d] \/ flight'[d] = Idle
        /\ users' = users /\ lastId' = lastId /\ Present' = Present
    BY <1>7 DEF SessionEnds, WindowPasses, Restart, Present
  <2> QED
    BY <1>a, <1>b, <2>1
<1> QED
  BY <1>1, <1>2, <1>3, <1>4, <1>5, <1>6, <1>7 DEF Next, Settles, Begins

-----------------------------------------------------------------------------
(* Every step keeps the invariant.                                         *)
LEMMA StepIInv == IInv /\ [Next]_vars => IInv'
<1>1. ASSUME IInv, Next PROVE IInv'
  <2>1. LimiterHolds'
    BY <1>1, LimiterStep DEF IInv
  <2>2. TablesHold'
    BY <1>1, TableStepKeepsTables
  <2>3. OneClaim'
    BY <1>1, OneClaimStep
  <2>4. token' \in BOOLEAN
    BY <1>1, StepShape DEF IInv, TypeOK, Begun, Settled, Passed, Restart, Required
  <2>5. FlightsAreCurrent'
    BY <1>1, FlightsStep
  <2> QED
    BY <2>1, <2>2, <2>3, <2>4, <2>5 DEF IInv, TypeOK, LimiterHolds, TablesHold
<1>2. ASSUME IInv, UNCHANGED vars PROVE IInv'
  <2>1. LimiterHolds'
    BY <1>2, LimiterStutter DEF IInv
  <2>2. TablesHold'
    BY <1>2, KeepKeepsTables DEF vars, RowsKept
  <2>3. OneClaim' /\ FlightsAreCurrent' /\ token' \in BOOLEAN
    BY <1>2 DEF vars, IInv, TypeOK, OneClaim, FlightsAreCurrent, Hashing, Present
  <2> QED
    BY <2>1, <2>2, <2>3 DEF IInv, TypeOK, LimiterHolds, TablesHold
<1> QED
  BY <1>1, <1>2

(* The invariant of the account routes, and what it gives.                 *)
THEOREM AccountsInvariant == Spec => []IInv
<1> QED
  BY InitIInv, StepIInv, PTL DEF Spec

(* Every variable keeps its type.                                          *)
THEOREM AccountsTypeCorrect == Spec => []TypeOK
<1>1. IInv => TypeOK
  BY DEF IInv
<1> QED
  BY <1>1, AccountsInvariant, PTL

(* A claimed deployment always keeps an administrator who can sign in.     *)
THEOREM AdministratorRemains == Spec => []AlwaysAnAdmin
<1>1. IInv => AlwaysAnAdmin
  BY DEF IInv
<1> QED
  BY <1>1, AccountsInvariant, PTL

(* The first-run token makes the first account, and no other.              *)
THEOREM ClaimedOnce == Spec => []OnlyTheFirstIsClaimed
<1>1. IInv => OnlyTheFirstIsClaimed
  BY DEF IInv
<1> QED
  BY <1>1, AccountsInvariant, PTL

(* Two accounts never share an address.                                    *)
THEOREM AddressesAreUnique == Spec => []OneAccountPerAddress
<1>1. IInv => OneAccountPerAddress
  BY DEF IInv
<1> QED
  BY <1>1, AccountsInvariant, PTL

(* No path through a handler leaks a limiter slot, and none is overbooked. *)
THEOREM SlotsAreAccounted == Spec => [](SlotsMatchRequests /\ WithinCeilings)
<1>1. IInv => SlotsMatchRequests /\ WithinCeilings
  BY DEF IInv
<1> QED
  BY <1>1, AccountsInvariant, PTL

(* Sessions belong to accounts that exist, under the current password, or  *)
(* under the one a reset replaced while the sign-in was being verified.    *)
THEOREM SessionsStayCurrent == Spec => []SessionsAreCurrent
<1>1. IInv => SessionsAreCurrent
  BY DEF IInv
<1> QED
  BY <1>1, AccountsInvariant, PTL
-----------------------------------------------------------------------------
Charged    == spent'[<<"server", Server>>] > spent[<<"server", Server>>]
Registered == lastId' > lastId /\ users'[lastId'].via = "enroll"

(* The deployment's rung is charged by the step that makes the account and *)
(* by no other.                                                            *)
LEMMA ChargeStep ==
  ASSUME IInv, [Next]_vars
  PROVE  Charged <=> Registered
<1> USE DEF IInv
<1> DEFINE sk == <<"server", Server>>
<1>a. /\ spent \in [Keys -> Nat] /\ lastId \in 0..MaxAccounts
      /\ \A c \in Clients : sk \in Rungs(c) /\ sk \in Keys /\ Rungs(c) \subseteq Keys
      /\ \A c \in Clients, e \in Emails : SignInKey(c, e) # sk
  BY KeysOfClient DEF TypeOK
<1>b. MaxAccounts \in Nat /\ sk \in Keys /\ spent[sk] \in Nat /\ lastId \in Nat
  BY <1>a, AccountsAssumption
<1>1. ASSUME NEW c \in Clients, EnrollDone(c) PROVE Charged /\ Registered
  <2>1. flight[c].keys = Rungs(c)
    BY <1>1 DEF EnrollDone, Hashing, HoldsByRoute
  <2>2. spent'[sk] = spent[sk] + 1 /\ spent[sk] \in Nat
    BY <1>1, <1>a, <2>1 DEF EnrollDone, Plus
  <2>3. lastId + 1 \in Ids /\ lastId' = lastId + 1
    BY <1>1, <1>a, <1>b DEF EnrollDone, InsertUser, RoomForRow, Ids
  <2>4. users'[lastId'].via = "enroll"
    BY <1>1, <2>3 DEF EnrollDone, InsertUser, TypeOK
  <2> QED
    BY <1>a, <2>2, <2>3, <2>4 DEF Charged, Registered
<1>2. ASSUME NEW c \in Clients, ClaimDone(c) \/ CreateDone(c) PROVE ~Charged /\ ~Registered
  <2>1. ~Charged
    <3>1. spent' = spent
      BY <1>2 DEF ClaimDone, CreateDone
    <3> QED
      BY <1>b, <3>1 DEF Charged
  <2>2. CASE lastId' = lastId
    BY <1>a, <1>b, <2>1, <2>2 DEF Registered
  <2>3. CASE lastId' # lastId
    <3> HIDE DEF IInv
    <3>0. \/ InsertUser(flight[c].email, "admin", "claim")
          \/ InsertUser(flight[c].email, flight[c].role, "create")
      BY <1>2, <2>3 DEF ClaimDone, CreateDone
    <3>1. PICK e, r, v : InsertUser(e, r, v) /\ v # "enroll"
      <4>1. "claim" # "enroll" /\ "create" # "enroll"
        OBVIOUS
      <4> QED
        BY <3>0, <4>1
    <3> USE DEF IInv
    <3>2. lastId + 1 \in Ids /\ lastId' = lastId + 1
      BY <1>a, <1>b, <3>1 DEF InsertUser, RoomForRow, Ids
    <3>3. users'[lastId'].via # "enroll"
      BY <3>1, <3>2 DEF InsertUser, TypeOK
    <3> QED
      BY <2>1, <3>3 DEF Registered
  <2> QED
    BY <2>2, <2>3
<1>3. ASSUME NEW c \in Clients, SignInWrong(c) PROVE ~Charged /\ lastId' = lastId
  <2>1. flight[c].keys = {SignInKey(c, flight[c].email)} /\ flight[c].email \in Emails
    BY <1>3, FlightIsNotIdle DEF SignInWrong, Hashing, HoldsByRoute, Flight
  <2>2. sk \notin flight[c].keys
    BY <1>a, <2>1
  <2>3. spent'[sk] = spent[sk]
    BY <1>3, <1>a, <2>2 DEF SignInWrong, Plus
  <2> QED
    BY <1>3, <1>a, <2>3 DEF SignInWrong, Charged
<1>4. ASSUME NEW c \in Clients, SignInRight(c) PROVE ~Charged /\ lastId' = lastId
  <2>1. spent'[sk] <= spent[sk]
    BY <1>4, <1>a DEF SignInRight
  <2> QED
    BY <1>4, <1>a, <2>1 DEF SignInRight, Charged, TypeOK
<1>5. ASSUME NEW c \in Clients, \/ EnrollOvertaken(c) \/ SignInSwitchedOff(c)
             \/ ResetDone(c) \/ HashFails(c)
      PROVE  UNCHANGED <<spent, lastId>>
  BY <1>5 DEF EnrollOvertaken, SignInSwitchedOff, ResetDone, HashFails
<1>6. ASSUME UNCHANGED <<spent, lastId>> PROVE ~Charged /\ ~Registered
  BY <1>6, <1>b DEF Charged, Registered
<1>7. ASSUME NEW c \in Clients, Begins(c) PROVE UNCHANGED <<spent, lastId>>
  BY <1>7 DEF Begins, ClaimBegins, EnrollBegins, EnrollTaken, EnrollRefused,
     SignInBegins, CreateBegins, ResetBegins
<1>8. ASSUME Administers \/ SessionEnds \/ UNCHANGED vars PROVE UNCHANGED <<spent, lastId>>
  BY <1>8 DEF Administers, SetRole, SetDisabled, DeleteUser, SessionEnds, vars
<1>9. ASSUME (\E k \in Keys : WindowPasses(k)) \/ Restart PROVE ~Charged /\ ~Registered
  <2>1. spent'[sk] <= spent[sk] /\ spent'[sk] \in Nat /\ lastId' = lastId
    BY <1>9, <1>a, <1>b DEF WindowPasses, Restart
  <2> QED
    BY <1>b, <2>1 DEF Charged, Registered
<1>10. ASSUME lastId' = lastId PROVE ~Registered
  BY <1>10, <1>b DEF Registered
<1> QED
  BY <1>1, <1>2, <1>3, <1>4, <1>5, <1>6, <1>7, <1>8, <1>9, <1>10 DEF Next, Settles

(* A place on the deployment's rung is spent exactly by the registrations  *)
(* that made an account.                                                   *)
THEOREM RegistrationsAreCharged == Spec => ChargedIffRegistered
<1>1. IInv /\ [Next]_vars => [Charged <=> Registered]_vars
  BY ChargeStep
<1> QED
  BY <1>1, AccountsInvariant, PTL DEF Spec, ChargedIffRegistered, Charged, Registered
-----------------------------------------------------------------------------
(* Seen by the limiters alone, a step of a route is a step of SlotBudget.   *)
LEMMA PromisedStep ==
  ASSUME IInv, Next
  PROVE  Limiters!Next
<1> USE DEF IInv
<1>a. /\ held \in [Keys -> Nat] /\ spent \in [Keys -> Nat]
      /\ flight \in [Clients -> Flight \cup {Idle}]
  BY DEF TypeOK
<1>1. ASSUME NEW c \in Clients, NEW f \in Flight, Begun(c, f) PROVE Limiters!Next
  <2>1. f.keys \in SUBSET Keys
    BY DEF Flight
  <2>2. \A k \in f.keys : Limiters!Free(k)
    BY <1>1, <2>1 DEF Begun, Open, Limiters!Free
  <2>3. Limiters!Takes(f.keys)
    BY <1>1, <2>2 DEF Begun, Plus, Limiters!Takes
  <2> QED
    BY <2>1, <2>3 DEF Limiters!Next
<1>2. ASSUME NEW c \in Clients, Settled(c) PROVE Limiters!Next
  <2>1. flight[c].keys \in SUBSET Keys
    BY <1>2, FlightIsNotIdle DEF Settled, Flight
  <2>2. \A k \in flight[c].keys : held[k] > 0
    BY <1>2, AnswerGivesSlotsBack DEF Settled
  <2>3. held' = [k \in Keys |-> IF k \in flight[c].keys THEN held[k] - 1 ELSE held[k]]
    BY <1>2 DEF Settled, ReleaseAll, Minus
  <2>4. /\ spent' \in [Keys -> Nat]
        /\ \A k \in Keys : spent'[k] <= IF k \in flight[c].keys THEN spent[k] + 1 ELSE spent[k]
    <3>1. CASE spent' = spent
      BY <1>a, <3>1
    <3>2. CASE spent' = Plus(spent, flight[c].keys)
      BY <1>a, <2>1, <3>2, CountsStayNatural DEF Plus
    <3>3. CASE spent' = [k \in Keys |-> IF k \in flight[c].keys THEN 0 ELSE spent[k]]
      BY <1>a, <3>3
    <3> QED
      BY <1>2, <3>1, <3>2, <3>3 DEF Settled
  <2>5. Limiters!GivesBack(flight[c].keys)
    BY <2>2, <2>3, <2>4 DEF Limiters!GivesBack, Limiters!AtMostOneMore
  <2> QED
    BY <2>1, <2>5 DEF Limiters!Next
<1>3. ASSUME Passed PROVE Limiters!Next
  <2>1. spent' \in [Keys -> Nat] /\ \A k \in Keys : spent'[k] <= spent[k]
    BY <1>3, <1>a DEF Passed
  <2>2. Limiters!Forgets
    BY <1>3, <2>1 DEF Passed, Limiters!Forgets, Limiters!AtMostOneMore
  <2> QED
    BY <2>2 DEF Limiters!Next
<1>4. ASSUME Restart PROVE Limiters!Next
  BY <1>4 DEF Restart, Limiters!Restarts, Limiters!Next
<1> QED
  BY <1>1, <1>2, <1>3, <1>4, StepShape

(* The routes of auth.ts use their limiters as SlotBudget promises them,    *)
(* which RateLimiter is shown to implement: whatever the interleaving of    *)
(* hashes, failures and restarts, no handler takes a slot of a full key,    *)
(* gives back a slot that is not held or records without one.               *)
THEOREM RoutesKeepThePromise == Spec => UsesOnlyThePromise
<1>1. Init => Limiters!Init
  BY DEF Init, Limiters!Init
<1>2. IInv /\ [Next]_vars => [Limiters!Next]_(Limiters!vars)
  <2>1. CASE UNCHANGED vars
    BY <2>1 DEF vars, Limiters!vars
  <2>2. ASSUME IInv, Next PROVE Limiters!Next
    BY <2>2, PromisedStep
  <2> QED
    BY <2>1, <2>2
<1> QED
  BY <1>1, <1>2, AccountsInvariant, PTL DEF Spec, UsesOnlyThePromise, Limiters!Spec
=============================================================================
