---------------------------- MODULE Gateway_proofs ----------------------------
(***************************************************************************)
(* Proofs about the components of MC_Gateway, for any values of their      *)
(* constants that meet the assumptions: each is the only one to change its *)
(* variables, so that an invariant of it holds in all behaviours.          *)
(***************************************************************************)
EXTENDS MC_Gateway, FiniteSetTheorems, SequenceTheorems, WellFoundedInduction, TLAPS

-----------------------------------------------------------------------------
(* Requests that are sent again *)

\* Before an attempt the body is whole, and there was one failed attempt for each counted.
RetryInv ==
  /\ pc \in {"attempt", "wait", "done"}
  /\ attempt \in Nat /\ delay \in Int
  /\ answers \in Seq(Retries!Answer) /\ offered \in Seq(Seq(Nat) \cup {None})
  /\ Len(offered) = Len(answers)
  /\ body = None \/ body \in Seq(Nat)
  /\ pc # "done" => body \in {None, Body}
  /\ \A i \in DOMAIN offered : offered[i] = (IF body = None THEN None ELSE Body)
  /\ pc # "done" => Len(answers) = attempt /\ attempt <= MaxRetries
  /\ pc # "done" => \A i \in DOMAIN answers : answers[i] # "final"
  /\ \A i \in DOMAIN answers : answers[i] = "final" => i = Len(answers)
  /\ answers # <<>> => Len(answers) <= MaxRetries + 1
  /\ pc = "done" /\ answers # <<>> /\ result # "context" => result = answers[Len(answers)]
  /\ attempt > 1 /\ pc = "attempt" => delay <= MaxDelay

LEMMA RetryStarts == ASSUME Retries!RetryAssumption, Retries!BodyAssumption PROVE Retries!Init => RetryInv
  BY DEF Retries!RetryAssumption, Retries!BodyAssumption, Retries!Init, RetryInv, Retries!Answer

\* A delay is a number that is at most the largest.
LEMMA DelaysAreCut ==
  ASSUME Retries!RetryAssumption, delay \in Int, NEW d \in Retries!NextDelays PROVE d \in Int /\ d <= MaxDelay
<1> DEFINE product == delay * Multiplier
<1>1. product \in Int
  BY DEF Retries!RetryAssumption
<1> HIDE DEF product
<1> DEFINE cut == IF product > MaxDelay THEN MaxDelay ELSE product
<1>2. cut \in Int /\ cut <= MaxDelay
  BY <1>1 DEF Retries!RetryAssumption
<1>3. CASE cut \div 4 = 0
  BY <1>2, <1>3 DEF Retries!NextDelays, product
<1>4. CASE cut \div 4 # 0
  <2>1. PICK offset \in (- (cut \div 4)) .. (cut \div 4 - 1) :
          d = IF cut + offset > MaxDelay THEN MaxDelay ELSE cut + offset
    BY <1>4 DEF Retries!NextDelays, product
  <2> QED BY <1>2, <2>1 DEF Retries!RetryAssumption
<1> QED BY <1>3, <1>4

\* What an attempt leaves behind of the body, and what it adds to the history.
LEMMA AttemptExtends ==
  ASSUME Retries!RetryAssumption, Retries!BodyAssumption, RetryInv,
         NEW given \in Retries!Answer, Retries!Attempt(given)
  PROVE  /\ pc = "attempt" /\ pc' \in {"wait", "done"} /\ attempt' \in Nat /\ UNCHANGED delay
         /\ answers' \in Seq(Retries!Answer) /\ Len(answers') = Len(answers) + 1
         /\ \A i \in DOMAIN answers : answers'[i] = answers[i]
         /\ answers'[Len(answers) + 1] = given
         /\ offered' \in Seq(Seq(Nat) \cup {None}) /\ Len(offered') = Len(offered) + 1
         /\ \A i \in DOMAIN offered : offered'[i] = offered[i]
         /\ offered'[Len(offered) + 1] = body
         /\ (body' = None <=> body = None) /\ (body # None => body' \in Seq(Nat))
         /\ given # "final" => body' = body
<1>1. pc = "attempt" /\ pc' \in {"wait", "done"} /\ attempt' \in Nat /\ UNCHANGED delay
  BY DEF Retries!Attempt, RetryInv, Retries!Answer
<1>2. answers' = Append(answers, given) /\ offered' = Append(offered, body)
      /\ answers \in Seq(Retries!Answer) /\ offered \in Seq(Seq(Nat) \cup {None})
      /\ body \in Seq(Nat) \cup {None}
  BY DEF Retries!Attempt, RetryInv
<1>3. CASE body = None
  BY <1>1, <1>2, <1>3 DEF Retries!Attempt
<1>4. CASE body # None
  <2>1. PICK k \in 0 .. Len(body) :
          body' = IF given = "final" THEN Retries!LeftToRead(body, k) ELSE Retries!Restored(body, k)
    BY <1>4 DEF Retries!Attempt
  <2>2. body \in Seq(Nat)
    BY <1>2, <1>4
  <2>3. SubSeq(body, k + 1, Len(body)) \in Seq(Nat)
    BY <2>1, <2>2
  <2>4. body' \in Seq(Nat) /\ (given # "final" => body' = body)
    BY <2>1, <2>2, <2>3 DEF Retries!LeftToRead, Retries!Restored
  <2> QED BY <1>1, <1>2, <2>2, <2>4 DEF Retries!BodyAssumption
<1> QED BY <1>3, <1>4

LEMMA AttemptKeeps ==
  ASSUME Retries!RetryAssumption, Retries!BodyAssumption, RetryInv,
         NEW given \in Retries!Answer, Retries!Attempt(given)
  PROVE  RetryInv'
<1>1. /\ pc = "attempt" /\ pc' \in {"wait", "done"} /\ attempt' \in Nat /\ UNCHANGED delay
      /\ answers' \in Seq(Retries!Answer) /\ Len(answers') = Len(answers) + 1
      /\ \A i \in DOMAIN answers : answers'[i] = answers[i]
      /\ answers'[Len(answers) + 1] = given
      /\ offered' \in Seq(Seq(Nat) \cup {None}) /\ Len(offered') = Len(offered) + 1
      /\ \A i \in DOMAIN offered : offered'[i] = offered[i]
      /\ offered'[Len(offered) + 1] = body
      /\ (body' = None <=> body = None) /\ (body # None => body' \in Seq(Nat))
      /\ given # "final" => body' = body
  BY AttemptExtends
<1>2. /\ answers \in Seq(Retries!Answer) /\ offered \in Seq(Seq(Nat) \cup {None}) /\ Len(offered) = Len(answers)
      /\ body \in {None, Body} /\ Len(answers) = attempt /\ attempt <= MaxRetries /\ attempt \in Nat
      /\ \A i \in DOMAIN answers : answers[i] # "final"
      /\ \A i \in DOMAIN offered : offered[i] = (IF body = None THEN None ELSE Body)
  BY <1>1 DEF RetryInv
<1>3. \/ given = "final" /\ pc' = "done" /\ result' = given /\ attempt' = attempt
      \/ given # "final" /\ attempt' = attempt + 1 /\ attempt < MaxRetries /\ pc' = "wait"
      \/ given # "final" /\ attempt' = attempt + 1 /\ pc' = "done" /\ result' = given
  BY DEF Retries!Attempt, Retries!Answer
<1>4. \A i \in DOMAIN offered' : offered'[i] = (IF body' = None THEN None ELSE Body)
  <2> SUFFICES ASSUME NEW i \in DOMAIN offered'
               PROVE  offered'[i] = IF body = None THEN None ELSE Body
    BY <1>1
  <2>1. i \in DOMAIN offered \/ i = Len(offered) + 1
    BY <1>1, <1>2
  <2> QED BY <1>1, <1>2, <2>1
<1>5. \A i \in DOMAIN answers' :
        (answers'[i] = "final" => i = Len(answers')) /\ (given # "final" => answers'[i] # "final")
  <2> SUFFICES ASSUME NEW i \in DOMAIN answers'
               PROVE  (answers'[i] = "final" => i = Len(answers')) /\ (given # "final" => answers'[i] # "final")
    OBVIOUS
  <2>1. i \in DOMAIN answers \/ i = Len(answers) + 1
    BY <1>1, <1>2
  <2> QED BY <1>1, <1>2, <2>1
<1>6. /\ pc' # "done" => body' \in {None, Body} /\ Len(answers') = attempt' /\ attempt' <= MaxRetries
      /\ pc' # "done" => \A i \in DOMAIN answers' : answers'[i] # "final"
      /\ Len(answers') <= MaxRetries + 1
      /\ pc' = "done" => result' = answers'[Len(answers')]
  BY <1>1, <1>2, <1>3, <1>5 DEF Retries!RetryAssumption
<1>7. delay' \in Int /\ pc' # "attempt"
  BY <1>1 DEF RetryInv
<1> QED BY <1>1, <1>2, <1>4, <1>5, <1>6, <1>7 DEF RetryInv

LEMMA RetryOthersKeep ==
  ASSUME Retries!RetryAssumption, Retries!BodyAssumption, RetryInv,
         Retries!BodyFails \/ Retries!Waited \/ Retries!GivesUp \/ Retries!Cancel \/ UNCHANGED retryVars
  PROVE  RetryInv'
<1>1. CASE Retries!BodyFails
  <2>1. answers = <<>>
    BY <1>1 DEF Retries!BodyFails, RetryInv
  <2> QED BY <1>1, <2>1 DEF Retries!BodyFails, RetryInv
<1>2. CASE Retries!Waited
  BY <1>2, DelaysAreCut DEF Retries!Waited, RetryInv
<1>3. CASE Retries!GivesUp
  BY <1>3 DEF Retries!GivesUp, RetryInv
<1>4. CASE Retries!Cancel
  BY <1>4 DEF Retries!Cancel, RetryInv
<1>5. CASE UNCHANGED retryVars
  BY <1>5 DEF retryVars, RetryInv
<1> QED BY <1>1, <1>2, <1>3, <1>4, <1>5

\* RetriesAreWhole holds for every body, however much of it each attempt reads, for every
\* number of retries, also a negative one, and for all delays.
THEOREM RetriesHold == Spec => []RetriesAreWhole
<1>1. Init => RetryInv
  BY RetryNumbers, RetryStarts DEF Init
<1>2. RetryInv /\ [Next]_vars => RetryInv'
  <2>1. [Next]_vars => [Retries!Next]_retryVars
    BY DEF Next, vars, retryVars
  <2> QED
    BY <2>1, RetryNumbers, AttemptKeeps, RetryOthersKeep
    DEF Retries!Next, Retries!Returned, retryVars, Retries!retryVars
<1>3. RetryInv => RetriesAreWhole
  <2> SUFFICES ASSUME RetryInv PROVE RetriesAreWhole
    OBVIOUS
  <2>1. \A i \in DOMAIN offered : offered[i] = Retries!Original
    BY DEF RetryInv, Retries!Original
  <2>2. \A i \in DOMAIN answers : answers[i] = "final" => i = Len(answers) /\ pc = "done"
    BY DEF RetryInv
  <2>3. Len(answers) <= MaxRetries + 1 \/ answers = <<>>
    BY DEF RetryInv
  <2>4. pc = "done" /\ answers # <<>> /\ result # "context" => result = Retries!Last(answers)
    BY DEF RetryInv, Retries!Last
  <2>5. attempt > 1 /\ pc = "attempt" => delay <= MaxDelay
    BY DEF RetryInv
  <2> QED BY <2>1, <2>2, <2>3, <2>4, <2>5 DEF RetriesAreWhole, Retries!RetriesAreWhole
<1> QED BY <1>1, <1>2, <1>3, PTL DEF Spec
-----------------------------------------------------------------------------
(* Type registries that are merged *)

States == {"idle", "rlock", "lock", "wait", "inside"}
Records == [kind : {"none", "register", "remove", "clear", "read", "merge", "overwrite"},
            to : Registries \cup {None}, from : Registries \cup {None}, at : States]
CallsAreFormed ==
  /\ call \in [Callers -> Records]
  /\ \A c \in Callers :
       /\ call[c].at = "idle" <=> call[c] = SchemaTypes!Nobody
       /\ call[c].at = "rlock" => call[c].from # None
       /\ call[c].at \in {"lock", "wait"} => call[c].to # None
       /\ call[c].to # None => call[c].kind \in {"register", "remove", "clear", "merge", "overwrite"}
       /\ call[c].kind \in {"merge", "overwrite"} => call[c].from # None
       /\ call[c].kind \in {"register", "remove", "clear"} => call[c].from = None

\* Who reads a registry, and who has its write lock or is the one to have it next.
Reads(c, r) == call[c].from = r /\ call[c].at \in {"lock", "wait", "inside"}
Writes(c, r) == call[c].to = r /\ call[c].at \in {"wait", "inside"}

LocksAreHeld ==
  \A r \in Registries : \A c \in Callers :
    /\ c \in readers[r] <=> Reads(c, r)
    /\ writer[r] = c <=> Writes(c, r)
    /\ Writes(c, r) /\ call[c].at = "inside" => readers[r] = {}
    /\ Reads(c, r) => types[r] = seen[c]

TypesInv ==
  /\ types \in [Registries -> SchemaTypes!Types]
  /\ readers \in [Registries -> SUBSET Callers]
  /\ writer \in [Registries -> Callers \cup {None}]
  /\ seen \in [Callers -> SchemaTypes!Types]
  /\ CallsAreFormed /\ LocksAreHeld

\* In the beginning nobody has a lock.
LEMMA TypesStart == ASSUME SchemaTypes!NoneAssumption PROVE SchemaTypes!Init => TypesInv
  BY DEF SchemaTypes!NoneAssumption, SchemaTypes!Init, TypesInv, CallsAreFormed, LocksAreHeld,
         Reads, Writes, Records, States,
         SchemaTypes!Nobody, SchemaTypes!Types

\* A call begins without a lock.
LEMMA TypesBeginKeeps ==
  ASSUME SchemaTypes!NoneAssumption, TypesInv, NEW c \in Callers, SchemaTypes!Begin(c)
  PROVE  TypesInv'
<1>1. PICK k \in SchemaTypes!Calls : call' = [call EXCEPT ![c] = k]
  BY DEF SchemaTypes!Begin
<1>2. k \in Records /\ k # SchemaTypes!Nobody /\ k.at \in {"rlock", "lock"}
      /\ (k.at = "rlock" => k.from # None) /\ (k.at = "lock" => k.to # None /\ k.from = None)
      /\ (k.to # None => k.kind \in {"register", "remove", "clear", "merge", "overwrite"})
      /\ (k.kind \in {"merge", "overwrite"} => k.from # None)
      /\ (k.kind \in {"register", "remove", "clear"} => k.from = None)
  BY <1>1 DEF SchemaTypes!Calls, Records, States, SchemaTypes!Nobody, SchemaTypes!NoneAssumption
<1>3. CallsAreFormed'
  BY <1>1, <1>2 DEF TypesInv, CallsAreFormed
<1>4. \A d \in Callers : \A r \in Registries :
        (Reads(d, r)' <=> Reads(d, r)) /\ (Writes(d, r)' <=> Writes(d, r))
  BY <1>1, <1>2 DEF TypesInv, CallsAreFormed, SchemaTypes!Begin, SchemaTypes!Nobody,
                       Reads, Writes, SchemaTypes!NoneAssumption, Records
<1>5. \A d \in Callers : \A r \in Registries : Writes(d, r) => call'[d] = call[d]
  BY <1>1 DEF TypesInv, CallsAreFormed, SchemaTypes!Begin, SchemaTypes!Nobody,
                  Writes, SchemaTypes!NoneAssumption
<1>6. LocksAreHeld'
  BY <1>4, <1>5 DEF TypesInv, LocksAreHeld, SchemaTypes!Begin
<1> QED BY <1>3, <1>6 DEF TypesInv, SchemaTypes!Begin

\* A new reader meets no writer, and sees what the registry holds.
LEMMA ReadLockKeeps ==
  ASSUME SchemaTypes!NoneAssumption, TypesInv, NEW c \in Callers, SchemaTypes!ReadLock(c)
  PROVE  TypesInv'
<1> DEFINE from == call[c].from
<1>1. from \in Registries /\ call[c].at = "rlock" /\ writer[from] = None
  BY DEF SchemaTypes!ReadLock, TypesInv, CallsAreFormed, Records
<1>2. /\ UNCHANGED <<types, writer>>
      /\ readers' = [readers EXCEPT ![from] = @ \cup {c}]
      /\ seen' = [seen EXCEPT ![c] = types[from]]
      /\ call' = [call EXCEPT ![c].at = IF call[c].to = None THEN "inside" ELSE "lock"]
  BY DEF SchemaTypes!ReadLock
<1>3. CallsAreFormed'
  BY <1>1, <1>2 DEF TypesInv, CallsAreFormed, Records, States, SchemaTypes!Nobody
<1>4. /\ \A r \in Registries : Reads(c, r)' <=> r = from
      /\ \A r \in Registries : ~Reads(c, r) /\ ~Writes(c, r) /\ ~Writes(c, r)'
      /\ \A d \in Callers \ {c} : call'[d] = call[d] /\ seen'[d] = seen[d]
      /\ seen'[c] = types[from]
  BY <1>1, <1>2 DEF TypesInv, CallsAreFormed, Reads, Writes, Records, SchemaTypes!NoneAssumption
<1>5. \A r \in Registries : readers'[r] = IF r = from THEN readers[r] \cup {c} ELSE readers[r]
  BY <1>1, <1>2 DEF TypesInv
<1>6. ASSUME NEW r \in Registries, NEW d \in Callers
      PROVE  /\ d \in readers'[r] <=> Reads(d, r)'
             /\ writer'[r] = d <=> Writes(d, r)'
             /\ Writes(d, r)' /\ call'[d].at = "inside" => readers'[r] = {}
             /\ Reads(d, r)' => types'[r] = seen'[d]
  <2>1. CASE d = c
    BY <2>1, <1>1, <1>2, <1>4, <1>5 DEF TypesInv, LocksAreHeld
  <2>2. CASE d # c
    <3>1. (Reads(d, r)' <=> Reads(d, r)) /\ (Writes(d, r)' <=> Writes(d, r))
      BY <2>2, <1>4 DEF Reads, Writes
    <3>2. Writes(d, r) => r # from
      BY <1>1 DEF TypesInv, LocksAreHeld, SchemaTypes!NoneAssumption
    <3> QED BY <2>2, <3>1, <3>2, <1>2, <1>4, <1>5 DEF TypesInv, LocksAreHeld
  <2> QED BY <2>1, <2>2
<1>7. LocksAreHeld'
  BY <1>6 DEF LocksAreHeld
<1>8. seen' \in [Callers -> SchemaTypes!Types] /\ readers' \in [Registries -> SUBSET Callers]
  BY <1>1, <1>2 DEF TypesInv
<1> QED BY <1>2, <1>3, <1>7, <1>8 DEF TypesInv

\* One writer at a time asks for a lock.
LEMMA AskForLockKeeps ==
  ASSUME SchemaTypes!NoneAssumption, TypesInv, NEW c \in Callers, SchemaTypes!AskForLock(c)
  PROVE  TypesInv'
<1> DEFINE to == call[c].to
<1>1. to \in Registries /\ call[c].at = "lock" /\ writer[to] = None
  BY DEF SchemaTypes!AskForLock, TypesInv, CallsAreFormed, Records
<1>2. /\ UNCHANGED <<types, readers, seen>>
      /\ writer' = [writer EXCEPT ![to] = c]
      /\ call' = [call EXCEPT ![c].at = "wait"]
  BY DEF SchemaTypes!AskForLock
<1>3. CallsAreFormed'
  BY <1>1, <1>2 DEF TypesInv, CallsAreFormed, Records, States, SchemaTypes!Nobody, SchemaTypes!NoneAssumption
<1>4. \A d \in Callers, r \in Registries :
        /\ Reads(d, r)' <=> Reads(d, r)
        /\ Writes(d, r)' <=> (Writes(d, r) \/ (d = c /\ r = to))
        /\ ~Writes(c, r) /\ call'[c].at = "wait"
        /\ d # c => call'[d] = call[d]
  BY <1>1, <1>2 DEF TypesInv, CallsAreFormed, Reads, Writes, Records
<1>5. \A r \in Registries : writer'[r] = IF r = to THEN c ELSE writer[r]
  BY <1>1, <1>2 DEF TypesInv
<1>6. \A d \in Callers : ~Writes(d, to)
  BY <1>1 DEF TypesInv, LocksAreHeld, SchemaTypes!NoneAssumption
<1>7. LocksAreHeld'
  BY <1>1, <1>2, <1>4, <1>5, <1>6 DEF TypesInv, LocksAreHeld
<1>8. writer' \in [Registries -> Callers \cup {None}]
  BY <1>1, <1>2 DEF TypesInv
<1> QED BY <1>2, <1>3, <1>7, <1>8 DEF TypesInv

\* The writer goes in when the last reader has left.
LEMMA WriteLockKeeps ==
  ASSUME SchemaTypes!NoneAssumption, TypesInv, NEW c \in Callers, SchemaTypes!WriteLock(c)
  PROVE  TypesInv'
<1>1. /\ call[c].at = "wait" /\ call[c].to \in Registries /\ readers[call[c].to] = {}
      /\ UNCHANGED <<types, readers, writer, seen>>
      /\ call' = [call EXCEPT ![c].at = "inside"]
  BY DEF SchemaTypes!WriteLock, SchemaTypes!Unoccupied, TypesInv, CallsAreFormed, Records
<1>2. CallsAreFormed'
  BY <1>1 DEF TypesInv, CallsAreFormed, Records, States, SchemaTypes!Nobody
<1>3. \A d \in Callers, r \in Registries :
        /\ Reads(d, r)' <=> Reads(d, r)
        /\ Writes(d, r)' <=> Writes(d, r)
        /\ d # c => call'[d] = call[d]
        /\ Writes(c, r) => r = call[c].to
  BY <1>1 DEF TypesInv, CallsAreFormed, Reads, Writes, Records
<1>4. LocksAreHeld'
  BY <1>1, <1>3 DEF TypesInv, LocksAreHeld
<1> QED BY <1>1, <1>2, <1>4 DEF TypesInv

\* What a writer changes nobody reads.
LEMMA TypesFinishKeeps ==
  ASSUME SchemaTypes!NoneAssumption, TypesInv, NEW c \in Callers, SchemaTypes!Finish(c)
  PROVE  TypesInv'
<1>1. /\ call[c].at = "inside" /\ call[c] \in Records
      /\ call' = [call EXCEPT ![c] = SchemaTypes!Nobody]
      /\ seen' = [seen EXCEPT ![c] = None]
      /\ writer' = [r \in Registries |-> IF writer[r] = c THEN None ELSE writer[r]]
      /\ readers' = [r \in Registries |-> readers[r] \ {c}]
      /\ types' = IF call[c].to = None THEN types ELSE [types EXCEPT ![call[c].to] = SchemaTypes!After(c, call[c])]
  BY DEF SchemaTypes!Finish, SchemaTypes!Release, TypesInv, CallsAreFormed
<1>2. CallsAreFormed'
  BY <1>1 DEF TypesInv, CallsAreFormed, Records, States, SchemaTypes!Nobody
<1>3. /\ \A r \in Registries : ~Reads(c, r)' /\ ~Writes(c, r)'
      /\ \A d \in Callers \ {c} : call'[d] = call[d] /\ seen'[d] = seen[d]
  BY <1>1 DEF TypesInv, CallsAreFormed, Reads, Writes, SchemaTypes!Nobody
<1>4. \A r \in Registries : r # call[c].to => types'[r] = types[r]
  BY <1>1 DEF TypesInv
<1>5. call[c].to \in Registries => readers[call[c].to] = {}
  BY <1>1 DEF TypesInv, LocksAreHeld, Writes
<1>6. ASSUME NEW r \in Registries, NEW d \in Callers
      PROVE  /\ d \in readers'[r] <=> Reads(d, r)'
             /\ writer'[r] = d <=> Writes(d, r)'
             /\ Writes(d, r)' /\ call'[d].at = "inside" => readers'[r] = {}
             /\ Reads(d, r)' => types'[r] = seen'[d]
  <2>1. CASE d = c
    BY <2>1, <1>1, <1>3 DEF SchemaTypes!NoneAssumption
  <2>2. CASE d # c
    <3>1. (Reads(d, r)' <=> Reads(d, r)) /\ (Writes(d, r)' <=> Writes(d, r)) /\ call'[d] = call[d]
      BY <2>2, <1>3 DEF Reads, Writes
    <3>2. d \in readers'[r] <=> Reads(d, r)'
      BY <2>2, <3>1, <1>1 DEF TypesInv, LocksAreHeld
    <3>3. writer'[r] = d <=> Writes(d, r)'
      BY <2>2, <3>1, <1>1 DEF TypesInv, LocksAreHeld, SchemaTypes!NoneAssumption
    <3>4. Writes(d, r)' /\ call'[d].at = "inside" => readers'[r] = {}
      BY <2>2, <3>1, <1>1 DEF TypesInv, LocksAreHeld
    <3>5. Reads(d, r)' => types'[r] = seen'[d]
      BY <2>2, <3>1, <1>3, <1>4, <1>5 DEF TypesInv, LocksAreHeld
    <3> QED BY <3>2, <3>3, <3>4, <3>5
  <2> QED BY <2>1, <2>2
<1>7. LocksAreHeld'
  BY <1>6 DEF LocksAreHeld
<1>8. call[c].to # None => SchemaTypes!After(c, call[c]) \in SchemaTypes!Types
  BY <1>1 DEF TypesInv, CallsAreFormed, Records, SchemaTypes!After, SchemaTypes!Types
<1>9. types' \in [Registries -> SchemaTypes!Types] /\ seen' \in [Callers -> SchemaTypes!Types]
  BY <1>1, <1>8 DEF TypesInv, SchemaTypes!Types
<1>10. readers' \in [Registries -> SUBSET Callers] /\ writer' \in [Registries -> Callers \cup {None}]
  BY <1>1 DEF TypesInv
<1> QED BY <1>2, <1>7, <1>9, <1>10 DEF TypesInv

LEMMA TypesKeep == ASSUME TypesInv, [SchemaTypes!Next]_typeVars PROVE TypesInv'
<1>1. CASE UNCHANGED typeVars
  BY <1>1 DEF typeVars, TypesInv, CallsAreFormed, LocksAreHeld, Reads, Writes, SchemaTypes!Types
<1>2. CASE UNCHANGED SchemaTypes!vars
  BY <1>2 DEF SchemaTypes!vars, TypesInv, CallsAreFormed, LocksAreHeld, Reads, Writes, SchemaTypes!Types
<1>3. ASSUME NEW c \in Callers, SchemaTypes!Begin(c) \/ SchemaTypes!Step(c) PROVE TypesInv'
  BY <1>3, TypesNone, TypesBeginKeeps, ReadLockKeeps, AskForLockKeeps, WriteLockKeeps, TypesFinishKeeps
     DEF SchemaTypes!Step
<1> QED BY <1>1, <1>2, <1>3 DEF SchemaTypes!Next, SchemaTypes!Stay

LEMMA StableReads == TypesInv => SchemaTypes!ReadsAreStable
<1> SUFFICES ASSUME TypesInv, NEW c \in Callers
             PROVE  /\ call[c].from # None /\ call[c].at \in {"lock", "wait", "inside"} =>
                         types[call[c].from] = seen[c]
                    /\ call[c].at = "inside" /\ call[c].to # None =>
                         readers[call[c].to] = {} /\ writer[call[c].to] = c
  BY DEF SchemaTypes!ReadsAreStable
<1>1. call[c].from \in Registries \cup {None} /\ call[c].to \in Registries \cup {None}
  BY DEF TypesInv, CallsAreFormed, Records
<1> QED BY <1>1 DEF TypesInv, LocksAreHeld, Reads, Writes

\* When nobody can go on, a registry whose writer waits has a reader, and who reads it is in
\* the middle of a merge.
LEMMA ReaderMerges ==
  ASSUME TypesInv, SchemaTypes!Stuck, NEW r \in Registries, writer[r] # None
  PROVE  \E m \in SchemaTypes!MergesUnderWay : m[1] = r
<1>1. PICK d \in Callers : writer[r] = d
  BY DEF TypesInv
<1>2. call[d].to = r /\ call[d].at \in {"wait", "inside"}
  BY <1>1 DEF TypesInv, LocksAreHeld, Writes
<1>3. d \in SchemaTypes!Busy
  BY <1>2 DEF SchemaTypes!Busy, SchemaTypes!Nobody
<1>4. readers[r] # {}
  BY <1>2, <1>3 DEF SchemaTypes!Stuck, SchemaTypes!Cannot, SchemaTypes!Unoccupied
<1>5. PICK e \in readers[r] : TRUE
  BY <1>4
<1>6. e \in Callers /\ call[e].from = r /\ call[e].at \in {"lock", "wait", "inside"}
  BY DEF TypesInv, LocksAreHeld, Reads
<1>7. e \in SchemaTypes!Busy
  BY <1>6 DEF SchemaTypes!Busy, SchemaTypes!Nobody
<1>8. call[e].at \in {"lock", "wait"}
  BY <1>6, <1>7 DEF SchemaTypes!Stuck, SchemaTypes!Cannot
<1>9. call[e].kind \in {"merge", "overwrite"}
  BY <1>6, <1>8, TypesNone DEF TypesInv, CallsAreFormed, SchemaTypes!NoneAssumption
<1>10. <<call[e].from, call[e].to>> \in SchemaTypes!MergesUnderWay
  BY <1>7, <1>8, <1>9 DEF SchemaTypes!MergesUnderWay
<1> QED BY <1>6, <1>10

\* All merges under way lead to each other.
LEMMA StuckInMerges == TypesInv => SchemaTypes!OnlyCyclesAreStuck
<1> SUFFICES ASSUME TypesInv, SchemaTypes!Stuck
             PROVE  \E R \in SUBSET SchemaTypes!MergesUnderWay :
                      R # {} /\ \A m \in R : \E n \in R : n[1] = m[2]
  BY DEF SchemaTypes!OnlyCyclesAreStuck
<1>1. ASSUME NEW c \in SchemaTypes!Busy
      PROVE  \/ call[c].at = "rlock" /\ writer[call[c].from] # None /\ call[c].from \in Registries
             \/ /\ call[c].at \in {"lock", "wait"} /\ call[c].to \in Registries
                /\ writer[call[c].to] # None
  <2>1. c \in Callers /\ SchemaTypes!Cannot(c)
    BY DEF SchemaTypes!Stuck, SchemaTypes!Busy
  <2>2. call[c] \in Records
    BY <2>1 DEF TypesInv, CallsAreFormed
  <2>3. CASE call[c].at = "rlock"
    BY <2>1, <2>2, <2>3 DEF SchemaTypes!Cannot, TypesInv, CallsAreFormed, Records
  <2>4. CASE call[c].at = "lock"
    BY <2>1, <2>2, <2>4 DEF SchemaTypes!Cannot, TypesInv, CallsAreFormed, Records
  <2>5. CASE call[c].at = "wait"
    <3>1. call[c].to \in Registries
      BY <2>1, <2>2, <2>5 DEF TypesInv, CallsAreFormed, Records
    <3>2. writer[call[c].to] = c
      BY <2>1, <3>1, <2>5 DEF TypesInv, LocksAreHeld, Writes
    <3> QED BY <2>1, <2>5, <3>1, <3>2, TypesNone DEF SchemaTypes!NoneAssumption
  <2> QED BY <2>1, <2>3, <2>4, <2>5 DEF SchemaTypes!Cannot
<1>2. \A c \in SchemaTypes!Busy : \E m \in SchemaTypes!MergesUnderWay : TRUE
  BY <1>1, ReaderMerges
<1>3. ASSUME NEW m \in SchemaTypes!MergesUnderWay
      PROVE  \E n \in SchemaTypes!MergesUnderWay : n[1] = m[2]
  <2>1. PICK c \in SchemaTypes!Busy :
          m = <<call[c].from, call[c].to>> /\ call[c].at \in {"lock", "wait"}
    BY DEF SchemaTypes!MergesUnderWay
  <2>2. call[c].to \in Registries /\ writer[call[c].to] # None /\ m[2] = call[c].to
    BY <1>1, <2>1
  <2> QED BY <2>2, ReaderMerges
<1>4. SchemaTypes!MergesUnderWay # {}
  BY <1>2 DEF SchemaTypes!Stuck
<1> QED BY <1>3, <1>4
-----------------------------------------------------------------------------
(* Breakers and loaders, made once for a key *)

\* A breaker in the map or in use is one of those that were made.
BreakersInv ==
  /\ breakersMade \in 0 .. MaxBreakers
  /\ breakers \in [Keys -> 1 .. breakersMade \cup {None}]
  /\ breakerHeld \in [Callers -> 1 .. breakersMade \cup {None}]
  /\ breakerKey \in [Callers -> Keys \cup {CHOOSE k \in Keys : TRUE}]
  /\ breakerStep \in [Callers -> {"idle", "begun", "missed", "holds"}]
  /\ \A c \in Callers : breakerStep[c] # "idle" => breakerKey[c] \in Keys

LEMMA BreakersStart == Breakers!Init => BreakersInv
  BY BreakerNone DEF Breakers!Init, BreakersInv, Breakers!StoreAssumption

\* A breaker that is made is none of those in the map or in use.
LEMMA BreakerObtains ==
  ASSUME BreakersInv, NEW c \in Callers, Breakers!Find(c) \/ Breakers!Make(c)
  PROVE  BreakersInv' /\ Breakers!Contract!Next
<1>1. MaxBreakers \in Nat /\ None \notin 1 .. MaxBreakers
  BY BreakerNone DEF Breakers!StoreAssumption, Breakers!Breakers
<1> DEFINE k == breakerKey[c]
<1>2. k \in Keys
  BY DEF BreakersInv, Breakers!Find, Breakers!Make
<1>3. CASE breakers[k] # None
  <2> DEFINE o == breakers[k]
  <2>1. UNCHANGED <<breakers, breakersMade, breakerKey>>
        /\ breakerStep' = [breakerStep EXCEPT ![c] = "holds"]
        /\ breakerHeld' = [breakerHeld EXCEPT ![c] = o]
    BY <1>3 DEF Breakers!Find, Breakers!Make, Breakers!Takes, Breakers!MadeMeanwhile
  <2>2. o \in 1 .. breakersMade /\ o \in Breakers!Breakers
    BY <1>1, <1>2, <1>3 DEF BreakersInv, Breakers!Breakers
  <2>3. BreakersInv'
    BY <1>2, <2>1, <2>2 DEF BreakersInv
  <2>4. breakers' = [breakers EXCEPT ![k] = o]
    BY <1>2, <2>1 DEF BreakersInv
  <2>5. Breakers!Contract!Obtain(c, k, o)
    BY <1>1, <1>2, <1>3, <2>1, <2>2, <2>4 DEF Breakers!Contract!Obtain
  <2> QED BY <1>2, <2>2, <2>3, <2>5 DEF Breakers!Contract!Next
<1>4. CASE breakers[k] = None
  <2> DEFINE o == breakersMade + 1
  <2>1. /\ breakersMade < MaxBreakers /\ breakersMade' = o
        /\ breakers' = [breakers EXCEPT ![k] = o]
        /\ breakerHeld' = [breakerHeld EXCEPT ![c] = o]
        /\ breakerStep' = [breakerStep EXCEPT ![c] = "holds"] /\ breakerKey' = breakerKey
    BY <1>4 DEF Breakers!Find, Breakers!Make, Breakers!Takes, Breakers!MadeMeanwhile
  <2>2. o \in Breakers!Breakers /\ o \in Nat /\ breakersMade \in Nat
    BY <1>1, <2>1 DEF BreakersInv, Breakers!Breakers
  <2>3. \A j \in Keys, d \in Callers : breakers[j] # o /\ breakerHeld[d] # o
    BY <1>1, <2>2 DEF BreakersInv, Breakers!Breakers
  <2>4. Breakers!Contract!Obtain(c, k, o)
    BY <1>4, <2>1, <2>3 DEF Breakers!Contract!Obtain
  <2>5. BreakersInv'
    BY <1>1, <1>2, <2>1, <2>2 DEF BreakersInv
  <2> QED BY <1>2, <2>2, <2>4, <2>5 DEF Breakers!Contract!Next
<1> QED BY <1>3, <1>4

LEMMA BreakersKeep ==
  ASSUME BreakersInv, [Breakers!Next]_storeVars
  PROVE  BreakersInv' /\ [Breakers!Contract!Next]_<<breakers, breakerHeld>>
<1>1. MaxBreakers \in Nat /\ None \notin 1 .. MaxBreakers
  BY BreakerNone DEF Breakers!StoreAssumption, Breakers!Breakers
<1>2. CASE UNCHANGED storeVars
  BY <1>2 DEF storeVars, BreakersInv
<1>3. ASSUME NEW c \in Callers, NEW k \in Keys, Breakers!Begin(c, k)
      PROVE  BreakersInv' /\ UNCHANGED <<breakers, breakerHeld>>
  BY <1>3 DEF Breakers!Begin, BreakersInv
<1>4. ASSUME NEW c \in Callers, Breakers!Miss(c)
      PROVE  BreakersInv' /\ UNCHANGED <<breakers, breakerHeld>>
  BY <1>4 DEF Breakers!Miss, BreakersInv
<1>5. ASSUME NEW c \in Callers, Breakers!Finish(c)
      PROVE  BreakersInv' /\ Breakers!Contract!Next
  <2>1. Breakers!Contract!Release(c)
    BY <1>5 DEF Breakers!Finish, Breakers!Contract!Release
  <2> QED BY <1>5, <2>1 DEF Breakers!Finish, BreakersInv, Breakers!Contract!Next
<1>6. ASSUME NEW k \in Keys, Breakers!Delete(k)
      PROVE  BreakersInv' /\ Breakers!Contract!Next
  <2>1. Breakers!Contract!TakeOut({k})
    BY <1>6 DEF Breakers!Delete, Breakers!Contract!TakeOut, BreakersInv
  <2> QED BY <1>6, <2>1 DEF Breakers!Delete, BreakersInv, Breakers!Contract!Next
<1>7. ASSUME Breakers!Clear
      PROVE  BreakersInv' /\ Breakers!Contract!Next
  <2>1. Breakers!Contract!TakeOut(Keys)
    BY <1>7 DEF Breakers!Clear, Breakers!Contract!TakeOut, BreakersInv
  <2> QED BY <1>7, <2>1 DEF Breakers!Clear, BreakersInv, Breakers!Contract!Next
<1> QED
  BY <1>2, <1>3, <1>4, <1>5, <1>6, <1>7, BreakerObtains DEF Breakers!Next, storeVars

\* A loader that was made is in the map, under one key, or stopped.
LoadersInv ==
  /\ made \in 0 .. MaxLoaders
  /\ loaders \in [Keys -> 1 .. made \cup {None}]
  /\ held \in [Callers -> 1 .. made \cup {None}]
  /\ key \in [Callers -> Keys \cup {CHOOSE k \in Keys : TRUE}]
  /\ step \in [Callers -> {"idle", "begun", "missed", "refused", "holds"}]
  /\ \A c \in Callers : step[c] # "idle" => key[c] \in Keys
  /\ stopped \subseteq 1 .. made
  /\ Loaders!LoadersAreStopped

LEMMA LoadersStart == Loaders!Init => LoadersInv
  BY LoaderNone DEF Loaders!Init, LoadersInv, Loaders!LoaderAssumption, Loaders!LoadersAreStopped

LEMMA LoaderObtains ==
  ASSUME LoadersInv, NEW c \in Callers, Loaders!Find(c) \/ Loaders!FindLate(c) \/ Loaders!Make(c)
  PROVE  LoadersInv' /\ Loaders!Contract!Next
<1>1. MaxLoaders \in Nat /\ None \notin 1 .. MaxLoaders
  BY LoaderNone DEF Loaders!LoaderAssumption, Loaders!Loaders
<1> DEFINE k == key[c]
<1>2. k \in Keys
  BY DEF LoadersInv, Loaders!Find, Loaders!FindLate, Loaders!Make
<1>3. CASE loaders[k] # None
  <2> DEFINE o == loaders[k]
  <2>1. UNCHANGED <<loaders, made, key, stopped>>
        /\ step' = [step EXCEPT ![c] = "holds"]
        /\ held' = [held EXCEPT ![c] = o]
    BY <1>3 DEF Loaders!Find, Loaders!FindLate, Loaders!Make, Loaders!Takes
  <2>2. o \in 1 .. made /\ o \in Loaders!Loaders
    BY <1>1, <1>2, <1>3 DEF LoadersInv, Loaders!Loaders
  <2>3. LoadersInv'
    BY <1>2, <2>1, <2>2 DEF LoadersInv, Loaders!LoadersAreStopped
  <2>4. loaders' = [loaders EXCEPT ![k] = o]
    BY <1>2, <2>1 DEF LoadersInv
  <2>5. Loaders!Contract!Obtain(c, k, o)
    BY <1>1, <1>2, <1>3, <2>1, <2>2, <2>4 DEF Loaders!Contract!Obtain
  <2> QED BY <1>2, <2>2, <2>3, <2>5 DEF Loaders!Contract!Next
<1>4. CASE loaders[k] = None
  <2> DEFINE o == made + 1
  <2>1. /\ made < MaxLoaders /\ made' = o
        /\ loaders' = [loaders EXCEPT ![k] = o]
        /\ held' = [held EXCEPT ![c] = o]
        /\ step' = [step EXCEPT ![c] = "holds"] /\ key' = key /\ stopped' = stopped
    BY <1>4 DEF Loaders!Find, Loaders!FindLate, Loaders!Make, Loaders!Takes
  <2>2. o \in Loaders!Loaders /\ o \in Nat /\ made \in Nat /\ 1 .. o = 1 .. made \cup {o}
    BY <1>1, <2>1 DEF LoadersInv, Loaders!Loaders
  <2>3. \A j \in Keys, d \in Callers : loaders[j] # o /\ held[d] # o
    BY <1>1, <2>2 DEF LoadersInv, Loaders!Loaders
  <2>4. Loaders!Contract!Obtain(c, k, o)
    BY <1>4, <2>1, <2>3 DEF Loaders!Contract!Obtain
  <2>5. Loaders!LoadersAreStopped'
    <3>1. \A l \in 1 .. made : l \in stopped <=> \A j \in Keys : loaders[j] # l
      BY DEF LoadersInv, Loaders!LoadersAreStopped
    <3>2. \A j \in Keys : loaders'[j] = IF j = k THEN o ELSE loaders[j]
      BY <2>1 DEF LoadersInv
    <3>3. o \notin stopped /\ o \notin 1 .. made
      BY <2>2 DEF LoadersInv
    <3>4. loaders[k] \notin 1 .. made
      BY <1>1, <1>4, <2>1, <2>2
    <3> HIDE DEF o, k
    <3>5. \A l \in 1 .. made : (\A j \in Keys : loaders[j] # l) <=> \A j \in Keys : loaders'[j] # l
      BY <1>2, <3>2, <3>3, <3>4, Zenon
    <3> QED BY <1>2, <2>1, <2>2, <3>1, <3>2, <3>3, <3>5 DEF Loaders!LoadersAreStopped
  <2>6. LoadersInv'
    BY <1>1, <1>2, <2>1, <2>2, <2>5 DEF LoadersInv
  <2> QED BY <1>2, <2>2, <2>4, <2>6 DEF Loaders!Contract!Next
<1> QED BY <1>3, <1>4

\* Stop forgets no loader of the map.
LEMMA StopKeeps ==
  ASSUME LoadersInv, Loaders!Stop PROVE LoadersInv' /\ Loaders!Contract!Next
<1>1. MaxLoaders \in Nat /\ None \notin 1 .. MaxLoaders
  BY LoaderNone DEF Loaders!LoaderAssumption, Loaders!Loaders
<1>2. /\ stopped' = stopped \cup ({loaders[k] : k \in Keys} \ {None})
      /\ loaders' = [k \in Keys |-> None]
      /\ UNCHANGED <<made, step, key, held>>
  BY DEF Loaders!Stop
<1>3. Loaders!Contract!TakeOut(Keys)
  BY <1>2 DEF Loaders!Contract!TakeOut, LoadersInv
<1>4. stopped' \subseteq 1 .. made
  BY <1>2 DEF LoadersInv
<1>5. \A l \in 1 .. made : l \in stopped'
  BY <1>1, <1>2 DEF LoadersInv, Loaders!LoadersAreStopped
<1>6. Loaders!LoadersAreStopped'
  BY <1>1, <1>2, <1>5 DEF LoadersInv, Loaders!LoadersAreStopped
<1> QED BY <1>2, <1>3, <1>4, <1>6 DEF LoadersInv, Loaders!Contract!Next

LEMMA LoadersKeep ==
  ASSUME LoadersInv, [Loaders!Next]_loaderVars
  PROVE  LoadersInv' /\ [Loaders!Contract!Next]_<<loaders, held>>
<1>1. MaxLoaders \in Nat /\ None \notin 1 .. MaxLoaders
  BY LoaderNone DEF Loaders!LoaderAssumption, Loaders!Loaders
<1>2. CASE UNCHANGED loaderVars
  BY <1>2 DEF loaderVars, LoadersInv, Loaders!LoadersAreStopped
<1>3. ASSUME NEW c \in Callers, NEW k \in Keys, Loaders!Begin(c, k)
      PROVE  LoadersInv' /\ UNCHANGED <<loaders, held>>
  BY <1>3 DEF Loaders!Begin, LoadersInv, Loaders!LoadersAreStopped
<1>4. ASSUME NEW c \in Callers, Loaders!Miss(c) \/ Loaders!Refuse(c)
      PROVE  LoadersInv' /\ UNCHANGED <<loaders, held>>
  BY <1>4 DEF Loaders!Miss, Loaders!Refuse, LoadersInv, Loaders!LoadersAreStopped
<1>5. ASSUME NEW c \in Callers, Loaders!Finish(c)
      PROVE  LoadersInv' /\ Loaders!Contract!Next
  <2>1. Loaders!Contract!Release(c)
    BY <1>5 DEF Loaders!Finish, Loaders!Contract!Release
  <2> QED BY <1>5, <2>1 DEF Loaders!Finish, LoadersInv, Loaders!LoadersAreStopped, Loaders!Contract!Next
<1>6. ASSUME NEW u \in Upstreams, Loaders!RegisterProvider(u)
      PROVE  LoadersInv' /\ UNCHANGED <<loaders, held>>
  BY <1>6 DEF Loaders!RegisterProvider, LoadersInv, Loaders!LoadersAreStopped
<1>7. ASSUME Loaders!CreateForRequest
      PROVE  LoadersInv' /\ UNCHANGED <<loaders, held>>
  BY <1>7 DEF Loaders!CreateForRequest, LoadersInv, Loaders!LoadersAreStopped
<1> QED
  BY <1>2, <1>3, <1>4, <1>5, <1>6, <1>7, LoaderObtains, StopKeeps DEF Loaders!Next, loaderVars

\* RegistriesAgree, which is checked on two keys, two registries and two callers, holds for
\* any number of them: both registries implement OncePerKey, a loader that leaves the map
\* is stopped, and type registries are read without being changed meanwhile and wait for each
\* other only along merges.
THEOREM RegistriesHold == Spec => RegistriesAgree
<1>1. /\ Init => BreakersInv /\ LoadersInv /\ TypesInv
      /\ Init => Breakers!Contract!Init /\ Loaders!Contract!Init
  BY BreakersStart, LoadersStart, TypesNone, TypesStart
     DEF Init, Breakers!Init, Loaders!Init, Breakers!Contract!Init, Loaders!Contract!Init
<1>2. /\ [Next]_vars => [Breakers!Next]_storeVars
      /\ [Next]_vars => [Loaders!Next]_loaderVars
      /\ [Next]_vars => [SchemaTypes!Next]_typeVars
  BY DEF Next, vars, storeVars, loaderVars, typeVars
<1>3. BreakersInv /\ [Next]_vars => BreakersInv' /\ [Breakers!Contract!Next]_Breakers!Contract!contractVars
  BY <1>2, BreakersKeep DEF Breakers!Contract!contractVars
<1>4. LoadersInv /\ [Next]_vars => LoadersInv' /\ [Loaders!Contract!Next]_Loaders!Contract!contractVars
  BY <1>2, LoadersKeep DEF Loaders!Contract!contractVars
<1>5. TypesInv /\ [Next]_vars => TypesInv'
  BY <1>2, TypesKeep
<1>6. /\ LoadersInv => Loaders!LoadersAreStopped
      /\ TypesInv => SchemaTypes!ReadsAreStable /\ SchemaTypes!OnlyCyclesAreStuck
  BY StableReads, StuckInMerges DEF LoadersInv
<1> QED
  BY <1>1, <1>3, <1>4, <1>5, <1>6, PTL
     DEF Spec, RegistriesAgree, Breakers!OneBreakerPerKey, Loaders!OneLoaderPerKey,
         Breakers!Contract!Spec, Loaders!Contract!Spec
-----------------------------------------------------------------------------
(* Requests that are routed *)

\* The numbers of a bounded set have a greatest one.
LEMMA Greatest ==
  ASSUME NEW N \in Nat, NEW S \in SUBSET (0 .. N), NEW z \in S
  PROVE  \E m \in S : \A x \in S : m >= x
<1> DEFINE T == {N - x : x \in S}
<1>1. T \subseteq Nat /\ N - z \in T
  OBVIOUS
<1>2. PICK t \in T : \A u \in T : <<u, t>> \notin OpToRel(<, Nat)
  BY <1>1, NatLessThanWellFounded, WFMin, Zenon
<1>3. \A u \in T : t <= u
  <2>1. \A u \in T : ~(u < t)
    BY <1>1, <1>2, Zenon DEF OpToRel
  <2> SUFFICES ASSUME NEW u \in T PROVE t <= u
    OBVIOUS
  <2>2. t \in Nat /\ u \in Nat /\ ~(u < t)
    <3> HIDE DEF T
    <3> QED BY <1>1, <1>2, <2>1
  <2> QED
    BY <2>2
<1>4. N - t \in S /\ \A x \in S : N - t >= x
  BY <1>3
<1> QED
  BY <1>4, Zenon

\* ... and only one.
LEMMA MaxIs ==
  ASSUME NEW S \in SUBSET Int, NEW m \in S, \A x \in S : m >= x
  PROVE  Routes!Max(S) = m
<1>1. Routes!Max(S) \in S /\ \A x \in S : Routes!Max(S) >= x
  BY Zenon DEF Routes!Max
<1> DEFINE k == Routes!Max(S)
<1> HIDE DEF k
<1>2. k \in Int /\ m \in Int /\ k >= m /\ m >= k
  BY <1>1 DEF k
<1>3. k = m
  BY <1>2
<1> QED BY <1>3 DEF k

LEMMA MaxOf ==
  ASSUME NEW N \in Nat, NEW S \in SUBSET (0 .. N), S # {}
  PROVE  Routes!Max(S) \in S /\ \A x \in S : Routes!Max(S) >= x
<1>1. PICK z \in S : TRUE
  OBVIOUS
<1>2. \E m \in S : \A x \in S : m >= x
  BY Greatest
<1> QED BY <1>2, Zenon DEF Routes!Max

\* The last of some upstreams with prefix p.
LastWith(c, s, p) == Routes!Max({i \in s : c[i].prefix = p})

BuiltFrom(c, load, s) ==
  [p \in {c[i].prefix : i \in s} |-> [load |-> load, upstream |-> c[LastWith(c, s, p)]]]

\* One more upstream, the x-th.
PutOn(c, load, f, x) ==
  [p \in DOMAIN f \cup {c[x].prefix} |->
     IF p = c[x].prefix THEN [load |-> load, upstream |-> c[x]] ELSE f[p]]

LEMMA BuiltAdds ==
  ASSUME NEW c, NEW load, NEW n \in Nat, NEW s \in SUBSET (1 .. n), s # {}
  PROVE  BuiltFrom(c, load, s) =
           PutOn(c, load, BuiltFrom(c, load, s \ {Routes!Max(s)}), Routes!Max(s))
<1> DEFINE x == Routes!Max(s)
           t == s \ {x}
           h == BuiltFrom(c, load, t)
           f == BuiltFrom(c, load, s)
           g == [p \in DOMAIN h \cup {c[x].prefix} |->
                   IF p = c[x].prefix THEN [load |-> load, upstream |-> c[x]] ELSE h[p]]
<1>1. s \in SUBSET (0 .. n)
  OBVIOUS
<1>2. x \in s /\ \A y \in s : x >= y
  BY <1>1, MaxOf
<1> HIDE DEF x
<1>3. DOMAIN f = {c[i].prefix : i \in s} /\ DOMAIN h = {c[i].prefix : i \in t}
  BY DEF BuiltFrom
<1>4. DOMAIN f = DOMAIN g
  BY <1>2, <1>3
<1>5. ASSUME NEW p \in DOMAIN f PROVE f[p] = g[p]
  <2>1. f[p] = [load |-> load, upstream |-> c[LastWith(c, s, p)]]
    BY <1>3 DEF BuiltFrom
  <2>2. CASE p = c[x].prefix
    <3>1. LastWith(c, s, p) = x
      <4> DEFINE S == {i \in s : c[i].prefix = p}
      <4>1. S \in SUBSET Int /\ x \in S /\ \A y \in S : x >= y
        BY <1>2, <2>2
      <4> QED BY <4>1, MaxIs DEF LastWith
    <3> QED BY <1>4, <2>1, <2>2, <3>1
  <2>3. CASE p # c[x].prefix
    <3>1. {i \in s : c[i].prefix = p} = {i \in t : c[i].prefix = p}
      BY <2>3
    <3>2. p \in {c[i].prefix : i \in t}
      BY <1>3, <2>3
    <3>3. h[p] = [load |-> load, upstream |-> c[LastWith(c, t, p)]]
      BY <3>2 DEF BuiltFrom
    <3>4. g[p] = h[p]
      BY <1>4, <2>3
    <3> QED BY <2>1, <3>1, <3>3, <3>4 DEF LastWith
  <2> QED BY <2>2, <2>3
<1>6. f = [p \in DOMAIN f |-> f[p]]
  BY DEF BuiltFrom
<1> HIDE DEF h, t
<1>7. g = [p \in DOMAIN g |-> g[p]]
  OBVIOUS
<1> HIDE DEF f, g
<1>8. f = g
  BY <1>4, <1>5, <1>6, <1>7
<1> QED BY <1>8 DEF f, g, h, t, x, PutOn

\* The equation of the recursive function behind Built.
BuiltIterates(c, load, g) ==
  g = [s \in SUBSET DOMAIN c |->
         IF s = {} THEN Routes!NoHandlers
         ELSE PutOn(c, load, g[s \ {Routes!Max(s)}], Routes!Max(s))]

\* A handler for each prefix, for the last of the upstreams that have it.
LEMMA BuiltIs ==
  ASSUME NEW c, c \in Seq(Routes!ToSet(c)), NEW load
  PROVE  Routes!Built(c, load) = BuiltFrom(c, load, DOMAIN c)
<1> DEFINE n == Len(c)
           S == DOMAIN c
           h == [s \in SUBSET S |-> BuiltFrom(c, load, s)]
           g == CHOOSE k : BuiltIterates(c, load, k)
<1>1. n \in Nat /\ S = 1 .. n
  OBVIOUS
<1>2. ASSUME NEW s \in SUBSET S
      PROVE  h[s] = IF s = {} THEN Routes!NoHandlers
                    ELSE PutOn(c, load, h[s \ {Routes!Max(s)}], Routes!Max(s))
  <2>1. CASE s = {}
    <3>1. BuiltFrom(c, load, {}) = Routes!NoHandlers
      BY DEF BuiltFrom, Routes!NoHandlers
    <3> QED BY <2>1, <3>1
  <2>2. CASE s # {}
    <3>1. s \ {Routes!Max(s)} \in SUBSET S
      OBVIOUS
    <3>2. h[s] = BuiltFrom(c, load, s) /\ h[s \ {Routes!Max(s)}] = BuiltFrom(c, load, s \ {Routes!Max(s)})
      BY <3>1, Zenon
    <3>3. s \in SUBSET (1 .. n)
      BY <1>1
    <3> HIDE DEF h, n
    <3>4. BuiltFrom(c, load, s) = PutOn(c, load, BuiltFrom(c, load, s \ {Routes!Max(s)}), Routes!Max(s))
      BY <1>1, <2>2, <3>3, BuiltAdds, Zenon
    <3> QED BY <2>2, <3>2, <3>4, Zenon
  <2> QED BY <2>1, <2>2
<1>3. BuiltIterates(c, load, h)
  BY <1>2, Zenon DEF BuiltIterates
<1>4. BuiltIterates(c, load, g)
  BY <1>3, Zenon
<1>5. Routes!Built(c, load) = g[S]
  BY Zenon DEF Routes!Built, Routes!FoldLeft, Routes!MapThenFoldSet, BuiltIterates, PutOn
<1> HIDE DEF g, h
<1>6. ASSUME NEW s \in SUBSET S
      PROVE  g[s] = IF s = {} THEN Routes!NoHandlers
                    ELSE PutOn(c, load, g[s \ {Routes!Max(s)}], Routes!Max(s))
  BY <1>4, Zenon DEF BuiltIterates
<1>7. g[S] = h[S]
  <2> DEFINE T == {s \in SUBSET S : g[s] # h[s]}
  <2> SUFFICES ASSUME T # {} PROVE FALSE
    OBVIOUS
  <2>1. IsFiniteSet(S)
    BY <1>1, FS_Interval
  <2>2. T \subseteq FiniteSubsetsOf(S)
    BY <2>1, FS_Subset DEF FiniteSubsetsOf
  <2>3. PICK s \in T : \A t \in T : <<t, s>> \notin StrictSubsetOrdering(S)
    BY <2>1, <2>2, FS_StrictSubsetOrderingWellFounded, WFMin, Zenon
  <2>4. s # {}
    BY <1>2, <1>6
  <2> DEFINE x == Routes!Max(s)
  <2>5. x \in s
    BY <1>1, <2>4, MaxOf
  <2> HIDE DEF x
  <2>6. s \ {x} \notin T
    <3> DEFINE t == s \ {x}
    <3>1. t \in SUBSET S /\ s \in SUBSET S /\ t \subseteq s /\ t # s
      BY <2>5
    <3>2. <<t, s>> \in StrictSubsetOrdering(S)
      BY <3>1 DEF StrictSubsetOrdering
    <3> QED
      BY <2>3, <3>2, Zenon
  <2>7. g[s \ {x}] = h[s \ {x}]
    BY <2>5, <2>6
  <2> QED
    BY <1>2, <1>6, <2>4, <2>7 DEF x
<1> QED
  BY <1>5, <1>7, Zenon DEF h

\* A prefix is a part of the path, and prefixes of one length are equal.
LEMMA PrefixIs ==
  ASSUME NEW p, p \in Seq(Routes!ToSet(p)), NEW q, q \in Seq(Routes!ToSet(q))
  PROVE  /\ Len(q) \in Nat /\ Len(p) \in Nat
         /\ Routes!IsPrefix(q, p) => Len(q) <= Len(p) /\ q = SubSeq(p, 1, Len(q))
         /\ q = <<>> <=> Len(q) = 0
<1>1. SubSeq(q, 1, Len(q)) = q
  <2>1. q \in Seq(Routes!ToSet(q)) /\ SubSeq(q, 1, Len(q)) \in Seq(Routes!ToSet(q))
    OBVIOUS
  <2>2. Len(SubSeq(q, 1, Len(q))) = Len(q) /\ \A i \in 1 .. Len(q) : SubSeq(q, 1, Len(q))[i] = q[i]
    OBVIOUS
  <2> QED BY <2>1, <2>2, SeqEqual
<1>2. q = <<>> <=> Len(q) = 0
  OBVIOUS
<1> QED BY <1>1, <1>2 DEF Routes!IsPrefix

\* The length of the longest match among some elements of the order.
Lengths(order, p, s) == {0} \cup {Len(order[i]) : i \in {j \in s : Routes!IsPrefix(order[j], p)}}
Longest(order, p, s) == Routes!Max(Lengths(order, p, s))
Better(order, p, b, x) ==
  IF Routes!IsPrefix(order[x], p) /\ Len(order[x]) > Len(b) THEN order[x] ELSE b

IsOrder(order) ==
  /\ order \in Seq(Routes!ToSet(order))
  /\ \A i \in DOMAIN order : order[i] \in Seq(Routes!ToSet(order[i]))

LEMMA LongestFacts ==
  ASSUME NEW p, p \in Seq(Routes!ToSet(p)), NEW order, IsOrder(order), NEW s \in SUBSET DOMAIN order
  PROVE  /\ Longest(order, p, s) \in Lengths(order, p, s) /\ Longest(order, p, s) \in 0 .. Len(p)
         /\ \A l \in Lengths(order, p, s) : l \in 0 .. Len(p) /\ Longest(order, p, s) >= l
<1>1. ASSUME NEW i \in s, Routes!IsPrefix(order[i], p) PROVE Len(order[i]) \in 0 .. Len(p)
  <2>1. order[i] \in Seq(Routes!ToSet(order[i]))
    BY DEF IsOrder
  <2>2. Len(order[i]) \in Nat /\ Len(p) \in Nat /\ Len(order[i]) <= Len(p)
    BY <1>1, <2>1, PrefixIs
  <2> QED BY <2>2
<1>2. Len(p) \in Nat
  OBVIOUS
<1>3. Lengths(order, p, s) \in SUBSET (0 .. Len(p)) /\ Lengths(order, p, s) # {}
  BY <1>1, <1>2 DEF Lengths
<1>4. Longest(order, p, s) \in Lengths(order, p, s)
      /\ \A l \in Lengths(order, p, s) : Longest(order, p, s) >= l
  BY <1>2, <1>3, MaxOf DEF Longest
<1> QED BY <1>3, <1>4

LEMMA BestAdds ==
  ASSUME NEW p, p \in Seq(Routes!ToSet(p)), NEW order, IsOrder(order),
         NEW s \in SUBSET DOMAIN order, NEW x \in s
  PROVE  SubSeq(p, 1, Longest(order, p, s)) =
           Better(order, p, SubSeq(p, 1, Longest(order, p, s \ {x})), x)
<1> DEFINE t == s \ {x}
           L == Longest(order, p, s)
           K == Longest(order, p, t)
           q == order[x]
<1>1. /\ L \in Lengths(order, p, s) /\ L \in 0 .. Len(p)
      /\ \A l \in Lengths(order, p, s) : l \in 0 .. Len(p) /\ L >= l
  BY LongestFacts
<1>2. /\ K \in Lengths(order, p, t) /\ K \in 0 .. Len(p)
      /\ \A l \in Lengths(order, p, t) : l \in 0 .. Len(p) /\ K >= l
  <2>1. t \in SUBSET DOMAIN order
    OBVIOUS
  <2> QED BY <2>1, LongestFacts
<1>3. q \in Seq(Routes!ToSet(q)) /\ Len(p) \in Nat
  BY DEF IsOrder
<1>4. Len(SubSeq(p, 1, K)) = K
  BY <1>2, <1>3
<1>5. Lengths(order, p, t) \subseteq Lengths(order, p, s)
  BY DEF Lengths
<1> HIDE DEF L, K
<1>6. CASE Routes!IsPrefix(q, p)
  <2>1. Len(q) \in Nat /\ q = SubSeq(p, 1, Len(q))
    BY <1>3, <1>6, PrefixIs
  <2>2. Lengths(order, p, s) = Lengths(order, p, t) \cup {Len(q)}
    BY <1>6 DEF Lengths
  <2>3. L = IF Len(q) > K THEN Len(q) ELSE K
    <3>1. L >= K /\ L >= Len(q) /\ (L <= K \/ L = Len(q))
      BY <1>1, <1>2, <1>5, <2>2
    <3>2. L \in Int /\ K \in Int
      BY <1>1, <1>2, <1>3
    <3> QED BY <2>1, <3>1, <3>2
  <2>4. CASE Len(q) > K
    BY <1>4, <1>6, <2>1, <2>3, <2>4 DEF Better, L, K
  <2>5. CASE ~(Len(q) > K)
    BY <1>4, <1>6, <2>1, <2>3, <2>5 DEF Better, L, K
  <2> QED BY <2>4, <2>5
<1>7. CASE ~Routes!IsPrefix(q, p)
  <2>1. Lengths(order, p, s) = Lengths(order, p, t)
    BY <1>7 DEF Lengths
  <2>2. L = K
    BY <2>1 DEF L, K, Longest
  <2> QED BY <1>7, <2>2 DEF Better, L, K
<1> QED BY <1>6, <1>7

BestIterates(order, p, g) ==
  g = [s \in SUBSET DOMAIN order |->
         IF s = {} THEN <<>> ELSE Better(order, p, g[s \ {Routes!Max(s)}], Routes!Max(s))]

\* The loop over the map finds the longest match, in whatever order it goes through it.
LEMMA BestIs ==
  ASSUME NEW p, p \in Seq(Routes!ToSet(p)), NEW order, IsOrder(order)
  PROVE  Routes!FindHandler(order, p) =
           LET best == SubSeq(p, 1, Longest(order, p, DOMAIN order))
           IN IF best = <<>> THEN None ELSE handlers[best]
<1> DEFINE n == Len(order)
           S == DOMAIN order
           h == [s \in SUBSET S |-> SubSeq(p, 1, Longest(order, p, s))]
           g == CHOOSE k : BestIterates(order, p, k)
<1>1. n \in Nat /\ S = 1 .. n
  BY DEF IsOrder
<1>2. \A s \in SUBSET S : s # {} => Routes!Max(s) \in s
  <2> SUFFICES ASSUME NEW s \in SUBSET S, s # {} PROVE Routes!Max(s) \in s
    OBVIOUS
  <2>1. s \in SUBSET (0 .. n)
    BY <1>1
  <2> HIDE DEF n
  <2> QED BY <1>1, <2>1, MaxOf
<1>3. ASSUME NEW s \in SUBSET S
      PROVE  h[s] = IF s = {} THEN <<>> ELSE Better(order, p, h[s \ {Routes!Max(s)}], Routes!Max(s))
  <2>1. CASE s = {}
    <3>1. Longest(order, p, {}) = 0
      BY LongestFacts DEF Lengths
    <3>2. SubSeq(p, 1, 0) = <<>>
      OBVIOUS
    <3> QED BY <2>1, <3>1, <3>2
  <2>2. CASE s # {}
    <3>1. Routes!Max(s) \in s /\ s \ {Routes!Max(s)} \in SUBSET S
      BY <1>2, <2>2
    <3>2. /\ h[s] = SubSeq(p, 1, Longest(order, p, s))
          /\ h[s \ {Routes!Max(s)}] = SubSeq(p, 1, Longest(order, p, s \ {Routes!Max(s)}))
      BY <3>1, Zenon
    <3> HIDE DEF h, n
    <3>3. SubSeq(p, 1, Longest(order, p, s)) =
            Better(order, p, SubSeq(p, 1, Longest(order, p, s \ {Routes!Max(s)})), Routes!Max(s))
      <4> DEFINE x == Routes!Max(s)
      <4> HIDE DEF x, n
      <4>1. x \in s
        BY <3>1 DEF x
      <4>2. SubSeq(p, 1, Longest(order, p, s)) =
              Better(order, p, SubSeq(p, 1, Longest(order, p, s \ {x})), x)
        BY <4>1, BestAdds
      <4> QED BY <4>2 DEF x
    <3> QED BY <2>2, <3>2, <3>3, Zenon
  <2> QED BY <2>1, <2>2
<1>4. BestIterates(order, p, h)
  BY <1>3, Zenon DEF BestIterates
<1>5. BestIterates(order, p, g)
  BY <1>4, Zenon
<1>6. Routes!FindHandler(order, p) = IF g[S] = <<>> THEN None ELSE handlers[g[S]]
  BY Zenon DEF Routes!FindHandler, Routes!FoldLeft, Routes!MapThenFoldSet, BestIterates, Better
<1> HIDE DEF g, h
<1>7. ASSUME NEW s \in SUBSET S
      PROVE  g[s] = IF s = {} THEN <<>> ELSE Better(order, p, g[s \ {Routes!Max(s)}], Routes!Max(s))
  BY <1>5, Zenon DEF BestIterates
<1>8. g[S] = h[S]
  <2> DEFINE T == {s \in SUBSET S : g[s] # h[s]}
  <2> SUFFICES ASSUME T # {} PROVE FALSE
    OBVIOUS
  <2>1. IsFiniteSet(S)
    BY <1>1, FS_Interval
  <2>2. T \subseteq FiniteSubsetsOf(S)
    BY <2>1, FS_Subset DEF FiniteSubsetsOf
  <2>3. PICK s \in T : \A t \in T : <<t, s>> \notin StrictSubsetOrdering(S)
    BY <2>1, <2>2, FS_StrictSubsetOrderingWellFounded, WFMin, Zenon
  <2>4. s # {}
    BY <1>3, <1>7
  <2> DEFINE x == Routes!Max(s)
  <2>5. x \in s
    BY <1>2, <2>4
  <2> HIDE DEF x
  <2>6. s \ {x} \notin T
    <3> DEFINE t == s \ {x}
    <3>1. t \in SUBSET S /\ s \in SUBSET S /\ t \subseteq s /\ t # s
      BY <2>5
    <3>2. <<t, s>> \in StrictSubsetOrdering(S)
      BY <3>1 DEF StrictSubsetOrdering
    <3> QED
      BY <2>3, <3>2, Zenon
  <2>7. g[s \ {x}] = h[s \ {x}]
    BY <2>5, <2>6
  <2> QED
    BY <1>3, <1>7, <2>4, <2>7 DEF x
<1> QED
  BY <1>6, <1>8, Zenon DEF h

\* An order of a finite set goes through all of it.
LEMMA OrderIsOnto ==
  ASSUME NEW D, IsFiniteSet(D), NEW order \in Routes!SetToSeqs(D)
  PROVE  /\ order \in Seq(D) /\ DOMAIN order = 1 .. Cardinality(D)
         /\ \A d \in D : \E i \in DOMAIN order : order[i] = d
<1> DEFINE n == Cardinality(D)
<1>1. n \in Nat
  BY FS_CardinalityType
<1>2. Routes!Cardinality(D) = n
  BY Zenon DEF Routes!Cardinality, Cardinality
<1>3. order \in [1 .. n -> D] /\ \A i, j \in 1 .. n : i # j => order[i] # order[j]
  BY <1>2, Zenon DEF Routes!SetToSeqs
<1> HIDE DEF n
<1>4. order \in Injection(1 .. n, D)
  BY <1>3 DEF Injection, IsInjective
<1>5. IsFiniteSet(1 .. n) /\ Cardinality(1 .. n) = n
  BY <1>1, FS_Interval
<1>6. order \in Surjection(1 .. n, D)
  BY <1>4, <1>5, FS_Injection DEF n
<1>7. \A d \in D : \E i \in 1 .. n : order[i] = d
  BY <1>6, Zenon DEF Surjection
<1>8. order \in Seq(D) /\ DOMAIN order = 1 .. n
  BY <1>1, <1>3
<1> QED BY <1>7, <1>8 DEF n

\* Prefixes are sequences.
LEMMA ConfigFacts ==
  ASSUME NEW c \in Configs
  PROVE  /\ c \in Seq(Routes!ToSet(c)) /\ Len(c) \in Nat /\ DOMAIN c = 1 .. Len(c)
         /\ \A i \in DOMAIN c :
              /\ c[i].prefix \in Seq(Routes!ToSet(c[i].prefix))
              /\ \A n \in 1 .. MaxLoads : None # [load |-> n, upstream |-> c[i]]
<1>1. c \in Seq(Routes!ToSet(c))
  BY RouteNames DEF Routes!OrchestratorAssumption
<1>2. \A i \in DOMAIN c : c[i] \in Routes!ToSet(c)
  BY DEF Routes!ToSet
<1>3. \A i \in DOMAIN c :
        /\ c[i].prefix \in Seq(Routes!ToSet(c[i].prefix))
        /\ \A n \in 1 .. MaxLoads : None # [load |-> n, upstream |-> c[i]]
  BY <1>2, RouteNames DEF Routes!OrchestratorAssumption
<1> QED BY <1>1, <1>3

Prefixes(c) == {c[i].prefix : i \in DOMAIN c}

LEMMA PrefixesFinite == ASSUME NEW c \in Configs PROVE IsFiniteSet(Prefixes(c))
<1> DEFINE f == [i \in DOMAIN c |-> c[i].prefix]
<1>1. IsFiniteSet(DOMAIN c)
  BY ConfigFacts, FS_Interval
<1>2. f \in Surjection(DOMAIN c, Prefixes(c))
  BY DEF Surjection, Prefixes
<1> QED BY <1>1, <1>2, FS_Surjection, Zenon

\* The upstreams that fit a path, and those of the longest prefix among them.
Fits(c, p) == {i \in DOMAIN c : c[i].prefix # <<>> /\ Routes!IsPrefix(c[i].prefix, p)}
Best(c, p) == {i \in Fits(c, p) : \A j \in Fits(c, p) : Len(c[j].prefix) <= Len(c[i].prefix)}

\* What the loop over the handlers finds of the prefixes is what fits best.
LEMMA LongestFits ==
  ASSUME NEW c \in Configs, NEW p \in Paths, NEW order, order \in Seq(Prefixes(c)),
         \A q \in Prefixes(c) : \E i \in DOMAIN order : order[i] = q
  PROVE  LET L == Longest(order, p, DOMAIN order)
             best == SubSeq(p, 1, L)
         IN /\ IsOrder(order)
            /\ Fits(c, p) = {} => best = <<>>
            /\ Fits(c, p) # {} => /\ best # <<>> /\ best \in Prefixes(c)
                                  /\ Best(c, p) = {i \in DOMAIN c : c[i].prefix = best}
<1> DEFINE L == Longest(order, p, DOMAIN order)
           best == SubSeq(p, 1, L)
<1>1. /\ p \in Seq(Routes!ToSet(p)) /\ Len(p) \in Nat
      /\ \A i \in DOMAIN c : c[i].prefix \in Seq(Routes!ToSet(c[i].prefix))
  BY RouteNames, ConfigFacts DEF Routes!OrchestratorAssumption
<1>2. \A i \in DOMAIN order : order[i] \in Prefixes(c) /\ order[i] \in Seq(Routes!ToSet(order[i]))
  <2>1. \A q \in Prefixes(c) : q \in Seq(Routes!ToSet(q))
    BY <1>1 DEF Prefixes
  <2> QED BY <2>1
<1>3. IsOrder(order)
  BY <1>2 DEF IsOrder, Routes!ToSet
<1>4. /\ L \in Lengths(order, p, DOMAIN order) /\ L \in 0 .. Len(p)
      /\ \A l \in Lengths(order, p, DOMAIN order) : l \in 0 .. Len(p) /\ L >= l
  BY <1>1, <1>3, LongestFacts
<1>5. Len(best) = L
  BY <1>1, <1>4
<1> HIDE DEF L
<1>6. ASSUME NEW i \in Fits(c, p)
      PROVE  /\ Len(c[i].prefix) \in Nat /\ Len(c[i].prefix) > 0 /\ Len(c[i].prefix) <= L
             /\ c[i].prefix = SubSeq(p, 1, Len(c[i].prefix))
  <2>1. i \in DOMAIN c /\ c[i].prefix # <<>> /\ Routes!IsPrefix(c[i].prefix, p)
    BY DEF Fits
  <2>2. /\ Len(c[i].prefix) \in Nat /\ Len(c[i].prefix) # 0
        /\ c[i].prefix = SubSeq(p, 1, Len(c[i].prefix))
    BY <1>1, <2>1, PrefixIs
  <2>3. PICK j \in DOMAIN order : order[j] = c[i].prefix
    BY <2>1 DEF Prefixes
  <2>4. Len(c[i].prefix) \in Lengths(order, p, DOMAIN order)
    BY <2>1, <2>3 DEF Lengths
  <2>5. L >= Len(c[i].prefix) /\ L \in Nat
    BY <1>4, <2>4
  <2> QED BY <2>2, <2>5
<1>7. ASSUME L # 0
      PROVE  \E i \in Fits(c, p) : Len(c[i].prefix) = L /\ c[i].prefix = best
  <2>1. PICK j \in DOMAIN order : Routes!IsPrefix(order[j], p) /\ Len(order[j]) = L
    BY <1>4, <1>7 DEF Lengths
  <2>2. PICK i \in DOMAIN c : c[i].prefix = order[j]
    BY <1>2 DEF Prefixes
  <2>3. c[i].prefix # <<>>
    BY <1>1, <1>7, <2>1, <2>2, PrefixIs
  <2>4. i \in Fits(c, p)
    BY <2>1, <2>2, <2>3 DEF Fits
  <2> QED BY <1>6, <2>1, <2>2, <2>4
<1>8. CASE Fits(c, p) = {}
  <2>1. L = 0
    BY <1>7, <1>8
  <2>2. SubSeq(p, 1, 0) = <<>>
    BY <1>1
  <2> QED BY <1>3, <1>8, <2>1, <2>2 DEF L
<1>9. CASE Fits(c, p) # {}
  <2>1. L # 0
    BY <1>6, <1>9
  <2>2. best # <<>>
    BY <1>5, <2>1
  <2>3. PICK k \in Fits(c, p) : Len(c[k].prefix) = L /\ c[k].prefix = best
    BY <1>7, <2>1
  <2>4. k \in DOMAIN c /\ Routes!IsPrefix(best, p) /\ best \in Prefixes(c)
    BY <2>3 DEF Fits, Prefixes
  <2> HIDE DEF best
  <2>5. ASSUME NEW i \in Best(c, p) PROVE i \in DOMAIN c /\ c[i].prefix = best
    <3>1. i \in Fits(c, p) /\ L <= Len(c[i].prefix)
      BY <2>3 DEF Best
    <3>2. Len(c[i].prefix) = L
      BY <1>4, <1>6, <3>1
    <3>3. c[i].prefix = SubSeq(p, 1, L)
      BY <1>6, <3>1, <3>2
    <3> QED BY <3>1, <3>3 DEF best, Fits
  <2>6. ASSUME NEW i \in DOMAIN c, c[i].prefix = best PROVE i \in Best(c, p)
    <3>1. i \in Fits(c, p)
      BY <2>2, <2>4, <2>6 DEF Fits
    <3>2. Len(c[i].prefix) = L
      BY <2>3, <2>6
    <3> QED BY <1>6, <3>1, <3>2 DEF Best
  <2>7. Best(c, p) = {i \in DOMAIN c : c[i].prefix = best}
    BY <2>5, <2>6
  <2> QED BY <1>3, <1>9, <2>2, <2>4, <2>7 DEF best, L
<1> QED BY <1>8, <1>9

\* A request is routed as the configuration says that the handlers were built for.
LEMMA RoutedAsConfigured ==
  ASSUME NEW c \in Configs, NEW n \in 1 .. MaxLoads, handlers = Routes!Built(c, n),
         NEW p \in Paths, NEW order \in Routes!SetToSeqs(DOMAIN handlers)
  PROVE  LET h == Routes!FindHandler(order, p)
         IN /\ Routes!Target(c, p) = IF h = None THEN "404" ELSE h.upstream.name
            /\ h # None => h.load = n
<1> DEFINE h == Routes!FindHandler(order, p)
           best == SubSeq(p, 1, Longest(order, p, DOMAIN order))
<1>1. /\ c \in Seq(Routes!ToSet(c)) /\ Len(c) \in Nat /\ DOMAIN c = 1 .. Len(c)
      /\ p \in Seq(Routes!ToSet(p))
  BY RouteNames, ConfigFacts DEF Routes!OrchestratorAssumption
<1>2. handlers = BuiltFrom(c, n, DOMAIN c)
  BY <1>1, BuiltIs
<1>3. DOMAIN handlers = Prefixes(c)
  BY <1>2 DEF BuiltFrom, Prefixes
<1>4. order \in Seq(Prefixes(c)) /\ \A q \in Prefixes(c) : \E i \in DOMAIN order : order[i] = q
  BY <1>3, PrefixesFinite, OrderIsOnto
<1>5. /\ IsOrder(order)
      /\ Fits(c, p) = {} => best = <<>>
      /\ Fits(c, p) # {} => /\ best # <<>> /\ best \in Prefixes(c)
                            /\ Best(c, p) = {i \in DOMAIN c : c[i].prefix = best}
  BY <1>4, LongestFits
<1>6. h = IF best = <<>> THEN None ELSE handlers[best]
  BY <1>1, <1>5, BestIs
<1>7. Routes!Target(c, p) =
        IF Fits(c, p) = {} THEN "404" ELSE c[CHOOSE i \in Best(c, p) : \A j \in Best(c, p) : j <= i].name
  BY Zenon DEF Routes!Target, Fits, Best
<1> HIDE DEF best, h
<1>8. CASE Fits(c, p) = {}
  BY <1>5, <1>6, <1>7, <1>8 DEF h
<1>9. CASE Fits(c, p) # {}
  <2> DEFINE B == {i \in DOMAIN c : c[i].prefix = best}
             m == Routes!Max(B)
             k == CHOOSE i \in B : \A j \in B : j <= i
  <2>1. B # {} /\ B \in SUBSET (0 .. Len(c)) /\ B \subseteq DOMAIN c /\ B \in SUBSET Int
    BY <1>1, <1>5, <1>9 DEF Prefixes
  <2>2. Best(c, p) = B
    BY <1>5, <1>9
  <2> HIDE DEF B
  <2>3. m \in B /\ \A j \in B : m >= j
    BY <1>1, <2>1, MaxOf
  <2> HIDE DEF m
  <2>4. \A j \in B : j <= m
    BY <2>1, <2>3
  <2>5. k \in B /\ \A j \in B : j <= k
    BY <2>3, <2>4, Zenon
  <2> HIDE DEF k
  <2>6. k = m
    BY <2>1, <2>3, <2>4, <2>5
  <2>7. h = [load |-> n, upstream |-> c[m]]
    <3>1. h = handlers[best] /\ best \in Prefixes(c)
      BY <1>5, <1>6, <1>9
    <3>2. handlers[best] = [load |-> n, upstream |-> c[LastWith(c, DOMAIN c, best)]]
      BY <1>2, <3>1 DEF BuiltFrom, Prefixes
    <3> QED BY <3>1, <3>2 DEF m, B, LastWith
  <2>8. h # None
    BY <2>1, <2>3, <2>7, ConfigFacts
  <2>9. Routes!Target(c, p) = c[k].name
    BY <1>7, <1>9, <2>2, Zenon DEF k
  <2> QED BY <2>6, <2>7, <2>8, <2>9 DEF h
<1> QED BY <1>8, <1>9

\* Without handlers nothing is found.
LEMMA NothingFound ==
  ASSUME handlers = Routes!NoHandlers, NEW p \in Paths, NEW order \in Routes!SetToSeqs(DOMAIN handlers)
  PROVE  Routes!FindHandler(order, p) = None
<1>1. DOMAIN handlers = {}
  BY DEF Routes!NoHandlers
<1>2. p \in Seq(Routes!ToSet(p))
  BY RouteNames DEF Routes!OrchestratorAssumption
<1>3. order \in Seq({}) /\ DOMAIN order = 1 .. Cardinality({})
  BY <1>1, FS_EmptySet, OrderIsOnto
<1>4. DOMAIN order = {}
  BY <1>3, FS_EmptySet
<1>5. IsOrder(order)
  BY <1>3, <1>4 DEF IsOrder
<1>6. Longest(order, p, DOMAIN order) = 0
  BY <1>2, <1>4, <1>5, LongestFacts DEF Lengths
<1>7. SubSeq(p, 1, 0) = <<>>
  BY <1>2
<1> QED BY <1>2, <1>5, <1>6, <1>7, BestIs

\* The handlers are those of the last configuration, and a handler that was found is what one
\* of the configurations says.
RoutesInv ==
  /\ loads \in 0 .. MaxLoads /\ history \in Seq(Configs) /\ Len(history) = loads
  /\ path \in [Requests -> Paths]
  /\ DOMAIN at = Requests /\ DOMAIN handler = Requests /\ DOMAIN reply = Requests
  /\ config = None => handlers = Routes!NoHandlers
  /\ config # None => config \in Configs /\ loads > 0 /\ handlers = Routes!Built(config, loads)
                      /\ history[loads] = config
  /\ \A r \in Requests : handler[r] # None =>
       /\ handler[r].load \in 1 .. loads
       /\ handler[r].upstream.name = Routes!Target(history[handler[r].load], path[r])
       /\ at[r] = "done" => reply[r] = handler[r].upstream.name

LEMMA RoutesStart == Init => RoutesInv
<1> SUFFICES ASSUME Init PROVE RoutesInv
  OBVIOUS
<1>1. Routes!Init
  BY DEF Init
<1>2. path \in [Requests -> Paths]
  BY <1>1 DEF Routes!Init
<1> QED BY <1>1, <1>2, RouteNames DEF Routes!Init, RoutesInv, Routes!OrchestratorAssumption

LEMMA FoundAsConfigured ==
  ASSUME RoutesInv, NEW r \in Requests, NEW order \in Routes!SetToSeqs(DOMAIN handlers)
  PROVE  LET h == Routes!FindHandler(order, path[r])
         IN /\ config # None =>
                 Routes!Target(config, path[r]) = IF h = None THEN "404" ELSE h.upstream.name
            /\ h # None => /\ h.load \in 1 .. loads
                           /\ h.upstream.name = Routes!Target(history[h.load], path[r])
<1> DEFINE h == Routes!FindHandler(order, path[r])
<1>1. path[r] \in Paths
  BY DEF RoutesInv
<1>2. CASE config = None
  <2>1. h = None
    BY <1>1, <1>2, NothingFound DEF RoutesInv
  <2> QED BY <1>2, <2>1
<1>3. CASE config # None
  <2>1. config \in Configs /\ loads \in 1 .. MaxLoads /\ handlers = Routes!Built(config, loads)
        /\ history[loads] = config
    BY <1>3 DEF RoutesInv
  <2>2. /\ Routes!Target(config, path[r]) = IF h = None THEN "404" ELSE h.upstream.name
        /\ h # None => h.load = loads
    BY <1>1, <2>1, RoutedAsConfigured
  <2> QED BY <2>1, <2>2
<1> QED BY <1>2, <1>3

LEMMA RoutesKeep == RoutesInv /\ [Routes!Next]_orchestratorVars => RoutesInv'
<1> SUFFICES ASSUME RoutesInv, [Routes!Next]_orchestratorVars PROVE RoutesInv'
  OBVIOUS
<1> USE DEF RoutesInv
<1>1. CASE UNCHANGED orchestratorVars
  BY <1>1 DEF orchestratorVars
<1>2. ASSUME NEW c \in Configs, Routes!LoadConfig(c) PROVE RoutesInv'
  <2>1. /\ loads' = loads + 1 /\ loads' \in 0 .. MaxLoads /\ config' = c
        /\ history' = Append(history, c) /\ handlers' = Routes!Built(c, loads')
        /\ UNCHANGED <<at, path, handler, reply>>
    <3>1. /\ loads' = loads + 1 /\ loads < MaxLoads /\ config' = c
          /\ history' = Append(history, c) /\ handlers' = Routes!Built(c, loads + 1)
          /\ UNCHANGED <<at, path, handler, reply>>
      BY <1>2, Zenon DEF Routes!LoadConfig, Routes!Rebuilt
    <3>2. loads + 1 \in 0 .. MaxLoads
      <4>1. MaxLoads \in Nat
        BY RouteNames DEF Routes!OrchestratorAssumption
      <4> QED BY <3>1, <4>1
    <3> QED BY <3>1, <3>2
  <2>2. /\ history' \in Seq(Configs) /\ Len(history') = loads' /\ history'[loads'] = c
        /\ \A i \in 1 .. loads : history'[i] = history[i]
    BY <2>1
  <2>3. ASSUME NEW r \in Requests, handler'[r] # None
        PROVE  /\ handler'[r].load \in 1 .. loads'
               /\ handler'[r].upstream.name = Routes!Target(history'[handler'[r].load], path'[r])
               /\ at'[r] = "done" => reply'[r] = handler'[r].upstream.name
    <3>1. handler[r].load \in 1 .. loads
          /\ handler[r].upstream.name = Routes!Target(history[handler[r].load], path[r])
          /\ (at[r] = "done" => reply[r] = handler[r].upstream.name)
      BY <2>1, <2>3
    <3>2. history'[handler[r].load] = history[handler[r].load] /\ handler[r].load \in 1 .. loads'
      BY <2>1, <2>2, <3>1
    <3> QED BY <2>1, <3>1, <3>2
  <2>4. config' # None => config' \in Configs /\ loads' > 0 /\ handlers' = Routes!Built(config', loads')
                          /\ history'[loads'] = config'
    BY <2>1, <2>2
  <2>5. c # None
    BY RouteNames DEF Routes!OrchestratorAssumption
  <2> QED BY <2>1, <2>2, <2>3, <2>4, <2>5
<1>3. ASSUME NEW r \in Requests, Routes!Arrive(r) PROVE RoutesInv'
  BY <1>3 DEF Routes!Arrive
<1>4. ASSUME NEW r \in Requests, Routes!Find(r) PROVE RoutesInv'
  <2>1. PICK order \in Routes!SetToSeqs(DOMAIN handlers) :
          LET h == Routes!FindHandler(order, path[r])
          IN /\ handler' = [handler EXCEPT ![r] = h]
             /\ at' = [at EXCEPT ![r] = IF h = None THEN "done" ELSE "found"]
             /\ reply' = [reply EXCEPT ![r] = IF h = None THEN "404" ELSE None]
    BY <1>4 DEF Routes!Find
  <2> DEFINE h == Routes!FindHandler(order, path[r])
  <2>2. h # None => /\ h.load \in 1 .. loads
                    /\ h.upstream.name = Routes!Target(history[h.load], path[r])
    BY FoundAsConfigured
  <2> HIDE DEF h
  <2>3. UNCHANGED <<config, loads, handlers, path, history>>
    BY <1>4 DEF Routes!Find
  <2> QED BY <2>1, <2>2, <2>3 DEF h
<1>5. ASSUME NEW r \in Requests, Routes!Serve(r) PROVE RoutesInv'
  BY <1>5 DEF Routes!Serve
<1> QED
  BY <1>1, <1>2, <1>3, <1>4, <1>5 DEF Routes!Next, Routes!AllServed, orchestratorVars, Routes!orchestratorVars

\* RequestsMeetOneConfig, which is checked on four configurations and four paths, holds for any
\* finite sequences of upstreams with any prefixes: in whatever order the map of handlers is gone
\* through, a request goes to the upstream that its configuration names for the longest prefix,
\* and to that of the configuration its handler was built for, whatever is loaded meanwhile.
THEOREM RoutesHold == Spec => []RequestsMeetOneConfig
<1>1. Init => RoutesInv
  BY RoutesStart
<1>2. RoutesInv /\ [Next]_vars => RoutesInv'
  <2>1. [Next]_vars => [Routes!Next]_orchestratorVars
    BY DEF Next, vars, orchestratorVars
  <2> QED BY <2>1, RoutesKeep
<1>3. RoutesInv => RequestsMeetOneConfig
  <2> SUFFICES ASSUME RoutesInv PROVE RequestsMeetOneConfig
    OBVIOUS
  <2>1. ASSUME config # None, NEW r \in Requests, NEW order \in Routes!SetToSeqs(DOMAIN handlers)
        PROVE  LET h == Routes!FindHandler(order, path[r])
               IN Routes!Target(config, path[r]) = IF h = None THEN "404" ELSE h.upstream.name
    BY <2>1, FoundAsConfigured
  <2>2. \A r \in Requests : at[r] = "done" /\ handler[r] # None =>
          reply[r] = Routes!Target(history[handler[r].load], path[r])
    BY DEF RoutesInv
  <2> QED BY <2>1, <2>2, Zenon DEF RequestsMeetOneConfig, Routes!RequestsMeetOneConfig
<1> QED BY <1>1, <1>2, <1>3, PTL DEF Spec
-----------------------------------------------------------------------------
(* Tools and their names *)

LEMMA CountTo == \A n \in Nat : IsFiniteSet(1 .. n) /\ Cardinality(1 .. n) = n
<1> SUFFICES ASSUME NEW n \in Nat PROVE IsFiniteSet(1 .. n) /\ Cardinality(1 .. n) = n
  OBVIOUS
<1> QED BY FS_Interval

LEMMA MinOf ==
  ASSUME NEW S \in SUBSET Nat, S # {}
  PROVE  Tools!Min(S) \in S /\ \A x \in S : Tools!Min(S) <= x
<1>1. PICK z \in S : TRUE
  OBVIOUS
<1>2. PICK t \in S : \A u \in S : <<u, t>> \notin OpToRel(<, Nat)
  BY <1>1, NatLessThanWellFounded, WFMin, Zenon
<1>3. \A u \in S : ~(u < t)
  BY <1>2, Zenon DEF OpToRel
<1>4. \A u \in S : t <= u
  BY <1>3
<1> QED BY <1>4, Zenon DEF Tools!Min

\* A name that is cut is a sequence of letters of the name.
LEMMA TruncateIs ==
  ASSUME NEW X, NEW n \in Seq(X), NEW max \in Nat
  PROVE  Tools!Truncate(n, max) \in Seq(X)
<1> DEFINE S == {i \in 1 .. max : n[i] = "_"} \cup {0}
           k == Tools!Max(S)
<1>1. S \in SUBSET (0 .. max) /\ S # {}
  <2>1. 0 \in S /\ \A i \in S : i \in 1 .. max \/ i = 0
    BY Zenon
  <2> HIDE DEF S
  <2> QED BY <2>1
<1> HIDE DEF S
<1>2. \E m \in S : \A x \in S : m >= x
  BY <1>1, Greatest
<1>3. k \in S
  BY <1>2, Zenon DEF Tools!Max
<1>4. k \in 0 .. max
  BY <1>1, <1>3
<1>5. Tools!Truncate(n, max) = IF Len(n) <= max THEN n
                               ELSE IF k - 1 > 0 /\ k - 1 > max \div 2 THEN SubSeq(n, 1, k - 1)
                               ELSE SubSeq(n, 1, max)
  BY Zenon DEF Tools!Truncate, S
<1> HIDE DEF k
<1>6. CASE Len(n) <= max
  BY <1>5, <1>6
<1>7. CASE Len(n) > max
  <2>1. SubSeq(n, 1, max) \in Seq(X)
    BY <1>7
  <2>2. SubSeq(n, 1, k - 1) \in Seq(X)
    BY <1>4, <1>7
  <2> QED BY <1>5, <1>7, <2>1, <2>2
<1> QED BY <1>6, <1>7

\* A name with a suffix behind a mark: its length, its mark and its suffix.
LEMMA MarkedIs ==
  ASSUME NEW X, NEW s \in Seq(X), NEW a \in Seq(X), NEW u \in X
  PROVE  /\ Len(s \o (<<u>> \o a)) = Len(s) + 1 + Len(a)
         /\ (s \o (<<u>> \o a))[Len(s) + 1] = u
         /\ \A i \in 1 .. Len(a) : (s \o (<<u>> \o a))[Len(s) + 1 + i] = a[i]
OBVIOUS

\* The mark does not occur in a suffix.
IsFree(a, u) == \A i \in 1 .. Len(a) : a[i] # u

\* If the suffix has no mark of its own, what is before the mark is not shorter than elsewhere.
LEMMA MarkIsNotEarlier ==
  ASSUME NEW X, NEW s \in Seq(X), NEW t \in Seq(X), NEW a \in Seq(X), NEW b \in Seq(X), NEW u \in X,
         IsFree(a, u), s \o (<<u>> \o a) = t \o (<<u>> \o b)
  PROVE  ~(Len(s) < Len(t))
<1> DEFINE w == s \o (<<u>> \o a)
           z == t \o (<<u>> \o b)
<1>1. /\ Len(w) = Len(s) + 1 + Len(a) /\ Len(z) = Len(t) + 1 + Len(b)
      /\ z[Len(t) + 1] = u
      /\ \A i \in 1 .. Len(a) : w[Len(s) + 1 + i] = a[i]
      /\ Len(s) \in Nat /\ Len(t) \in Nat /\ Len(a) \in Nat /\ Len(b) \in Nat
  BY MarkedIs
<1>2. w = z
  OBVIOUS
<1> HIDE DEF w, z
<1> SUFFICES ASSUME Len(s) < Len(t) PROVE FALSE
  OBVIOUS
<1>3. Len(t) - Len(s) \in 1 .. Len(a)
  BY <1>1, <1>2
<1>4. Len(s) + 1 + (Len(t) - Len(s)) = Len(t) + 1
  BY <1>1
<1> QED BY <1>1, <1>2, <1>3, <1>4 DEF IsFree

\* Names with different suffixes are different, also when the longer one cuts more of the name.
LEMMA SuffixesDiffer ==
  ASSUME MaxLen \in Nat, NEW Y, NEW base \in Seq(Y), NEW u \in Y,
         NEW a \in Seq(Y), IsFree(a, u), Len(a) < MaxLen,
         NEW b \in Seq(Y), IsFree(b, u), Len(b) < MaxLen,
         Tools!Truncate(base, MaxLen - Len(<<u>> \o a)) \o (<<u>> \o a)
           = Tools!Truncate(base, MaxLen - Len(<<u>> \o b)) \o (<<u>> \o b)
  PROVE  a = b
<1>1. base \in Seq(Y) /\ u \in Y
  OBVIOUS
<1>2. Len(a) \in Nat /\ Len(<<u>> \o a) = Len(a) + 1
  OBVIOUS
<1>3. Len(b) \in Nat /\ Len(<<u>> \o b) = Len(b) + 1
  OBVIOUS
<1>4. MaxLen - Len(<<u>> \o a) \in Nat /\ MaxLen - Len(<<u>> \o b) \in Nat
  BY <1>2, <1>3
<1>5. PICK s \in Seq(Y) : s = Tools!Truncate(base, MaxLen - Len(<<u>> \o a))
  BY <1>1, <1>4, TruncateIs, Zenon
<1>6. PICK t \in Seq(Y) : t = Tools!Truncate(base, MaxLen - Len(<<u>> \o b))
  BY <1>1, <1>4, TruncateIs, Zenon
<1>7. s \o (<<u>> \o a) = t \o (<<u>> \o b)
  BY <1>5, <1>6, Zenon
<1>8. u \in Y /\ a \in Seq(Y) /\ b \in Seq(Y) /\ IsFree(a, u) /\ IsFree(b, u)
  BY <1>1, Zenon
<1>9. Len(s) = Len(t)
  <2>1. ~(Len(s) < Len(t))
    BY <1>7, <1>8, MarkIsNotEarlier, Zenon
  <2>2. ~(Len(t) < Len(s))
    BY <1>7, <1>8, MarkIsNotEarlier, Zenon
  <2> QED BY <2>1, <2>2
<1> DEFINE w == s \o (<<u>> \o a)
<1>10. Len(w) = Len(s) + 1 + Len(a) /\ \A i \in 1 .. Len(a) : w[Len(s) + 1 + i] = a[i]
  BY <1>8, MarkedIs
<1>11. Len(w) = Len(t) + 1 + Len(b) /\ \A i \in 1 .. Len(b) : w[Len(t) + 1 + i] = b[i]
  <2> DEFINE z == t \o (<<u>> \o b)
  <2>1. Len(z) = Len(t) + 1 + Len(b) /\ \A i \in 1 .. Len(b) : z[Len(t) + 1 + i] = b[i]
    BY <1>8, MarkedIs
  <2>2. w = z
    BY <1>7, Zenon
  <2> HIDE DEF w, z
  <2> QED BY <2>1, <2>2, Zenon
<1> HIDE DEF w
<1>12. Len(a) = Len(b) /\ \A i \in 1 .. Len(a) : a[i] = b[i]
  BY <1>2, <1>3, <1>9, <1>10, <1>11
<1> QED BY <1>8, <1>12, SeqEqual

\* How a count is written: without the mark, short enough, and not as another count.
LEMMA NumeralIs ==
  ASSUME NEW c \in 1 .. MaxBuilds, NEW Y, Tools!ToSet(Numeral[c]) \subseteq Y
  PROVE  /\ Numeral[c] \in Seq(Y) /\ IsFree(Numeral[c], "_") /\ Len(Numeral[c]) < MaxLen
         /\ \A d \in 1 .. MaxBuilds : Numeral[c] = Numeral[d] => c = d
<1> DEFINE a == Numeral[c]
           E == Tools!ToSet(a) \ {"_"}
<1>1. /\ a \in Seq(E) /\ Len(a) < MaxLen
      /\ \A d \in 1 .. MaxBuilds : a = Numeral[d] => c = d
  BY ToolNames, Zenon DEF Tools!ToolAssumption
<1>2. E \subseteq Y /\ "_" \notin E
  BY Zenon
<1> HIDE DEF a, E
<1>3. \A i \in 1 .. Len(a) : a[i] \in E
  BY <1>1, ElementOfSeq, Zenon
<1>4. a \in Seq(Y)
  <2>1. a \in Seq(E) /\ E \subseteq Y
    BY <1>1, <1>2, Zenon
  <2> QED BY ONLY <2>1
<1> QED BY <1>1, <1>2, <1>3, <1>4, Zenon DEF IsFree, a

\* A name never gets the same suffix for two counts.
LEMMA CountsDiffer ==
  ASSUME NEW X, NEW base \in Seq(X), NEW c \in 1 .. MaxBuilds, NEW d \in 1 .. MaxBuilds,
         Tools!Counted(base, c) = Tools!Counted(base, d)
  PROVE  c = d
<1> DEFINE a == Numeral[c]
           b == Numeral[d]
           Y == X \cup Tools!ToSet(a) \cup Tools!ToSet(b) \cup {"_"}
<1>1. X \subseteq Y /\ Tools!ToSet(a) \subseteq Y /\ Tools!ToSet(b) \subseteq Y /\ "_" \in Y
  BY Zenon
<1>2. Tools!Truncate(base, MaxLen - Len(<<"_">> \o a)) \o (<<"_">> \o a)
        = Tools!Truncate(base, MaxLen - Len(<<"_">> \o b)) \o (<<"_">> \o b)
  BY Zenon DEF Tools!Counted
<1> HIDE DEF Y
<1>3. base \in Seq(Y) /\ MaxLen \in Nat
  <2>1. base \in Seq(X) /\ X \subseteq Y
    BY <1>1, Zenon
  <2>2. base \in Seq(Y)
    BY ONLY <2>1
  <2>3. MaxLen \in Nat
    BY ToolNames, Zenon DEF Tools!ToolAssumption
  <2> QED BY <2>2, <2>3, Zenon
<1>4. /\ a \in Seq(Y) /\ IsFree(a, "_") /\ Len(a) < MaxLen
      /\ a = b => c = d
  BY <1>1, NumeralIs, Zenon
<1>5. b \in Seq(Y) /\ IsFree(b, "_") /\ Len(b) < MaxLen
  BY <1>1, NumeralIs, Zenon
<1> HIDE DEF a, b
<1>6. a = b
  BY <1>1, <1>2, <1>3, <1>4, <1>5, SuffixesDiffer, Zenon
<1> QED BY <1>4, <1>6, Zenon

Late(E, n) == \E e \in E : e.name = n /\ e.late

Building(b) == op[b] # None /\ b \notin overtaken

NamesInv ==
  /\ IsFiniteSet(used) /\ Cardinality(used) <= builds /\ builds \in 0 .. MaxBuilds
  /\ \A m \in DOMAIN generated :
       generated[m] \in 0 .. MaxBuilds /\ \A c \in 1 .. generated[m] : Tools!Counted(m, c) \in used

\* A name is in use from the first step of a building to the next Clear, so that no two have it,
\* unless it is forgotten by a Clear; then its tool is registered late.
ToolsInv ==
  /\ NamesInv
  /\ op \in [Builders -> Operations \cup {None}] /\ DOMAIN name = Builders
  /\ \A e \in expected : e.name \in DOMAIN tools /\ (Late(expected, e.name) \/ tools[e.name] = e.op)
  /\ \A n \in DOMAIN tools : n \in used \/ Late(expected, n)
  /\ \A b \in Builders : Building(b) =>
       name[b] \in used /\ (name[b] \notin DOMAIN tools \/ Late(expected, name[b]))
  /\ \A b, d \in Builders : Building(b) /\ Building(d) /\ b # d => name[b] # name[d]

LEMMA ToolsStart == Tools!Init => ToolsInv
<1> SUFFICES ASSUME Tools!Init PROVE ToolsInv
  OBVIOUS
<1>1. DOMAIN tools = {} /\ DOMAIN generated = {} /\ expected = {} /\ used = {} /\ builds = 0
  BY DEF Tools!Init, Tools!NoTools
<1>2. MaxBuilds \in Nat
  BY ToolNames DEF Tools!ToolAssumption
<1>3. NamesInv
  BY <1>1, <1>2, FS_EmptySet DEF NamesInv
<1> QED BY <1>1, <1>3 DEF Tools!Init, ToolsInv, Building

\* Names with counts up to the count that is kept are in use.
LEMMA CountIsKept ==
  ASSUME NamesInv, NEW base
  PROVE  /\ Tools!Count(base) \in 0 .. MaxBuilds
         /\ \A c \in 1 .. Tools!Count(base) : Tools!Counted(base, c) \in used
<1>1. MaxBuilds \in Nat
  BY ToolNames, Zenon DEF Tools!ToolAssumption
<1>2. CASE base \in DOMAIN generated
  BY <1>2, Zenon DEF NamesInv, Tools!Count
<1>3. CASE base \notin DOMAIN generated
  <2>1. Tools!Count(base) = 0
    BY <1>3 DEF Tools!Count
  <2> QED BY <1>1, <2>1
<1> QED BY <1>2, <1>3

\* So few names are in use that a count is left.
LEMMA CountIsFree ==
  ASSUME NamesInv, builds < MaxBuilds, NEW X, NEW base \in Seq(X), base \in used
  PROVE  /\ Tools!FreeCount(base) \in Tools!Count(base) + 1 .. MaxBuilds
         /\ Tools!Counted(base, Tools!FreeCount(base)) \notin used
         /\ \A c \in 1 .. Tools!FreeCount(base) - 1 : Tools!Counted(base, c) \in used
<1> DEFINE k == Tools!Count(base)
           S == {c \in k + 1 .. MaxBuilds : Tools!Counted(base, c) \notin used}
<1>0. MaxBuilds \in Nat
  BY ToolNames, Zenon DEF Tools!ToolAssumption
<1>1. k \in 0 .. MaxBuilds /\ \A c \in 1 .. k : Tools!Counted(base, c) \in used
  BY CountIsKept
<1>2. Tools!FreeCount(base) = Tools!Min(S)
  BY Zenon DEF Tools!FreeCount
<1> HIDE DEF k
<1>3. S # {}
  <2> SUFFICES ASSUME S = {} PROVE FALSE
    OBVIOUS
  <2> DEFINE f == [c \in 1 .. MaxBuilds |-> Tools!Counted(base, c)]
  <2>1. \A c \in 1 .. MaxBuilds : Tools!Counted(base, c) \in used
    BY <1>1
  <2>2. \A c, d \in 1 .. MaxBuilds : Tools!Counted(base, c) = Tools!Counted(base, d) => c = d
    BY CountsDiffer, Zenon
  <2>3. f \in Injection(1 .. MaxBuilds, used)
    BY <2>1, <2>2, Zenon DEF Injection, IsInjective
  <2>4. Cardinality(1 .. MaxBuilds) <= Cardinality(used)
    BY <2>3, FS_Injection, Zenon DEF NamesInv
  <2>5. Cardinality(1 .. MaxBuilds) = MaxBuilds
    BY CountTo, ToolNames DEF Tools!ToolAssumption
  <2>6. Cardinality(used) \in Nat /\ MaxBuilds \in Nat
    BY FS_CardinalityType, ToolNames DEF NamesInv, Tools!ToolAssumption
  <2> QED BY <2>4, <2>5, <2>6 DEF NamesInv
<1>4. S \in SUBSET Nat
  BY <1>1
<1>5. Tools!Min(S) \in S /\ \A x \in S : Tools!Min(S) <= x
  BY <1>3, <1>4, MinOf
<1> DEFINE m == Tools!Min(S)
<1> HIDE DEF m
<1>6. m \in k + 1 .. MaxBuilds /\ Tools!Counted(base, m) \notin used /\ \A x \in S : m <= x
  BY <1>5 DEF m
<1>7. ASSUME NEW c \in 1 .. m - 1 PROVE Tools!Counted(base, c) \in used
  <2>1. CASE c <= k
    BY <1>1, <1>6, <2>1
  <2>2. CASE c > k
    <3>1. c \in k + 1 .. MaxBuilds /\ ~(m <= c)
      BY <1>0, <1>1, <1>6, <2>2
    <3>2. c \notin S
      BY <1>6, <3>1
    <3> QED BY <3>1, <3>2
  <2> QED BY <1>1, <1>6, <2>1, <2>2
<1> QED BY <1>2, <1>6, <1>7 DEF m, k

\* The name that is generated is not in use yet.
LEMMA NameIsNew ==
  ASSUME NamesInv, NEW b \in Builders, NEW o \in Operations, Tools!GenerateName(b, o)
  PROVE  /\ name' = [name EXCEPT ![b] = name'[b]] \/ b \notin DOMAIN name
         /\ \E n : n \notin used /\ used' = used \cup {n} /\ name' = [name EXCEPT ![b] = n]
         /\ NamesInv'
<1> DEFINE base == Tools!Truncate(BaseName[o], MaxLen)
           n == IF base \in used THEN Tools!Counted(base, Tools!FreeCount(base)) ELSE base
           X == Tools!ToSet(BaseName[o])
           k == Tools!FreeCount(base)
<1>1. base \in Seq(X)
  <2>1. MaxLen \in Nat /\ BaseName[o] \in Seq(X)
    BY ToolNames DEF Tools!ToolAssumption
  <2> QED BY <2>1, TruncateIs
<1>2. /\ builds < MaxBuilds /\ builds' = builds + 1
      /\ name' = [name EXCEPT ![b] = n] /\ used' = used \cup {n}
      /\ generated' = [m \in DOMAIN generated \cup {base} |-> IF m = base THEN k ELSE generated[m]]
  BY DEF Tools!GenerateName
<1> HIDE DEF base, X
<1>3. /\ n \notin used
      /\ k \in 0 .. MaxBuilds /\ \A c \in 1 .. k : Tools!Counted(base, c) \in used \cup {n}
  <2>1. CASE base \in used
    <3>1. /\ k \in Tools!Count(base) + 1 .. MaxBuilds
          /\ Tools!Counted(base, k) \notin used
          /\ \A c \in 1 .. k - 1 : Tools!Counted(base, c) \in used
      BY <1>1, <1>2, <2>1, CountIsFree
    <3>2. Tools!Count(base) \in Nat
      BY DEF NamesInv, Tools!Count
    <3> HIDE DEF k
    <3>3. k \in 0 .. MaxBuilds /\ \A c \in 1 .. k : c \in 1 .. k - 1 \/ c = k
      BY <3>1, <3>2
    <3> QED BY <2>1, <3>1, <3>3 DEF k
  <2>2. CASE base \notin used
    <3>1. k = Tools!Count(base)
      BY <2>2 DEF Tools!FreeCount
    <3>2. Tools!Count(base) \in 0 .. MaxBuilds
          /\ \A c \in 1 .. Tools!Count(base) : Tools!Counted(base, c) \in used
      BY CountIsKept
    <3> QED BY <2>2, <3>1, <3>2
  <2> QED BY <2>1, <2>2
<1> HIDE DEF n, k
<1>4. IsFiniteSet(used') /\ Cardinality(used') = Cardinality(used) + 1
  BY <1>2, <1>3, FS_AddElement DEF NamesInv
<1>5. Cardinality(used) \in Nat /\ MaxBuilds \in Nat
  BY FS_CardinalityType, ToolNames DEF NamesInv, Tools!ToolAssumption
<1>6. Cardinality(used') <= builds' /\ builds' \in 0 .. MaxBuilds
  BY <1>2, <1>4, <1>5 DEF NamesInv
<1>7. \A m \in DOMAIN generated' :
        generated'[m] \in 0 .. MaxBuilds /\ \A c \in 1 .. generated'[m] : Tools!Counted(m, c) \in used'
  BY <1>2, <1>3 DEF NamesInv
<1> QED BY <1>2, <1>3, <1>4, <1>6, <1>7 DEF NamesInv

LEMMA GenerateKeeps ==
  ASSUME ToolsInv, NEW b \in Builders, NEW o \in Operations, Tools!GenerateName(b, o)
  PROVE  ToolsInv'
<1>1. PICK n : n \notin used /\ used' = used \cup {n} /\ name' = [name EXCEPT ![b] = n]
  BY NameIsNew DEF ToolsInv
<1>2. NamesInv'
  BY NameIsNew DEF ToolsInv
<1>3. /\ op[b] = None /\ op' = [op EXCEPT ![b] = o] /\ overtaken' = overtaken \ {b}
      /\ tools' = tools /\ expected' = expected
  BY DEF Tools!GenerateName
<1>4. n \notin DOMAIN tools \/ Late(expected, n)
  BY <1>1 DEF ToolsInv
<1>5. \A m : Late(expected', m) <=> Late(expected, m)
  BY <1>3 DEF Late
<1>6. /\ name'[b] = n /\ DOMAIN name' = Builders
      /\ op' \in [Builders -> Operations \cup {None}]
      /\ \A d \in Builders \ {b} : name'[d] = name[d] /\ op'[d] = op[d] /\ (Building(d)' <=> Building(d))
  BY <1>1, <1>3 DEF ToolsInv, Building
<1>7. \A d \in Builders \ {b} : Building(d) => name[d] \in used /\ name[d] # n
  BY <1>1 DEF ToolsInv
<1>8. ASSUME NEW d \in Builders, Building(d)'
      PROVE  name'[d] \in used' /\ (name'[d] \notin DOMAIN tools' \/ Late(expected', name'[d]))
  <2>1. CASE d = b
    BY <1>1, <1>3, <1>4, <1>6, <2>1
  <2>2. CASE d # b
    <3>1. Building(d) /\ name'[d] = name[d]
      BY <1>6, <1>8, <2>2
    <3> QED BY <1>1, <1>3, <3>1 DEF ToolsInv
  <2> QED BY <2>1, <2>2
<1>9. \A c, d \in Builders : Building(c)' /\ Building(d)' /\ c # d => name'[c] # name'[d]
  BY <1>6, <1>7 DEF ToolsInv
<1>10. \A e \in expected' : e.name \in DOMAIN tools' /\ (Late(expected, e.name) \/ tools'[e.name] = e.op)
  BY <1>3 DEF ToolsInv
<1>11. \A m \in DOMAIN tools' : m \in used' \/ Late(expected, m)
  BY <1>1, <1>3 DEF ToolsInv
<1> QED BY <1>2, <1>5, <1>6, <1>8, <1>9, <1>10, <1>11 DEF ToolsInv

LEMMA RegisterKeeps == ASSUME ToolsInv, NEW b \in Builders, Tools!Register(b) PROVE ToolsInv'
<1> DEFINE n == name[b]
           e0 == [name |-> n, op |-> op[b], late |-> b \in overtaken]
<1>1. /\ op[b] # None /\ expected' = expected \cup {e0}
      /\ tools' = [m \in DOMAIN tools \cup {n} |-> IF m = n THEN op[b] ELSE tools[m]]
      /\ op' = [op EXCEPT ![b] = None] /\ name' = [name EXCEPT ![b] = None]
      /\ UNCHANGED <<used, generated, builds, overtaken>>
  BY DEF Tools!Register, Tools!Done
<1>2. NamesInv'
  BY <1>1 DEF ToolsInv, NamesInv
<1>3. e0.name = n /\ e0.op = op[b] /\ (e0.late <=> b \in overtaken)
  OBVIOUS
<1> HIDE DEF e0
<1>4. /\ DOMAIN tools' = DOMAIN tools \cup {n} /\ tools'[n] = op[b]
      /\ \A m \in DOMAIN tools : m # n => tools'[m] = tools[m]
      /\ \A m : m # n => (Late(expected', m) <=> Late(expected, m))
      /\ Late(expected', n) <=> (Late(expected, n) \/ b \in overtaken)
  BY <1>1, <1>3 DEF Late
<1>5. /\ ~Building(b)' /\ op' \in [Builders -> Operations \cup {None}] /\ DOMAIN name' = Builders
      /\ \A d \in Builders \ {b} : name'[d] = name[d] /\ (Building(d)' <=> Building(d))
  BY <1>1 DEF ToolsInv, Building
<1>6. b \notin overtaken => n \in used /\ (n \notin DOMAIN tools \/ Late(expected, n))
                            /\ \A d \in Builders \ {b} : Building(d) => name[d] # n
  BY <1>1 DEF ToolsInv, Building
<1> HIDE DEF n
<1>7. ASSUME NEW e \in expected'
      PROVE  e.name \in DOMAIN tools' /\ (Late(expected', e.name) \/ tools'[e.name] = e.op)
  <2>1. CASE e = e0
    BY <1>3, <1>4, <2>1
  <2>2. CASE e \in expected
    <3>1. e.name \in DOMAIN tools /\ (Late(expected, e.name) \/ tools[e.name] = e.op)
      BY <2>2 DEF ToolsInv
    <3>2. CASE e.name = n
      BY <1>4, <1>6, <3>1, <3>2
    <3>3. CASE e.name # n
      BY <1>4, <3>1, <3>3
    <3> QED BY <3>2, <3>3
  <2> QED BY <1>1, <2>1, <2>2
<1>8. \A m \in DOMAIN tools' : m \in used' \/ Late(expected', m)
  <2> SUFFICES ASSUME NEW m \in DOMAIN tools' PROVE m \in used' \/ Late(expected', m)
    OBVIOUS
  <2>1. CASE m = n
    BY <1>1, <1>4, <1>6, <2>1
  <2>2. CASE m # n
    BY <1>1, <1>4, <2>2 DEF ToolsInv
  <2> QED BY <2>1, <2>2
<1>9. ASSUME NEW d \in Builders, Building(d)'
      PROVE  name'[d] \in used' /\ (name'[d] \notin DOMAIN tools' \/ Late(expected', name'[d]))
  <2>1. /\ d # b /\ name'[d] = name[d] /\ Building(d) /\ name[d] \in used
        /\ (name[d] \notin DOMAIN tools \/ Late(expected, name[d]))
    BY <1>5, <1>9 DEF ToolsInv
  <2>2. CASE name[d] = n
    <3>1. b \in overtaken
      BY <1>6, <2>1, <2>2
    <3>2. Late(expected', n)
      BY <1>4, <3>1
    <3> QED BY <1>1, <2>1, <2>2, <3>2
  <2>3. CASE name[d] # n
    <3>1. Late(expected', name[d]) <=> Late(expected, name[d])
      BY <1>4, <2>3, Zenon
    <3>2. name[d] \in DOMAIN tools' => name[d] \in DOMAIN tools
      BY <1>4, <2>3
    <3> QED BY <1>1, <2>1, <3>1, <3>2
  <2> QED BY <2>2, <2>3
<1>10. \A c, d \in Builders : Building(c)' /\ Building(d)' /\ c # d => name'[c] # name'[d]
  BY <1>5 DEF ToolsInv
<1> QED BY <1>2, <1>5, <1>7, <1>8, <1>9, <1>10 DEF ToolsInv

LEMMA SkipKeeps == ASSUME ToolsInv, NEW b \in Builders, Tools!Skip(b) PROVE ToolsInv'
<1>1. /\ op' = [op EXCEPT ![b] = None] /\ name' = [name EXCEPT ![b] = None]
      /\ UNCHANGED <<tools, used, generated, builds, expected, overtaken>>
  BY DEF Tools!Skip, Tools!Done
<1>2. NamesInv' /\ \A m : Late(expected', m) <=> Late(expected, m)
  BY <1>1 DEF ToolsInv, NamesInv, Late
<1>3. /\ ~Building(b)' /\ op' \in [Builders -> Operations \cup {None}] /\ DOMAIN name' = Builders
      /\ \A d \in Builders \ {b} : name'[d] = name[d] /\ (Building(d)' <=> Building(d))
  BY <1>1 DEF ToolsInv, Building
<1>4. /\ \A e \in expected' : e.name \in DOMAIN tools' /\ (Late(expected, e.name) \/ tools'[e.name] = e.op)
      /\ \A n \in DOMAIN tools' : n \in used' \/ Late(expected, n)
  BY <1>1 DEF ToolsInv
<1>5. /\ \A d \in Builders : Building(d)' =>
           name'[d] \in used' /\ (name'[d] \notin DOMAIN tools' \/ Late(expected', name'[d]))
      /\ \A c, d \in Builders : Building(c)' /\ Building(d)' /\ c # d => name'[c] # name'[d]
  BY <1>1, <1>3 DEF ToolsInv
<1> QED BY <1>2, <1>3, <1>4, <1>5 DEF ToolsInv

LEMMA UnregisterKeeps == ASSUME ToolsInv, NEW n \in DOMAIN tools, Tools!Unregister(n) PROVE ToolsInv'
<1>1. /\ tools' = [m \in DOMAIN tools \ {n} |-> tools[m]]
      /\ expected' = {e \in expected : e.name # n}
      /\ UNCHANGED <<used, generated, op, name, builds, overtaken>>
  BY DEF Tools!Unregister
<1>2. NamesInv' /\ \A m : m # n => (Late(expected', m) <=> Late(expected, m))
  BY <1>1 DEF ToolsInv, NamesInv, Late
<1>3. /\ DOMAIN tools' = DOMAIN tools \ {n} /\ \A m \in DOMAIN tools' : tools'[m] = tools[m]
      /\ \A d \in Builders : Building(d)' <=> Building(d)
  BY <1>1 DEF Building
<1>4. \A e \in expected' : e.name \in DOMAIN tools' /\ (Late(expected', e.name) \/ tools'[e.name] = e.op)
  BY <1>1, <1>2, <1>3 DEF ToolsInv
<1>5. \A m \in DOMAIN tools' : m \in used' \/ Late(expected', m)
  BY <1>1, <1>2, <1>3 DEF ToolsInv
<1>6. \A d \in Builders : Building(d)' =>
        name'[d] \in used' /\ (name'[d] \notin DOMAIN tools' \/ Late(expected', name'[d]))
  <2> SUFFICES ASSUME NEW d \in Builders, Building(d)
               PROVE  name[d] \in used /\ (name[d] \notin DOMAIN tools' \/ Late(expected', name[d]))
    BY <1>1, <1>3
  <2>1. name[d] \in used /\ (name[d] \notin DOMAIN tools \/ Late(expected, name[d]))
    BY DEF ToolsInv
  <2> QED BY <1>2, <1>3, <2>1
<1>7. /\ \A c, d \in Builders : Building(c)' /\ Building(d)' /\ c # d => name'[c] # name'[d]
      /\ op' \in [Builders -> Operations \cup {None}] /\ DOMAIN name' = Builders
  BY <1>1, <1>3 DEF ToolsInv
<1> QED BY <1>2, <1>4, <1>5, <1>6, <1>7 DEF ToolsInv

\* Clear forgets the names of the tools that are being built.
LEMMA ClearKeeps == ASSUME ToolsInv, Tools!Clear PROVE ToolsInv'
<1>1. /\ DOMAIN tools' = {} /\ used' = {} /\ DOMAIN generated' = {} /\ expected' = {}
      /\ overtaken' = {b \in Builders : op[b] # None} /\ UNCHANGED <<op, name, builds>>
  BY DEF Tools!Clear, Tools!NoTools
<1>2. NamesInv'
  BY <1>1, FS_EmptySet DEF ToolsInv, NamesInv
<1>3. \A b \in Builders : ~Building(b)'
  BY <1>1 DEF Building
<1> QED BY <1>1, <1>2, <1>3 DEF ToolsInv

LEMMA ToolsKeep == ToolsInv /\ [Tools!Next]_toolVars => ToolsInv'
<1> SUFFICES ASSUME ToolsInv, [Tools!Next]_toolVars PROVE ToolsInv'
  OBVIOUS
<1>1. CASE UNCHANGED toolVars
  BY <1>1 DEF toolVars, ToolsInv, NamesInv, Late, Building
<1> QED
  BY <1>1, GenerateKeeps, RegisterKeeps, SkipKeeps, UnregisterKeeps, ClearKeeps DEF Tools!Next, toolVars

\* ToolsAreKept, which is checked on five operations and names of four letters, holds for
\* any names and any length that they are cut to, any number of tools whose counts fit into that
\* length, any number of builders and any excluded operations: no tool replaces another one unless
\* a Clear came between the two steps of its building.
THEOREM ToolsHold == Spec => []ToolsAreKept
<1>1. Init => ToolsInv
  BY ToolsStart DEF Init
<1>2. ToolsInv /\ [Next]_vars => ToolsInv'
  <2>1. [Next]_vars => [Tools!Next]_toolVars
    BY DEF Next, vars, toolVars
  <2> QED BY <2>1, ToolsKeep
<1>3. ToolsInv => ToolsAreKept
  BY DEF ToolsInv, Late, ToolsAreKept, Tools!ToolsAreKept
<1> QED BY <1>1, <1>2, <1>3, PTL DEF Spec

-----------------------------------------------------------------------------
(* RPCServer: the elements of a batch *)

Elements(c) == rpcBody[c].elements

\* rs answers the first k elements of es; the methods in M were missing at some time.
Answers(es, rs, k, M) ==
  /\ rs \in Seq(RPC!Response)
  /\ Len(rs) = RPC!Place(es, k)
  /\ \A p \in 1 .. k : RPC!IsAnswered(es[p]) => RPC!Fits(es[p], rs[RPC!Place(es, p)], M)

LEMMA PlaceSteps ==
  ASSUME NEW es, NEW k \in Nat
  PROVE  /\ RPC!Place(es, k) \in Nat
         /\ RPC!Place(es, 0) = 0
         /\ RPC!Place(es, k + 1) = IF RPC!IsAnswered(es[k + 1]) THEN RPC!Place(es, k) + 1
                                   ELSE RPC!Place(es, k)
         /\ \A p \in 1 .. k : RPC!IsAnswered(es[p]) => RPC!Place(es, p) \in 1 .. RPC!Place(es, k)
<1> DEFINE Q(p) == {q \in 1 .. p : RPC!IsAnswered(es[q])}
<1>1. \A p : RPC!Place(es, p) = Cardinality(Q(p))
  BY Zenon DEF RPC!Place, RPC!Cardinality, Cardinality
<1>2. \A p \in Nat : IsFiniteSet(Q(p)) /\ Cardinality(Q(p)) \in Nat
  <2> SUFFICES ASSUME NEW p \in Nat PROVE IsFiniteSet(Q(p)) /\ Cardinality(Q(p)) \in Nat
    OBVIOUS
  <2>1. IsFiniteSet(1 .. p)
    <3>1. 1 \in Int /\ p \in Int
      OBVIOUS
    <3> QED BY <3>1, FS_Interval, Zenon
  <2>2. IsFiniteSet(Q(p))
    <3>1. Q(p) \subseteq 1 .. p
      OBVIOUS
    <3> QED BY <2>1, <3>1, FS_Subset, Zenon
  <2> QED BY <2>2, FS_CardinalityType, Zenon
<1>3. Cardinality(Q(0)) = 0
  <2>1. Q(0) = {}
    OBVIOUS
  <2> QED BY <2>1, FS_EmptySet
<1>4. RPC!IsAnswered(es[k + 1]) => Cardinality(Q(k + 1)) = Cardinality(Q(k)) + 1
  <2> SUFFICES ASSUME RPC!IsAnswered(es[k + 1]) PROVE Cardinality(Q(k + 1)) = Cardinality(Q(k)) + 1
    OBVIOUS
  <2>1. Q(k + 1) = Q(k) \cup {k + 1} /\ k + 1 \notin Q(k)
    OBVIOUS
  <2>2. Cardinality(Q(k) \cup {k + 1}) = Cardinality(Q(k)) + 1
    BY <1>2, <2>1, FS_AddElement, Zenon
  <2> QED BY <2>1, <2>2, Zenon
<1>5. ~RPC!IsAnswered(es[k + 1]) => Q(k + 1) = Q(k)
  OBVIOUS
<1>7. ASSUME NEW p \in 1 .. k, RPC!IsAnswered(es[p])
      PROVE  Cardinality(Q(p)) \in 1 .. Cardinality(Q(k))
  <2>1. p \in Nat /\ p \in Q(p) /\ Q(p) \subseteq Q(k)
    BY <1>7
  <2>2. Cardinality(Q(p)) <= Cardinality(Q(k))
    BY <1>2, <2>1, FS_Subset, Zenon
  <2>3. Cardinality(Q(p)) # 0
    BY <1>2, <2>1, FS_EmptySet, Zenon
  <2>4. Cardinality(Q(p)) \in Nat /\ Cardinality(Q(k)) \in Nat
    BY <1>2, <2>1, Zenon
  <2> HIDE DEF Q
  <2> QED BY <2>2, <2>3, <2>4
<1> HIDE DEF Q
<1>8. k \in Nat /\ k + 1 \in Nat
  OBVIOUS
<1> QED BY <1>1, <1>2, <1>3, <1>4, <1>5, <1>7, <1>8

\* One more element is handled, and its response appended if it is answered.
LEMMA AnswersOneMore ==
  ASSUME NEW es, NEW rs, NEW k \in Nat, NEW A, Answers(es, rs, k, A),
         NEW r \in RPC!Response, RPC!Fits(es[k + 1], r, A),
         NEW new, new = IF RPC!IsAnswered(es[k + 1]) THEN Append(rs, r) ELSE rs
  PROVE  Answers(es, new, k + 1, A)
<1>1. new \in Seq(RPC!Response)
  BY DEF Answers
<1>2. RPC!Place(es, k) = Len(rs) /\ Len(rs) \in Nat
  BY DEF Answers
<1>3. Len(new) = RPC!Place(es, k + 1)
  <2>1. RPC!Place(es, k + 1) = IF RPC!IsAnswered(es[k + 1]) THEN RPC!Place(es, k) + 1
                               ELSE RPC!Place(es, k)
    BY PlaceSteps
  <2>2. Len(Append(rs, r)) = Len(rs) + 1
    BY DEF Answers
  <2> QED BY <1>2, <2>1, <2>2
<1>4. ASSUME NEW p \in 1 .. k + 1, RPC!IsAnswered(es[p])
      PROVE  RPC!Fits(es[p], new[RPC!Place(es, p)], A)
  <2>1. CASE p = k + 1
    <3>1. RPC!Place(es, p) = Len(rs) + 1 /\ new = Append(rs, r)
      BY <1>2, <1>4, <2>1, PlaceSteps
    <3>2. new[RPC!Place(es, p)] = r
      BY <3>1 DEF Answers
    <3> QED BY <2>1, <3>2
  <2>2. CASE p # k + 1
    <3>1. p \in 1 .. k
      BY <2>2
    <3>2. RPC!Place(es, p) \in 1 .. Len(rs)
      BY <1>2, <1>4, <3>1, PlaceSteps
    <3>3. new[RPC!Place(es, p)] = rs[RPC!Place(es, p)]
      BY <3>2 DEF Answers
    <3>4. RPC!Fits(es[p], rs[RPC!Place(es, p)], A)
      BY <1>4, <3>1 DEF Answers
    <3> QED BY <3>3, <3>4
  <2> QED BY <2>1, <2>2
<1> QED BY <1>1, <1>3, <1>4 DEF Answers

LEMMA AnswersMore ==
  ASSUME NEW es, NEW rs, NEW k, NEW A, NEW B, A \subseteq B, Answers(es, rs, k, A)
  PROVE  Answers(es, rs, k, B)
BY DEF Answers, RPC!Fits

ConnectionInv(c) ==
  /\ next[c] \in Nat \ {0}
  /\ rpcAt[c] \in {"idle", "handle", "done"}
  /\ running[c] => rpcAt[c] = "handle"
  /\ rpcAt[c] = "idle" => next[c] = 1 /\ responses[c] = <<>>
  /\ rpcAt[c] = "handle" =>
       /\ Elements(c) \in Seq(RPC!Element)
       /\ next[c] <= Len(Elements(c)) + 1
       /\ Answers(Elements(c), responses[c], next[c] - 1, absent[c])
       /\ Methods \ methods \subseteq absent[c]
       /\ running[c] => /\ next[c] <= Len(Elements(c))
                        /\ Elements(c)[next[c]] # RPC!Null /\ RPC!IsValid(Elements(c)[next[c]])
  /\ rpcAt[c] = "done" /\ Elements(c) # <<>> =>
       /\ Answers(Elements(c), answer[c].responses, Len(Elements(c)), absent[c])
       /\ answer[c].status = 204 <=> answer[c].responses = <<>>

\* The elements before the next one are answered by the responses that are collected.
RPCInv ==
  /\ DOMAIN rpcAt = Connections /\ DOMAIN rpcBody = Connections /\ DOMAIN next = Connections
  /\ DOMAIN running = Connections /\ DOMAIN responses = Connections
  /\ DOMAIN answer = Connections /\ DOMAIN absent = Connections
  /\ \A c \in Connections : ConnectionInv(c)

LEMMA NoneAnswered ==
  ASSUME NEW es, NEW A PROVE Answers(es, <<>>, 0, A)
<1>1. RPC!Place(es, 0) = 0
  BY PlaceSteps
<1> QED BY <1>1 DEF Answers

LEMMA RPCStart == RPC!Init => RPCInv
BY DEF RPC!Init, RPCInv, ConnectionInv

\* What the others are left with when only the connection c steps.
LEMMA OthersKeep ==
  ASSUME RPCInv, NEW c \in Connections, NEW d \in Connections \ {c},
         methods' = methods,
         rpcAt'[d] = rpcAt[d], rpcBody'[d] = rpcBody[d], next'[d] = next[d],
         running'[d] = running[d], responses'[d] = responses[d], answer'[d] = answer[d],
         absent'[d] = absent[d]
  PROVE  ConnectionInv(d)'
<1>1. ConnectionInv(d)
  BY DEF RPCInv
<1>2. Elements(d)' = Elements(d)
  BY DEF Elements
<1> QED BY <1>1, <1>2 DEF ConnectionInv

LEMMA PostKeeps == ASSUME RPCInv, NEW c \in Connections, NEW b \in Bodies, RPC!Post(c, b) PROVE RPCInv'
<1>1. /\ rpcAt[c] = "idle" /\ rpcBody' = [rpcBody EXCEPT ![c] = b]
      /\ absent' = [absent EXCEPT ![c] = Methods \ methods]
      /\ UNCHANGED <<methods, next, running, responses>>
      /\ \/ b.elements = <<>> /\ rpcAt' = [rpcAt EXCEPT ![c] = "done"]
            /\ \E a : answer' = [answer EXCEPT ![c] = a]
         \/ rpcAt' = [rpcAt EXCEPT ![c] = "handle"] /\ answer' = answer
  <2>1. b.elements \in Seq(RPC!Element) /\ (b.kind = "garbage" => b.elements = <<>>)
    BY BodiesAreBodies DEF RPC!BodiesAssumption, RPC!IsBody
  <2> QED BY <2>1 DEF RPC!Post, RPC!Write
<1>2. b.elements \in Seq(RPC!Element)
  BY BodiesAreBodies DEF RPC!BodiesAssumption, RPC!IsBody
<1>3. /\ rpcBody'[c] = b /\ next'[c] = 1 /\ responses'[c] = <<>> /\ ~running'[c]
      /\ absent'[c] = Methods \ methods
      /\ rpcAt'[c] = "handle" \/ (rpcAt'[c] = "done" /\ b.elements = <<>>)
  BY <1>1 DEF RPCInv, ConnectionInv
<1>4. ConnectionInv(c)'
  <2>1. Answers(b.elements, <<>>, 0, absent'[c])
    BY NoneAnswered
  <2>2. Elements(c)' = b.elements
    BY <1>3 DEF Elements
  <2>3. methods' = methods /\ Len(b.elements) \in Nat
    BY <1>1, <1>2
  <2> QED BY <1>2, <1>3, <2>1, <2>2, <2>3 DEF ConnectionInv
<1>5. \A d \in Connections \ {c} : ConnectionInv(d)'
  BY <1>1, OthersKeep DEF RPCInv
<1>6. /\ DOMAIN rpcAt' = Connections /\ DOMAIN rpcBody' = Connections /\ DOMAIN next' = Connections
      /\ DOMAIN running' = Connections /\ DOMAIN responses' = Connections
      /\ DOMAIN answer' = Connections /\ DOMAIN absent' = Connections
  BY <1>1 DEF RPCInv
<1> QED BY <1>4, <1>5, <1>6 DEF RPCInv

\* An element is handled, its handler having run or not.
LEMMA AppendKeeps ==
  ASSUME RPCInv, NEW c \in Connections, rpcAt[c] = "handle", next[c] <= Len(Elements(c)),
         NEW r \in RPC!Response, RPC!Fits(Elements(c)[next[c]], r, absent[c]),
         RPC!Append1(c, Elements(c)[next[c]], r),
         ~running'[c], DOMAIN running' = Connections,
         \A d \in Connections \ {c} : running'[d] = running[d],
         UNCHANGED <<methods, rpcAt, rpcBody, answer, absent>>
  PROVE  RPCInv'
<1> DEFINE e == Elements(c)[next[c]]
<1>1. /\ next[c] \in Nat \ {0} /\ Elements(c) \in Seq(RPC!Element)
      /\ Answers(Elements(c), responses[c], next[c] - 1, absent[c])
      /\ Methods \ methods \subseteq absent[c]
  BY DEF RPCInv, ConnectionInv
<1>2. /\ next' = [next EXCEPT ![c] = next[c] + 1]
      /\ responses' = [responses EXCEPT ![c] = IF RPC!IsAnswered(e) THEN Append(responses[c], r)
                                               ELSE responses[c]]
  BY DEF RPC!Append1
<1>3. Answers(Elements(c), responses'[c], next[c], absent[c])
  <2>1. next[c] - 1 \in Nat /\ next[c] - 1 + 1 = next[c]
    BY <1>1
  <2>2. responses'[c] = IF RPC!IsAnswered(e) THEN Append(responses[c], r) ELSE responses[c]
    BY <1>2 DEF RPCInv
  <2> HIDE DEF Elements
  <2> QED BY <1>1, <2>1, <2>2, AnswersOneMore
<1>4. ConnectionInv(c)'
  <2>1. Elements(c)' = Elements(c) /\ next'[c] = next[c] + 1 /\ ~running'[c]
    BY <1>2 DEF RPCInv, Elements
  <2>2. Len(Elements(c)) \in Nat /\ next'[c] - 1 = next[c] /\ next'[c] \in Nat \ {0}
    BY <1>1, <2>1
  <2> QED BY <1>1, <1>3, <2>1, <2>2 DEF ConnectionInv
<1>5. \A d \in Connections \ {c} : ConnectionInv(d)'
  BY <1>2, OthersKeep DEF RPCInv
<1>6. /\ DOMAIN rpcAt' = Connections /\ DOMAIN rpcBody' = Connections /\ DOMAIN next' = Connections
      /\ DOMAIN running' = Connections /\ DOMAIN responses' = Connections
      /\ DOMAIN answer' = Connections /\ DOMAIN absent' = Connections
  BY <1>2 DEF RPCInv
<1> QED BY <1>4, <1>5, <1>6 DEF RPCInv

LEMMA NullKeeps == ASSUME RPCInv, NEW c \in Connections, RPC!HandleNull(c) PROVE RPCInv'
<1> DEFINE r == RPC!Answer(None, "invalid")
<1>1. rpcAt[c] = "handle" /\ next[c] <= Len(Elements(c)) /\ Elements(c)[next[c]] = RPC!Null
  BY DEF RPC!HandleNull, RPC!Handling, RPC!Current, Elements
<1>2. ~running[c]
  BY <1>1 DEF RPCInv, ConnectionInv
<1>3. r \in RPC!Response /\ RPC!Fits(Elements(c)[next[c]], r, absent[c])
  BY <1>1 DEF RPC!Fits, RPC!Answer, RPC!Response, RPC!Outcome
<1>4. DOMAIN running = Connections
  BY DEF RPCInv
<1>5. /\ RPC!Append1(c, Elements(c)[next[c]], r)
      /\ UNCHANGED <<methods, rpcAt, rpcBody, running, answer, absent>>
  BY <1>1 DEF RPC!HandleNull
<1> QED BY <1>1, <1>2, <1>3, <1>4, <1>5, AppendKeeps

\* The id of a request, and so of its response.
LEMMA ElementIds ==
  ASSUME NEW e \in RPC!Element, e # RPC!Null
  PROVE  e.id \in Nat \cup {None} /\ e.method \in Methods \cup {""}
BY DEF RPC!Element, RPC!Null

LEMMA HandleKeeps == ASSUME RPCInv, NEW c \in Connections, RPC!Handle(c) PROVE RPCInv'
<1> DEFINE e == Elements(c)[next[c]]
<1>1. /\ rpcAt[c] = "handle" /\ next[c] <= Len(Elements(c)) /\ e # RPC!Null /\ ~running[c]
      /\ UNCHANGED <<methods, rpcAt, rpcBody, answer, absent>>
  BY DEF RPC!Handle, RPC!Handling, RPC!Current, Elements
<1>2. next[c] \in Nat \ {0} /\ Elements(c) \in Seq(RPC!Element) /\ Methods \ methods \subseteq absent[c]
  BY <1>1 DEF RPCInv, ConnectionInv
<1>3. e.id \in Nat \cup {None} /\ e.method \in Methods \cup {""}
  <2>1. e \in RPC!Element
    BY <1>1, <1>2
  <2> QED BY <1>1, <2>1, ElementIds, Zenon
<1>4. \/ /\ ~RPC!IsValid(e) /\ running' = running
         /\ RPC!Append1(c, e, RPC!Answer(e.id, "invalid"))
      \/ /\ RPC!IsValid(e) /\ e.method \notin methods /\ running' = running
         /\ RPC!Append1(c, e, RPC!Answer(e.id, "missing"))
      \/ /\ RPC!IsValid(e) /\ running' = [running EXCEPT ![c] = TRUE]
         /\ UNCHANGED <<responses, next>>
  BY Zenon DEF RPC!Handle, RPC!Current, Elements
<1>5. ASSUME NEW o \in {"invalid", "missing"}, running' = running,
             RPC!Append1(c, e, RPC!Answer(e.id, o)),
             o = "invalid" <=> ~RPC!IsValid(e), o = "missing" => e.method \notin methods
      PROVE  RPCInv'
  <2> DEFINE r == RPC!Answer(e.id, o)
  <2>1. r.id = e.id /\ r.outcome = o /\ r \in RPC!Response
    BY <1>3 DEF RPC!Answer, RPC!Response, RPC!Outcome
  <2>2. o = "missing" => e.method \in absent[c]
    BY <1>2, <1>3, <1>5 DEF RPC!IsValid
  <2>3. RPC!Fits(e, r, absent[c])
    BY <1>1, <1>5, <2>1, <2>2 DEF RPC!Fits
  <2>4. running' = running /\ ~running[c] /\ DOMAIN running = Connections
    BY <1>1, <1>5 DEF RPCInv
  <2> HIDE DEF r
  <2> QED BY <1>1, <1>5, <2>1, <2>3, <2>4, AppendKeeps DEF r
<1>6. ASSUME RPC!IsValid(e), running' = [running EXCEPT ![c] = TRUE], UNCHANGED <<responses, next>>
      PROVE  RPCInv'
  <2>1. ConnectionInv(c)'
    <3>1. Elements(c)' = Elements(c) /\ ConnectionInv(c)
      BY <1>1 DEF Elements, RPCInv
    <3> HIDE DEF e
    <3>2. e = Elements(c)[next[c]]
      BY DEF e
    <3> QED BY <1>1, <1>6, <3>1, <3>2 DEF ConnectionInv
  <2>2. \A d \in Connections \ {c} : ConnectionInv(d)'
    BY <1>1, <1>6, OthersKeep DEF RPCInv
  <2> QED BY <1>1, <1>6, <2>1, <2>2 DEF RPCInv
<1> HIDE DEF e
<1> QED BY <1>4, <1>5, <1>6

LEMMA ReturnKeeps == ASSUME RPCInv, NEW c \in Connections, RPC!HandlerReturns(c) PROVE RPCInv'
<1> DEFINE e == Elements(c)[next[c]]
<1>1. /\ running[c] /\ running' = [running EXCEPT ![c] = FALSE]
      /\ UNCHANGED <<methods, rpcAt, rpcBody, answer, absent>>
  BY DEF RPC!HandlerReturns
<1>2. PICK o \in {"result", "error"} : RPC!Append1(c, e, RPC!Answer(e.id, o))
  BY Zenon DEF RPC!HandlerReturns, RPC!Current, Elements
<1>3. /\ rpcAt[c] = "handle" /\ next[c] \in Nat \ {0} /\ next[c] <= Len(Elements(c))
      /\ Elements(c) \in Seq(RPC!Element) /\ e # RPC!Null /\ RPC!IsValid(e)
  BY <1>1 DEF RPCInv, ConnectionInv
<1>4. e.id \in Nat \cup {None}
  <2>1. e \in RPC!Element
    BY <1>3
  <2> QED BY <1>3, <2>1, ElementIds, Zenon
<1>5. /\ ~running'[c] /\ DOMAIN running' = Connections
      /\ \A d \in Connections \ {c} : running'[d] = running[d]
  BY <1>1 DEF RPCInv
<1> DEFINE r == RPC!Answer(e.id, o)
<1>6. r \in RPC!Response /\ RPC!Fits(e, r, absent[c])
  BY <1>3, <1>4 DEF RPC!Answer, RPC!Response, RPC!Outcome, RPC!Fits
<1> HIDE DEF r
<1> QED BY <1>1, <1>2, <1>3, <1>5, <1>6, AppendKeeps DEF r

LEMMA WriteKeeps == ASSUME RPCInv, NEW c \in Connections, RPC!Finish(c) PROVE RPCInv'
<1> DEFINE rs == responses[c]
<1>1. /\ rpcAt[c] = "handle" /\ next[c] > Len(Elements(c))
      /\ rpcAt' = [rpcAt EXCEPT ![c] = "done"]
      /\ answer' = [answer EXCEPT ![c] = [status |-> IF rs = <<>> THEN 204 ELSE 200, responses |-> rs]]
      /\ UNCHANGED <<methods, rpcBody, next, running, responses, absent>>
  BY DEF RPC!Finish, RPC!Write, Elements
<1>2. /\ next[c] = Len(Elements(c)) + 1 /\ Len(Elements(c)) \in Nat /\ ~running[c]
      /\ Answers(Elements(c), rs, next[c] - 1, absent[c])
  BY <1>1 DEF RPCInv, ConnectionInv
<1>3. ConnectionInv(c)'
  <2>1. /\ Elements(c)' = Elements(c) /\ rpcAt'[c] = "done" /\ next'[c] = next[c]
        /\ answer'[c].responses = rs /\ (answer'[c].status = 204 <=> rs = <<>>)
    BY <1>1 DEF RPCInv, Elements
  <2>2. next[c] - 1 = Len(Elements(c)) /\ next[c] \in Nat \ {0}
    BY <1>2
  <2> QED BY <1>1, <1>2, <2>1, <2>2 DEF ConnectionInv
<1>4. \A d \in Connections \ {c} : ConnectionInv(d)'
  BY <1>1, OthersKeep DEF RPCInv
<1> QED BY <1>1, <1>3, <1>4 DEF RPCInv

LEMMA MethodsKeep ==
  ASSUME RPCInv, NEW m \in Methods, RPC!Register(m) \/ RPC!Unregister(m) PROVE RPCInv'
<1>1. /\ UNCHANGED <<rpcAt, rpcBody, next, running, responses, answer>>
      /\ DOMAIN absent' = Connections
      /\ \A c \in Connections : absent[c] \subseteq absent'[c]
      /\ \A c \in Connections :
           Methods \ methods \subseteq absent[c] => Methods \ methods' \subseteq absent'[c]
  BY DEF RPC!Register, RPC!Unregister, RPCInv
<1>2. ASSUME NEW c \in Connections PROVE ConnectionInv(c)'
  <2>1. ConnectionInv(c) /\ Elements(c)' = Elements(c)
    BY <1>1 DEF RPCInv, Elements
  <2>2. \A es, rs, k : Answers(es, rs, k, absent[c]) => Answers(es, rs, k, absent'[c])
    BY <1>1, AnswersMore
  <2> QED BY <1>1, <2>1, <2>2 DEF ConnectionInv
<1> QED BY <1>1, <1>2 DEF RPCInv

LEMMA RPCKeeps == RPCInv /\ [RPC!Next]_rpcVars => RPCInv'
<1> SUFFICES ASSUME RPCInv, [RPC!Next]_rpcVars PROVE RPCInv'
  OBVIOUS
<1>1. CASE UNCHANGED rpcVars
  <2>1. UNCHANGED <<methods, rpcAt, rpcBody, next, running, responses, answer, absent>>
    BY <1>1 DEF rpcVars
  <2>2. ASSUME NEW c \in Connections PROVE ConnectionInv(c)'
    <3>1. ConnectionInv(c) /\ Elements(c)' = Elements(c)
      BY <2>1 DEF RPCInv, Elements
    <3> QED BY <2>1, <3>1 DEF ConnectionInv
  <2> QED BY <2>1, <2>2 DEF RPCInv
<1> QED
  BY <1>1, PostKeeps, NullKeeps, HandleKeeps, ReturnKeeps, WriteKeeps, MethodsKeep DEF RPC!Next

\* BatchesAreAnswered, which is checked on nine bodies of at most three elements, holds for batches
\* of any length, any number of connections, and methods registered and removed meanwhile.
THEOREM BatchesHold == Spec => []BatchesAreAnswered
<1>1. Init => RPCInv
  BY RPCStart DEF Init
<1>2. RPCInv /\ [Next]_vars => RPCInv'
  <2>1. [Next]_vars => [RPC!Next]_rpcVars
    BY DEF Next, vars, rpcVars
  <2> QED BY <2>1, RPCKeeps
<1>3. RPCInv => BatchesAreAnswered
  <2> SUFFICES ASSUME RPCInv, NEW c \in Connections, rpcAt[c] = "done", Elements(c) # <<>>
               PROVE  LET es == Elements(c)
                          rs == answer[c].responses
                      IN /\ Len(rs) = RPC!Place(es, Len(es))
                         /\ answer[c].status = 204 <=> RPC!Place(es, Len(es)) = 0
                         /\ \A p \in DOMAIN es :
                              RPC!IsAnswered(es[p]) => RPC!Fits(es[p], rs[RPC!Place(es, p)], absent[c])
    BY DEF BatchesAreAnswered, RPC!BatchesAreAnswered, Elements
  <2>1. /\ Answers(Elements(c), answer[c].responses, Len(Elements(c)), absent[c])
        /\ answer[c].status = 204 <=> answer[c].responses = <<>>
    BY DEF RPCInv, ConnectionInv
  <2> QED BY <2>1 DEF Answers
<1> QED BY <1>1, <1>2, <1>3, PTL DEF Spec

-----------------------------------------------------------------------------
(* Metrics: what requests count and scrapes read *)

MetricTypes ==
  /\ label \in [Requests -> Labels]
  /\ values \in [Numbers!Vecs -> [Labels -> Requests \cup {None}]]
  /\ amount \in [Numbers!Vecs -> [Requests -> Numbers!Numbers]]
  /\ stage \in [Requests -> Numbers!Stages]
  /\ lookup \in [Requests -> {"look", "lock", "wait", "have"}]
  /\ object \in [Requests -> Requests \cup {None}]
  /\ bucket \in [Requests -> 0 .. Buckets + 1]

LEMMA Vectors ==
  /\ Numbers!VecAt["active"] = "gauge" /\ Numbers!VecAt["total"] = "counter"
  /\ Numbers!VecAt["duration"] = "histogram" /\ Numbers!VecAt["leave"] = "gauge"
  /\ DOMAIN Numbers!VecAt = {"active", "total", "duration", "leave"}
  /\ Numbers!Stages = {"active", "total", "duration", "leave", "handler", "buckets", "done"}
  /\ \A x \in DOMAIN Numbers!VecAt : Numbers!VecAt[x] \in Numbers!Vecs
<1>1. /\ Numbers!VecAt["active"] = "gauge" /\ Numbers!VecAt["total"] = "counter"
      /\ Numbers!VecAt["duration"] = "histogram" /\ Numbers!VecAt["leave"] = "gauge"
  BY DEF Numbers!VecAt
<1>2. DOMAIN Numbers!VecAt = {"active", "total", "duration", "leave"}
  BY DEF Numbers!VecAt
<1>3. Numbers!Stages = {"active", "total", "duration", "leave", "handler", "buckets", "done"}
  BY <1>2 DEF Numbers!Stages
<1> QED BY <1>1, <1>2, <1>3 DEF Numbers!Vecs

\* An addition to the number of one object, and one to a bucket of it.
Raised(am, am2, v, o, n) == am2 = [am EXCEPT ![v][o].number = @ + n]
LEMMA NumberGrows ==
  ASSUME MetricTypes, NEW v \in Numbers!Vecs, NEW o \in Requests, NEW n \in Int,
         Raised(amount, amount', v, o, n)
  PROVE  /\ amount' \in [Numbers!Vecs -> [Requests -> Numbers!Numbers]]
         /\ amount'[v][o].number = amount[v][o].number + n
         /\ amount'[v][o].buckets = amount[v][o].buckets
         /\ \A w \in Numbers!Vecs, p \in Requests : w # v \/ p # o => amount'[w][p] = amount[w][p]
<1> DEFINE a == amount[v][o]
           b == [a EXCEPT !.number = @ + n]
<1>1. a \in Numbers!Numbers /\ amount[v] \in [Requests -> Numbers!Numbers]
  BY DEF MetricTypes
<1>2. b \in Numbers!Numbers /\ b.number = a.number + n /\ b.buckets = a.buckets
  BY <1>1 DEF Numbers!Numbers
<1>3. amount' = [amount EXCEPT ![v] = [amount[v] EXCEPT ![o] = b]]
  BY DEF Raised
<1> HIDE DEF a, b
<1>4. amount'[v] = [amount[v] EXCEPT ![o] = b] /\ \A w \in Numbers!Vecs : w # v => amount'[w] = amount[w]
  BY <1>3 DEF MetricTypes
<1>5. amount'[v] \in [Requests -> Numbers!Numbers] /\ amount'[v][o] = b
  BY <1>1, <1>2, <1>4
<1>6. amount' \in [Numbers!Vecs -> [Requests -> Numbers!Numbers]]
  BY <1>3, <1>4, <1>5 DEF MetricTypes
<1>7. \A p \in Requests : p # o => amount'[v][p] = amount[v][p]
  BY <1>1, <1>4
<1> QED BY <1>2, <1>4, <1>5, <1>6, <1>7 DEF a

RaisedAt(am, am2, v, o, i) == am2 = [am EXCEPT ![v][o].buckets[i] = @ + 1]
LEMMA BucketGrows ==
  ASSUME MetricTypes, NEW v \in Numbers!Vecs, NEW o \in Requests, NEW i \in 1 .. Buckets,
         RaisedAt(amount, amount', v, o, i)
  PROVE  /\ amount' \in [Numbers!Vecs -> [Requests -> Numbers!Numbers]]
         /\ amount'[v][o].number = amount[v][o].number
         /\ amount'[v][o].buckets[i] = amount[v][o].buckets[i] + 1
         /\ \A j \in 1 .. Buckets : j # i => amount'[v][o].buckets[j] = amount[v][o].buckets[j]
         /\ \A w \in Numbers!Vecs, p \in Requests : w # v \/ p # o => amount'[w][p] = amount[w][p]
<1> DEFINE a == amount[v][o]
           f == [a.buckets EXCEPT ![i] = a.buckets[i] + 1]
           b == [a EXCEPT !.buckets = f]
<1>1. a \in Numbers!Numbers /\ amount[v] \in [Requests -> Numbers!Numbers]
  BY DEF MetricTypes
<1>2. a.buckets \in [1 .. Buckets -> Nat] /\ a.number \in Int
  BY <1>1 DEF Numbers!Numbers
<1> HIDE DEF a
<1>3. f \in [1 .. Buckets -> Nat] /\ f[i] = a.buckets[i] + 1
      /\ \A j \in 1 .. Buckets : j # i => f[j] = a.buckets[j]
  <2> DEFINE B == a.buckets
  <2>1. B \in [1 .. Buckets -> Nat]
    BY <1>2
  <2> HIDE DEF B
  <2>2. /\ [B EXCEPT ![i] = B[i] + 1] \in [1 .. Buckets -> Nat]
        /\ [B EXCEPT ![i] = B[i] + 1][i] = B[i] + 1
        /\ \A j \in 1 .. Buckets : j # i => [B EXCEPT ![i] = B[i] + 1][j] = B[j]
    BY <2>1
  <2> QED BY <2>2 DEF B
<1> HIDE DEF f
<1>4. b = [number |-> a.number, buckets |-> f] /\ b.number = a.number /\ b.buckets = f
  BY <1>1 DEF Numbers!Numbers
<1>5. b \in Numbers!Numbers
  BY <1>2, <1>3, <1>4 DEF Numbers!Numbers
<1>6. amount' = [amount EXCEPT ![v] = [amount[v] EXCEPT ![o] = b]]
  BY DEF a, b, f, RaisedAt
<1> HIDE DEF b
<1>7. amount'[v] = [amount[v] EXCEPT ![o] = b] /\ \A w \in Numbers!Vecs : w # v => amount'[w] = amount[w]
  BY <1>6 DEF MetricTypes
<1>8. amount'[v] \in [Requests -> Numbers!Numbers] /\ amount'[v][o] = b
  BY <1>1, <1>5, <1>7
<1>9. amount' \in [Numbers!Vecs -> [Requests -> Numbers!Numbers]]
  BY <1>6, <1>7, <1>8 DEF MetricTypes
<1>10. \A p \in Requests : p # o => amount'[v][p] = amount[v][p]
  BY <1>1, <1>7 DEF a
<1>11. /\ amount'[v][o].number = a.number /\ amount'[v][o].buckets[i] = a.buckets[i] + 1
       /\ \A j \in 1 .. Buckets : j # i => amount'[v][o].buckets[j] = a.buckets[j]
  BY <1>3, <1>4, <1>8
<1>12. \A w \in Numbers!Vecs, p \in Requests : w # v \/ p # o => amount'[w][p] = amount[w][p]
  BY <1>7, <1>10
<1> QED BY <1>9, <1>11, <1>12 DEF a

\* The requests that the numbers are to tell of.
ActiveIn(st) == {r \in Requests : st[r] \notin {"active", "done"}}
CountedIn(nx) == {r \in Requests : nx[r] > 0}
TotalIn(st, nx) == CountedIn(nx) \cup {r \in Requests : st[r] = "duration"}
BucketIn(nx, i) == {r \in CountedIn(nx) : RankOf[r] <= i /\ i < nx[r]}

HowMany(S, lab, l) == Cardinality({r \in S : lab[r] = l})

\* What is exposed.
Shown(vals, am, v, l) == IF vals[v][l] = None THEN 0 ELSE am[v][vals[v][l]].number
ShownAt(vals, am, l, i) ==
  IF vals["histogram"][l] = None THEN 0 ELSE am["histogram"][vals["histogram"][l]].buckets[i]

IsTrue(lab, vals, am, st, nx) ==
  \A l \in Labels :
    /\ Shown(vals, am, "gauge", l) = HowMany(ActiveIn(st), lab, l)
    /\ Shown(vals, am, "counter", l) = HowMany(TotalIn(st, nx), lab, l)
    /\ Shown(vals, am, "histogram", l) = HowMany(CountedIn(nx), lab, l)
    /\ \A i \in 1 .. Buckets : ShownAt(vals, am, l, i) = HowMany(BucketIn(nx, i), lab, l)

LEMMA TruthIs == IsTrue(label, values, amount, stage, bucket) => Numbers!NothingIsLost
<1>1. \A S, l : Numbers!Cardinality({r \in S : label[r] = l}) = HowMany(S, label, l)
  BY Zenon DEF HowMany, Numbers!Cardinality, Cardinality
<1>2. \A v, l : Numbers!Exposed(v, l).number = Shown(values, amount, v, l)
  BY DEF Numbers!Exposed, Shown
<1>3. \A l : \A i \in 1 .. Buckets :
        Numbers!Exposed("histogram", l).buckets[i] = ShownAt(values, amount, l, i)
  BY DEF Numbers!Exposed, ShownAt
<1> DEFINE Truth(l) ==
      /\ Numbers!Exposed("gauge", l).number = HowMany(ActiveIn(stage), label, l)
      /\ Numbers!Exposed("counter", l).number = HowMany(TotalIn(stage, bucket), label, l)
      /\ Numbers!Exposed("histogram", l).number = HowMany(CountedIn(bucket), label, l)
      /\ \A i \in 1 .. Buckets :
           Numbers!Exposed("histogram", l).buckets[i] = HowMany(BucketIn(bucket, i), label, l)
<1>4. IsTrue(label, values, amount, stage, bucket) => \A l \in Labels : Truth(l)
  BY <1>2, <1>3 DEF IsTrue
<1> DEFINE C == {r \in Requests : bucket[r] > 0}
           T == C \cup {r \in Requests : stage[r] = "duration"}
           A == {r \in Requests : stage[r] \notin {"active", "done"}}
           B(i) == {r \in C : RankOf[r] <= i /\ i < bucket[r]}
           Of(S, l) == Numbers!Cardinality({r \in S : label[r] = l})
<1>5. ASSUME NEW l \in Labels, Truth(l)
      PROVE  /\ Numbers!Exposed("gauge", l).number = Of(A, l)
             /\ Numbers!Exposed("counter", l).number = Of(T, l)
             /\ Numbers!Exposed("histogram", l).number = Of(C, l)
             /\ \A i \in 1 .. Buckets : Numbers!Exposed("histogram", l).buckets[i] = Of(B(i), l)
  <2>1. ActiveIn(stage) = A /\ CountedIn(bucket) = C
    BY Zenon DEF ActiveIn, CountedIn
  <2>2. TotalIn(stage, bucket) = T /\ \A i : BucketIn(bucket, i) = B(i)
    BY <2>1, Zenon DEF TotalIn, BucketIn
  <2>3. \A S : Of(S, l) = HowMany(S, label, l)
    BY <1>1, Zenon
  <2> HIDE DEF A, T, C, B, Of
  <2> QED BY <1>5, <2>1, <2>2, <2>3
<1>6. (\A l \in Labels : Truth(l)) => Numbers!NothingIsLost
  BY <1>5 DEF Numbers!NothingIsLost
<1> QED BY <1>4, <1>6

\* Q is P with r added or taken away, or P itself.
Moves(P, Q, r, n) ==
  \/ n = 0 /\ Q = P
  \/ n = 1 /\ r \notin P /\ Q = P \cup {r}
  \/ n = -1 /\ r \in P /\ Q = P \ {r}

\* What r adds to a number of the label l.
Gain(lab, r, l, n) == IF lab[r] = l THEN n ELSE 0

When(a, b, n) == IF a = b THEN n ELSE 0
Grows(P, Q, lab, r, l, n) == HowMany(Q, lab, l) = HowMany(P, lab, l) + Gain(lab, r, l, n)

LEMMA FewRequests ==
  ASSUME NEW st, NEW nx
  PROVE  /\ IsFiniteSet(ActiveIn(st)) /\ IsFiniteSet(TotalIn(st, nx)) /\ IsFiniteSet(CountedIn(nx))
         /\ \A i : IsFiniteSet(BucketIn(nx, i))
<1>1. IsFiniteSet(Requests)
  BY MetricNumbers, Zenon DEF Numbers!MetricsAssumption, Numbers!IsFiniteSet, IsFiniteSet
<1>2. /\ ActiveIn(st) \subseteq Requests /\ TotalIn(st, nx) \subseteq Requests
      /\ CountedIn(nx) \subseteq Requests /\ \A i : BucketIn(nx, i) \subseteq Requests
  BY DEF ActiveIn, TotalIn, CountedIn, BucketIn
<1> QED BY <1>1, <1>2, FS_Subset, Zenon

LEMMA ManyIs ==
  ASSUME NEW P, IsFiniteSet(P), NEW lab, NEW l
  PROVE  HowMany(P, lab, l) \in Nat
<1>1. {x \in P : lab[x] = l} \subseteq P
  OBVIOUS
<1> QED BY <1>1, FS_Subset, FS_CardinalityType, Zenon DEF HowMany

LEMMA ManyMove ==
  ASSUME NEW P, NEW Q, IsFiniteSet(P), IsFiniteSet(Q), NEW r, NEW n,
         Moves(P, Q, r, n), NEW lab, NEW l
  PROVE  Grows(P, Q, lab, r, l, n)
<1> DEFINE A == {x \in P : lab[x] = l}
           B == {x \in Q : lab[x] = l}
<1>1. IsFiniteSet(A) /\ IsFiniteSet(B)
  <2>1. A \subseteq P /\ B \subseteq Q
    OBVIOUS
  <2> HIDE DEF A, B
  <2> QED BY <2>1, FS_Subset, Zenon
<1>2. Cardinality(A) \in Nat /\ Cardinality(B) \in Nat
  <2> HIDE DEF A, B
  <2> QED BY <1>1, FS_CardinalityType, Zenon
<1>3. \/ (n = 0 \/ lab[r] # l) /\ B = A
      \/ n = 1 /\ lab[r] = l /\ r \notin A /\ B = A \cup {r}
      \/ n = -1 /\ lab[r] = l /\ r \notin B /\ A = B \cup {r}
  BY DEF Moves
<1>4. HowMany(P, lab, l) = Cardinality(A) /\ HowMany(Q, lab, l) = Cardinality(B)
  BY DEF HowMany
<1> HIDE DEF A, B
<1>5. r \notin A => Cardinality(A \cup {r}) = Cardinality(A) + 1
  BY <1>1, FS_AddElement, Zenon
<1>6. r \notin B => Cardinality(B \cup {r}) = Cardinality(B) + 1
  BY <1>1, FS_AddElement, Zenon
<1>7. CASE (n = 0 \/ lab[r] # l) /\ B = A
  BY <1>2, <1>4, <1>7 DEF Gain, Grows
<1>8. CASE n = 1 /\ lab[r] = l /\ r \notin A /\ B = A \cup {r}
  BY <1>2, <1>4, <1>5, <1>8 DEF Gain, Grows
<1>9. CASE n = -1 /\ lab[r] = l /\ r \notin B /\ A = B \cup {r}
  BY <1>2, <1>4, <1>6, <1>9 DEF Gain, Grows
<1> QED BY <1>3, <1>7, <1>8, <1>9

\* What is exposed grows by what r adds: by g to the gauge, by c to the counter, by h to the
\* count of the histogram, and by one to its bucket k.
Gains(lab, vals, am, vals2, am2, r, g, c, h, k) ==
  \A l \in Labels :
    /\ Shown(vals2, am2, "gauge", l) = Shown(vals, am, "gauge", l) + Gain(lab, r, l, g)
    /\ Shown(vals2, am2, "counter", l) = Shown(vals, am, "counter", l) + Gain(lab, r, l, c)
    /\ Shown(vals2, am2, "histogram", l) = Shown(vals, am, "histogram", l) + Gain(lab, r, l, h)
    /\ \A i \in 1 .. Buckets :
         ShownAt(vals2, am2, l, i) = ShownAt(vals, am, l, i) + Gain(lab, r, l, When(i, k, 1))

\* The numbers change as the sets do.
LEMMA Tally ==
  ASSUME NEW lab, NEW vals, NEW am, NEW st, NEW nx, IsTrue(lab, vals, am, st, nx),
         NEW vals2, NEW am2, NEW st2, NEW nx2,
         NEW r \in Requests, NEW g, NEW c, NEW h, NEW k,
         Moves(ActiveIn(st), ActiveIn(st2), r, g),
         Moves(TotalIn(st, nx), TotalIn(st2, nx2), r, c),
         Moves(CountedIn(nx), CountedIn(nx2), r, h),
         \A i \in 1 .. Buckets : Moves(BucketIn(nx, i), BucketIn(nx2, i), r, When(i, k, 1)),
         Gains(lab, vals, am, vals2, am2, r, g, c, h, k)
  PROVE  IsTrue(lab, vals2, am2, st2, nx2)
<1> SUFFICES ASSUME NEW l \in Labels
             PROVE  /\ Shown(vals2, am2, "gauge", l) = HowMany(ActiveIn(st2), lab, l)
                    /\ Shown(vals2, am2, "counter", l) = HowMany(TotalIn(st2, nx2), lab, l)
                    /\ Shown(vals2, am2, "histogram", l) = HowMany(CountedIn(nx2), lab, l)
                    /\ \A i \in 1 .. Buckets : ShownAt(vals2, am2, l, i) = HowMany(BucketIn(nx2, i), lab, l)
  BY DEF IsTrue
<1>1. /\ IsFiniteSet(ActiveIn(st)) /\ IsFiniteSet(ActiveIn(st2))
      /\ IsFiniteSet(TotalIn(st, nx)) /\ IsFiniteSet(TotalIn(st2, nx2))
      /\ IsFiniteSet(CountedIn(nx)) /\ IsFiniteSet(CountedIn(nx2))
      /\ \A i : IsFiniteSet(BucketIn(nx, i)) /\ IsFiniteSet(BucketIn(nx2, i))
  BY FewRequests, Zenon
<1>2. Grows(ActiveIn(st), ActiveIn(st2), lab, r, l, g)
  BY <1>1, ManyMove, Zenon
<1>3. Grows(TotalIn(st, nx), TotalIn(st2, nx2), lab, r, l, c)
  BY <1>1, ManyMove, Zenon
<1>4. Grows(CountedIn(nx), CountedIn(nx2), lab, r, l, h)
  BY <1>1, ManyMove, Zenon
<1>5. \A i \in 1 .. Buckets :
        Grows(BucketIn(nx, i), BucketIn(nx2, i), lab, r, l, When(i, k, 1))
  BY <1>1, ManyMove, Zenon
<1>6. /\ Shown(vals, am, "gauge", l) = HowMany(ActiveIn(st), lab, l)
      /\ Shown(vals, am, "counter", l) = HowMany(TotalIn(st, nx), lab, l)
      /\ Shown(vals, am, "histogram", l) = HowMany(CountedIn(nx), lab, l)
      /\ \A i \in 1 .. Buckets : ShownAt(vals, am, l, i) = HowMany(BucketIn(nx, i), lab, l)
  BY Zenon DEF IsTrue
<1> QED BY <1>2, <1>3, <1>4, <1>5, <1>6, Zenon DEF Gains, Grows

\* A request of a label has the object of that label, made by a request of that label, and an
\* object that is not exposed is untouched.
Objects ==
  /\ \A v \in Numbers!Vecs, l \in Labels : values[v][l] # None => label[values[v][l]] = l
  /\ \A v \in Numbers!Vecs, o \in Requests : values[v][label[o]] # o =>
       amount[v][o].number = 0 /\ \A i \in 1 .. Buckets : amount[v][o].buckets[i] = 0
  /\ \A r \in Requests :
       stage[r] \in DOMAIN Numbers!VecAt /\ lookup[r] = "have" =>
         object[r] \in Requests /\ object[r] = values[Numbers!VecAt[stage[r]]][label[r]]
  /\ \A r \in Requests : stage[r] = "buckets" =>
       object[r] \in Requests /\ object[r] = values["histogram"][label[r]]

Progress ==
  \A r \in Requests :
    /\ stage[r] \in {"active", "handler", "total", "duration"} => bucket[r] = 0
    /\ stage[r] = "buckets" => RankOf[r] <= bucket[r]
    /\ stage[r] \in {"leave", "done"} => bucket[r] \in {0, Buckets + 1}

CountInv ==
  /\ MetricTypes /\ Objects /\ Progress
  /\ IsTrue(label, values, amount, stage, bucket)

LEMMA MetricNumbersAre ==
  /\ Buckets \in Nat /\ None \notin Requests \cup Labels \cup Numbers!Vecs
  /\ Labelings \subseteq [Requests -> Labels]
  /\ \A r \in Requests : RankOf[r] \in 1 .. Buckets + 1
BY MetricNumbers DEF Numbers!MetricsAssumption

LEMMA CountStart == Numbers!Init => CountInv
<1> SUFFICES ASSUME Numbers!Init PROVE CountInv
  OBVIOUS
<1> DEFINE Zero == [number |-> 0, buckets |-> [i \in 1 .. Buckets |-> 0]]
<1>1. Zero \in Numbers!Numbers /\ Zero.number = 0 /\ \A i \in 1 .. Buckets : Zero.buckets[i] = 0
  BY MetricNumbersAre DEF Numbers!Numbers
<1>2. amount = [v \in Numbers!Vecs |-> [r \in Requests |-> Zero]]
  BY DEF Numbers!Init
<1> HIDE DEF Zero
<1>3. /\ amount \in [Numbers!Vecs -> [Requests -> Numbers!Numbers]]
      /\ \A v \in Numbers!Vecs, o \in Requests : amount[v][o] = Zero
  BY <1>1, <1>2
<1>4. /\ values = [v \in Numbers!Vecs |-> [l \in Labels |-> None]]
      /\ stage = [r \in Requests |-> "active"] /\ lookup = [r \in Requests |-> "look"]
      /\ object = [r \in Requests |-> None] /\ bucket = [r \in Requests |-> 0]
      /\ label \in Labelings
  BY DEF Numbers!Init
<1>6. MetricTypes
  BY <1>3, <1>4, MetricNumbersAre, Vectors DEF MetricTypes
<1>7. Objects
  BY <1>1, <1>3, <1>4 DEF Objects
<1>8. Progress
  BY <1>4 DEF Progress
<1>9. IsTrue(label, values, amount, stage, bucket)
  <2>1. ActiveIn(stage) = {} /\ CountedIn(bucket) = {}
    BY <1>4 DEF ActiveIn, CountedIn
  <2>2. TotalIn(stage, bucket) = {} /\ \A i : BucketIn(bucket, i) = {}
    BY <1>4, <2>1 DEF TotalIn, BucketIn
  <2>3. \A l : HowMany({}, label, l) = 0
    <3>1. \A l : {r \in {} : label[r] = l} = {}
      OBVIOUS
    <3> QED BY <3>1, FS_EmptySet, Zenon DEF HowMany
  <2>4. \A v \in Numbers!Vecs, l \in Labels : values[v][l] = None
    BY <1>4
  <2>5. \A l \in Labels : /\ Shown(values, amount, "gauge", l) = 0
                          /\ Shown(values, amount, "counter", l) = 0
                          /\ Shown(values, amount, "histogram", l) = 0
                          /\ \A i \in 1 .. Buckets : ShownAt(values, amount, l, i) = 0
    BY <2>4, Zenon DEF Shown, ShownAt, Numbers!Vecs
  <2> QED BY <2>1, <2>2, <2>3, <2>5, Zenon DEF IsTrue
<1> QED BY <1>6, <1>7, <1>8, <1>9 DEF CountInv

\* Nothing is counted.
LEMMA SameTally ==
  ASSUME NEW lab, NEW vals, NEW am, NEW st, NEW nx, IsTrue(lab, vals, am, st, nx), NEW st2,
         NEW r \in Requests, ActiveIn(st2) = ActiveIn(st), TotalIn(st2, nx) = TotalIn(st, nx)
  PROVE  IsTrue(lab, vals, am, st2, nx)
BY Zenon DEF IsTrue

\* A request that has its object adds to what is exposed for its label.
LEMMA AddsToShown ==
  ASSUME MetricTypes, Objects, NEW r \in Requests, NEW v \in Numbers!Vecs, NEW o \in Requests,
         o = values[v][label[r]], NEW n \in Int,
         Raised(amount, amount', v, o, n), UNCHANGED <<label, values>>
  PROVE  /\ \A w \in Numbers!Vecs, l \in Labels : Shown(values, amount', w, l)
              = Shown(values, amount, w, l) + (IF w = v THEN Gain(label, r, l, n) ELSE 0)
         /\ \A l \in Labels : \A i \in 1 .. Buckets :
              ShownAt(values, amount', l, i) = ShownAt(values, amount, l, i)
<1>1. /\ amount' \in [Numbers!Vecs -> [Requests -> Numbers!Numbers]]
      /\ amount'[v][o].number = amount[v][o].number + n
      /\ amount'[v][o].buckets = amount[v][o].buckets
      /\ \A w \in Numbers!Vecs, p \in Requests : w # v \/ p # o => amount'[w][p] = amount[w][p]
  BY NumberGrows, Zenon
<1>2. \A w \in Numbers!Vecs, p \in Requests : amount[w][p].number \in Int
  BY DEF MetricTypes, Numbers!Numbers
<1>3. /\ label[o] = label[r] /\ o # None /\ label[r] \in Labels
      /\ \A w \in Numbers!Vecs, l \in Labels :
           /\ values[w][l] # None => values[w][l] \in Requests /\ label[values[w][l]] = l
  BY MetricNumbersAre DEF Objects, MetricTypes
<1>4. ASSUME NEW w \in Numbers!Vecs, NEW l \in Labels
      PROVE  Shown(values, amount', w, l)
               = Shown(values, amount, w, l) + (IF w = v THEN Gain(label, r, l, n) ELSE 0)
  <2>1. CASE w = v /\ l = label[r]
    BY <1>1, <1>3, <2>1 DEF Shown, Gain
  <2>2. CASE ~(w = v /\ l = label[r]) /\ values[w][l] = None
    BY <2>2 DEF Shown, Gain
  <2>3. CASE ~(w = v /\ l = label[r]) /\ values[w][l] # None
    <3>1. values[w][l] \in Requests /\ (w # v \/ values[w][l] # o)
      BY <1>3, <2>3
    <3>2. amount'[w][values[w][l]] = amount[w][values[w][l]]
      BY <1>1, <3>1
    <3>3. Shown(values, amount', w, l) = Shown(values, amount, w, l) /\ Shown(values, amount, w, l) \in Int
      BY <1>2, <2>3, <3>1, <3>2 DEF Shown
    <3> QED BY <2>3, <3>3 DEF Gain
  <2> QED BY <2>1, <2>2, <2>3
<1>5. ASSUME NEW l \in Labels, NEW i \in 1 .. Buckets
      PROVE  ShownAt(values, amount', l, i) = ShownAt(values, amount, l, i)
  <2>1. CASE values["histogram"][l] = None
    BY <2>1 DEF ShownAt
  <2>2. CASE values["histogram"][l] # None
    <3> DEFINE p == values["histogram"][l]
    <3>1. "histogram" \in Numbers!Vecs
      BY DEF Numbers!Vecs
    <3>2. p \in Requests
      BY <1>3, <2>2, <3>1
    <3>3. amount'["histogram"][p].buckets = amount["histogram"][p].buckets
      BY <1>1, <3>1, <3>2
    <3> QED BY <2>2, <3>3 DEF ShownAt
  <2> QED BY <2>1, <2>2
<1> QED BY <1>4, <1>5

\* An addition keeps what is known of the objects.
LEMMA AddKeeps ==
  ASSUME MetricTypes, Objects, NEW r \in Requests, stage[r] \in DOMAIN Numbers!VecAt,
         NEW n \in Int, NEW s \in Numbers!Stages, s = "buckets" => stage[r] = "duration",
         Numbers!Adds(r, n, s), UNCHANGED <<label, values, object>>
  PROVE  /\ amount' \in [Numbers!Vecs -> [Requests -> Numbers!Numbers]]
         /\ stage' = [stage EXCEPT ![r] = s] /\ lookup' = [lookup EXCEPT ![r] = "look"]
         /\ Objects'
         /\ \A w \in Numbers!Vecs, l \in Labels : Shown(values', amount', w, l)
              = Shown(values, amount, w, l)
                + (IF w = Numbers!VecAt[stage[r]] THEN Gain(label, r, l, n) ELSE 0)
         /\ \A l \in Labels : \A i \in 1 .. Buckets :
              ShownAt(values', amount', l, i) = ShownAt(values, amount, l, i)
<1> DEFINE v == Numbers!VecAt[stage[r]]
           o == object[r]
<1>1. /\ lookup[r] = "have" /\ Raised(amount, amount', v, o, n)
      /\ stage' = [stage EXCEPT ![r] = s] /\ lookup' = [lookup EXCEPT ![r] = "look"]
  BY DEF Numbers!Adds, Numbers!To, Numbers!VecOf, Raised
<1>2. v \in Numbers!Vecs /\ o \in Requests /\ o = values[v][label[r]]
  BY <1>1, Vectors DEF Objects
<1>3. label[o] = label[r]
  BY <1>2, MetricNumbersAre DEF Objects, MetricTypes
<1>4. s = "buckets" => v = "histogram"
  BY Vectors
<1> HIDE DEF v, o
<1>5. /\ amount' \in [Numbers!Vecs -> [Requests -> Numbers!Numbers]]
      /\ \A w \in Numbers!Vecs, p \in Requests : w # v \/ p # o => amount'[w][p] = amount[w][p]
  BY <1>1, <1>2, NumberGrows, Zenon
<1>6. /\ \A w \in Numbers!Vecs, l \in Labels : Shown(values, amount', w, l)
           = Shown(values, amount, w, l) + (IF w = v THEN Gain(label, r, l, n) ELSE 0)
      /\ \A l \in Labels : \A i \in 1 .. Buckets :
           ShownAt(values, amount', l, i) = ShownAt(values, amount, l, i)
  BY <1>1, <1>2, AddsToShown, Zenon
<1>7. ASSUME NEW w \in Numbers!Vecs, NEW p \in Requests, values[w][label[p]] # p
      PROVE  amount'[w][p] = amount[w][p]
  BY <1>2, <1>3, <1>5, <1>7
<1>8. \A w \in Numbers!Vecs, p \in Requests : values[w][label[p]] # p =>
        amount'[w][p].number = 0 /\ \A i \in 1 .. Buckets : amount'[w][p].buckets[i] = 0
  BY <1>7 DEF Objects
<1>9. ASSUME NEW q \in Requests
      PROVE  /\ stage'[q] \in DOMAIN Numbers!VecAt /\ lookup'[q] = "have" =>
                  object[q] \in Requests /\ object[q] = values[Numbers!VecAt[stage'[q]]][label[q]]
             /\ stage'[q] = "buckets" =>
                  object[q] \in Requests /\ object[q] = values["histogram"][label[q]]
  <2>1. CASE q = r
    <3>1. lookup'[q] = "look" /\ stage'[q] = s
      BY <1>1, <2>1 DEF MetricTypes
    <3> QED BY <1>2, <1>4, <2>1, <3>1 DEF o
  <2>2. CASE q # r
    <3>1. lookup'[q] = lookup[q] /\ stage'[q] = stage[q]
      BY <1>1, <2>2 DEF MetricTypes
    <3> QED BY <3>1 DEF Objects
  <2> QED BY <2>1, <2>2
<1>10. Objects'
  BY <1>8, <1>9 DEF Objects
<1> QED BY <1>1, <1>5, <1>6, <1>10 DEF v

\* The object of a label is looked up, or made and exposed.
LEMMA WithKeeps == ASSUME CountInv, NEW r \in Requests, Numbers!With(r) PROVE CountInv'
<1> DEFINE v == Numbers!VecAt[stage[r]]
<1>1. stage[r] \in DOMAIN Numbers!VecAt /\ v \in Numbers!Vecs
  BY Vectors DEF Numbers!With, Numbers!Look, Numbers!AskForLock, Numbers!Make, Numbers!Looks
<1>2. UNCHANGED <<label, amount, stage, bucket>>
  BY DEF Numbers!With, Numbers!Look, Numbers!AskForLock, Numbers!Make
<1>3. MetricTypes /\ Objects /\ Progress /\ IsTrue(label, values, amount, stage, bucket)
  BY DEF CountInv
<1>4. label[r] \in Labels /\ values[v][label[r]] \in Requests \cup {None} /\ stage[r] # "buckets"
      /\ values[v] \in [Labels -> Requests \cup {None}]
  BY <1>1, <1>3, Vectors DEF MetricTypes
<1>5. Progress'
  BY <1>2, <1>3 DEF Progress
<1>6. CASE /\ values' = values /\ \E t \in {"lock", "wait"} : lookup' = [lookup EXCEPT ![r] = t]
           /\ \E x \in Requests \cup {None} : object' = [object EXCEPT ![r] = x]
  <2>1. MetricTypes'
    BY <1>2, <1>3, <1>6 DEF MetricTypes
  <2>2. /\ lookup'[r] # "have" /\ stage[r] # "buckets"
        /\ \A q \in Requests \ {r} : lookup'[q] = lookup[q] /\ object'[q] = object[q]
    BY <1>3, <1>4, <1>6 DEF MetricTypes
  <2>3. \A q \in Requests :
          /\ stage[q] \in DOMAIN Numbers!VecAt /\ lookup'[q] = "have" =>
               object'[q] \in Requests /\ object'[q] = values[Numbers!VecAt[stage[q]]][label[q]]
          /\ stage[q] = "buckets" =>
               object'[q] \in Requests /\ object'[q] = values["histogram"][label[q]]
    BY <1>3, <2>2 DEF Objects
  <2>4. Objects'
    BY <1>2, <1>3, <1>6, <2>3 DEF Objects
  <2> QED BY <1>2, <1>3, <1>5, <1>6, <2>1, <2>4 DEF CountInv
<1>7. CASE /\ values' = values /\ values[v][label[r]] # None
           /\ lookup' = [lookup EXCEPT ![r] = "have"]
           /\ object' = [object EXCEPT ![r] = values[v][label[r]]]
  <2>1. MetricTypes'
    BY <1>2, <1>3, <1>4, <1>7 DEF MetricTypes
  <2>2. Objects'
    BY <1>2, <1>3, <1>4, <1>7 DEF Objects, MetricTypes
  <2> QED BY <1>2, <1>3, <1>5, <1>7, <2>1, <2>2 DEF CountInv
<1>8. CASE /\ values[v][label[r]] = None /\ values' = [values EXCEPT ![v][label[r]] = r]
           /\ lookup' = [lookup EXCEPT ![r] = "have"] /\ object' = [object EXCEPT ![r] = r]
  <2> HIDE DEF v
  <2>1. /\ values' \in [Numbers!Vecs -> [Labels -> Requests \cup {None}]]
        /\ values'[v][label[r]] = r
        /\ \A w \in Numbers!Vecs, l \in Labels : w # v \/ l # label[r] => values'[w][l] = values[w][l]
    BY <1>1, <1>3, <1>4, <1>8 DEF MetricTypes
  <2>2. /\ lookup'[r] = "have" /\ object'[r] = r
        /\ \A q \in Requests \ {r} : lookup'[q] = lookup[q] /\ object'[q] = object[q]
    BY <1>3, <1>8 DEF MetricTypes
  <2>3. /\ lookup' \in [Requests -> {"look", "lock", "wait", "have"}]
        /\ object' \in [Requests -> Requests \cup {None}]
    BY <1>3, <1>8 DEF MetricTypes
  <2>4. MetricTypes'
    BY <1>2, <1>3, <2>1, <2>3 DEF MetricTypes
  <2>5. r # None /\ \A q \in Requests : q # None /\ label[q] \in Labels
    BY <1>3, MetricNumbersAre DEF MetricTypes
  <2>6. \A w \in Numbers!Vecs, l \in Labels : values'[w][l] # None => label[values'[w][l]] = l
    BY <1>3, <2>1 DEF Objects
  <2>7. \A w \in Numbers!Vecs, p \in Requests : values'[w][label[p]] # p =>
          amount[w][p].number = 0 /\ \A i \in 1 .. Buckets : amount[w][p].buckets[i] = 0
    BY <1>3, <1>8, <2>1, <2>5 DEF Objects
  <2>8. ASSUME NEW q \in Requests
        PROVE  /\ stage[q] \in DOMAIN Numbers!VecAt /\ lookup'[q] = "have" =>
                    object'[q] \in Requests /\ object'[q] = values'[Numbers!VecAt[stage[q]]][label[q]]
               /\ stage[q] = "buckets" =>
                    object'[q] \in Requests /\ object'[q] = values'["histogram"][label[q]]
    <3>1. CASE q = r
      BY <1>1, <1>4, <2>1, <2>2, <3>1 DEF v
    <3>2. CASE q # r
      <4>1. \A w \in Numbers!Vecs : values[w][label[q]] # None => values'[w][label[q]] = values[w][label[q]]
        BY <1>8, <2>1, <2>5
      <4>2. "histogram" \in Numbers!Vecs
        BY DEF Numbers!Vecs
      <4> QED BY <1>3, <2>2, <2>5, <3>2, <4>1, <4>2, Vectors DEF Objects
    <3> QED BY <3>1, <3>2
  <2>9. Objects'
    BY <1>2, <2>6, <2>7, <2>8 DEF Objects
  <2>10. /\ amount[v][r].number = 0 /\ \A i \in 1 .. Buckets : amount[v][r].buckets[i] = 0
    BY <1>1, <1>3, <1>8, <2>5 DEF Objects
  <2>11. /\ \A w \in Numbers!Vecs, l \in Labels : Shown(values', amount, w, l) = Shown(values, amount, w, l)
         /\ \A l \in Labels : \A i \in 1 .. Buckets :
              ShownAt(values', amount, l, i) = ShownAt(values, amount, l, i)
    <3>1. \A w \in Numbers!Vecs, l \in Labels : Shown(values', amount, w, l) = Shown(values, amount, w, l)
      BY <1>8, <2>1, <2>5, <2>10 DEF Shown
    <3>2. "histogram" \in Numbers!Vecs
      BY DEF Numbers!Vecs
    <3>3. \A l \in Labels : \A i \in 1 .. Buckets :
            ShownAt(values', amount, l, i) = ShownAt(values, amount, l, i)
      BY <1>8, <2>1, <2>5, <2>10, <3>2 DEF ShownAt
    <3> QED BY <3>1, <3>3
  <2>12. IsTrue(label, values', amount, stage, bucket)
    BY <1>3, <2>11, Zenon DEF IsTrue, Numbers!Vecs
  <2> QED BY <1>2, <1>5, <2>4, <2>9, <2>12 DEF CountInv
<1>9. CASE Numbers!Look(r)
  <2> DEFINE o == values[v][label[r]]
  <2>1. /\ values' = values /\ object' = [object EXCEPT ![r] = o]
        /\ lookup' = [lookup EXCEPT ![r] = IF o = None THEN "lock" ELSE "have"]
    BY <1>9 DEF Numbers!Look, Numbers!VecOf
  <2>2. CASE o = None
    BY <1>4, <1>6, <2>1, <2>2
  <2>3. CASE o # None
    BY <1>7, <2>1, <2>3
  <2> QED BY <2>2, <2>3
<1>10. CASE Numbers!AskForLock(r)
  <2>1. object[r] \in Requests \cup {None} /\ object' = [object EXCEPT ![r] = object[r]]
    BY <1>3, <1>10 DEF Numbers!AskForLock, MetricTypes
  <2>2. values' = values /\ lookup' = [lookup EXCEPT ![r] = "wait"]
    BY <1>10 DEF Numbers!AskForLock
  <2> QED BY <1>6, <2>1, <2>2
<1>11. CASE Numbers!Make(r)
  <2> DEFINE o == values[v][label[r]]
             f == IF o = None THEN r ELSE o
  <2>1. /\ values' = [values EXCEPT ![v][label[r]] = f] /\ object' = [object EXCEPT ![r] = f]
        /\ lookup' = [lookup EXCEPT ![r] = "have"]
    BY <1>11 DEF Numbers!Make, Numbers!Found, Numbers!VecOf
  <2>2. CASE o = None
    BY <1>8, <2>1, <2>2
  <2>3. CASE o # None
    <3>1. values' = values
      <4>1. values' = [values EXCEPT ![v] = [values[v] EXCEPT ![label[r]] = o]]
        BY <2>1, <2>3
      <4>2. [values[v] EXCEPT ![label[r]] = o] = values[v]
        BY <1>4
      <4> HIDE DEF v, o
      <4>3. [values EXCEPT ![v] = values[v]] = values
        BY <1>1, <1>3 DEF MetricTypes
      <4> QED BY <4>1, <4>2, <4>3
    <3> QED BY <1>7, <2>1, <2>3, <3>1
  <2> QED BY <2>2, <2>3
<1> QED BY <1>9, <1>10, <1>11 DEF Numbers!With

\* A step of r to the stage s that counts nothing there.
LEMMA GoesKeeps ==
  ASSUME CountInv, NEW r \in Requests, NEW s \in Numbers!Stages, Numbers!To(r, s),
         UNCHANGED <<label, values, amount, object, bucket>>,
         \/ stage[r] = "handler" /\ s \in {"total", "leave"}
         \/ stage[r] = "buckets" /\ bucket[r] > Buckets /\ s = "leave"
  PROVE  CountInv'
<1>1. /\ stage' = [stage EXCEPT ![r] = s] /\ lookup' = [lookup EXCEPT ![r] = "look"]
      /\ MetricTypes /\ Objects /\ Progress /\ IsTrue(label, values, amount, stage, bucket)
  BY DEF Numbers!To, CountInv
<1>2. /\ stage'[r] = s /\ lookup'[r] = "look"
      /\ \A q \in Requests \ {r} : stage'[q] = stage[q] /\ lookup'[q] = lookup[q]
  BY <1>1 DEF MetricTypes
<1>3. MetricTypes'
  BY <1>1 DEF MetricTypes
<1>4. \A q \in Requests :
        /\ stage'[q] \in DOMAIN Numbers!VecAt /\ lookup'[q] = "have" =>
             object[q] \in Requests /\ object[q] = values[Numbers!VecAt[stage'[q]]][label[q]]
        /\ stage'[q] = "buckets" => object[q] \in Requests /\ object[q] = values["histogram"][label[q]]
  BY <1>1, <1>2 DEF Objects
<1>5. Objects'
  BY <1>1, <1>4 DEF Objects
<1>6. Progress'
  <2>1. bucket[r] \in 0 .. Buckets + 1 /\ Buckets \in Nat
    BY <1>1, MetricNumbersAre DEF MetricTypes
  <2> QED BY <1>1, <1>2, <2>1 DEF Progress
<1>7. ActiveIn(stage') = ActiveIn(stage) /\ TotalIn(stage', bucket) = TotalIn(stage, bucket)
  BY <1>2 DEF ActiveIn, TotalIn
<1>8. IsTrue(label, values, amount, stage', bucket)
  BY <1>1, <1>7, SameTally, Zenon
<1> QED BY <1>3, <1>5, <1>6, <1>8 DEF CountInv

\* A step of r that adds n to the number of a map, and what is counted there grows by r.
LEMMA CountingKeeps ==
  ASSUME CountInv, NEW r \in Requests, stage[r] \in DOMAIN Numbers!VecAt,
         NEW n \in Int, NEW s \in Numbers!Stages, s = "buckets" => stage[r] = "duration",
         Numbers!Adds(r, n, s), UNCHANGED <<label, values, object>>,
         bucket' \in [Requests -> 0 .. Buckets + 1], Progress',
         NEW v, v = Numbers!VecAt[stage[r]],
         Moves(ActiveIn(stage), ActiveIn(stage'), r, When(v, "gauge", n)),
         Moves(TotalIn(stage, bucket), TotalIn(stage', bucket'), r, When(v, "counter", n)),
         Moves(CountedIn(bucket), CountedIn(bucket'), r, When(v, "histogram", n)),
         \A i \in 1 .. Buckets : BucketIn(bucket', i) = BucketIn(bucket, i)
  PROVE  CountInv'
<1> DEFINE g == When(v, "gauge", n)
           c == When(v, "counter", n)
           h == When(v, "histogram", n)
<1>1. MetricTypes /\ Objects /\ IsTrue(label, values, amount, stage, bucket)
  BY DEF CountInv
<1>2. /\ amount' \in [Numbers!Vecs -> [Requests -> Numbers!Numbers]]
      /\ stage' = [stage EXCEPT ![r] = s] /\ lookup' = [lookup EXCEPT ![r] = "look"]
      /\ Objects'
      /\ \A w \in Numbers!Vecs, l \in Labels : Shown(values', amount', w, l)
           = Shown(values, amount, w, l) + (IF w = v THEN Gain(label, r, l, n) ELSE 0)
      /\ \A l \in Labels : \A i \in 1 .. Buckets :
           ShownAt(values', amount', l, i) = ShownAt(values, amount, l, i)
  BY <1>1, AddKeeps
<1>3. MetricTypes'
  BY <1>1, <1>2 DEF MetricTypes
<1>4. \A l : Gain(label, r, l, 0) = 0
  BY DEF Gain
<1>5. \A l \in Labels : \A i \in 1 .. Buckets : ShownAt(values, amount, l, i) \in Nat
  <2> SUFFICES ASSUME NEW l \in Labels, NEW i \in 1 .. Buckets PROVE ShownAt(values, amount, l, i) \in Nat
    OBVIOUS
  <2>1. IsFiniteSet(BucketIn(bucket, i))
    BY FewRequests
  <2>2. HowMany(BucketIn(bucket, i), label, l) \in Nat
    BY <2>1, ManyIs
  <2> QED BY <1>1, <2>2 DEF IsTrue
<1>6. \A i \in 1 .. Buckets : When(i, 0, 1) = 0
  BY MetricNumbersAre DEF When
<1>7. \A l \in Labels :
        /\ Shown(values, amount, "gauge", l) \in Int /\ Shown(values, amount, "counter", l) \in Int
        /\ Shown(values, amount, "histogram", l) \in Int
  <2> SUFFICES ASSUME NEW l \in Labels, NEW w \in Numbers!Vecs PROVE Shown(values, amount, w, l) \in Int
    BY DEF Numbers!Vecs
  <2> QED BY <1>1 DEF Shown, MetricTypes, Numbers!Numbers
<1>8. Gains(label, values, amount, values', amount', r, g, c, h, 0)
  <2>1. ASSUME NEW l \in Labels
        PROVE  /\ Shown(values', amount', "gauge", l) = Shown(values, amount, "gauge", l) + Gain(label, r, l, g)
               /\ Shown(values', amount', "counter", l)
                    = Shown(values, amount, "counter", l) + Gain(label, r, l, c)
               /\ Shown(values', amount', "histogram", l)
                    = Shown(values, amount, "histogram", l) + Gain(label, r, l, h)
    BY <1>2, <1>4, <1>7 DEF Numbers!Vecs, When
  <2>2. ASSUME NEW l \in Labels, NEW i \in 1 .. Buckets
        PROVE  ShownAt(values', amount', l, i)
                 = ShownAt(values, amount, l, i) + Gain(label, r, l, When(i, 0, 1))
    BY <1>2, <1>4, <1>5, <1>6
  <2> QED BY <2>1, <2>2, Zenon DEF Gains
<1>9. \A i \in 1 .. Buckets :
        Moves(BucketIn(bucket, i), BucketIn(bucket', i), r, When(i, 0, 1))
  BY <1>6 DEF Moves
<1>10. IsTrue(label, values', amount', stage', bucket')
  <2> HIDE DEF g, c, h
  <2>1. /\ Moves(ActiveIn(stage), ActiveIn(stage'), r, g)
        /\ Moves(TotalIn(stage, bucket), TotalIn(stage', bucket'), r, c)
        /\ Moves(CountedIn(bucket), CountedIn(bucket'), r, h)
    BY DEF g, c, h
  <2> QED BY <1>1, <1>8, <1>9, <2>1, Tally, Zenon
<1> QED BY <1>2, <1>3, <1>10 DEF CountInv

LEMMA EnterKeeps == ASSUME CountInv, NEW r \in Requests, Numbers!Enter(r) PROVE CountInv'
<1>1. /\ stage[r] = "active" /\ Numbers!Adds(r, 1, "handler")
      /\ UNCHANGED <<label, values, object, bucket>> /\ MetricTypes /\ Progress
  BY DEF Numbers!Enter, CountInv
<1>2. /\ stage'[r] = "handler" /\ \A q \in Requests \ {r} : stage'[q] = stage[q]
      /\ bucket' \in [Requests -> 0 .. Buckets + 1]
  BY <1>1 DEF MetricTypes, Numbers!Adds, Numbers!To
<1>3. Progress'
  BY <1>1, <1>2 DEF Progress
<1>4. Moves(ActiveIn(stage), ActiveIn(stage'), r, 1)
  BY <1>1, <1>2 DEF ActiveIn, Moves
<1>5. Moves(TotalIn(stage, bucket), TotalIn(stage', bucket'), r, 0)
  BY <1>1, <1>2 DEF TotalIn, Moves
<1>6. Moves(CountedIn(bucket), CountedIn(bucket'), r, 0)
  BY <1>1 DEF Moves
<1> QED BY <1>1, <1>2, <1>3, <1>4, <1>5, <1>6, CountingKeeps, Vectors DEF When

LEMMA LeaveKeeps == ASSUME CountInv, NEW r \in Requests, Numbers!Leave(r) PROVE CountInv'
<1>1. /\ stage[r] = "leave" /\ Numbers!Adds(r, -1, "done")
      /\ UNCHANGED <<label, values, object, bucket>> /\ MetricTypes /\ Progress
  BY DEF Numbers!Leave, CountInv
<1>2. /\ stage'[r] = "done" /\ \A q \in Requests \ {r} : stage'[q] = stage[q]
      /\ bucket' \in [Requests -> 0 .. Buckets + 1]
  BY <1>1 DEF MetricTypes, Numbers!Adds, Numbers!To
<1>3. Progress'
  BY <1>1, <1>2 DEF Progress
<1>4. Moves(ActiveIn(stage), ActiveIn(stage'), r, -1)
  BY <1>1, <1>2 DEF ActiveIn, Moves
<1>5. Moves(TotalIn(stage, bucket), TotalIn(stage', bucket'), r, 0)
  BY <1>1, <1>2 DEF TotalIn, Moves
<1>6. Moves(CountedIn(bucket), CountedIn(bucket'), r, 0)
  BY <1>1 DEF Moves
<1> QED BY <1>1, <1>2, <1>3, <1>4, <1>5, <1>6, CountingKeeps, Vectors DEF When

LEMMA TotalKeeps == ASSUME CountInv, NEW r \in Requests, Numbers!CountTotal(r) PROVE CountInv'
<1>1. /\ stage[r] = "total" /\ Numbers!Adds(r, 1, "duration")
      /\ UNCHANGED <<label, values, object, bucket>> /\ MetricTypes /\ Progress
  BY DEF Numbers!CountTotal, CountInv
<1>2. /\ stage'[r] = "duration" /\ \A q \in Requests \ {r} : stage'[q] = stage[q]
      /\ bucket' \in [Requests -> 0 .. Buckets + 1] /\ bucket[r] = 0
  BY <1>1 DEF MetricTypes, Numbers!Adds, Numbers!To, Progress
<1>3. Progress'
  BY <1>1, <1>2 DEF Progress
<1>4. Moves(ActiveIn(stage), ActiveIn(stage'), r, 0)
  BY <1>1, <1>2 DEF ActiveIn, Moves
<1>5. Moves(TotalIn(stage, bucket), TotalIn(stage', bucket'), r, 1)
  BY <1>1, <1>2 DEF TotalIn, CountedIn, Moves
<1>6. Moves(CountedIn(bucket), CountedIn(bucket'), r, 0)
  BY <1>1 DEF Moves
<1> QED BY <1>1, <1>2, <1>3, <1>4, <1>5, <1>6, CountingKeeps, Vectors DEF When

LEMMA ObserveKeeps == ASSUME CountInv, NEW r \in Requests, Numbers!Observe(r) PROVE CountInv'
<1>1. /\ stage[r] = "duration" /\ Numbers!Adds(r, 1, "buckets")
      /\ UNCHANGED <<label, values, object>> /\ MetricTypes /\ Progress
      /\ bucket' = [bucket EXCEPT ![r] = RankOf[r]]
  BY DEF Numbers!Observe, CountInv
<1>2. /\ stage'[r] = "buckets" /\ \A q \in Requests \ {r} : stage'[q] = stage[q]
      /\ bucket' \in [Requests -> 0 .. Buckets + 1] /\ bucket[r] = 0 /\ bucket'[r] = RankOf[r]
      /\ \A q \in Requests \ {r} : bucket'[q] = bucket[q]
  BY <1>1, MetricNumbersAre DEF MetricTypes, Numbers!Adds, Numbers!To, Progress
<1>3. RankOf[r] \in Nat \ {0} /\ Buckets \in Nat
  BY MetricNumbersAre
<1>4. Progress'
  BY <1>1, <1>2, <1>3 DEF Progress
<1>5. Moves(ActiveIn(stage), ActiveIn(stage'), r, 0)
  BY <1>1, <1>2 DEF ActiveIn, Moves
<1>6. Moves(CountedIn(bucket), CountedIn(bucket'), r, 1)
  BY <1>2, <1>3 DEF CountedIn, Moves
<1>7. Moves(TotalIn(stage, bucket), TotalIn(stage', bucket'), r, 0)
  BY <1>1, <1>2, <1>3 DEF TotalIn, CountedIn, Moves
<1>8. \A i \in 1 .. Buckets : BucketIn(bucket', i) = BucketIn(bucket, i)
  <2> SUFFICES ASSUME NEW i \in 1 .. Buckets, NEW q \in Requests
               PROVE  q \in BucketIn(bucket', i) <=> q \in BucketIn(bucket, i)
    BY DEF BucketIn, CountedIn
  <2> QED BY <1>2, <1>3 DEF BucketIn, CountedIn
<1>9. /\ When("histogram", "gauge", 1) = 0 /\ When("histogram", "counter", 1) = 0
      /\ When("histogram", "histogram", 1) = 1
  BY DEF When
<1>10. /\ Numbers!VecAt[stage[r]] = "histogram" /\ stage[r] \in DOMAIN Numbers!VecAt
       /\ "buckets" \in Numbers!Stages /\ 1 \in Int
  BY <1>1, Vectors
<1>11. UNCHANGED <<label, values, object>>
  BY <1>1
<1>12. /\ Moves(ActiveIn(stage), ActiveIn(stage'), r, When("histogram", "gauge", 1))
       /\ Moves(TotalIn(stage, bucket), TotalIn(stage', bucket'), r, When("histogram", "counter", 1))
       /\ Moves(CountedIn(bucket), CountedIn(bucket'), r, When("histogram", "histogram", 1))
  BY <1>5, <1>6, <1>7, <1>9
<1> QED BY <1>1, <1>2, <1>4, <1>8, <1>10, <1>11, <1>12, CountingKeeps, Zenon

LEMMA BucketKeeps == ASSUME CountInv, NEW r \in Requests, Numbers!AddToBucket(r) PROVE CountInv'
<1> DEFINE v == "histogram"
           o == object[r]
           k == bucket[r]
<1>1. /\ stage[r] = "buckets" /\ bucket[r] <= Buckets
      /\ RaisedAt(amount, amount', v, o, k)
      /\ bucket' = [bucket EXCEPT ![r] = @ + 1]
      /\ UNCHANGED <<label, values, stage, lookup, object>>
      /\ MetricTypes /\ Objects /\ Progress /\ IsTrue(label, values, amount, stage, bucket)
  BY DEF Numbers!AddToBucket, CountInv, RaisedAt
<1>2. /\ o \in Requests /\ o = values[v][label[r]] /\ label[o] = label[r] /\ o # None
      /\ label[r] \in Labels /\ v \in Numbers!Vecs
  BY <1>1, MetricNumbersAre DEF Objects, MetricTypes, Numbers!Vecs
<1>3. RankOf[r] \in Nat \ {0} /\ Buckets \in Nat /\ k \in 1 .. Buckets /\ RankOf[r] <= k
  BY <1>1, MetricNumbersAre DEF MetricTypes, Progress
<1>4. /\ bucket'[r] = k + 1 /\ \A q \in Requests \ {r} : bucket'[q] = bucket[q]
      /\ bucket' \in [Requests -> 0 .. Buckets + 1]
  BY <1>1, <1>3 DEF MetricTypes
<1> HIDE DEF v, o, k
<1>5. /\ amount' \in [Numbers!Vecs -> [Requests -> Numbers!Numbers]]
      /\ amount'[v][o].number = amount[v][o].number
      /\ amount'[v][o].buckets[k] = amount[v][o].buckets[k] + 1
      /\ \A j \in 1 .. Buckets : j # k =>
           amount'[v][o].buckets[j] = amount[v][o].buckets[j]
      /\ \A w \in Numbers!Vecs, p \in Requests :
           w # v \/ p # o => amount'[w][p] = amount[w][p]
  BY <1>1, <1>2, <1>3, BucketGrows, Zenon
<1>6. MetricTypes'
  BY <1>1, <1>4, <1>5 DEF MetricTypes
<1>7. Progress'
  BY <1>1, <1>3, <1>4 DEF Progress, k
<1>8. Objects'
  <2>1. ASSUME NEW w \in Numbers!Vecs, NEW p \in Requests, values[w][label[p]] # p
        PROVE  amount'[w][p] = amount[w][p]
    <3>1. ~(w = v /\ p = o)
      BY <1>2, <2>1
    <3> QED BY <1>5, <3>1, Zenon
  <2> QED BY <1>1, <2>1 DEF Objects
<1>9. ASSUME NEW w \in Numbers!Vecs, NEW l \in Labels
      PROVE  Shown(values, amount', w, l) = Shown(values, amount, w, l)
  <2>1. CASE values[w][l] = None
    BY <2>1 DEF Shown
  <2>2. CASE values[w][l] # None
    <3>1. values[w][l] \in Requests
      BY <1>1, <2>2 DEF MetricTypes
    <3>2. amount'[w][values[w][l]].number = amount[w][values[w][l]].number
      BY <1>5, <3>1
    <3> QED BY <2>2, <3>2 DEF Shown
  <2> QED BY <2>1, <2>2
<1>10. ASSUME NEW l \in Labels, NEW i \in 1 .. Buckets
       PROVE  ShownAt(values, amount', l, i)
                = ShownAt(values, amount, l, i) + Gain(label, r, l, When(i, k, 1))
  <2> DEFINE p == values[v][l]
  <2>1. CASE l = label[r]
    <3>1. p = o /\ Gain(label, r, l, When(i, k, 1)) = When(i, k, 1)
      BY <1>2, <2>1 DEF Gain
    <3>2. amount[v][o] \in Numbers!Numbers
      BY <1>1, <1>2 DEF MetricTypes
    <3>3. amount[v][o].buckets[i] \in Nat
      BY <3>2 DEF Numbers!Numbers
    <3>4. ShownAt(values, amount', l, i) = amount'[v][o].buckets[i]
          /\ ShownAt(values, amount, l, i) = amount[v][o].buckets[i]
      BY <1>2, <3>1 DEF ShownAt, v
    <3> QED BY <1>5, <3>1, <3>3, <3>4 DEF When
  <2>2. CASE l # label[r]
    <3>1. Gain(label, r, l, When(i, k, 1)) = 0
      BY <2>2 DEF Gain
    <3>2. p # None => p \in Requests /\ label[p] = l
      BY <1>1, <1>2 DEF MetricTypes, Objects
    <3>3. p # None => amount'[v][p] = amount[v][p]
      BY <1>2, <1>5, <2>2, <3>2
    <3>4. ShownAt(values, amount', l, i) = ShownAt(values, amount, l, i)
      BY <3>3 DEF ShownAt, v
    <3>5. p # None => amount[v][p] \in Numbers!Numbers
      BY <1>1, <1>2, <3>2 DEF MetricTypes
    <3>6. ShownAt(values, amount, l, i) \in Nat
      BY <3>5 DEF ShownAt, Numbers!Numbers, v
    <3> QED BY <3>1, <3>4, <3>6
  <2> QED BY <2>1, <2>2
<1>11. Gains(label, values, amount, values, amount', r, 0, 0, 0, k)
  <2>1. ASSUME NEW w \in Numbers!Vecs, NEW l \in Labels
        PROVE  Shown(values, amount', w, l) = Shown(values, amount, w, l) + Gain(label, r, l, 0)
    <3>1. Shown(values, amount, w, l) \in Int
      BY <1>1 DEF Shown, MetricTypes, Numbers!Numbers
    <3> QED BY <1>9, <3>1 DEF Gain
  <2> QED BY <1>10, <2>1, Zenon DEF Gains, Numbers!Vecs
<1>12. CountedIn(bucket') = CountedIn(bucket) /\ TotalIn(stage, bucket') = TotalIn(stage, bucket)
  <2>1. ASSUME NEW q \in Requests PROVE bucket'[q] > 0 <=> bucket[q] > 0
    BY <1>3, <1>4 DEF k
  <2>2. CountedIn(bucket') = CountedIn(bucket)
    BY <2>1 DEF CountedIn
  <2> QED BY <2>2, Zenon DEF TotalIn
<1>13. ASSUME NEW i \in 1 .. Buckets
       PROVE  Moves(BucketIn(bucket, i), BucketIn(bucket', i), r, When(i, k, 1))
  <2>1. ASSUME NEW q \in Requests \ {r}
        PROVE  q \in BucketIn(bucket', i) <=> q \in BucketIn(bucket, i)
    BY <1>4 DEF BucketIn, CountedIn
  <2>2. r \notin BucketIn(bucket, i) \/ i # k
    BY <1>3 DEF BucketIn, k
  <2>3. r \in BucketIn(bucket', i) <=> (r \in BucketIn(bucket, i) \/ i = k)
    BY <1>3, <1>4 DEF BucketIn, CountedIn, k
  <2>4. BucketIn(bucket, i) \subseteq Requests /\ BucketIn(bucket', i) \subseteq Requests
    BY DEF BucketIn, CountedIn
  <2>5. CASE i = k
    <3>1. BucketIn(bucket', i) = BucketIn(bucket, i) \cup {r}
      BY <2>1, <2>3, <2>4, <2>5
    <3> QED BY <2>2, <2>5, <3>1 DEF Moves, When
  <2>6. CASE i # k
    <3>1. BucketIn(bucket', i) = BucketIn(bucket, i)
      BY <2>1, <2>3, <2>4, <2>6
    <3> QED BY <2>6, <3>1 DEF Moves, When
  <2> QED BY <2>5, <2>6
<1>14. IsTrue(label, values, amount', stage, bucket')
  <2>1. /\ Moves(ActiveIn(stage), ActiveIn(stage), r, 0)
        /\ Moves(TotalIn(stage, bucket), TotalIn(stage, bucket'), r, 0)
        /\ Moves(CountedIn(bucket), CountedIn(bucket'), r, 0)
    BY <1>12 DEF Moves
  <2>2. IsTrue(label, values, amount, stage, bucket)
    BY <1>1
  <2> QED BY <1>11, <1>13, <2>1, <2>2, Tally, Zenon
<1> QED BY <1>1, <1>6, <1>7, <1>8, <1>14 DEF CountInv

LEMMA CountKeeps == CountInv /\ [Numbers!Next]_metricVars => CountInv'
<1> SUFFICES ASSUME CountInv, [Numbers!Next]_metricVars PROVE CountInv'
  OBVIOUS
<1>1. CASE UNCHANGED <<label, values, amount, stage, lookup, object, bucket>>
  BY <1>1 DEF CountInv, MetricTypes, Objects, Progress
<1>2. CASE UNCHANGED metricVars
  BY <1>1, <1>2 DEF metricVars
<1>3. CASE \E s \in Scrapes : Numbers!Writes(s)
  BY <1>1, <1>3
  DEF Numbers!Writes, Numbers!BeginVec, Numbers!BeginSeries, Numbers!WriteNumber, Numbers!EndSeries,
      Numbers!EndVec, Numbers!ScrapeAgain
<1>4. ASSUME NEW r \in Requests, Numbers!HandlerReturns(r) PROVE CountInv'
  BY <1>4, GoesKeeps, Vectors DEF Numbers!HandlerReturns
<1>5. ASSUME NEW r \in Requests, Numbers!HandlerPanics(r) PROVE CountInv'
  BY <1>5, GoesKeeps, Vectors DEF Numbers!HandlerPanics, Numbers!AfterPanic
<1>6. ASSUME NEW r \in Requests, Numbers!Observed(r) PROVE CountInv'
  BY <1>6, GoesKeeps, Vectors DEF Numbers!Observed
<1> QED
  BY <1>2, <1>3, <1>4, <1>5, <1>6, WithKeeps, EnterKeeps, TotalKeeps, ObserveKeeps, BucketKeeps,
     LeaveKeeps DEF Numbers!Next, Numbers!Middleware

\* What a scrape reads of a histogram, besides its buckets its count, twice.
At(vals, am, l, k) == IF k <= Buckets THEN ShownAt(vals, am, l, k) ELSE Shown(vals, am, "histogram", l)

CountedAt(nx, k) == IF k <= Buckets THEN BucketIn(nx, k) ELSE CountedIn(nx)

LEMMA AtIs ==
  ASSUME CountInv, NEW l \in Labels, NEW k \in Nat \ {0}
  PROVE  /\ At(values, amount, l, k) = HowMany(CountedAt(bucket, k), label, l)
         /\ At(values, amount, l, k) \in Nat
         /\ values["histogram"][l] # None => Numbers!NumberAt("histogram", l, k) = At(values, amount, l, k)
<1>1. IsTrue(label, values, amount, stage, bucket) /\ Buckets \in Nat
  BY MetricNumbersAre DEF CountInv
<1>2. At(values, amount, l, k) = HowMany(CountedAt(bucket, k), label, l)
  <2>1. CASE k <= Buckets
    <3>1. k \in 1 .. Buckets
      BY <1>1, <2>1
    <3> QED BY <1>1, <2>1, <3>1 DEF At, CountedAt, IsTrue
  <2>2. CASE ~(k <= Buckets)
    BY <1>1, <2>2 DEF At, CountedAt, IsTrue
  <2> QED BY <2>1, <2>2
<1>3. HowMany(CountedAt(bucket, k), label, l) \in Nat
  <2>1. IsFiniteSet(CountedAt(bucket, k))
    BY FewRequests, Zenon DEF CountedAt
  <2> QED BY <2>1, ManyIs, Zenon
<1>4. values["histogram"][l] # None =>
        Numbers!NumberAt("histogram", l, k) = At(values, amount, l, k)
  BY DEF Numbers!NumberAt, At, Shown, ShownAt
<1> QED BY <1>2, <1>3, <1>4

LEMMA MoreIsMore ==
  ASSUME NEW P, NEW Q, IsFiniteSet(Q), P \subseteq Q, NEW lab, NEW l
  PROVE  HowMany(P, lab, l) <= HowMany(Q, lab, l)
<1> DEFINE A == {x \in P : lab[x] = l}
           B == {x \in Q : lab[x] = l}
<1>1. A \subseteq B /\ B \subseteq Q
  OBVIOUS
<1> HIDE DEF A, B
<1>2. IsFiniteSet(B)
  BY <1>1, FS_Subset, Zenon
<1>3. Cardinality(A) <= Cardinality(B)
  BY <1>1, <1>2, FS_Subset, Zenon
<1> QED BY <1>3 DEF HowMany, A, B

\* A bucket may have more than a later one by the requests that are between the two.
LEMMA Between ==
  ASSUME CountInv, NEW l \in Labels, NEW i \in Nat \ {0}, NEW j \in Nat \ {0}, i < j,
         NEW D \in SUBSET Requests,
         \A q \in Requests : stage[q] = "buckets" /\ label[q] = l => q \in D
  PROVE  At(values, amount, l, i)
           <= At(values, amount, l, j) + (IF j > Buckets THEN 0 ELSE Cardinality(D))
<1>1. /\ At(values, amount, l, i) = HowMany(CountedAt(bucket, i), label, l)
      /\ At(values, amount, l, j) = HowMany(CountedAt(bucket, j), label, l)
      /\ At(values, amount, l, i) \in Nat /\ At(values, amount, l, j) \in Nat /\ Buckets \in Nat
  BY AtIs, MetricNumbersAre
<1>2. IsFiniteSet(CountedAt(bucket, j)) /\ IsFiniteSet(CountedIn(bucket))
  BY FewRequests, Zenon DEF CountedAt
<1>3. CASE j > Buckets
  <2>1. CountedAt(bucket, j) = CountedIn(bucket) /\ CountedAt(bucket, i) \subseteq CountedIn(bucket)
    BY <1>1, <1>3 DEF CountedAt, BucketIn
  <2>2. HowMany(CountedAt(bucket, i), label, l) <= HowMany(CountedAt(bucket, j), label, l)
    BY <1>2, <2>1, MoreIsMore, Zenon
  <2> QED BY <1>1, <1>3, <2>2
<1>4. CASE j <= Buckets
  <2> DEFINE A == {x \in CountedAt(bucket, i) : label[x] = l}
             B == {x \in CountedAt(bucket, j) : label[x] = l}
  <2>1. CountedAt(bucket, i) = BucketIn(bucket, i) /\ CountedAt(bucket, j) = BucketIn(bucket, j)
    BY <1>1, <1>4 DEF CountedAt
  <2>2. ASSUME NEW q \in A PROVE q \in B \cup D
    <3>1. q \in Requests /\ label[q] = l /\ bucket[q] > 0 /\ RankOf[q] <= i /\ i < bucket[q]
      BY <2>1, <2>2 DEF BucketIn, CountedIn
    <3>2. bucket[q] \in Nat /\ RankOf[q] \in Nat /\ Progress /\ stage[q] \in Numbers!Stages
      BY <3>1, MetricNumbersAre DEF CountInv, MetricTypes
    <3>3. CASE j < bucket[q]
      BY <2>1, <3>1, <3>2, <3>3 DEF BucketIn, CountedIn
    <3>4. CASE bucket[q] <= j
      <4>1. stage[q] = "buckets"
        BY <1>1, <1>4, <3>1, <3>2, <3>4, Vectors DEF Progress
      <4> QED BY <3>1, <4>1
    <3> QED BY <3>2, <3>3, <3>4
  <2>3. HowMany(CountedAt(bucket, i), label, l) = Cardinality(A)
        /\ HowMany(CountedAt(bucket, j), label, l) = Cardinality(B)
    BY DEF HowMany
  <2>4. B \subseteq CountedAt(bucket, j) /\ A \subseteq B \cup D
    BY <2>2
  <2> HIDE DEF A, B
  <2>5. IsFiniteSet(B) /\ IsFiniteSet(D)
    <3>1. IsFiniteSet(Requests) /\ D \subseteq Requests
      BY MetricNumbers, Zenon DEF Numbers!MetricsAssumption, Numbers!IsFiniteSet, IsFiniteSet
    <3> QED BY <1>2, <2>4, <3>1, FS_Subset, Zenon
  <2>6. IsFiniteSet(B \cup D) /\ Cardinality(B \cup D) = Cardinality(B) + Cardinality(D) - Cardinality(B \cap D)
    BY <2>5, FS_Union, Zenon
  <2>7. IsFiniteSet(B \cap D)
    <3>1. B \cap D \subseteq D
      OBVIOUS
    <3> QED BY <2>5, <3>1, FS_Subset, Zenon
  <2>8. Cardinality(A) <= Cardinality(B \cup D)
    BY <2>4, <2>6, FS_Subset, Zenon
  <2>9. Cardinality(A) \in Nat
    BY <1>1, <2>3
  <2>10. Cardinality(B) \in Nat /\ Cardinality(D) \in Nat /\ Cardinality(B \cap D) \in Nat
    BY <2>5, <2>7, FS_CardinalityType, Zenon
  <2>11. Cardinality(A) <= Cardinality(B) + Cardinality(D)
    BY <2>6, <2>8, <2>9, <2>10
  <2> QED BY <1>1, <1>4, <2>3, <2>11
<1> QED BY <1>1, <1>3, <1>4

\* What is exposed is never taken back, and the buckets and counts of histograms only grow.
LEMMA ShownGrows ==
  ASSUME CountInv, CountInv', label' = label, \A q \in Requests : bucket[q] <= bucket'[q],
         NEW l \in Labels, NEW k \in Nat \ {0}
  PROVE  At(values, amount, l, k) <= At(values', amount', l, k)
<1>1. At(values, amount, l, k) = HowMany(CountedAt(bucket, k), label, l)
  BY AtIs
<1>2. At(values', amount', l, k) = HowMany(CountedAt(bucket', k), label', l)
  <2>1. IsTrue(label', values', amount', stage', bucket') /\ Buckets \in Nat
    BY MetricNumbersAre DEF CountInv
  <2>2. CASE k <= Buckets
    <3>1. k \in 1 .. Buckets
      BY <2>1, <2>2
    <3> QED BY <2>1, <2>2, <3>1 DEF At, CountedAt, IsTrue
  <2>3. CASE ~(k <= Buckets)
    BY <2>1, <2>3 DEF At, CountedAt, IsTrue
  <2> QED BY <2>2, <2>3
<1>3. CountedAt(bucket, k) \subseteq CountedAt(bucket', k)
  <2>1. \A q \in Requests : bucket[q] \in Nat /\ bucket'[q] \in Nat
    BY MetricNumbersAre DEF CountInv, MetricTypes
  <2> QED BY <2>1 DEF CountedAt, BucketIn, CountedIn
<1>4. IsFiniteSet(CountedAt(bucket', k))
  BY FewRequests, Zenon DEF CountedAt
<1>5. HowMany(CountedAt(bucket, k), label, l) <= HowMany(CountedAt(bucket', k), label, l)
  BY <1>3, <1>4, MoreIsMore, Zenon
<1> QED BY <1>1, <1>2, <1>5

Series == [vec : Numbers!Vecs \cup {None}, label : Labels \cup {None}, left : SUBSET Labels,
           read : Seq(Int), todo : Seq(Numbers!Vecs)]

\* What is read of a histogram is at most what it has now.
ReadOf(c, vals, am) ==
  /\ \A k \in DOMAIN c.read : c.read[k] <= At(vals, am, c.label, k)
  /\ Len(c.read) <= Buckets + 2

\* ScrapesAreCumulative for the numbers r; D are the requests that overlap their reading.
Cumulates(r, D) ==
  \A i, j \in DOMAIN r : i < j => r[i] <= r[j] + (IF j > Buckets THEN 0 ELSE Cardinality(D))

Overlaps(st, lab, l) == {q \in Requests : st[q] = "buckets" /\ lab[q] = l}

\* The series c is being written.
Written(c, vals, am, st, lab, D) ==
  /\ c \in Series /\ D \in SUBSET Requests
  /\ c.vec = None => c.label = None /\ c.read = <<>>
  /\ c.vec # None => \A l \in c.left : vals[c.vec][l] # None
  /\ c.vec # None /\ c.label # None => vals[c.vec][c.label] # None
  /\ c.vec = "histogram" => Cumulates(c.read, D)
  /\ c.vec = "histogram" /\ c.label # None =>
       ReadOf(c, vals, am) /\ Overlaps(st, lab, c.label) \subseteq D

ScrapesInv ==
  /\ CountInv
  /\ DOMAIN scrape = Scrapes /\ DOMAIN during = Scrapes
  /\ \A s \in Scrapes : Written(scrape[s], values, amount, stage, label, during[s])

LEMMA IdleIs ==
  /\ Numbers!Idle \in Series /\ Numbers!Idle.vec = None /\ Numbers!Idle.label = None
  /\ Numbers!Idle.read = <<>>
BY DEF Numbers!Idle, Series, Numbers!Vecs

LEMMA IdleIsWritten ==
  ASSUME NEW vals, NEW am, NEW st, NEW lab PROVE Written(Numbers!Idle, vals, am, st, lab, {})
<1>1. None # "histogram"
  BY MetricNumbersAre DEF Numbers!Vecs
<1> QED BY <1>1, IdleIs DEF Written

\* A request goes on while series are written.
LEMMA RequestsKeep ==
  ASSUME ScrapesInv, CountInv', NEW s \in Scrapes, label' = label,
         \A q \in Requests : bucket[q] <= bucket'[q],
         \A v \in Numbers!Vecs, l \in Labels : values[v][l] # None => values'[v][l] # None,
         scrape'[s] = scrape[s], during[s] \subseteq during'[s], during'[s] \subseteq Requests,
         scrape[s].vec = "histogram" /\ scrape[s].label # None =>
           Overlaps(stage', label, scrape[s].label) \subseteq during'[s]
  PROVE  Written(scrape'[s], values', amount', stage', label', during'[s])
<1> DEFINE c == scrape[s]
<1>1. /\ Written(c, values, amount, stage, label, during[s]) /\ CountInv
      /\ c \in Series
  BY DEF ScrapesInv, Written
<1>2. c.vec = "histogram" /\ c.label # None => ReadOf(c, values', amount')
  <2> SUFFICES ASSUME c.vec = "histogram", c.label # None PROVE ReadOf(c, values', amount')
    OBVIOUS
  <2>1. /\ c.label \in Labels /\ ReadOf(c, values, amount) /\ c.read \in Seq(Int)
    BY <1>1 DEF Written, Series
  <2>2. ASSUME NEW k \in DOMAIN c.read PROVE c.read[k] <= At(values', amount', c.label, k)
    <3>1. k \in Nat \ {0} /\ c.read[k] \in Int
      BY <2>1
    <3>2. c.read[k] <= At(values, amount, c.label, k)
      BY <2>1 DEF ReadOf
    <3>3. At(values, amount, c.label, k) <= At(values', amount', c.label, k)
      BY <1>1, <2>1, <3>1, ShownGrows
    <3>4. At(values, amount, c.label, k) \in Nat
      BY <1>1, <2>1, <3>1, AtIs
    <3>5. At(values', amount', c.label, k) \in Int
      <4>1. /\ values' \in [Numbers!Vecs -> [Labels -> Requests \cup {None}]]
            /\ amount' \in [Numbers!Vecs -> [Requests -> Numbers!Numbers]]
        BY DEF CountInv, MetricTypes
      <4> DEFINE p == values'["histogram"][c.label]
      <4>2. "histogram" \in Numbers!Vecs /\ (p # None => p \in Requests)
        BY <2>1, <4>1 DEF Numbers!Vecs
      <4>3. p # None => amount'["histogram"][p] \in Numbers!Numbers
        BY <4>1, <4>2
      <4>4. p # None => amount'["histogram"][p].number \in Int
                        /\ \A i \in 1 .. Buckets : amount'["histogram"][p].buckets[i] \in Int
        <5>1. \A a \in Numbers!Numbers : a.number \in Int /\ a.buckets \in [1 .. Buckets -> Nat]
          BY DEF Numbers!Numbers
        <5>2. ASSUME NEW a \in Numbers!Numbers, NEW i \in 1 .. Buckets PROVE a.buckets[i] \in Int
          <6> DEFINE B == a.buckets
          <6>1. B \in [1 .. Buckets -> Nat]
            BY <5>1
          <6> HIDE DEF B
          <6>2. B[i] \in Int
            BY <6>1
          <6> QED BY <6>2 DEF B
        <5> QED BY <4>3, <5>1, <5>2, Zenon
      <4>5. k <= Buckets => k \in 1 .. Buckets
        BY <3>1, MetricNumbersAre
      <4> QED BY <4>4, <4>5 DEF At, Shown, ShownAt
    <3> QED BY <3>1, <3>2, <3>3, <3>4, <3>5
  <2> QED BY <2>1, <2>2 DEF ReadOf
<1>3. c.vec = "histogram" => Cumulates(c.read, during'[s])
  <2> SUFFICES ASSUME c.vec = "histogram" PROVE Cumulates(c.read, during'[s])
    OBVIOUS
  <2>1. Cumulates(c.read, during[s]) /\ c.read \in Seq(Int)
    BY <1>1 DEF Written, Series
  <2>2. IsFiniteSet(during'[s])
    <3>1. IsFiniteSet(Requests)
      BY MetricNumbers, Zenon DEF Numbers!MetricsAssumption, Numbers!IsFiniteSet, IsFiniteSet
    <3> QED BY <3>1, FS_Subset, Zenon
  <2>3. IsFiniteSet(during[s]) /\ Cardinality(during[s]) <= Cardinality(during'[s])
    BY <2>2, FS_Subset, Zenon
  <2>4. Cardinality(during[s]) \in Nat /\ Cardinality(during'[s]) \in Nat
    BY <2>2, <2>3, FS_CardinalityType, Zenon
  <2>5. ASSUME NEW i \in DOMAIN c.read, NEW j \in DOMAIN c.read, i < j
        PROVE  c.read[i] <= c.read[j] + (IF j > Buckets THEN 0 ELSE Cardinality(during'[s]))
    <3>1. c.read[i] <= c.read[j] + (IF j > Buckets THEN 0 ELSE Cardinality(during[s]))
      BY <2>1, <2>5 DEF Cumulates
    <3>2. c.read[i] \in Int /\ c.read[j] \in Int
      BY <2>1
    <3> QED BY <2>3, <2>4, <3>1, <3>2
  <2> QED BY <2>5 DEF Cumulates
<1>4. c.vec # None => (\A l \in c.left : values'[c.vec][l] # None)
                      /\ (c.label # None => values'[c.vec][c.label] # None)
  BY <1>1 DEF Written, Series
<1> QED BY <1>1, <1>2, <1>3, <1>4 DEF Written

\* What series are written from does not change, and the series of other scrapes are left alone.
LEMMA OneWrites ==
  ASSUME ScrapesInv, NEW s \in Scrapes,
         UNCHANGED <<label, values, amount, stage, lookup, object, bucket>>,
         DOMAIN scrape' = Scrapes, DOMAIN during' = Scrapes,
         \A x \in Scrapes \ {s} : scrape'[x] = scrape[x] /\ during'[x] = during[x],
         Written(scrape'[s], values, amount, stage, label, during'[s])
  PROVE  ScrapesInv'
<1>1. CountInv'
  BY DEF ScrapesInv, CountInv, MetricTypes, Objects, Progress
<1>2. ASSUME NEW x \in Scrapes
      PROVE  Written(scrape'[x], values', amount', stage', label', during'[x])
  <2>1. CASE x = s
    BY <2>1
  <2>2. CASE x # s
    BY <2>2 DEF ScrapesInv
  <2> QED BY <2>1, <2>2
<1> QED BY <1>1, <1>2 DEF ScrapesInv

\* BeginVec, EndSeries and EndVec read nothing.
LEMMA BeginVecKeeps == ASSUME ScrapesInv, NEW s \in Scrapes, Numbers!BeginVec(s) PROVE ScrapesInv'
<1> DEFINE c == scrape[s]
           d == scrape'[s]
           v == Head(c.todo)
<1>1. /\ c.vec = None /\ c.todo # <<>>
      /\ scrape' = [scrape EXCEPT ![s].vec = v, ![s].left = Numbers!Present(v), ![s].todo = Tail(@)]
      /\ UNCHANGED <<label, values, amount, stage, lookup, object, bucket, during>>
  BY DEF Numbers!BeginVec
<1>2. Written(c, values, amount, stage, label, during[s]) /\ DOMAIN scrape = Scrapes
  BY DEF ScrapesInv
<1>3. c \in Series /\ c.label = None /\ c.read = <<>> /\ c.todo \in Seq(Numbers!Vecs)
  BY <1>1, <1>2 DEF Written, Series
<1>4. v \in Numbers!Vecs /\ Tail(c.todo) \in Seq(Numbers!Vecs)
  BY <1>1, <1>3
<1>5. /\ d = [c EXCEPT !.vec = v, !.left = Numbers!Present(v), !.todo = Tail(c.todo)]
      /\ DOMAIN scrape' = Scrapes /\ \A x \in Scrapes \ {s} : scrape'[x] = scrape[x]
  BY <1>1, <1>2
<1>6. Numbers!Present(v) \subseteq Labels /\ \A l \in Numbers!Present(v) : values[v][l] # None
  BY DEF Numbers!Present
<1> HIDE DEF v, c, d
<1>7. /\ d \in Series /\ d.vec = v /\ d.label = None /\ d.read = <<>>
      /\ d.left = Numbers!Present(v)
  BY <1>3, <1>4, <1>5, <1>6 DEF Series
<1>8. Written(d, values, amount, stage, label, during[s])
  <2>1. v # None
    BY <1>4, MetricNumbersAre
  <2>2. during[s] \in SUBSET Requests
    BY <1>2 DEF Written
  <2>3. Cumulates(<<>>, during[s])
    BY DEF Cumulates
  <2> QED BY <1>6, <1>7, <2>1, <2>2, <2>3 DEF Written
<1> QED BY <1>1, <1>5, <1>8, OneWrites DEF ScrapesInv, d

LEMMA EndSeriesKeeps == ASSUME ScrapesInv, NEW s \in Scrapes, Numbers!EndSeries(s) PROVE ScrapesInv'
<1> DEFINE c == scrape[s]
           d == scrape'[s]
<1>1. /\ scrape' = [scrape EXCEPT ![s].label = None]
      /\ UNCHANGED <<label, values, amount, stage, lookup, object, bucket, during>>
  BY DEF Numbers!EndSeries
<1>2. Written(c, values, amount, stage, label, during[s]) /\ DOMAIN scrape = Scrapes /\ c \in Series
  BY DEF ScrapesInv, Written
<1>3. d = [c EXCEPT !.label = None] /\ \A x \in Scrapes \ {s} : scrape'[x] = scrape[x]
  BY <1>1, <1>2
<1> HIDE DEF c, d
<1>4. /\ d \in Series /\ d.vec = c.vec /\ d.label = None /\ d.read = c.read /\ d.left = c.left
  BY <1>2, <1>3 DEF Series
<1>5. Written(d, values, amount, stage, label, during[s])
  BY <1>2, <1>4 DEF Written
<1> QED BY <1>1, <1>3, <1>5, OneWrites DEF ScrapesInv, d

LEMMA EndVecKeeps == ASSUME ScrapesInv, NEW s \in Scrapes, Numbers!EndVec(s) PROVE ScrapesInv'
<1> DEFINE c == scrape[s]
           d == scrape'[s]
<1>1. /\ scrape' = [scrape EXCEPT ![s].vec = None, ![s].read = <<>>] /\ c.label = None
      /\ UNCHANGED <<label, values, amount, stage, lookup, object, bucket, during>>
  BY DEF Numbers!EndVec
<1>2. Written(c, values, amount, stage, label, during[s]) /\ DOMAIN scrape = Scrapes /\ c \in Series
  BY DEF ScrapesInv, Written
<1>3. d = [c EXCEPT !.vec = None, !.read = <<>>] /\ \A x \in Scrapes \ {s} : scrape'[x] = scrape[x]
  BY <1>1, <1>2
<1> HIDE DEF c, d
<1>4. /\ d \in Series /\ d.vec = None /\ d.label = None /\ d.read = <<>>
  <2>1. c \in Series /\ c.label = None /\ <<>> \in Seq(Int)
    BY <1>1, <1>2
  <2> QED BY <1>3, <2>1 DEF Series
<1>5. Written(d, values, amount, stage, label, during[s])
  <2>1. None # "histogram"
    BY MetricNumbersAre DEF Numbers!Vecs
  <2> QED BY <1>2, <1>4, <2>1 DEF Written
<1> QED BY <1>1, <1>3, <1>5, OneWrites DEF ScrapesInv, d

LEMMA AgainKeeps == ASSUME ScrapesInv, NEW s \in Scrapes, Numbers!ScrapeAgain(s) PROVE ScrapesInv'
<1>1. /\ scrape' = [scrape EXCEPT ![s] = Numbers!Idle] /\ during' = [during EXCEPT ![s] = {}]
      /\ UNCHANGED <<label, values, amount, stage, lookup, object, bucket>>
  BY DEF Numbers!ScrapeAgain
<1>2. /\ scrape'[s] = Numbers!Idle /\ during'[s] = {}
      /\ DOMAIN scrape' = Scrapes /\ DOMAIN during' = Scrapes
      /\ \A x \in Scrapes \ {s} : scrape'[x] = scrape[x] /\ during'[x] = during[x]
  BY <1>1 DEF ScrapesInv
<1> QED BY <1>1, <1>2, OneWrites, IdleIsWritten

\* The first number of a series, and what overlaps its reading from the start.
LEMMA BeginSeriesKeeps == ASSUME ScrapesInv, NEW s \in Scrapes, Numbers!BeginSeries(s) PROVE ScrapesInv'
<1> DEFINE c == scrape[s]
           d == scrape'[s]
<1>1. c.vec # None /\ UNCHANGED <<label, values, amount, stage, lookup, object, bucket>>
  BY DEF Numbers!BeginSeries
<1>2. PICK l \in c.left :
        /\ scrape' = [scrape EXCEPT ![s].label = l, ![s].left = @ \ {l},
                                    ![s].read = <<Numbers!NumberAt(c.vec, l, 1)>>]
        /\ during' = [during EXCEPT ![s] = Overlaps(stage, label, l)]
  BY DEF Numbers!BeginSeries, Numbers!Rest, Overlaps
<1>3. /\ Written(c, values, amount, stage, label, during[s]) /\ c \in Series /\ CountInv
      /\ DOMAIN scrape = Scrapes /\ DOMAIN during = Scrapes
  BY DEF ScrapesInv, Written
<1> DEFINE n == Numbers!NumberAt(c.vec, l, 1)
<1>4. c.vec \in Numbers!Vecs /\ c.left \subseteq Labels /\ l \in Labels /\ values[c.vec][l] # None
  BY <1>1, <1>3 DEF Written, Series
<1>5. n \in Int
  <2>1. amount[c.vec][values[c.vec][l]] \in Numbers!Numbers
    BY <1>3, <1>4 DEF CountInv, MetricTypes
  <2>2. \A a \in Numbers!Numbers : a.number \in Int /\ a.buckets \in [1 .. Buckets -> Nat]
    BY DEF Numbers!Numbers
  <2>3. amount[c.vec][values[c.vec][l]].number \in Int
        /\ (1 <= Buckets => amount[c.vec][values[c.vec][l]].buckets[1] \in Int)
    BY <2>1, <2>2, MetricNumbersAre
  <2> QED BY <2>3 DEF Numbers!NumberAt
<1>6. /\ d = [c EXCEPT !.label = l, !.left = c.left \ {l}, !.read = <<n>>]
      /\ DOMAIN scrape' = Scrapes /\ DOMAIN during' = Scrapes /\ during'[s] = Overlaps(stage, label, l)
      /\ \A x \in Scrapes \ {s} : scrape'[x] = scrape[x] /\ during'[x] = during[x]
  BY <1>2, <1>3
<1>7. c.vec = "histogram" => n = At(values, amount, l, 1)
  BY <1>3, <1>4, AtIs
<1> HIDE DEF n, d
<1>8. /\ d \in Series /\ d.vec = c.vec /\ d.label = l /\ d.left \subseteq c.left /\ d.read = <<n>>
  <2>1. <<n>> \in Seq(Int) /\ c.left \ {l} \in SUBSET Labels
    BY <1>4, <1>5
  <2> QED BY <1>3, <1>4, <1>6, <2>1 DEF Series
<1>9. ReadOf(d, values, amount) \/ c.vec # "histogram"
  BY <1>5, <1>7, <1>8, MetricNumbersAre DEF ReadOf
<1>10. Cumulates(d.read, during'[s])
  BY <1>8 DEF Cumulates
<1>11. Written(d, values, amount, stage, label, during'[s])
  <2>1. during'[s] \in SUBSET Requests
    BY <1>6 DEF Overlaps
  <2> QED BY <1>1, <1>3, <1>4, <1>6, <1>8, <1>9, <1>10, <2>1 DEF Written
<1> QED BY <1>1, <1>6, <1>11, OneWrites DEF d

LEMMA WriteNumberKeeps == ASSUME ScrapesInv, NEW s \in Scrapes, Numbers!WriteNumber(s) PROVE ScrapesInv'
<1> DEFINE c == scrape[s]
           d == scrape'[s]
           D == during[s]
           k == Len(c.read) + 1
           n == Numbers!NumberAt(c.vec, c.label, k)
<1>1. /\ c.label # None /\ Len(c.read) < Numbers!Width(c.vec)
      /\ scrape' = [scrape EXCEPT ![s].read = Append(@, n)]
      /\ UNCHANGED <<label, values, amount, stage, lookup, object, bucket, during>>
  BY DEF Numbers!WriteNumber
<1>2. /\ Written(c, values, amount, stage, label, D) /\ c \in Series /\ CountInv
      /\ DOMAIN scrape = Scrapes
  BY DEF ScrapesInv, Written
<1>3. d = [c EXCEPT !.read = Append(c.read, n)] /\ \A x \in Scrapes \ {s} : scrape'[x] = scrape[x]
  BY <1>1, <1>2
<1>4. /\ c.vec \in Numbers!Vecs /\ c.label \in Labels /\ values[c.vec][c.label] # None
      /\ c.read \in Seq(Int) /\ k \in Nat \ {0}
  BY <1>1, <1>2 DEF Written, Series
<1>5. n \in Int
  <2>1. amount[c.vec][values[c.vec][c.label]] \in Numbers!Numbers
    BY <1>2, <1>4 DEF CountInv, MetricTypes
  <2>2. \A a \in Numbers!Numbers : a.number \in Int /\ a.buckets \in [1 .. Buckets -> Nat]
    BY DEF Numbers!Numbers
  <2> DEFINE a == amount[c.vec][values[c.vec][c.label]]
  <2>3. a.number \in Int /\ a.buckets \in [1 .. Buckets -> Nat]
    BY <2>1, <2>2
  <2>4. k <= Buckets => k \in 1 .. Buckets
    BY <1>4, MetricNumbersAre
  <2> DEFINE b == a.buckets
  <2> HIDE DEF a, b, k
  <2>5. b \in [1 .. Buckets -> Nat]
    BY <2>3 DEF b
  <2>6. k <= Buckets => b[k] \in Int
    BY <2>4, <2>5
  <2> QED BY <2>3, <2>6 DEF Numbers!NumberAt, a, b
<1>6. c.vec = "histogram" => n = At(values, amount, c.label, k)
  BY <1>2, <1>4, AtIs
<1>7. c.vec = "histogram" => k <= Buckets + 2
  BY <1>1, <1>4, MetricNumbersAre DEF Numbers!Width
<1> HIDE DEF n, d
<1>8. /\ d \in Series /\ d.vec = c.vec /\ d.label = c.label /\ d.left = c.left
      /\ d.read = Append(c.read, n)
  <2> HIDE DEF c
  <2>1. Append(c.read, n) \in Seq(Int)
    BY <1>4, <1>5
  <2> QED BY <1>2, <1>3, <2>1 DEF Series
<1>9. /\ Len(d.read) = k /\ d.read[k] = n /\ DOMAIN d.read = 1 .. k /\ DOMAIN c.read = 1 .. k - 1
      /\ \A i \in 1 .. k - 1 : d.read[i] = c.read[i] /\ c.read[i] \in Int
  BY <1>4, <1>5, <1>8
<1> HIDE DEF k
<1>10. ASSUME c.vec = "histogram"
       PROVE  ReadOf(d, values, amount) /\ Cumulates(d.read, D)
  <2>1. /\ ReadOf(c, values, amount) /\ Cumulates(c.read, D)
        /\ Overlaps(stage, label, c.label) \subseteq D /\ D \in SUBSET Requests
    BY <1>1, <1>2, <1>10 DEF Written
  <2>2. \A i \in 1 .. k - 1 : c.read[i] <= At(values, amount, c.label, i)
    BY <1>9, <2>1 DEF ReadOf
  <2>3. n = At(values, amount, c.label, k) /\ k <= Buckets + 2
    BY <1>6, <1>7, <1>10
  <2>4. \A i \in 1 .. k : d.read[i] <= At(values, amount, c.label, i)
    BY <1>4, <1>5, <1>9, <2>2, <2>3
  <2>5. ASSUME NEW i \in 1 .. k - 1
        PROVE  c.read[i] <= n + (IF k > Buckets THEN 0 ELSE Cardinality(D))
    <3>1. i \in Nat \ {0} /\ i < k
      BY <1>4
    <3>2. \A q \in Requests : stage[q] = "buckets" /\ label[q] = c.label => q \in D
      BY <2>1 DEF Overlaps
    <3>3. At(values, amount, c.label, i)
            <= At(values, amount, c.label, k) + (IF k > Buckets THEN 0 ELSE Cardinality(D))
      BY <1>2, <1>4, <2>1, <3>1, <3>2, Between
    <3>4. At(values, amount, c.label, i) \in Nat
      BY <1>2, <1>4, <3>1, AtIs
    <3>5. c.read[i] <= At(values, amount, c.label, i) /\ c.read[i] \in Int
      BY <1>9, <2>2
    <3>6. Cardinality(D) \in Nat
      <4>1. IsFiniteSet(Requests) /\ D \subseteq Requests
        BY <2>1, MetricNumbers, Zenon DEF Numbers!MetricsAssumption, Numbers!IsFiniteSet, IsFiniteSet
      <4> HIDE DEF D
      <4> QED BY <4>1, FS_Subset, FS_CardinalityType, Zenon
    <3> HIDE DEF D, c
    <3> QED BY <1>5, <2>3, <3>3, <3>4, <3>5, <3>6
  <2>6. ASSUME NEW i \in 1 .. k, NEW j \in 1 .. k, i < j
        PROVE  d.read[i] <= d.read[j] + (IF j > Buckets THEN 0 ELSE Cardinality(D))
    <3>1. CASE j = k
      BY <1>4, <1>9, <2>5, <2>6, <3>1
    <3>2. CASE j # k
      <4>1. i \in 1 .. k - 1 /\ j \in 1 .. k - 1
        BY <1>4, <2>6, <3>2
      <4>2. c.read[i] <= c.read[j] + (IF j > Buckets THEN 0 ELSE Cardinality(D))
        BY <1>9, <2>1, <2>6, <4>1 DEF Cumulates
      <4> QED BY <1>9, <4>1, <4>2
    <3> QED BY <3>1, <3>2
  <2> QED BY <1>8, <1>9, <2>3, <2>4, <2>6 DEF ReadOf, Cumulates
<1>11. Written(d, values, amount, stage, label, D)
  BY <1>1, <1>2, <1>4, <1>8, <1>10 DEF Written
<1> QED BY <1>1, <1>3, <1>11, OneWrites DEF ScrapesInv, d

LEMMA WritesKeep == ASSUME ScrapesInv, NEW s \in Scrapes, Numbers!Writes(s) PROVE ScrapesInv'
BY BeginVecKeeps, BeginSeriesKeeps, WriteNumberKeeps, EndSeriesKeeps, EndVecKeeps, AgainKeeps
DEF Numbers!Writes

\* The steps of requests: only Observe begins to add to buckets, and it is remembered.
LEMMA MiddlewareKeeps ==
  ASSUME ScrapesInv, NEW r \in Requests,
         Numbers!Middleware(r) \/ Numbers!HandlerReturns(r) \/ Numbers!HandlerPanics(r)
  PROVE  ScrapesInv'
<1>1. CountInv'
  BY CountKeeps DEF Numbers!Next, ScrapesInv
<1>2. /\ MetricTypes /\ Progress /\ DOMAIN during = Scrapes /\ DOMAIN scrape = Scrapes
      /\ \A q \in Requests : bucket[q] \in Nat /\ RankOf[q] \in Nat
  BY MetricNumbersAre DEF ScrapesInv, CountInv, MetricTypes
<1>3. label' = label /\ scrape' = scrape
  BY DEF Numbers!Middleware, Numbers!With, Numbers!Look, Numbers!AskForLock, Numbers!Make,
         Numbers!Enter, Numbers!CountTotal, Numbers!Observe, Numbers!AddToBucket, Numbers!Observed,
         Numbers!Leave, Numbers!HandlerReturns, Numbers!HandlerPanics
<1>4. \A q \in Requests : bucket[q] <= bucket'[q]
  <2>1. CASE Numbers!Observe(r)
    <3>1. bucket[r] = 0 /\ bucket' = [bucket EXCEPT ![r] = RankOf[r]]
      BY <1>2, <2>1 DEF Numbers!Observe, Progress
    <3> QED BY <1>2, <3>1 DEF MetricTypes
  <2>2. CASE Numbers!AddToBucket(r)
    <3>1. bucket' = [bucket EXCEPT ![r] = @ + 1]
      BY <2>2 DEF Numbers!AddToBucket
    <3> QED BY <1>2, <3>1 DEF MetricTypes
  <2>3. CASE bucket' = bucket
    BY <1>2, <2>3
  <2> QED
    BY <2>1, <2>2, <2>3
    DEF Numbers!Middleware, Numbers!With, Numbers!Look, Numbers!AskForLock, Numbers!Make,
        Numbers!Enter, Numbers!CountTotal, Numbers!Observed, Numbers!Leave, Numbers!HandlerReturns,
        Numbers!HandlerPanics
<1>5. \A v \in Numbers!Vecs, l \in Labels : values[v][l] # None => values'[v][l] # None
  <2>1. CASE Numbers!Make(r)
    <3> DEFINE v == Numbers!VecAt[stage[r]]
               o == values[v][label[r]]
               f == IF o = None THEN r ELSE o
    <3>1. values' = [values EXCEPT ![v][label[r]] = f] /\ stage[r] \in DOMAIN Numbers!VecAt
      BY <2>1 DEF Numbers!Make, Numbers!Found, Numbers!VecOf, Numbers!Looks
    <3>2. v \in Numbers!Vecs /\ label[r] \in Labels /\ f # None
      BY <1>2, <3>1, Vectors, MetricNumbersAre DEF MetricTypes
    <3> HIDE DEF v, f
    <3> QED BY <1>2, <3>1, <3>2 DEF MetricTypes
  <2>2. CASE values' = values
    BY <2>2
  <2> QED
    BY <2>1, <2>2
    DEF Numbers!Middleware, Numbers!With, Numbers!Look, Numbers!AskForLock, Numbers!Enter,
        Numbers!CountTotal, Numbers!Observe, Numbers!AddToBucket, Numbers!Observed, Numbers!Leave,
        Numbers!HandlerReturns, Numbers!HandlerPanics
<1>6. ASSUME NEW s \in Scrapes
      PROVE  /\ during[s] \subseteq during'[s] /\ during'[s] \subseteq Requests
             /\ scrape[s].vec = "histogram" /\ scrape[s].label # None =>
                  Overlaps(stage', label, scrape[s].label) \subseteq during'[s]
  <2>1. /\ during[s] \subseteq Requests
        /\ scrape[s].vec = "histogram" /\ scrape[s].label # None =>
             Overlaps(stage, label, scrape[s].label) \subseteq during[s]
    BY DEF ScrapesInv, Written
  <2>2. CASE Numbers!Observe(r)
    <3>1. /\ during'[s] = IF scrape[s].vec = "histogram" /\ scrape[s].label = label[r]
                          THEN during[s] \cup {r} ELSE during[s]
          /\ stage' = [stage EXCEPT ![r] = "buckets"]
      BY <1>2, <2>2 DEF Numbers!Observe, Numbers!Adds, Numbers!To
    <3> QED BY <1>2, <2>1, <3>1 DEF Overlaps, MetricTypes
  <2>3. CASE during' = during /\ \A q \in Requests : stage'[q] = "buckets" => stage[q] = "buckets"
    BY <2>1, <2>3 DEF Overlaps
  <2>4. during' = during /\ stage' = stage => during' = during
          /\ \A q \in Requests : stage'[q] = "buckets" => stage[q] = "buckets"
    OBVIOUS
  <2>5. \A t \in {"handler", "total", "leave", "duration", "done"} :
          during' = during /\ stage' = [stage EXCEPT ![r] = t] => during' = during
            /\ \A q \in Requests : stage'[q] = "buckets" => stage[q] = "buckets"
    BY <1>2 DEF MetricTypes
  <2>6. CASE Numbers!With(r) \/ Numbers!AddToBucket(r)
    BY <2>3, <2>4, <2>6
    DEF Numbers!With, Numbers!Look, Numbers!AskForLock, Numbers!Make, Numbers!AddToBucket
  <2>7. CASE Numbers!Enter(r) \/ Numbers!CountTotal(r) \/ Numbers!Leave(r)
    BY <2>3, <2>5, <2>7 DEF Numbers!Enter, Numbers!CountTotal, Numbers!Leave, Numbers!Adds, Numbers!To
  <2>8. CASE Numbers!Observed(r) \/ Numbers!HandlerReturns(r) \/ Numbers!HandlerPanics(r)
    BY <2>3, <2>5, <2>8
    DEF Numbers!Observed, Numbers!HandlerReturns, Numbers!HandlerPanics, Numbers!AfterPanic, Numbers!To
  <2> QED BY <2>2, <2>6, <2>7, <2>8 DEF Numbers!Middleware
<1>7. DOMAIN during' = Scrapes
  BY <1>2
  DEF Numbers!Middleware, Numbers!With, Numbers!Look, Numbers!AskForLock, Numbers!Make,
      Numbers!Enter, Numbers!CountTotal, Numbers!Observe, Numbers!AddToBucket, Numbers!Observed,
      Numbers!Leave, Numbers!HandlerReturns, Numbers!HandlerPanics
<1>8. \A s \in Scrapes : Written(scrape'[s], values', amount', stage', label', during'[s])
  BY <1>1, <1>3, <1>4, <1>5, <1>6, RequestsKeep
<1> QED BY <1>1, <1>2, <1>3, <1>7, <1>8 DEF ScrapesInv

LEMMA MetricsKeep == ScrapesInv /\ [Numbers!Next]_metricVars => ScrapesInv'
<1> SUFFICES ASSUME ScrapesInv, [Numbers!Next]_metricVars PROVE ScrapesInv'
  OBVIOUS
<1>1. CASE UNCHANGED metricVars
  <2>1. UNCHANGED <<label, values, amount, stage, lookup, object, bucket, scrape, during>>
    BY <1>1 DEF metricVars
  <2> QED BY <2>1 DEF ScrapesInv, CountInv, MetricTypes, Objects, Progress
<1> QED BY <1>1, WritesKeep, MiddlewareKeeps DEF Numbers!Next

LEMMA MetricsStart == Numbers!Init => ScrapesInv
<1> SUFFICES ASSUME Numbers!Init PROVE ScrapesInv
  OBVIOUS
<1>1. scrape = [s \in Scrapes |-> Numbers!Idle] /\ during = [s \in Scrapes |-> {}]
  BY DEF Numbers!Init
<1> QED BY <1>1, CountStart, IdleIsWritten DEF ScrapesInv

\* MetricsAreTrue, which is checked with two requests and two buckets, holds for any requests with
\* any labels and durations, any number of buckets and any scrapes.
THEOREM MetricsHold == Spec => []MetricsAreTrue
<1>1. Init => ScrapesInv
  BY MetricsStart DEF Init
<1>2. ScrapesInv /\ [Next]_vars => ScrapesInv'
  <2>1. [Next]_vars => [Numbers!Next]_metricVars
    BY DEF Next, vars, metricVars
  <2> QED BY <2>1, MetricsKeep
<1>3. ScrapesInv => MetricsAreTrue
  <2> SUFFICES ASSUME ScrapesInv PROVE Numbers!NothingIsLost /\ Numbers!ScrapesAreCumulative
    BY DEF MetricsAreTrue
  <2>1. Numbers!NothingIsLost
    BY TruthIs DEF ScrapesInv, CountInv
  <2>2. \A s \in Scrapes : scrape[s].vec = "histogram" => Cumulates(scrape[s].read, during[s])
    BY DEF ScrapesInv, Written
  <2>3. \A S : Numbers!Cardinality(S) = Cardinality(S)
    BY Zenon DEF Numbers!Cardinality, Cardinality
  <2>4. Numbers!ScrapesAreCumulative
    BY <2>2, <2>3 DEF Numbers!ScrapesAreCumulative, Cumulates
  <2> QED BY <2>1, <2>4
<1> QED BY <1>1, <1>2, <1>3, PTL DEF Spec
=============================================================================
