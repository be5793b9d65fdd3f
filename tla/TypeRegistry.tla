----------------------------- MODULE TypeRegistry -----------------------------
(***************************************************************************)
(* schema.TypeRegistry: named types behind a sync.RWMutex, registries that *)
(* are merged into each other.  Every operation takes a lock, does its     *)
(* work inside, and releases it; Merge reads the other registry inside and *)
(* then takes its own.  A writer that waits keeps new readers out.         *)
(***************************************************************************)
EXTENDS FiniteSets

CONSTANTS None, Registries, Callers

NoneAssumption == None \notin Registries /\ None \notin Callers

VARIABLES types,    \* the registries: what a name stands for, one name being enough
          readers,  \* who holds a read lock
          writer,   \* who holds the write lock, or has asked for it and waits for the readers
          call,     \* what each caller does, and how far it is
          seen      \* what the registry that is read held when its lock was taken

vars == <<types, readers, writer, call, seen>>

Builtin == "builtin"
Types == {None, Builtin} \cup Callers
Nobody == [kind |-> "none", to |-> None, from |-> None, at |-> "idle"]

\* Readers: Lookup, Has, Names, Count, All, Filter and Clone.
Calls ==
  [kind : {"register", "remove", "clear"}, to : Registries, from : {None}, at : {"lock"}]
    \cup [kind : {"read"}, to : {None}, from : Registries, at : {"rlock"}]
    \cup [kind : {"merge", "overwrite"}, to : Registries, from : Registries, at : {"rlock"}]

TypeOK ==
  /\ types \in [Registries -> Types]
  /\ readers \in [Registries -> SUBSET Callers]
  /\ writer \in [Registries -> Callers \cup {None}]
  /\ \A c \in Callers : \E k \in Calls \cup {Nobody} :
       call[c] \in {[k EXCEPT !.at = at] : at \in {"idle", "rlock", "lock", "wait", "inside"}}
  /\ seen \in [Callers -> Types]

\* NewTypeRegistry, or NewTypeRegistryWithBuiltins.
Init ==
  /\ types \in [Registries -> {None, Builtin}]
  /\ readers = [r \in Registries |-> {}]
  /\ writer = [r \in Registries |-> None]
  /\ call = [c \in Callers |-> Nobody]
  /\ seen = [c \in Callers |-> None]

Begin(c) ==
  /\ call[c] = Nobody
  /\ \E k \in Calls : call' = [call EXCEPT ![c] = k]
  /\ UNCHANGED <<types, readers, writer, seen>>

\* RLock: not while a writer is inside or waits.
ReadLock(c) ==
  LET from == call[c].from
  IN /\ call[c].at = "rlock"
     /\ writer[from] = None
     /\ readers' = [readers EXCEPT ![from] = @ \cup {c}]
     /\ seen' = [seen EXCEPT ![c] = types[from]]
     /\ call' = [call EXCEPT ![c].at = IF call[c].to = None THEN "inside" ELSE "lock"]
     /\ UNCHANGED <<types, writer>>

\* Lock, in two steps: from the first one on no reader comes in, and those that are inside
\* are waited for.
AskForLock(c) ==
  /\ call[c].at = "lock"
  /\ writer[call[c].to] = None
  /\ writer' = [writer EXCEPT ![call[c].to] = c]
  /\ call' = [call EXCEPT ![c].at = "wait"]
  /\ UNCHANGED <<types, readers, seen>>

\* Mutant: the readers are not waited for.
Unread(r) == TRUE

Unoccupied(r) == readers[r] = {}

WriteLock(c) ==
  /\ call[c].at = "wait"
  /\ Unoccupied(call[c].to)
  /\ call' = [call EXCEPT ![c].at = "inside"]
  /\ UNCHANGED <<types, readers, writer, seen>>

\* What a registry holds after an operation.
After(c, k) ==
  CASE k.kind = "register" -> c
    [] k.kind = "remove" -> None
    [] k.kind = "clear" -> Builtin
    [] k.kind = "overwrite" -> IF types[k.from] # None THEN types[k.from] ELSE types[k.to]
    [] k.kind = "merge" -> IF types[k.to] # None THEN types[k.to] ELSE types[k.from]

\* Mutant: the other registry stays locked.
ReleaseOwn(c) ==
  /\ writer' = [r \in Registries |-> IF writer[r] = c THEN None ELSE writer[r]]
  /\ UNCHANGED readers

Release(c) ==
  /\ writer' = [r \in Registries |-> IF writer[r] = c THEN None ELSE writer[r]]
  /\ readers' = [r \in Registries |-> readers[r] \ {c}]

Finish(c) ==
  LET k == call[c]
  IN /\ k.at = "inside"
     /\ types' = IF k.to = None THEN types ELSE [types EXCEPT ![k.to] = After(c, k)]
     /\ Release(c)
     /\ call' = [call EXCEPT ![c] = Nobody]
     /\ seen' = [seen EXCEPT ![c] = None]

Step(c) == ReadLock(c) \/ AskForLock(c) \/ WriteLock(c) \/ Finish(c)

\* Some callers wait, and none of those that are busy can go on: they stay for ever.
Cannot(c) ==
  LET k == call[c]
  IN \/ k.at = "rlock" /\ writer[k.from] # None
     \/ k.at = "lock" /\ writer[k.to] # None
     \/ k.at = "wait" /\ ~Unoccupied(k.to)
Busy == {c \in Callers : call[c] # Nobody}
Stuck == Busy # {} /\ \A c \in Busy : Cannot(c)
Stay == Busy = Callers /\ Stuck /\ UNCHANGED vars

Next == Stay \/ \E c \in Callers : Begin(c) \/ Step(c)

Spec == Init /\ [][Next]_vars

-----------------------------------------------------------------------------
\* Nobody is inside a registry with a writer that is inside, and what is read does not change
\* as long as it is read.
ReadsAreStable ==
  \A c \in Callers :
    /\ call[c].from # None /\ call[c].at \in {"lock", "wait", "inside"} =>
         types[call[c].from] = seen[c]
    /\ call[c].at = "inside" /\ call[c].to # None =>
         readers[call[c].to] = {} /\ writer[call[c].to] = c

\* Callers are stuck only if merges under way lead from a registry back to it: two that go in
\* opposite directions, or one of a registry into itself.
MergesUnderWay ==
  {<<call[c].from, call[c].to>> :
     c \in {c \in Busy : call[c].kind \in {"merge", "overwrite"} /\ call[c].at \in {"lock", "wait"}}}
OnlyCyclesAreStuck ==
  Stuck => \E R \in SUBSET MergesUnderWay :
             R # {} /\ \A m \in R : \E n \in R : n[1] = m[2]
=============================================================================
