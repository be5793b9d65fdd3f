----------------------------- MODULE ToolRegistry -----------------------------
(***************************************************************************)
(* mcp.ToolRegistry and its NameGenerator.  A tool is built in two steps,  *)
(* each under a mutex of its own: a name is generated and marked as used,  *)
(* then the tool is registered under it.  A name is a sequence of letters. *)
(***************************************************************************)
EXTENDS Naturals, Sequences, FiniteSets, SequencesExt, FiniteSetsExt

CONSTANTS Operations,       \* of upstreams
          BaseName,         \* BaseName[op]: upstream and operation, sanitized
          Excluded,         \* the operations whose tool an exclude pattern fits
          Builders,         \* goroutines that build tools
          Numeral,          \* Numeral[c]: how fmt.Sprintf writes a count, a sequence of digits
          MaxLen,           \* of a name: 64 in the code
          MaxBuilds,        \* bound: how many tools are built
          None

\* Different counts are written differently, without an underscore, and fit into a name.
ToolAssumption ==
  /\ MaxLen \in Nat /\ MaxBuilds \in Nat
  /\ \A c \in 1 .. MaxBuilds :
       /\ Numeral[c] \in Seq(ToSet(Numeral[c]) \ {"_"}) /\ Len(Numeral[c]) < MaxLen
       /\ \A d \in 1 .. MaxBuilds : Numeral[c] = Numeral[d] => c = d
  /\ \A o \in Operations : BaseName[o] \in Seq(ToSet(BaseName[o]))
  /\ None \notin Operations

VARIABLES tools,            \* r.tools: a function of names
          used, generated,  \* of the name generator: names, and counts by base
          op, name,         \* op[b]: what b builds, or None; name[b]: its name, or None
          builds,
          expected,         \* history: the tools registered and not taken out since
          overtaken         \* history: builders whose name was forgotten by Clear
toolVars == <<tools, used, generated, op, name, builds, expected, overtaken>>

NoTools == [n \in {} |-> None]

TypeOK ==
  /\ \A n \in DOMAIN tools : tools[n] \in Operations /\ Len(n) \in 1 .. MaxLen
  /\ \A n \in used : Len(n) \in 1 .. MaxLen
  /\ \A n \in DOMAIN generated : generated[n] \in Nat
  /\ op \in [Builders -> Operations \cup {None}]
  /\ builds \in 0 .. MaxBuilds
  /\ overtaken \subseteq Builders

Init ==
  /\ tools = NoTools
  /\ used = {} /\ generated = NoTools
  /\ op = [b \in Builders |-> None]
  /\ name = [b \in Builders |-> None]
  /\ builds = 0
  /\ expected = {} /\ overtaken = {}

-----------------------------------------------------------------------------
\* truncateName: at the last underscore, if that keeps more than half.
Truncate(n, max) ==
  LET underscores == {i \in 1 .. max : n[i] = "_"}
      cut == Max(underscores \cup {0}) - 1      \* letters before the last one
  IN IF Len(n) <= max THEN n
     ELSE IF cut > 0 /\ cut > max \div 2 THEN SubSeq(n, 1, cut)
     ELSE SubSeq(n, 1, max)

\* The longer the count, the more of the name is cut.
Counted(base, count) ==
  LET suffix == <<"_">> \o Numeral[count]
  IN Truncate(base, MaxLen - Len(suffix)) \o suffix

Count(base) == IF base \in DOMAIN generated THEN generated[base] ELSE 0

\* Mutant: a name with a count is taken without asking whether it is in use.
NextCount(base) == Count(base) + 1

\* The loop of Generate: the count of the name chosen.  MaxBuilds names are not all in use.
FreeCount(base) ==
  IF base \notin used THEN Count(base)
  ELSE Min({c \in Count(base) + 1 .. MaxBuilds : Counted(base, c) \notin used})

\* Generate or GenerateFromPath, under the generator's mutex.
GenerateName(b, o) ==
  LET base == Truncate(BaseName[o], MaxLen)
      n == IF base \in used THEN Counted(base, FreeCount(base)) ELSE base
  IN /\ op[b] = None
     /\ builds < MaxBuilds
     /\ builds' = builds + 1
     /\ op' = [op EXCEPT ![b] = o]
     /\ name' = [name EXCEPT ![b] = n]
     /\ used' = used \cup {n}
     /\ generated' = [m \in DOMAIN generated \cup {base} |->
                        IF m = base THEN FreeCount(base) ELSE generated[m]]
     /\ overtaken' = overtaken \ {b}
     /\ UNCHANGED <<tools, expected>>

Done(b) ==
  /\ op' = [op EXCEPT ![b] = None]
  /\ name' = [name EXCEPT ![b] = None]

\* An excluded tool keeps its name and is not registered.
Skip(b) ==
  /\ op[b] \in Excluded
  /\ Done(b)
  /\ UNCHANGED <<tools, used, generated, builds, expected, overtaken>>

\* Register, under the registry's mutex: a tool of that name is replaced.
Register(b) ==
  /\ op[b] # None /\ op[b] \notin Excluded
  /\ tools' = [n \in DOMAIN tools \cup {name[b]} |-> IF n = name[b] THEN op[b] ELSE tools[n]]
  /\ expected' = expected \cup {[name |-> name[b], op |-> op[b], late |-> b \in overtaken]}
  /\ Done(b)
  /\ UNCHANGED <<used, generated, builds, overtaken>>

\* The name stays in use.
Unregister(n) ==
  /\ n \in DOMAIN tools
  /\ tools' = [m \in DOMAIN tools \ {n} |-> tools[m]]
  /\ expected' = {e \in expected : e.name # n}
  /\ UNCHANGED <<used, generated, op, name, builds, overtaken>>

\* Both mutexes are held: the names of the tools that are being built are forgotten too.
Clear ==
  /\ tools' = NoTools
  /\ used' = {} /\ generated' = NoTools
  /\ expected' = {}
  /\ overtaken' = {b \in Builders : op[b] # None}
  /\ UNCHANGED <<op, name, builds>>

Next ==
  \/ \E b \in Builders :
       Skip(b) \/ Register(b) \/ \E o \in Operations : GenerateName(b, o)
  \/ \E n \in DOMAIN tools : Unregister(n)
  \/ Clear

Spec == Init /\ [][Next]_toolVars

-----------------------------------------------------------------------------
(* What is claimed *)

\* No tool replaces another one, however names collide, are cut or look like a name
\* with a count, unless a Clear came between the two steps of building a tool.
ToolsAreKept ==
  (\A e \in expected : ~e.late) => \A e \in expected : e.name \in DOMAIN tools /\ tools[e.name] = e.op
=============================================================================
