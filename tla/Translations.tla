---------------------------- MODULE Translations ----------------------------
(***************************************************************************)
(* The versions of a model (src/sbvr-api/translations.ts), the oldest one  *)
(* first and the one of the database last, and the tables of a version as  *)
(* its permissions constrain them (getBoundConstrainedMemoizer).           *)
(*                                                                         *)
(* A table is known by its name, its version and the check that its rows   *)
(* are filtered by.  Fields are abstracted, and so is the SQL of a         *)
(* definition but for the tables it reads: the one in its From, and those  *)
(* it reads in its Select or Where besides.                                *)
(***************************************************************************)
EXTENDS PermissionFilters

CONSTANTS
  Versions,   \* how many versions there are
  Named,      \* the resources of each version
  Translated, \* those of each version that have a translation definition;
              \* computed fields count as one
  ToResource, \* the resource of the next version that each is read from
  Inner       \* resources of the next version read in Select or Where

ASSUME TranslationAssumption ==
  /\ Versions \in Nat \ {0}
  /\ Named[Versions] = Resources
  /\ \A v \in 1..(Versions - 1) :
       /\ Translated[v] \subseteq Named[v]
       /\ \A n \in Named[v] : /\ ToResource[v][n] \in Named[v + 1]
                              /\ Inner[v][n] \subseteq Named[v + 1]
                              /\ n \notin Translated[v] => /\ ToResource[v][n] = n
                                                           /\ Inner[v][n] = {}

\* $bypass: the rows as they are.
Bypass == [op |-> "bypass"]
TableOf(n, v, as) == [name |-> n, version |-> v, as |-> as]
Behind(t, as) == TableOf(ToResource[t.version][t.name], t.version + 1, as)

\* The renames that a request goes through on its way to the database.
RECURSIVE FinalName(_, _)
FinalName(n, v) == IF v = Versions THEN n ELSE FinalName(ToResource[v][n], v + 1)

\* Fault: the table that a definition is read from is read as for a GET.
AsForGet(t) == IF t.as = Bypass THEN Behind(t, Bypass) ELSE Behind(t, MethodCheck("GET"))

\* createBypassDefinition and createVersionSpecificPermissionDefinition: the
\* table that a definition is read from is read as the definition is.
FromTable(t) == Behind(t, t.as)

\* What it reads besides keeps its own permissions, those of a GET.
InnerTables(t) ==
  {TableOf(n, t.version + 1, IF t.as = Bypass THEN Bypass ELSE MethodCheck("GET"))
     : n \in Inner[t.version][t.name]}

\* The tables of the database that t comes to, by From or by Select and Where.
RECURSIVE Base(_)
Base(t) == IF t.version = Versions THEN t ELSE Base(FromTable(t))

RECURSIVE InnerBases(_)
InnerBases(t) ==
  IF t.version = Versions THEN {}
  ELSE InnerBases(FromTable(t))
       \cup UNION {{Base(i)} \cup InnerBases(i) : i \in InnerTables(t)}
=============================================================================
