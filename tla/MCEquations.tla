---------------------------- MODULE MCEquations ----------------------------
(***************************************************************************)
(* Small instances of Equations.  Three equations a, b, c use each other   *)
(* in many ways; u may be in the dataset or undefined, s is swept, p and q *)
(* are properties of circuits, q used by p only, and g a generated name.   *)
(***************************************************************************)
EXTENDS Equations

CONSTANTS a, b, c, u, s, p, q, g

User(list) == [i \in DOMAIN list |-> <<list[i], "user">>]

MCName == {a, b, c, u, s, p, q, g}
MCGenerated == {g}
MCProperty == {p, q}
MCNetlists == {User(<<a, b, c>>), User(<<b, a>>) \o <<<<a, "again">>>>}
MCUses == {{}, {a}, {b}, {c}, {a, b}, {b, c}, {a, s}, {c, u}, {g}, {p}}
Table(f, ofProperty) ==
  [v \in MCName |-> IF v \in DOMAIN f THEN f[v] ELSE IF v = p THEN ofProperty ELSE {}]
MCUseTables ==
  {Table(f, S) : f \in [{a, b, c} -> MCUses], S \in {{}, {a}}}
    \union {Table(f, {q}) : f \in [{a, b, c} -> {{}, {a}, {p}}]}
MCSweeps == {{s}, {p}, {}}
MCDatasets == {{u}, {b}, {}}

\* Four equations that use at most one other each.
MCFour == {User(<<a, b, c, u>>)}
MCFourUses == {Table(f, {}) : f \in [{a, b, c, u} -> {{}, {a}, {b}, {c}, {u}}]}
MCNoSweep == {{}}
MCNoData == {{}}
=============================================================================
