----------------------------- MODULE FecSizing -----------------------------
(***************************************************************************)
(* How many packets and groups FecAgent gives a round between the end      *)
(* points of a connection, from the congestion window of the moment.       *)
(***************************************************************************)
EXTENDS FecConfig

CONSTANTS FecMode,      \* "Static" or "Dynamic"
          BoundMode,    \* "IN" or "OUT"
          Fmax          \* largest dynamic group, 0 for none (m_fmax)

ASSUME ModesAssumption == FecMode \in {"Static", "Dynamic"} /\ BoundMode \in {"IN", "OUT"}
ASSUME FmaxAssumption == Fmax \in Nat

\* FecAgent::RedundancyControl: packets and groups of the next round for a
\* congestion window of win segments.
RoundSize(win) ==
  LET fits     == win >= Fwin * NGroups + NGroups
      cap(f)   == IF Fmax # 0 /\ f >= Fmax THEN Fmax ELSE f
      outside  == IF win < NGroups THEN 1 ELSE NGroups
      round(f, n) == [fwin |-> f * n, nGroups |-> n]
  IN  CASE FecMode = "Static" /\ BoundMode = "OUT" -> round(Fwin, NGroups)
        [] FecMode = "Dynamic" /\ BoundMode = "OUT" -> round(cap(win \div outside), outside)
        [] BoundMode = "IN" /\ ~fits -> round(win, 1)
        [] FecMode = "Static" /\ BoundMode = "IN" /\ fits -> round(Fwin, NGroups)
        [] FecMode = "Dynamic" /\ BoundMode = "IN" /\ fits ->
             round(cap((win - NGroups) \div NGroups), NGroups)
=============================================================================
